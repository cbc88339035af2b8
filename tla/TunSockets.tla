----------------------------- MODULE TunSockets -----------------------------
(***************************************************************************)
(* The user-space sockets behind the TUN device: tun/src/lib.rs, socket/   *)
(* and iface/.                                                             *)
(*                                                                         *)
(* Everything lives in one structure behind one mutex.  The listener       *)
(* (TunListen::poll_next) reads packets of applications from the device,   *)
(* runs them through the interface, wakes the readers concerned, prunes    *)
(* released sockets and hands out new ones.  The sender (TunWrite::poll)   *)
(* lets the sockets emit packets and wakes writers.  Connection handlers   *)
(* read and write through TunTcpSocket and TunUdpSocket, and park with     *)
(* their wakers in two maps keyed by socket handle.  Every poll holds the  *)
(* mutex throughout; an iteration of poll_next is cut into steps here,     *)
(* with the mutex held (pc # "idle") from the first to the last.           *)
(*                                                                         *)
(* The sockets are smoltcp's (external): their states are merged as far as *)
(* may_recv, may_send, is_open and prune do not tell them apart.  Payload  *)
(* is counted in units.                                                    *)
(***************************************************************************)
EXTENDS Naturals, Sequences, FiniteSets

CONSTANTS
  Handle,        \* slots of the socket set, which grows: as many as there are
                 \* flows at a time (Room)
  TcpFlow,       \* connections applications open (source and destination)
  UdpEndpoint,   \* destinations of datagrams
  RxCap, TxCap,  \* capacity of a socket's receive and transmit buffer
  RingCap,       \* MAX_PACKETS of the phony socket's receive ring
  TunCap,        \* bound: packets waiting in the device
  MaxObjects,    \* bound: clones of one socket object alive at a time
  DeviceErrors,  \* may reading from or writing to the device fail?
  None           \* empty slot

Flow == TcpFlow \cup UdpEndpoint
Control == {"syn", "ack", "data", "fin", "rst"}

(* A frame that does not parse, and the buffer left behind when reading    *)
(* the device would block.                                                 *)
Bad == [flow |-> None, ctl |-> "bad"]
Empty == [flow |-> None, ctl |-> "empty"]

TcpState == {"listen", "syn", "est", "peer_closed", "we_closed",
             "both_closed", "time_wait", "closed"}

(* rx, tx: what the buffers hold; unsent: the part of tx not yet emitted;  *)
(* ctl: a SYN|ACK or FIN is still to be emitted; owes: a segment without   *)
(* data is, which acknowledges or only tells the peer of a larger window;  *)
(* refs: reference count.                                                  *)
Owing == {"nothing", "window", "ack"}
Socket == [flow : Flow, state : TcpState \cup {"udp"}, rx : 0 .. RxCap,
           tx : 0 .. TxCap, unsent : 0 .. TxCap, ctl : BOOLEAN, owes : Owing,
           refs : Nat]

ASSUME TunAssumption ==
  /\ TcpFlow \cap UdpEndpoint = {}
  /\ IsFiniteSet(Handle) /\ IsFiniteSet(Flow)
  /\ RxCap \in Nat \ {0}
  /\ TxCap \in Nat \ {0}
  /\ RingCap \in Nat \ {0}
  /\ TunCap \in Nat
  /\ MaxObjects \in Nat
  /\ DeviceErrors \in BOOLEAN
  /\ None \notin Socket \cup Flow

VARIABLES
  sock,       \* Tun.sockets
  pending,    \* Tun.new_sockets: number of objects of each handle in it
  rtask,      \* Tun.socket_read_tasks: is there a waker for the handle?
  wtask,      \* Tun.socket_write_tasks
  twtask,     \* Tun.tun_write_task
  rx,         \* PhonySocket.rx
  txring,     \* is PhonySocket.tx non-empty?
  pc,         \* the listener: "idle" when it does not hold the mutex
  before,     \* its before_handle
  tw,         \* the TunWrite task
  objs,       \* objects of each handle that handlers hold
  rd, wr,     \* the reading and the writing side of each handler:
              \* "none", "ready", "parked" or "done"
  term,       \* Tun.to_terminate
  tunq,       \* external: packets waiting in the device
  app         \* external: the application's end of each connection

vars == <<sock, pending, rtask, wtask, twtask, rx, txring, pc, before, tw,
          objs, rd, wr, term, tunq, app>>
tasks == <<rtask, wtask, twtask, tw, rd, wr>>

Init ==
  /\ sock = [h \in Handle |-> None]
  /\ pending = [h \in Handle |-> 0]
  /\ rtask = [h \in Handle |-> FALSE]
  /\ wtask = [h \in Handle |-> FALSE]
  /\ twtask = FALSE
  /\ rx = <<>>
  /\ txring = FALSE
  /\ pc = "idle"
  /\ before = {}
  /\ tw = "ready"
  /\ objs = [h \in Handle |-> 0]
  /\ rd = [h \in Handle |-> "none"]
  /\ wr = [h \in Handle |-> "none"]
  /\ term = FALSE
  /\ tunq = <<>>
  /\ app = [f \in TcpFlow |-> "none"]

-----------------------------------------------------------------------------
(* smoltcp (external) *)

MayRecv(s) == s.state \in {"est", "we_closed"} \/ s.rx > 0
CanRecv(s) == s.rx > 0
MaySend(s) == s.state \in {"est", "peer_closed", "udp"}
CanSend(s) == MaySend(s) /\ s.tx < TxCap
IsOpen(s) == s.state \notin {"closed", "time_wait"}

(* Something the peer waits for is to be sent: data, a SYN|ACK or FIN, or  *)
(* an acknowledgement.                                                     *)
Due(s) == s.unsent > 0 \/ s.ctl \/ s.owes = "ack"

Emits(s) == Due(s) \/ s.owes = "window"

Reset(s) == [s EXCEPT !.state = "closed", !.tx = 0, !.unsent = 0, !.ctl = FALSE,
                      !.owes = "nothing"]

NewSocket(f) ==
  [flow |-> f, state |-> IF f \in TcpFlow THEN "listen" ELSE "udp",
   rx |-> 0, tx |-> 0, unsent |-> 0, ctl |-> FALSE, owes |-> "nothing", refs |-> 1]

(* TcpSocket::process and UdpSocket::process for a segment the socket      *)
(* accepts.                                                                *)
Process(s, c) ==
  CASE c = "syn" /\ s.state = "listen" -> [s EXCEPT !.state = "syn", !.ctl = TRUE]
    [] c = "ack" /\ s.state = "syn"    -> [s EXCEPT !.state = "est"]
    [] c = "ack" /\ s.state = "both_closed" /\ ~s.ctl -> Reset(s)
    [] c = "ack" /\ s.state # "syn" /\ (s.state = "both_closed" => s.ctl)
                                       -> [s EXCEPT !.tx = s.unsent]
    [] c = "data" /\ s.state = "udp" /\ s.rx < RxCap -> [s EXCEPT !.rx = @ + 1]
    [] c = "data" /\ s.state \in {"est", "we_closed"} /\ s.rx < RxCap
         -> [s EXCEPT !.rx = @ + 1, !.owes = "ack"]
    [] c = "fin" /\ s.state = "est"    -> [s EXCEPT !.state = "peer_closed", !.owes = "ack"]
    [] c = "fin" /\ s.state = "we_closed"
         -> [s EXCEPT !.state = IF s.ctl THEN "both_closed" ELSE "time_wait", !.owes = "ack"]
    [] c = "rst" /\ s.state = "syn"    -> [s EXCEPT !.state = "listen", !.ctl = FALSE]
    [] c = "rst" /\ s.state \notin {"listen", "syn"} -> Reset(s)
    [] OTHER                           -> s

Accepts(s, p) == s.flow = p.flow /\ (s.state = "listen" => p.ctl = "syn")
                                 /\ s.state # "closed"

(* Dispatch, repeated until the socket has nothing more to emit. *)
Dispatched(s) ==
  [s EXCEPT !.unsent = 0, !.ctl = FALSE, !.owes = "nothing",
            !.tx = IF s.state = "udp" THEN 0 ELSE s.tx]

(* TcpSocket::close. *)
Closed(s) ==
  CASE s.state \in {"syn", "est"}  -> [s EXCEPT !.state = "we_closed", !.ctl = TRUE]
    [] s.state = "peer_closed"     -> [s EXCEPT !.state = "both_closed", !.ctl = TRUE]
    [] s.state = "listen"          -> Reset(s)
    [] OTHER                       -> s

(* SocketSet::prune: a socket nobody refers to is removed if it is a UDP   *)
(* socket or a closed connection, and closed otherwise.                    *)
Prune(s) ==
  IF s = None \/ s.refs > 0 THEN s
  ELSE IF s.state \in {"udp", "closed"} THEN None
  ELSE Closed(s)

Live(h) == sock[h] # None

-----------------------------------------------------------------------------
(* The applications and the kernel's end of the device (external): at most *)
(* one connection per flow.                                                *)

Waiting(p) == \E q \in {tunq, rx} : \E i \in 1 .. Len(q) : q[i] = p

(* Something of the flow has been emitted and not been acknowledged.       *)
Unacknowledged(f) ==
  \E h \in Handle : /\ Live(h) /\ sock[h].flow = f
                    /\ \/ sock[h].tx > sock[h].unsent
                       \/ sock[h].state = "both_closed" /\ ~sock[h].ctl

(* Bound: the flows with a socket, or with a packet on its way to one, at  *)
(* a time.  The code's socket set has no bound.                            *)
Present ==
  {f \in Flow : \/ \E h \in Handle : Live(h) /\ sock[h].flow = f
                \/ \E c \in Control : Waiting([flow |-> f, ctl |-> c])}
Room(p) == p = Bad \/ Cardinality(Present \cup {p.flow}) <= Cardinality(Handle)

Sends(p) ==
  /\ pc \notin {"ended", "panicked"}
  /\ Len(tunq) < TunCap
  /\ Room(p)
  /\ tunq' = Append(tunq, p)

AppSends(f, c) ==
  /\ Sends([flow |-> f, ctl |-> c])
  /\ \/ c = "syn" /\ app[f] = "none" /\ app' = [app EXCEPT ![f] = "connecting"]
     \/ c = "ack" /\ app[f] = "connected" /\ app' = [app EXCEPT ![f] = "open"]
     \/ c = "ack" /\ app[f] \in {"open", "finished"} /\ UNCHANGED app
          /\ Unacknowledged(f) /\ ~Waiting([flow |-> f, ctl |-> c])
     \/ c = "data" /\ app[f] = "open" /\ UNCHANGED app
     \/ c = "fin" /\ app[f] = "open" /\ app' = [app EXCEPT ![f] = "finished"]
     \/ c = "rst" /\ app[f] \notin {"none", "gone"} /\ app' = [app EXCEPT ![f] = "gone"]
  /\ UNCHANGED <<sock, pending, tasks, rx, txring, pc, before, objs, term>>

DatagramSent(u) ==
  /\ Sends([flow |-> u, ctl |-> "data"])
  /\ UNCHANGED <<sock, pending, tasks, rx, txring, pc, before, objs, term, app>>

BadFrameSent ==
  /\ Sends(Bad)
  /\ UNCHANGED <<sock, pending, tasks, rx, txring, pc, before, objs, term, app>>

(* A SYN|ACK leaves the device: the application is connected. *)
Connect(emitting) ==
  app' = [f \in TcpFlow |->
            IF app[f] = "connecting" /\ \E h \in emitting : sock[h].flow = f
                                                            /\ sock[h].state = "syn"
            THEN "connected" ELSE app[f]]

-----------------------------------------------------------------------------
(* Waking a task takes its waker out of the map. *)

WakeReaders(H) ==
  /\ rtask' = [h \in Handle |-> rtask[h] /\ h \notin H]
  /\ rd' = [h \in Handle |-> IF h \in H /\ rtask[h] /\ rd[h] = "parked"
                             THEN "ready" ELSE rd[h]]

WakeWriters(H) ==
  /\ wtask' = [h \in Handle |-> wtask[h] /\ h \notin H]
  /\ wr' = [h \in Handle |-> IF h \in H /\ wtask[h] /\ wr[h] = "parked"
                             THEN "ready" ELSE wr[h]]

WakeSender ==
  /\ twtask' = FALSE
  /\ tw' = IF twtask /\ tw = "parked" THEN "ready" ELSE tw

(* The listener runs on the main thread: when it is over, so is the        *)
(* process with all its tasks.                                             *)
MutexFree == pc = "idle"

-----------------------------------------------------------------------------
(* TunListen::poll_next, one iteration of its loop *)

Polling == pc = "idle" /\ ~term

ListenEnds ==
  /\ pc = "idle" /\ term
  /\ pc' = "ended"
  /\ UNCHANGED <<sock, pending, tasks, rx, txring, before, objs, term, tunq, app>>

(* A new socket is returned, and a handler is spawned for it. *)
Accept(h) ==
  /\ Polling
  /\ pending[h] > 0
  /\ pending' = [pending EXCEPT ![h] = @ - 1]
  /\ objs' = [objs EXCEPT ![h] = @ + 1]
  /\ rd' = [rd EXCEPT ![h] = "ready"]
  /\ wr' = [wr EXCEPT ![h] = "ready"]
  /\ UNCHANGED <<sock, rtask, wtask, twtask, tw, rx, txring, pc, before, term, tunq, app>>

NoneNew == \A h \in Handle : pending[h] = 0

(* may_recv_tun_handles *)
MayRecvTunHandles(socks) ==
  {h \in Handle : socks[h] # None /\ (socks[h].state = "udp" \/ MayRecv(socks[h]))}

(* Fault: the buffer is given back when there was nothing to read. *)
IdlePollGivesBack ==
  /\ Polling /\ NoneNew
  /\ tunq = <<>> /\ Len(rx) < RingCap
  /\ UNCHANGED vars

(* Nothing to read: the cleared buffer stays in the ring. *)
IdlePoll ==
  /\ Polling /\ NoneNew
  /\ tunq = <<>> /\ Len(rx) < RingCap
  /\ rx' = Append(rx, Empty)
  /\ UNCHANGED <<sock, pending, tasks, txring, pc, before, objs, term, tunq, app>>

ReadFails ==
  /\ DeviceErrors
  /\ Polling /\ NoneNew
  /\ Len(rx) < RingCap
  /\ pc' = "panicked"
  /\ UNCHANGED <<sock, pending, tasks, rx, txring, before, objs, term, tunq, app>>

(* As many packets as there are, or as fit into the ring. *)
ReadCount == IF Len(tunq) < RingCap - Len(rx) THEN Len(tunq) ELSE RingCap - Len(rx)

(* Fault: sockets still in their handshake count as handed out. *)
PopulateAll ==
  /\ Polling /\ NoneNew
  /\ tunq # <<>> \/ Len(rx) = RingCap
  /\ rx' = rx \o SubSeq(tunq, 1, ReadCount)
              \o (IF Len(rx) + ReadCount < RingCap THEN <<Empty>> ELSE <<>>)
  /\ tunq' = SubSeq(tunq, ReadCount + 1, Len(tunq))
  /\ before' = {h \in Handle : Live(h)}
  /\ pc' = "ingress"
  /\ UNCHANGED <<sock, pending, tasks, txring, objs, term, app>>

Populate ==
  /\ Polling /\ NoneNew
  /\ tunq # <<>> \/ Len(rx) = RingCap
  /\ rx' = rx \o SubSeq(tunq, 1, ReadCount)
              \o (IF Len(rx) + ReadCount < RingCap THEN <<Empty>> ELSE <<>>)
  /\ tunq' = SubSeq(tunq, ReadCount + 1, Len(tunq))
  /\ before' = MayRecvTunHandles(sock)
  /\ pc' = "ingress"
  /\ UNCHANGED <<sock, pending, tasks, txring, objs, term, app>>

(* process_tcp and process_udp: the packet goes to the socket that accepts *)
(* it, or to a socket created for it; any other segment is answered with a *)
(* reset and changes nothing.                                              *)
Deliver(p) ==
  IF \E h \in Handle : Live(h) /\ Accepts(sock[h], p)
  THEN \E h \in Handle : /\ Live(h) /\ Accepts(sock[h], p)
                         /\ sock' = [sock EXCEPT ![h] = Process(@, p.ctl)]
  ELSE IF Accepts(NewSocket(p.flow), p)
  THEN \E h \in Handle : /\ ~Live(h)
                         /\ sock' = [sock EXCEPT ![h] = Process(NewSocket(p.flow), p.ctl)]
  ELSE sock' = sock

(* A datagram that finds the receive buffer of its socket full. *)
Overflows(p) ==
  \E h \in Handle : Live(h) /\ Accepts(sock[h], p) /\ sock[h].state = "udp"
                            /\ sock[h].rx = RxCap

(* An error ends Interface::poll_read, whatever is left in the ring.       *)
AfterPacket(failed) == pc' = IF failed THEN "notify" ELSE "ingress"

(* An RST that TcpSocket::process drops is not answered: the error goes on *)
(* to poll_read.                                                           *)
RstDropped(p) ==
  p.ctl = "rst" /\ \E h \in Handle : Live(h) /\ Accepts(sock[h], p)

(* process_ipv4 and the dispatch of its reply, which fails when the        *)
(* transmit ring is full.                                                  *)
Ingress ==
  /\ pc = "ingress" /\ rx # <<>>
  /\ rx' = Tail(rx)
  /\ LET p == Head(rx)
     IN  \/ p = Empty /\ UNCHANGED <<sock, txring>> /\ AfterPacket(FALSE)
         \/ p = Bad /\ UNCHANGED <<sock, txring>> /\ AfterPacket(TRUE)
         \/ RstDropped(p) /\ UNCHANGED <<sock, txring>> /\ AfterPacket(TRUE)
         \/ /\ p \notin {Bad, Empty}
            /\ Deliver(p)
            /\ \/ txring' = txring /\ AfterPacket(Overflows(p))
               \/ p.flow \in TcpFlow /\ txring' = TRUE /\ AfterPacket(FALSE)
               \/ p.flow \in TcpFlow /\ txring /\ UNCHANGED txring /\ AfterPacket(TRUE)
  /\ UNCHANGED <<pending, tasks, before, objs, term, tunq, app>>

IngressDone ==
  /\ pc = "ingress" /\ rx = <<>>
  /\ pc' = "notify"
  /\ UNCHANGED <<sock, pending, tasks, rx, txring, before, objs, term, tunq, app>>

(* The condition under which a parked reader is woken. *)
Readable(s) ==
  IF s.state = "udp" THEN CanRecv(s) ELSE IsOpen(s) /\ (CanRecv(s) \/ ~MayRecv(s))

(* Fault: before_handle is not looked at. *)
HandOutAll(socks) ==
  pending' = [h \in Handle |->
                pending[h] + (IF h \in MayRecvTunHandles(socks) THEN 1 ELSE 0)]

(* The handles that are in after_handle and not in before_handle. *)
HandOutNew(socks) ==
  pending' = [h \in Handle |->
                pending[h] + (IF h \in MayRecvTunHandles(socks) \ before THEN 1 ELSE 0)]

Notify ==
  /\ pc = "notify"
  /\ WakeSender
  /\ WakeReaders({h \in Handle : Live(h) /\ Readable(sock[h])})
  /\ sock' = [h \in Handle |-> Prune(sock[h])]
  /\ HandOutNew(sock')
  /\ before' = {}
  /\ pc' = "idle"
  /\ UNCHANGED <<wtask, wr, rx, txring, objs, term, tunq, app>>

-----------------------------------------------------------------------------
(* TunWrite::poll, one iteration of its loop *)

SenderEnds ==
  /\ tw = "ready" /\ MutexFree /\ term
  /\ tw' = "ended"
  /\ UNCHANGED <<sock, pending, rtask, wtask, twtask, rx, txring, pc, before,
                 objs, rd, wr, term, tunq, app>>

(* The write of the device reports a failure as 0 bytes written, and the   *)
(* assertion on the length fails.                                          *)
WriteFails ==
  /\ DeviceErrors
  /\ tw = "ready" /\ MutexFree /\ ~term
  /\ txring
  /\ tw' = "panicked"
  /\ UNCHANGED <<sock, pending, rtask, wtask, twtask, rx, txring, pc, before,
                 objs, rd, wr, term, tunq, app>>

OfKind(H, flows) == {h \in H : Live(h) /\ sock[h].flow \in flows}

(* The loop over the sockets in poll_write_sockets_to_phoney_socket: for a *)
(* UDP socket it looks into socket_read_tasks.                             *)
WakeSendable(socks) ==
  LET sendable == {h \in Handle : Live(h) /\ CanSend(socks[h])}
  IN  /\ WakeWriters(OfKind(sendable, TcpFlow))
      /\ WakeReaders(OfKind(sendable, UdpEndpoint))

(* The transmit ring is written to the device, then the sockets emit into  *)
(* it; the task parks when none of them had anything to emit.              *)
SenderPoll ==
  /\ tw = "ready" /\ MutexFree /\ ~term
  /\ LET emitting == {h \in Handle : Live(h) /\ Emits(sock[h])}
     IN  /\ \E expired \in SUBSET {h \in Handle : Live(h) /\ sock[h].state = "time_wait"} :
              sock' = [h \in Handle |-> IF ~Live(h) THEN None
                                        ELSE IF h \in expired THEN Reset(sock[h])
                                        ELSE Dispatched(sock[h])]
         /\ WakeSendable(sock')
         /\ txring' = (emitting # {})
         /\ twtask' = (twtask \/ emitting = {})
         /\ tw' = IF emitting = {} THEN "parked" ELSE "ready"
         /\ Connect(emitting)
  /\ UNCHANGED <<pending, rx, pc, before, objs, term, tunq>>

-----------------------------------------------------------------------------
(* TunTcpSocket and TunUdpSocket, as used by a handler *)

Reading(h) == MutexFree /\ objs[h] > 0 /\ rd[h] = "ready"
Writing(h) == MutexFree /\ objs[h] > 0 /\ wr[h] = "ready"

(* A stream gives or takes some of what it can, a datagram socket one      *)
(* datagram at a time.                                                     *)
UnitsRead(s) == IF s.state = "udp" THEN {1} ELSE 1 .. s.rx
UnitsWritten(s) == IF s.state = "udp" THEN {1} ELSE 1 .. TxCap - s.tx

(* The window grows with the room in the buffer, which a connection that   *)
(* may still receive tells its peer.                                       *)
WindowGrows(s) ==
  IF s.state \in {"est", "we_closed"} /\ s.owes = "nothing" THEN "window" ELSE s.owes

(* TunWrite is not woken, although the read may call for a segment.        *)
ReadSome(h) ==
  /\ Reading(h)
  /\ CanRecv(sock[h])
  /\ \E k \in UnitsRead(sock[h]) :
       sock' = [sock EXCEPT ![h].rx = @ - k, ![h].owes = WindowGrows(sock[h])]
  /\ UNCHANGED <<pending, tasks, rx, txring, pc, before, objs, term, tunq, app>>

(* Fault: the waker goes into the other map. *)
ReadParksAsWriter(h) ==
  /\ Reading(h)
  /\ ~CanRecv(sock[h]) /\ (sock[h].state = "udp" \/ MayRecv(sock[h]))
  /\ wtask' = [wtask EXCEPT ![h] = TRUE]
  /\ rd' = [rd EXCEPT ![h] = "parked"]
  /\ UNCHANGED <<sock, pending, rtask, twtask, tw, wr, rx, txring, pc, before,
                 objs, term, tunq, app>>

ReadParks(h) ==
  /\ Reading(h)
  /\ ~CanRecv(sock[h]) /\ (sock[h].state = "udp" \/ MayRecv(sock[h]))
  /\ rtask' = [rtask EXCEPT ![h] = TRUE]
  /\ rd' = [rd EXCEPT ![h] = "parked"]
  /\ UNCHANGED <<sock, pending, wtask, twtask, tw, wr, rx, txring, pc, before,
                 objs, term, tunq, app>>

ReadEof(h) ==
  /\ Reading(h)
  /\ sock[h].state # "udp" /\ ~MayRecv(sock[h])
  /\ rd' = [rd EXCEPT ![h] = "done"]
  /\ UNCHANGED <<sock, pending, rtask, wtask, twtask, tw, wr, rx, txring, pc,
                 before, objs, term, tunq, app>>

WriteSome(h) ==
  /\ Writing(h)
  /\ CanSend(sock[h])
  /\ \E k \in UnitsWritten(sock[h]) :
       sock' = [sock EXCEPT ![h].tx = @ + k, ![h].unsent = @ + k]
  /\ WakeSender
  /\ UNCHANGED <<pending, rtask, wtask, rd, wr, rx, txring, pc, before, objs, term, tunq, app>>

WriteParks(h) ==
  /\ Writing(h)
  /\ MaySend(sock[h]) /\ ~CanSend(sock[h])
  /\ wtask' = [wtask EXCEPT ![h] = TRUE]
  /\ wr' = [wr EXCEPT ![h] = "parked"]
  /\ UNCHANGED <<sock, pending, rtask, twtask, tw, rd, rx, txring, pc, before,
                 objs, term, tunq, app>>

WriteEof(h) ==
  /\ Writing(h)
  /\ ~MaySend(sock[h])
  /\ wr' = [wr EXCEPT ![h] = "done"]
  /\ UNCHANGED <<sock, pending, rtask, wtask, twtask, tw, rd, rx, txring, pc,
                 before, objs, term, tunq, app>>

Clone(h) ==
  /\ MutexFree
  /\ objs[h] > 0 /\ objs[h] < MaxObjects
  /\ sock' = [sock EXCEPT ![h].refs = @ + 1]
  /\ objs' = [objs EXCEPT ![h] = @ + 1]
  /\ UNCHANGED <<pending, tasks, rx, txring, pc, before, term, tunq, app>>

(* A handler may drop its sockets at any moment: it is cancelled by a      *)
(* timeout, parked or not.                                                 *)
Drop(h) ==
  /\ MutexFree
  /\ objs[h] > 0
  /\ sock' = [sock EXCEPT ![h].refs = @ - 1]
  /\ objs' = [objs EXCEPT ![h] = @ - 1]
  /\ rd' = [rd EXCEPT ![h] = IF objs[h] = 1 THEN "none" ELSE @]
  /\ wr' = [wr EXCEPT ![h] = IF objs[h] = 1 THEN "none" ELSE @]
  /\ UNCHANGED <<pending, rtask, wtask, twtask, tw, rx, txring, pc, before, term, tunq, app>>

(* SIGINT or SIGTERM. *)
Terminate ==
  /\ pc # "panicked" /\ ~term
  /\ term' = TRUE
  /\ UNCHANGED <<sock, pending, tasks, rx, txring, pc, before, objs, tunq, app>>

-----------------------------------------------------------------------------
Listener ==
  \/ \E h \in Handle : Accept(h)
  \/ IdlePoll \/ Populate \/ Ingress \/ IngressDone \/ Notify \/ ListenEnds

Handler(h) ==
  \/ ReadSome(h) \/ ReadParks(h) \/ ReadEof(h)
  \/ WriteSome(h) \/ WriteParks(h) \/ WriteEof(h)
  \/ Clone(h) \/ Drop(h)

Environment ==
  \/ \E f \in TcpFlow, c \in Control : AppSends(f, c)
  \/ \E u \in UdpEndpoint : DatagramSent(u)
  \/ BadFrameSent
  \/ Terminate

Next ==
  \/ Listener \/ ReadFails
  \/ SenderPoll \/ SenderEnds \/ WriteFails
  \/ \E h \in Handle : Handler(h)
  \/ Environment

Spec == Init /\ [][Next]_vars

(* The listener is polled again within a second even if no packet arrives: *)
(* handle_connection wraps every call of it in a timeout.  The executor    *)
(* polls TunWrite once it is woken, and the mutex (parking_lot's, which is *)
(* eventually fair) goes to it in between the polls of the listener.       *)
FairSpec == Spec /\ WF_vars(Listener) /\ SF_vars(SenderPoll)

-----------------------------------------------------------------------------
Objects(h) == pending[h] + objs[h]

(* "You need to make sure handle have at lease one reference", says the    *)
(* safety comment of TunSocket: every socket object in existence has a     *)
(* reference of its own in the socket set, so no object's socket is pruned *)
(* or its slot reused, and no release goes below zero.                     *)
ObjectsHaveReference ==
  \A h \in Handle : Objects(h) > 0 => Live(h) /\ Objects(h) <= sock[h].refs

(* Every socket an application can send data to has been handed out, and   *)
(* all its references belong to objects: nothing is kept alive by mistake. *)
HandedOut ==
  MutexFree => \A h \in MayRecvTunHandles(sock) : Objects(h) = sock[h].refs

(* No wake-up of a reader is lost: when the mutex is free, a parked reader *)
(* has nothing to read and no end of file to see, even if the iteration    *)
(* that brought it was ended early by an error.  The one exception is the  *)
(* reader of a connection that the application has reset: is_open is false *)
(* then, and nothing wakes it, whether it has unread data or only the end  *)
(* of file before it.                                                      *)
ReadersWoken ==
  MutexFree => \A h \in Handle :
    Live(h) /\ rd[h] = "parked" /\ sock[h].state # "closed"
      => ~CanRecv(sock[h]) /\ (sock[h].state = "udp" \/ MayRecv(sock[h]))

(* When TunWrite sleeps, no packet is in the ring and no socket has data,  *)
(* a SYN|ACK, a FIN or an acknowledgement to send.  A window update may be *)
(* left: reading wakes nobody (see WindowUpdatesLeave).                    *)
SenderAwake ==
  MutexFree /\ tw = "parked" =>
    ~txring /\ \A h \in Handle : Live(h) => ~Due(sock[h])

(* When TunWrite sleeps, no writer of a TCP socket sleeps on a buffer with *)
(* room: acknowledgements free the buffer in the listener, which wakes no  *)
(* writer itself, but TunWrite, which wakes the writer.  (A writer of a    *)
(* UDP socket is not woken: WakeSendable looks among the readers.)         *)
TcpWritersWoken ==
  MutexFree /\ tw = "parked" =>
    \A h \in OfKind(Handle, TcpFlow) : wr[h] = "parked" => ~CanSend(sock[h])

(* Nobody sleeps who has something to do: readers, TCP writers, TunWrite. *)
NobodySleeps == ReadersWoken /\ SenderAwake /\ TcpWritersWoken

Released(h) ==
  /\ Live(h)
  /\ sock[h].refs = 0
  /\ sock[h].state \in {"udp", "listen", "syn", "est", "peer_closed", "closed"}

(* A socket that was released is pruned or closed, although release itself *)
(* does nothing and no packet may ever arrive again: the idle polls fill   *)
(* the ring with empty buffers until the listener works through it.  The   *)
(* exceptions are a process told to terminate and a device that fails.     *)
ReleasedSocketsEnd ==
  \A h \in Handle : Released(h) ~> (~Released(h) \/ term \/ pc = "panicked")

OwesWindow(h) == Live(h) /\ sock[h].owes = "window"

(* A reader that empties a full buffer tells nobody, and the application,  *)
(* facing a closed window, may never send again: still the window update   *)
(* leaves, because the idle polls make the listener wake TunWrite.  The    *)
(* exceptions are a process told to terminate and a device that fails.     *)
WindowUpdatesLeave ==
  \A h \in Handle :
    OwesWindow(h) ~> (~OwesWindow(h) \/ term \/ "panicked" \in {pc, tw})
=============================================================================
