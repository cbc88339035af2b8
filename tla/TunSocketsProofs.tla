-------------------------- MODULE TunSocketsProofs --------------------------
(***************************************************************************)
(* Proofs about TunSockets, for any number of connections, datagram        *)
(* endpoints and objects and any size of the buffers and rings: every      *)
(* socket object keeps its socket, every socket an application can send to *)
(* is handed out exactly once, and no wake-up is lost but the ones of a    *)
(* reader whose connection was reset and of TunWrite for a window update.  *)
(*                                                                         *)
(* References and wakers are both kept apart from what they stand for (a   *)
(* count in the set, an object with a handler; a flag in a map, a parked   *)
(* task), and an iteration of the listener compares the sockets before and *)
(* after it while packets change them in between.  So the inductive        *)
(* invariant IInv says, besides the properties, how the counts agree at    *)
(* any moment, what before_handle stands for while the listener has the    *)
(* mutex, and that whoever is parked has left a waker.                     *)
(***************************************************************************)
EXTENDS TunSockets, Integers, SequenceTheorems, TLAPS

(* What comes out of the device: a datagram is data. *)
Packet ==
  [flow : TcpFlow, ctl : Control] \cup [flow : UdpEndpoint, ctl : {"data"}] \cup {Bad, Empty}

(* A socket is of the kind of its flow, nothing is emitted that is not in  *)
(* the buffer, there is no data before the handshake is over, and our side *)
(* is not closed while somebody refers to the socket.                      *)
WellFormed(s) ==
  /\ s \in Socket
  /\ s.state = "udp" <=> s.flow \in UdpEndpoint
  /\ s.unsent <= s.tx
  /\ s.state \in {"listen", "syn"} => s.rx = 0
  /\ s.refs > 0 => s.state \notin {"we_closed", "both_closed", "time_wait"}

AppState == {"none", "connecting", "connected", "open", "finished", "gone"}

TypeOK ==
  /\ sock \in [Handle -> Socket \cup {None}]
  /\ \A h \in Handle : Live(h) => WellFormed(sock[h])
  /\ pending \in [Handle -> Nat] /\ objs \in [Handle -> Nat]
  /\ rtask \in [Handle -> BOOLEAN] /\ wtask \in [Handle -> BOOLEAN] /\ twtask \in BOOLEAN
  /\ rx \in Seq(Packet) /\ tunq \in Seq(Packet) /\ Len(rx) <= RingCap
  /\ txring \in BOOLEAN /\ term \in BOOLEAN
  /\ pc \in {"idle", "ingress", "notify", "ended", "panicked"}
  /\ before \in SUBSET Handle
  /\ tw \in {"ready", "parked", "ended", "panicked"}
  /\ rd \in [Handle -> {"none", "ready", "parked", "done"}]
  /\ wr \in [Handle -> {"none", "ready", "parked", "done"}]
  /\ app \in [TcpFlow -> AppState]

(* Every reference to a socket belongs to an object. *)
Owned(h) == Live(h) /\ Objects(h) = sock[h].refs

(* The one reference of a socket that was not handed out yet.              *)
Fresh(h) == Live(h) /\ Objects(h) = 0 /\ sock[h].refs = 1

(* A slot is empty, or its socket was handed out, or is still to be.  A    *)
(* socket is not handed out before its handshake.                          *)
Referred ==
  \A h \in Handle :
    /\ ~Live(h) => Objects(h) = 0
    /\ Live(h) => Owned(h) \/ Fresh(h)
    /\ Owned(h) => sock[h].state \notin {"listen", "syn"}

(* Packets are processed: before_handle is the sockets that were handed    *)
(* out, those excepted that no packet makes readable again.                *)
BeforeKnown ==
  pc \in {"ingress", "notify"} =>
    /\ \A h \in before : Owned(h)
    /\ \A h \in MayRecvTunHandles(sock) : Owned(h) => h \in before

(* Who is parked has an object and has left a waker. *)
ParkedHasWaker ==
  /\ tw = "parked" => twtask
  /\ \A h \in Handle :
       /\ rd[h] = "parked" => rtask[h] /\ objs[h] > 0
       /\ wr[h] = "parked" => wtask[h] /\ objs[h] > 0

(* No reader is left parked that the listener's test finds readable.       *)
ReadableWoken ==
  MutexFree => \A h \in Handle : Live(h) /\ rd[h] = "parked" => ~Readable(sock[h])

Awake == ReadableWoken /\ SenderAwake /\ TcpWritersWoken

IInv == TypeOK /\ Referred /\ BeforeKnown /\ HandedOut /\ ParkedHasWaker /\ Awake

-----------------------------------------------------------------------------
(* Sockets *)

(* The listener looks at it when it compares before_handle and             *)
(* after_handle.                                                           *)
Receives(s) == s.state = "udp" \/ MayRecv(s)

(* A socket is not an empty slot. *)
LEMMA SocketNotNone == None \notin Socket /\ None \notin Flow
BY TunAssumption

(* A socket that is created is well formed and has one reference. *)
LEMMA NewSocketOK ==
  ASSUME NEW f \in Flow
  PROVE  /\ WellFormed(NewSocket(f))
         /\ NewSocket(f).refs = 1 /\ NewSocket(f).flow = f
BY TunAssumption DEF WellFormed, NewSocket, Socket, Flow, TcpState, Owing

(* A socket stays one when some of its fields change within their types. *)
LEMMA UpdateOK ==
  ASSUME NEW s \in Socket, NEW st \in TcpState \cup {"udp"}, NEW t \in 0 .. TxCap,
         NEW u \in 0 .. TxCap, NEW b \in BOOLEAN, NEW o \in Owing
  PROVE  /\ [s EXCEPT !.state = st, !.tx = t, !.unsent = u, !.ctl = b, !.owes = o] \in Socket
         /\ [s EXCEPT !.unsent = u, !.ctl = b, !.owes = o, !.tx = t] \in Socket
         /\ [s EXCEPT !.state = st, !.ctl = b] \in Socket
         /\ [s EXCEPT !.state = st] \in Socket
         /\ [s EXCEPT !.tx = t] \in Socket
BY DEF Socket

(* A connection that is reset is well formed, without anything to emit. *)
LEMMA ResetOK ==
  ASSUME NEW s, WellFormed(s), s.state # "udp"
  PROVE  /\ WellFormed(Reset(s))
         /\ Reset(s).refs = s.refs /\ Reset(s).flow = s.flow /\ Reset(s).state = "closed"
         /\ Reset(s).rx = s.rx /\ Reset(s).unsent = 0 /\ ~Reset(s).ctl /\ Reset(s).owes = "nothing"
<1>1. /\ Reset(s).refs = s.refs /\ Reset(s).flow = s.flow /\ Reset(s).state = "closed"
      /\ Reset(s).rx = s.rx /\ Reset(s).unsent = 0 /\ ~Reset(s).ctl /\ Reset(s).tx = 0
      /\ Reset(s).owes = "nothing"
  BY DEF WellFormed, Socket, Reset
<1>2. Reset(s) \in Socket
  <2>1. 0 \in 0 .. TxCap
    BY TunAssumption
  <2> QED BY <2>1, UpdateOK DEF WellFormed, Reset, TcpState, Owing
<1>3. s.flow \notin UdpEndpoint
  BY DEF WellFormed
<1> QED BY <1>1, <1>2, <1>3 DEF WellFormed

(* A segment keeps a socket well formed and its references as they were;   *)
(* it makes no socket start its handshake again that was through it, and   *)
(* none readable that had become unreadable.                               *)
LEMMA ProcessOK ==
  ASSUME NEW s, WellFormed(s), NEW c \in Control, s.flow \in UdpEndpoint => c = "data"
  PROVE  /\ WellFormed(Process(s, c))
         /\ Process(s, c).refs = s.refs /\ Process(s, c).flow = s.flow
         /\ s.state \notin {"listen", "syn"} =>
              /\ Process(s, c).state \notin {"listen", "syn"}
              /\ Receives(Process(s, c)) => Receives(s)
<1> USE TunAssumption DEF Receives, MayRecv
<1>1. CASE c = "syn"
  BY <1>1 DEF WellFormed, Socket, TcpState, Owing, Process, Flow
<1>2. CASE c = "ack"
  <2>0. s.state # "udp"
    BY <1>2 DEF WellFormed
  <2>1. CASE s.state = "both_closed" /\ ~s.ctl
    BY <1>2, <2>0, <2>1, ResetOK DEF Process
  <2>2. CASE ~(s.state = "both_closed" /\ ~s.ctl)
    <3>1. CASE s.state = "syn"
      BY <1>2, <3>1 DEF WellFormed, Socket, TcpState, Owing, Process, Flow
    <3>2. CASE s.state # "syn"
      <4>1. Process(s, c) = [s EXCEPT !.tx = s.unsent]
        BY <1>2, <2>2, <3>2 DEF Process
      <4>2. Process(s, c) \in Socket
        <5>1. s.unsent \in 0 .. TxCap
          BY DEF WellFormed, Socket
        <5> QED BY <4>1, <5>1 DEF WellFormed, Socket
      <4> QED BY <4>1, <4>2 DEF WellFormed, Socket
    <3> QED BY <3>1, <3>2
  <2> QED BY <2>1, <2>2
<1>3. CASE c = "data"
  <2>1. CASE s.state = "udp" /\ s.rx < RxCap
    <3>1. Process(s, c) = [s EXCEPT !.rx = @ + 1]
      BY <1>3, <2>1 DEF Process
    <3> QED BY <2>1, <3>1 DEF WellFormed, Socket
  <2>2. CASE s.state \in {"est", "we_closed"} /\ s.rx < RxCap
    <3>1. Process(s, c) = [s EXCEPT !.rx = @ + 1, !.owes = "ack"]
      BY <1>3, <2>2 DEF Process
    <3>2. Process(s, c) \in Socket
      <4>1. PICK x \in 0 .. RxCap : x = s.rx + 1
        BY <2>2 DEF WellFormed, Socket
      <4>2. [s EXCEPT !.rx = x, !.owes = "ack"] \in Socket
        BY DEF WellFormed, Socket, Owing
      <4> QED BY <3>1, <4>1, <4>2
    <3> QED BY <2>2, <3>1, <3>2 DEF WellFormed, Socket
  <2>3. CASE ~(s.state \in {"udp", "est", "we_closed"} /\ s.rx < RxCap)
    BY <1>3, <2>3 DEF Process
  <2> QED BY <2>1, <2>2, <2>3
<1>4. CASE c = "fin"
  BY <1>4 DEF WellFormed, Socket, TcpState, Owing, Process, Flow
<1>5. CASE c = "rst"
  <2>0. s.state # "udp"
    BY <1>5 DEF WellFormed
  <2>1. CASE s.state \in {"syn", "listen"}
    <3>1. CASE s.state = "syn"
      <4>1. Process(s, c) = [s EXCEPT !.state = "listen", !.ctl = FALSE]
        BY <1>5, <3>1 DEF Process
      <4>2. Process(s, c) \in Socket
        BY <4>1 DEF WellFormed, Socket, TcpState
      <4> QED BY <3>1, <4>1, <4>2 DEF WellFormed, Socket
    <3>2. CASE s.state = "listen"
      BY <1>5, <3>2 DEF Process
    <3> QED BY <2>1, <3>1, <3>2
  <2>2. CASE s.state \notin {"syn", "listen"}
    BY <1>5, <2>0, <2>2, ResetOK DEF Process
  <2> QED BY <2>1, <2>2
<1> QED BY <1>1, <1>2, <1>3, <1>4, <1>5 DEF Control

(* What TunWrite does to a socket: all is emitted, and a connection in     *)
(* TIME-WAIT may expire.                                                   *)
LEMMA SentOK ==
  ASSUME NEW s, WellFormed(s), NEW t,
         t = Dispatched(s) \/ (s.state = "time_wait" /\ t = Reset(s))
  PROVE  /\ WellFormed(t)
         /\ t.refs = s.refs /\ t.flow = s.flow /\ ~Emits(t)
         /\ t.state \in {"listen", "syn"} <=> s.state \in {"listen", "syn"}
         /\ Receives(t) <=> Receives(s)
         /\ Readable(t) => Readable(s)
<1> USE TunAssumption DEF Receives, MayRecv, CanRecv, Readable, IsOpen, Emits, Due
<1>1. CASE t = Dispatched(s)
  <2>1. /\ t.refs = s.refs /\ t.flow = s.flow /\ t.state = s.state /\ t.rx = s.rx
        /\ t.unsent = 0 /\ t.ctl = FALSE /\ t.tx \in {0, s.tx} /\ t.owes = "nothing"
    BY <1>1 DEF WellFormed, Socket, Dispatched
  <2>2. t \in Socket
    <3>1. 0 \in 0 .. TxCap
      BY TunAssumption
    <3>2. (IF s.state = "udp" THEN 0 ELSE s.tx) \in 0 .. TxCap
      BY <3>1 DEF WellFormed, Socket
    <3> QED BY <1>1, <3>1, <3>2, UpdateOK DEF WellFormed, Dispatched, Owing
  <2>3. WellFormed(t)
    BY <2>1, <2>2 DEF WellFormed, Socket
  <2> QED BY <2>1, <2>3
<1>2. CASE s.state = "time_wait" /\ t = Reset(s)
  BY <1>2, ResetOK DEF WellFormed, Socket
<1> QED BY <1>1, <1>2

(* Pruning leaves a socket alone that has a reference, and makes no socket *)
(* readable.                                                               *)
LEMMA PruneOK ==
  ASSUME NEW s, WellFormed(s)
  PROVE  /\ s.refs > 0 => Prune(s) = s
         /\ Prune(s) # None => /\ WellFormed(Prune(s))
                               /\ Prune(s).refs = s.refs /\ Prune(s).flow = s.flow
                               /\ Prune(s).state \in {"listen", "syn"} => s.state \in {"listen", "syn"}
                               /\ s.state \notin {"listen", "syn"} /\ Receives(Prune(s)) => Receives(s)
<1>1. s # None
  BY SocketNotNone DEF WellFormed
<1>2. CASE s.refs > 0
  BY <1>1, <1>2 DEF Prune
<1>3. CASE ~(s.refs > 0) /\ s.state \in {"udp", "closed"}
  BY <1>1, <1>3 DEF Prune
<1>4. CASE ~(s.refs > 0) /\ s.state \notin {"udp", "closed"}
  <2>1. Prune(s) = Closed(s)
    BY <1>1, <1>4 DEF Prune
  <2>2. /\ WellFormed(Closed(s))
        /\ Closed(s).refs = s.refs /\ Closed(s).flow = s.flow
        /\ Closed(s).state \notin {"listen", "syn"}
        /\ s.state \notin {"listen", "syn"} /\ Receives(Closed(s)) => Receives(s)
    <3>1. CASE s.state \in {"syn", "est"}
      BY <1>4, <3>1, TunAssumption DEF Closed, WellFormed, Socket, TcpState, Receives, MayRecv, Flow
    <3>2. CASE s.state = "peer_closed"
      BY <1>4, <3>2, TunAssumption DEF Closed, WellFormed, Socket, TcpState, Receives, MayRecv, Flow
    <3>3. CASE s.state = "listen"
      BY <3>3, ResetOK DEF Closed
    <3>4. CASE s.state \notin {"syn", "est", "peer_closed", "listen"}
      BY <3>4 DEF Closed
    <3> QED BY <3>1, <3>2, <3>3, <3>4
  <2> QED BY <1>4, <2>1, <2>2
<1> QED BY <1>2, <1>3, <1>4

-----------------------------------------------------------------------------
(* Preservation of the invariant *)

(* Nothing but the device's queues and the applications' ends changes.     *)
LEMMA Quiet ==
  ASSUME IInv, UNCHANGED <<sock, pending, tasks, txring, pc, before, objs>>
  PROVE  Referred' /\ BeforeKnown' /\ HandedOut' /\ ParkedHasWaker' /\ Awake'
<1> USE DEF IInv, tasks, Objects, Live
<1>1. Referred' BY DEF Referred, Owned, Fresh
<1>2. BeforeKnown' BY DEF BeforeKnown, Owned, MayRecvTunHandles
<1>3. HandedOut' BY DEF HandedOut, MutexFree, MayRecvTunHandles
<1>4. ParkedHasWaker' BY DEF ParkedHasWaker
<1>5. ReadableWoken' BY DEF Awake, ReadableWoken, MutexFree
<1>6. SenderAwake' BY DEF Awake, SenderAwake, MutexFree
<1>7. TcpWritersWoken' BY DEF Awake, TcpWritersWoken, MutexFree, OfKind
<1> QED BY <1>1, <1>2, <1>3, <1>4, <1>5, <1>6, <1>7 DEF Awake

(* The listener has nothing to compare and nobody has the mutex again: the *)
(* process is over.                                                        *)
LEMMA Over ==
  ASSUME IInv, UNCHANGED <<sock, pending, tasks, objs>>, pc' \in {"ended", "panicked"}
  PROVE  Referred' /\ BeforeKnown' /\ HandedOut' /\ ParkedHasWaker' /\ Awake'
<1> USE DEF IInv, tasks, Objects, Live
<1>1. Referred' BY DEF Referred, Owned, Fresh
<1>2. ParkedHasWaker' BY DEF ParkedHasWaker
<1>3. BeforeKnown' /\ HandedOut' /\ Awake'
  BY DEF BeforeKnown, HandedOut, Awake, ReadableWoken, SenderAwake, TcpWritersWoken, MutexFree
<1> QED BY <1>1, <1>2, <1>3

LEMMA InitOK == Init => IInv
<1> SUFFICES ASSUME Init PROVE IInv
  OBVIOUS
<1>1. \A h \in Handle : ~Live(h)
  BY DEF Init, Live
<1>2. TypeOK
  <2>1. <<>> \in Seq(Packet) /\ Len(<<>>) <= RingCap
    BY TunAssumption, EmptySeq
  <2>2. sock \in [Handle -> Socket \cup {None}] /\ app \in [TcpFlow -> AppState]
    BY DEF Init, AppState
  <2> QED BY <1>1, <2>1, <2>2 DEF Init, TypeOK
<1>3. Referred /\ BeforeKnown /\ HandedOut /\ ParkedHasWaker
  BY <1>1 DEF Init, Referred, BeforeKnown, HandedOut, ParkedHasWaker, Owned, Objects,
              MayRecvTunHandles, Fresh, Live
<1>4. Awake
  BY <1>1 DEF Init, Awake, ReadableWoken, SenderAwake, TcpWritersWoken
<1> QED BY <1>2, <1>3, <1>4 DEF IInv

LEMMA EnvironmentOK == IInv /\ Environment => IInv'
<1> SUFFICES ASSUME IInv, Environment PROVE IInv'
  OBVIOUS
<1>1. UNCHANGED <<sock, pending, tasks, txring, pc, before, objs, rx>>
  BY DEF Environment, AppSends, DatagramSent, BadFrameSent, Terminate
<1>2. tunq' \in Seq(Packet)
  <2>1. \A p \in Packet : Sends(p) => tunq' \in Seq(Packet)
    BY AppendProperties DEF Sends, IInv, TypeOK
  <2>2. ASSUME NEW f \in TcpFlow, NEW c \in Control, AppSends(f, c)
        PROVE  tunq' \in Seq(Packet)
    BY <2>1, <2>2 DEF AppSends, Packet
  <2>3. ASSUME NEW u \in UdpEndpoint, DatagramSent(u)
        PROVE  tunq' \in Seq(Packet)
    BY <2>1, <2>3 DEF DatagramSent, Packet
  <2>4. BadFrameSent => tunq' \in Seq(Packet)
    BY <2>1 DEF BadFrameSent, Packet
  <2>5. Terminate => tunq' \in Seq(Packet)
    BY DEF Terminate, IInv, TypeOK
  <2> QED BY <2>2, <2>3, <2>4, <2>5 DEF Environment
<1>3. app' \in [TcpFlow -> AppState] /\ term' \in BOOLEAN
  BY DEF Environment, AppSends, DatagramSent, BadFrameSent, Terminate, IInv, TypeOK, AppState
<1>4. TypeOK'
  BY <1>1, <1>2, <1>3 DEF IInv, TypeOK, tasks, Live
<1> QED BY <1>1, <1>4, Quiet DEF IInv

LEMMA AcceptOK ==
  ASSUME IInv, NEW h \in Handle, Accept(h)
  PROVE  IInv'
<1> USE DEF IInv, Accept, Polling
<1>1. TypeOK'
  <2>1. pending'[h] = pending[h] - 1 /\ pending[h] - 1 \in Nat
    BY DEF TypeOK
  <2> QED BY <2>1 DEF TypeOK, Live
<1>2. \A g \in Handle : Objects(g)' = Objects(g)
  BY DEF TypeOK, Objects
<1>3. Referred'
  BY <1>2 DEF Referred, Owned, Fresh, Live
<1>4. BeforeKnown' /\ HandedOut'
  BY <1>2 DEF BeforeKnown, HandedOut, MutexFree, MayRecvTunHandles
<1>5. ParkedHasWaker'
  BY DEF ParkedHasWaker, TypeOK
<1>6. Awake'
  BY DEF Awake, ReadableWoken, SenderAwake, TcpWritersWoken, MutexFree, OfKind, Live, TypeOK
<1> QED BY <1>1, <1>3, <1>4, <1>5, <1>6

LEMMA IdlePollOK == IInv /\ IdlePoll => IInv'
<1> SUFFICES ASSUME IInv, IdlePoll PROVE IInv'
  OBVIOUS
<1>1. rx' \in Seq(Packet) /\ Len(rx') <= RingCap
  <2>1. Empty \in Packet /\ RingCap \in Nat
    BY TunAssumption DEF Packet
  <2> QED BY <2>1, AppendProperties DEF IdlePoll, IInv, TypeOK
<1>2. TypeOK'
  BY <1>1 DEF IdlePoll, IInv, TypeOK, tasks, Live
<1> QED BY <1>2, Quiet DEF IdlePoll, IInv

(* Reading takes packets off the device's queue, one ring at most. *)
LEMMA PopulateOK == IInv /\ Populate => IInv'
<1> SUFFICES ASSUME IInv, Populate PROVE IInv'
  OBVIOUS
<1> USE DEF IInv
<1>1. /\ ReadCount \in 0 .. Len(tunq)
      /\ Len(rx) + ReadCount <= RingCap
  BY TunAssumption DEF ReadCount, TypeOK
<1>2. rx' \in Seq(Packet) /\ Len(rx') <= RingCap
  <2> DEFINE got == SubSeq(tunq, 1, ReadCount)
             last == IF Len(rx) + ReadCount < RingCap THEN <<Empty>> ELSE <<>>
  <2>1. got \in Seq(Packet) /\ Len(got) = ReadCount
    BY <1>1 DEF TypeOK
  <2>2. last \in Seq(Packet) /\ Len(last) + Len(rx) + ReadCount <= RingCap
    <3>1. <<Empty>> \in Seq(Packet) /\ Len(<<Empty>>) = 1
      BY DEF Packet
    <3>2. <<>> \in Seq(Packet) /\ Len(<<>>) = 0
      BY EmptySeq
    <3>3. Len(rx) \in Nat /\ RingCap \in Nat /\ ReadCount \in Nat
      BY <1>1, TunAssumption, LenProperties DEF TypeOK
    <3> QED BY <1>1, <3>1, <3>2, <3>3
  <2>3. rx' = (rx \o got) \o last
    BY DEF Populate
  <2>4. rx \o got \in Seq(Packet) /\ Len(rx \o got) = Len(rx) + ReadCount
    BY <2>1, ConcatProperties DEF TypeOK
  <2> HIDE DEF got, last
  <2>5. rx' \in Seq(Packet) /\ Len(rx') = Len(rx) + ReadCount + Len(last)
    BY <2>2, <2>3, <2>4, ConcatProperties
  <2> QED BY <1>1, <2>2, <2>5, TunAssumption, LenProperties DEF TypeOK
<1>3. tunq' \in Seq(Packet)
  BY <1>1 DEF Populate, TypeOK
<1>4. TypeOK'
  BY <1>2, <1>3 DEF Populate, TypeOK, tasks, Live, MayRecvTunHandles
<1>5. Referred'
  BY DEF Populate, Referred, Owned, Fresh, Live, Objects
<1>6. BeforeKnown'
  BY DEF Populate, Polling, BeforeKnown, HandedOut, MutexFree, Owned, MayRecvTunHandles, Live, Objects
<1>7. HandedOut' /\ Awake'
  BY DEF Populate, HandedOut, Awake, ReadableWoken, SenderAwake, TcpWritersWoken, MutexFree
<1>8. ParkedHasWaker'
  BY DEF Populate, tasks, ParkedHasWaker
<1> QED BY <1>4, <1>5, <1>6, <1>7, <1>8

LEMMA IngressDoneOK == IInv /\ IngressDone => IInv'
<1> SUFFICES ASSUME IInv, IngressDone PROVE IInv'
  OBVIOUS
<1> USE DEF IInv, IngressDone, tasks
<1>1. TypeOK' BY DEF TypeOK, Live
<1>2. Referred' BY DEF Referred, Owned, Fresh, Live, Objects
<1>3. BeforeKnown' BY DEF BeforeKnown, Owned, MayRecvTunHandles, Live, Objects
<1>4. HandedOut' /\ Awake'
  BY DEF HandedOut, Awake, ReadableWoken, SenderAwake, TcpWritersWoken, MutexFree
<1>5. ParkedHasWaker' BY DEF ParkedHasWaker
<1> QED BY <1>1, <1>2, <1>3, <1>4, <1>5

(* The listener's last step, in a process told to terminate or whose       *)
(* device fails.                                                           *)
LEMMA ListenerOverOK == IInv /\ (ListenEnds \/ ReadFails) => IInv'
<1> SUFFICES ASSUME IInv, ListenEnds \/ ReadFails PROVE IInv'
  OBVIOUS
<1>1. /\ UNCHANGED <<sock, pending, tasks, rx, txring, before, objs, term, tunq, app>>
      /\ pc' \in {"ended", "panicked"}
  BY DEF ListenEnds, ReadFails
<1>2. TypeOK'
  BY <1>1 DEF IInv, TypeOK, tasks, Live
<1> QED BY <1>1, <1>2, Over DEF IInv

(* A packet changes one socket as ProcessOK says, or puts a new one in an  *)
(* empty slot, or changes none.                                            *)
LEMMA DeliverOK ==
  ASSUME IInv, NEW p \in Packet \ {Bad, Empty}, Deliver(p)
  PROVE  \/ sock' = sock
         \/ \E h \in Handle, t \in Socket :
              /\ sock' = [sock EXCEPT ![h] = t] /\ WellFormed(t)
              /\ \/ ~Live(h) /\ t.refs = 1
                 \/ /\ Live(h) /\ t.refs = sock[h].refs
                    /\ sock[h].state \notin {"listen", "syn"} =>
                         t.state \notin {"listen", "syn"} /\ (Receives(t) => Receives(sock[h]))
<1>1. p.flow \in Flow /\ p.ctl \in Control /\ (p.flow \in UdpEndpoint => p.ctl = "data")
  BY TunAssumption DEF Packet, Flow, Control
<1>2. CASE \E h \in Handle : Live(h) /\ Accepts(sock[h], p)
  <2>1. PICK h \in Handle : /\ Live(h) /\ Accepts(sock[h], p)
                            /\ sock' = [sock EXCEPT ![h] = Process(sock[h], p.ctl)]
    BY <1>2 DEF Deliver
  <2>2. WellFormed(sock[h]) /\ sock[h].flow = p.flow
    BY <2>1 DEF IInv, TypeOK, Accepts
  <2>3. /\ WellFormed(Process(sock[h], p.ctl))
        /\ Process(sock[h], p.ctl).refs = sock[h].refs
        /\ sock[h].state \notin {"listen", "syn"} =>
             /\ Process(sock[h], p.ctl).state \notin {"listen", "syn"}
             /\ Receives(Process(sock[h], p.ctl)) => Receives(sock[h])
    BY <1>1, <2>2, ProcessOK
  <2>4. Process(sock[h], p.ctl) \in Socket
    BY <2>3 DEF WellFormed
  <2> QED BY <2>1, <2>3, <2>4
<1>3. CASE /\ ~ \E h \in Handle : Live(h) /\ Accepts(sock[h], p)
           /\ Accepts(NewSocket(p.flow), p)
  <2> DEFINE t == Process(NewSocket(p.flow), p.ctl)
  <2>1. PICK h \in Handle : ~Live(h) /\ sock' = [sock EXCEPT ![h] = t]
    BY <1>3 DEF Deliver
  <2>2. WellFormed(NewSocket(p.flow)) /\ NewSocket(p.flow).refs = 1 /\ NewSocket(p.flow).flow = p.flow
    BY <1>1, NewSocketOK
  <2>3. WellFormed(t) /\ t.refs = 1
    BY <1>1, <2>2, ProcessOK
  <2>4. t \in Socket
    BY <2>3 DEF WellFormed
  <2> QED BY <2>1, <2>3, <2>4
<1>4. CASE /\ ~ \E h \in Handle : Live(h) /\ Accepts(sock[h], p)
           /\ ~Accepts(NewSocket(p.flow), p)
  BY <1>4 DEF Deliver
<1> QED BY <1>2, <1>3, <1>4

LEMMA IngressOK == IInv /\ Ingress => IInv'
<1> SUFFICES ASSUME IInv, Ingress PROVE IInv'
  OBVIOUS
<1> USE DEF IInv
<1>1. Head(rx) \in Packet /\ rx' \in Seq(Packet) /\ Len(rx') <= RingCap
  BY TunAssumption, HeadTailProperties, LenProperties DEF Ingress, TypeOK
<1>2. /\ UNCHANGED <<pending, rtask, wtask, twtask, tw, rd, wr, before, objs, term, tunq, app>>
      /\ pc = "ingress" /\ pc' \in {"ingress", "notify"} /\ txring' \in BOOLEAN
  BY DEF Ingress, AfterPacket, tasks, TypeOK
<1>3. \/ sock' = sock
      \/ \E h \in Handle, t \in Socket :
           /\ sock' = [sock EXCEPT ![h] = t] /\ WellFormed(t)
           /\ \/ ~Live(h) /\ t.refs = 1
              \/ /\ Live(h) /\ t.refs = sock[h].refs
                 /\ sock[h].state \notin {"listen", "syn"} =>
                      t.state \notin {"listen", "syn"} /\ (Receives(t) => Receives(sock[h]))
  BY <1>1, DeliverOK DEF Ingress
<1>4. HandedOut' /\ Awake'
  BY <1>2 DEF HandedOut, Awake, ReadableWoken, SenderAwake, TcpWritersWoken, MutexFree
<1>5. ParkedHasWaker'
  BY <1>2 DEF ParkedHasWaker
<1>6. CASE sock' = sock
  <2>1. TypeOK' BY <1>1, <1>2, <1>6 DEF TypeOK, Live
  <2>2. Referred' BY <1>2, <1>6 DEF Referred, Owned, Fresh, Live, Objects
  <2>3. BeforeKnown' BY <1>2, <1>6 DEF BeforeKnown, Owned, MayRecvTunHandles, Live, Objects
  <2> QED BY <1>4, <1>5, <2>1, <2>2, <2>3
<1>7. ASSUME NEW h \in Handle, NEW t \in Socket,
             sock' = [sock EXCEPT ![h] = t], WellFormed(t),
             \/ ~Live(h) /\ t.refs = 1
             \/ /\ Live(h) /\ t.refs = sock[h].refs
                /\ sock[h].state \notin {"listen", "syn"} =>
                     t.state \notin {"listen", "syn"} /\ (Receives(t) => Receives(sock[h]))
      PROVE  IInv'
  <2>1. /\ sock'[h] = t /\ t # None
        /\ \A g \in Handle \ {h} : sock'[g] = sock[g]
    BY <1>7, SocketNotNone DEF TypeOK
  <2>2. TypeOK'
    BY <1>1, <1>2, <1>7, <2>1 DEF TypeOK, Live
  <2>3. \A g \in Handle : Objects(g)' = Objects(g)
    BY <1>2 DEF Objects
  <2>4. Live(h)' /\ (Owned(h)' \/ Fresh(h)') /\ (Owned(h)' => t.state \notin {"listen", "syn"} /\ Owned(h))
    <3>1. CASE ~Live(h)
      BY <1>7, <2>1, <2>3, <3>1 DEF Live, Referred, Owned, Fresh
    <3>2. CASE Live(h)
      BY <1>7, <2>1, <2>3, <3>2 DEF Live, Referred, Owned, Fresh
    <3> QED BY <3>1, <3>2
  <2>5. \A g \in Handle \ {h} : /\ Live(g)' <=> Live(g)
                                /\ Owned(g)' <=> Owned(g)
                                /\ Fresh(g)' <=> Fresh(g)
    BY <2>1, <2>3 DEF Live, Owned, Fresh
  <2>6. Referred'
    BY <2>1, <2>3, <2>4, <2>5 DEF Referred
  <2>7. \A g \in before : Owned(g)'
    <3>1. Owned(h) => Owned(h)'
      BY <1>7, <2>1, <2>3 DEF Live, Owned
    <3> QED BY <1>2, <2>5, <3>1 DEF BeforeKnown, TypeOK
  <2>8. ASSUME NEW g \in Handle, g \in MayRecvTunHandles(sock'), Owned(g)' PROVE g \in before
    <3>1. CASE g = h
      <4>1. Owned(h) /\ Receives(t)
        BY <2>1, <2>4, <2>8, <3>1 DEF MayRecvTunHandles, Receives
      <4>2. Receives(sock[h]) /\ Live(h)
        BY <1>7, <4>1 DEF Referred, Owned
      <4> QED BY <1>2, <3>1, <4>1, <4>2 DEF BeforeKnown, MayRecvTunHandles, Receives, Live
    <3>2. CASE g # h
      BY <1>2, <2>1, <2>5, <2>8, <3>2 DEF BeforeKnown, MayRecvTunHandles
    <3> QED BY <3>1, <3>2
  <2>9. BeforeKnown'
    BY <1>2, <2>7, <2>8 DEF BeforeKnown, MayRecvTunHandles
  <2> QED BY <1>4, <1>5, <2>2, <2>6, <2>9
<1> QED BY <1>3, <1>6, <1>7

(* The end of an iteration: a socket that became readable in it is handed  *)
(* out now, one that was before is not again, and a pruned one had no      *)
(* object left.                                                            *)
LEMMA NotifyOK == IInv /\ Notify => IInv'
<1> SUFFICES ASSUME IInv, Notify PROVE IInv'
  OBVIOUS
<1> USE DEF IInv
<1>1. /\ UNCHANGED <<wtask, wr, rx, txring, objs, term, tunq, app>>
      /\ pc = "notify" /\ pc' = "idle" /\ before' = {}
      /\ sock' = [h \in Handle |-> Prune(sock[h])]
      /\ \A h \in Handle : sock'[h] = Prune(sock[h])
  BY DEF Notify
<1>2. \A h \in Handle : pending'[h] = IF h \in MayRecvTunHandles(sock') \ before
                                      THEN pending[h] + 1 ELSE pending[h]
  BY DEF Notify, HandOutNew, TypeOK
<1>3. twtask' = FALSE /\ tw' \in {"ready", "ended", "panicked"}
  BY DEF Notify, WakeSender, ParkedHasWaker, TypeOK
<1>4. /\ rtask' \in [Handle -> BOOLEAN] /\ rd' \in [Handle -> {"none", "ready", "parked", "done"}]
      /\ \A h \in Handle : rd'[h] = "parked" =>
           rd[h] = "parked" /\ rtask'[h] /\ ~(Live(h) /\ Readable(sock[h]))
  BY DEF Notify, WakeReaders, ParkedHasWaker, TypeOK
<1>5. \A h \in Handle : ~Live(h) => sock'[h] = None
  BY <1>1 DEF Live, Prune
<1>6. \A h \in Handle : Live(h) =>
        /\ sock[h].refs > 0 => sock'[h] = sock[h]
        /\ sock'[h] # None => /\ WellFormed(sock'[h])
                              /\ sock'[h].refs = sock[h].refs
                              /\ sock'[h].state \in {"listen", "syn"} => sock[h].state \in {"listen", "syn"}
                              /\ sock[h].state \notin {"listen", "syn"} /\ Receives(sock'[h]) => Receives(sock[h])
  BY <1>1, PruneOK DEF TypeOK
<1>7. TypeOK'
  <2>1. \A h \in Handle : sock'[h] # None => WellFormed(sock'[h])
    BY <1>5, <1>6
  <2>2. \A h \in Handle : sock'[h] \in Socket \cup {None}
    BY <2>1 DEF WellFormed
  <2>3. sock' \in [Handle -> Socket \cup {None}]
    BY <1>1, <2>2
  <2>4. pending' \in [Handle -> Nat]
    BY <1>2 DEF Notify, HandOutNew, TypeOK
  <2> QED BY <1>1, <1>3, <1>4, <2>1, <2>3, <2>4 DEF TypeOK, Live
<1>8. ASSUME NEW h \in Handle
      PROVE  /\ ~Live(h)' => Objects(h)' = 0
             /\ Live(h)' => Owned(h)' \/ Fresh(h)'
             /\ Owned(h)' => sock'[h].state \notin {"listen", "syn"}
             /\ h \in MayRecvTunHandles(sock') => Owned(h)'
  <2>0. /\ pending[h] \in Nat /\ objs[h] \in Nat /\ objs'[h] = objs[h]
        /\ Live(h) => sock[h].refs \in Nat /\ WellFormed(sock[h])
    BY <1>1 DEF TypeOK, WellFormed, Socket
  <2>1. CASE ~Live(h)
    BY <1>2, <1>5, <2>0, <2>1 DEF Live, Referred, Objects, Owned, MayRecvTunHandles
  <2>2. CASE Fresh(h)
    <3>1. sock'[h] = sock[h] /\ sock[h] # None /\ sock[h].refs = 1 /\ pending[h] = 0 /\ objs[h] = 0
      BY <1>6, <2>0, <2>2 DEF Fresh, Objects, Live
    <3>2. h \notin before
      BY <1>1, <2>2 DEF BeforeKnown, Owned, Fresh
    <3>3. CASE h \in MayRecvTunHandles(sock')
      <4>1. sock[h].state \notin {"listen", "syn"}
        BY <2>0, <3>1, <3>3 DEF MayRecvTunHandles, MayRecv, WellFormed, Live
      <4>2. Owned(h)'
        BY <1>2, <2>0, <3>1, <3>2, <3>3 DEF Owned, Objects, Live
      <4> QED BY <3>1, <4>1, <4>2 DEF Owned
    <3>4. CASE h \notin MayRecvTunHandles(sock')
      BY <1>2, <2>0, <3>1, <3>4 DEF Owned, Fresh, Objects, Live
    <3> QED BY <3>3, <3>4
  <2>3. CASE Owned(h)
    <3>1. /\ sock[h].state \notin {"listen", "syn"} /\ Objects(h) = sock[h].refs /\ Live(h)
      BY <2>3 DEF Referred, Owned
    <3>2. CASE sock'[h] = None
      <4>1. sock[h].refs = 0
        BY <1>6, <2>0, <3>1, <3>2 DEF Live
      <4> QED BY <1>2, <2>0, <3>1, <3>2, <4>1 DEF Objects, Live, Owned, MayRecvTunHandles
    <3>3. CASE sock'[h] # None
      <4>1. h \in MayRecvTunHandles(sock') => h \in before
        <5>1. h \in MayRecvTunHandles(sock') => h \in MayRecvTunHandles(sock)
          BY <1>6, <3>1, <3>3 DEF MayRecvTunHandles, Receives, Live
        <5> QED BY <1>1, <2>3, <5>1 DEF BeforeKnown
      <4>2. pending'[h] = pending[h]
        BY <1>2, <4>1
      <4>3. sock'[h].refs = sock[h].refs /\ sock'[h].state \notin {"listen", "syn"}
        BY <1>6, <3>1, <3>3
      <4> QED BY <2>0, <3>1, <3>3, <4>2, <4>3 DEF Owned, Objects, Live
    <3> QED BY <3>2, <3>3
  <2> QED BY <2>1, <2>2, <2>3 DEF Referred
<1>9. Referred'
  BY <1>8 DEF Referred
<1>10. HandedOut' /\ BeforeKnown'
  BY <1>1, <1>8 DEF HandedOut, BeforeKnown, Owned, MayRecvTunHandles
<1>11. ParkedHasWaker'
  BY <1>1, <1>3, <1>4 DEF ParkedHasWaker
<1>12. ReadableWoken'
  <2> SUFFICES ASSUME NEW h \in Handle, Live(h)', rd'[h] = "parked"
               PROVE  ~Readable(sock'[h])
    BY DEF ReadableWoken
  <2>1. Live(h) /\ ~Readable(sock[h]) /\ objs[h] > 0
    BY <1>4, <1>5 DEF Live, ParkedHasWaker
  <2>2. sock[h].refs > 0
    <3>1. pending[h] \in Nat /\ objs[h] \in Nat
      BY DEF TypeOK
    <3>2. Objects(h) = sock[h].refs
      BY <2>1, <3>1 DEF Referred, Owned, Fresh, Objects
    <3> QED BY <2>1, <3>1, <3>2 DEF Objects
  <2> QED BY <1>6, <2>1, <2>2
<1>13. SenderAwake' /\ TcpWritersWoken'
  BY <1>3 DEF SenderAwake, TcpWritersWoken
<1> QED BY <1>7, <1>9, <1>10, <1>11, <1>12, <1>13 DEF Awake

LEMMA SenderOverOK == IInv /\ (SenderEnds \/ WriteFails) => IInv'
<1> SUFFICES ASSUME IInv, SenderEnds \/ WriteFails PROVE IInv'
  OBVIOUS
<1> USE DEF IInv
<1>1. /\ UNCHANGED <<sock, pending, rtask, wtask, twtask, rx, txring, pc, before,
                     objs, rd, wr, term, tunq, app>>
      /\ tw' \in {"ended", "panicked"}
  BY DEF SenderEnds, WriteFails
<1>2. TypeOK' BY <1>1 DEF TypeOK, Live
<1>3. Referred' BY <1>1 DEF Referred, Owned, Fresh, Live, Objects
<1>4. BeforeKnown' BY <1>1 DEF BeforeKnown, Owned, MayRecvTunHandles, Live, Objects
<1>5. HandedOut' BY <1>1 DEF HandedOut, MutexFree, MayRecvTunHandles, Objects
<1>6. ParkedHasWaker' BY <1>1 DEF ParkedHasWaker
<1>7. Awake'
  BY <1>1 DEF Awake, ReadableWoken, SenderAwake, TcpWritersWoken, MutexFree, Live
<1> QED BY <1>2, <1>3, <1>4, <1>5, <1>6, <1>7

(* TunWrite parks only when nothing was left to emit, and wakes the        *)
(* writers whose buffers have room before it does.                         *)
LEMMA SenderPollOK == IInv /\ SenderPoll => IInv'
<1> SUFFICES ASSUME IInv, SenderPoll PROVE IInv'
  OBVIOUS
<1> USE DEF IInv
<1> DEFINE emitting == {h \in Handle : Live(h) /\ Emits(sock[h])}
<1>1. /\ UNCHANGED <<pending, rx, pc, before, objs, term, tunq>>
      /\ pc = "idle" /\ WakeSendable(sock') /\ Connect(emitting)
      /\ txring' = (emitting # {}) /\ twtask' = (twtask \/ emitting = {})
      /\ tw' = IF emitting = {} THEN "parked" ELSE "ready"
  BY DEF SenderPoll, MutexFree
<1>2. PICK expired \in SUBSET {h \in Handle : Live(h) /\ sock[h].state = "time_wait"} :
        sock' = [h \in Handle |-> IF ~Live(h) THEN None
                                  ELSE IF h \in expired THEN Reset(sock[h])
                                  ELSE Dispatched(sock[h])]
  BY DEF SenderPoll
<1>3. \A h \in Handle : ~Live(h) => sock'[h] = None
  BY <1>2
<1>4. ASSUME NEW h \in Handle, Live(h)
      PROVE  /\ WellFormed(sock'[h])
             /\ sock'[h].refs = sock[h].refs /\ sock'[h].flow = sock[h].flow /\ ~Emits(sock'[h])
             /\ sock'[h].state \in {"listen", "syn"} <=> sock[h].state \in {"listen", "syn"}
             /\ Receives(sock'[h]) <=> Receives(sock[h])
             /\ Readable(sock'[h]) => Readable(sock[h])
  <2>1. WellFormed(sock[h])
    BY <1>4 DEF TypeOK
  <2>2. sock'[h] = Dispatched(sock[h]) \/ (sock[h].state = "time_wait" /\ sock'[h] = Reset(sock[h]))
    BY <1>2, <1>4
  <2> QED BY <2>1, <2>2, SentOK
<1> HIDE DEF emitting
<1>5. \A h \in Handle : (Live(h)' <=> Live(h)) /\ Objects(h)' = Objects(h)
  <2>1. \A h \in Handle : Live(h) => sock'[h] \in Socket
    BY <1>4 DEF WellFormed
  <2> QED BY <1>1, <1>3, <2>1, SocketNotNone DEF Live, Objects
<1>6. /\ rtask' \in [Handle -> BOOLEAN] /\ rd' \in [Handle -> {"none", "ready", "parked", "done"}]
      /\ \A h \in Handle : rd'[h] = "parked" => rd[h] = "parked" /\ rtask'[h]
  BY <1>1 DEF WakeSendable, WakeReaders, ParkedHasWaker, TypeOK
<1>7. /\ wtask' \in [Handle -> BOOLEAN] /\ wr' \in [Handle -> {"none", "ready", "parked", "done"}]
      /\ \A h \in Handle : wr'[h] = "parked" =>
           /\ wr[h] = "parked" /\ wtask'[h]
           /\ Live(h) /\ sock[h].flow \in TcpFlow => ~CanSend(sock'[h])
  BY <1>1 DEF WakeSendable, WakeWriters, OfKind, ParkedHasWaker, TypeOK
<1>8. TypeOK'
  <2>1. \A h \in Handle : sock'[h] # None => WellFormed(sock'[h])
    BY <1>3, <1>4
  <2>2. sock' \in [Handle -> Socket \cup {None}]
    BY <1>2, <2>1 DEF WellFormed
  <2>3. app' \in [TcpFlow -> AppState]
    BY <1>1 DEF Connect, TypeOK, AppState
  <2> QED BY <1>1, <1>6, <1>7, <2>1, <2>2, <2>3 DEF TypeOK, Live
<1>9. Referred'
  BY <1>4, <1>5 DEF Referred, Owned, Fresh
<1>10. BeforeKnown' /\ HandedOut'
  <2>1. \A h \in Handle : h \in MayRecvTunHandles(sock') <=> h \in MayRecvTunHandles(sock)
    BY <1>3, <1>4, <1>5 DEF MayRecvTunHandles, Receives, Live
  <2> QED BY <1>1, <1>4, <1>5, <2>1 DEF BeforeKnown, HandedOut, MutexFree, MayRecvTunHandles, Live
<1>11. ParkedHasWaker'
  BY <1>1, <1>6, <1>7 DEF ParkedHasWaker, TypeOK
<1>12. ReadableWoken'
  BY <1>1, <1>4, <1>5, <1>6 DEF Awake, ReadableWoken, MutexFree
<1>13. SenderAwake'
  BY <1>1, <1>4, <1>5 DEF SenderAwake, Emits
<1>14. TcpWritersWoken'
  BY <1>4, <1>5, <1>7 DEF TcpWritersWoken, OfKind
<1> QED BY <1>8, <1>9, <1>10, <1>11, <1>12, <1>13, <1>14 DEF Awake

(* A handler's object is one of the references of its socket. *)
LEMMA ObjectOwned ==
  ASSUME IInv, NEW h \in Handle, objs[h] > 0
  PROVE  /\ Live(h) /\ Owned(h) /\ WellFormed(sock[h])
         /\ sock[h].refs >= objs[h] /\ sock[h].refs \in Nat /\ objs[h] \in Nat
<1>1. pending[h] \in Nat /\ objs[h] \in Nat
  BY DEF IInv, TypeOK
<1>2. Live(h) /\ Owned(h)
  BY <1>1 DEF IInv, Referred, Fresh, Objects
<1>3. WellFormed(sock[h])
  BY <1>2 DEF IInv, TypeOK
<1> QED BY <1>1, <1>2, <1>3 DEF Owned, Objects, WellFormed, Socket

(* A handler changes what the buffers of its own socket hold: it reads, or *)
(* it writes and wakes TunWrite.                                           *)
LEMMA TransferOK ==
  ASSUME IInv, NEW h \in Handle, ReadSome(h) \/ WriteSome(h)
  PROVE  IInv'
<1> USE DEF IInv
<1>1. /\ UNCHANGED <<pending, rtask, wtask, rd, wr, rx, txring, pc, before, objs, term, tunq, app>>
      /\ pc = "idle" /\ objs[h] > 0
  BY DEF ReadSome, WriteSome, Reading, Writing, MutexFree, tasks
<1>2. Live(h) /\ Owned(h) /\ WellFormed(sock[h])
  BY <1>1, ObjectOwned
<1>3. PICK t \in Socket :
        /\ sock' = [sock EXCEPT ![h] = t] /\ WellFormed(t)
        /\ t.refs = sock[h].refs /\ t.flow = sock[h].flow /\ t.state = sock[h].state
        /\ t.rx <= sock[h].rx
        /\ \/ WakeSender
           \/ /\ UNCHANGED <<twtask, tw>>
              /\ t.tx = sock[h].tx /\ (Due(t) <=> Due(sock[h]))
  <2>1. CASE ReadSome(h)
    <3>1. PICK k \in UnitsRead(sock[h]) :
            sock' = [sock EXCEPT ![h].rx = @ - k, ![h].owes = WindowGrows(sock[h])]
      BY <2>1 DEF ReadSome
    <3>2. k \in Nat /\ sock[h].rx - k \in 0 .. RxCap
      BY <1>2, <2>1, TunAssumption DEF ReadSome, CanRecv, UnitsRead, WellFormed, Socket
    <3>3. PICK x \in 0 .. RxCap : x = sock[h].rx - k
      BY <3>2
    <3>4. PICK o \in Owing : o = WindowGrows(sock[h]) /\ (o = "ack" <=> sock[h].owes = "ack")
      BY <1>2 DEF WindowGrows, WellFormed, Socket, Owing
    <3> DEFINE t == [sock[h] EXCEPT !.rx = x, !.owes = o]
    <3>5. t \in Socket
      BY <1>2 DEF WellFormed, Socket
    <3>6. sock' = [sock EXCEPT ![h] = t]
      BY <3>1, <3>3, <3>4
    <3>7. /\ t.rx = x /\ t.owes = o /\ t.refs = sock[h].refs /\ t.flow = sock[h].flow
          /\ t.state = sock[h].state /\ t.tx = sock[h].tx /\ t.unsent = sock[h].unsent
          /\ t.ctl = sock[h].ctl
      BY <1>2 DEF WellFormed, Socket
    <3> HIDE DEF t
    <3>8. WellFormed(t) /\ t.rx <= sock[h].rx
      BY <1>2, <3>2, <3>3, <3>5, <3>7, TunAssumption DEF WellFormed, Socket
    <3>9. Due(t) <=> Due(sock[h])
      BY <3>4, <3>7 DEF Due
    <3>10. UNCHANGED <<twtask, tw>>
      BY <2>1 DEF ReadSome, tasks
    <3> QED BY <3>5, <3>6, <3>7, <3>8, <3>9, <3>10
  <2>2. CASE WriteSome(h)
    <3>1. PICK k \in UnitsWritten(sock[h]) :
            sock' = [sock EXCEPT ![h].tx = @ + k, ![h].unsent = @ + k]
      BY <2>2 DEF WriteSome
    <3>2. /\ k \in Nat /\ sock[h].tx + k \in 0 .. TxCap /\ sock[h].unsent + k \in 0 .. TxCap
          /\ sock[h].unsent + k <= sock[h].tx + k
      BY <1>2, <2>2, TunAssumption DEF WriteSome, CanSend, UnitsWritten, WellFormed, Socket
    <3>3. PICK x \in 0 .. TxCap, u \in 0 .. TxCap : x = sock[h].tx + k /\ u = sock[h].unsent + k
      BY <3>2
    <3> DEFINE t == [sock[h] EXCEPT !.tx = x, !.unsent = u]
    <3>4. t \in Socket
      BY <1>2 DEF WellFormed, Socket
    <3>5. sock' = [sock EXCEPT ![h] = t]
      BY <3>1, <3>3
    <3>6. WellFormed(t) /\ t.rx = sock[h].rx /\ sock[h].rx \in Nat
      BY <1>2, <3>2, <3>3, <3>4, TunAssumption DEF WellFormed, Socket
    <3>7. t.refs = sock[h].refs /\ t.flow = sock[h].flow /\ t.state = sock[h].state /\ t.rx <= sock[h].rx
      BY <1>2, <3>6 DEF WellFormed, Socket
    <3>8. WakeSender
      BY <2>2 DEF WriteSome
    <3> HIDE DEF t
    <3> QED BY <3>4, <3>5, <3>6, <3>7, <3>8
  <2> QED BY <2>1, <2>2
<1>4. /\ sock'[h] = t /\ t # None
      /\ \A g \in Handle \ {h} : sock'[g] = sock[g]
      /\ \A g \in Handle : (Live(g)' <=> Live(g)) /\ Objects(g)' = Objects(g)
  BY <1>1, <1>2, <1>3, SocketNotNone DEF TypeOK, Live, Objects
<1>5. twtask' \in BOOLEAN /\ tw' \in {"ready", "parked", "ended", "panicked"} /\ (tw' = "parked" => twtask')
  <2>1. CASE WakeSender
    BY <2>1 DEF WakeSender, TypeOK, ParkedHasWaker
  <2>2. CASE UNCHANGED <<twtask, tw>>
    BY <2>2 DEF TypeOK, ParkedHasWaker
  <2> QED BY <1>3, <2>1, <2>2
<1>6. TypeOK'
  BY <1>1, <1>3, <1>4, <1>5 DEF TypeOK, Live
<1>7. Referred'
  BY <1>3, <1>4 DEF Referred, Owned, Fresh
<1>8. BeforeKnown' /\ HandedOut'
  BY <1>1, <1>2, <1>3, <1>4 DEF BeforeKnown, HandedOut, MutexFree, MayRecvTunHandles, Owned, Live
<1>9. ParkedHasWaker'
  BY <1>1, <1>5 DEF ParkedHasWaker
<1>10. ReadableWoken'
  <2>1. sock[h].rx \in Nat /\ t.rx \in Nat
    BY <1>2, TunAssumption DEF WellFormed, Socket
  <2>2. Readable(t) => Readable(sock[h])
    BY <1>3, <2>1 DEF Readable, CanRecv, MayRecv, IsOpen
  <2> QED BY <1>1, <1>4, <2>2 DEF Awake, ReadableWoken, MutexFree
<1>11. SenderAwake' /\ TcpWritersWoken'
  <2>1. CASE WakeSender
    <3>1. tw' # "parked"
      BY <2>1 DEF WakeSender, ParkedHasWaker
    <3> QED BY <3>1 DEF SenderAwake, TcpWritersWoken
  <2>2. CASE /\ UNCHANGED <<twtask, tw>>
             /\ t.tx = sock[h].tx /\ (Due(t) <=> Due(sock[h]))
    <3>1. CanSend(t) <=> CanSend(sock[h])
      BY <1>3, <2>2 DEF CanSend, MaySend
    <3>2. SenderAwake'
      BY <1>1, <1>4, <2>2 DEF Awake, SenderAwake, MutexFree
    <3>3. TcpWritersWoken'
      BY <1>1, <1>3, <1>4, <2>2, <3>1 DEF Awake, TcpWritersWoken, MutexFree, OfKind
    <3> QED BY <3>2, <3>3
  <2> QED BY <1>3, <2>1, <2>2
<1> QED BY <1>6, <1>7, <1>8, <1>9, <1>10, <1>11 DEF Awake

(* A side of a handler parks, with nothing to do and a waker left behind,  *)
(* or is done.                                                             *)
LEMMA ParkOK ==
  ASSUME IInv, NEW h \in Handle, ReadParks(h) \/ ReadEof(h) \/ WriteParks(h) \/ WriteEof(h)
  PROVE  IInv'
<1> USE DEF IInv
<1>1. /\ UNCHANGED <<sock, pending, twtask, tw, rx, txring, pc, before, objs, term, tunq, app>>
      /\ pc = "idle" /\ objs[h] > 0
  BY DEF ReadParks, ReadEof, WriteParks, WriteEof, Reading, Writing, MutexFree
<1>2. /\ rtask' \in [Handle -> BOOLEAN] /\ wtask' \in [Handle -> BOOLEAN]
      /\ rd' \in [Handle -> {"none", "ready", "parked", "done"}]
      /\ wr' \in [Handle -> {"none", "ready", "parked", "done"}]
      /\ \A g \in Handle :
           /\ rd'[g] = "parked" => rtask'[g] /\ (rd[g] = "parked" \/ (g = h /\ ~Readable(sock[h])))
           /\ wr'[g] = "parked" => wtask'[g] /\ (wr[g] = "parked" \/ (g = h /\ ~CanSend(sock[h])))
  <2>1. CASE ReadParks(h)
    BY <2>1 DEF ReadParks, TypeOK, ParkedHasWaker, Readable
  <2>2. CASE ReadEof(h)
    BY <2>2 DEF ReadEof, TypeOK, ParkedHasWaker
  <2>3. CASE WriteParks(h)
    BY <2>3 DEF WriteParks, TypeOK, ParkedHasWaker
  <2>4. CASE WriteEof(h)
    BY <2>4 DEF WriteEof, TypeOK, ParkedHasWaker
  <2> QED BY <2>1, <2>2, <2>3, <2>4
<1>3. TypeOK' BY <1>1, <1>2 DEF TypeOK, Live
<1>4. Referred' BY <1>1 DEF Referred, Owned, Fresh, Live, Objects
<1>5. BeforeKnown' /\ HandedOut'
  BY <1>1 DEF BeforeKnown, HandedOut, MutexFree, MayRecvTunHandles, Objects
<1>6. ParkedHasWaker' BY <1>1, <1>2 DEF ParkedHasWaker
<1>7. ReadableWoken' BY <1>1, <1>2 DEF Awake, ReadableWoken, MutexFree, Live
<1>8. SenderAwake' BY <1>1 DEF Awake, SenderAwake, MutexFree, Live
<1>9. TcpWritersWoken' BY <1>1, <1>2 DEF Awake, TcpWritersWoken, MutexFree, OfKind, Live
<1> QED BY <1>3, <1>4, <1>5, <1>6, <1>7, <1>8, <1>9 DEF Awake

(* An object comes or goes with its reference. *)
LEMMA ReferenceOK ==
  ASSUME IInv, NEW h \in Handle, Clone(h) \/ Drop(h)
  PROVE  IInv'
<1> USE DEF IInv
<1>1. /\ UNCHANGED <<pending, rtask, wtask, twtask, tw, rx, txring, pc, before, term, tunq, app>>
      /\ pc = "idle" /\ objs[h] > 0
  BY DEF Clone, Drop, MutexFree, tasks
<1>2. /\ Live(h) /\ Owned(h) /\ WellFormed(sock[h])
      /\ sock[h].refs >= objs[h] /\ sock[h].refs \in Nat /\ objs[h] \in Nat
  BY <1>1, ObjectOwned
<1>3. PICK r \in Nat, n \in Nat :
        /\ sock' = [sock EXCEPT ![h] = [sock[h] EXCEPT !.refs = r]]
        /\ objs' = [objs EXCEPT ![h] = n]
        /\ r - sock[h].refs = n - objs[h]
        /\ \/ n > 0 /\ UNCHANGED <<rd, wr>>
           \/ n = 0 /\ rd' = [rd EXCEPT ![h] = "none"] /\ wr' = [wr EXCEPT ![h] = "none"]
  <2>1. CASE Clone(h)
    <3>1. /\ sock' = [sock EXCEPT ![h].refs = @ + 1] /\ objs' = [objs EXCEPT ![h] = @ + 1]
          /\ UNCHANGED <<rd, wr>>
      BY <2>1 DEF Clone, tasks
    <3>2. PICK r \in Nat, n \in Nat : r = sock[h].refs + 1 /\ n = objs[h] + 1
      BY <1>2
    <3>3. /\ sock' = [sock EXCEPT ![h] = [sock[h] EXCEPT !.refs = r]]
          /\ objs' = [objs EXCEPT ![h] = n]
      BY <3>1, <3>2
    <3>4. r - sock[h].refs = n - objs[h] /\ n > 0
      BY <1>2, <3>2
    <3> QED BY <3>1, <3>3, <3>4
  <2>2. CASE Drop(h)
    <3>1. /\ sock' = [sock EXCEPT ![h].refs = @ - 1] /\ objs' = [objs EXCEPT ![h] = @ - 1]
          /\ rd' = [rd EXCEPT ![h] = IF objs[h] = 1 THEN "none" ELSE @]
          /\ wr' = [wr EXCEPT ![h] = IF objs[h] = 1 THEN "none" ELSE @]
      BY <2>2 DEF Drop
    <3>2. PICK r \in Nat, n \in Nat : r = sock[h].refs - 1 /\ n = objs[h] - 1
      BY <1>1, <1>2
    <3>3. /\ sock' = [sock EXCEPT ![h] = [sock[h] EXCEPT !.refs = r]]
          /\ objs' = [objs EXCEPT ![h] = n]
      BY <3>1, <3>2
    <3>4. r - sock[h].refs = n - objs[h] /\ (n = 0 <=> objs[h] = 1)
      BY <1>1, <1>2, <3>2
    <3>5. CASE objs[h] = 1
      <4>1. n = 0 /\ rd' = [rd EXCEPT ![h] = "none"] /\ wr' = [wr EXCEPT ![h] = "none"]
        BY <3>1, <3>4, <3>5
      <4> QED BY <3>3, <3>4, <4>1
    <3>6. CASE objs[h] # 1
      <4>1. n > 0 /\ UNCHANGED <<rd, wr>>
        BY <3>1, <3>4, <3>6 DEF TypeOK
      <4> QED BY <3>3, <3>4, <4>1
    <3> QED BY <3>5, <3>6
  <2> QED BY <2>1, <2>2
<1> DEFINE t == [sock[h] EXCEPT !.refs = r]
<1>4. /\ t \in Socket /\ WellFormed(t) /\ t.refs = r /\ t.flow = sock[h].flow /\ t.state = sock[h].state
      /\ t.rx = sock[h].rx /\ t.tx = sock[h].tx /\ t.unsent = sock[h].unsent /\ t.ctl = sock[h].ctl
      /\ t.owes = sock[h].owes
  <2>1. /\ t \in Socket /\ t.refs = r /\ t.flow = sock[h].flow /\ t.state = sock[h].state
        /\ t.rx = sock[h].rx /\ t.tx = sock[h].tx /\ t.unsent = sock[h].unsent
        /\ t.ctl = sock[h].ctl /\ t.owes = sock[h].owes
    BY <1>2 DEF WellFormed, Socket
  <2>2. sock[h].refs > 0
    BY <1>1, <1>2
  <2> HIDE DEF t
  <2> QED BY <1>2, <2>1, <2>2 DEF WellFormed
<1>5. sock' = [sock EXCEPT ![h] = t]
  BY <1>3
<1> HIDE DEF t
<1>6. /\ sock'[h] = t /\ t # None
      /\ \A g \in Handle \ {h} : sock'[g] = sock[g] /\ objs'[g] = objs[g]
      /\ \A g \in Handle : Live(g)' <=> Live(g)
  <2>1. objs' = [objs EXCEPT ![h] = n] /\ t # None
    BY <1>3, <1>4, SocketNotNone
  <2>2. sock'[h] = t /\ \A g \in Handle \ {h} : sock'[g] = sock[g] /\ objs'[g] = objs[g]
    BY <1>5, <2>1 DEF TypeOK
  <2> QED BY <1>2, <2>1, <2>2 DEF Live
<1>7. /\ Objects(h)' = t.refs /\ objs'[h] = n
      /\ \A g \in Handle \ {h} : Objects(g)' = Objects(g)
  <2>1. objs'[h] = n /\ r - sock[h].refs = n - objs[h] /\ pending[h] \in Nat /\ pending'[h] = pending[h]
    BY <1>1, <1>3 DEF TypeOK
  <2>2. Objects(h)' = r
    BY <1>2, <2>1 DEF Owned, Objects
  <2> QED BY <1>1, <1>4, <1>6, <2>1, <2>2 DEF Objects
<1>8. \A g \in Handle : (rd'[g] = "parked" => rd[g] = "parked" /\ objs'[g] > 0)
                       /\ (wr'[g] = "parked" => wr[g] = "parked" /\ objs'[g] > 0)
  BY <1>3, <1>6, <1>7 DEF TypeOK, ParkedHasWaker
<1>9. TypeOK'
  BY <1>1, <1>3, <1>4, <1>5, <1>6 DEF TypeOK, Live
<1>10. Referred'
  BY <1>2, <1>4, <1>6, <1>7 DEF Referred, Owned, Fresh
<1>11. BeforeKnown' /\ HandedOut'
  BY <1>1, <1>4, <1>6, <1>7 DEF BeforeKnown, HandedOut, MutexFree, MayRecvTunHandles, Live
<1>12. ParkedHasWaker'
  BY <1>1, <1>8 DEF ParkedHasWaker
<1>13. /\ Readable(t) <=> Readable(sock[h])
       /\ Due(t) <=> Due(sock[h])
       /\ CanSend(t) <=> CanSend(sock[h])
  BY <1>4 DEF Readable, CanRecv, MayRecv, IsOpen, Due, CanSend, MaySend
<1>14. ReadableWoken'
  BY <1>1, <1>6, <1>8, <1>13 DEF Awake, ReadableWoken, MutexFree
<1>15. SenderAwake'
  BY <1>1, <1>6, <1>13 DEF Awake, SenderAwake, MutexFree
<1>16. TcpWritersWoken'
  BY <1>1, <1>4, <1>6, <1>8, <1>13 DEF Awake, TcpWritersWoken, MutexFree, OfKind
<1> QED BY <1>9, <1>10, <1>11, <1>12, <1>14, <1>15, <1>16 DEF Awake

(* A step that changes nothing keeps the invariant. *)
LEMMA StutterOK == IInv /\ UNCHANGED vars => IInv'
<1> SUFFICES ASSUME IInv, UNCHANGED vars PROVE IInv'
  OBVIOUS
<1>1. TypeOK'
  BY DEF IInv, vars, TypeOK, Live
<1> QED BY <1>1, Quiet DEF IInv, vars, tasks

-----------------------------------------------------------------------------
(* The theorems *)

(* IInv is an invariant: what the listener, TunWrite, the handlers and the *)
(* applications do, in whatever order, keeps references, objects and       *)
(* wakers in agreement.                                                    *)
THEOREM Inductive == Spec => []IInv
<1>1. Init => IInv
  BY InitOK
<1>2. IInv /\ [Next]_vars => IInv'
  <2> SUFFICES ASSUME IInv, [Next]_vars PROVE IInv'
    OBVIOUS
  <2>1. CASE Listener
    BY <2>1, AcceptOK, IdlePollOK, PopulateOK, IngressOK, IngressDoneOK, NotifyOK, ListenerOverOK
       DEF Listener
  <2>2. CASE \E h \in Handle : Handler(h)
    BY <2>2, TransferOK, ParkOK, ReferenceOK DEF Handler
  <2> QED BY <2>1, <2>2, ListenerOverOK, SenderPollOK, SenderOverOK, EnvironmentOK, StutterOK DEF Next
<1> QED BY <1>1, <1>2, PTL DEF Spec

(* What the safety comment of TunSocket demands: every socket object has a *)
(* reference of its own, so its socket is neither pruned nor its slot      *)
(* reused, and no release goes below zero.                                 *)
THEOREM ReferencesHeld == Spec => []ObjectsHaveReference
<1>1. IInv => ObjectsHaveReference
  <2> SUFFICES ASSUME IInv, NEW h \in Handle, Objects(h) > 0
               PROVE  Live(h) /\ Objects(h) <= sock[h].refs
    BY DEF ObjectsHaveReference
  <2>1. Live(h) /\ Owned(h)
    BY DEF IInv, Referred, Fresh
  <2>2. sock[h].refs \in Nat
    BY <2>1 DEF IInv, TypeOK, WellFormed, Socket
  <2> QED BY <2>1, <2>2 DEF Owned
<1> QED BY <1>1, Inductive, PTL

(* Every socket an application can send data to is handed out once, and    *)
(* all its references belong to objects.                                   *)
THEOREM SocketsHandedOut == Spec => []HandedOut
<1>1. IInv => HandedOut
  BY DEF IInv
<1> QED BY <1>1, Inductive, PTL

(* No wake-up is lost, of a reader whose connection has not been reset, of *)
(* TunWrite unless only a window update is to be sent, or of a TCP writer. *)
THEOREM WakeUpsArrive == Spec => []NobodySleeps
<1>1. ASSUME IInv, MutexFree, NEW h \in Handle, Live(h), rd[h] = "parked", sock[h].state # "closed"
      PROVE  ~CanRecv(sock[h]) /\ (sock[h].state = "udp" \/ MayRecv(sock[h]))
  <2>1. ~Readable(sock[h]) /\ objs[h] > 0
    BY <1>1 DEF IInv, Awake, ReadableWoken, ParkedHasWaker
  <2>2. WellFormed(sock[h]) /\ sock[h].refs > 0
    BY <1>1, <2>1, ObjectOwned
  <2>3. IsOpen(sock[h])
    BY <1>1, <2>2 DEF WellFormed, IsOpen
  <2> QED BY <2>1, <2>3 DEF Readable
<1>2. IInv => NobodySleeps
  BY <1>1 DEF IInv, Awake, NobodySleeps, ReadersWoken
<1> QED BY <1>2, Inductive, PTL
=============================================================================
