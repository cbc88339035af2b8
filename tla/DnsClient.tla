----------------------------- MODULE DnsClient -----------------------------
(***************************************************************************)
(* DnsNetworkClient of hermes/hermesdns/src/dns/client.rs: many callers    *)
(* share one UDP socket, and a background task (run) pairs the replies     *)
(* with the callers by the 16-bit id of the packet.                        *)
(*                                                                         *)
(* run races a read loop and a write loop inside one task, so a request is *)
(* sent and entered in the map in one step.  Any error of either loop ends *)
(* run: the map and the socket are dropped and run starts again with a new *)
(* socket.  The network loses, delays, reorders and duplicates replies.    *)
(***************************************************************************)
EXTENDS Naturals, Sequences

CONSTANTS
  Query,    \* calls of send_udp_query
  IdSpace,  \* number of values of the packet id (0x10000 in the code)
  None      \* no caller

ASSUME DnsClientAssumption ==
  /\ IdSpace \in Nat /\ IdSpace > 1
  /\ None \notin Query

VARIABLES
  seq,     \* DnsNetworkClient.seq, a usize
  issued,  \* history: calls that have taken an id
  turn,    \* history: how many calls had taken one before this call did
  call,    \* where each call is
  id,      \* packet.header.id of each call
  queue,   \* the request channel, of capacity 1
  up,      \* is run past its bind?
  map,     \* req_resp_map
  resp,    \* the message in each call's response channel: whose reply it is
  sent,    \* requests that left the current socket and may be answered
  net,     \* replies on their way to the current socket
  got      \* what each call returned: whose reply, or None for an error

vars == <<seq, issued, turn, call, id, queue, up, map, resp, sent, net, got>>

Id == 0 .. IdSpace - 1

Init ==
  /\ seq = 0
  /\ issued = 0
  /\ turn = [q \in Query |-> 0]
  /\ call = [q \in Query |-> "idle"]
  /\ id = [q \in Query |-> 0]
  /\ queue = <<>>
  /\ up = FALSE
  /\ map = [i \in Id |-> None]
  /\ resp = [q \in Query |-> None]
  /\ sent = {}
  /\ net = {}
  /\ got = [q \in Query |-> None]

(* What is left of a call: itself, its request, or a reply to it. *)
Lingers(q) ==
  \/ call[q] \in {"adjust", "enqueue", "waiting"}
  \/ q \in sent \cup net
  \/ \E i \in 1 .. Len(queue) : queue[i] = q

(* Assumed of the load: fewer than 0xFFFF calls are made during the life   *)
(* of any call, its request and its replies.                               *)
WithinWindow == \A p \in Query : Lingers(p) => issued - turn[p] < IdSpace - 1

-----------------------------------------------------------------------------
(* send_udp_query *)

TakeId(q) ==
  /\ call[q] = "idle"
  /\ WithinWindow
  /\ id' = [id EXCEPT ![q] = seq % IdSpace]
  /\ seq' = seq + 1
  /\ turn' = [turn EXCEPT ![q] = issued]
  /\ issued' = issued + 1
  /\ call' = [call EXCEPT ![q] = "adjust"]
  /\ UNCHANGED <<queue, up, map, resp, sent, net, got>>

(* The caller of id 0xFFFE restarts the counter, unless another caller has *)
(* incremented it since (compare_and_swap).                                *)
AdjustSeq(q) ==
  /\ call[q] = "adjust"
  /\ seq' = IF id[q] + 1 = IdSpace - 1 /\ seq = IdSpace - 1 THEN 0 ELSE seq
  /\ call' = [call EXCEPT ![q] = "enqueue"]
  /\ UNCHANGED <<issued, turn, id, queue, up, map, resp, sent, net, got>>

Enqueue(q) ==
  /\ call[q] = "enqueue"
  /\ queue = <<>>
  /\ queue' = <<q>>
  /\ call' = [call EXCEPT ![q] = "waiting"]
  /\ UNCHANGED <<seq, issued, turn, id, up, map, resp, sent, net, got>>

(* The sending half of the response channel is in the queue or in the map. *)
SenderAlive(q) ==
  \/ \E i \in 1 .. Len(queue) : queue[i] = q
  \/ \E i \in Id : map[i] = q

Finish(q, answer) ==
  /\ got' = [got EXCEPT ![q] = answer]
  /\ call' = [call EXCEPT ![q] = "done"]

Answered(q) ==
  /\ call[q] = "waiting"
  /\ resp[q] # None
  /\ Finish(q, resp[q])
  /\ UNCHANGED <<seq, issued, turn, id, queue, up, map, resp, sent, net>>

(* "domain not found": the sender was dropped. *)
Disconnected(q) ==
  /\ call[q] = "waiting"
  /\ resp[q] = None
  /\ ~SenderAlive(q)
  /\ Finish(q, None)
  /\ UNCHANGED <<seq, issued, turn, id, queue, up, map, resp, sent, net>>

(* Fault: the caller waits for its reply without a timeout. *)
WaitsForever(q) == FALSE /\ UNCHANGED vars

TimedOut(q) ==
  /\ call[q] = "waiting"
  /\ Finish(q, None)
  /\ UNCHANGED <<seq, issued, turn, id, queue, up, map, resp, sent, net>>

-----------------------------------------------------------------------------
(* run *)

Bind ==
  /\ ~up
  /\ up' = TRUE
  /\ UNCHANGED <<seq, issued, turn, call, id, queue, map, resp, sent, net, got>>

(* Fault: an entry left behind by an earlier call is not replaced. *)
SendKeepEntry ==
  /\ up /\ queue # <<>>
  /\ queue' = <<>>
  /\ sent' = sent \cup {Head(queue)}
  /\ map' = [map EXCEPT ![id[Head(queue)]] = IF @ = None THEN Head(queue) ELSE @]
  /\ UNCHANGED <<seq, issued, turn, call, id, up, resp, net, got>>

(* Write loop: the request leaves and its caller enters the map. *)
Send ==
  /\ up /\ queue # <<>>
  /\ queue' = <<>>
  /\ sent' = sent \cup {Head(queue)}
  /\ map' = [map EXCEPT ![id[Head(queue)]] = Head(queue)]
  /\ UNCHANGED <<seq, issued, turn, call, id, up, resp, net, got>>

(* Fault: the reply goes to some waiting caller, whatever its id. *)
ReceiveForAny(p) ==
  /\ up
  /\ p \in net
  /\ \E i \in Id : /\ map[i] # None
                   /\ resp' = [resp EXCEPT ![map[i]] = p]
                   /\ map' = [map EXCEPT ![i] = None]
  /\ net' = net \ {p}
  /\ UNCHANGED <<seq, issued, turn, call, id, queue, up, sent, got>>

(* Read loop: the reply to p goes to whoever is in the map under its id.   *)
(* The channel to that caller has room: it is used at most once.           *)
Receive(p) ==
  LET q == map[id[p]]
  IN  /\ up
      /\ p \in net
      /\ resp' = IF q = None THEN resp ELSE [resp EXCEPT ![q] = p]
      /\ map' = [map EXCEPT ![id[p]] = None]
      /\ net' = net \ {p}
      /\ UNCHANGED <<seq, issued, turn, call, id, queue, up, sent, got>>

(* An error in either loop: binding again gives another port, so nothing   *)
(* sent before can be answered any more.  The write loop fails with a      *)
(* request in its hands, the read loop without.                            *)
DropRun ==
  /\ up' = FALSE
  /\ map' = [i \in Id |-> None]
  /\ sent' = {}
  /\ net' = {}
  /\ UNCHANGED <<seq, issued, turn, call, id, resp, got>>

SendFails == up /\ queue # <<>> /\ queue' = <<>> /\ DropRun

ReceiveFails == up /\ queue' = queue /\ DropRun

-----------------------------------------------------------------------------
(* The name server and the network (external) *)

(* A reply carries the id of its request.  A request may be answered       *)
(* several times, or never.                                                *)
Reply(p) ==
  /\ p \in sent \ net
  /\ net' = net \cup {p}
  /\ UNCHANGED <<seq, issued, turn, call, id, queue, up, map, resp, sent, got>>

Lose(p) ==
  /\ p \in sent
  /\ sent' = sent \ {p}
  /\ net' = net \ {p}
  /\ UNCHANGED <<seq, issued, turn, call, id, queue, up, map, resp, got>>

Next ==
  \/ \E q \in Query : \/ TakeId(q) \/ AdjustSeq(q) \/ Enqueue(q)
                      \/ Answered(q) \/ Disconnected(q) \/ TimedOut(q)
                      \/ Receive(q) \/ Reply(q) \/ Lose(q)
  \/ Bind \/ Send \/ SendFails \/ ReceiveFails

Spec == Init /\ [][Next]_vars

(* Tasks that can run are polled; a call that waits for room in the        *)
(* channel is served when room keeps appearing; the channel is polled      *)
(* between errors of the socket.                                           *)
Fairness ==
  /\ \A q \in Query : /\ WF_vars(AdjustSeq(q))
                      /\ SF_vars(Enqueue(q))
                      /\ WF_vars(Answered(q) \/ Disconnected(q) \/ TimedOut(q))
  /\ WF_vars(Bind)
  /\ SF_vars(Send \/ SendFails)

FairSpec == Spec /\ Fairness

-----------------------------------------------------------------------------
(* A call that returns a packet returns the reply to its own question, in  *)
(* whatever order replies arrive, and although ids are reused and replies  *)
(* are matched by id alone.                                                *)
OwnAnswer == \A q \in Query : got[q] \in {q, None}

(* A call whose request is out is never cut off from its reply: it is in   *)
(* the map under its id, or the reply is already in its channel.           *)
Reachable ==
  \A q \in Query : call[q] = "waiting" /\ q \in sent
                     => map[id[q]] = q \/ resp[q] # None

(* Every call returns. *)
CallReturns == \A q \in Query : call[q] = "adjust" ~> call[q] = "done"
=============================================================================
