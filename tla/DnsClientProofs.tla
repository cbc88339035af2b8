--------------------------- MODULE DnsClientProofs ---------------------------
(***************************************************************************)
(* Proofs about DnsClient, for any number of calls and any width of the id *)
(* in the packets: as long as fewer calls than there are ids start during  *)
(* the life of one (WithinWindow), matching replies by id alone is sound,  *)
(* although the counter is restarted without a lock.                       *)
(***************************************************************************)
EXTENDS DnsClient, Integers, TLAPS

CallState == {"idle", "adjust", "enqueue", "waiting", "done"}

TypeOK ==
  /\ seq \in Nat
  /\ issued \in Nat
  /\ turn \in [Query -> Nat]
  /\ call \in [Query -> CallState]
  /\ id \in [Query -> Id]
  /\ queue \in Seq(Query) /\ Len(queue) <= 1
  /\ up \in BOOLEAN
  /\ map \in [Id -> Query \cup {None}]
  /\ resp \in [Query -> Query \cup {None}]
  /\ sent \subseteq Query
  /\ net \subseteq Query
  /\ got \in [Query -> Query \cup {None}]

(* The issue at which the counter was last at zero. *)
Base == issued - seq

(* Where the id of a call comes from: since the last restart ids count up  *)
(* modulo IdSpace, and an id from before it is repeated IdSpace - 1 calls  *)
(* later at the earliest.                                                  *)
IdOfTurn(p) ==
  /\ turn[p] < issued
  /\ turn[p] >= Base => id[p] = (turn[p] - Base) % IdSpace
  /\ turn[p] < Base => turn[p] + IdSpace - 1 <= Base + id[p]

IdsInOrder ==
  /\ seq <= issued
  /\ \A p \in Query : call[p] # "idle" => IdOfTurn(p)

(* A call that has not handed over its request has left nothing behind. *)
NotYetSent ==
  \A p \in Query : call[p] \in {"idle", "adjust", "enqueue"} =>
    p \notin sent /\ p \notin net /\ \A i \in 1 .. Len(queue) : queue[i] # p

(* Calls whose packets may still meet have different ids. *)
LiveIdsDiffer ==
  \A p, q \in Query : Lingers(p) /\ Lingers(q) /\ id[p] = id[q] => p = q

(* Under the id of a request that is out, the map has its caller or none.  *)
MapAgrees ==
  /\ net \subseteq sent
  /\ \A p \in sent : map[id[p]] \in {p, None}

OwnReply == \A q \in Query : resp[q] \in {q, None}

IInv ==
  /\ TypeOK /\ IdsInOrder /\ NotYetSent /\ LiveIdsDiffer
  /\ MapAgrees /\ OwnReply /\ OwnAnswer /\ Reachable

-----------------------------------------------------------------------------
(* Numbers with the same remainder are at least the divisor apart. *)
LEMMA SameRemainder ==
  ASSUME NEW n \in Nat, n > 0, NEW a \in Nat, NEW b \in Nat, a < b, a % n = b % n
  PROVE  b - a >= n
<1>1. PICK k \in Int : a = n * k + (a % n)
  <2>1. a = n * (a \div n) + (a % n) /\ a \div n \in Int
    OBVIOUS
  <2> QED BY <2>1
<1>2. PICK m \in Int : b = n * m + (b % n)
  <2>1. b = n * (b \div n) + (b % n) /\ b \div n \in Int
    OBVIOUS
  <2> QED BY <2>1
<1>3. a % n \in Int
  OBVIOUS
<1>4. b - a = n * (m - k)
  BY <1>1, <1>2, <1>3
<1>5. m - k >= 1
  BY <1>4
<1>6. n * (m - k) >= n * 1
  BY <1>5
<1> QED BY <1>4, <1>6

-----------------------------------------------------------------------------
(* The type of the state, action by action. *)
LEMMA TypeStep == ASSUME TypeOK, [Next]_vars PROVE TypeOK'
<1> USE DnsClientAssumption
<1>1. \A q \in Query : TakeId(q) => TypeOK'
  BY DEF TypeOK, TakeId, CallState, Id
<1>2. \A q \in Query : AdjustSeq(q) => TypeOK'
  BY DEF TypeOK, AdjustSeq, CallState
<1>3. \A q \in Query : Enqueue(q) => TypeOK'
  BY DEF TypeOK, Enqueue, CallState
<1>4. \A q \in Query : Answered(q) \/ Disconnected(q) \/ TimedOut(q) => TypeOK'
  <2> SUFFICES ASSUME NEW q \in Query, NEW a \in Query \cup {None}, Finish(q, a),
                      UNCHANGED <<seq, issued, turn, id, queue, up, map, resp, sent, net>>
               PROVE  TypeOK'
    BY DEF TypeOK, Answered, Disconnected, TimedOut
  <2> QED BY DEF TypeOK, Finish, CallState
<1>5. \A q \in Query : Receive(q) => TypeOK'
  BY DEF TypeOK, Receive
<1>6. \A q \in Query : Reply(q) \/ Lose(q) => TypeOK'
  BY DEF TypeOK, Reply, Lose
<1>7. Bind => TypeOK'
  BY DEF TypeOK, Bind
<1>8. Send => TypeOK'
  BY DEF TypeOK, Send
<1>9. SendFails \/ ReceiveFails => TypeOK'
  <2>1. SendFails \/ ReceiveFails => queue' = queue \/ queue' = <<>>
    BY DEF SendFails, ReceiveFails
  <2>2. SendFails \/ ReceiveFails => DropRun
    BY DEF SendFails, ReceiveFails
  <2>3. TypeOK /\ DropRun /\ queue' = queue => TypeOK'
    BY DEF TypeOK, DropRun
  <2>4. TypeOK /\ DropRun /\ queue' = <<>> => TypeOK'
    <3>1. queue' = <<>> => queue' \in Seq(Query) /\ Len(queue') <= 1
      OBVIOUS
    <3> QED BY <3>1 DEF TypeOK, DropRun
  <2> QED BY <2>1, <2>2, <2>3, <2>4
<1>10. UNCHANGED vars => TypeOK'
  BY DEF TypeOK, vars
<1> QED BY <1>1, <1>2, <1>3, <1>4, <1>5, <1>6, <1>7, <1>8, <1>9, <1>10 DEF Next

(* Ids follow from turns: an id is computed from the counter, and the      *)
(* restart of the counter lets no id come back sooner than IdSpace - 1     *)
(* calls later.                                                            *)
LEMMA OrderStep == ASSUME TypeOK, IdsInOrder, [Next]_vars PROVE IdsInOrder'
<1> USE DnsClientAssumption
<1>1. ASSUME NEW q \in Query, TakeId(q) PROVE IdsInOrder'
  <2>1. Base' = Base /\ Base \in Nat /\ issued - Base = seq
    BY <1>1 DEF TakeId, Base, TypeOK, IdsInOrder
  <2>2. IdOfTurn(q)'
    BY <1>1, <2>1 DEF TakeId, TypeOK, IdOfTurn
  <2>3. ASSUME NEW p \in Query, p # q, call'[p] # "idle" PROVE IdOfTurn(p)'
    BY <1>1, <2>1, <2>3 DEF TakeId, TypeOK, IdsInOrder, IdOfTurn
  <2> QED BY <1>1, <2>2, <2>3 DEF TakeId, TypeOK, IdsInOrder
<1>2. ASSUME NEW q \in Query, AdjustSeq(q) PROVE IdsInOrder'
  <2>1. CASE seq' = seq
    BY <1>2, <2>1 DEF AdjustSeq, TypeOK, IdsInOrder, IdOfTurn, Base
  <2>2. CASE seq = IdSpace - 1 /\ seq' = 0
    <3>1. Base \in Nat /\ Base' = Base + (IdSpace - 1) /\ Base' = issued
      BY <1>2, <2>2 DEF AdjustSeq, TypeOK, IdsInOrder, Base
    <3>2. ASSUME NEW p \in Query, call'[p] # "idle" PROVE IdOfTurn(p)'
      <4>1. IdOfTurn(p) /\ turn'[p] = turn[p] /\ id'[p] = id[p]
        BY <1>2, <3>2 DEF AdjustSeq, TypeOK, IdsInOrder
      <4>2. CASE turn[p] < Base
        BY <3>1, <4>1, <4>2, <1>2 DEF IdOfTurn, TypeOK, Id, AdjustSeq
      <4>3. CASE turn[p] >= Base
        <5>1. turn[p] \in Nat /\ issued \in Nat /\ turn[p] < issued
          BY <4>1 DEF IdOfTurn, TypeOK
        <5>2. turn[p] - Base \in 0 .. IdSpace - 1
          BY <3>1, <5>1, <4>3, <1>2 DEF AdjustSeq
        <5>3. id[p] = turn[p] - Base
          BY <5>2, <4>1, <4>3 DEF IdOfTurn
        <5>4. turn[p] < Base' /\ turn[p] + IdSpace - 1 <= Base' + id[p]
          BY <5>1, <5>3, <3>1
        <5> QED BY <5>1, <5>4, <4>1, <3>1, <1>2 DEF IdOfTurn, AdjustSeq
      <4> QED BY <4>2, <4>3, <3>1 DEF TypeOK
    <3> QED BY <3>2, <1>2, <2>2 DEF IdsInOrder, TypeOK, AdjustSeq
  <2> QED BY <1>2, <2>1, <2>2 DEF AdjustSeq
<1>3. ASSUME UNCHANGED <<seq, issued, turn, id>>,
             \A p \in Query : call'[p] # "idle" => call[p] # "idle"
      PROVE  IdsInOrder'
  BY <1>3 DEF IdsInOrder, IdOfTurn, Base
<1>4. ASSUME NEW q \in Query,
             Enqueue(q) \/ Answered(q) \/ Disconnected(q) \/ TimedOut(q)
      PROVE  IdsInOrder'
  BY <1>3, <1>4 DEF Enqueue, Answered, Disconnected, TimedOut, Finish, TypeOK
<1>5. ASSUME NEW q \in Query, Receive(q) \/ Reply(q) \/ Lose(q) PROVE IdsInOrder'
  BY <1>3, <1>5 DEF Receive, Reply, Lose
<1>6. Bind \/ Send \/ SendFails \/ ReceiveFails \/ UNCHANGED vars => IdsInOrder'
  BY <1>3 DEF Bind, Send, SendFails, ReceiveFails, DropRun, vars
<1> QED BY <1>1, <1>2, <1>4, <1>5, <1>6 DEF Next

(* A request that leaves is that of a call that waits, or has given up. *)
LEMMA SentStep ==
  ASSUME TypeOK, NotYetSent, MapAgrees, [Next]_vars PROVE NotYetSent'
<1>1. ASSUME NEW q \in Query, TakeId(q) \/ AdjustSeq(q) PROVE NotYetSent'
  BY <1>1 DEF TakeId, AdjustSeq, TypeOK, NotYetSent
<1>2. ASSUME NEW q \in Query, Enqueue(q) PROVE NotYetSent'
  BY <1>2 DEF Enqueue, TypeOK, NotYetSent
<1>3. ASSUME NEW q \in Query, Answered(q) \/ Disconnected(q) \/ TimedOut(q)
      PROVE  NotYetSent'
  BY <1>3 DEF Answered, Disconnected, TimedOut, Finish, TypeOK, NotYetSent
<1>4. ASSUME NEW q \in Query, Receive(q) \/ Reply(q) \/ Lose(q) PROVE NotYetSent'
  BY <1>4 DEF Receive, Reply, Lose, TypeOK, NotYetSent
<1>5. Send => NotYetSent'
  BY DEF Send, TypeOK, NotYetSent
<1>6. Bind \/ SendFails \/ ReceiveFails \/ UNCHANGED vars => NotYetSent'
  BY DEF Bind, SendFails, ReceiveFails, DropRun, vars, NotYetSent
<1> QED BY <1>1, <1>2, <1>3, <1>4, <1>5, <1>6 DEF Next

(* Nothing but taking an id makes a call linger. *)
LEMMA LingersStep ==
  ASSUME TypeOK, MapAgrees, [Next]_vars, NEW p \in Query, Lingers(p)'
  PROVE  Lingers(p) \/ TakeId(p)
<1>1. ASSUME NEW q \in Query, TakeId(q) \/ AdjustSeq(q) PROVE Lingers(p) \/ TakeId(p)
  BY <1>1 DEF TakeId, AdjustSeq, TypeOK, Lingers
<1>2. ASSUME NEW q \in Query, Enqueue(q) PROVE Lingers(p)
  BY <1>2 DEF Enqueue, TypeOK, Lingers
<1>3. ASSUME NEW q \in Query, Answered(q) \/ Disconnected(q) \/ TimedOut(q)
      PROVE  Lingers(p)
  BY <1>3 DEF Answered, Disconnected, TimedOut, Finish, TypeOK, Lingers
<1>4. ASSUME NEW q \in Query, Receive(q) \/ Reply(q) \/ Lose(q) PROVE Lingers(p)
  BY <1>4 DEF Receive, Reply, Lose, TypeOK, Lingers
<1>5. ASSUME Send PROVE Lingers(p)
  BY <1>5 DEF Send, TypeOK, Lingers
<1>6. ASSUME Bind \/ SendFails \/ ReceiveFails \/ UNCHANGED vars PROVE Lingers(p)
  BY <1>6 DEF Bind, SendFails, ReceiveFails, DropRun, vars, Lingers
<1> QED BY <1>1, <1>2, <1>3, <1>4, <1>5, <1>6 DEF Next

(* The id a call takes is that of no call that lingers: one since the last *)
(* restart has the same remainder only IdSpace turns earlier, and one from *)
(* before it would be IdSpace - 1 turns old.                               *)
LEMMA FreshId ==
  ASSUME TypeOK, IdsInOrder, NotYetSent, WithinWindow,
         NEW p \in Query, Lingers(p), id[p] = seq % IdSpace
  PROVE  FALSE
<1> USE DnsClientAssumption
<1>1. IdOfTurn(p)
  <2>1. call[p] # "idle"
    BY DEF NotYetSent, Lingers
  <2> QED BY <2>1 DEF IdsInOrder
<1>2. issued - turn[p] < IdSpace - 1
  BY DEF WithinWindow
<1>3. /\ turn[p] \in Nat /\ issued \in Nat /\ seq \in Nat /\ Base \in Nat
      /\ issued = Base + seq /\ turn[p] < issued
  BY <1>1 DEF TypeOK, IdsInOrder, IdOfTurn, Base
<1>4. CASE turn[p] >= Base
  <2>1. turn[p] - Base \in Nat /\ turn[p] - Base < seq
    BY <1>3, <1>4
  <2>2. (turn[p] - Base) % IdSpace = seq % IdSpace
    BY <1>1, <1>4 DEF IdOfTurn
  <2>3. seq - (turn[p] - Base) >= IdSpace
    <3>1. PICK a \in Nat : a = turn[p] - Base
      BY <2>1
    <3>2. a < seq /\ a % IdSpace = seq % IdSpace
      BY <2>1, <2>2, <3>1
    <3>3. seq - a >= IdSpace
      BY <3>2, <1>3, SameRemainder
    <3> QED BY <3>1, <3>3
  <2> QED BY <2>3, <1>2, <1>3
<1>5. CASE turn[p] < Base
  <2>1. turn[p] + IdSpace - 1 <= Base + (seq % IdSpace)
    BY <1>1, <1>5 DEF IdOfTurn
  <2>2. seq % IdSpace \in Nat /\ seq % IdSpace <= seq
    <3>1. seq \in Nat /\ IdSpace \in Nat /\ IdSpace > 1
      BY <1>3
    <3> QED BY <3>1
  <2> QED BY <2>1, <2>2, <1>2, <1>3
<1> QED BY <1>3, <1>4, <1>5

(* So two calls that linger never share an id, restarts of the counter     *)
(* included.                                                               *)
LEMMA IdsStep ==
  ASSUME TypeOK, IdsInOrder, NotYetSent, LiveIdsDiffer, MapAgrees, [Next]_vars
  PROVE  LiveIdsDiffer'
<1> USE DnsClientAssumption
<1>1. ASSUME NEW q \in Query, TakeId(q) PROVE LiveIdsDiffer'
  <2>1. \A p \in Query : p # q => id'[p] = id[p] /\ (Lingers(p)' => Lingers(p))
    <3> SUFFICES ASSUME NEW p \in Query, p # q
                 PROVE  id'[p] = id[p] /\ (Lingers(p)' => Lingers(p))
      OBVIOUS
    <3> QED BY <1>1 DEF TakeId, TypeOK, Lingers
  <2>2. id'[q] = seq % IdSpace /\ WithinWindow
    BY <1>1 DEF TakeId, TypeOK
  <2>3. \A p \in Query : p # q /\ Lingers(p) => id[p] # id'[q]
    BY <2>2, FreshId
  <2> QED BY <2>1, <2>3 DEF LiveIdsDiffer
<1>2. ASSUME \A q \in Query : ~TakeId(q) PROVE LiveIdsDiffer'
  <2>1. \A p \in Query : Lingers(p)' => Lingers(p)
    BY <1>2, LingersStep
  <2>2. id' = id
    BY <1>2 DEF Next, vars, AdjustSeq, Enqueue, Answered, Disconnected, TimedOut,
                Receive, Reply, Lose, Bind, Send, SendFails, ReceiveFails, DropRun
  <2> QED BY <2>1, <2>2 DEF LiveIdsDiffer
<1> QED BY <1>1, <1>2

-----------------------------------------------------------------------------
(* What the map says of the requests that are out, and what has arrived in *)
(* the channels, action by action.                                         *)
Matching == MapAgrees /\ OwnReply /\ OwnAnswer /\ Reachable

LEMMA MatchingStep ==
  ASSUME TypeOK, NotYetSent, LiveIdsDiffer, Matching, [Next]_vars
  PROVE  Matching'
<1> USE DnsClientAssumption DEF Matching
<1>1. ASSUME NEW q \in Query, TakeId(q) \/ AdjustSeq(q) PROVE Matching'
  <2>1. \A p \in sent : id'[p] = id[p]
    BY <1>1 DEF TakeId, AdjustSeq, TypeOK, NotYetSent
  <2>2. \A p \in Query : call'[p] = "waiting" => call[p] = "waiting"
    BY <1>1 DEF TakeId, AdjustSeq, TypeOK
  <2> QED BY <1>1, <2>1, <2>2 DEF TakeId, AdjustSeq, MapAgrees, OwnReply, OwnAnswer, Reachable
<1>2. ASSUME NEW q \in Query, Enqueue(q) PROVE Matching'
  BY <1>2 DEF Enqueue, TypeOK, NotYetSent, MapAgrees, OwnReply, OwnAnswer, Reachable
<1>3. ASSUME NEW q \in Query, Answered(q) \/ Disconnected(q) \/ TimedOut(q)
      PROVE  Matching'
  <2>1. \A p \in Query : call'[p] = "waiting" => call[p] = "waiting"
    BY <1>3 DEF Answered, Disconnected, TimedOut, Finish, TypeOK
  <2>2. OwnAnswer'
    BY <1>3 DEF Answered, Disconnected, TimedOut, Finish, TypeOK, OwnReply, OwnAnswer
  <2> QED BY <1>3, <2>1, <2>2 DEF Answered, Disconnected, TimedOut, MapAgrees, OwnReply, Reachable
<1>4. ASSUME NEW q \in Query, Receive(q) PROVE Matching'
  <2>1. q \in sent /\ map[id[q]] \in {q, None} /\ id[q] \in Id
    BY <1>4 DEF Receive, MapAgrees, TypeOK
  <2>2. \A p \in sent : p # q => id[p] # id[q]
    BY <2>1 DEF LiveIdsDiffer, Lingers, TypeOK
  <2>3. MapAgrees'
    BY <1>4, <2>1, <2>2 DEF Receive, TypeOK, MapAgrees
  <2>4. OwnReply' /\ OwnAnswer'
    BY <1>4, <2>1 DEF Receive, TypeOK, OwnReply, OwnAnswer
  <2>5. Reachable'
    BY <1>4, <2>1, <2>2 DEF Receive, TypeOK, Reachable
  <2> QED BY <2>3, <2>4, <2>5
<1>5. ASSUME NEW q \in Query, Reply(q) \/ Lose(q) PROVE Matching'
  BY <1>5 DEF Reply, Lose, MapAgrees, OwnReply, OwnAnswer, Reachable
<1>6. ASSUME Send PROVE Matching'
  <2>1. PICK q \in Query : q = Head(queue) /\ queue[1] = q /\ 1 \in 1 .. Len(queue)
    BY <1>6 DEF Send, TypeOK
  <2>2. Lingers(q) /\ id[q] \in Id
    BY <2>1 DEF Lingers, TypeOK
  <2>3. \A p \in sent : p # q => id[p] # id[q]
    BY <2>2 DEF LiveIdsDiffer, Lingers, TypeOK
  <2>4. map' = [map EXCEPT ![id[q]] = q] /\ sent' = sent \cup {q}
    BY <1>6, <2>1 DEF Send
  <2>5. MapAgrees'
    BY <1>6, <2>2, <2>3, <2>4 DEF Send, TypeOK, MapAgrees
  <2>6. Reachable'
    BY <1>6, <2>2, <2>3, <2>4 DEF Send, TypeOK, Reachable
  <2> QED BY <1>6, <2>5, <2>6 DEF Send, OwnReply, OwnAnswer
<1>7. Bind \/ SendFails \/ ReceiveFails \/ UNCHANGED vars => Matching'
  BY DEF Bind, SendFails, ReceiveFails, DropRun, vars, MapAgrees, OwnReply, OwnAnswer, Reachable
<1> QED BY <1>1, <1>2, <1>3, <1>4, <1>5, <1>6, <1>7 DEF Next

(* The invariant holds from the first call on, whatever the network does   *)
(* and however often run starts again.                                     *)
THEOREM Inductive == Spec => []IInv
<1> USE DnsClientAssumption
<1>1. Init => IInv
  BY DEF Init, IInv, TypeOK, CallState, Id, IdsInOrder, NotYetSent, LiveIdsDiffer,
         Lingers, MapAgrees, OwnReply, OwnAnswer, Reachable
<1>2. IInv /\ [Next]_vars => IInv'
  BY TypeStep, OrderStep, SentStep, IdsStep, MatchingStep DEF IInv, Matching
<1> QED BY <1>1, <1>2, PTL DEF Spec

(* send_udp_query returns the reply to its own question, or an error. *)
THEOREM AnswersMatch == Spec => []OwnAnswer
BY Inductive, PTL DEF IInv

(* No other call takes over the entry in req_resp_map of a call whose      *)
(* request is out.                                                         *)
THEOREM NeverCutOff == Spec => []Reachable
BY Inductive, PTL DEF IInv
=============================================================================
