--------------------------- MODULE ConnectionPool ---------------------------
(***************************************************************************)
(* The pool of idle server connections of ssclient/src/connection_pool.rs. *)
(*                                                                         *)
(* One background task (run_connection_pool, the filler) keeps max_idle    *)
(* connections ready; any number of request handlers (getters) take one    *)
(* with get_connection, or connect themselves when there is none, and then *)
(* wake the filler through a channel of capacity 1.  The mutex around the  *)
(* queue is held only for single operations on it, so every visit is one   *)
(* step, and connecting happens outside of it.                             *)
(***************************************************************************)
EXTENDS Naturals, Sequences

CONSTANTS
  Getter,   \* tasks that call get_connection
  Conn,     \* identities of connections
  MaxIdle,  \* Pool.max_idle
  None      \* no connection

ASSUME PoolAssumption ==
  /\ MaxIdle \in Nat
  /\ None \notin Conn

VARIABLES
  conns,   \* Pool.connections
  chan,    \* messages in the channel between getters and filler: 0 or 1
  filler,  \* where run_connection_pool is
  len,     \* its local variable: the length it last saw
  made,    \* the connection it is about to push
  getter,  \* where each get_connection is
  held     \* the connection each getter has obtained

vars == <<conns, chan, filler, len, made, getter, held>>

FillerState == {"measure", "connect", "push", "park"}
GetterState == {"idle", "direct", "notify", "using"}

InPool(c) == \E i \in 1 .. Len(conns) : conns[i] = c

(* A connection the connector may return is a new socket: nobody has it. *)
Fresh == {c \in Conn : ~InPool(c) /\ c # made /\ \A g \in Getter : held[g] # c}

Init ==
  /\ conns = <<>>
  /\ chan = 0
  /\ filler = "measure"
  /\ len = 0
  /\ made = None
  /\ getter = [g \in Getter |-> "idle"]
  /\ held = [g \in Getter |-> None]

-----------------------------------------------------------------------------
(* run_connection_pool *)

(* The condition of the inner while, with n the value of len. *)
FillOrPark(n) == filler' = IF n < MaxIdle THEN "connect" ELSE "park"

Measure ==
  /\ filler = "measure"
  /\ len' = Len(conns)
  /\ FillOrPark(Len(conns))
  /\ UNCHANGED <<conns, chan, made, getter, held>>

FillConnected ==
  /\ filler = "connect"
  /\ made' \in Fresh
  /\ filler' = "push"
  /\ UNCHANGED <<conns, chan, len, getter, held>>

(* The connector failed or its timeout elapsed: try again at once. *)
FillFailed ==
  /\ filler = "connect"
  /\ UNCHANGED vars

(* Fault: len is not refreshed after the push. *)
PushKeepLen ==
  /\ filler = "push"
  /\ conns' = Append(conns, made)
  /\ made' = None
  /\ FillOrPark(len)
  /\ UNCHANGED <<chan, len, getter, held>>

(* Fault: the new connection goes to the end it is taken from. *)
PushFront ==
  /\ filler = "push"
  /\ conns' = <<made>> \o conns
  /\ made' = None
  /\ len' = Len(conns')
  /\ FillOrPark(Len(conns'))
  /\ UNCHANGED <<chan, getter, held>>

(* Fault: the new connection is dropped instead of pushed. *)
PushNothing ==
  /\ filler = "push"
  /\ made' = None
  /\ len' = Len(conns)
  /\ FillOrPark(Len(conns))
  /\ UNCHANGED <<conns, chan, getter, held>>

Push ==
  /\ filler = "push"
  /\ conns' = Append(conns, made)
  /\ made' = None
  /\ len' = Len(conns')
  /\ FillOrPark(Len(conns'))
  /\ UNCHANGED <<chan, getter, held>>

Receive ==
  /\ filler = "park"
  /\ chan = 1
  /\ chan' = 0
  /\ filler' = "measure"
  /\ UNCHANGED <<conns, len, made, getter, held>>

-----------------------------------------------------------------------------
(* get_connection *)

(* Fault: the front connection is handed out but stays in the queue. *)
TakeFirst(g) ==
  /\ getter[g] = "idle"
  /\ conns # <<>>
  /\ held' = [held EXCEPT ![g] = Head(conns)]
  /\ getter' = [getter EXCEPT ![g] = "notify"]
  /\ UNCHANGED <<conns, chan, filler, len, made>>

(* Fault: only a getter that found the queue empty wakes the filler. *)
TakeQuietly(g) ==
  /\ getter[g] = "idle"
  /\ conns # <<>>
  /\ conns' = Tail(conns)
  /\ held' = [held EXCEPT ![g] = Head(conns)]
  /\ getter' = [getter EXCEPT ![g] = "using"]
  /\ UNCHANGED <<chan, filler, len, made>>

Take(g) ==
  /\ getter[g] = "idle"
  /\ conns # <<>>
  /\ conns' = Tail(conns)
  /\ held' = [held EXCEPT ![g] = Head(conns)]
  /\ getter' = [getter EXCEPT ![g] = "notify"]
  /\ UNCHANGED <<chan, filler, len, made>>

FindEmpty(g) ==
  /\ getter[g] = "idle"
  /\ conns = <<>>
  /\ getter' = [getter EXCEPT ![g] = "direct"]
  /\ UNCHANGED <<conns, chan, filler, len, made, held>>

(* new_connection succeeds, or fails; either way the filler is woken. *)
ConnectDirectly(g) ==
  /\ getter[g] = "direct"
  /\ \E c \in Fresh \cup {None} : held' = [held EXCEPT ![g] = c]
  /\ getter' = [getter EXCEPT ![g] = "notify"]
  /\ UNCHANGED <<conns, chan, filler, len, made>>

(* get_connection returns what it obtained: a connection or an error. *)
Return(g) ==
  getter' = [getter EXCEPT ![g] = IF held[g] # None THEN "using" ELSE "idle"]

Notify(g) ==
  /\ getter[g] = "notify"
  /\ chan = 0
  /\ chan' = 1
  /\ Return(g)
  /\ UNCHANGED <<conns, filler, len, made, held>>

(* Fault: the send waits for room in the channel without a timeout. *)
NotifyWaits(g) == FALSE /\ UNCHANGED vars

(* The channel stayed full for five seconds; the error is only logged. *)
NotifyTimeout(g) ==
  /\ getter[g] = "notify"
  /\ chan = 1
  /\ Return(g)
  /\ UNCHANGED <<conns, chan, filler, len, made, held>>

(* The caller is done with the connection and drops it. *)
Close(g) ==
  /\ getter[g] = "using"
  /\ held' = [held EXCEPT ![g] = None]
  /\ getter' = [getter EXCEPT ![g] = "idle"]
  /\ UNCHANGED <<conns, chan, filler, len, made>>

-----------------------------------------------------------------------------
FillerStep == Measure \/ FillConnected \/ FillFailed \/ Push \/ Receive

GetStep(g) == ConnectDirectly(g) \/ Notify(g) \/ NotifyTimeout(g)

Next ==
  \/ FillerStep
  \/ \E g \in Getter : Take(g) \/ FindEmpty(g) \/ GetStep(g) \/ Close(g)

Spec == Init /\ [][Next]_vars

(* A well-behaved server: it accepts a connection sooner or later, so the  *)
(* filler moves.                                                           *)
FillerFairness ==
  /\ WF_vars(Measure)
  /\ WF_vars(FillConnected)
  /\ WF_vars(Push)
  /\ WF_vars(Receive)

-----------------------------------------------------------------------------
(* The wake-up channel holds one message and every place a connection or   *)
(* a task can be in is one of those named.                                 *)
TypeOK ==
  /\ conns \in Seq(Conn)
  /\ chan \in {0, 1}
  /\ filler \in FillerState
  /\ len \in Nat
  /\ made \in Conn \cup {None}
  /\ getter \in [Getter -> GetterState]
  /\ held \in [Getter -> Conn \cup {None}]

(* The filler decides to connect on a length it read before an await, with *)
(* getters popping meanwhile; the queue still never outgrows max_idle.     *)
Bounded == Len(conns) <= MaxIdle

(* No wake-up is lost: when the filler sleeps with no message on its way   *)
(* to it, there is nothing to refill, even though a send may time out.     *)
Settled == \A g \in Getter : getter[g] \in {"idle", "using"}

NoLostRefill ==
  filler = "park" /\ chan = 0 /\ Settled => Len(conns) = MaxIdle

(* A connection has one owner: a place in the queue, the filler, or a      *)
(* getter.  Two relays on one encrypted stream would corrupt both.         *)
Exclusive ==
  /\ \A i, j \in 1 .. Len(conns) : conns[i] = conns[j] => i = j
  /\ \A i \in 1 .. Len(conns), g \in Getter : conns[i] # held[g]
  /\ \A g, h \in Getter : held[g] = held[h] /\ held[g] # None => g = h

(* Every get_connection returns, even if the server never answers and the  *)
(* filler never parks: new_connection and the send have timeouts.          *)
GetterReturns ==
  \A g \in Getter : getter[g] \in {"direct", "notify"} ~> getter[g] \in {"idle", "using"}

(* If the server accepts connections, then once no request is asking for   *)
(* one the pool fills up for good.                                         *)
Refilled == FillerFairness => (<>[]Settled => <>[](Len(conns) = MaxIdle))
=============================================================================
