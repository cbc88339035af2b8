--------------------------- MODULE SsClientProofs ---------------------------
(***************************************************************************)
(* Proofs about ConnectionPool, for any number of requests, connections    *)
(* and any max_idle, and about SsClient, for any number of requests,       *)
(* servers, connections and any limit of errors: the client is a user of   *)
(* the pool, so all that is proved of the pool holds of it too, and the    *)
(* pool gives connections out in the order in which their servers were     *)
(* configured.                                                             *)
(***************************************************************************)
EXTENDS SsClient, WellFoundedInduction, TLAPS

-----------------------------------------------------------------------------
(* The pool *)

(* Only the filler pushes, so the length it remembers is an upper bound of *)
(* the real one for as long as it acts on it.                              *)
FillerOK ==
  /\ filler \in {"connect", "push"} => len < MaxIdle /\ Len(conns) <= len
  /\ filler = "push" => made \in Conn

(* The connection in the filler's hands is nobody else's. *)
MadeOwned ==
  made # None => /\ ~InPool(made)
                 /\ \A g \in Getter : held[g] # made

IInv ==
  /\ TypeOK
  /\ FillerOK
  /\ Bounded
  /\ NoLostRefill
  /\ MadeOwned
  /\ Exclusive

-----------------------------------------------------------------------------
LEMMA InitInv == Init => IInv
BY PoolAssumption
   DEF Init, IInv, TypeOK, FillerOK, Bounded, NoLostRefill, MadeOwned, Exclusive,
       FillerState, GetterState, InPool

LEMMA TypeStep == TypeOK /\ FillerOK /\ [Next]_vars => TypeOK'
<1> SUFFICES ASSUME TypeOK, FillerOK, [Next]_vars PROVE TypeOK'
  OBVIOUS
<1> USE PoolAssumption DEF TypeOK, FillerState, GetterState
<1>1. CASE Measure
  BY <1>1 DEF Measure, FillOrPark
<1>2. CASE FillConnected
  BY <1>2 DEF FillConnected, Fresh
<1>3. CASE FillFailed
  BY <1>3 DEF FillFailed, vars
<1>4. CASE Push
  BY <1>4 DEF Push, FillOrPark, FillerOK
<1>5. CASE Receive
  BY <1>5 DEF Receive
<1>6. ASSUME NEW g \in Getter, Take(g) PROVE TypeOK'
  BY <1>6 DEF Take
<1>7. ASSUME NEW g \in Getter, FindEmpty(g) PROVE TypeOK'
  BY <1>7 DEF FindEmpty
<1>8. ASSUME NEW g \in Getter, ConnectDirectly(g) PROVE TypeOK'
  BY <1>8 DEF ConnectDirectly, Fresh
<1>9. ASSUME NEW g \in Getter, Notify(g) PROVE TypeOK'
  BY <1>9 DEF Notify, Return
<1>10. ASSUME NEW g \in Getter, NotifyTimeout(g) PROVE TypeOK'
  BY <1>10 DEF NotifyTimeout, Return
<1>11. ASSUME NEW g \in Getter, Close(g) PROVE TypeOK'
  BY <1>11 DEF Close
<1>12. CASE UNCHANGED vars
  BY <1>12 DEF vars
<1> QED
  BY <1>1, <1>2, <1>3, <1>4, <1>5, <1>6, <1>7, <1>8, <1>9, <1>10, <1>11, <1>12
     DEF Next, FillerStep, GetStep

(* The queue is bounded and no wake-up is lost. *)
LEMMA LengthStep ==
  IInv /\ [Next]_vars => FillerOK' /\ Bounded' /\ NoLostRefill'
<1> SUFFICES ASSUME IInv, [Next]_vars PROVE FillerOK' /\ Bounded' /\ NoLostRefill'
  OBVIOUS
<1> USE PoolAssumption
    DEF IInv, TypeOK, FillerState, GetterState, FillerOK, Bounded, NoLostRefill,
        Settled
<1>1. CASE Measure
  BY <1>1 DEF Measure, FillOrPark
<1>2. CASE FillConnected
  BY <1>2 DEF FillConnected, Fresh
<1>3. CASE FillFailed
  BY <1>3 DEF FillFailed, vars
<1>4. CASE Push
  <2>1. Len(conns') = Len(conns) + 1
    BY <1>4 DEF Push
  <2> QED BY <1>4, <2>1 DEF Push, FillOrPark
<1>5. CASE Receive
  BY <1>5 DEF Receive
<1>6. ASSUME NEW g \in Getter, Take(g) PROVE FillerOK' /\ Bounded' /\ NoLostRefill'
  <2>1. Len(conns') = Len(conns) - 1
    BY <1>6 DEF Take
  <2>2. ~Settled'
    BY <1>6 DEF Take
  <2>3. Len(conns) \in Nat
    OBVIOUS
  <2>4. filler' = filler /\ len' = len /\ made' = made
    BY <1>6 DEF Take
  <2>5. FillerOK' /\ Bounded'
    BY <2>1, <2>3, <2>4
  <2> QED BY <2>2, <2>5
<1>7. ASSUME NEW g \in Getter, FindEmpty(g)
      PROVE  FillerOK' /\ Bounded' /\ NoLostRefill'
  BY <1>7 DEF FindEmpty
<1>8. ASSUME NEW g \in Getter, ConnectDirectly(g)
      PROVE  FillerOK' /\ Bounded' /\ NoLostRefill'
  BY <1>8 DEF ConnectDirectly
<1>9. ASSUME NEW g \in Getter, Notify(g)
      PROVE  FillerOK' /\ Bounded' /\ NoLostRefill'
  BY <1>9 DEF Notify, Return
<1>10. ASSUME NEW g \in Getter, NotifyTimeout(g)
       PROVE  FillerOK' /\ Bounded' /\ NoLostRefill'
  BY <1>10 DEF NotifyTimeout, Return
<1>11. ASSUME NEW g \in Getter, Close(g)
       PROVE  FillerOK' /\ Bounded' /\ NoLostRefill'
  BY <1>11 DEF Close
<1>12. CASE UNCHANGED vars
  BY <1>12 DEF vars
<1> QED
  BY <1>1, <1>2, <1>3, <1>4, <1>5, <1>6, <1>7, <1>8, <1>9, <1>10, <1>11, <1>12
     DEF Next, FillerStep, GetStep

(* Every connection keeps exactly one owner. *)
LEMMA OwnerStep ==
  IInv /\ [Next]_vars => MadeOwned' /\ Exclusive'
<1> SUFFICES ASSUME IInv, [Next]_vars PROVE MadeOwned' /\ Exclusive'
  OBVIOUS
<1> USE PoolAssumption
    DEF IInv, TypeOK, FillerOK, MadeOwned, Exclusive, InPool
<1>1. CASE Measure
  BY <1>1 DEF Measure
<1>2. CASE FillConnected
  BY <1>2 DEF FillConnected, Fresh
<1>3. CASE FillFailed
  BY <1>3 DEF FillFailed, vars
<1>4. CASE Push
  <2>1. made \in Conn /\ made # None
    BY <1>4 DEF Push
  <2>2. /\ Len(conns') = Len(conns) + 1
        /\ conns'[Len(conns) + 1] = made
        /\ \A i \in 1 .. Len(conns) : conns'[i] = conns[i]
    BY <1>4 DEF Push
  <2> QED BY <1>4, <2>1, <2>2 DEF Push
<1>5. CASE Receive
  BY <1>5 DEF Receive
<1>6. ASSUME NEW g \in Getter, Take(g) PROVE MadeOwned' /\ Exclusive'
  <2>1. /\ Len(conns) > 0
        /\ Len(conns') = Len(conns) - 1
        /\ \A i \in 1 .. Len(conns') : conns'[i] = conns[i + 1]
        /\ Head(conns) = conns[1] /\ conns[1] \in Conn
    BY <1>6 DEF Take
  <2>2. \A h \in Getter : held'[h] = IF h = g THEN conns[1] ELSE held[h]
    BY <1>6, <2>1 DEF Take
  <2>3. MadeOwned'
    BY <1>6, <2>1, <2>2 DEF Take
  <2>4. ASSUME NEW i \in 1 .. Len(conns'), NEW j \in 1 .. Len(conns'),
               conns'[i] = conns'[j]
        PROVE  i = j
    <3>1. i + 1 \in 1 .. Len(conns) /\ j + 1 \in 1 .. Len(conns)
      BY <2>1
    <3>2. conns[i + 1] = conns[j + 1]
      BY <2>1, <2>4
    <3> QED BY <3>1, <3>2
  <2>5. \A i \in 1 .. Len(conns'), h \in Getter : conns'[i] # held'[h]
    BY <2>1, <2>2
  <2>6. \A h, k \in Getter : held'[h] = held'[k] /\ held'[h] # None => h = k
    BY <2>1, <2>2
  <2> QED BY <2>3, <2>4, <2>5, <2>6
<1>7. ASSUME NEW g \in Getter, FindEmpty(g) PROVE MadeOwned' /\ Exclusive'
  BY <1>7 DEF FindEmpty
<1>8. ASSUME NEW g \in Getter, ConnectDirectly(g) PROVE MadeOwned' /\ Exclusive'
  <2>1. PICK c \in Fresh \cup {None} : held' = [held EXCEPT ![g] = c]
    BY <1>8 DEF ConnectDirectly
  <2>2. \A h \in Getter : held'[h] = IF h = g THEN c ELSE held[h]
    BY <2>1
  <2>3. c # None => /\ \A i \in 1 .. Len(conns) : conns[i] # c
                    /\ c # made /\ \A h \in Getter : held[h] # c
    BY DEF Fresh
  <2>4. \A i \in 1 .. Len(conns) : conns[i] # None
    OBVIOUS
  <2> QED BY <1>8, <2>2, <2>3, <2>4 DEF ConnectDirectly
<1>9. ASSUME NEW g \in Getter, Notify(g) PROVE MadeOwned' /\ Exclusive'
  BY <1>9 DEF Notify
<1>10. ASSUME NEW g \in Getter, NotifyTimeout(g) PROVE MadeOwned' /\ Exclusive'
  BY <1>10 DEF NotifyTimeout
<1>11. ASSUME NEW g \in Getter, Close(g) PROVE MadeOwned' /\ Exclusive'
  <2>1. \A h \in Getter : held'[h] = IF h = g THEN None ELSE held[h]
    BY <1>11 DEF Close
  <2> QED BY <1>11, <2>1 DEF Close
<1>12. CASE UNCHANGED vars
  BY <1>12 DEF vars
<1> QED
  BY <1>1, <1>2, <1>3, <1>4, <1>5, <1>6, <1>7, <1>8, <1>9, <1>10, <1>11, <1>12
     DEF Next, FillerStep, GetStep

LEMMA PoolInv == Spec => []IInv
<1>1. IInv /\ [Next]_vars => IInv'
  BY TypeStep, LengthStep, OwnerStep DEF IInv
<1> QED BY <1>1, InitInv, PTL DEF Spec

(* The types declared in TypeOK hold in every reachable state. *)
THEOREM TypeCorrect == Spec => []TypeOK
<1>1. IInv => TypeOK
  BY DEF IInv
<1> QED BY <1>1, PoolInv, PTL

(* run_connection_pool never overfills the queue although it decides on a  *)
(* length read before an await.                                            *)
THEOREM PoolBounded == Spec => []Bounded
<1>1. IInv => Bounded
  BY DEF IInv
<1> QED BY <1>1, PoolInv, PTL

(* The capacity-1 channel loses no wake-up: the filler only sleeps on a    *)
(* full pool unless a request is still about to wake it.                   *)
THEOREM WakeUpsKept == Spec => []NoLostRefill
<1>1. IInv => NoLostRefill
  BY DEF IInv
<1> QED BY <1>1, PoolInv, PTL

(* No connection is ever given to two requests, or given away and kept.    *)
THEOREM OneOwner == Spec => []Exclusive
<1>1. IInv => Exclusive
  BY DEF IInv
<1> QED BY <1>1, PoolInv, PTL

-----------------------------------------------------------------------------
(* The client *)

(* Each action of the client is a step of the pool, or leaves it alone. *)
LEMMA ClientStepUsesPool == [ClientNext]_allVars => [Next]_vars
<1> SUFFICES ASSUME [ClientNext]_allVars PROVE [Next]_vars
  OBVIOUS
<1>1. CASE FillerRuns
  BY <1>1 DEF FillerRuns, Next, FillerStep
<1>2. CASE ReadConf(Filler)
  BY <1>2 DEF ReadConf
<1>3. CASE FillerConnected
  BY <1>3 DEF FillerConnected, Next, FillerStep
<1>4. CASE FillerNotConnected
  BY <1>4 DEF FillerNotConnected, Next, FillerStep
<1>5. ASSUME NEW g \in Getter, Request(g) PROVE [Next]_vars
  <2>1. CASE LoadErrors(g)
    BY <2>1 DEF LoadErrors
  <2>2. CASE ReadName(g)
    BY <2>2 DEF ReadName
  <2>3. CASE WriteConf(g)
    BY <2>3 DEF WriteConf
  <2>4. CASE ResetErrors(g)
    BY <2>4 DEF ResetErrors
  <2>5. CASE GetConnection(g)
    BY <2>5 DEF GetConnection, Next
  <2>6. CASE ReadConf(g)
    BY <2>6 DEF ReadConf
  <2>7. CASE DirectDone(g)
    BY <2>7 DEF DirectDone, Next, GetStep
  <2>8. CASE GetReturns(g)
    BY <2>8 DEF GetReturns, Next, GetStep
  <2>9. CASE RelayEnds(g)
    BY <2>9 DEF RelayEnds, Next
  <2> QED
    BY <1>5, <2>1, <2>2, <2>3, <2>4, <2>5, <2>6, <2>7, <2>8, <2>9 DEF Request, UnderWay
<1>6. CASE UNCHANGED allVars
  BY <1>6 DEF allVars
<1> QED
  BY <1>1, <1>2, <1>3, <1>4, <1>5, <1>6 DEF ClientNext

(* SSClient and RuledClient touch the pool only through get_connection and *)
(* the connector they give it: the client's specification implements the   *)
(* pool's.                                                                 *)
THEOREM ClientUsesPool == ClientSpec => UsesPool
<1>1. ClientInit => Init
  BY DEF ClientInit
<1> QED BY <1>1, ClientStepUsesPool, PTL DEF ClientSpec, UsesPool, Spec

(* What is proved of the pool's specification holds of the client. *)
LEMMA ClientPoolInv == ClientSpec => []IInv
BY ClientUsesPool, PoolInv, PTL DEF UsesPool

-----------------------------------------------------------------------------
Captured == [server : Server, after : Nat]

ClientTypeOK ==
  /\ cfg \in Server
  /\ old \in [Getter -> Server]
  /\ target \in [Connector -> Captured \cup {None}]
  /\ peer \in [Conn -> Captured \cup {None}]
  /\ switches \in Nat

(* Every connection in the pool was made for a configuration that was in   *)
(* force before or is now.                                                 *)
PeersKnown ==
  \A i \in 1 .. Len(conns) :
    peer[conns[i]] \in Captured /\ peer[conns[i]].after <= switches

(* What the filler has captured or just connected to is no older than the  *)
(* connections in the pool, which it will be put behind.                   *)
NoOlder(p) ==
  /\ p \in Captured
  /\ p.after <= switches
  /\ \A i \in 1 .. Len(conns) : peer[conns[i]].after <= p.after

FillerNewest ==
  /\ target[Filler] # None => filler = "connect" /\ NoOlder(target[Filler])
  /\ filler = "push" => NoOlder(peer[made])

DrainInv == ClientTypeOK /\ PeersKnown /\ FillerNewest /\ OldServerDrainsFirst

(* iter().position() finds a configuration: the first one with the name.   *)
LEMMA IndexFound == \A i \in Server : IndexOfName(NameOf[i]) \in Server
<1> SUFFICES ASSUME NEW i \in Server PROVE IndexOfName(NameOf[i]) \in Server
  OBVIOUS
<1> DEFINE same == {j \in Server : NameOf[j] = NameOf[i]}
           less == {ss \in Nat \X Nat : ss[1] < ss[2]}
<1>1. same \subseteq Nat /\ same # {}
  BY ClientAssumption DEF Server
<1>2. IsWellFoundedOn(less, Nat)
  BY NatLessThanWellFounded, Zenon DEF OpToRel
<1>3. \A a, b \in Nat : a < b => <<a, b>> \in less
  OBVIOUS
<1> HIDE DEF same, less
<1>4. PICK k \in same : \A j \in same : ~(<<j, k>> \in less)
  BY <1>1, <1>2, WFMin
<1>5. ASSUME NEW j \in same PROVE k <= j
  <2>1. j \in Nat /\ k \in Nat
    BY <1>1
  <2>2. ~(j < k)
    BY <1>3, <1>4, <2>1, Zenon
  <2> QED BY <2>1, <2>2
<1> QED BY <1>5 DEF IndexOfName, same

LEMMA ClientTypeStep == IInv /\ ClientTypeOK /\ [ClientNext]_allVars => ClientTypeOK'
<1> SUFFICES ASSUME IInv, ClientTypeOK, [ClientNext]_allVars PROVE ClientTypeOK'
  OBVIOUS
<1> USE PoolAssumption, ClientAssumption DEF ClientTypeOK, Connector, clientVars
<1>1. CASE FillerRuns
  BY <1>1 DEF FillerRuns
<1>2. ASSUME NEW t \in Connector, ReadConf(t) PROVE ClientTypeOK'
  BY <1>2 DEF ReadConf, Captured
<1>3. CASE FillerConnected
  BY <1>3 DEF FillerConnected, FillConnected, Fresh, Connected, ConnectorDone
<1>4. CASE FillerNotConnected
  BY <1>4 DEF FillerNotConnected, NotConnected, ConnectorDone
<1>5. ASSUME NEW g \in Getter, Request(g) PROVE ClientTypeOK'
  <2>1. CASE LoadErrors(g)
    BY <2>1 DEF LoadErrors
  <2>2. CASE ReadName(g)
    BY <2>2, IndexFound DEF ReadName
  <2>3. CASE WriteConf(g)
    <3>1. (old[g] + 1) % NumServers \in Server
      BY DEF Server
    <3>2. 0 \in Server
      BY DEF Server
    <3> QED BY <2>3, <3>1, <3>2 DEF WriteConf, CountSwitch
  <2>4. CASE ResetErrors(g)
    BY <2>4 DEF ResetErrors
  <2>5. CASE GetConnection(g)
    BY <2>5 DEF GetConnection
  <2>6. CASE ReadConf(g)
    BY <1>2, <2>6
  <2>7. CASE DirectDone(g)
    BY <2>7 DEF DirectDone, ConnectDirectly, Fresh, Connected, NotConnected, ConnectorDone
  <2>8. CASE GetReturns(g)
    BY <2>8 DEF GetReturns
  <2>9. CASE RelayEnds(g)
    BY <2>9 DEF RelayEnds
  <2> QED
    BY <1>5, <2>1, <2>2, <2>3, <2>4, <2>5, <2>6, <2>7, <2>8, <2>9 DEF Request, UnderWay
<1>6. CASE UNCHANGED allVars
  BY <1>6 DEF allVars
<1> QED
  BY <1>1, <1>2, <1>3, <1>4, <1>5, <1>6 DEF ClientNext

(* Where the pool, the peers and the configuration stay as they are, so    *)
(* does the order of the pool.                                             *)
LEMMA DrainKept ==
  ASSUME DrainInv, IInv, ClientTypeOK',
         \A i \in 1 .. Len(conns) : peer'[conns[i]] = peer[conns[i]],
         UNCHANGED <<conns, made>>, switches <= switches',
         filler' = filler, peer'[made] = peer[made] \/ filler # "push",
         target'[Filler] = target[Filler]
  PROVE  DrainInv'
<1>1. switches \in Nat /\ switches' \in Nat
  BY DEF DrainInv, ClientTypeOK
<1>2. \A n \in Nat : n <= switches => n <= switches'
  BY <1>1
<1>3. PeersKnown'
  BY <1>2 DEF DrainInv, PeersKnown, Captured
<1>4. OldServerDrainsFirst'
  BY DEF DrainInv, OldServerDrainsFirst
<1>5. \A p : NoOlder(p) => NoOlder(p)'
  BY <1>2 DEF NoOlder, Captured
<1>6. FillerNewest'
  BY <1>5 DEF DrainInv, FillerNewest
<1> QED BY <1>3, <1>4, <1>6 DEF DrainInv

LEMMA DrainStep == DrainInv /\ IInv /\ IInv' /\ [ClientNext]_allVars => DrainInv'
<1> SUFFICES ASSUME DrainInv, IInv, IInv', [ClientNext]_allVars PROVE DrainInv'
  OBVIOUS
<1>0. ClientTypeOK /\ ClientTypeOK'
  BY ClientTypeStep DEF DrainInv
<1> USE PoolAssumption, ClientAssumption
<1>1. CASE FillerRuns
  <2>1. UNCHANGED clientVars
    BY <1>1 DEF FillerRuns
  <2>2. CASE Measure \/ Receive
    BY <1>0, <2>1, <2>2
       DEF Measure, Receive, FillOrPark, clientVars, DrainInv, PeersKnown, NoOlder,
           FillerNewest, OldServerDrainsFirst
  <2>3. CASE Push
    <3>1. /\ conns \in Seq(Conn) /\ made \in Conn
          /\ Len(conns') = Len(conns) + 1
          /\ conns'[Len(conns) + 1] = made
          /\ \A i \in 1 .. Len(conns) : conns'[i] = conns[i]
      BY <2>3 DEF Push, IInv, TypeOK, FillerOK
    <3>2. NoOlder(peer[made]) /\ target[Filler] = None /\ filler' # "push"
      BY <2>3 DEF Push, FillOrPark, DrainInv, FillerNewest
    <3>3. PeersKnown'
      BY <2>1, <3>1, <3>2 DEF clientVars, DrainInv, PeersKnown, NoOlder
    <3>4. FillerNewest'
      BY <2>1, <3>2 DEF clientVars, FillerNewest
    <3>5. OldServerDrainsFirst'
      <4> SUFFICES ASSUME NEW i \in 1 .. Len(conns'), NEW j \in 1 .. Len(conns'), i < j
                   PROVE  peer'[conns'[i]].after <= peer'[conns'[j]].after
        BY DEF OldServerDrainsFirst
      <4>1. i \in 1 .. Len(conns) /\ conns'[i] = conns[i]
        BY <3>1
      <4>2. CASE j = Len(conns) + 1
        BY <2>1, <3>1, <3>2, <4>1, <4>2 DEF clientVars, NoOlder
      <4>3. CASE j # Len(conns) + 1
        BY <2>1, <3>1, <4>1, <4>3 DEF clientVars, DrainInv, OldServerDrainsFirst
      <4> QED BY <4>2, <4>3
    <3> QED BY <1>0, <3>3, <3>4, <3>5 DEF DrainInv
  <2> QED BY <1>1, <2>2, <2>3 DEF FillerRuns
<1>2. CASE ReadConf(Filler)
  BY <1>0, <1>2
     DEF ReadConf, Connecting, vars, ClientTypeOK, Connector, Captured, DrainInv, PeersKnown,
         NoOlder, FillerNewest, OldServerDrainsFirst
<1>3. CASE FillerConnected
  <2>1. /\ target[Filler] # None /\ target'[Filler] = None
        /\ UNCHANGED <<conns, switches>> /\ filler = "connect" /\ filler' = "push"
        /\ made' \in Conn /\ peer' = [peer EXCEPT ![made'] = target[Filler]]
        /\ \A i \in 1 .. Len(conns) : conns[i] # made' /\ conns[i] \in Conn
    BY <1>0, <1>3
       DEF FillerConnected, FillConnected, Fresh, InPool, Connected, ConnectorDone,
           ClientTypeOK, Connector, IInv, TypeOK
  <2>2. peer'[made'] = target[Filler] /\ \A i \in 1 .. Len(conns) : peer'[conns[i]] = peer[conns[i]]
    BY <1>0, <2>1 DEF ClientTypeOK
  <2> QED
    BY <1>0, <2>1, <2>2 DEF DrainInv, PeersKnown, NoOlder, FillerNewest, OldServerDrainsFirst
<1>4. CASE FillerNotConnected
  BY <1>0, <1>4
     DEF FillerNotConnected, FillFailed, vars, NotConnected, ConnectorDone, ClientTypeOK, Connector,
         DrainInv, PeersKnown, NoOlder, FillerNewest, OldServerDrainsFirst
<1>5. ASSUME NEW g \in Getter, Request(g) PROVE DrainInv'
  <2>0. g # Filler /\ g \in Connector /\ Filler \in Connector
    BY DEF Connector
  <2>1. CASE LoadErrors(g)
    BY <1>0, <2>1, DrainKept DEF LoadErrors, vars, ClientTypeOK
  <2>2. CASE ReadName(g)
    BY <1>0, <2>2, DrainKept DEF ReadName, vars, ClientTypeOK
  <2>3. CASE WriteConf(g)
    BY <1>0, <2>3, DrainKept DEF WriteConf, CountSwitch, vars, ClientTypeOK
  <2>4. CASE ResetErrors(g)
    BY <1>0, <2>4, DrainKept DEF ResetErrors, vars, ClientTypeOK
  <2>5. CASE GetConnection(g)
    <3>1. CASE FindEmpty(g)
      BY <1>0, <2>5, <3>1, DrainKept DEF GetConnection, FindEmpty, clientVars, ClientTypeOK
    <3>2. CASE Take(g)
      <4>1. /\ Len(conns') = Len(conns) - 1 /\ Len(conns) \in Nat
            /\ \A i \in 1 .. Len(conns') : conns'[i] = conns[i + 1]
        BY <3>2 DEF Take, IInv, TypeOK
      <4>2. \A i \in 1 .. Len(conns') : i + 1 \in 1 .. Len(conns)
        BY <4>1
      <4>3. UNCHANGED clientVars /\ UNCHANGED <<filler, made>>
        BY <2>5, <3>2 DEF GetConnection, Take
      <4>4. PeersKnown'
        BY <4>1, <4>2, <4>3 DEF clientVars, DrainInv, PeersKnown
      <4>5. FillerNewest'
        BY <4>1, <4>2, <4>3 DEF clientVars, DrainInv, FillerNewest, NoOlder
      <4>6. OldServerDrainsFirst'
        <5> SUFFICES ASSUME NEW i \in 1 .. Len(conns'), NEW j \in 1 .. Len(conns'), i < j
                     PROVE  peer'[conns'[i]].after <= peer'[conns'[j]].after
          BY DEF OldServerDrainsFirst
        <5>1. i + 1 < j + 1
          BY <4>1
        <5> QED BY <4>1, <4>2, <4>3, <5>1 DEF clientVars, DrainInv, OldServerDrainsFirst
      <4> QED BY <1>0, <4>4, <4>5, <4>6 DEF DrainInv
    <3> QED BY <2>5, <3>1, <3>2 DEF GetConnection
  <2>6. CASE ReadConf(g)
    BY <1>0, <2>0, <2>6, DrainKept DEF ReadConf, vars, ClientTypeOK
  <2>7. CASE DirectDone(g)
    <3>1. PICK c \in Fresh \cup {None} : held' = [held EXCEPT ![g] = c]
      BY <2>7 DEF DirectDone, ConnectDirectly
    <3>2. held'[g] = c
      BY <3>1 DEF IInv, TypeOK
    <3>3. /\ \A i \in 1 .. Len(conns) : conns[i] # c /\ conns[i] \in Conn
          /\ filler = "push" => made # c /\ made \in Conn
      BY DEF Fresh, InPool, IInv, TypeOK, FillerOK
    <3>4. \A x \in Conn : x # c => peer'[x] = peer[x]
      <4>1. CASE held'[g] = None
        BY <2>7, <4>1 DEF DirectDone, NotConnected
      <4>2. CASE held'[g] # None
        BY <1>0, <2>7, <3>2, <4>2 DEF DirectDone, Connected, ClientTypeOK
      <4> QED BY <4>1, <4>2
    <3>5. /\ UNCHANGED <<conns, made, filler, switches>>
          /\ target'[Filler] = target[Filler]
      BY <1>0, <2>0, <2>7 DEF DirectDone, ConnectDirectly, ConnectorDone, ClientTypeOK
    <3> QED BY <1>0, <3>3, <3>4, <3>5, DrainKept DEF ClientTypeOK
  <2>8. CASE GetReturns(g)
    BY <1>0, <2>8, DrainKept DEF GetReturns, Notify, NotifyTimeout, ClientTypeOK
  <2>9. CASE RelayEnds(g)
    <3>1. \A i \in 1 .. Len(conns) : conns[i] # held[g]
      BY DEF IInv, Exclusive
    <3>2. filler = "push" => made # held[g]
      BY DEF IInv, FillerOK, MadeOwned
    <3>3. \A x : x # held[g] => peer'[x] = peer[x]
      BY <1>0, <2>9 DEF RelayEnds, ClientTypeOK
    <3> QED
      BY <1>0, <2>9, <3>1, <3>2, <3>3, DrainKept DEF RelayEnds, Close, ClientTypeOK
  <2> QED
    BY <1>5, <2>1, <2>2, <2>3, <2>4, <2>5, <2>6, <2>7, <2>8, <2>9 DEF Request, UnderWay
<1>6. CASE UNCHANGED allVars
  BY <1>0, <1>6, DrainKept DEF allVars, vars, clientVars, ClientTypeOK
<1> QED
  BY <1>1, <1>2, <1>3, <1>4, <1>5, <1>6 DEF ClientNext

(* Whenever change_conf is called, and however many connections to either  *)
(* server are being made, the pool hands out those of the server that was  *)
(* left before any of the new one.                                         *)
THEOREM OldServerFirst == ClientSpec => []OldServerDrainsFirst
<1>1. ClientInit => DrainInv
  BY PoolAssumption, ClientAssumption
     DEF ClientInit, Init, DrainInv, ClientTypeOK, PeersKnown, FillerNewest,
         OldServerDrainsFirst, Server, Connector
<1>2. DrainInv => OldServerDrainsFirst
  BY DEF DrainInv
<1> QED BY <1>1, <1>2, DrainStep, ClientPoolInv, PTL DEF ClientSpec

(* The bound, the wake-ups and the exclusive ownership proved of the pool  *)
(* hold in the composition with failover.                                  *)
THEOREM PoolUnderFailover == ClientSpec => [](Bounded /\ NoLostRefill /\ Exclusive)
<1>1. IInv => Bounded /\ NoLostRefill /\ Exclusive
  BY DEF IInv
<1> QED BY <1>1, ClientPoolInv, PTL
=============================================================================
