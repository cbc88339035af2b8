----------------------------- MODULE RelayProofs -----------------------------
(***************************************************************************)
(* Proofs about Relay, for any number of connections and bytes, any rules, *)
(* any size of the buffers and any time to live of a probe's result.       *)
(***************************************************************************)
EXTENDS Relay, Integers, WellFoundedInduction, TLAPS

States == {"new", "dispatch", "probe", "probing", "handle", "connect", "relay",
           "close", "remove", "done", "udp"}

WayType == [pc : {"off", "addr", "read", "write", "count"},
            made : Nat, read : Nat, out : Nat, size : Nat]

AnyAddress == Addresses \cup {NoAddress}

EntryType == [addr : AnyAddress, open : BOOLEAN, up : Nat, down : Nat]

Fields == {"st", "kind", "addr", "action", "index", "idx", "ret", "up", "down", "socks", "got"}

(* A handler; its UDP sockets and the datagrams it got are left open. *)
HandlerOK(h) ==
  /\ DOMAIN h = Fields
  /\ h.st \in States
  /\ h.kind \in {"tcp", "udp"}
  /\ h.addr \in AnyAddress
  /\ h.action \in Actions \cup {"None"}
  /\ h.index \in Nat /\ h.idx \in Nat
  /\ h.up \in WayType /\ h.down \in WayType

(* The action is one of a client's from the choice of the way on. *)
Chosen(h) ==
  /\ h.st \in {"connect", "relay", "close"} => h.action \in Clients
  /\ h.st = "handle" => h.action \in Clients \cup {"Reject"}

TypeOK ==
  /\ scenario \in Scenarios
  /\ DOMAIN conn = Conns
  /\ \A c \in Conns : HandlerOK(conn[c]) /\ Chosen(conn[c])
  /\ counter \in Nat
  /\ now \in Nat

Handled == {"connect", "relay", "close", "remove"}

(* Every handled connection is in the list under an index of its own below *)
(* the counter, and the list has no other entries.                         *)
Listed ==
  /\ \A c \in Conns : conn[c].st \in Handled =>
       /\ conn[c].index < counter
       /\ conn[c].index \in DOMAIN connections
       /\ connections[conn[c].index].addr = conn[c].addr
  /\ \A i \in DOMAIN connections :
       \E c \in Conns : conn[c].st \in Handled /\ conn[c].index = i
  /\ \A c, d \in Conns :
       conn[c].st \in Handled /\ conn[d].st \in Handled /\ conn[c].index = conn[d].index => c = d

StatsType ==
  /\ DOMAIN stats = Clients
  /\ \A cl \in Clients :
       /\ DOMAIN stats[cl] = {"counter", "inner"}
       /\ stats[cl].counter \in Nat
       /\ \A i \in DOMAIN stats[cl].inner :
            i \in Nat /\ i < stats[cl].counter /\ stats[cl].inner[i] \in EntryType

(* Every relay has an open entry of its own, and every open entry a relay. *)
Entered ==
  /\ \A c \in Conns : InRelay(c) =>
       /\ conn[c].idx \in DOMAIN stats[conn[c].action].inner
       /\ stats[conn[c].action].inner[conn[c].idx].open
       /\ stats[conn[c].action].inner[conn[c].idx].addr = conn[c].addr
  /\ \A cl \in Clients : \A i \in DOMAIN stats[cl].inner : stats[cl].inner[i].open =>
       \E c \in Conns : InRelay(c) /\ conn[c].action = cl /\ conn[c].idx = i
  /\ \A c, d \in Conns :
       InRelay(c) /\ InRelay(d) /\ conn[c].action = conn[d].action /\ conn[c].idx = conn[d].idx => c = d

(* Where the bytes of a direction are: those shown, those of the buffer in *)
(* hand, and those the source has made and nobody has read.                *)
WayOK(v, shown) ==
  /\ v.read <= v.made
  /\ v.pc \in {"addr", "read"} => v.out = v.read /\ shown = v.read
  /\ v.pc = "write" => shown + v.size = v.read /\ shown <= v.out /\ v.out < v.read
  /\ v.pc = "count" => shown + v.size = v.read /\ v.out = v.read
  /\ v.pc \in {"write", "count"} => v.size <= Chunk
  /\ v.pc # "off"

BytesInPlace ==
  \A c \in Conns, w \in Ways : InRelay(c) =>
    WayOK(conn[c][w], stats[conn[c].action].inner[conn[c].idx][w])

Statistics == StatsType /\ Entered /\ BytesInPlace

(* The lock is held by the one connection that is probing.  The cache has  *)
(* the latest result for an address, and lacks it only when it is too old. *)
Probes ==
  /\ \A c \in Conns : conn[c].st = "probing" => probe.lock = c
  /\ probe.lock # 0 => probe.lock \in Conns /\ conn[probe.lock].st = "probing"
  /\ \A a \in DOMAIN probe.cache :
       /\ a \in DOMAIN probed
       /\ probe.cache[a].expire = probed[a].at + ProbeTtl
       /\ probe.cache[a].connectable = probed[a].ok
  /\ \A a \in DOMAIN probed :
       /\ probed[a].at \in Nat
       /\ a \notin DOMAIN probe.cache => now >= probed[a].at + ProbeTtl

IInv == TypeOK /\ Listed /\ Statistics /\ Probes /\ EndPassesAllOn

-----------------------------------------------------------------------------
(* The first rule that matches is one of the rules. *)
LEMMA ActionFound == \A domain : ActionForDomain(domain) \in Actions
<1> SUFFICES ASSUME NEW domain PROVE ActionForDomain(domain) \in Actions
  OBVIOUS
<1> DEFINE I == {i \in 1..Len(Rules) : Matches(Rules[i], domain)}
           less == {ss \in Nat \X Nat : ss[1] < ss[2]}
<1>1. I \subseteq Nat /\ I \subseteq 1..Len(Rules)
  BY RelayAssumption
<1>2. IsWellFoundedOn(less, Nat)
  BY NatLessThanWellFounded, Zenon DEF OpToRel
<1>3. \A a, b \in Nat : a < b => <<a, b>> \in less
  OBVIOUS
<1>4. ActionForDomain(domain) = LET n == IF I # {} THEN Min(I) ELSE 0
                                IN IF n = 0 THEN "Direct" ELSE Rules[n].action
  BY DEF ActionForDomain, SelectInSeq
<1>5. "Direct" \in Actions /\ \A i \in 1..Len(Rules) : Rules[i].action \in Actions
  <2> DEFINE R == [kind : RuleKinds, value : Seq(Nat), action : Actions]
  <2>1. Rules \in Seq(R)
    BY RelayAssumption
  <2>2. \A r \in R : r.action \in Actions
    OBVIOUS
  <2> HIDE DEF R
  <2>3. \A i \in 1..Len(Rules) : Rules[i] \in R
    BY <2>1
  <2> QED BY <2>2, <2>3 DEF Actions
<1> HIDE DEF I, less
<1>6. CASE I # {}
  <2>1. PICK k \in I : \A j \in I : ~(<<j, k>> \in less)
    BY <1>1, <1>2, <1>6, WFMin
  <2>2. ASSUME NEW j \in I PROVE k <= j
    <3>1. j \in Nat /\ k \in Nat
      BY <1>1
    <3>2. ~(j < k)
      BY <1>3, <2>1, <3>1, Zenon
    <3> QED BY <3>1, <3>2
  <2>3. Min(I) \in I
    BY <2>2 DEF Min
  <2> QED BY <1>1, <1>4, <1>5, <1>6, <2>3
<1> QED BY <1>4, <1>5, <1>6

(* What Set does to the handlers. *)
LEMMA SetEffect ==
  ASSUME TypeOK, NEW c \in Conns, NEW h, Set(c, h), scenario' = scenario
  PROVE  /\ Conns' = Conns /\ DOMAIN conn' = Conns
         /\ conn'[c] = h
         /\ \A d \in Conns : d # c => conn'[d] = conn[d]
BY DEF TypeOK, Set, Conns

(* A direction of a handler has its type. *)
LEMMA WayTyped ==
  ASSUME TypeOK, NEW c \in Conns, NEW w \in Ways
  PROVE  conn[c][w] \in WayType
BY DEF TypeOK, HandlerOK, Ways

-----------------------------------------------------------------------------
(* What a step for connection c may do, seen from the lists and statistics *)

Only(c) ==
  /\ scenario' = scenario /\ DOMAIN conn' = Conns
  /\ \A d \in Conns : d # c => conn'[d] = conn[d]
  /\ HandlerOK(conn'[c]) /\ Chosen(conn'[c])

(* Nothing changes but the fields in F. *)
Keeps(c, F) == \A f \in Fields : f \notin F => conn'[c][f] = conn[c][f]

(* The connection is not registered, before or after. *)
Outside(c) ==
  /\ Only(c)
  /\ conn[c].st \notin Handled /\ conn'[c].st \notin Handled
  /\ UNCHANGED <<connections, counter, stats>>

(* The steps before a connection is registered, and those of a UDP handler. *)
LEMMA OutsideStep ==
  ASSUME TypeOK, NEW c \in Conns,
         \/ Accept(c) \/ Dispatch(c) \/ ProbeCached(c) \/ ProbeStart(c) \/ ProbeEnd(c)
         \/ HandleUdp(c) \/ UdpEnd(c)
  PROVE  Outside(c)
<1> DEFINE h == conn[c]
<1>0. HandlerOK(h) /\ Chosen(h)
  BY DEF TypeOK
<1>1. CASE Accept(c)
  <2>1. scenario.arrivals[c].kind \in {"tcp", "udp"} /\ scenario.arrivals[c].addr \in Addresses
    <3> DEFINE A == [kind : {"tcp", "udp"}, addr : Addresses]
    <3>1. scenario.arrivals \in Seq(A)
      BY RelayAssumption DEF TypeOK
    <3>2. \A a \in A : a.kind \in {"tcp", "udp"} /\ a.addr \in Addresses
      OBVIOUS
    <3> HIDE DEF A
    <3>3. scenario.arrivals[c] \in A
      BY <3>1 DEF Conns
    <3> QED BY <3>2, <3>3
  <2>2. conn'[c] = [Handler("dispatch") EXCEPT !.kind = scenario.arrivals[c].kind,
                                               !.addr = scenario.arrivals[c].addr]
    BY <1>1, SetEffect DEF Accept
  <2>3. HandlerOK(conn'[c]) /\ Chosen(conn'[c]) /\ conn'[c].st = "dispatch"
    BY <2>1, <2>2 DEF HandlerOK, Chosen, Handler, Way, WayType, Fields, States, AnyAddress
  <2> QED BY <1>1, <2>3, SetEffect DEF Accept, Outside, Only, Handled
<1>2. CASE Dispatch(c)
  <2>1. PICK a \in Actions :
          \/ conn'[c] = [h EXCEPT !.action = a, !.st = IF a = "Probe" THEN "probe" ELSE "handle"]
          \/ conn'[c] = [h EXCEPT !.st = "done", !.ret = "Err"]
    BY <1>2, ActionFound, SetEffect DEF Dispatch, Actions
  <2>2. HandlerOK(conn'[c]) /\ Chosen(conn'[c]) /\ conn'[c].st \in {"probe", "handle", "done"}
    BY <1>0, <2>1 DEF HandlerOK, Chosen, Fields, States, Actions, Clients
  <2> QED BY <1>2, <2>2, SetEffect DEF Dispatch, Outside, Only, Handled
<1>3. CASE ProbeCached(c) \/ ProbeStart(c) \/ ProbeEnd(c)
  <2>1. PICK ok : conn'[c] = Probed(h, ok) \/ conn'[c] = [h EXCEPT !.st = "probing"]
    BY <1>3, SetEffect DEF ProbeCached, ProbeStart, ProbeEnd
  <2>2. HandlerOK(conn'[c]) /\ Chosen(conn'[c]) /\ conn'[c].st \in {"probing", "handle"}
    BY <1>0, <2>1 DEF HandlerOK, Chosen, Probed, Fields, States, Actions, Clients
  <2> QED BY <1>3, <2>2, SetEffect DEF ProbeCached, ProbeStart, ProbeEnd, Outside, Only, Handled
<1>4. CASE HandleUdp(c) \/ UdpEnd(c)
  <2>1. PICK r \in {"Ok", "Err"} :
          conn'[c] = [h EXCEPT !.st = "done", !.ret = r] \/ conn'[c] = [h EXCEPT !.st = "udp"]
    BY <1>4, SetEffect DEF HandleUdp, UdpEnd
  <2>2. HandlerOK(conn'[c]) /\ Chosen(conn'[c]) /\ conn'[c].st \in {"done", "udp"}
    BY <1>0, <2>1 DEF HandlerOK, Chosen, Fields, States
  <2> QED BY <1>4, <2>2, SetEffect DEF HandleUdp, UdpEnd, Outside, Only, Handled
<1> QED BY <1>1, <1>2, <1>3, <1>4

(* A step of the UDP relay changes its sockets and what it has passed on. *)
LEMMA DatagramStep ==
  ASSUME TypeOK, NEW c \in Conns, UdpReader(c) \/ UdpSend(c) \/ \E k \in DOMAIN conn[c].socks : UdpAnswer(c, k)
  PROVE  /\ Only(c) /\ Keeps(c, {"socks", "got"})
         /\ UNCHANGED <<connections, counter, stats, probe, now, probed>>
<1> DEFINE h == conn[c]
           Socks(g) == DOMAIN g = Fields /\ \A f \in Fields : f \notin {"socks", "got"} => g[f] = h[f]
<1>0. HandlerOK(h) /\ Chosen(h) /\ DOMAIN h = Fields
  BY DEF TypeOK, HandlerOK
<1>1. \A x : Socks([h EXCEPT !.socks = x])
  BY <1>0
<1>2. \A x, y : Socks([h EXCEPT !.socks = x, !.got = y])
  BY <1>0
<1>3. Socks(conn'[c])
  <2>0. ASSUME NEW g, Set(c, g), Socks(g), scenario' = scenario PROVE Socks(conn'[c])
    BY <2>0, SetEffect, Zenon
  <2> HIDE DEF Socks
  <2>1. CASE UdpSend(c)
    <3>1. PICK x : Set(c, [h EXCEPT !.socks = x])
      BY <2>1 DEF UdpSend
    <3> QED BY <1>1, <2>0, <2>1, <3>1 DEF UdpSend
  <2>2. ASSUME NEW k \in DOMAIN h.socks, UdpAnswer(c, k) PROVE Socks(conn'[c])
    <3>1. PICK x, y : Set(c, [h EXCEPT !.socks[k].asked = x, !.socks[k].inbox = y])
      BY ZenonT(60), <2>2 DEF UdpAnswer
    <3>2. Socks([h EXCEPT !.socks[k].asked = x, !.socks[k].inbox = y])
      BY <1>0 DEF Socks
    <3> QED BY <2>0, <2>2, <3>1, <3>2 DEF UdpAnswer
  <2>3. ASSUME NEW k \in DOMAIN h.socks, UdpRead(c, k) PROVE Socks(conn'[c])
    <3>1. PICK x, y : \/ Set(c, [h EXCEPT !.socks[k].inbox = x, !.got = y])
                      \/ Set(c, [h EXCEPT !.socks[k].inbox = x, !.socks[k].reading = FALSE])
      BY <2>3 DEF UdpRead
    <3>2. Socks([h EXCEPT !.socks[k].inbox = x, !.got = y])
      BY <1>0 DEF Socks
    <3>3. Socks([h EXCEPT !.socks[k].inbox = x, !.socks[k].reading = FALSE])
      BY <1>0 DEF Socks
    <3> QED BY <2>0, <2>3, <3>1, <3>2, <3>3 DEF UdpRead
  <2>4. ASSUME NEW k \in DOMAIN h.socks, UdpReadEnds(c, k) PROVE Socks(conn'[c])
    <3>1. Set(c, [h EXCEPT !.socks[k].reading = FALSE])
      BY <2>4 DEF UdpReadEnds
    <3>2. Socks([h EXCEPT !.socks[k].reading = FALSE])
      BY <1>0 DEF Socks
    <3> QED BY <2>0, <2>4, <3>1, <3>2 DEF UdpReadEnds
  <2> QED BY <2>1, <2>2, <2>3, <2>4 DEF UdpReader
<1>4. HandlerOK(conn'[c]) /\ Chosen(conn'[c])
  BY <1>0, <1>3 DEF HandlerOK, Chosen, Fields
<1>5. /\ UNCHANGED <<scenario, connections, counter, stats, probe, now, probed>>
      /\ \E g : Set(c, g)
  BY ZenonT(60) DEF UdpReader, UdpSend, UdpAnswer, UdpRead, UdpReadEnds
<1> QED BY <1>3, <1>4, <1>5, SetEffect DEF Only, Keeps

(* A step of one direction of a relay changes that direction only. *)
LEMMA WayStep ==
  ASSUME TypeOK, NEW c \in Conns, NEW w \in Ways, NEW v \in WayType,
         conn[c].st = "relay", scenario' = scenario,
         Set(c, [conn[c] EXCEPT ![w] = v])
  PROVE  Only(c) /\ Keeps(c, {w}) /\ conn'[c][w] = v
<1> DEFINE h == conn[c]
<1>0. HandlerOK(h) /\ Chosen(h)
  BY DEF TypeOK
<1>1. conn'[c] = [h EXCEPT ![w] = v]
  BY SetEffect
<1> HIDE DEF h
<1>2. HandlerOK(conn'[c]) /\ conn'[c][w] = v /\ \A f \in Fields : f # w => conn'[c][f] = h[f]
  <2>1. DOMAIN conn'[c] = Fields /\ \A f \in Fields : conn'[c][f] = IF f = w THEN v ELSE h[f]
    BY <1>0, <1>1 DEF HandlerOK
  <2>2. CASE w = "up"
    BY <1>0, <2>1, <2>2 DEF HandlerOK, Fields
  <2>3. CASE w = "down"
    BY <1>0, <2>1, <2>3 DEF HandlerOK, Fields
  <2> QED BY <2>2, <2>3 DEF Ways
<1>3. Chosen(conn'[c])
  BY <1>0, <1>2 DEF Chosen, Fields, Ways
<1> QED BY <1>2, <1>3, SetEffect DEF Only, Keeps, h

(* The steps of a direction, each with what becomes of it. *)
Moved(c, w, v, u) ==
  \/ w = "up" /\ v.pc = "addr" /\ u = [v EXCEPT !.pc = "read"]
  \/ \E n \in 1..Chunk : /\ v.pc = "read" /\ v.read + n <= v.made
                         /\ u = [v EXCEPT !.pc = "write", !.read = @ + n, !.size = n]
  \/ /\ v.pc = "write"
     /\ u = [v EXCEPT !.out = @ + 1, !.pc = IF v.out + 1 = v.read THEN "count" ELSE @]
  \/ u = [v EXCEPT !.made = @ + 1]

(* Reading, writing and making bytes move one direction, and nothing else. *)
LEMMA MoveStep ==
  ASSUME TypeOK, NEW c \in Conns, NEW w \in Ways,
         (w = "up" /\ SendAddr(c)) \/ Read(c, w) \/ Write(c, w) \/ Make(c, w)
  PROVE  /\ conn[c].st = "relay" /\ Only(c) /\ Keeps(c, {w})
         /\ Moved(c, w, conn[c][w], conn'[c][w])
         /\ UNCHANGED <<connections, counter, stats, probe, now, probed>>
<1> DEFINE h == conn[c]
           v == conn[c][w]
<1>0. v \in WayType /\ Chunk \in Nat
  BY WayTyped, RelayAssumption
<1> HIDE DEF v
<1>1. ASSUME NEW u, Moved(c, w, v, u) PROVE u \in WayType
  <2>1. ASSUME w = "up" /\ u = [v EXCEPT !.pc = "read"] PROVE u \in WayType
    BY <1>0, <2>1 DEF WayType
  <2>2. ASSUME NEW n \in 1..Chunk, u = [v EXCEPT !.pc = "write", !.read = @ + n, !.size = n]
        PROVE  u \in WayType
    <3>1. PICK k \in Nat : k = v.read + n
      BY <1>0 DEF WayType
    <3>2. u = [v EXCEPT !.pc = "write", !.read = k, !.size = n] /\ n \in Nat
      BY <1>0, <2>2, <3>1
    <3> QED BY <1>0, <3>2 DEF WayType
  <2>3. ASSUME v.pc = "write",
               u = [v EXCEPT !.out = @ + 1, !.pc = IF v.out + 1 = v.read THEN "count" ELSE @]
        PROVE  u \in WayType
    <3>1. PICK k \in Nat : k = v.out + 1
      BY <1>0 DEF WayType
    <3>2. PICK pc \in {"write", "count"} : u = [v EXCEPT !.out = k, !.pc = pc]
      BY <2>3, <3>1
    <3> QED BY <1>0, <3>2 DEF WayType
  <2>4. ASSUME u = [v EXCEPT !.made = @ + 1] PROVE u \in WayType
    <3>1. PICK k \in Nat : k = v.made + 1
      BY <1>0 DEF WayType
    <3>2. u = [v EXCEPT !.made = k]
      BY <2>4, <3>1
    <3> QED BY <1>0, <3>2 DEF WayType
  <2> QED BY <1>1, <2>1, <2>2, <2>3, <2>4 DEF Moved
<1>2. h.st = "relay" /\ UNCHANGED <<scenario, connections, counter, stats, probe, now, probed>>
  BY DEF SendAddr, Read, Write, Make, Relaying
<1>3. PICK u : Moved(c, w, v, u) /\ Set(c, [h EXCEPT ![w] = u])
  <2> USE DEF v
  <2>1. CASE w = "up" /\ SendAddr(c)
    BY <2>1 DEF SendAddr, Relaying, Moved
  <2>2. CASE Read(c, w)
    BY <2>2 DEF Read, Relaying, Moved
  <2>3. CASE Write(c, w)
    BY <2>3 DEF Write, Relaying, Moved
  <2>4. CASE Make(c, w)
    BY <2>4 DEF Make, Moved
  <2> QED BY <2>1, <2>2, <2>3, <2>4
<1> QED BY <1>1, <1>2, <1>3, WayStep DEF v

(* What ends a part of the handling changes the state and the result. *)
LEMMA EndStep ==
  ASSUME TypeOK, NEW c \in Conns,
         ConnectFails(c) \/ \E w \in Ways : ReadEof(c, w) \/ RelayFails(c, w)
  PROVE  /\ Only(c) /\ Keeps(c, {"st", "ret"})
         /\ \/ conn[c].st = "connect" /\ conn'[c].st = "remove"
            \/ conn[c].st = "relay" /\ conn'[c].st = "close"
         /\ conn'[c].ret \in Ways => Relaying(c, conn'[c].ret, "read")
                                     /\ conn[c][conn'[c].ret].read = conn[c][conn'[c].ret].made
         /\ UNCHANGED <<connections, counter, stats, probe, now, probed>>
<1> DEFINE h == conn[c]
<1>0. HandlerOK(h) /\ Chosen(h) /\ DOMAIN h = Fields
  BY DEF TypeOK, HandlerOK
<1> DEFINE P(st, ret) == /\ Set(c, [h EXCEPT !.st = st, !.ret = ret])
                         /\ \/ h.st = "connect" /\ st = "remove"
                            \/ h.st = "relay" /\ st = "close"
                         /\ ret \in Ways => Relaying(c, ret, "read") /\ h[ret].read = h[ret].made
<1>1. UNCHANGED <<scenario, connections, counter, stats, probe, now, probed>>
  BY DEF ConnectFails, ReadEof, RelayFails
<1>2. PICK st \in States, ret \in Ways \cup {"Err"} : P(st, ret)
  <2>1. CASE ConnectFails(c)
    <3>1. P("remove", "Err")
      BY <2>1 DEF ConnectFails, Ways
    <3> QED BY <3>1 DEF States
  <2>2. ASSUME NEW w \in Ways, ReadEof(c, w) PROVE P("close", w)
    BY <2>2 DEF ReadEof, Relaying, End
  <2>3. ASSUME NEW w \in Ways, RelayFails(c, w) PROVE P("close", "Err")
    BY <2>3 DEF RelayFails, Relaying, End, Ways
  <2> QED BY <2>1, <2>2, <2>3 DEF States
<1>3. conn'[c] = [h EXCEPT !.st = st, !.ret = ret]
  BY <1>1, <1>2, SetEffect
<1>4. DOMAIN conn'[c] = Fields /\ conn'[c].st = st /\ conn'[c].ret = ret /\ Keeps(c, {"st", "ret"})
  BY <1>0, <1>3 DEF Fields, Keeps
<1>5. HandlerOK(conn'[c]) /\ Chosen(conn'[c])
  BY <1>0, <1>2, <1>4 DEF HandlerOK, Chosen, Keeps, Fields
<1> QED BY <1>1, <1>2, <1>4, <1>5, SetEffect DEF Only

-----------------------------------------------------------------------------
(* The list of connections *)

(* Steps that leave index and address alone keep the list. *)
LEMMA ListedKept ==
  ASSUME TypeOK, Listed, NEW c \in Conns, Only(c), UNCHANGED <<connections, counter>>,
         conn[c].st \in Handled <=> conn'[c].st \in Handled,
         conn[c].st \in Handled => Keeps(c, {"st", "ret", "up", "down", "idx", "socks", "got"})
  PROVE  Listed'
<1>1. Conns' = Conns /\ \A d \in Conns : conn'[d].st \in Handled <=> conn[d].st \in Handled
  BY DEF Only, Conns
<1>2. \A d \in Conns : conn[d].st \in Handled => conn'[d].index = conn[d].index /\ conn'[d].addr = conn[d].addr
  BY DEF Only, Keeps, Fields
<1> QED BY <1>1, <1>2 DEF Listed

(* The index a connection is registered under is new. *)
LEMMA ListedHandleTcp ==
  ASSUME TypeOK, Listed, NEW c \in Conns, HandleTcp(c)
  PROVE  Only(c) /\ Listed' /\ conn[c].st = "handle" /\ conn'[c].st \in {"connect", "remove"}
<1> DEFINE h == conn[c]
<1>0. HandlerOK(h) /\ Chosen(h) /\ h.st = "handle" /\ counter \in Nat /\ counter' = counter + 1
  BY DEF TypeOK, HandleTcp
<1>1. conn'[c] = [h EXCEPT !.index = counter, !.ret = IF h.action = "Reject" THEN "Ok" ELSE @,
                           !.st = IF h.action = "Reject" THEN "remove" ELSE "connect"]
  BY SetEffect DEF HandleTcp
<1>2. /\ HandlerOK(conn'[c]) /\ conn'[c].index = counter /\ conn'[c].addr = h.addr
      /\ conn'[c].st \in {"connect", "remove"} /\ Chosen(conn'[c])
  BY <1>0, <1>1 DEF HandlerOK, Chosen, Fields, States, Clients
<1>3. Only(c) /\ Conns' = Conns
  BY <1>2, SetEffect DEF HandleTcp, Only
<1>4. /\ DOMAIN connections' = DOMAIN connections \cup {counter}
      /\ connections'[counter].addr = h.addr
      /\ \A i \in DOMAIN connections : i # counter => connections'[i] = connections[i]
  BY DEF HandleTcp, Put
<1>5. \A d \in Conns : d # c /\ conn[d].st \in Handled => conn[d].index # counter /\ conn[d].index \in Nat
  BY DEF Listed, TypeOK, HandlerOK
<1>6. \A d \in Conns : d # c => conn'[d] = conn[d]
  BY <1>3 DEF Only
<1>7. h.st \notin Handled /\ conn'[c].st \in Handled
  BY <1>0, <1>2 DEF Handled
<1>8. \A d \in Conns : conn'[d].st \in Handled =>
       /\ conn'[d].index < counter'
       /\ conn'[d].index \in DOMAIN connections'
       /\ connections'[conn'[d].index].addr = conn'[d].addr
  BY <1>0, <1>2, <1>4, <1>5, <1>6 DEF Listed
<1>9. \A i \in DOMAIN connections' :
       \E d \in Conns : conn'[d].st \in Handled /\ conn'[d].index = i
  BY <1>2, <1>4, <1>6, <1>7 DEF Listed
<1>10. \A d, e \in Conns :
        conn'[d].st \in Handled /\ conn'[e].st \in Handled /\ conn'[d].index = conn'[e].index => d = e
  BY <1>2, <1>5, <1>6 DEF Listed
<1>11. Listed'
  BY <1>3, <1>8, <1>9, <1>10 DEF Listed
<1> QED BY <1>0, <1>2, <1>3, <1>11

(* A connection is forgotten under the index it was registered under. *)
LEMMA ListedHandleTcpEnd ==
  ASSUME TypeOK, Listed, NEW c \in Conns, HandleTcpEnd(c)
  PROVE  Only(c) /\ Listed' /\ conn'[c].st = "done"
<1>1. conn'[c] = Handler("done")
  BY SetEffect DEF HandleTcpEnd
<1>2. HandlerOK(conn'[c]) /\ Chosen(conn'[c]) /\ conn'[c].st = "done"
  BY <1>1 DEF HandlerOK, Chosen, Handler, Way, WayType, Fields, States, AnyAddress
<1>3. Only(c) /\ Conns' = Conns /\ \A d \in Conns : d # c => conn'[d] = conn[d]
  BY <1>2, SetEffect DEF HandleTcpEnd, Only
<1>4. /\ DOMAIN connections' = DOMAIN connections \ {conn[c].index}
      /\ \A i \in DOMAIN connections' : connections'[i] = connections[i]
  BY DEF HandleTcpEnd, Without
<1>5. conn[c].st \in Handled /\ conn'[c].st \notin Handled /\ counter' = counter
  BY <1>2 DEF HandleTcpEnd, Handled
<1>6. \A d \in Conns : d # c /\ conn[d].st \in Handled => conn[d].index # conn[c].index
  BY <1>5 DEF Listed
<1>7. \A d \in Conns : conn'[d].st \in Handled =>
       /\ conn'[d].index < counter'
       /\ conn'[d].index \in DOMAIN connections'
       /\ connections'[conn'[d].index].addr = conn'[d].addr
  BY <1>3, <1>4, <1>5, <1>6 DEF Listed
<1>8. \A i \in DOMAIN connections' :
       \E d \in Conns : conn'[d].st \in Handled /\ conn'[d].index = i
  BY <1>3, <1>4, <1>5 DEF Listed
<1>9. \A d, e \in Conns :
        conn'[d].st \in Handled /\ conn'[e].st \in Handled /\ conn'[d].index = conn'[e].index => d = e
  BY <1>3, <1>5 DEF Listed
<1>10. Listed'
  BY <1>3, <1>7, <1>8, <1>9 DEF Listed
<1> QED BY <1>2, <1>3, <1>10

-----------------------------------------------------------------------------
(* The statistics *)

(* Steps that leave index, action and address alone keep the entries. *)
LEMMA EnteredKept ==
  ASSUME TypeOK, Entered, NEW c \in Conns, Only(c), UNCHANGED stats,
         InRelay(c) <=> InRelay(c)',
         InRelay(c) => Keeps(c, {"st", "ret", "up", "down", "index", "socks", "got"})
  PROVE  Entered'
<1>1. Conns' = Conns /\ \A d \in Conns : InRelay(d)' <=> InRelay(d)
  BY DEF Only, Conns, InRelay
<1>2. \A d \in Conns : InRelay(d) => /\ conn'[d].idx = conn[d].idx /\ conn'[d].addr = conn[d].addr
                                    /\ conn'[d].action = conn[d].action
  BY DEF Only, Keeps, Fields
<1> QED BY <1>1, <1>2 DEF Entered

(* Steps that leave the directions alone keep their bytes in place. *)
LEMMA BytesKept ==
  ASSUME TypeOK, BytesInPlace, NEW c \in Conns, Only(c), UNCHANGED stats,
         InRelay(c)' => InRelay(c) /\ Keeps(c, {"st", "ret", "index", "socks", "got"})
  PROVE  BytesInPlace'
<1>1. Conns' = Conns /\ \A d \in Conns : InRelay(d)' => InRelay(d)
  BY DEF Only, Conns, InRelay
<1>2. \A d \in Conns, w \in Ways : InRelay(d)' =>
        /\ conn'[d].idx = conn[d].idx /\ conn'[d].action = conn[d].action
        /\ conn'[d][w] = conn[d][w]
  BY DEF Only, Keeps, Fields, Ways
<1> QED BY <1>1, <1>2 DEF BytesInPlace

(* A step of a direction keeps its bytes in place. *)
LEMMA BytesMoved ==
  ASSUME TypeOK, StatsType, Entered, BytesInPlace, NEW c \in Conns, NEW w \in Ways,
         conn[c].st = "relay", Only(c), Keeps(c, {w}), UNCHANGED stats,
         Moved(c, w, conn[c][w], conn'[c][w])
  PROVE  BytesInPlace'
<1> DEFINE v == conn[c][w]
           u == conn'[c][w]
           shown == stats[conn[c].action].inner[conn[c].idx][w]
<1>1. v \in WayType /\ Chunk \in Nat /\ shown \in Nat /\ WayOK(v, shown)
  <2>1. conn[c].action \in Clients /\ InRelay(c)
    BY DEF TypeOK, Chosen, InRelay
  <2>2. stats[conn[c].action].inner[conn[c].idx] \in EntryType
    BY <2>1 DEF Entered, StatsType
  <2> QED BY <2>1, <2>2, WayTyped, RelayAssumption DEF BytesInPlace, EntryType, Ways
<1>2. /\ conn'[c].st = "relay" /\ conn'[c].action = conn[c].action /\ conn'[c].idx = conn[c].idx
      /\ \A x \in Ways : x # w => conn'[c][x] = conn[c][x]
  BY DEF Keeps, Fields, Ways
<1>3. WayOK(u, shown)
  <2> HIDE DEF v, u, shown
  <2>0. Moved(c, w, v, u)
    BY DEF v, u
  <2>1. CASE v.pc = "addr" /\ u = [v EXCEPT !.pc = "read"]
    BY <1>1, <2>1 DEF WayOK, WayType
  <2>2. ASSUME NEW n \in 1..Chunk, v.pc = "read", v.read + n <= v.made,
               u = [v EXCEPT !.pc = "write", !.read = @ + n, !.size = n]
        PROVE  WayOK(u, shown)
    <3>1. /\ u.pc = "write" /\ u.read = v.read + n /\ u.size = n /\ u.out = v.out
          /\ u.made = v.made
      BY <1>1, <2>2 DEF WayType
    <3>2. /\ v.read \in Nat /\ v.out \in Nat /\ v.made \in Nat /\ n \in Nat /\ n > 0 /\ n <= Chunk
      BY <1>1 DEF WayType
    <3> QED BY <1>1, <2>2, <3>1, <3>2 DEF WayOK
  <2>3. ASSUME v.pc = "write",
               u = [v EXCEPT !.out = @ + 1, !.pc = IF v.out + 1 = v.read THEN "count" ELSE @]
        PROVE  WayOK(u, shown)
    <3>1. /\ u.pc = IF v.out + 1 = v.read THEN "count" ELSE "write"
          /\ u.read = v.read /\ u.size = v.size /\ u.out = v.out + 1 /\ u.made = v.made
      BY <1>1, <2>3 DEF WayType
    <3>2. v.read \in Nat /\ v.out \in Nat /\ v.made \in Nat /\ v.size \in Nat
      BY <1>1 DEF WayType
    <3> QED BY <1>1, <2>3, <3>1, <3>2 DEF WayOK
  <2>4. ASSUME u = [v EXCEPT !.made = @ + 1] PROVE WayOK(u, shown)
    <3>1. /\ u.pc = v.pc /\ u.read = v.read /\ u.size = v.size /\ u.out = v.out
          /\ u.made = v.made + 1
      BY <1>1, <2>4 DEF WayType
    <3>2. v.read \in Nat /\ v.made \in Nat
      BY <1>1 DEF WayType
    <3> QED BY <1>1, <3>1, <3>2 DEF WayOK
  <2> QED BY <2>0, <2>1, <2>2, <2>3, <2>4 DEF Moved
<1>4. Conns' = Conns /\ \A d \in Conns : d # c => conn'[d] = conn[d]
  BY DEF Only, Conns
<1>5. InRelay(c)
  BY DEF InRelay
<1>6. ASSUME NEW d \in Conns, NEW x \in Ways, InRelay(d)'
      PROVE  WayOK(conn'[d][x], stats'[conn'[d].action].inner[conn'[d].idx][x])
  <2>1. CASE d = c /\ x = w
    BY <1>2, <1>3, <2>1
  <2>2. CASE d = c /\ x # w
    BY <1>2, <1>5, <2>2 DEF BytesInPlace
  <2>3. CASE d # c
    BY <1>4, <1>6, <2>3 DEF BytesInPlace, InRelay
  <2> QED BY <2>1, <2>2, <2>3
<1> QED BY <1>4, <1>6 DEF BytesInPlace


(* add_connection: the entry is new, and nobody else's. *)
LEMMA StatsConnect ==
  ASSUME TypeOK, Statistics, NEW c \in Conns, Connect(c)
  PROVE  /\ Only(c) /\ Statistics'
         /\ conn[c].st = "connect" /\ conn'[c].st = "relay"
         /\ Keeps(c, {"st", "idx", "up", "down"})
<1> DEFINE h == conn[c]
           cl == conn[c].action
           n == stats[cl].counter
           inner == stats[cl].inner
           entry == [addr |-> h.addr, open |-> TRUE, up |-> 0, down |-> 0]
           first == Way(IF h.action = "Proxy" THEN "addr" ELSE "read")
<1>0. /\ HandlerOK(h) /\ Chosen(h) /\ h.st = "connect" /\ cl \in Clients
      /\ n \in Nat /\ DOMAIN stats = Clients
      /\ \A i \in DOMAIN inner : i \in Nat /\ i < n /\ inner[i] \in EntryType
  BY DEF TypeOK, Connect, Chosen, Statistics, StatsType
<1>1. conn'[c] = [h EXCEPT !.st = "relay", !.idx = n, !.down = Way("read"), !.up = first]
  BY SetEffect DEF Connect
<1>2. /\ HandlerOK(conn'[c]) /\ Chosen(conn'[c]) /\ Keeps(c, {"st", "idx", "up", "down"})
      /\ conn'[c].st = "relay" /\ conn'[c].idx = n /\ conn'[c].action = cl /\ conn'[c].addr = h.addr
      /\ conn'[c].up = first /\ conn'[c].down = Way("read")
  <2>1. first \in WayType /\ Way("read") \in WayType
    BY DEF Way, WayType
  <2> HIDE DEF first, n
  <2> QED BY <1>0, <1>1, <2>1 DEF HandlerOK, Chosen, Keeps, Fields, States
<1>3. Only(c) /\ Conns' = Conns /\ \A d \in Conns : d # c => conn'[d] = conn[d]
  BY <1>2, SetEffect DEF Connect, Only
<1>4. /\ DOMAIN stats' = Clients
      /\ \A x \in Clients : x # cl => stats'[x] = stats[x]
      /\ stats'[cl] = [counter |-> n + 1, inner |-> Put(inner, n, entry)]
  BY <1>0 DEF Connect
<1>5. /\ DOMAIN stats'[cl] = {"counter", "inner"} /\ stats'[cl].counter = n + 1
      /\ DOMAIN stats'[cl].inner = DOMAIN inner \cup {n}
      /\ stats'[cl].inner[n] = entry
      /\ \A i \in DOMAIN inner : stats'[cl].inner[i] = inner[i]
  BY SMTT(60), <1>0, <1>4 DEF Put
<1>6. entry \in EntryType /\ entry.open /\ entry.addr = h.addr /\ \A w \in Ways : entry[w] = 0
  BY <1>0 DEF EntryType, HandlerOK, Ways
<1> HIDE DEF n, inner, entry, cl, first
<1>7. StatsType'
  BY <1>0, <1>4, <1>5, <1>6 DEF Statistics, StatsType, inner, n
<1>8. ~InRelay(c) /\ InRelay(c)' /\ \A d \in Conns : d # c => (InRelay(d)' <=> InRelay(d))
  BY <1>0, <1>2, <1>3 DEF InRelay
<1>9. ASSUME NEW d \in Conns, InRelay(d)
      PROVE  /\ d # c /\ conn'[d] = conn[d] /\ conn[d].action \in Clients
             /\ conn[d].idx \in DOMAIN stats[conn[d].action].inner
             /\ conn[d].idx \in DOMAIN stats'[conn[d].action].inner
             /\ stats'[conn[d].action].inner[conn[d].idx] = stats[conn[d].action].inner[conn[d].idx]
             /\ conn[d].action = cl => conn[d].idx # n
  <2>1. d # c /\ conn'[d] = conn[d] /\ conn[d].action \in Clients
    BY <1>3, <1>8, <1>9 DEF TypeOK, Chosen, InRelay
  <2>2. conn[d].idx \in DOMAIN stats[conn[d].action].inner
    BY <1>9 DEF Statistics, Entered
  <2> QED BY <1>0, <1>4, <1>5, <2>1, <2>2 DEF inner
<1>10. Entered'
  <2>1. \A d \in Conns : InRelay(d)' =>
       /\ conn'[d].idx \in DOMAIN stats'[conn'[d].action].inner
       /\ stats'[conn'[d].action].inner[conn'[d].idx].open
       /\ stats'[conn'[d].action].inner[conn'[d].idx].addr = conn'[d].addr
    <3> SUFFICES ASSUME NEW d \in Conns, InRelay(d)'
                 PROVE /\ conn'[d].idx \in DOMAIN stats'[conn'[d].action].inner
                       /\ stats'[conn'[d].action].inner[conn'[d].idx].open
                       /\ stats'[conn'[d].action].inner[conn'[d].idx].addr = conn'[d].addr
      OBVIOUS
    <3>1. CASE d = c
      BY <1>2, <1>5, <1>6, <3>1
    <3>2. CASE d # c
      BY SMTT(60), <1>8, <1>9, <3>2 DEF Statistics, Entered
    <3> QED BY <3>1, <3>2
  <2>2. \A x \in Clients : \A i \in DOMAIN stats'[x].inner : stats'[x].inner[i].open =>
          \E d \in Conns : InRelay(d)' /\ conn'[d].action = x /\ conn'[d].idx = i
    <3> SUFFICES ASSUME NEW x \in Clients, NEW i \in DOMAIN stats'[x].inner, stats'[x].inner[i].open
                 PROVE  \E d \in Conns : InRelay(d)' /\ conn'[d].action = x /\ conn'[d].idx = i
      OBVIOUS
    <3>1. CASE x = cl /\ i = n
      BY <1>2, <1>8, <3>1
    <3>2. CASE ~(x = cl /\ i = n)
      <4>1. i \in DOMAIN stats[x].inner /\ stats[x].inner[i].open
        BY <1>4, <1>5, <3>2 DEF inner
      <4>2. PICK d \in Conns : InRelay(d) /\ conn[d].action = x /\ conn[d].idx = i
        BY <4>1 DEF Statistics, Entered
      <4> QED BY <1>8, <1>9, <4>2
    <3> QED BY <3>1, <3>2
  <2>3. \A d, e \in Conns : InRelay(d)' /\ InRelay(e)' /\ conn'[d].action = conn'[e].action
                            /\ conn'[d].idx = conn'[e].idx => d = e
    BY <1>2, <1>8, <1>9 DEF Statistics, Entered
  <2> QED BY <1>3, <2>1, <2>2, <2>3 DEF Entered
<1>11. BytesInPlace'
  <2>1. ASSUME NEW d \in Conns, NEW w \in Ways, InRelay(d)'
        PROVE  WayOK(conn'[d][w], stats'[conn'[d].action].inner[conn'[d].idx][w])
    <3>1. CASE d = c
      <4>1. WayOK(first, 0) /\ WayOK(Way("read"), 0)
        BY DEF WayOK, Way, first
      <4> QED BY <1>2, <1>5, <1>6, <3>1, <4>1 DEF Ways
    <3>2. CASE d # c
      BY <1>8, <1>9, <2>1, <3>2 DEF Statistics, BytesInPlace
    <3> QED BY <3>1, <3>2
  <2> QED BY <1>3, <2>1 DEF BytesInPlace
<1> QED BY <1>0, <1>2, <1>3, <1>7, <1>10, <1>11 DEF Statistics

SetsField(a, i, f, v) == stats' = [stats EXCEPT ![a].inner[i][f] = v]

(* What writing one field of one entry does. *)
LEMMA EntryEffect ==
  ASSUME StatsType, NEW a \in Clients, NEW i \in DOMAIN stats[a].inner,
         NEW f \in {"open", "up", "down"}, NEW v, f = "open" => v \in BOOLEAN, f # "open" => v \in Nat,
         SetsField(a, i, f, v)
  PROVE  /\ StatsType'
         /\ \A x \in Clients : DOMAIN stats'[x].inner = DOMAIN stats[x].inner
         /\ \A x \in Clients : \A j \in DOMAIN stats[x].inner :
              ~(x = a /\ j = i) => stats'[x].inner[j] = stats[x].inner[j]
         /\ stats'[a].inner[i][f] = v
         /\ \A g \in {"addr", "open", "up", "down"} :
              g # f => stats'[a].inner[i][g] = stats[a].inner[i][g]
<1> DEFINE e == stats[a].inner[i]
<1>0. /\ DOMAIN stats = Clients /\ DOMAIN stats[a] = {"counter", "inner"} /\ e \in EntryType
      /\ DOMAIN e = {"addr", "open", "up", "down"}
  BY DEF StatsType, EntryType
<1>1. /\ DOMAIN stats' = Clients /\ \A x \in Clients : x # a => stats'[x] = stats[x]
      /\ stats'[a] = [stats[a] EXCEPT !.inner[i][f] = v]
  BY <1>0 DEF SetsField
<1>2. /\ DOMAIN stats'[a] = {"counter", "inner"} /\ stats'[a].counter = stats[a].counter
      /\ stats'[a].inner = [stats[a].inner EXCEPT ![i][f] = v]
  BY <1>0, <1>1
<1>3. /\ DOMAIN stats'[a].inner = DOMAIN stats[a].inner
      /\ \A j \in DOMAIN stats[a].inner : j # i => stats'[a].inner[j] = stats[a].inner[j]
      /\ stats'[a].inner[i] = [e EXCEPT ![f] = v]
  BY <1>2
<1> HIDE DEF e
<1>4. stats'[a].inner[i] \in EntryType
  <2>1. CASE f = "open"
    BY <1>0, <1>3, <2>1 DEF EntryType
  <2>2. CASE f = "up"
    BY <1>0, <1>3, <2>2 DEF EntryType
  <2>3. CASE f = "down"
    BY <1>0, <1>3, <2>3 DEF EntryType
  <2> QED BY <2>1, <2>2, <2>3
<1>5. StatsType'
  <2>1. ASSUME NEW x \in Clients
        PROVE  /\ DOMAIN stats'[x] = {"counter", "inner"}
               /\ stats'[x].counter \in Nat
               /\ \A j \in DOMAIN stats'[x].inner :
                    j \in Nat /\ j < stats'[x].counter /\ stats'[x].inner[j] \in EntryType
    <3>1. CASE x = a
      BY <1>2, <1>3, <1>4, <3>1 DEF StatsType
    <3>2. CASE x # a
      BY <1>1, <3>2 DEF StatsType
    <3> QED BY <3>1, <3>2
  <2> QED BY <1>1, <2>1 DEF StatsType
<1>6. /\ stats'[a].inner[i][f] = v
      /\ \A g \in {"addr", "open", "up", "down"} : g # f => stats'[a].inner[i][g] = e[g]
  BY <1>0, <1>3
<1> QED BY <1>1, <1>3, <1>5, <1>6 DEF e

(* update_connection_stats: the entry is still there, and shows the bytes  *)
(* of the buffer that has been written.                                    *)
LEMMA StatsCount ==
  ASSUME TypeOK, Statistics, NEW c \in Conns, NEW w \in Ways, Count(c, w)
  PROVE  Only(c) /\ Keeps(c, {w}) /\ conn[c].st = "relay" /\ Statistics'
<1> DEFINE h == conn[c]
           v == conn[c][w]
           cl == conn[c].action
           i == conn[c].idx
           shown == stats[cl].inner[i][w]
<1>0. /\ h.st = "relay" /\ InRelay(c) /\ v.pc = "count" /\ v \in WayType /\ cl \in Clients
      /\ i \in DOMAIN stats[cl].inner
  BY WayTyped DEF Count, Relaying, InRelay, TypeOK, Chosen, Statistics, Entered
<1>1. stats[cl].inner[i] \in EntryType /\ shown \in Nat /\ WayOK(v, shown)
  BY <1>0 DEF Statistics, StatsType, EntryType, BytesInPlace, Ways
<1>2. PICK k \in Nat : k = shown + v.size
  <2>1. v.size \in Nat
    BY <1>0 DEF WayType
  <2> HIDE DEF shown, v
  <2>2. \A m \in Nat, n \in Nat : m + n \in Nat
    OBVIOUS
  <2> QED BY <1>1, <2>1, <2>2, Zenon
<1>3. SetsField(cl, i, w, k)
  BY <1>0, <1>2 DEF Count, SetsField
<1>4. /\ StatsType'
      /\ \A x \in Clients : DOMAIN stats'[x].inner = DOMAIN stats[x].inner
      /\ \A x \in Clients : \A j \in DOMAIN stats[x].inner :
            ~(x = cl /\ j = i) => stats'[x].inner[j] = stats[x].inner[j]
      /\ stats'[cl].inner[i][w] = k
      /\ \A g \in {"addr", "open", "up", "down"} :
            g # w => stats'[cl].inner[i][g] = stats[cl].inner[i][g]
  <2>1. w \in {"open", "up", "down"} /\ w # "open"
    BY DEF Ways
  <2> HIDE DEF cl, i
  <2> QED BY <1>0, <1>3, <2>1, EntryEffect DEF Statistics
<1>5. [v EXCEPT !.pc = "read"] \in WayType /\ scenario' = scenario
      /\ Set(c, [h EXCEPT ![w] = [v EXCEPT !.pc = "read"]])
  BY <1>0 DEF WayType, Count
<1>6. Only(c) /\ Keeps(c, {w}) /\ conn'[c][w] = [v EXCEPT !.pc = "read"]
  BY <1>0, <1>5, WayStep
<1>7. /\ conn'[c].st = "relay" /\ conn'[c].action = cl /\ conn'[c].idx = i /\ conn'[c].addr = h.addr
      /\ \A x \in Ways : x # w => conn'[c][x] = h[x]
  BY <1>0, <1>6 DEF Keeps, Fields, Ways
<1>8. Conns' = Conns /\ (\A d \in Conns : d # c => conn'[d] = conn[d])
      /\ \A d \in Conns : InRelay(d)' <=> InRelay(d)
  BY <1>0, <1>6, <1>7 DEF Only, Conns, InRelay
<1>9. \A d \in Conns : InRelay(d) =>
        /\ conn'[d].action = conn[d].action /\ conn'[d].idx = conn[d].idx /\ conn'[d].addr = conn[d].addr
        /\ conn[d].action \in Clients /\ conn[d].idx \in DOMAIN stats[conn[d].action].inner
        /\ d # c => ~(conn[d].action = cl /\ conn[d].idx = i)
  BY <1>0, <1>7, <1>8 DEF TypeOK, Chosen, InRelay, Statistics, Entered
<1>10. \A x \in Clients : \A j \in DOMAIN stats[x].inner :
        /\ stats'[x].inner[j].open = stats[x].inner[j].open
        /\ stats'[x].inner[j].addr = stats[x].inner[j].addr
  BY <1>4 DEF Ways
<1> HIDE DEF v, shown, cl, i
<1>11. Entered'
  <2>1. ASSUME NEW d \in Conns, InRelay(d)'
        PROVE  /\ conn'[d].idx \in DOMAIN stats'[conn'[d].action].inner
               /\ stats'[conn'[d].action].inner[conn'[d].idx].open
               /\ stats'[conn'[d].action].inner[conn'[d].idx].addr = conn'[d].addr
    <3>1. InRelay(d)
      BY <1>8, <2>1
    <3>2. /\ stats[conn[d].action].inner[conn[d].idx].open
          /\ stats[conn[d].action].inner[conn[d].idx].addr = conn[d].addr
      BY <3>1 DEF Statistics, Entered
    <3>3. /\ conn'[d].action = conn[d].action /\ conn'[d].idx = conn[d].idx /\ conn'[d].addr = conn[d].addr
          /\ conn[d].action \in Clients /\ conn[d].idx \in DOMAIN stats[conn[d].action].inner
      BY <1>9, <3>1
    <3>4. /\ conn[d].idx \in DOMAIN stats'[conn[d].action].inner
          /\ stats'[conn[d].action].inner[conn[d].idx].open = stats[conn[d].action].inner[conn[d].idx].open
          /\ stats'[conn[d].action].inner[conn[d].idx].addr = stats[conn[d].action].inner[conn[d].idx].addr
      BY <1>4, <1>10, <3>3
    <3> QED BY <3>2, <3>3, <3>4
  <2>2. \A x \in Clients : \A j \in DOMAIN stats'[x].inner : stats'[x].inner[j].open =>
          \E d \in Conns : InRelay(d)' /\ conn'[d].action = x /\ conn'[d].idx = j
    BY <1>4, <1>8, <1>9, <1>10 DEF Statistics, Entered
  <2>3. \A d, e \in Conns : InRelay(d)' /\ InRelay(e)' /\ conn'[d].action = conn'[e].action
                            /\ conn'[d].idx = conn'[e].idx => d = e
    BY <1>8, <1>9 DEF Statistics, Entered
  <2> QED BY <1>8, <2>1, <2>2, <2>3 DEF Entered
<1>12. BytesInPlace'
  <2>1. ASSUME NEW d \in Conns, NEW x \in Ways, InRelay(d)'
        PROVE  WayOK(conn'[d][x], stats'[conn'[d].action].inner[conn'[d].idx][x])
    <3>1. CASE d = c /\ x = w
      <4>1. PICK u : u = [v EXCEPT !.pc = "read"] /\ conn'[c][w] = u
        BY <1>6
      <4>2. /\ u.pc = "read" /\ u.read = v.read /\ u.out = v.out /\ u.made = v.made
            /\ v.read = k /\ v.out = v.read /\ v.read <= v.made
        BY <1>0, <1>1, <1>2, <4>1 DEF WayType, WayOK
      <4>3. WayOK(u, k)
        BY <4>2 DEF WayOK
      <4> QED BY <1>4, <1>7, <3>1, <4>1, <4>3
    <3>2. CASE d = c /\ x # w
      <4>1. stats'[cl].inner[i][x] = stats[cl].inner[i][x] /\ conn'[c][x] = conn[c][x]
        BY <1>4, <1>7, <3>2 DEF Ways
      <4> QED BY <1>0, <1>7, <3>2, <4>1 DEF Statistics, BytesInPlace, cl, i
    <3>3. CASE d # c
      <4>1. InRelay(d) /\ conn'[d] = conn[d]
        BY <1>8, <2>1, <3>3
      <4>2. stats'[conn[d].action].inner[conn[d].idx] = stats[conn[d].action].inner[conn[d].idx]
        BY <1>4, <1>9, <3>3, <4>1
      <4> QED BY <4>1, <4>2 DEF Statistics, BytesInPlace
    <3> QED BY <3>1, <3>2, <3>3
  <2> QED BY <1>8, <2>1 DEF BytesInPlace
<1> QED BY <1>0, <1>4, <1>6, <1>11, <1>12 DEF Statistics

(* The end of a relay closes its entry and no other. *)
LEMMA StatsClose ==
  ASSUME TypeOK, Statistics, NEW c \in Conns, Close(c)
  PROVE  /\ Only(c) /\ Statistics'
         /\ conn[c].st = "close" /\ conn'[c].st = "remove" /\ Keeps(c, {"st", "up", "down"})
<1> DEFINE h == conn[c]
           cl == conn[c].action
           i == conn[c].idx
<1>0. /\ HandlerOK(h) /\ Chosen(h) /\ h.st = "close" /\ InRelay(c) /\ cl \in Clients
      /\ i \in DOMAIN stats[cl].inner
  BY DEF Close, InRelay, TypeOK, Chosen, Statistics, Entered
<1>1. conn'[c] = [h EXCEPT !.st = "remove", !.up = Way("off"), !.down = Way("off")]
  BY SetEffect DEF Close
<1>2. /\ HandlerOK(conn'[c]) /\ Chosen(conn'[c]) /\ conn'[c].st = "remove"
      /\ Keeps(c, {"st", "up", "down"})
  <2>1. Way("off") \in WayType
    BY DEF Way, WayType
  <2> QED BY <1>0, <1>1, <2>1 DEF HandlerOK, Chosen, Keeps, Fields, States
<1>3. Only(c) /\ Conns' = Conns /\ \A d \in Conns : d # c => conn'[d] = conn[d]
  BY <1>2, SetEffect DEF Close, Only
<1>4. SetsField(cl, i, "open", FALSE)
  BY <1>0 DEF Close, SetsField
<1>5. /\ StatsType'
      /\ \A x \in Clients : DOMAIN stats'[x].inner = DOMAIN stats[x].inner
      /\ \A x \in Clients : \A j \in DOMAIN stats[x].inner :
            ~(x = cl /\ j = i) => stats'[x].inner[j] = stats[x].inner[j]
      /\ stats'[cl].inner[i].open = FALSE
  <2>1. PICK f \in {"open", "up", "down"} : f = "open"
    OBVIOUS
  <2>2. PICK v \in BOOLEAN : v = FALSE
    OBVIOUS
  <2>3. SetsField(cl, i, f, v)
    BY <1>4, <2>1, <2>2
  <2> HIDE DEF cl, i
  <2>4. /\ StatsType'
        /\ \A x \in Clients : DOMAIN stats'[x].inner = DOMAIN stats[x].inner
        /\ \A x \in Clients : \A j \in DOMAIN stats[x].inner :
              ~(x = cl /\ j = i) => stats'[x].inner[j] = stats[x].inner[j]
        /\ stats'[cl].inner[i][f] = v
    BY <1>0, <2>1, <2>3, EntryEffect DEF Statistics
  <2> QED BY <2>1, <2>2, <2>4
<1>6. ~InRelay(c)' /\ \A d \in Conns : d # c => (InRelay(d)' <=> InRelay(d))
  BY <1>2, <1>3 DEF InRelay
<1>7. ASSUME NEW d \in Conns, InRelay(d)'
      PROVE  /\ d # c /\ InRelay(d) /\ conn'[d] = conn[d]
             /\ conn[d].idx \in DOMAIN stats'[conn[d].action].inner
             /\ stats'[conn[d].action].inner[conn[d].idx] = stats[conn[d].action].inner[conn[d].idx]
  <2>1. d # c /\ InRelay(d) /\ conn'[d] = conn[d] /\ conn[d].action \in Clients
    BY <1>3, <1>6, <1>7 DEF TypeOK, Chosen, InRelay
  <2>2. conn[d].idx \in DOMAIN stats[conn[d].action].inner /\ ~(conn[d].action = cl /\ conn[d].idx = i)
    BY <1>0, <2>1 DEF Statistics, Entered
  <2> QED BY <1>5, <2>1, <2>2
<1> HIDE DEF cl, i
<1>8. Entered'
  <2>1. \A d \in Conns : InRelay(d)' =>
       /\ conn'[d].idx \in DOMAIN stats'[conn'[d].action].inner
       /\ stats'[conn'[d].action].inner[conn'[d].idx].open
       /\ stats'[conn'[d].action].inner[conn'[d].idx].addr = conn'[d].addr
    BY <1>7 DEF Statistics, Entered
  <2>2. ASSUME NEW x \in Clients, NEW j \in DOMAIN stats'[x].inner, stats'[x].inner[j].open
        PROVE  \E d \in Conns : InRelay(d)' /\ conn'[d].action = x /\ conn'[d].idx = j
    <3>1. j \in DOMAIN stats[x].inner /\ ~(x = cl /\ j = i) /\ stats[x].inner[j].open
      BY <1>5, <2>2
    <3>2. PICK d \in Conns : InRelay(d) /\ conn[d].action = x /\ conn[d].idx = j
      BY <3>1 DEF Statistics, Entered
    <3>3. d # c
      BY <3>1, <3>2 DEF cl, i
    <3> QED BY <1>3, <1>6, <3>2, <3>3
  <2>3. \A d, e \in Conns : InRelay(d)' /\ InRelay(e)' /\ conn'[d].action = conn'[e].action
                            /\ conn'[d].idx = conn'[e].idx => d = e
    BY <1>7 DEF Statistics, Entered
  <2> QED BY <1>3, <2>1, <2>2, <2>3 DEF Entered
<1>9. BytesInPlace'
  BY <1>3, <1>7 DEF Statistics, BytesInPlace
<1> QED BY <1>0, <1>2, <1>3, <1>5, <1>8, <1>9 DEF Statistics

(* Recycling takes closed entries only, so no relay loses its own. *)
LEMMA StatsRecycle ==
  ASSUME TypeOK, Statistics, NEW cl \in Clients, RecycleStats(cl)
  PROVE  Statistics'
<1> DEFINE inner == stats[cl].inner
           open == {i \in DOMAIN inner : inner[i].open}
<1>1. /\ conn' = conn /\ Conns' = Conns /\ \A d \in Conns : InRelay(d)' <=> InRelay(d)
  BY DEF RecycleStats, Conns, InRelay
<1>2. /\ DOMAIN stats' = Clients /\ \A x \in Clients : x # cl => stats'[x] = stats[x]
      /\ DOMAIN stats'[cl] = {"counter", "inner"} /\ stats'[cl].counter = stats[cl].counter
      /\ stats'[cl].inner = [i \in open |-> inner[i]]
  BY DEF RecycleStats, Statistics, StatsType
<1>3. /\ \A i \in DOMAIN stats'[cl].inner : i \in DOMAIN inner /\ stats'[cl].inner[i] = inner[i]
      /\ \A i \in DOMAIN inner : inner[i].open => i \in DOMAIN stats'[cl].inner
  BY <1>2
<1> HIDE DEF open
<1>4. \A x \in Clients :
        /\ \A i \in DOMAIN stats'[x].inner :
             i \in DOMAIN stats[x].inner /\ stats'[x].inner[i] = stats[x].inner[i]
        /\ \A i \in DOMAIN stats[x].inner : stats[x].inner[i].open => i \in DOMAIN stats'[x].inner
  BY <1>2, <1>3
<1>5. StatsType'
  BY <1>2, <1>4 DEF Statistics, StatsType
<1>6. ASSUME NEW d \in Conns, InRelay(d)
      PROVE  /\ conn[d].action \in Clients
             /\ conn[d].idx \in DOMAIN stats'[conn[d].action].inner
             /\ stats'[conn[d].action].inner[conn[d].idx] = stats[conn[d].action].inner[conn[d].idx]
  BY <1>4, <1>6 DEF TypeOK, Chosen, InRelay, Statistics, Entered
<1>7. Entered'
  BY <1>1, <1>4, <1>6 DEF Statistics, Entered
<1>8. BytesInPlace'
  BY <1>1, <1>6 DEF Statistics, BytesInPlace
<1> QED BY <1>5, <1>7, <1>8 DEF Statistics

-----------------------------------------------------------------------------
(* Probes *)

(* Steps that neither begin nor end a wait for a probe. *)
Apart(c) ==
  /\ Only(c)
  /\ UNCHANGED <<probe, now, probed>>
  /\ \/ conn'[c].st = conn[c].st
     \/ conn[c].st \notin {"probe", "probing"} /\ conn'[c].st # "probing"

(* Every step but the three of probe_connectivity is of this kind. *)
LEMMA ApartStep ==
  ASSUME TypeOK, Listed, Statistics, NEW c \in Conns,
         Accept(c) \/ Handle(c) \/ UdpReader(c) \/ Peers(c),
         ~ProbeCached(c), ~ProbeStart(c), ~ProbeEnd(c)
  PROVE  Apart(c)
<1>1. CASE Accept(c) \/ Dispatch(c) \/ HandleUdp(c) \/ UdpEnd(c)
  <2>1. Only(c)
    BY <1>1, OutsideStep DEF Outside
  <2>2. PICK h : /\ Set(c, h) /\ UNCHANGED <<scenario, probe, now, probed>>
                 /\ conn[c].st \in {"new", "dispatch", "handle", "udp"}
                 /\ h.st # "probing"
    <3> DEFINE g == conn[c]
    <3>0. HandlerOK(g)
      BY DEF TypeOK
    <3>1. CASE Accept(c)
      <4>1. \A x, y : [Handler("dispatch") EXCEPT !.kind = x, !.addr = y].st # "probing"
        BY DEF Handler
      <4> QED BY <3>1, <4>1 DEF Accept
    <3>2. CASE Dispatch(c)
      <4>1. \A a : [g EXCEPT !.action = a, !.st = IF a = "Probe" THEN "probe" ELSE "handle"].st # "probing"
        BY <3>0 DEF HandlerOK, Fields
      <4>2. [g EXCEPT !.st = "done", !.ret = "Err"].st # "probing"
        BY <3>0 DEF HandlerOK, Fields
      <4> QED BY ZenonT(60), <3>2, <4>1, <4>2 DEF Dispatch
    <3>3. CASE HandleUdp(c) \/ UdpEnd(c)
      <4>1. \A r : [g EXCEPT !.st = "done", !.ret = r].st # "probing"
        BY <3>0 DEF HandlerOK, Fields
      <4>2. [g EXCEPT !.st = "udp"].st # "probing"
        BY <3>0 DEF HandlerOK, Fields
      <4> QED BY <3>3, <4>1, <4>2 DEF HandleUdp, UdpEnd
    <3> QED BY <1>1, <3>1, <3>2, <3>3
  <2>3. conn'[c] = h
    BY <2>2, SetEffect
  <2> QED BY <2>1, <2>2, <2>3 DEF Apart
<1>2. CASE UdpReader(c) \/ UdpSend(c) \/ \E k \in DOMAIN conn[c].socks : UdpAnswer(c, k)
  BY <1>2, DatagramStep DEF Apart, Keeps, Fields
<1>3. ASSUME NEW w \in Ways, (w = "up" /\ SendAddr(c)) \/ Read(c, w) \/ Write(c, w) \/ Make(c, w)
      PROVE  Apart(c)
  BY <1>3, MoveStep DEF Apart, Keeps, Fields, Ways
<1>4. CASE ConnectFails(c) \/ \E w \in Ways : ReadEof(c, w) \/ RelayFails(c, w)
  BY <1>4, EndStep DEF Apart
<1>5. CASE HandleTcp(c)
  BY <1>5, ListedHandleTcp DEF Apart, HandleTcp
<1>6. CASE HandleTcpEnd(c)
  BY <1>6, ListedHandleTcpEnd DEF Apart, HandleTcpEnd
<1>7. CASE Connect(c)
  BY <1>7, StatsConnect DEF Apart, Connect
<1>8. ASSUME NEW w \in Ways, Count(c, w) PROVE Apart(c)
  BY <1>8, StatsCount DEF Apart, Count, Keeps, Fields, Ways
<1>9. CASE Close(c)
  BY <1>9, StatsClose DEF Apart, Close
<1> QED BY <1>1, <1>2, <1>3, <1>4, <1>5, <1>6, <1>7, <1>8, <1>9 DEF Handle, Peers, Ways

(* Such a step keeps lock and cache as they are. *)
LEMMA ProbesKept ==
  ASSUME TypeOK, Probes, NEW c \in Conns, Apart(c)
  PROVE  Probes'
BY DEF Apart, Only, Probes, Conns

(* Time makes results too old, never good again. *)
LEMMA ProbesTick == ASSUME TypeOK, Probes, Tick PROVE Probes'
BY RelayAssumption DEF TypeOK, Probes, Tick, Conns

(* Who starts a probe is the only one, and found no good result. *)
LEMMA ProbesStart ==
  ASSUME TypeOK, Probes, NEW c \in Conns, ProbeStart(c)
  PROVE  /\ Probes' /\ Only(c) /\ conn[c].st = "probe" /\ conn'[c].st = "probing"
         /\ \A d \in Conns : conn[d].st # "probing"
         /\ conn[c].addr \in DOMAIN probed => now >= probed[conn[c].addr].at + ProbeTtl
<1> DEFINE a == conn[c].addr
<1>1. HandlerOK(conn[c]) /\ conn'[c] = [conn[c] EXCEPT !.st = "probing"]
  BY SetEffect DEF ProbeStart, TypeOK
<1>2. Only(c) /\ conn[c].st = "probe" /\ conn'[c].st = "probing" /\ Conns' = Conns
  BY <1>1, OutsideStep DEF Outside, ProbeStart, HandlerOK, Fields, Conns
<1>3. 0 \notin Conns
  <2>1. scenario.arrivals \in Seq([kind : {"tcp", "udp"}, addr : Addresses])
    BY RelayAssumption DEF TypeOK
  <2> QED BY <2>1 DEF Conns
<1>4. \A d \in Conns : conn[d].st # "probing"
  BY <1>3 DEF Probes, ProbeStart
<1>5. /\ probe'.lock = c /\ DOMAIN probe'.cache = DOMAIN probe.cache \ {a}
      /\ \A x \in DOMAIN probe'.cache : probe'.cache[x] = probe.cache[x]
      /\ probed' = probed /\ now' = now
  BY DEF ProbeStart, Without
<1>6. a \in DOMAIN probed => now >= probed[a].at + ProbeTtl
  <2>1. a \notin DOMAIN probe.cache \/ ~(probe.cache[a].expire > now)
    BY DEF ProbeStart, Good
  <2>2. CASE a \notin DOMAIN probe.cache
    BY <2>2 DEF Probes
  <2>3. CASE a \in DOMAIN probe.cache /\ ~(probe.cache[a].expire > now)
    BY <2>3, RelayAssumption DEF Probes, TypeOK
  <2> QED BY <2>1, <2>2, <2>3
<1>7. Probes'
  BY <1>2, <1>3, <1>4, <1>5, <1>6 DEF Probes, Only
<1> QED BY <1>2, <1>4, <1>6, <1>7

(* A probe that ends leaves its result in the cache, and goes by it. *)
LEMMA ProbesEnd ==
  ASSUME TypeOK, Probes, NEW c \in Conns, ProbeEnd(c)
  PROVE  /\ Probes' /\ Only(c) /\ conn[c].st = "probing" /\ conn'[c].st = "handle"
         /\ conn[c].addr \in DOMAIN probed' /\ now < probed'[conn[c].addr].at + ProbeTtl
         /\ conn'[c].action = IF probed'[conn[c].addr].ok THEN "Direct" ELSE "Proxy"
<1> DEFINE a == conn[c].addr
<1>1. PICK ok \in BOOLEAN :
        /\ Set(c, Probed(conn[c], ok))
        /\ probe' = [lock |-> 0,
                     cache |-> Put(probe.cache, a, [connectable |-> ok, expire |-> now + ProbeTtl])]
        /\ probed' = Put(probed, a, [ok |-> ok, at |-> now])
  BY DEF ProbeEnd
<1>2. HandlerOK(conn[c]) /\ conn'[c] = Probed(conn[c], ok) /\ scenario' = scenario
  BY <1>1, SetEffect DEF ProbeEnd, TypeOK
<1>3. /\ conn[c].st = "probing" /\ conn'[c].st = "handle"
      /\ conn'[c].action = IF ok THEN "Direct" ELSE "Proxy"
  BY <1>2 DEF ProbeEnd, Probed, HandlerOK, Fields
<1>4. Only(c) /\ Conns' = Conns
  BY <1>2, OutsideStep DEF Outside, Conns
<1>5. /\ probe'.lock = 0 /\ DOMAIN probe'.cache = DOMAIN probe.cache \cup {a}
      /\ probe'.cache[a].connectable = ok /\ probe'.cache[a].expire = now + ProbeTtl
      /\ \A x \in DOMAIN probe.cache : x # a => probe'.cache[x] = probe.cache[x]
  BY <1>1 DEF Put
<1>6. /\ DOMAIN probed' = DOMAIN probed \cup {a} /\ probed'[a].ok = ok /\ probed'[a].at = now
      /\ \A x \in DOMAIN probed : x # a => probed'[x] = probed[x]
  BY <1>1 DEF Put
<1>7. now' = now /\ now \in Nat /\ ProbeTtl \in Nat /\ ProbeTtl > 0
  BY RelayAssumption DEF ProbeEnd, TypeOK
<1> HIDE DEF a
<1>8. \A d \in Conns : conn'[d].st # "probing"
  BY <1>3, <1>4 DEF Probes, Only
<1>9. Probes'
  BY <1>4, <1>5, <1>6, <1>7, <1>8 DEF Probes
<1> QED BY <1>3, <1>4, <1>6, <1>7, <1>9 DEF a

(* Who finds a good result goes by it. *)
LEMMA ProbesCached ==
  ASSUME TypeOK, Probes, NEW c \in Conns, ProbeCached(c)
  PROVE  /\ Probes' /\ Only(c) /\ conn[c].st = "probe" /\ conn'[c].st = "handle"
         /\ conn[c].addr \in DOMAIN probed' /\ now < probed'[conn[c].addr].at + ProbeTtl
         /\ conn'[c].action = IF probed'[conn[c].addr].ok THEN "Direct" ELSE "Proxy"
<1> DEFINE a == conn[c].addr
<1>1. /\ HandlerOK(conn[c]) /\ conn'[c] = Probed(conn[c], probe.cache[a].connectable)
      /\ conn[c].st = "probe" /\ UNCHANGED <<scenario, probe, now, probed>>
  BY SetEffect DEF ProbeCached, TypeOK
<1>2. /\ conn'[c].st = "handle"
      /\ conn'[c].action = IF probe.cache[a].connectable THEN "Direct" ELSE "Proxy"
  BY <1>1 DEF Probed, HandlerOK, Fields
<1>3. Only(c) /\ Conns' = Conns
  BY <1>1, OutsideStep DEF Outside, Conns
<1>4. /\ a \in DOMAIN probe.cache /\ probe.cache[a].expire > now
      /\ now \in Nat /\ ProbeTtl \in Nat
  BY RelayAssumption DEF ProbeCached, Good, TypeOK
<1>5. /\ a \in DOMAIN probed /\ probed[a].at \in Nat /\ probe.cache[a].expire = probed[a].at + ProbeTtl
      /\ probe.cache[a].connectable = probed[a].ok
  BY <1>4 DEF Probes
<1>6. Probes'
  BY <1>1, <1>2, <1>3 DEF Probes, Only
<1> QED BY <1>1, <1>2, <1>3, <1>4, <1>5, <1>6

-----------------------------------------------------------------------------
(* The end of a relay *)

(* Steps that do not end a relay keep what ended ones have passed on. *)
LEMMA EndKept ==
  ASSUME TypeOK, EndPassesAllOn, NEW c \in Conns, Only(c),
         conn'[c].st = "close" => conn[c].st = "close" /\ Keeps(c, {"socks", "got"})
  PROVE  EndPassesAllOn'
<1>1. Conns' = Conns /\ \A d \in Conns : d # c => conn'[d] = conn[d]
  BY DEF Only, Conns
<1>2. conn'[c].st = "close" => /\ conn[c].st = "close" /\ conn'[c].ret = conn[c].ret
                              /\ \A w \in Ways : conn'[c][w] = conn[c][w]
  BY DEF Keeps, Fields, Ways
<1> QED BY <1>1, <1>2 DEF EndPassesAllOn

(* ReadEof sees the end only when the bytes read are written. *)
LEMMA EndReached ==
  ASSUME TypeOK, Statistics, EndPassesAllOn, NEW c \in Conns,
         ConnectFails(c) \/ \E w \in Ways : ReadEof(c, w) \/ RelayFails(c, w)
  PROVE  EndPassesAllOn'
<1>1. /\ Only(c) /\ Keeps(c, {"st", "ret"})
      /\ \/ conn[c].st = "connect" /\ conn'[c].st = "remove"
         \/ conn[c].st = "relay" /\ conn'[c].st = "close"
      /\ conn'[c].ret \in Ways => Relaying(c, conn'[c].ret, "read")
                                  /\ conn[c][conn'[c].ret].read = conn[c][conn'[c].ret].made
  BY EndStep
<1>2. Conns' = Conns /\ \A d \in Conns : d # c => conn'[d] = conn[d]
  BY <1>1 DEF Only, Conns
<1>3. ASSUME NEW w \in Ways, conn'[c].st = "close", conn'[c].ret = w
      PROVE  conn'[c][w].out = conn'[c][w].made
  <2>1. conn'[c][w] = conn[c][w] /\ Relaying(c, w, "read") /\ conn[c][w].read = conn[c][w].made
    BY <1>1, <1>3 DEF Keeps, Fields, Ways
  <2>2. conn[c][w].out = conn[c][w].read
    BY <2>1 DEF Statistics, BytesInPlace, WayOK, Relaying, InRelay
  <2> QED BY <2>1, <2>2
<1> QED BY <1>2, <1>3 DEF EndPassesAllOn

-----------------------------------------------------------------------------
(* All together: one step per kind of action. *)
LEMMA InvStep == ASSUME IInv, [Next]_vars PROVE IInv'
<1> USE DEF IInv
<1>0. ASSUME NEW c \in Conns, Only(c), counter' \in Nat, now' \in Nat PROVE TypeOK'
  BY <1>0 DEF Only, TypeOK, Conns
<1>1. ASSUME NEW c \in Conns,
             \/ Accept(c) \/ Dispatch(c) \/ ProbeCached(c) \/ ProbeStart(c) \/ ProbeEnd(c)
             \/ HandleUdp(c) \/ UdpEnd(c)
      PROVE  IInv'
  <2>1. Outside(c)
    BY <1>1, OutsideStep
  <2>2. now' = now
    BY <1>1 DEF Accept, Dispatch, ProbeCached, ProbeStart, ProbeEnd, HandleUdp, UdpEnd
  <2>3. TypeOK'
    BY <1>0, <2>1, <2>2 DEF Outside, TypeOK
  <2>4. Listed'
    BY <2>1, ListedKept DEF Outside
  <2>5. ~InRelay(c) /\ ~InRelay(c)' /\ conn'[c].st # "close"
    BY <2>1 DEF Outside, InRelay, Handled
  <2>6. Statistics'
    <3>1. StatsType'
      BY <2>1 DEF Outside, Statistics, StatsType
    <3>2. Entered' /\ BytesInPlace'
      BY <2>1, <2>5, EnteredKept, BytesKept DEF Outside, Statistics
    <3> QED BY <3>1, <3>2 DEF Statistics
  <2>7. Probes'
    <3>1. CASE ~ProbeCached(c) /\ ~ProbeStart(c) /\ ~ProbeEnd(c)
      BY <1>1, <3>1, ApartStep, ProbesKept DEF Handle
    <3> QED BY <3>1, ProbesCached, ProbesStart, ProbesEnd
  <2>8. EndPassesAllOn'
    BY <2>1, <2>5, EndKept DEF Outside
  <2> QED BY <2>3, <2>4, <2>6, <2>7, <2>8
<1>2. ASSUME NEW c \in Conns,
             UdpReader(c) \/ UdpSend(c) \/ \E k \in DOMAIN conn[c].socks : UdpAnswer(c, k)
      PROVE  IInv'
  <2>1. /\ Only(c) /\ Keeps(c, {"socks", "got"})
        /\ UNCHANGED <<connections, counter, stats, probe, now, probed>>
    BY <1>2, DatagramStep
  <2>2. conn'[c].st = conn[c].st /\ (InRelay(c) <=> InRelay(c)')
    BY <2>1 DEF Keeps, Fields, InRelay
  <2>3. /\ Keeps(c, {"st", "ret", "up", "down", "idx", "socks", "got"})
        /\ Keeps(c, {"st", "ret", "up", "down", "index", "socks", "got"})
        /\ Keeps(c, {"st", "ret", "index", "socks", "got"})
    BY <2>1 DEF Keeps
  <2>4. TypeOK'
    BY <1>0, <2>1 DEF TypeOK
  <2>5. Listed'
    BY <2>1, <2>2, <2>3, ListedKept
  <2>6. Statistics'
    <3>1. StatsType'
      BY <2>1 DEF Statistics, StatsType
    <3>2. Entered' /\ BytesInPlace'
      BY <2>1, <2>2, <2>3, EnteredKept, BytesKept DEF Statistics
    <3> QED BY <3>1, <3>2 DEF Statistics
  <2>7. Probes'
    BY <2>1, <2>2, ProbesKept DEF Apart
  <2>8. EndPassesAllOn'
    BY <2>1, <2>2, EndKept
  <2> QED BY <2>4, <2>5, <2>6, <2>7, <2>8
<1>3. ASSUME NEW c \in Conns, NEW w \in Ways,
             (w = "up" /\ SendAddr(c)) \/ Read(c, w) \/ Write(c, w) \/ Make(c, w)
      PROVE  IInv'
  <2>1. /\ conn[c].st = "relay" /\ Only(c) /\ Keeps(c, {w})
        /\ Moved(c, w, conn[c][w], conn'[c][w])
        /\ UNCHANGED <<connections, counter, stats, probe, now, probed>>
    BY <1>3, MoveStep
  <2>2. conn'[c].st = "relay" /\ (InRelay(c) <=> InRelay(c)')
    BY <2>1 DEF Keeps, Fields, InRelay, Ways
  <2>3. /\ Keeps(c, {"st", "ret", "up", "down", "idx", "socks", "got"})
        /\ Keeps(c, {"st", "ret", "up", "down", "index", "socks", "got"})
    BY <2>1 DEF Keeps, Ways
  <2>4. TypeOK'
    BY <1>0, <2>1 DEF TypeOK
  <2>5. Listed'
    BY <2>1, <2>2, <2>3, ListedKept DEF Handled
  <2>6. Statistics'
    <3>1. StatsType'
      BY <2>1 DEF Statistics, StatsType
    <3>2. Entered' /\ BytesInPlace'
      BY <2>1, <2>2, <2>3, EnteredKept, BytesMoved DEF Statistics
    <3> QED BY <3>1, <3>2 DEF Statistics
  <2>7. Probes'
    BY <2>1, <2>2, ProbesKept DEF Apart
  <2>8. EndPassesAllOn'
    BY <2>1, <2>2, EndKept
  <2> QED BY <2>4, <2>5, <2>6, <2>7, <2>8
<1>4. ASSUME NEW c \in Conns,
             ConnectFails(c) \/ \E w \in Ways : ReadEof(c, w) \/ RelayFails(c, w)
      PROVE  IInv'
  <2>1. /\ Only(c) /\ Keeps(c, {"st", "ret"})
        /\ \/ conn[c].st = "connect" /\ conn'[c].st = "remove"
           \/ conn[c].st = "relay" /\ conn'[c].st = "close"
        /\ UNCHANGED <<connections, counter, stats, probe, now, probed>>
    BY <1>4, EndStep
  <2>2. InRelay(c) <=> InRelay(c)'
    BY <2>1 DEF InRelay
  <2>3. /\ Keeps(c, {"st", "ret", "up", "down", "idx", "socks", "got"})
        /\ Keeps(c, {"st", "ret", "up", "down", "index", "socks", "got"})
        /\ Keeps(c, {"st", "ret", "index", "socks", "got"})
    BY <2>1 DEF Keeps
  <2>4. TypeOK'
    BY <1>0, <2>1 DEF TypeOK
  <2>5. Listed'
    BY <2>1, <2>3, ListedKept DEF Handled
  <2>6. Statistics'
    <3>1. StatsType'
      BY <2>1 DEF Statistics, StatsType
    <3>2. Entered' /\ BytesInPlace'
      BY <2>1, <2>2, <2>3, EnteredKept, BytesKept DEF Statistics
    <3> QED BY <3>1, <3>2 DEF Statistics
  <2>7. Probes'
    BY <2>1, ProbesKept DEF Apart
  <2>8. EndPassesAllOn'
    BY <1>4, EndReached
  <2> QED BY <2>4, <2>5, <2>6, <2>7, <2>8
<1>5. ASSUME NEW c \in Conns, HandleTcp(c) \/ HandleTcpEnd(c) PROVE IInv'
  <2>1. /\ Only(c) /\ Listed'
        /\ conn[c].st \in {"handle", "remove"} /\ conn'[c].st \in {"connect", "remove", "done"}
    BY <1>5, ListedHandleTcp, ListedHandleTcpEnd DEF HandleTcpEnd
  <2>2. UNCHANGED <<stats, probe, now, probed>> /\ counter' \in Nat /\ now \in Nat
    BY <1>5 DEF HandleTcp, HandleTcpEnd, TypeOK
  <2>3. TypeOK'
    BY <1>0, <2>1, <2>2
  <2>4. ~InRelay(c) /\ ~InRelay(c)' /\ conn'[c].st # "close"
    BY <2>1 DEF InRelay
  <2>5. Statistics'
    <3>1. StatsType'
      BY <2>2 DEF Statistics, StatsType
    <3>2. Entered' /\ BytesInPlace'
      BY <2>1, <2>2, <2>4, EnteredKept, BytesKept DEF Statistics
    <3> QED BY <3>1, <3>2 DEF Statistics
  <2>6. Probes'
    BY <2>1, <2>2, ProbesKept DEF Apart
  <2>7. EndPassesAllOn'
    BY <2>1, <2>4, EndKept
  <2> QED BY <2>1, <2>3, <2>5, <2>6, <2>7
<1>6. ASSUME NEW c \in Conns, Connect(c) \/ Close(c) \/ \E w \in Ways : Count(c, w) PROVE IInv'
  <2>1. /\ Only(c) /\ Statistics' /\ Keeps(c, {"st", "idx", "up", "down"})
        /\ conn[c].st \in {"connect", "close", "relay"} /\ conn'[c].st \in {"remove", "relay"}
    <3>1. CASE Connect(c)
      BY <3>1, StatsConnect
    <3>2. CASE Close(c)
      BY <3>2, StatsClose DEF Keeps
    <3>3. ASSUME NEW w \in Ways, Count(c, w)
          PROVE  /\ Only(c) /\ Statistics' /\ Keeps(c, {"st", "idx", "up", "down"})
                 /\ conn[c].st = "relay" /\ conn'[c].st = "relay"
      BY <3>3, StatsCount DEF Keeps, Fields, Ways
    <3> QED BY <1>6, <3>1, <3>2, <3>3
  <2>2. UNCHANGED <<connections, counter, probe, now, probed>>
    BY <1>6 DEF Connect, Close, Count
  <2>3. TypeOK'
    BY <1>0, <2>1, <2>2 DEF TypeOK
  <2>4. Listed'
    <3>1. Keeps(c, {"st", "ret", "up", "down", "idx", "socks", "got"})
      BY <2>1 DEF Keeps
    <3> QED BY <2>1, <2>2, <3>1, ListedKept DEF Handled
  <2>5. Probes'
    BY <2>1, <2>2, ProbesKept DEF Apart
  <2>6. EndPassesAllOn'
    BY <2>1, EndKept
  <2> QED BY <2>1, <2>3, <2>4, <2>5, <2>6
<1>7. ASSUME NEW cl \in Clients, RecycleStats(cl) PROVE IInv'
  <2>1. UNCHANGED <<scenario, conn, connections, counter, probe, now, probed>> /\ Conns' = Conns
    BY <1>7 DEF RecycleStats, Conns
  <2>2. TypeOK' /\ Listed' /\ EndPassesAllOn'
    BY <2>1 DEF TypeOK, Listed, EndPassesAllOn
  <2>3. Probes'
    BY <2>1 DEF Probes
  <2> QED BY <1>7, <2>2, <2>3, StatsRecycle
<1>8. CASE Tick
  <2>1. UNCHANGED <<scenario, conn, connections, counter, stats>> /\ Conns' = Conns /\ now' \in Nat
    BY <1>8 DEF Tick, Conns, TypeOK
  <2>2. TypeOK' /\ Listed' /\ EndPassesAllOn'
    BY <2>1 DEF TypeOK, Listed, EndPassesAllOn
  <2>3. Statistics'
    BY <2>1 DEF Statistics, StatsType, Entered, BytesInPlace, InRelay
  <2> QED BY <1>8, <2>2, <2>3, ProbesTick
<1>9. CASE UNCHANGED vars
  BY SMTT(60), <1>9 DEF vars, TypeOK, Listed, Statistics, StatsType, Entered, BytesInPlace, InRelay, Probes,
              EndPassesAllOn, Conns
<1> QED BY <1>1, <1>2, <1>3, <1>4, <1>5, <1>6, <1>7, <1>8, <1>9 DEF Next, Handle, Peers, Ways

(* The invariant holds whatever the peers do, and however handlers, probes *)
(* and the recycling of the statistics interleave.                         *)
THEOREM Inductive == Spec => []IInv
<1>1. Init => IInv
  <2> SUFFICES ASSUME Init PROVE IInv
    OBVIOUS
  <2>1. \A c \in Conns : conn[c].st = "new" /\ HandlerOK(conn[c]) /\ Chosen(conn[c])
    BY DEF Init, Handler, HandlerOK, Chosen, Way, WayType, Fields, States, AnyAddress
  <2>2. TypeOK
    BY <2>1 DEF Init, TypeOK
  <2>3. Listed /\ EndPassesAllOn
    BY <2>1 DEF Init, Listed, Handled, EndPassesAllOn
  <2>4. Statistics
    BY <2>1 DEF Init, Statistics, StatsType, Entered, BytesInPlace, InRelay
  <2>5. Probes
    BY <2>1 DEF Init, Probes
  <2> QED BY <2>2, <2>3, <2>4, <2>5 DEF IInv
<1> QED BY <1>1, InvStep, PTL DEF Spec

(* RuledClient.connections, the open entries of the statistics and the     *)
(* lock of the probe cache are true to the connections there are.          *)
THEOREM BooksKept == Spec => []BookKeeping
<1>1. IInv => BookKeeping
  <2> SUFFICES ASSUME IInv PROVE BookKeeping
    OBVIOUS
  <2>1. ConnectionsTracked
    <3> DEFINE handled == {c \in Conns : conn[c].st \in {"connect", "relay", "close", "remove"}}
    <3>1. \A c : c \in handled <=> c \in Conns /\ conn[c].st \in Handled
      BY DEF Handled
    <3> HIDE DEF handled
    <3>2. DOMAIN connections = {conn[c].index : c \in handled}
      <4>1. ASSUME NEW i \in DOMAIN connections PROVE i \in {conn[c].index : c \in handled}
        <5>1. PICK c \in Conns : conn[c].st \in Handled /\ conn[c].index = i
          BY DEF IInv, Listed
        <5> QED BY <3>1, <5>1
      <4>2. ASSUME NEW c \in handled PROVE conn[c].index \in DOMAIN connections
        BY <3>1 DEF IInv, Listed
      <4> QED BY <4>1, <4>2
    <3>3. /\ \A c, d \in handled : conn[c].index = conn[d].index => c = d
          /\ \A c \in handled : connections[conn[c].index].addr = conn[c].addr
      BY <3>1 DEF IInv, Listed
    <3> QED BY <3>2, <3>3 DEF ConnectionsTracked, handled
  <2>2. OpenEntriesAreRelays
    BY DEF IInv, Statistics, Entered, OpenEntriesAreRelays
  <2>3. LockHeldByProber
    BY DEF IInv, Probes, LockHeldByProber
  <2> QED BY <2>1, <2>2, <2>3 DEF BookKeeping
<1> QED BY <1>1, Inductive, PTL

(* What the statistics show of a relay has been written, up to the buffer  *)
(* in hand.                                                                *)
THEOREM CountsAreHonest == Spec => []CountsHonest
<1>1. IInv => CountsHonest
  <2> SUFFICES ASSUME IInv, NEW c \in Conns, NEW w \in Ways, InRelay(c)
               PROVE  LET shown == stats[conn[c].action].inner[conn[c].idx][w]
                          out == conn[c][w].out
                      IN shown <= out /\ out <= shown + Chunk
    BY DEF CountsHonest
  <2> DEFINE v == conn[c][w]
             shown == stats[conn[c].action].inner[conn[c].idx][w]
  <2>1. conn[c].action \in Clients /\ stats[conn[c].action].inner[conn[c].idx] \in EntryType
    BY DEF IInv, TypeOK, Chosen, InRelay, Statistics, StatsType, Entered
  <2>2. v \in WayType /\ shown \in Nat /\ Chunk \in Nat /\ WayOK(v, shown)
    BY <2>1, WayTyped, RelayAssumption DEF IInv, Statistics, BytesInPlace, EntryType, Ways
  <2> HIDE DEF v, shown
  <2>3. shown <= v.out /\ v.out <= shown + Chunk
    BY <2>2 DEF WayType, WayOK
  <2> QED BY <2>3 DEF v, shown
<1> QED BY <1>1, Inductive, PTL

(* The side whose end is the end of the relay has been heard out. *)
THEOREM EndsPassAllOn == Spec => []EndPassesAllOn
BY Inductive, PTL DEF IInv

(* probe_connectivity never decides by a result older than its time to     *)
(* live, nor by that for another address.                                  *)
THEOREM ProbesAreCurrent == Spec => ProbeCurrent
<1> DEFINE Body == \A c \in Conns :
       conn[c].st \in {"probe", "probing"} /\ conn'[c].st = "handle" =>
         LET addr == conn[c].addr IN
         /\ addr \in DOMAIN probed' /\ now < probed'[addr].at + ProbeTtl
         /\ conn'[c].action = IF probed'[addr].ok THEN "Direct" ELSE "Proxy"
<1>1. IInv /\ [Next]_vars => [Body]_vars
  <2> SUFFICES ASSUME IInv, Next, NEW c \in Conns,
                      conn[c].st \in {"probe", "probing"}, conn'[c].st = "handle"
               PROVE  /\ conn[c].addr \in DOMAIN probed'
                      /\ now < probed'[conn[c].addr].at + ProbeTtl
                      /\ conn'[c].action = IF probed'[conn[c].addr].ok THEN "Direct" ELSE "Proxy"
    OBVIOUS
  <2>1. PICK d \in Conns : Accept(d) \/ Handle(d) \/ UdpReader(d) \/ Peers(d)
    BY DEF Next, Tick, RecycleStats
  <2>2. CASE ~ProbeCached(d) /\ ~ProbeStart(d) /\ ~ProbeEnd(d)
    <3>1. Apart(d)
      BY <2>1, <2>2, ApartStep DEF IInv
    <3> QED BY <3>1 DEF Apart, Only
  <2>3. CASE ProbeStart(d)
    BY <2>3, ProbesStart DEF IInv, Only
  <2>4. CASE ProbeCached(d)
    BY <2>4, ProbesCached DEF IInv, Only
  <2>5. CASE ProbeEnd(d)
    BY <2>5, ProbesEnd DEF IInv, Only
  <2> QED BY <2>2, <2>3, <2>4, <2>5
<1> QED BY <1>1, Inductive, PTL DEF Spec, ProbeCurrent

(* The lock of prob_cache serializes the probes, and a result keeps others *)
(* from probing the address again while it is good.                        *)
THEOREM ProbesOneByOne == Spec => ProbesSerialized
<1> DEFINE Body == \A c \in Conns :
       conn[c].st = "probe" /\ conn'[c].st = "probing" =>
         /\ \A d \in Conns : conn[d].st # "probing"
         /\ conn[c].addr \in DOMAIN probed => now >= probed[conn[c].addr].at + ProbeTtl
<1>1. IInv /\ [Next]_vars => [Body]_vars
  <2> SUFFICES ASSUME IInv, Next, NEW c \in Conns, conn[c].st = "probe", conn'[c].st = "probing"
               PROVE  /\ \A d \in Conns : conn[d].st # "probing"
                      /\ conn[c].addr \in DOMAIN probed => now >= probed[conn[c].addr].at + ProbeTtl
    OBVIOUS
  <2>1. PICK d \in Conns : Accept(d) \/ Handle(d) \/ UdpReader(d) \/ Peers(d)
    BY DEF Next, Tick, RecycleStats
  <2>2. CASE ~ProbeCached(d) /\ ~ProbeStart(d) /\ ~ProbeEnd(d)
    <3>1. Apart(d)
      BY <2>1, <2>2, ApartStep DEF IInv
    <3> QED BY <3>1 DEF Apart, Only
  <2>3. CASE ProbeStart(d)
    BY <2>3, ProbesStart DEF IInv, Only
  <2>4. CASE ProbeCached(d) \/ ProbeEnd(d)
    BY <2>4, ProbesCached, ProbesEnd DEF IInv, Only
  <2> QED BY <2>2, <2>3, <2>4
<1> QED BY <1>1, Inductive, PTL DEF Spec, ProbesSerialized

-----------------------------------------------------------------------------
(* What a packet holds *)

(* The sequence of n values. *)
LEMMA TableSeq ==
  ASSUME NEW n \in Nat, NEW f, DOMAIN f = 1..n, f = [i \in 1..n |-> f[i]]
  PROVE  f \in Seq({f[i] : i \in 1..n}) /\ Len(f) = n
<1>1. f \in [1..n -> {f[i] : i \in 1..n}]
  OBVIOUS
<1> QED BY <1>1

(* What follows the first k elements. *)
LEMMA DropPlaces ==
  ASSUME NEW S, NEW s \in Seq(S), NEW k \in Nat, NEW m \in Nat, k + m <= Len(s)
  PROVE  /\ SubSeq(s, k + 1, k + m) \in Seq(S) /\ Len(SubSeq(s, k + 1, k + m)) = m
         /\ \A i \in 1..m : SubSeq(s, k + 1, k + m)[i] = s[k + i]
OBVIOUS

LEMMA SameSeq ==
  ASSUME NEW S, NEW s \in Seq(S), NEW T, NEW t \in Seq(T), Len(s) = Len(t), \A i \in 1..Len(s) : s[i] = t[i]
  PROVE  s = t
<1>1. s \in Seq(S \cup T) /\ t \in Seq(S \cup T)
  OBVIOUS
<1> QED BY <1>1

(* Three sequences, one after the other. *)
LEMMA ThreePlaces ==
  ASSUME NEW U, NEW a \in Seq(U), NEW b \in Seq(U), NEW c \in Seq(U)
  PROVE  /\ (a \o b) \o c \in Seq(U) /\ Len((a \o b) \o c) = Len(a) + Len(b) + Len(c)
         /\ \A i \in 1..Len(a) : ((a \o b) \o c)[i] = a[i]
         /\ \A i \in 1..Len(b) : ((a \o b) \o c)[Len(a) + i] = b[i]
OBVIOUS

(* The cells of a packet. *)
SaltCell(salt, i) == [salt |-> salt, at |-> i]
SealedCell(salt, i, byte) == [salt |-> salt, at |-> i, byte |-> byte]

LEMMA Cells == \A salt, i, byte : SaltCell(salt, i).salt = salt /\ SealedCell(salt, i, byte).byte = byte
BY DEF SaltCell, SealedCell

(* A packet has the salt, the sealed payload and the tag in their places. *)
LEMMA EncryptedPlaces ==
  ASSUME NEW S, NEW s \in Seq(S), NEW salt, NEW tag \in Nat, tag = IF Cipher = "aead" THEN TagSize ELSE 0,
         NEW n, n = Len(s)
  PROVE  \E T :
           /\ EncryptPayload(Cipher, salt, s) \in Seq(T)
           /\ Len(EncryptPayload(Cipher, salt, s)) = SaltSize + n + tag
           /\ \A i \in 1..SaltSize : EncryptPayload(Cipher, salt, s)[i] = SaltCell(salt, i)
           /\ \A i \in 1..n : EncryptPayload(Cipher, salt, s)[SaltSize + i] = SealedCell(salt, i, s[i])
<1> DEFINE a == SaltBytes(salt)
           b == Sealed(salt, s)
           c == IF Cipher = "aead" THEN TagBytes(salt) ELSE <<>>
           A == {a[i] : i \in 1..SaltSize}
           B == {b[i] : i \in 1..n}
           C == {c[i] : i \in 1..tag}
           U == (A \cup B) \cup C
<1>0. SaltSize \in Nat /\ TagSize \in Nat /\ n \in Nat /\ DOMAIN s = 1..n
  BY DatagramAssumption
<1>1. a \in Seq(A) /\ SaltSize = Len(a) /\ \A i \in 1..SaltSize : a[i] = SaltCell(salt, i)
  <2>1. DOMAIN a = 1..SaltSize /\ a = [i \in 1..SaltSize |-> a[i]] /\ \A i \in 1..SaltSize : a[i] = SaltCell(salt, i)
    BY DEF SaltBytes, SaltCell
  <2> HIDE DEF a
  <2> QED BY <1>0, <2>1, TableSeq
<1>2. b \in Seq(B) /\ n = Len(b) /\ \A i \in 1..n : b[i] = SealedCell(salt, i, s[i])
  <2>1. DOMAIN b = 1..n /\ b = [i \in 1..n |-> b[i]] /\ \A i \in 1..n : b[i] = SealedCell(salt, i, s[i])
    BY <1>0 DEF Sealed, SealedCell
  <2> HIDE DEF b
  <2> QED BY <1>0, <2>1, TableSeq
<1>3. c \in Seq(C) /\ tag = Len(c)
  <2>1. CASE Cipher = "aead"
    <3>1. DOMAIN c = 1..tag /\ c = [i \in 1..tag |-> c[i]]
      BY <2>1 DEF TagBytes
    <3> HIDE DEF c
    <3> QED BY <3>1, TableSeq
  <2>2. CASE Cipher # "aead"
    <3>1. c = <<>> /\ tag = 0
      BY <2>2
    <3> HIDE DEF c, C
    <3> QED BY <3>1
  <2> QED BY <2>1, <2>2
<1>4. EncryptPayload(Cipher, salt, s) = (a \o b) \o c
  BY Zenon DEF EncryptPayload
<1> HIDE DEF a, b, c, A, B, C
<1>5. /\ (a \o b) \o c \in Seq(U) /\ Len((a \o b) \o c) = SaltSize + n + tag
      /\ \A i \in 1..SaltSize : ((a \o b) \o c)[i] = a[i]
      /\ \A i \in 1..n : ((a \o b) \o c)[SaltSize + i] = b[i]
  <2>1. a \in Seq(U) /\ b \in Seq(U) /\ c \in Seq(U)
    <3>1. \A V, W, s_ : V \subseteq W /\ s_ \in Seq(V) => s_ \in Seq(W)
      OBVIOUS
    <3>2. A \subseteq U /\ B \subseteq U /\ C \subseteq U
      BY DEF U
    <3> QED BY <1>1, <1>2, <1>3, <3>1, <3>2, Zenon
  <2> HIDE DEF U
  <2>2. /\ (a \o b) \o c \in Seq(U) /\ Len((a \o b) \o c) = Len(a) + Len(b) + Len(c)
        /\ \A i \in 1..Len(a) : ((a \o b) \o c)[i] = a[i]
        /\ \A i \in 1..Len(b) : ((a \o b) \o c)[Len(a) + i] = b[i]
    BY SMTT(60), <2>1, ThreePlaces
  <2> QED BY <1>1, <1>2, <1>3, <2>2, Zenon
<1>6. PICK abc : abc = (a \o b) \o c
  OBVIOUS
<1>7. /\ abc \in Seq(U) /\ Len(abc) = SaltSize + n + tag
      /\ \A i \in 1..SaltSize : abc[i] = SaltCell(salt, i)
      /\ \A i \in 1..n : abc[SaltSize + i] = SealedCell(salt, i, s[i])
  BY <1>1, <1>2, <1>5, <1>6, Zenon
<1>8. EncryptPayload(Cipher, salt, s) = abc
  BY <1>4, <1>6, Zenon
<1> QED BY <1>7, <1>8, Zenon

(* DecryptPayload opens what EncryptPayload made. *)
LEMMA DecryptOpens ==
  ASSUME NEW S, NEW s \in Seq(S), NEW salt
  PROVE  DecryptPayload(Cipher, EncryptPayload(Cipher, salt, s)) = [ok |-> TRUE, payload |-> s]
<1> DEFINE packet == EncryptPayload(Cipher, salt, s)
           tag == IF Cipher = "aead" THEN TagSize ELSE 0
           data == SubSeq(packet, SaltSize + 1, Len(packet) - tag)
           open == [i \in DOMAIN data |-> data[i].byte]
           n == Len(s)
<1>0. SaltSize \in Nat /\ tag \in Nat /\ n \in Nat
  BY DatagramAssumption
<1>a. DOMAIN s = 1..n /\ s = [i \in 1..n |-> s[i]]
  OBVIOUS
<1>1. PICK U : /\ packet \in Seq(U) /\ Len(packet) = SaltSize + n + tag
               /\ \A i \in 1..SaltSize : packet[i] = SaltCell(salt, i)
               /\ \A i \in 1..n : packet[SaltSize + i] = SealedCell(salt, i, s[i])
  <2>1. PICK k \in Nat : k = tag
    BY <1>0
  <2>2. k = IF Cipher = "aead" THEN TagSize ELSE 0
    BY <2>1
  <2> HIDE DEF packet, tag
  <2>3. PICK l : l = Len(s)
    OBVIOUS
  <2>4. \E U : /\ packet \in Seq(U) /\ Len(packet) = SaltSize + l + k
               /\ \A i \in 1..SaltSize : packet[i] = SaltCell(salt, i)
               /\ \A i \in 1..l : packet[SaltSize + i] = SealedCell(salt, i, s[i])
    BY SMTT(60), <2>2, <2>3, EncryptedPlaces DEF packet
  <2> QED BY <2>1, <2>3, <2>4, Zenon
<1> HIDE DEF packet, tag, n
<1>2. Len(packet) - tag = SaltSize + n /\ SaltSize + n <= Len(packet)
  BY <1>0, <1>1
<1>3. data \in Seq(U) /\ Len(data) = n /\ \A i \in 1..n : data[i] = packet[SaltSize + i]
  <2>1. data = SubSeq(packet, SaltSize + 1, SaltSize + n)
    BY <1>2, Zenon
  <2>2. packet \in Seq(U) /\ SaltSize + n <= Len(packet)
    BY <1>1, <1>2, Zenon
  <2>3. /\ SubSeq(packet, SaltSize + 1, SaltSize + n) \in Seq(U)
        /\ Len(SubSeq(packet, SaltSize + 1, SaltSize + n)) = n
        /\ \A i \in 1..n : SubSeq(packet, SaltSize + 1, SaltSize + n)[i] = packet[SaltSize + i]
    BY ZenonT(60), <1>0, <2>2, DropPlaces
  <2> QED BY <2>1, <2>3, Zenon
<1> HIDE DEF data
<1>b. DOMAIN data = 1..n
  BY <1>3
<1>c. \A i \in 1..n : data[i].byte = s[i]
  <2> SUFFICES ASSUME NEW i \in 1..n PROVE data[i].byte = s[i]
    OBVIOUS
  <2>1. data[i] = SealedCell(salt, i, s[i])
    BY <1>1, <1>3, Zenon
  <2>2. SealedCell(salt, i, s[i]).byte = s[i]
    BY Cells
  <2> QED BY <2>1, <2>2, Zenon
<1>4. open = [i \in 1..n |-> data[i].byte]
  BY <1>b
<1>5. open = s
  BY <1>a, <1>c, <1>4, Zenon
<1>6. ~(Len(packet) < tag + SaltSize) /\ Len(packet) >= tag + SaltSize
  BY <1>0, <1>1
<1>7. Cipher = "aead" => packet = EncryptPayload(Cipher, packet[1].salt, open)
  <2> SUFFICES ASSUME Cipher = "aead" PROVE packet = EncryptPayload(Cipher, packet[1].salt, open)
    OBVIOUS
  <2>1. 1 \in 1..SaltSize
    BY <1>0, RelayAssumption
  <2>2. packet[1].salt = salt
    BY <1>1, <2>1, Cells, Zenon
  <2> HIDE DEF open
  <2> QED BY <1>5, <2>2, Zenon DEF packet
<1> DEFINE d == IF Cipher = "aead" /\ packet # EncryptPayload(Cipher, packet[1].salt, open) THEN Broken
                ELSE [ok |-> TRUE, payload |-> open]
<1>8. DecryptPayload(Cipher, packet) =
        CASE Len(packet) < tag + SaltSize -> Broken
          [] Len(packet) >= tag + SaltSize -> d
  BY Zenon DEF DecryptPayload, data, tag
<1>9. d = [ok |-> TRUE, payload |-> open]
  BY <1>7, Zenon
<1> HIDE DEF d, open
<1>10. DecryptPayload(Cipher, packet) = d
  BY <1>6, <1>8
<1> QED BY <1>5, <1>9, <1>10 DEF packet

(* An address in front of a payload, part by part. *)
InFour(s, a, b, c, d) == Len(c) = 2 /\ s = ((a \o b) \o c) \o d

LEMMA TwoPlaces ==
  ASSUME NEW U, NEW s \in Seq(U), NEW t \in Seq(U)
  PROVE  /\ s \o t \in Seq(U) /\ Len(s \o t) = Len(s) + Len(t)
         /\ \A i \in 1..Len(s) : (s \o t)[i] = s[i]
         /\ \A i \in 1..Len(t) : (s \o t)[Len(s) + i] = t[i]
OBVIOUS

Placed(U, a, b, c, d, k, n, s) ==
  /\ s \in Seq(U) /\ Len(s) = k + n + 2 + Len(d)
  /\ \A i \in 1..k : s[i] = a[i]
  /\ SubSeq(s, k + 1, k + n) = b
  /\ s[k + n + 1] = c[1] /\ s[k + n + 2] = c[2]
  /\ SubSeq(s, k + n + 3, Len(s)) = d

LEMMA FourPlaces ==
  ASSUME NEW U, NEW a \in Seq(U), NEW b \in Seq(U), NEW c \in Seq(U), NEW d \in Seq(U),
         NEW k \in Nat, k = Len(a), NEW n \in Nat, n = Len(b),
         NEW s, InFour(s, a, b, c, d)
  PROVE  Placed(U, a, b, c, d, k, n, s)
<1>a1. /\ a \o b \in Seq(U) /\ Len(a \o b) = Len(a) + Len(b)
       /\ \A i \in 1..Len(a) : (a \o b)[i] = a[i]
       /\ \A i \in 1..Len(b) : (a \o b)[Len(a) + i] = b[i]
  BY TwoPlaces
<1>a2. PICK ab \in Seq(U) : ab = a \o b
  BY <1>a1, Zenon
<1>a3. /\ Len(ab) = Len(a) + Len(b)
       /\ \A i \in 1..Len(a) : ab[i] = a[i]
       /\ \A i \in 1..Len(b) : ab[Len(a) + i] = b[i]
  BY <1>a1, <1>a2, Zenon
<1> HIDE <1>a1
<1>b1. /\ ab \o c \in Seq(U) /\ Len(ab \o c) = Len(ab) + Len(c)
       /\ \A i \in 1..Len(ab) : (ab \o c)[i] = ab[i]
       /\ \A i \in 1..Len(c) : (ab \o c)[Len(ab) + i] = c[i]
  BY TwoPlaces
<1>b2. PICK abc \in Seq(U) : abc = ab \o c
  BY <1>b1, Zenon
<1>b3. /\ Len(abc) = Len(ab) + Len(c)
       /\ \A i \in 1..Len(ab) : abc[i] = ab[i]
       /\ \A i \in 1..Len(c) : abc[Len(ab) + i] = c[i]
  BY <1>b1, <1>b2, Zenon
<1> HIDE <1>b1
<1>c1. /\ abc \o d \in Seq(U) /\ Len(abc \o d) = Len(abc) + Len(d)
       /\ \A i \in 1..Len(abc) : (abc \o d)[i] = abc[i]
       /\ \A i \in 1..Len(d) : (abc \o d)[Len(abc) + i] = d[i]
  BY TwoPlaces
<1>c2. PICK e \in Seq(U) : e = abc \o d
  BY <1>c1, Zenon
<1>c3. /\ Len(e) = Len(abc) + Len(d)
       /\ \A i \in 1..Len(abc) : e[i] = abc[i]
       /\ \A i \in 1..Len(d) : e[Len(abc) + i] = d[i]
  BY <1>c1, <1>c2, Zenon
<1> HIDE <1>c1
<1>1. s = e
  BY <1>a2, <1>b2, <1>c2, Zenon DEF InFour
<1> HIDE <1>a2, <1>b2, <1>c2
<1>2. Len(ab) = k + n /\ (\A i \in 1..k : ab[i] = a[i]) /\ (\A i \in 1..n : ab[k + i] = b[i])
  BY <1>a3, Zenon
<1>3. /\ s \in Seq(U) /\ Len(s) = Len(ab) + Len(c) + Len(d)
      /\ \A i \in 1..Len(ab) : s[i] = ab[i]
      /\ \A i \in 1..Len(c) : s[Len(ab) + i] = c[i]
      /\ \A i \in 1..Len(d) : s[Len(ab) + Len(c) + i] = d[i]
  BY <1>1, <1>b3, <1>c3
<1>4. s \in Seq(U) /\ Len(s) = k + n + 2 + Len(d) /\ s[k + n + 1] = c[1] /\ s[k + n + 2] = c[2]
  <2>1. Len(c) = 2
    BY DEF InFour
  <2> QED BY <1>2, <1>3, <2>1
<1>5. \A i \in 1..k : s[i] = a[i]
  BY <1>2, <1>3
<1>6. SubSeq(s, k + 1, k + n) = b
  <2>1. \A i \in 1..n : s[k + i] = b[i]
    BY <1>2, <1>3
  <2>2. /\ SubSeq(s, k + 1, k + n) \in Seq(U) /\ Len(SubSeq(s, k + 1, k + n)) = n
        /\ \A i \in 1..n : SubSeq(s, k + 1, k + n)[i] = s[k + i]
    <3>1. s \in Seq(U) /\ k + n <= Len(s)
      BY <1>4
    <3> QED BY <3>1, DropPlaces
  <2>3. PICK part \in Seq(U) : part = SubSeq(s, k + 1, k + n)
    BY <2>2
  <2>4. Len(part) = Len(b) /\ \A i \in 1..Len(part) : part[i] = b[i]
    BY <2>1, <2>2, <2>3
  <2>5. part = b
    BY <2>4, SameSeq
  <2> QED BY <2>3, <2>5, Zenon
<1>7. SubSeq(s, k + n + 3, Len(s)) = d
  <2>1. PICK m \in Nat : m = k + n + 2
    OBVIOUS
  <2>2. PICK l \in Nat : l = Len(d)
    OBVIOUS
  <2>3. Len(s) = m + l /\ k + n + 3 = m + 1 /\ \A i \in 1..l : s[m + i] = d[i]
    <3>1. Len(c) = 2
      BY DEF InFour
    <3> QED BY <1>2, <1>3, <2>1, <2>2, <3>1
  <2>4. /\ SubSeq(s, m + 1, m + l) \in Seq(U) /\ Len(SubSeq(s, m + 1, m + l)) = l
        /\ \A i \in 1..l : SubSeq(s, m + 1, m + l)[i] = s[m + i]
    <3>1. s \in Seq(U) /\ m + l <= Len(s)
      BY <1>4, <2>3
    <3> QED BY <3>1, DropPlaces
  <2>5. PICK part \in Seq(U) : part = SubSeq(s, m + 1, m + l)
    BY <2>4
  <2>6. Len(part) = Len(d) /\ \A i \in 1..Len(part) : part[i] = d[i]
    BY <2>2, <2>3, <2>4, <2>5
  <2>7. part = d
    BY <2>6, SameSeq
  <2> QED BY <2>3, <2>5, <2>7
<1> QED BY <1>4, <1>5, <1>6, <1>7, Zenon DEF Placed

(* The two bytes of a port. *)
LEMMA PortBytes ==
  ASSUME NEW p \in U16
  PROVE  /\ U16Be(p) \in Seq(Nat) /\ Len(U16Be(p)) = 2
         /\ 256 * U16Be(p)[1] + U16Be(p)[2] = p
<1>1. p \div 256 \in Nat /\ p % 256 \in Nat /\ 256 * (p \div 256) + (p % 256) = p
  BY SMTT(60) DEF U16
<1>2. PICK q \in Nat, r \in Nat : q = p \div 256 /\ r = p % 256
  BY <1>1
<1>3. U16Be(p) = <<q, r>> /\ 256 * q + r = p
  BY <1>1, <1>2 DEF U16Be
<1> QED BY <1>3

LEMMA RecordParts ==
  ASSUME NEW K, NEW H, NEW P, NEW r \in [kind : K, host : H, port : P]
  PROVE  /\ r.kind \in K /\ r.host \in H /\ r.port \in P
         /\ r = [kind |-> r.kind, host |-> r.host, port |-> r.port]
OBVIOUS

(* The fields of an address. *)
LEMMA AddressParts ==
  ASSUME NEW addr \in Addresses
  PROVE  /\ addr.kind \in {"V4", "V6", "Domain"} /\ addr.host \in Seq(Byte) /\ addr.port \in U16
         /\ addr = [kind |-> addr.kind, host |-> addr.host, port |-> addr.port]
         /\ addr.kind = "V4" => Len(addr.host) = 4
         /\ addr.kind = "V6" => Len(addr.host) = 16
<1>1. /\ addr \in [kind : {"V4", "V6", "Domain"}, host : Seq(Byte), port : U16]
      /\ addr.kind = "V4" => Len(addr.host) = 4
      /\ addr.kind = "V6" => Len(addr.host) = 16
  BY Zenon DEF Addresses
<1>2. PICK K, H, P : K = {"V4", "V6", "Domain"} /\ H = Seq(Byte) /\ P = U16
  OBVIOUS
<1>3. addr \in [kind : K, host : H, port : P]
  BY <1>1, <1>2, Zenon
<1> HIDE <1>2
<1>4. addr.kind \in K /\ addr.host \in H /\ addr.port \in P /\ addr = [kind |-> addr.kind, host |-> addr.host, port |-> addr.port]
  BY <1>3, RecordParts, Zenon
<1> QED BY <1>1, <1>2, <1>4, Zenon

HeadBytes(kind, n) == IF kind = "Domain" THEN <<TypeByte.Domain, n>> ELSE <<TypeByte[kind]>>
HeadLen(kind) == IF kind = "Domain" THEN 2 ELSE 1

(* What comes before the host. *)
LEMMA HeadPlaces ==
  ASSUME NEW kind \in {"V4", "V6", "Domain"}, NEW n \in Nat, NEW U, Nat \subseteq U
  PROVE  /\ HeadBytes(kind, n) \in Seq(U) /\ HeadLen(kind) \in Nat
         /\ HeadLen(kind) = Len(HeadBytes(kind, n)) /\ HeadBytes(kind, n)[1] = TypeByte[kind]
         /\ kind = "Domain" => HeadBytes(kind, n)[2] = n
<1>2. TypeByte["V4"] = 1 /\ TypeByte["V6"] = 4 /\ TypeByte["Domain"] = 3
  BY DEF TypeByte
<1>3. \A x \in Nat : x \in U /\ <<x>> \in Seq(U) /\ <<x, n>> \in Seq(U)
  OBVIOUS
<1>4. CASE kind = "Domain"
  <2>1. HeadBytes(kind, n) = <<3, n>> /\ HeadLen(kind) = 2 /\ TypeByte[kind] = 3
    BY <1>2, <1>4 DEF HeadBytes, HeadLen
  <2>2. PICK x : x = <<3, n>>
    OBVIOUS
  <2>3. x \in Seq(U) /\ Len(x) = 2 /\ x[1] = 3 /\ x[2] = n
    BY <1>3, <2>2
  <2> QED BY <2>1, <2>2, <2>3
<1>5. CASE kind # "Domain"
  <2>1. PICK t \in Nat : t = TypeByte[kind]
    BY <1>2, <1>5
  <2>2. HeadBytes(kind, n) = <<t>> /\ HeadLen(kind) = 1
    BY <1>5, <2>1 DEF HeadBytes, HeadLen
  <2> QED BY <1>3, <1>5, <2>1, <2>2
<1> QED BY <1>4, <1>5

LEMMA SeqGrows == \A V, W, s : V \subseteq W /\ s \in Seq(V) => s \in Seq(W)
OBVIOUS

LEMMA SeqLen == \A V, s : s \in Seq(V) => Len(s) \in Nat
OBVIOUS

(* Where the parts of an address and a payload behind it are. *)
Written(kind, host, port, S, p, k, n, s) ==
  /\ s \in Seq(Nat \cup S) /\ Len(s) = k + n + 2 + Len(p)
  /\ s[1] = TypeByte[kind] /\ (kind = "Domain" => s[2] = n)
  /\ SubSeq(s, k + 1, k + n) = host
  /\ 256 * s[k + n + 1] + s[k + n + 2] = port
  /\ SubSeq(s, k + n + 3, Len(s)) = p

LEMMA WrittenPlaces ==
  ASSUME NEW kind \in {"V4", "V6", "Domain"}, NEW host \in Seq(Byte), NEW port \in U16,
         NEW n \in Nat, n = Len(host), NEW k \in Nat, k = HeadLen(kind), NEW S, NEW p \in Seq(S),
         NEW s, InFour(s, HeadBytes(kind, n), host, U16Be(port), p)
  PROVE  Written(kind, host, port, S, p, k, n, s)
<1>0. PICK U : U = Nat \cup S
  OBVIOUS
<1>1. Nat \subseteq U /\ Byte \subseteq U /\ S \subseteq U
  BY <1>0 DEF Byte
<1>2. host \in Seq(U) /\ p \in Seq(U)
  BY <1>1, SeqGrows, Zenon
<1>3. PICK a \in Seq(U) : a = HeadBytes(kind, n)
  BY <1>1, HeadPlaces, Zenon
<1>4. k = Len(a) /\ a[1] = TypeByte[kind] /\ (kind = "Domain" => a[2] = n)
  BY <1>1, <1>3, HeadPlaces, Zenon
<1>5. PICK c : c = U16Be(port)
  OBVIOUS
<1>6. c \in Seq(U) /\ Len(c) = 2 /\ 256 * c[1] + c[2] = port
  BY <1>1, <1>5, PortBytes, SeqGrows, Zenon
<1>8. InFour(s, a, host, c, p)
  BY <1>3, <1>5, Zenon
<1> HIDE <1>3, <1>5
<1>9. /\ s \in Seq(U) /\ Len(s) = k + n + 2 + Len(p)
      /\ \A i \in 1..k : s[i] = a[i]
      /\ SubSeq(s, k + 1, k + n) = host
      /\ s[k + n + 1] = c[1] /\ s[k + n + 2] = c[2]
      /\ SubSeq(s, k + n + 3, Len(s)) = p
  <2>1. Placed(U, a, host, c, p, k, n, s)
    BY <1>2, <1>4, <1>6, <1>8, FourPlaces, Zenon
  <2> QED BY <2>1, Zenon DEF Placed
<1>11. s[1] = a[1] /\ (kind = "Domain" => s[2] = a[2])
  <2>1. 1 \in 1..k /\ (kind = "Domain" => 2 \in 1..k)
    BY DEF HeadLen
  <2> QED BY <1>9, <2>1, Zenon
<1>12. 256 * s[k + n + 1] + s[k + n + 2] = port
  BY <1>6, <1>9, Zenon
<1> QED BY <1>0, <1>4, <1>9, <1>11, <1>12, Zenon DEF Written

AddressOf(kind, host, port) == [kind |-> kind, host |-> host, port |-> port]

(* An address of n bytes is read back. *)
LEMMA HostReadBack ==
  ASSUME NEW kind, NEW host, NEW port, NEW S, NEW p \in Seq(S), NEW k \in Nat, NEW n \in Nat, NEW s,
         Written(kind, host, port, S, p, k, n, s)
  PROVE  ReadHost(kind, s, k + 1, n) = AddressOf(kind, host, port)
<1>1. PICK q \in Nat, l \in Nat, lp \in Nat : q = k + 1 /\ l = Len(s) /\ lp = Len(p)
  <2>1. k + 1 \in Nat /\ Len(s) \in Nat /\ Len(p) \in Nat
    BY DEF Written
  <2> QED BY <2>1, Zenon
<1>2. l = k + n + 2 + lp
  BY <1>1, Zenon DEF Written
<1>3. q + n = k + n + 1 /\ q + n + 1 = k + n + 2 /\ q + n - 1 = k + n /\ ~(l < q + n + 1)
  BY <1>1, <1>2
<1>4. SubSeq(s, q, q + n - 1) = host /\ 256 * s[q + n] + s[q + n + 1] = port /\ ~(Len(s) < q + n + 1)
  BY <1>1, <1>3, Zenon DEF Written
<1>5. ReadHost(kind, s, q, n) = AddressOf(kind, host, port)
  BY <1>4, Zenon DEF ReadHost, AddressOf
<1> QED BY <1>1, <1>5, Zenon

(* A kind, and how long its host is. *)
KindOK(kind, n) ==
  kind \in {"V4", "V6", "Domain"} /\ (kind = "V4" => n = 4) /\ (kind = "V6" => n = 16)

(* read_address chooses by the first byte. *)
LEMMA KindReadBack ==
  ASSUME NEW kind, NEW host, NEW port, NEW S, NEW p \in Seq(S),
         NEW k \in Nat, k = HeadLen(kind), NEW n \in Nat, NEW s,
         KindOK(kind, n), Written(kind, host, port, S, p, k, n, s)
  PROVE  ReadAddress(s) = ReadHost(kind, s, k + 1, n)
<1>1. s # <<>> /\ s[1] = TypeByte[kind] /\ Len(s) # 1 /\ (kind = "Domain" => s[2] = n)
  <2>1. Len(s) = k + n + 2 + Len(p) /\ s[1] = TypeByte[kind] /\ (kind = "Domain" => s[2] = n)
    BY Zenon DEF Written
  <2>2. Len(p) \in Nat
    OBVIOUS
  <2>3. Len(s) # 0 /\ Len(s) # 1
    BY <2>1, <2>2
  <2> QED BY <2>1, <2>3
<1>2. TypeByte.V4 = 1 /\ TypeByte.V6 = 4 /\ TypeByte.Domain = 3
  BY DEF TypeByte
<1>3. CASE kind = "V4"
  <2>1. s[1] = 1 /\ k + 1 = 2 /\ n = 4
    BY <1>1, <1>2, <1>3 DEF HeadLen, KindOK
  <2>2. ReadAddress(s) = ReadHost("V4", s, 2, 4)
    BY <1>1, <1>2, <2>1 DEF ReadAddress
  <2> QED BY <1>3, <2>1, <2>2
<1>4. CASE kind = "V6"
  <2>1. s[1] = 4 /\ k + 1 = 2 /\ n = 16
    BY <1>1, <1>2, <1>4 DEF HeadLen, KindOK
  <2>2. ReadAddress(s) = ReadHost("V6", s, 2, 16)
    BY <1>1, <1>2, <2>1 DEF ReadAddress
  <2> QED BY <1>4, <2>1, <2>2
<1>5. CASE kind = "Domain"
  <2>1. s[1] = 3 /\ k + 1 = 3 /\ s[2] = n
    BY <1>1, <1>2, <1>5 DEF HeadLen
  <2>2. ReadAddress(s) = ReadHost("Domain", s, 3, s[2])
    BY <1>1, <1>2, <2>1 DEF ReadAddress
  <2> QED BY <1>5, <2>1, <2>2
<1> QED BY <1>3, <1>4, <1>5 DEF KindOK

(* read_address reads what write_address wrote, and what follows it is     *)
(* left.                                                                   *)
LEMMA ReadsBack ==
  ASSUME NEW addr \in Addresses, NEW S, NEW p \in Seq(S)
  PROVE  /\ ReadAddress(WriteAddress(addr) \o p) = addr
         /\ Drop(WriteAddress(addr) \o p, AddrLen(addr)) = p
         /\ Len(WriteAddress(addr)) = AddrLen(addr)
         /\ WriteAddress(addr) \o p \in Seq(Nat \cup S)
<1>1. PICK kind, host, port : kind = addr.kind /\ host = addr.host /\ port = addr.port
  OBVIOUS
<1>2. /\ kind \in {"V4", "V6", "Domain"} /\ host \in Seq(Byte) /\ port \in U16
      /\ addr = [kind |-> kind, host |-> host, port |-> port]
      /\ kind = "V4" => Len(host) = 4
      /\ kind = "V6" => Len(host) = 16
  BY <1>1, AddressParts, Zenon
<1>3. PICK n \in Nat : n = Len(host)
  BY <1>2, SeqLen, Zenon
<1>4. PICK k \in Nat : k = HeadLen(kind)
  BY DEF HeadLen
<1>5. PICK w : w = WriteAddress(addr)
  OBVIOUS
<1>6. w = (HeadBytes(kind, n) \o host) \o U16Be(port)
  BY <1>1, <1>3, <1>5, Zenon DEF WriteAddress, HeadBytes
<1>7. PICK s : s = w \o p
  OBVIOUS
<1>8. InFour(s, HeadBytes(kind, n), host, U16Be(port), p)
  <2>1. Len(U16Be(port)) = 2
    BY <1>2, PortBytes, Zenon
  <2> QED BY <1>6, <1>7, <2>1, Zenon DEF InFour
<1>9. AddrLen(addr) = k + n + 2
  <2>1. CASE kind = "V4"
    <3>1. AddrLen(addr) = 1 + 4 + 2 /\ k = 1 /\ n = 4
      BY <1>1, <1>2, <1>3, <1>4, <2>1 DEF AddrLen, HeadLen
    <3> QED BY <3>1
  <2>2. CASE kind = "V6"
    <3>1. AddrLen(addr) = 1 + 8 * 2 + 2 /\ k = 1 /\ n = 16
      BY <1>1, <1>2, <1>3, <1>4, <2>2 DEF AddrLen, HeadLen
    <3> QED BY <3>1
  <2>3. CASE kind = "Domain"
    <3>1. AddrLen(addr) = 1 + 1 + n + 2 /\ k = 2
      BY <1>1, <1>3, <1>4, <2>3 DEF AddrLen, HeadLen
    <3> QED BY <3>1
  <2> QED BY <1>2, <2>1, <2>2, <2>3
<1>10. Len(w) = k + n + 2
  <2>1. PICK a, c : a = HeadBytes(kind, n) /\ c = U16Be(port)
    OBVIOUS
  <2>2. Byte \subseteq Nat
    BY DEF Byte
  <2>3. a \in Seq(Nat) /\ c \in Seq(Nat) /\ host \in Seq(Nat) /\ k = Len(a) /\ Len(c) = 2
    BY <1>2, <1>4, <2>1, <2>2, SeqGrows, HeadPlaces, PortBytes, Zenon
  <2>4. w = (a \o host) \o c
    BY <1>6, <2>1, Zenon
  <2> HIDE <1>1, <1>2, <1>4, <1>5, <1>6, <1>7, <1>8, <2>1
  <2>5. Len((a \o host) \o c) = Len(a) + Len(host) + Len(c)
    <3>1. a \in Seq(Nat) /\ c \in Seq(Nat) /\ host \in Seq(Nat)
      BY <2>3
    <3> HIDE <2>3, <2>4
    <3> QED BY <3>1, ThreePlaces
  <2> QED BY <1>3, <2>3, <2>4, <2>5, Zenon
<1> HIDE <1>5, <1>6, <1>7
<1>11. Written(kind, host, port, S, p, k, n, s)
  BY <1>2, <1>3, <1>4, <1>8, WrittenPlaces, Zenon
<1>12. ReadAddress(s) = AddressOf(kind, host, port)
  <2>1. ReadAddress(s) = ReadHost(kind, s, k + 1, n)
    <3>1. KindOK(kind, n)
      BY <1>2, <1>3, Zenon DEF KindOK
    <3> QED BY <1>4, <1>11, <3>1, KindReadBack
  <2>2. ReadHost(kind, s, k + 1, n) = AddressOf(kind, host, port)
    BY <1>11, HostReadBack
  <2> QED BY <2>1, <2>2, Zenon
<1>13. Drop(s, k + n + 2) = p
  <2>1. (k + n + 2) + 1 = k + n + 3
    OBVIOUS
  <2> QED BY <1>11, <2>1, Zenon DEF Drop, Written
<1>14. s \in Seq(Nat \cup S)
  BY <1>11, Zenon DEF Written
<1>15. addr = AddressOf(kind, host, port)
  BY <1>2, Zenon DEF AddressOf
<1> QED BY <1>5, <1>7, <1>9, <1>10, <1>12, <1>13, <1>14, <1>15, Zenon

-----------------------------------------------------------------------------
(* Datagrams *)

SocketFields == {"src", "reading", "asked", "inbox"}

(* What waits at the other end of a socket is the source's datagram for    *)
(* the connection's address, as much of it as the client's buffer holds;   *)
(* a whole packet that comes back holds its payload under some address.    *)
AskedFor(addr, action, src, p) ==
  [src |-> src, sent |-> p, msg |-> [addr |-> addr, payload |-> Cut(p, Room(action, addr))]]

Asked(addr, action, src, m) == \E p \in Payloads : m = AskedFor(addr, action, src, p)

Answer(action, salt, from, p) ==
  IF action = "Direct" THEN p ELSE EncryptPayload(Cipher, salt, WriteAddress(from) \o p)

Answered(action, src, p) ==
  /\ p.of = src /\ p.sent \in Payloads
  /\ ~p.cut => \E salt : \E from \in Addresses : p.packet = Answer(action, salt, from, p.sent)

SocketOK(addr, action, s) ==
  /\ DOMAIN s = SocketFields
  /\ \A m \in s.asked : Asked(addr, action, s.src, m)
  /\ \A p \in s.inbox : Answered(action, s.src, p)

SocksOK(addr, action, socks) ==
  /\ socks \in Seq({socks[k] : k \in DOMAIN socks})
  /\ \A k \in DOMAIN socks : SocketOK(addr, action, socks[k])

Kept(action, p) == IF action = "Direct" THEN Cut(p, DirectBuf) ELSE p
Delivered(action, g) == g.to = g.of /\ (g.whole => g.payload = Kept(action, g.sent))

Waiting == {"dispatch", "probe", "probing", "handle", "udp"}

(* A handler has sockets only once its address and its client are fixed. *)
Datagrams(h) ==
  /\ h.st \in Waiting => h.addr \in Addresses
  /\ h.st = "udp" => h.action \in Clients
  /\ h.socks # <<>> => h.st \in {"udp", "done"} /\ h.addr \in Addresses /\ h.action \in Clients
  /\ h.socks = <<>> => h.got = {}
  /\ SocksOK(h.addr, h.action, h.socks)
  /\ \A g \in h.got : Delivered(h.action, g)

DatagramInv == \A c \in Conns : Datagrams(conn[c])

(* What is left in a buffer is a sequence of bytes. *)
LEMMA CutSeq ==
  ASSUME NEW S, NEW p \in Seq(S), NEW n \in Int
  PROVE  Cut(p, n) \in Seq(S)
<1>1. CASE Len(p) <= n
  BY <1>1 DEF Cut
<1>2. CASE ~(Len(p) <= n)
  <2>1. CASE n >= 1
    BY <1>2, <2>1 DEF Cut
  <2>2. CASE n < 1
    BY <1>2, <2>2 DEF Cut
  <2> QED BY <2>1, <2>2
<1> QED BY <1>1, <1>2

LEMMA Opened == \A s : [ok |-> TRUE, payload |-> s].ok /\ [ok |-> TRUE, payload |-> s].payload = s
OBVIOUS

(* A packet opens, to the address and the datagram that were put in it. *)
LEMMA PacketReads ==
  ASSUME NEW from \in Addresses, NEW salt, NEW S, NEW p \in Seq(S), NEW d,
         d = DecryptPayload(Cipher, EncryptPayload(Cipher, salt, WriteAddress(from) \o p))
  PROVE  /\ d.ok /\ ReadAddress(d.payload) = from
         /\ Drop(d.payload, AddrLen(from)) = p
         /\ Drop(d.payload, Len(WriteAddress(from))) = p
         /\ Len(WriteAddress(from)) = AddrLen(from)
<1>1. PICK s : s = WriteAddress(from) \o p
  OBVIOUS
<1>3. /\ ReadAddress(s) = from /\ Drop(s, AddrLen(from)) = p
      /\ Len(WriteAddress(from)) = AddrLen(from) /\ s \in Seq(Nat \cup S)
  BY <1>1, ReadsBack, Zenon
<1>4. DecryptPayload(Cipher, EncryptPayload(Cipher, salt, s)) = [ok |-> TRUE, payload |-> s]
  BY <1>3, DecryptOpens, Zenon
<1>5. d.ok /\ d.payload = s
  BY <1>1, <1>4, Opened, Zenon
<1> QED BY <1>1, <1>3, <1>5, Zenon

(* The room for a datagram is a number. *)
LEMMA RoomInt == ASSUME NEW addr \in Addresses, NEW action PROVE Room(action, addr) \in Int
<1>1. <<>> \in Seq(Nat)
  OBVIOUS
<1>2. Len(WriteAddress(addr)) = AddrLen(addr)
  BY <1>1, ReadsBack, Zenon
<1>3. AddrLen(addr) \in Nat
  BY AddressParts DEF AddrLen
<1> QED BY <1>2, <1>3, RelayAssumption DEF Room

(* The other end understands what the source meant. *)
LEMMA Understands ==
  ASSUME NEW h, h.addr \in Addresses, NEW salt, NEW p \in Payloads
  PROVE  Understood(h, Outgoing(h, salt, p)) = [addr |-> h.addr, payload |-> Cut(p, Room(h.action, h.addr))]
<1>0. PICK buf : buf = Cut(p, Room(h.action, h.addr))
  OBVIOUS
<1>1. CASE h.action = "Direct"
  <2>1. Outgoing(h, salt, p) = buf
    BY <1>0, <1>1, Zenon DEF Outgoing
  <2> QED BY <1>0, <1>1, <2>1, Zenon DEF Understood
<1>2. CASE h.action # "Direct"
  <2>1. PICK addr \in Addresses : addr = h.addr
    BY Zenon
  <2>2. buf \in Seq(Byte)
    <3>1. p \in Seq(Byte)
      BY RelayAssumption
    <3>2. Room(h.action, h.addr) \in Int
      BY RoomInt
    <3> QED BY <1>0, <3>1, <3>2, CutSeq, Zenon
  <2>3. PICK d : d = DecryptPayload(Cipher, EncryptPayload(Cipher, salt, WriteAddress(addr) \o buf))
    OBVIOUS
  <2>4. ReadAddress(d.payload) = addr /\ Drop(d.payload, Len(WriteAddress(addr))) = buf
    BY <2>2, <2>3, PacketReads
  <2>5. PICK pkt : pkt = Outgoing(h, salt, p)
    OBVIOUS
  <2>6. pkt = EncryptPayload(Cipher, salt, WriteAddress(addr) \o buf)
    BY <1>0, <1>2, <2>1, <2>5, Zenon DEF Outgoing
  <2>7. DecryptPayload(Cipher, pkt) = d
    BY <2>3, <2>6, Zenon
  <2>8. Understood(h, pkt) =
          [addr |-> ReadAddress(DecryptPayload(Cipher, pkt).payload),
           payload |-> Drop(DecryptPayload(Cipher, pkt).payload,
                            Len(WriteAddress(ReadAddress(DecryptPayload(Cipher, pkt).payload))))]
    BY <1>2, Zenon DEF Understood
  <2> QED BY <1>0, <2>1, <2>4, <2>5, <2>7, <2>8, Zenon
<1> QED BY <1>1, <1>2

(* A socket's record is replaced, or a new one added. *)
LEMMA SocksSet ==
  ASSUME NEW addr, NEW action, NEW socks, SocksOK(addr, action, socks),
         NEW k \in DOMAIN socks, NEW r, SocketOK(addr, action, r)
  PROVE  SocksOK(addr, action, [socks EXCEPT ![k] = r])
<1> DEFINE t == [socks EXCEPT ![k] = r]
           T == {t[i] : i \in DOMAIN t}
<1>1. PICK n \in Nat : DOMAIN socks = 1..n
  BY DEF SocksOK
<1>2. DOMAIN t = 1..n /\ t[k] = r /\ \A i \in DOMAIN socks : i # k => t[i] = socks[i]
  BY <1>1
<1>3. t = [i \in 1..n |-> t[i]]
  BY <1>1
<1> HIDE DEF t
<1>4. t \in Seq(T)
  BY <1>2, <1>3, TableSeq
<1>5. \A i \in DOMAIN t : SocketOK(addr, action, t[i])
  BY <1>1, <1>2, Zenon DEF SocksOK
<1> QED BY <1>4, <1>5, Zenon DEF SocksOK, t

LEMMA OwnSeq == ASSUME NEW S, NEW t \in Seq(S) PROVE t \in Seq({t[i] : i \in DOMAIN t})
<1>1. PICK n \in Nat : n = Len(t) /\ DOMAIN t = 1..n
  OBVIOUS
<1>2. t = [i \in 1..n |-> t[i]]
  BY <1>1
<1> QED BY <1>1, <1>2, TableSeq

LEMMA SocksAppend ==
  ASSUME NEW addr, NEW action, NEW socks, SocksOK(addr, action, socks), NEW r, SocketOK(addr, action, r)
  PROVE  /\ SocksOK(addr, action, Append(socks, r))
         /\ Len(Append(socks, r)) \in DOMAIN Append(socks, r)
         /\ Append(socks, r)[Len(Append(socks, r))] = r
<1> DEFINE t == Append(socks, r)
           T == {t[i] : i \in DOMAIN t}
<1>0. PICK S : S = {socks[k] : k \in DOMAIN socks}
  OBVIOUS
<1>1. socks \in Seq(S)
  BY <1>0, Zenon DEF SocksOK
<1>2. PICK n \in Nat : n = Len(socks) /\ DOMAIN socks = 1..n
  BY <1>1
<1>3. DOMAIN t = 1..(n + 1) /\ Len(t) = n + 1 /\ t[n + 1] = r /\ \A i \in 1..n : t[i] = socks[i]
  BY <1>1, <1>2
<1>4. t \in Seq(S \cup {r})
  BY <1>1
<1> HIDE DEF t
<1>5. t \in Seq(T)
  BY <1>4, OwnSeq
<1>6. ASSUME NEW i \in DOMAIN t PROVE SocketOK(addr, action, t[i])
  <2>1. CASE i = n + 1
    BY <1>3, <2>1, Zenon
  <2>2. CASE i # n + 1
    <3>1. i \in 1..n
      BY <1>3, <2>2
    <3> QED BY <1>2, <1>3, <3>1, Zenon DEF SocksOK
  <2> QED BY <2>1, <2>2
<1>7. SocksOK(addr, action, t)
  BY <1>5, <1>6, Zenon DEF SocksOK
<1>8. n + 1 \in DOMAIN t
  BY <1>3
<1> QED BY <1>3, <1>7, <1>8, Zenon DEF t

(* What may happen to a socket. *)
LEMMA SocketStep ==
  ASSUME NEW addr, NEW action, NEW s, SocketOK(addr, action, s), NEW asked, NEW inbox, NEW reading,
         \A m \in asked : Asked(addr, action, s.src, m),
         \A p \in inbox : Answered(action, s.src, p)
  PROVE  /\ SocketOK(addr, action, [s EXCEPT !.asked = asked])
         /\ SocketOK(addr, action, [s EXCEPT !.asked = asked, !.inbox = inbox])
         /\ SocketOK(addr, action, [s EXCEPT !.inbox = inbox])
         /\ SocketOK(addr, action, [s EXCEPT !.inbox = inbox, !.reading = reading])
         /\ SocketOK(addr, action, [s EXCEPT !.reading = reading])
<1> USE DEF SocketOK, SocketFields
<1>1. SocketOK(addr, action, [s EXCEPT !.asked = asked])
  OBVIOUS
<1>2. SocketOK(addr, action, [s EXCEPT !.asked = asked, !.inbox = inbox])
  OBVIOUS
<1>3. SocketOK(addr, action, [s EXCEPT !.inbox = inbox])
  OBVIOUS
<1>4. SocketOK(addr, action, [s EXCEPT !.inbox = inbox, !.reading = reading])
  OBVIOUS
<1>5. SocketOK(addr, action, [s EXCEPT !.reading = reading])
  OBVIOUS
<1> QED BY <1>1, <1>2, <1>3, <1>4, <1>5, Zenon

LEMMA NoSocks == \A addr, action : SocksOK(addr, action, <<>>)
<1>1. <<>> \in Seq({<<>>[k] : k \in DOMAIN <<>>}) /\ DOMAIN <<>> = {}
  OBVIOUS
<1> QED BY <1>1, Zenon DEF SocksOK

(* A step that leaves the address and the datagrams alone. *)
LEMMA DatagramsKept ==
  ASSUME NEW h, Datagrams(h), NEW g, g.addr = h.addr, g.socks = h.socks, g.got = h.got,
         g.st \in Waiting => h.st \in Waiting,
         g.st = "udp" => g.action \in Clients,
         h.st \in {"udp", "done"} => g.st \in {"udp", "done"} /\ g.action = h.action
  PROVE  Datagrams(g)
<1>1. (g.st \in Waiting => g.addr \in Addresses) /\ (g.socks = <<>> => g.got = {})
  BY Zenon DEF Datagrams
<1>2. SocksOK(g.addr, g.action, g.socks) /\ \A x \in g.got : Delivered(g.action, x)
  <2>1. CASE h.socks = <<>>
    BY <2>1, NoSocks, Zenon DEF Datagrams
  <2>2. CASE h.socks # <<>>
    BY <2>2, Zenon DEF Datagrams
  <2> QED BY <2>1, <2>2
<1>3. g.socks # <<>> => g.st \in {"udp", "done"} /\ g.addr \in Addresses /\ g.action \in Clients
  BY Zenon DEF Datagrams
<1> QED BY <1>1, <1>2, <1>3, Zenon DEF Datagrams

(* The steps before a connection is handled, and the end of a UDP handler. *)
LEMMA DatagramsBefore ==
  ASSUME TypeOK, NEW c \in Conns, Datagrams(conn[c]),
         \/ Accept(c) \/ Dispatch(c) \/ ProbeCached(c) \/ ProbeStart(c) \/ ProbeEnd(c)
         \/ HandleUdp(c) \/ UdpEnd(c) \/ HandleTcpEnd(c)
  PROVE  Datagrams(conn'[c])
<1> DEFINE h == conn[c]
<1>0. HandlerOK(h) /\ Chosen(h) /\ DOMAIN h = Fields
  BY DEF TypeOK, HandlerOK
<1>1. CASE Accept(c) \/ HandleTcpEnd(c)
  <2>1. PICK g : /\ conn'[c] = g /\ g.socks = <<>> /\ g.got = {} /\ g.st \in {"dispatch", "done"}
                 /\ g.st = "dispatch" => g.addr \in Addresses
    <3>1. CASE Accept(c)
      <4>1. scenario.arrivals[c].addr \in Addresses
        <5> DEFINE A == [kind : {"tcp", "udp"}, addr : Addresses]
        <5>1. scenario.arrivals \in Seq(A)
          BY RelayAssumption DEF TypeOK
        <5>2. \A a \in A : a.addr \in Addresses
          OBVIOUS
        <5> HIDE DEF A
        <5>3. scenario.arrivals[c] \in A
          BY <5>1 DEF Conns
        <5> QED BY <5>2, <5>3
      <4>2. conn'[c] = [Handler("dispatch") EXCEPT !.kind = scenario.arrivals[c].kind,
                                                   !.addr = scenario.arrivals[c].addr]
        BY <3>1, SetEffect DEF Accept
      <4>3. /\ conn'[c].socks = <<>> /\ conn'[c].got = {} /\ conn'[c].st = "dispatch"
            /\ conn'[c].addr = scenario.arrivals[c].addr
        BY <4>2 DEF Handler
      <4> QED BY <4>1, <4>3
    <3>2. CASE HandleTcpEnd(c)
      <4>1. conn'[c] = Handler("done")
        BY <3>2, SetEffect DEF HandleTcpEnd
      <4> QED BY <4>1 DEF Handler
    <3> QED BY <1>1, <3>1, <3>2
  <2> QED BY <2>1, NoSocks DEF Datagrams, Waiting
<1>2. CASE Dispatch(c)
  <2>1. PICK a :
          \/ conn'[c] = [h EXCEPT !.action = a, !.st = IF a = "Probe" THEN "probe" ELSE "handle"]
          \/ conn'[c] = [h EXCEPT !.st = "done", !.ret = "Err"]
    BY ZenonT(60), <1>2, SetEffect DEF Dispatch
  <2>2. /\ conn'[c].addr = h.addr /\ conn'[c].socks = h.socks /\ conn'[c].got = h.got
        /\ conn'[c].st \in {"probe", "handle", "done"} /\ h.st = "dispatch"
    BY <1>0, <1>2, <2>1 DEF Fields, Dispatch
  <2> QED BY <2>2, DatagramsKept DEF Waiting
<1>3. CASE ProbeCached(c) \/ ProbeStart(c) \/ ProbeEnd(c)
  <2>1. PICK ok : conn'[c] = Probed(h, ok) \/ conn'[c] = [h EXCEPT !.st = "probing"]
    BY <1>3, SetEffect DEF ProbeCached, ProbeStart, ProbeEnd
  <2>2. /\ conn'[c].addr = h.addr /\ conn'[c].socks = h.socks /\ conn'[c].got = h.got
        /\ conn'[c].st \in {"probing", "handle"}
    BY <1>0, <2>1 DEF Fields, Probed
  <2>3. h.st \in {"probe", "probing"}
    BY <1>3 DEF ProbeCached, ProbeStart, ProbeEnd
  <2> QED BY <2>2, <2>3, DatagramsKept DEF Waiting
<1>4. CASE HandleUdp(c) \/ UdpEnd(c)
  <2>1. PICK r \in {"Ok", "Err"} :
          \/ conn'[c] = [h EXCEPT !.st = "done", !.ret = r]
          \/ conn'[c] = [h EXCEPT !.st = "udp"] /\ h.st = "handle" /\ h.action # "Reject"
    BY <1>4, SetEffect DEF HandleUdp, UdpEnd
  <2>2. h.st \in {"handle", "udp"}
    BY <1>4 DEF HandleUdp, UdpEnd
  <2>3. /\ conn'[c].addr = h.addr /\ conn'[c].socks = h.socks /\ conn'[c].got = h.got
        /\ conn'[c].action = h.action /\ conn'[c].st \in {"udp", "done"}
        /\ conn'[c].st = "udp" => h.action \in Clients
    BY <1>0, <2>1 DEF Fields, Chosen, Clients
  <2> QED BY <2>2, <2>3, DatagramsKept DEF Waiting
<1> QED BY <1>1, <1>2, <1>3, <1>4

(* The steps of a TCP handler. *)
LEMMA DatagramsTcp ==
  ASSUME TypeOK, NEW c \in Conns, Datagrams(conn[c]),
         \/ HandleTcp(c) \/ Connect(c) \/ ConnectFails(c) \/ SendAddr(c) \/ Close(c)
         \/ \E w \in Ways : Read(c, w) \/ Write(c, w) \/ Count(c, w) \/ RelayFails(c, w)
                            \/ Make(c, w) \/ ReadEof(c, w)
  PROVE  Datagrams(conn'[c])
<1> DEFINE h == conn[c]
<1>0. HandlerOK(h) /\ DOMAIN h = Fields
  BY DEF TypeOK, HandlerOK
<1>1. ASSUME NEW F, Keeps(c, F), "addr" \notin F, "socks" \notin F, "got" \notin F,
             h.st \in Handled \cup {"handle"}, conn'[c].st \in Handled
      PROVE  Datagrams(conn'[c])
  <2>1. conn'[c].addr = h.addr /\ conn'[c].socks = h.socks /\ conn'[c].got = h.got
    BY <1>1 DEF Keeps, Fields
  <2> QED BY <1>1, <2>1, DatagramsKept DEF Waiting, Handled
<1>2. ASSUME NEW g, Set(c, g), scenario' = scenario, g.addr = h.addr, g.socks = h.socks, g.got = h.got,
             h.st \in Handled \cup {"handle"}, g.st \in Handled
      PROVE  Datagrams(conn'[c])
  <2>1. conn'[c] = g
    BY <1>2, SetEffect
  <2> QED BY <1>2, <2>1, DatagramsKept DEF Waiting, Handled
<1>3. CASE HandleTcp(c)
  BY <1>0, <1>2, <1>3 DEF HandleTcp, Fields, Handled
<1>4. CASE Connect(c)
  BY <1>0, <1>2, <1>4 DEF Connect, Fields, Handled
<1>5. CASE ConnectFails(c)
  BY <1>0, <1>2, <1>5 DEF ConnectFails, Fields, Handled
<1>6. CASE Close(c)
  BY <1>0, <1>2, <1>6 DEF Close, Fields, Handled
<1>7. CASE SendAddr(c)
  <2>1. "up" \in Ways
    BY DEF Ways
  <2>2. h.st = "relay" /\ Keeps(c, {"up"})
    BY <1>7, <2>1, MoveStep
  <2>3. conn'[c].st = "relay"
    BY <2>2 DEF Keeps, Fields
  <2> QED BY <1>1, <2>2, <2>3 DEF Handled
<1>8. ASSUME NEW w \in Ways, Read(c, w) \/ Write(c, w) \/ Make(c, w) PROVE Datagrams(conn'[c])
  <2>1. h.st = "relay" /\ Keeps(c, {w})
    BY <1>8, MoveStep
  <2>2. conn'[c].st = "relay" /\ w \in {"up", "down"}
    BY <2>1 DEF Keeps, Fields, Ways
  <2> QED BY <1>1, <2>1, <2>2 DEF Handled
<1>9. ASSUME NEW w \in Ways, Count(c, w) PROVE Datagrams(conn'[c])
  <2>1. conn'[c] = [h EXCEPT ![w].pc = "read"] /\ h.st = "relay" /\ w \in {"up", "down"}
    BY <1>9, SetEffect DEF Count, Relaying, Ways
  <2>2. /\ conn'[c].addr = h.addr /\ conn'[c].socks = h.socks /\ conn'[c].got = h.got /\ conn'[c].st = "relay"
    BY <1>0, <2>1 DEF Fields
  <2> QED BY <2>1, <2>2, DatagramsKept DEF Waiting
<1>10. ASSUME NEW w \in Ways, RelayFails(c, w) \/ ReadEof(c, w) PROVE Datagrams(conn'[c])
  <2>1. PICK r : conn'[c] = End(h, r) /\ h.st = "relay"
    BY <1>10, SetEffect DEF RelayFails, ReadEof, Relaying
  <2>2. /\ conn'[c].addr = h.addr /\ conn'[c].socks = h.socks /\ conn'[c].got = h.got /\ conn'[c].st = "close"
    BY <1>0, <2>1 DEF Fields, End
  <2> QED BY <2>1, <2>2, DatagramsKept DEF Waiting
<1> QED BY <1>3, <1>4, <1>5, <1>6, <1>7, <1>8, <1>9, <1>10

(* A step of the UDP relay. *)
LEMMA DatagramsMoved ==
  ASSUME NEW h, Datagrams(h), h.st \in {"udp", "done"}, h.addr \in Addresses, h.action \in Clients,
         NEW g, g.st = h.st, g.addr = h.addr, g.action = h.action,
         SocksOK(h.addr, h.action, g.socks), g.socks # <<>>, \A x \in g.got : Delivered(h.action, x)
  PROVE  Datagrams(g)
BY Zenon DEF Datagrams

(* Who has a socket is a UDP relay. *)
LEMMA HasSocks ==
  ASSUME NEW h, Datagrams(h), NEW k \in DOMAIN h.socks
  PROVE  /\ h.st \in {"udp", "done"} /\ h.addr \in Addresses /\ h.action \in Clients
         /\ SocketOK(h.addr, h.action, h.socks[k])
<1>1. h.socks # <<>>
  OBVIOUS
<1> QED BY <1>1, Zenon DEF Datagrams, SocksOK

LEMMA DatagramsSend == ASSUME TypeOK, NEW c \in Conns, Datagrams(conn[c]), UdpSend(c) PROVE Datagrams(conn'[c])
<1> DEFINE h == conn[c]
           new(src) == [src |-> src, reading |-> TRUE, asked |-> {}, inbox |-> {}]
<1>0. /\ DOMAIN h = Fields /\ h.st = "udp" /\ h.addr \in Addresses /\ h.action \in Clients
      /\ SocksOK(h.addr, h.action, h.socks)
  <2>1. DOMAIN h = Fields
    BY DEF TypeOK, HandlerOK
  <2>2. h.st = "udp"
    BY DEF UdpSend
  <2> QED BY <2>1, <2>2 DEF Datagrams, Waiting
<1>1. PICK addr, action, socks : addr = h.addr /\ action = h.action /\ socks = h.socks
  OBVIOUS
<1>2. PICK p \in Payloads, src \in Sources :
        LET k == SocketFor(h, src)
            asked == [src |-> src, sent |-> p, msg |-> Understood(h, Outgoing(h, made, p))]
            s == IF k # 0 THEN h.socks ELSE Append(h.socks, new(src))
            j == IF k # 0 THEN k ELSE Len(s)
        IN Set(c, [h EXCEPT !.socks = [s EXCEPT ![j].asked = @ \cup {asked}]])
  BY ZenonT(60) DEF UdpSend
<1>2a. PICK k, asked, s, j :
        /\ k = SocketFor(h, src)
        /\ asked = [src |-> src, sent |-> p, msg |-> Understood(h, Outgoing(h, made, p))]
        /\ s = IF k # 0 THEN h.socks ELSE Append(h.socks, new(src))
        /\ j = IF k # 0 THEN k ELSE Len(s)
        /\ Set(c, [h EXCEPT !.socks = [s EXCEPT ![j].asked = @ \cup {asked}]])
  BY <1>2, Zenon
<1>3. Asked(addr, action, src, asked)
  <2>1. Understood(h, Outgoing(h, made, p)) = [addr |-> h.addr, payload |-> Cut(p, Room(h.action, h.addr))]
    BY <1>0, Understands
  <2>2. asked = AskedFor(addr, action, src, p)
    BY <1>1, <1>2a, <2>1, Zenon DEF AskedFor
  <2> QED BY <2>2, Zenon DEF Asked
<1>4. SocksOK(addr, action, s) /\ j \in DOMAIN s /\ s[j].src = src
  <2>1. CASE k # 0
    <3>0. SocketFor(h, src) # 0
      BY <1>2a, <2>1, Zenon
    <3>1. \E i \in DOMAIN h.socks : h.socks[i].src = src
      BY <3>0, Zenon DEF SocketFor
    <3>2. k \in DOMAIN h.socks /\ h.socks[k].src = src
      BY <1>2a, <3>1, Zenon DEF SocketFor
    <3>3. s = h.socks /\ j = k
      BY <1>2a, <2>1, Zenon
    <3> QED BY <1>0, <1>1, <3>2, <3>3, Zenon
  <2>2. CASE k = 0
    <3>1. PICK r : r = new(src)
      OBVIOUS
    <3>2. SocketOK(addr, action, r) /\ r.src = src
      BY <3>1 DEF SocketOK, SocketFields
    <3>3. s = Append(socks, r) /\ j = Len(s)
      BY <1>1, <1>2a, <2>2, <3>1, Zenon
    <3>4. SocksOK(addr, action, socks)
      BY <1>0, <1>1, Zenon
    <3> HIDE <3>1, <1>2a, <1>1
    <3>5. /\ SocksOK(addr, action, Append(socks, r))
          /\ Len(Append(socks, r)) \in DOMAIN Append(socks, r)
          /\ Append(socks, r)[Len(Append(socks, r))] = r
      BY <3>2, <3>4, SocksAppend
    <3> QED BY <3>2, <3>3, <3>5, Zenon
  <2> QED BY <2>1, <2>2
<1>5. SocksOK(addr, action, [s EXCEPT ![j].asked = @ \cup {asked}])
  <2>1. SocketOK(addr, action, s[j])
    BY <1>4, Zenon DEF SocksOK
  <2>2. PICK all : all = s[j].asked \cup {asked}
    OBVIOUS
  <2>3. \A m \in all : Asked(addr, action, s[j].src, m)
    BY <1>3, <1>4, <2>1, <2>2, Zenon DEF SocketOK
  <2>4. \A q \in s[j].inbox : Answered(action, s[j].src, q)
    BY <2>1, Zenon DEF SocketOK
  <2>5. SocketOK(addr, action, [s[j] EXCEPT !.asked = all])
    BY <2>1, <2>3, <2>4, SocketStep
  <2>6. SocksOK(addr, action, [s EXCEPT ![j] = [s[j] EXCEPT !.asked = all]])
    BY <1>4, <2>5, SocksSet
  <2>7. [s EXCEPT ![j].asked = @ \cup {asked}] = [s EXCEPT ![j] = [s[j] EXCEPT !.asked = all]]
    BY <2>2
  <2> QED BY <2>6, <2>7, Zenon
<1>6. PICK t : t = [s EXCEPT ![j].asked = @ \cup {asked}]
  OBVIOUS
<1>7. conn'[c] = [h EXCEPT !.socks = t]
  <2>1. Set(c, [h EXCEPT !.socks = t])
    BY <1>2a, <1>6, Zenon
  <2>2. scenario' = scenario
    BY DEF UdpSend
  <2> QED BY <2>1, <2>2, SetEffect
<1>8. /\ conn'[c].st = h.st /\ conn'[c].addr = h.addr /\ conn'[c].action = h.action
      /\ conn'[c].got = h.got /\ conn'[c].socks = t
  BY <1>0, <1>7 DEF Fields
<1>9. \A x \in h.got : Delivered(h.action, x)
  BY Zenon DEF Datagrams
<1>10. SocksOK(h.addr, h.action, conn'[c].socks) /\ conn'[c].socks # <<>>
  <2>1. j \in DOMAIN t
    BY <1>4, <1>6
  <2> QED BY <1>1, <1>5, <1>6, <1>8, <2>1
<1> HIDE DEF h
<1>11. Datagrams(h) /\ h.st \in {"udp", "done"}
  BY <1>0 DEF h
<1> QED BY <1>0, <1>8, <1>9, <1>10, <1>11, DatagramsMoved, Zenon

LEMMA WholeSeq == \A S, s : s \in Seq(S) => SubSeq(s, 1, Len(s) - 0) = s
OBVIOUS

LEMMA ServerAddressed == ServerAddr \in Addresses
<1>1. PICK host : host = <<8, 8, 8, 8>>
  OBVIOUS
<1>2. host \in Seq(Byte) /\ Len(host) = 4
  BY <1>1 DEF Byte
<1>3. 53 \in U16
  BY DEF U16
<1>4. ServerAddr = [kind |-> "V4", host |-> host, port |-> 53]
  BY <1>1, Zenon DEF ServerAddr
<1> HIDE <1>1
<1> QED BY <1>2, <1>3, <1>4 DEF Addresses

(* An answer that is not cut is a sequence of bytes. *)
LEMMA AnswerSeq ==
  ASSUME NEW action, NEW salt, NEW from \in Addresses, NEW p \in Payloads
  PROVE  \E S : Answer(action, salt, from, p) \in Seq(S)
<1>0. p \in Seq(Byte)
  BY RelayAssumption
<1>1. CASE action = "Direct"
  BY <1>0, <1>1, Zenon DEF Answer
<1>2. CASE action # "Direct"
  <2>3. PICK T : WriteAddress(from) \o p \in Seq(T)
    BY <1>0, ReadsBack, Zenon
  <2>4. PICK s \in Seq(T) : s = WriteAddress(from) \o p
    BY <2>3, Zenon
  <2>5. PICK tag \in Nat : tag = IF Cipher = "aead" THEN TagSize ELSE 0
    BY DatagramAssumption
  <2>6. PICK n : n = Len(s)
    OBVIOUS
  <2>7. \E U : EncryptPayload(Cipher, salt, s) \in Seq(U)
    BY <2>5, <2>6, EncryptedPlaces, Zenon
  <2>8. Answer(action, salt, from, p) = EncryptPayload(Cipher, salt, s)
    BY <1>2, <2>4, Zenon DEF Answer
  <2> QED BY <2>7, <2>8, Zenon
<1> QED BY <1>1, <1>2

LEMMA AskedFields ==
  \A addr, action, src, p :
    /\ AskedFor(addr, action, src, p).src = src /\ AskedFor(addr, action, src, p).sent = p
    /\ AskedFor(addr, action, src, p).msg = [addr |-> addr, payload |-> Cut(p, Room(action, addr))]
    /\ AskedFor(addr, action, src, p).msg.addr = addr
BY DEF AskedFor

(* What comes in for a socket. *)
LEMMA AnswerComes ==
  ASSUME NEW action, NEW src, NEW salt, NEW from \in Addresses, NEW cut \in {0, 1}, NEW p \in Payloads,
         NEW whole, whole = Answer(action, salt, from, p), NEW packet, packet = SubSeq(whole, 1, Len(whole) - cut)
  PROVE  Answered(action, src, [packet |-> packet, of |-> src, sent |-> p, cut |-> cut # 0])
<1>1. cut = 0 => packet = whole
  <2>1. PICK S : whole \in Seq(S)
    BY AnswerSeq, Zenon
  <2>2. SubSeq(whole, 1, Len(whole) - 0) = whole
    BY <2>1, WholeSeq, Zenon
  <2> QED BY <2>2, Zenon
<1>2. PICK q : q = [packet |-> packet, of |-> src, sent |-> p, cut |-> cut # 0]
  OBVIOUS
<1>3. q.of = src /\ q.packet = packet /\ q.sent = p /\ (~q.cut => cut = 0)
  BY <1>2
<1> QED BY <1>1, <1>2, <1>3, Zenon DEF Answered

LEMMA TwoUpdates ==
  ASSUME NEW h, NEW k, NEW m, NEW q, "socks" \in DOMAIN h, k \in DOMAIN h.socks,
         DOMAIN h.socks[k] = SocketFields
  PROVE  [h EXCEPT !.socks[k].asked = @ \ {m}, !.socks[k].inbox = @ \cup {q}].socks =
           [h.socks EXCEPT ![k] = [h.socks[k] EXCEPT !.asked = h.socks[k].asked \ {m},
                                                     !.inbox = h.socks[k].inbox \cup {q}]]
<1> DEFINE s == h.socks
           g1 == [h EXCEPT !.socks[k].asked = @ \ {m}]
           g2 == [h EXCEPT !.socks[k].asked = @ \ {m}, !.socks[k].inbox = @ \cup {q}]
           r1 == [s[k] EXCEPT !.asked = s[k].asked \ {m}]
           r2 == [s[k] EXCEPT !.asked = s[k].asked \ {m}, !.inbox = s[k].inbox \cup {q}]
<1>1. g1.socks = [s EXCEPT ![k] = r1] /\ "socks" \in DOMAIN g1
  OBVIOUS
<1>2. g1.socks[k] = r1 /\ k \in DOMAIN g1.socks
  BY <1>1
<1>3. g2.socks = [g1.socks EXCEPT ![k] = [g1.socks[k] EXCEPT !.inbox = @ \cup {q}]]
  OBVIOUS
<1>4. [r1 EXCEPT !.inbox = @ \cup {q}] = r2
  BY DEF SocketFields
<1> HIDE DEF r1, r2, g1, g2
<1>5. g2.socks = [[s EXCEPT ![k] = r1] EXCEPT ![k] = r2]
  BY <1>1, <1>2, <1>3, <1>4
<1>6. g2.socks = [s EXCEPT ![k] = r2]
  BY <1>5
<1> QED BY <1>6, Zenon DEF g2, r2

LEMMA DatagramsAnswer ==
  ASSUME TypeOK, NEW c \in Conns, Datagrams(conn[c]), NEW k \in DOMAIN conn[c].socks, UdpAnswer(c, k)
  PROVE  Datagrams(conn'[c])
<1> DEFINE h == conn[c]
<1>0. /\ DOMAIN h = Fields /\ h.st \in {"udp", "done"} /\ h.addr \in Addresses /\ h.action \in Clients
      /\ SocketOK(h.addr, h.action, h.socks[k]) /\ SocksOK(h.addr, h.action, h.socks)
  <2>1. DOMAIN h = Fields
    BY DEF TypeOK, HandlerOK
  <2>2. SocksOK(h.addr, h.action, h.socks)
    BY Zenon DEF Datagrams
  <2> QED BY <2>1, <2>2, HasSocks, Zenon
<1>1. PICK addr, action, s : addr = h.addr /\ action = h.action /\ s = h.socks[k]
  OBVIOUS
<1>2. PICK m \in h.socks[k].asked, p \in Payloads : \E from \in {m.msg.addr, ServerAddr}, cut \in {0, 1} :
        LET whole == IF h.action = "Direct" THEN p
                     ELSE EncryptPayload(Cipher, scenario.bytes, WriteAddress(from) \o p)
        IN Set(c, [h EXCEPT !.socks[k].asked = @ \ {m},
                            !.socks[k].inbox = @ \cup {[packet |-> SubSeq(whole, 1, Len(whole) - cut),
                                                        of |-> m.src, sent |-> p, cut |-> cut # 0]}])
  BY ZenonT(60) DEF UdpAnswer
<1>3. Asked(addr, action, s.src, m)
  BY <1>0, <1>1, <1>2, Zenon DEF SocketOK
<1>4. m.src = s.src /\ m.msg.addr = addr
  <2>1. PICK sent \in Payloads : m = AskedFor(addr, action, s.src, sent)
    BY <1>3, Zenon DEF Asked
  <2> QED BY <2>1, AskedFields
<1>5. PICK from, cut, whole, packet :
        /\ from \in Addresses /\ cut \in {0, 1}
        /\ whole = IF h.action = "Direct" THEN p
                   ELSE EncryptPayload(Cipher, scenario.bytes, WriteAddress(from) \o p)
        /\ packet = SubSeq(whole, 1, Len(whole) - cut)
        /\ Set(c, [h EXCEPT !.socks[k].asked = @ \ {m},
                            !.socks[k].inbox = @ \cup {[packet |-> packet, of |-> m.src, sent |-> p,
                                                        cut |-> cut # 0]}])
  <2>1. m.msg.addr \in Addresses
    BY <1>0, <1>1, <1>4, Zenon
  <2> QED BY ZenonT(60), <1>2, <2>1, ServerAddressed
<1>6. whole = Answer(action, scenario.bytes, from, p)
  BY <1>1, <1>5, Zenon DEF Answer
<1>7. PICK q : q = [packet |-> packet, of |-> m.src, sent |-> p, cut |-> cut # 0]
  OBVIOUS
<1>8. Answered(action, s.src, q)
  <2>1. Answered(action, s.src, [packet |-> packet, of |-> s.src, sent |-> p, cut |-> cut # 0])
    <3>1. from \in Addresses /\ cut \in {0, 1} /\ packet = SubSeq(whole, 1, Len(whole) - cut)
      BY <1>5, Zenon
    <3> QED BY <1>6, <3>1, AnswerComes, Zenon
  <2> QED BY <1>4, <1>7, <2>1, Zenon
<1>9. PICK asked, inbox : asked = s.asked \ {m} /\ inbox = s.inbox \cup {q}
  OBVIOUS
<1>10. SocketOK(addr, action, [s EXCEPT !.asked = asked, !.inbox = inbox])
  <2>1. SocketOK(addr, action, s)
    BY <1>0, <1>1, Zenon
  <2>2. \A x \in asked : Asked(addr, action, s.src, x)
    BY <1>9, <2>1, Zenon DEF SocketOK
  <2>3. \A x \in inbox : Answered(action, s.src, x)
    BY <1>8, <1>9, <2>1, Zenon DEF SocketOK
  <2> QED BY <2>1, <2>2, <2>3, SocketStep, Zenon
<1>11. PICK t : t = [h.socks EXCEPT ![k] = [s EXCEPT !.asked = asked, !.inbox = inbox]]
  OBVIOUS
<1>12. SocksOK(h.addr, h.action, t)
  BY <1>0, <1>1, <1>10, <1>11, SocksSet, Zenon
<1>13. conn'[c] = [h EXCEPT !.socks[k].asked = @ \ {m}, !.socks[k].inbox = @ \cup {q}]
  <2>1. Set(c, [h EXCEPT !.socks[k].asked = @ \ {m}, !.socks[k].inbox = @ \cup {q}])
    BY <1>5, <1>7, Zenon
  <2>2. scenario' = scenario
    BY Zenon DEF UdpAnswer
  <2> QED BY <2>1, <2>2, SetEffect, Zenon
<1> HIDE <1>2, <1>5
<1>14. /\ conn'[c].st = h.st /\ conn'[c].addr = h.addr /\ conn'[c].action = h.action
       /\ conn'[c].got = h.got
  BY <1>0, <1>13 DEF Fields
<1>15. conn'[c].socks = t
  <2>1. "socks" \in DOMAIN h /\ DOMAIN h.socks[k] = SocketFields
    BY <1>0 DEF Fields, SocketOK
  <2>2. [h EXCEPT !.socks[k].asked = @ \ {m}, !.socks[k].inbox = @ \cup {q}].socks =
          [h.socks EXCEPT ![k] = [h.socks[k] EXCEPT !.asked = h.socks[k].asked \ {m},
                                                    !.inbox = h.socks[k].inbox \cup {q}]]
    BY <2>1, TwoUpdates
  <2>3. t = [h.socks EXCEPT ![k] = [h.socks[k] EXCEPT !.asked = h.socks[k].asked \ {m},
                                                      !.inbox = h.socks[k].inbox \cup {q}]]
    BY <1>1, <1>9, <1>11
  <2> QED BY <1>13, <2>2, <2>3, Zenon
<1>16. \A x \in conn'[c].got : Delivered(h.action, x)
  BY <1>14, Zenon DEF Datagrams
<1>18. conn'[c].socks # <<>>
  <2>1. k \in DOMAIN t
    BY <1>11
  <2> QED BY <1>15, <2>1
<1> HIDE DEF h
<1>17. Datagrams(h) /\ SocksOK(h.addr, h.action, conn'[c].socks)
  BY <1>12, <1>15 DEF h
<1> QED BY <1>0, <1>14, <1>16, <1>17, <1>18, DatagramsMoved, Zenon

(* A packet that fits is received as it is. *)
LEMMA Fits == \A p : Len(p) <= ProxyBuf => Cut(p, ProxyBuf) = p
BY Zenon DEF Cut

(* What a reader hands on. *)
LEMMA ReadDelivers ==
  ASSUME NEW action, NEW src, NEW p, Answered(action, src, p), NEW in, in = Incoming(action, p.packet), in.ok
  PROVE  Delivered(action, [to |-> src, of |-> p.of, sent |-> p.sent, payload |-> in.payload,
                            whole |-> Whole(action, p)])
<1>1. PICK g : g = [to |-> src, of |-> p.of, sent |-> p.sent, payload |-> in.payload, whole |-> Whole(action, p)]
  OBVIOUS
<1>2. g.to = src /\ g.of = p.of /\ g.sent = p.sent /\ g.payload = in.payload /\ g.whole = Whole(action, p)
  BY <1>1
<1>3. p.of = src
  BY Zenon DEF Answered
<1>4. ASSUME Whole(action, p) PROVE in.payload = Kept(action, p.sent)
  <2>1. PICK salt : \E from \in Addresses : p.packet = Answer(action, salt, from, p.sent)
    BY <1>4, Zenon DEF Answered, Whole
  <2>2. PICK from \in Addresses : p.packet = Answer(action, salt, from, p.sent)
    BY <2>1, Zenon
  <2>3. CASE action = "Direct"
    <3>1. p.packet = p.sent
      BY <2>2, <2>3, Zenon DEF Answer
    <3>2. in = [ok |-> TRUE, payload |-> Cut(p.sent, DirectBuf)]
      BY <2>3, <3>1, Zenon DEF Incoming
    <3> QED BY <2>3, <3>2, Opened, Zenon DEF Kept
  <2>4. CASE action # "Direct"
    <3>1. p.packet = EncryptPayload(Cipher, salt, WriteAddress(from) \o p.sent)
      BY <2>2, <2>4, Zenon DEF Answer
    <3>2. Cut(p.packet, ProxyBuf) = p.packet
      BY <1>4, <2>4, Fits, Zenon DEF Whole
    <3>3. PICK d : d = DecryptPayload(Cipher, p.packet)
      OBVIOUS
    <3>4. PICK s \in Seq(Byte) : s = p.sent
      BY RelayAssumption DEF Answered
    <3>5. d.ok /\ ReadAddress(d.payload) = from /\ Drop(d.payload, AddrLen(from)) = s
      <4>1. d = DecryptPayload(Cipher, EncryptPayload(Cipher, salt, WriteAddress(from) \o s))
        BY <3>1, <3>3, <3>4, Zenon
      <4> QED BY <4>1, PacketReads
    <3>6. in = [ok |-> TRUE, payload |-> Drop(d.payload, AddrLen(from))]
      <4>1. from # NoAddress
        BY AddressParts DEF NoAddress
      <4> QED BY <2>4, <3>2, <3>3, <3>5, <4>1, Zenon DEF Incoming
    <3> QED BY <2>4, <3>4, <3>5, <3>6, Opened, Zenon DEF Kept
  <2> QED BY <2>3, <2>4
<1>5. Delivered(action, g)
  BY <1>2, <1>3, <1>4, Zenon DEF Delivered
<1> QED BY <1>1, <1>5, Zenon

(* The handler and the socket once a packet is taken, or is the last. *)
GotOne(h, k, p, got) == [h EXCEPT !.socks[k].inbox = @ \ {p}, !.got = got]
Taken(s, p) == [s EXCEPT !.inbox = s.inbox \ {p}]
TakenLast(h, k, p) == [h EXCEPT !.socks[k].inbox = @ \ {p}, !.socks[k].reading = FALSE]
TakenOff(s, p) == [s EXCEPT !.inbox = s.inbox \ {p}, !.reading = FALSE]

LEMMA InboxGot ==
  ASSUME NEW h, NEW k, NEW p, NEW got, DOMAIN h = Fields, k \in DOMAIN h.socks
  PROVE  GotOne(h, k, p, got).socks = [h.socks EXCEPT ![k] = Taken(h.socks[k], p)]
BY DEF Fields, GotOne, Taken

LEMMA InboxStop ==
  ASSUME NEW h, NEW k, NEW p, DOMAIN h = Fields, k \in DOMAIN h.socks, DOMAIN h.socks[k] = SocketFields
  PROVE  TakenLast(h, k, p).socks = [h.socks EXCEPT ![k] = TakenOff(h.socks[k], p)]
<1> DEFINE s == h.socks
           r1 == [s[k] EXCEPT !.inbox = s[k].inbox \ {p}]
           g1 == [h EXCEPT !.socks[k].inbox = @ \ {p}]
           g2 == TakenLast(h, k, p)
           r2 == TakenOff(s[k], p)
<1>0. "socks" \in DOMAIN h
  BY DEF Fields
<1>1. g1.socks = [s EXCEPT ![k] = r1]
  BY <1>0
<1>2. g1.socks[k] = r1 /\ k \in DOMAIN g1.socks
  BY <1>1
<1>3. g2.socks = [g1.socks EXCEPT ![k] = [g1.socks[k] EXCEPT !.reading = FALSE]]
  BY <1>0 DEF TakenLast
<1>4. [r1 EXCEPT !.reading = FALSE] = r2
  BY DEF SocketFields, TakenOff
<1> HIDE DEF r1, r2, g1, g2
<1>6. g2.socks = [[s EXCEPT ![k] = r1] EXCEPT ![k] = r2]
  BY <1>1, <1>2, <1>3, <1>4
<1>7. g2.socks = [s EXCEPT ![k] = r2]
  BY <1>6
<1> QED BY <1>7, Zenon DEF g2, r2

LEMMA StopReading ==
  ASSUME NEW h, NEW k, DOMAIN h = Fields, k \in DOMAIN h.socks,
         NEW g, g = [h EXCEPT !.socks[k].reading = FALSE],
         NEW r, r = [h.socks[k] EXCEPT !.reading = FALSE]
  PROVE  g.socks = [h.socks EXCEPT ![k] = r]
BY DEF Fields

LEMMA DatagramsRead ==
  ASSUME TypeOK, NEW c \in Conns, Datagrams(conn[c]), NEW k \in DOMAIN conn[c].socks,
         UdpRead(c, k) \/ UdpReadEnds(c, k)
  PROVE  Datagrams(conn'[c])
<1> DEFINE h == conn[c]
<1>0. /\ DOMAIN h = Fields /\ h.st \in {"udp", "done"} /\ h.addr \in Addresses /\ h.action \in Clients
      /\ SocketOK(h.addr, h.action, h.socks[k]) /\ SocksOK(h.addr, h.action, h.socks)
      /\ \A x \in h.got : Delivered(h.action, x)
  <2>1. DOMAIN h = Fields
    BY DEF TypeOK, HandlerOK
  <2>2. SocksOK(h.addr, h.action, h.socks) /\ \A x \in h.got : Delivered(h.action, x)
    BY Zenon DEF Datagrams
  <2> QED BY <2>1, <2>2, HasSocks, Zenon
<1>1. PICK s : s = h.socks[k]
  OBVIOUS
<1>2. DOMAIN h.socks[k] = SocketFields /\ SocketOK(h.addr, h.action, s)
  BY <1>0, <1>1, Zenon DEF SocketOK
<1>3. scenario' = scenario
  BY Zenon DEF UdpRead, UdpReadEnds
<1>4. ASSUME NEW g, Set(c, g), NEW r, SocketOK(h.addr, h.action, r), g.socks = [h.socks EXCEPT ![k] = r],
             g.st = h.st, g.addr = h.addr, g.action = h.action, \A x \in g.got : Delivered(h.action, x)
      PROVE  Datagrams(conn'[c])
  <2>1. conn'[c] = g
    BY <1>3, <1>4, SetEffect, Zenon
  <2>2. SocksOK(h.addr, h.action, g.socks) /\ g.socks # <<>>
    <3>1. SocksOK(h.addr, h.action, [h.socks EXCEPT ![k] = r])
      BY <1>0, <1>4, SocksSet, Zenon
    <3>2. k \in DOMAIN g.socks
      BY <1>4
    <3>3. g.socks # <<>>
      BY <3>2
    <3> QED BY <1>4, <3>1, <3>3, Zenon
  <2> HIDE DEF h
  <2>3. Datagrams(h)
    BY DEF h
  <2> QED BY <1>0, <1>4, <2>1, <2>2, <2>3, DatagramsMoved, Zenon
<1>5. /\ \A x \in s.asked : Asked(h.addr, h.action, s.src, x)
      /\ \A x \in s.inbox : Answered(h.action, s.src, x)
  BY <1>2, Zenon DEF SocketOK
<1>6. CASE UdpReadEnds(c, k)
  <2>1. PICK g : g = [h EXCEPT !.socks[k].reading = FALSE]
    OBVIOUS
  <2>2. Set(c, g)
    BY <1>6, <2>1, Zenon DEF UdpReadEnds
  <2>3. g.st = h.st /\ g.addr = h.addr /\ g.action = h.action /\ g.got = h.got
    BY <1>0, <2>1 DEF Fields
  <2>4. PICK r : r = [s EXCEPT !.reading = FALSE]
    OBVIOUS
  <2>5. SocketOK(h.addr, h.action, r)
    BY <1>2, <1>5, <2>4, SocketStep, Zenon
  <2>6. g.socks = [h.socks EXCEPT ![k] = r]
    <3>1. DOMAIN h = Fields /\ r = [h.socks[k] EXCEPT !.reading = FALSE]
      BY <1>0, <1>1, <2>4, Zenon
    <3> QED BY <2>1, <3>1, StopReading
  <2> QED BY <1>0, <1>4, <2>2, <2>3, <2>5, <2>6, Zenon
<1>7. CASE UdpRead(c, k)
  <2>1. PICK p \in h.socks[k].inbox :
          LET in == Incoming(h.action, p.packet) IN
          Set(c, IF in.ok
                 THEN [h EXCEPT !.socks[k].inbox = @ \ {p},
                                !.got = @ \cup {[to |-> h.socks[k].src, of |-> p.of, sent |-> p.sent,
                                                 payload |-> in.payload, whole |-> Whole(h.action, p)]}]
                 ELSE [h EXCEPT !.socks[k].inbox = @ \ {p}, !.socks[k].reading = FALSE])
    BY <1>7, Zenon DEF UdpRead
  <2>2. PICK in : in = Incoming(h.action, p.packet)
    OBVIOUS
  <2>4. PICK x : x = [to |-> s.src, of |-> p.of, sent |-> p.sent, payload |-> in.payload,
                      whole |-> Whole(h.action, p)]
    OBVIOUS
  <2>5. \/ in.ok /\ Set(c, [h EXCEPT !.socks[k].inbox = @ \ {p}, !.got = @ \cup {x}])
        \/ Set(c, [h EXCEPT !.socks[k].inbox = @ \ {p}, !.socks[k].reading = FALSE])
    BY <1>1, <2>1, <2>2, <2>4, Zenon
  <2> HIDE <2>1
  <2>6. in.ok => Delivered(h.action, x)
    <3>1. Answered(h.action, s.src, p)
      BY <1>1, <1>5, Zenon
    <3>2. in.ok => Delivered(h.action, [to |-> s.src, of |-> p.of, sent |-> p.sent, payload |-> in.payload,
                                        whole |-> Whole(h.action, p)])
      BY <2>2, <3>1, ReadDelivers
    <3> QED BY <2>4, <3>2, Zenon
  <2>7. PICK inbox : inbox = s.inbox \ {p}
    OBVIOUS
  <2>8. \A y \in inbox : Answered(h.action, s.src, y)
    BY <1>5, <2>7, Zenon
  <2>9. CASE in.ok /\ Set(c, [h EXCEPT !.socks[k].inbox = @ \ {p}, !.got = @ \cup {x}])
    <3>1. PICK got : got = h.got \cup {x}
      OBVIOUS
    <3>2. PICK g : g = [h EXCEPT !.socks[k].inbox = @ \ {p}, !.got = got]
      OBVIOUS
    <3>3. g = [h EXCEPT !.socks[k].inbox = @ \ {p}, !.got = @ \cup {x}]
      BY <1>0, <3>1, <3>2 DEF Fields
    <3>4. g.st = h.st /\ g.addr = h.addr /\ g.action = h.action /\ g.got = got
      BY <1>0, <3>2 DEF Fields
    <3>5. \A y \in g.got : Delivered(h.action, y)
      BY <1>0, <2>6, <2>9, <3>1, <3>4, Zenon
    <3>6. PICK r : r = [s EXCEPT !.inbox = inbox]
      OBVIOUS
    <3>7. SocketOK(h.addr, h.action, r)
      BY <1>2, <1>5, <2>8, <3>6, SocketStep, Zenon
    <3>8. g.socks = [h.socks EXCEPT ![k] = r]
      <4>1. g = GotOne(h, k, p, got) /\ r = Taken(h.socks[k], p)
        BY <1>1, <2>7, <3>2, <3>6, Zenon DEF GotOne, Taken
      <4>2. DOMAIN h = Fields
        BY <1>0
      <4>3. GotOne(h, k, p, got).socks = [h.socks EXCEPT ![k] = Taken(h.socks[k], p)]
        BY <4>2, InboxGot
      <4> QED BY <4>1, <4>3, Zenon
    <3> QED BY <1>4, <2>9, <3>3, <3>4, <3>5, <3>7, <3>8, Zenon
  <2>10. CASE Set(c, [h EXCEPT !.socks[k].inbox = @ \ {p}, !.socks[k].reading = FALSE])
    <3>1. PICK g : g = [h EXCEPT !.socks[k].inbox = @ \ {p}, !.socks[k].reading = FALSE]
      OBVIOUS
    <3>2. g.st = h.st /\ g.addr = h.addr /\ g.action = h.action /\ g.got = h.got
      BY <1>0, <3>1 DEF Fields
    <3>3. PICK r : r = [s EXCEPT !.inbox = inbox, !.reading = FALSE]
      OBVIOUS
    <3>4. SocketOK(h.addr, h.action, r)
      BY <1>2, <1>5, <2>8, <3>3, SocketStep, Zenon
    <3>5. g.socks = [h.socks EXCEPT ![k] = r]
      <4>1. g = TakenLast(h, k, p) /\ r = TakenOff(h.socks[k], p)
        BY <1>1, <2>7, <3>1, <3>3, Zenon DEF TakenLast, TakenOff
      <4>2. DOMAIN h = Fields
        BY <1>0
      <4>3. TakenLast(h, k, p).socks = [h.socks EXCEPT ![k] = TakenOff(h.socks[k], p)]
        BY <1>2, <4>2, InboxStop
      <4> QED BY <4>1, <4>3, Zenon
    <3> QED BY <1>0, <1>4, <2>10, <3>1, <3>2, <3>4, <3>5, Zenon
  <2> QED BY <2>5, <2>9, <2>10
<1> QED BY <1>6, <1>7

(* Every step keeps the datagrams in order. *)
LEMMA DatagramsInductive == ASSUME TypeOK, DatagramInv, [Next]_vars PROVE DatagramInv'
<1>1. CASE UNCHANGED vars
  BY <1>1 DEF vars, DatagramInv, Conns
<1>2. CASE Tick \/ \E cl \in Clients : RecycleStats(cl)
  BY <1>2 DEF Tick, RecycleStats, DatagramInv, Conns
<1>3. ASSUME NEW c \in Conns, Accept(c) \/ Handle(c) \/ UdpReader(c) \/ Peers(c) PROVE DatagramInv'
  <2>0. Datagrams(conn[c])
    BY DEF DatagramInv
  <2>1. Datagrams(conn'[c])
    <3>1. CASE \/ Accept(c) \/ Dispatch(c) \/ ProbeCached(c) \/ ProbeStart(c) \/ ProbeEnd(c)
               \/ HandleUdp(c) \/ UdpEnd(c) \/ HandleTcpEnd(c)
      BY <2>0, <3>1, DatagramsBefore
    <3>2. CASE \/ HandleTcp(c) \/ Connect(c) \/ ConnectFails(c) \/ SendAddr(c) \/ Close(c)
               \/ \E w \in Ways : Read(c, w) \/ Write(c, w) \/ Count(c, w) \/ RelayFails(c, w)
                                  \/ Make(c, w) \/ ReadEof(c, w)
      BY <2>0, <3>2, DatagramsTcp
    <3>3. CASE UdpSend(c)
      BY <2>0, <3>3, DatagramsSend
    <3>4. CASE \E k \in DOMAIN conn[c].socks : UdpAnswer(c, k)
      BY <2>0, <3>4, DatagramsAnswer
    <3>5. CASE UdpReader(c)
      BY <2>0, <3>5, DatagramsRead DEF UdpReader
    <3> QED BY <1>3, <3>1, <3>2, <3>3, <3>4, <3>5 DEF Handle, Peers
  <2>2. scenario' = scenario /\ \E h : Set(c, h)
    BY <1>3, ZenonT(60) DEF Accept, Handle, UdpReader, Peers, Dispatch, ProbeCached, ProbeStart, ProbeEnd,
       HandleUdp, UdpEnd, HandleTcpEnd, HandleTcp, Connect, ConnectFails, SendAddr, Close, Read, Write,
       Count, RelayFails, Make, ReadEof, UdpSend, UdpAnswer, UdpRead, UdpReadEnds
  <2>3. Conns' = Conns /\ \A d \in Conns : d # c => conn'[d] = conn[d]
    BY <2>2, SetEffect
  <2> QED BY <2>1, <2>3 DEF DatagramInv
<1> QED BY <1>1, <1>2, <1>3 DEF Next

(* For any payloads, buffers and sources, and for both kinds of cipher: a  *)
(* server gets the connection's address and as much of the datagram as the *)
(* client's buffer holds, and an answer reaches the source whose datagram  *)
(* it answers, with the payload the server sent (1024 bytes of it, for     *)
(* DirectClient), whatever address is in front: read_address reads back    *)
(* every address write_address writes, and decrypt_payload opens what      *)
(* encrypt_payload has sealed.                                             *)
THEOREM DatagramsAnswered == Spec => []DatagramsFindTheirWay
<1>1. Init => DatagramInv
  <2> SUFFICES ASSUME Init, NEW c \in Conns PROVE Datagrams(conn[c])
    BY DEF DatagramInv
  <2>1. conn[c] = Handler("new")
    BY DEF Init
  <2>2. conn[c].socks = <<>> /\ conn[c].got = {} /\ conn[c].st = "new"
    BY <2>1 DEF Handler
  <2> QED BY <2>2, NoSocks DEF Datagrams, Waiting
<1>2. IInv /\ DatagramInv /\ [Next]_vars => DatagramInv'
  BY DatagramsInductive DEF IInv
<1>3. DatagramInv => DatagramsFindTheirWay
  <2> SUFFICES ASSUME DatagramInv, NEW c \in Conns
               PROVE  /\ \A k \in DOMAIN conn[c].socks : \A m \in conn[c].socks[k].asked :
                           m.msg = [addr |-> conn[c].addr,
                                    payload |-> Cut(m.sent, Room(conn[c].action, conn[c].addr))]
                      /\ \A g \in conn[c].got :
                           /\ g.to = g.of
                           /\ g.whole => g.payload = IF conn[c].action = "Direct" THEN Cut(g.sent, DirectBuf)
                                                     ELSE g.sent
    BY Zenon DEF DatagramsFindTheirWay
  <2>1. Datagrams(conn[c])
    BY DEF DatagramInv
  <2>2. \A g \in conn[c].got :
          /\ g.to = g.of
          /\ g.whole => g.payload = IF conn[c].action = "Direct" THEN Cut(g.sent, DirectBuf) ELSE g.sent
    BY <2>1, Zenon DEF Datagrams, Delivered, Kept
  <2>3. ASSUME NEW k \in DOMAIN conn[c].socks, NEW m \in conn[c].socks[k].asked
        PROVE  m.msg = [addr |-> conn[c].addr, payload |-> Cut(m.sent, Room(conn[c].action, conn[c].addr))]
    <3>1. Asked(conn[c].addr, conn[c].action, conn[c].socks[k].src, m)
      BY <2>1, Zenon DEF Datagrams, SocksOK, SocketOK
    <3>2. PICK p \in Payloads : m = AskedFor(conn[c].addr, conn[c].action, conn[c].socks[k].src, p)
      BY <3>1, Zenon DEF Asked
    <3>3. PICK addr, action, src : addr = conn[c].addr /\ action = conn[c].action /\ src = conn[c].socks[k].src
      OBVIOUS
    <3>4. m.sent = p /\ m.msg = [addr |-> addr, payload |-> Cut(p, Room(action, addr))]
      <4>1. m = AskedFor(addr, action, src, p)
        BY <3>2, <3>3, Zenon
      <4> HIDE <3>2, <3>3
      <4> QED BY <4>1, AskedFields
    <3> QED BY <3>3, <3>4, Zenon
  <2> QED BY <2>2, <2>3, Zenon
<1> QED BY <1>1, <1>2, <1>3, Inductive, PTL DEF Spec

=============================================================================
