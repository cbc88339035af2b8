--------------------------- MODULE DnsLookupProofs ---------------------------
(***************************************************************************)
(* Proofs about DnsLookup, for any number of requests, any questions and   *)
(* any time: what is answered is still so, a server is asked only about    *)
(* names of its zones or lookalikes of a domain it was named for, and      *)
(* nobody asks for what is known.  Servers may                             *)
(* answer anything that LookupAssumption types and DelegationsAgree lets   *)
(* them say about each other.                                              *)
(*                                                                         *)
(* The inductive invariant relates three things: the cache to the history  *)
(* of what servers told (CacheOK, LearnedOK), every packet in a task to    *)
(* that history and to the name it was found for (Finding), and every      *)
(* resolve call of a task to the one that waits for it (Stack).            *)
(***************************************************************************)
EXTENDS DnsLookup, Integers, FiniteSetTheorems, SequenceTheorems, WellFoundedInduction, TLAPS

PacketType ==
  [rescode : ResultCodes \cup {"None", "Err"}, answers : Seq(Told), authorities : Seq(Told),
   resources : Seq(Told)]

FrameType ==
  [qname : Names, qtype : Types, recursive : BOOLEAN, idx : Nat, ns : Names \cup {<<>>},
   addr : Addresses \cup {0}, response : PacketType]

(* An answer resolve_cnames has still to look at. *)
PendingType ==
  {x \in [rec : Told, depth : Nat \ {0}, follow : BOOLEAN] : x.follow => x.rec.data \in Names}

(* A record was told, and had not expired at the time. *)
Fresh(rec, asked, H) == \E h \in H : Same(h.rec, rec) /\ ~Expired(h.at, h.rec.ttl, asked)

DeniedFor(qname, qtype, asked, D) ==
  \E d \in D : d.qname = qname /\ d.qtype \in {qtype, "CNAME"} /\ ~Expired(d.at, d.ttl, asked)

(* What resolve may find for the name and the type of a frame. *)
Finding(f, p, asked, H, D) ==
  /\ p \in PacketType
  /\ \A rec \in Elements(p.answers) :
       Fresh(rec, asked, H) /\ (f.qtype = "A" /\ rec.type = "A" => rec.data \in LeadsTo(f.qname))
  /\ p.rescode = "NXDOMAIN" => DeniedFor(f.qname, f.qtype, asked, D)

(* The name is that of a server for a domain qname ends with. *)
ServerOf(name, qname) ==
  \E ns \in Told : ns.type = "NS" /\ ns.data = name /\ EndsWith(qname, ns.domain)

(* The address is that of a server for a zone of qname, or of one that     *)
(* looks like it.                                                          *)
Serves(addr, qname) ==
  (\E zone \in Zones(addr) : IsSuffix(zone, qname)) \/ addr \in Lookalikes(qname)

(* A call of resolve looks for the address of a server the one below it    *)
(* waits for, which has a packet to fall back on.                          *)
Stack(fs, asked, H, D) ==
  \A i \in 1..Len(fs) : i + 1 <= Len(fs) =>
    /\ fs[i].qtype = "A"
    /\ ServerOf(fs[i].qname, fs[i + 1].qname)
    /\ Finding(fs[i + 1], fs[i + 1].response, asked, H, D)

TaskFields ==
  {"pc", "frames", "result", "packet", "unmatched", "later", "depth", "question", "asked"}

(* The answer put together so far. *)
Answered(t, H, D) ==
  /\ t.packet \in PacketType
  /\ \A rec \in Elements(t.packet.answers) : Fresh(rec, t.asked, H)
  /\ t.packet.rescode = "NXDOMAIN" =>
       t.question # <<>> /\ DeniedFor(t.question[1].qname, t.question[1].qtype, t.asked, D)

(* The outermost call is for the question until that has an answer. *)
Asking(t) ==
  t.frames # <<>> /\ t.depth = 0 =>
    /\ t.question # <<>>
    /\ t.frames[Len(t.frames)].qname = t.question[1].qname
    /\ t.frames[Len(t.frames)].qtype = t.question[1].qtype

Base(t, n, H, D) ==
  /\ DOMAIN t = TaskFields
  /\ t.frames \in Seq(FrameType)
  /\ t.unmatched \in Seq(PendingType) /\ t.later \in Seq(PendingType)
  /\ t.depth \in Nat
  /\ t.asked \in Nat /\ t.asked <= n
  /\ Stack(t.frames, t.asked, H, D)
  /\ Answered(t, H, D)
  /\ Asking(t)

(* What holds where the task is. *)
Position(t, strategy, H, D) ==
  /\ t.frames = <<>> <=> t.pc \in {"idle", "reply", "done"}
  /\ t.pc = "idle" => t.packet = NoPacket
  /\ t.pc = "return" => Len(t.frames) > 1 /\ Finding(t.frames[1], t.result, t.asked, H, D)
  /\ t.pc = "nsaddr" => ServerOf(t.frames[1].ns, t.frames[1].qname)
  /\ t.pc = "wait" =>
       /\ t.frames[1].addr \in Addresses
       /\ strategy = "Recursive" => Serves(t.frames[1].addr, t.frames[1].qname)

TasksOK ==
  /\ DOMAIN task = Requests
  /\ \A r \in Requests :
       Base(task[r], now, heard, denied) /\ Position(task[r], resolver.strategy, heard, denied)

(* What servers said. *)
HistoryOK ==
  /\ \A h \in heard : h.at \in Nat /\ h.rec \in Told
  /\ \A d \in denied : d.at \in Nat /\ d.ttl \in Nat

(* A set of the cache: its records were told, and a denial was given. *)
EntryOK(k, rs, H, D) ==
  /\ IsFiniteSet(rs.records)
  /\ \A e \in rs.records : e \in H /\ k = <<e.rec.domain, e.rec.type>>
  /\ rs.records # {} => rs.kind = "Records"
  /\ rs.kind = "NoRecords" => \E d \in D : k = <<d.qname, d.qtype>> /\ d.at = rs.at /\ d.ttl = rs.ttl

CacheOK(c, H, D) == \A k \in DOMAIN c : EntryOK(k, c[k], H, D)

(* What was learned is in the cache, or was denied since. *)
LearnedOK(L, c, n, D) ==
  \A h \in L :
    /\ h.at \in Nat /\ h.at <= n
    /\ \/ /\ <<h.rec.domain, h.rec.type>> \in DOMAIN c
          /\ h \in c[<<h.rec.domain, h.rec.type>>].records
       \/ \E d \in D : d.qname = h.rec.domain /\ d.qtype = h.rec.type /\ d.at \in Nat /\ d.at >= h.at

IInv ==
  /\ now \in Nat
  /\ HistoryOK
  /\ CacheOK(cache, heard, denied)
  /\ LearnedOK(learned, cache, now, denied)
  /\ TasksOK

-----------------------------------------------------------------------------
(* Sequences and sets *)

LEMMA ElementsOf ==
  ASSUME NEW S, NEW s \in Seq(S)
  PROVE  /\ Elements(s) \subseteq S
         /\ \A x \in Elements(s) : \E i \in 1..Len(s) : x = s[i]
         /\ \A i \in 1..Len(s) : s[i] \in Elements(s)
BY DEF Elements

LEMMA ElementsConcat ==
  ASSUME NEW S, NEW s1 \in Seq(S), NEW s2 \in Seq(S)
  PROVE  s1 \o s2 \in Seq(S) /\ Elements(s1 \o s2) = Elements(s1) \cup Elements(s2)
<1>1. s1 \o s2 \in Seq(S)
  OBVIOUS
<1>2. ASSUME NEW x \in Elements(s1 \o s2) PROVE x \in Elements(s1) \cup Elements(s2)
  BY DEF Elements
<1>3. ASSUME NEW x \in Elements(s1) PROVE x \in Elements(s1 \o s2)
  <2>1. PICK i \in 1..Len(s1) : x = s1[i]
    BY DEF Elements
  <2>2. i \in 1..Len(s1 \o s2) /\ (s1 \o s2)[i] = x
    BY <2>1
  <2> QED BY <1>1, <2>2, ElementsOf
<1>4. ASSUME NEW x \in Elements(s2) PROVE x \in Elements(s1 \o s2)
  <2>1. PICK i \in 1..Len(s2) : x = s2[i]
    BY DEF Elements
  <2>2. Len(s1) + i \in 1..Len(s1 \o s2) /\ (s1 \o s2)[Len(s1) + i] = x
    BY <2>1
  <2> QED BY <1>1, <2>2, ElementsOf
<1> QED BY <1>1, <1>2, <1>3, <1>4

LEMMA TailPlaces ==
  ASSUME NEW S, NEW s \in Seq(S), Len(s) > 1
  PROVE  /\ Tail(s) \in Seq(S) /\ Len(Tail(s)) = Len(s) - 1 /\ Tail(s) # <<>>
         /\ \A i \in 1..Len(Tail(s)) : Tail(s)[i] = s[i + 1]
<1>1. s # <<>> /\ Len(s) \in Nat
  OBVIOUS
<1>2. Tail(s) \in Seq(S) /\ Len(Tail(s)) = Len(s) - 1
  BY <1>1
<1>3. Tail(s) # <<>>
  <2>1. PICK u \in Seq(S) : u = Tail(s) /\ Len(u) = Len(s) - 1
    BY <1>2
  <2>2. u # <<>>
    BY <1>1, <2>1
  <2> QED BY <2>1, <2>2, Zenon
<1>4. ASSUME NEW i \in 1..Len(Tail(s)) PROVE Tail(s)[i] = s[i + 1]
  BY <1>1, <1>2
<1> QED BY <1>2, <1>3, <1>4

(* A suffix, by its places. *)
LEMMA SuffixPlaces ==
  ASSUME NEW S, NEW s1 \in Seq(S), NEW s2 \in Seq(S)
  PROVE  IsSuffix(s1, s2) <=>
           Len(s1) <= Len(s2) /\ \A i \in 1..Len(s1) : s1[i] = s2[Len(s2) - Len(s1) + i]
<1> DEFINE r1 == Reverse(s1)
           r2 == Reverse(s2)
           n1 == Len(s1)
           n2 == Len(s2)
<1>1. n1 \in Nat /\ n2 \in Nat
  OBVIOUS
<1>2. r1 \in Seq(S) /\ Len(r1) = n1 /\ \A i \in 1..n1 : r1[i] = s1[n1 - i + 1]
  BY DEF Reverse
<1>3. r2 \in Seq(S) /\ Len(r2) = n2 /\ \A i \in 1..n2 : r2[i] = s2[n2 - i + 1]
  BY DEF Reverse
<1>4. IsSuffix(s1, s2) <=> Len(r1) <= Len(r2) /\ SubSeq(r1, 1, Len(r1)) = SubSeq(r2, 1, Len(r1))
  BY DEF IsSuffix, IsPrefix
<1> HIDE DEF r1, r2
<1>5. SubSeq(r1, 1, Len(r1)) = r1
  BY <1>2
<1>6. ASSUME n1 <= n2 PROVE r1 = SubSeq(r2, 1, n1) <=> \A i \in 1..n1 : r1[i] = r2[i]
  BY <1>1, <1>2, <1>3, <1>6
<1>7. ASSUME n1 <= n2 
      PROVE (\A i \in 1..n1 : r1[i] = r2[i]) <=> \A i \in 1..n1 : s1[i] = s2[n2 - n1 + i]
  <2>1. ASSUME \A i \in 1..n1 : r1[i] = r2[i], NEW i \in 1..n1 PROVE s1[i] = s2[n2 - n1 + i]
    <3>1. n1 - i + 1 \in 1..n1 /\ n1 - i + 1 \in 1..n2
      BY <1>1, <1>7
    <3>2. r1[n1 - i + 1] = r2[n1 - i + 1]
      BY <2>1, <3>1
    <3>3. n1 - (n1 - i + 1) + 1 = i /\ n2 - (n1 - i + 1) + 1 = n2 - n1 + i
      BY <1>1
    <3> QED BY <1>2, <1>3, <3>1, <3>2, <3>3
  <2>2. ASSUME \A i \in 1..n1 : s1[i] = s2[n2 - n1 + i], NEW i \in 1..n1 PROVE r1[i] = r2[i]
    <3>1. n1 - i + 1 \in 1..n1 /\ i \in 1..n2
      BY <1>1, <1>7
    <3>2. s1[n1 - i + 1] = s2[n2 - n1 + (n1 - i + 1)]
      BY <2>2, <3>1
    <3>3. n2 - n1 + (n1 - i + 1) = n2 - i + 1
      BY <1>1
    <3> QED BY <1>2, <1>3, <3>1, <3>2, <3>3
  <2> QED BY <2>1, <2>2
<1> QED BY <1>1, <1>2, <1>3, <1>4, <1>5, <1>6, <1>7

LEMMA SuffixTransitive ==
  ASSUME NEW S, NEW s1 \in Seq(S), NEW s2 \in Seq(S), NEW s3 \in Seq(S),
         IsSuffix(s1, s2), IsSuffix(s2, s3)
  PROVE  IsSuffix(s1, s3)
<1>1. Len(s1) <= Len(s2) /\ \A i \in 1..Len(s1) : s1[i] = s2[Len(s2) - Len(s1) + i]
  BY SuffixPlaces
<1>2. Len(s2) <= Len(s3) /\ \A i \in 1..Len(s2) : s2[i] = s3[Len(s3) - Len(s2) + i]
  BY SuffixPlaces
<1>3. Len(s1) \in Nat /\ Len(s2) \in Nat /\ Len(s3) \in Nat
  OBVIOUS
<1>4. ASSUME NEW i \in 1..Len(s1) PROVE s1[i] = s3[Len(s3) - Len(s1) + i]
  <2>1. Len(s2) - Len(s1) + i \in 1..Len(s2)
    BY <1>1, <1>3
  <2>2. Len(s3) - Len(s2) + (Len(s2) - Len(s1) + i) = Len(s3) - Len(s1) + i
    BY <1>3
  <2> QED BY <1>1, <1>2, <2>1, <2>2
<1>5. Len(s1) <= Len(s3)
  BY <1>1, <1>2, <1>3
<1> QED BY <1>4, <1>5, SuffixPlaces, Zenon

LEMMA SuffixOfTail ==
  ASSUME NEW S, NEW s \in Seq(S), NEW k \in Nat
  PROVE  SubSeq(s, k + 1, Len(s)) \in Seq(S) /\ IsSuffix(SubSeq(s, k + 1, Len(s)), s)
<1> DEFINE u == SubSeq(s, k + 1, Len(s))
<1>1. u \in Seq(S) /\ Len(u) = IF k + 1 <= Len(s) THEN Len(s) - k ELSE 0
  BY SubSeqProperties
<1>2. ASSUME NEW i \in 1..Len(u) PROVE u[i] = s[Len(s) - Len(u) + i]
  <2>1. k + 1 <= Len(s) /\ Len(u) = Len(s) - k
    BY <1>1
  <2>2. u[i] = s[k + i]
    BY <1>1, <2>1
  <2> QED BY <2>1, <2>2
<1>3. Len(u) <= Len(s)
  BY <1>1
<1> HIDE DEF u
<1>4. IsSuffix(u, s)
  BY <1>1, <1>2, <1>3, SuffixPlaces, Zenon
<1> QED BY <1>1, <1>4 DEF u

(* What a suffix ends with, the whole ends with. *)
LEMMA SuffixEndsWith ==
  ASSUME NEW S, NEW s \in Seq(S), NEW u \in Seq(S), NEW d \in Seq(S),
         IsSuffix(u, s), EndsWith(u, d)
  PROVE  EndsWith(s, d)
<1>1. Len(u) <= Len(s) /\ \A i \in 1..Len(u) : u[i] = s[Len(s) - Len(u) + i]
  BY SuffixPlaces
<1>2. /\ Len(d) <= Len(u)
      /\ \A i \in DOMAIN d : IF i = 1 THEN LabelEnds(u[Len(u) - Len(d) + 1], d[1])
                             ELSE u[Len(u) - Len(d) + i] = d[i]
  BY DEF EndsWith
<1>3. Len(s) \in Nat /\ Len(u) \in Nat /\ Len(d) \in Nat /\ DOMAIN d = 1..Len(d)
  OBVIOUS
<1>4. ASSUME NEW i \in DOMAIN d PROVE u[Len(u) - Len(d) + i] = s[Len(s) - Len(d) + i]
  <2>1. Len(u) - Len(d) + i \in 1..Len(u)
    BY <1>2, <1>3
  <2>2. Len(s) - Len(u) + (Len(u) - Len(d) + i) = Len(s) - Len(d) + i
    BY <1>3
  <2> QED BY <1>1, <2>1, <2>2
<1>5. Len(d) <= Len(s)
  BY <1>1, <1>2, <1>3
<1>6. ASSUME NEW i \in DOMAIN d
      PROVE  IF i = 1 THEN LabelEnds(s[Len(s) - Len(d) + 1], d[1])
             ELSE s[Len(s) - Len(d) + i] = d[i]
  BY <1>2, <1>4
<1> QED BY <1>5, <1>6 DEF EndsWith

LEMMA MinIn ==
  ASSUME NEW I, I \subseteq Nat, I # {}
  PROVE  Min(I) \in I
<1> DEFINE less == {ss \in Nat \X Nat : ss[1] < ss[2]}
<1>1. IsWellFoundedOn(less, Nat)
  BY NatLessThanWellFounded, Zenon DEF OpToRel
<1>2. \A a, b \in Nat : a < b => <<a, b>> \in less
  OBVIOUS
<1> HIDE DEF less
<1>3. PICK k \in I : \A j \in I : ~(<<j, k>> \in less)
  BY <1>1, WFMin
<1>4. ASSUME NEW j \in I PROVE k <= j
  <2>1. j \in Nat /\ k \in Nat
    OBVIOUS
  <2>2. ~(j < k)
    BY <1>2, <1>3, <2>1, Zenon
  <2> QED BY <2>1, <2>2
<1> QED BY <1>3, <1>4 DEF Min

(* The answer resolve_cnames follows next is one it has to follow. *)
LEMMA FollowingFound ==
  ASSUME NEW list, Len(list) \in Nat
  PROVE  /\ Following(list) \in 0..Len(list)
         /\ Following(list) # 0 => list[Following(list)].follow
<1> DEFINE I == {i \in 1..Len(list) : list[i].follow}
<1>1. Following(list) = IF I # {} THEN Min(I) ELSE 0
  BY DEF Following, SelectInSeq
<1>2. I \subseteq Nat
  OBVIOUS
<1>3. I # {} => Min(I) \in I
  BY <1>2, MinIn
<1> QED BY <1>1, <1>3

LEMMA SoaFound ==
  ASSUME NEW p \in PacketType
  PROVE  get_ttl_from_soa(p) # 0 => SoaTtl(p) \in Nat
<1> DEFINE s == p.authorities
           I == {i \in 1..Len(s) : s[i].type = "SOA"}
<1>1. s \in Seq(Told)
  BY DEF PacketType
<1>2. get_ttl_from_soa(p) = IF I # {} THEN Min(I) ELSE 0
  BY DEF get_ttl_from_soa, SelectInSeq
<1>3. I \subseteq Nat
  OBVIOUS
<1>4. I # {} => Min(I) \in I
  BY <1>3, MinIn
<1>5. \A i \in I : s[i] \in Told /\ s[i].type = "SOA"
  BY <1>1
<1>6. \A i \in I : s[i].data \in Nat
  BY <1>5, LookupAssumption
<1> QED BY <1>2, <1>4, <1>6 DEF SoaTtl

LEMMA SequencesOfSet ==
  ASSUME NEW T, NEW S \in SUBSET T, IsFiniteSet(S), NEW a \in SetToSeqs(S)
  PROVE  a \in Seq(T) /\ Elements(a) \subseteq S
<1>1. Cardinality(S) \in Nat
  BY FS_CardinalityType
<1>2. a \in [1..Cardinality(S) -> S]
  BY DEF SetToSeqs
<1>3. a \in Seq(S)
  BY <1>1, <1>2
<1> QED BY <1>1, <1>2, <1>3 DEF Elements

-----------------------------------------------------------------------------
(* Tasks *)

(* What is said once stays said. *)
LEMMA FreshGrows ==
  ASSUME NEW H, NEW H2, H \subseteq H2, NEW rec, NEW asked, Fresh(rec, asked, H)
  PROVE  Fresh(rec, asked, H2)
BY Zenon DEF Fresh

LEMMA DeniedGrows ==
  ASSUME NEW D, NEW D2, D \subseteq D2, NEW qname, NEW qtype, NEW asked,
         DeniedFor(qname, qtype, asked, D)
  PROVE  DeniedFor(qname, qtype, asked, D2)
BY Zenon DEF DeniedFor

LEMMA FindingGrows ==
  ASSUME NEW H, NEW H2, H \subseteq H2, NEW D, NEW D2, D \subseteq D2,
         NEW f, NEW p, NEW asked, Finding(f, p, asked, H, D)
  PROVE  Finding(f, p, asked, H2, D2)
BY FreshGrows, DeniedGrows, Zenon DEF Finding

LEMMA TaskGrows ==
  ASSUME NEW t, NEW strategy, NEW n \in Nat, NEW n2 \in Nat, n <= n2,
         NEW H, NEW H2, H \subseteq H2, NEW D, NEW D2, D \subseteq D2,
         Base(t, n, H, D), Position(t, strategy, H, D)
  PROVE  Base(t, n2, H2, D2) /\ Position(t, strategy, H2, D2)
<1>0. \A f, p, asked : Finding(f, p, asked, H, D) => Finding(f, p, asked, H2, D2)
  BY FindingGrows
<1>1. Stack(t.frames, t.asked, H2, D2)
  BY <1>0 DEF Base, Stack
<1>2. Answered(t, H2, D2)
  <2>1. \A rec, asked : Fresh(rec, asked, H) => Fresh(rec, asked, H2)
    BY FreshGrows
  <2>2. \A qname, qtype, asked : DeniedFor(qname, qtype, asked, D) => DeniedFor(qname, qtype, asked, D2)
    BY DeniedGrows
  <2> QED BY <2>1, <2>2 DEF Base, Answered
<1>3. t.asked \in Nat /\ t.asked <= n2
  BY DEF Base
<1>4. Position(t, strategy, H2, D2)
  BY <1>0 DEF Position
<1> QED BY <1>1, <1>2, <1>3, <1>4 DEF Base

LEMMA BaseGrows ==
  ASSUME NEW t, NEW n \in Nat, NEW H, NEW H2, H \subseteq H2, NEW D, NEW D2, D \subseteq D2,
         Base(t, n, H, D), NEW strategy, Position(t, strategy, H, D)
  PROVE  Base(t, n, H2, D2)
<1>1. n <= n
  OBVIOUS
<1> QED BY <1>1, TaskGrows

LEMMA FrameOK ==
  ASSUME NEW qname \in Names, NEW qtype \in Types, NEW recursive \in BOOLEAN
  PROVE  /\ Frame(qname, qtype, recursive) \in FrameType
         /\ Frame(qname, qtype, recursive).qname = qname
         /\ Frame(qname, qtype, recursive).qtype = qtype
<1>1. NoPacket \in PacketType
  BY DEF NoPacket, Packet, PacketType
<1> QED BY <1>1 DEF Frame, FrameType

LEMMA AddressFrame ==
  ASSUME NEW ns \in Names
  PROVE  /\ Frame(ns, "A", TRUE) \in FrameType
         /\ Frame(ns, "A", TRUE).qname = ns /\ Frame(ns, "A", TRUE).qtype = "A"
<1>1. NoPacket \in PacketType
  BY DEF NoPacket, Packet, PacketType
<1> QED BY <1>1 DEF Frame, FrameType, Types

(* A task goes elsewhere. *)
LEMMA GotoOK ==
  ASSUME NEW t, NEW n, NEW H, NEW D, Base(t, n, H, D), NEW pc
  PROVE  /\ Base(Goto(t, pc), n, H, D)
         /\ Goto(t, pc).pc = pc
         /\ \A x \in TaskFields \ {"pc"} : Goto(t, pc)[x] = t[x]
<1> DEFINE u == Goto(t, pc)
<1>1. DOMAIN u = TaskFields /\ u.pc = pc /\ \A x \in TaskFields \ {"pc"} : u[x] = t[x]
  BY DEF Goto, Base, TaskFields
<1>2. /\ u.frames = t.frames /\ u.unmatched = t.unmatched /\ u.later = t.later /\ u.depth = t.depth
      /\ u.asked = t.asked /\ u.packet = t.packet /\ u.question = t.question
  BY <1>1 DEF TaskFields
<1> HIDE DEF u
<1>3. Base(u, n, H, D)
  BY <1>1, <1>2 DEF Base, Answered, Asking
<1> QED BY <1>1, <1>3 DEF u

(* The innermost call is replaced by one for the same name and type. *)
LEMMA SetTopOK ==
  ASSUME NEW t, NEW n, NEW H, NEW D, Base(t, n, H, D), t.frames # <<>>,
         NEW g \in FrameType, g.qname = t.frames[1].qname, g.qtype = t.frames[1].qtype
  PROVE  /\ Base(SetTop(t, g), n, H, D)
         /\ SetTop(t, g).frames # <<>> /\ SetTop(t, g).frames[1] = g
         /\ Len(SetTop(t, g).frames) = Len(t.frames)
         /\ \A x \in TaskFields \ {"frames"} : SetTop(t, g)[x] = t[x]
<1> DEFINE u == SetTop(t, g)
           fs == [t.frames EXCEPT ![1] = g]
<1>1. t.frames \in Seq(FrameType) /\ Len(t.frames) \in Nat /\ 1 \in 1..Len(t.frames)
  BY DEF Base
<1>2. /\ fs \in Seq(FrameType) /\ Len(fs) = Len(t.frames) /\ fs[1] = g /\ fs # <<>>
      /\ \A i \in 1..Len(fs) : i # 1 => fs[i] = t.frames[i]
  BY <1>1
<1>3. DOMAIN u = TaskFields /\ u.frames = fs /\ \A x \in TaskFields \ {"frames"} : u[x] = t[x]
  BY DEF SetTop, Base, TaskFields
<1>4. /\ u.unmatched = t.unmatched /\ u.later = t.later /\ u.depth = t.depth
      /\ u.asked = t.asked /\ u.packet = t.packet /\ u.question = t.question
  BY <1>3 DEF TaskFields
<1> HIDE DEF u, fs
<1>5. Stack(fs, t.asked, H, D)
  <2>1. Stack(t.frames, t.asked, H, D)
    BY DEF Base
  <2> SUFFICES ASSUME NEW i \in 1..Len(fs), i + 1 <= Len(fs)
               PROVE  /\ fs[i].qtype = "A"
                      /\ ServerOf(fs[i].qname, fs[i + 1].qname)
                      /\ Finding(fs[i + 1], fs[i + 1].response, t.asked, H, D)
    BY DEF Stack
  <2>2. fs[i + 1] = t.frames[i + 1]
    BY <1>1, <1>2
  <2>3. fs[i].qtype = t.frames[i].qtype /\ fs[i].qname = t.frames[i].qname
    BY <1>2
  <2> QED BY <1>2, <2>1, <2>2, <2>3 DEF Stack
<1>6. Asking(u)
  <2>1. fs[Len(fs)].qname = t.frames[Len(t.frames)].qname /\ fs[Len(fs)].qtype = t.frames[Len(t.frames)].qtype
    BY <1>1, <1>2
  <2> QED BY <1>3, <1>4, <2>1 DEF Base, Asking
<1>7. Base(u, n, H, D)
  BY <1>2, <1>3, <1>4, <1>5, <1>6 DEF Base, Answered
<1> QED BY <1>2, <1>3, <1>7 DEF u

(* A call of resolve starts. *)
LEMMA CallOK ==
  ASSUME NEW t, NEW n, NEW H, NEW D, NEW strategy, Base(t, n, H, D), NEW f \in FrameType,
         t.frames # <<>> =>
           /\ f.qtype = "A" /\ ServerOf(f.qname, t.frames[1].qname)
           /\ Finding(t.frames[1], t.frames[1].response, t.asked, H, D),
         t.frames = <<>> /\ t.depth = 0 =>
           t.question # <<>> /\ f.qname = t.question[1].qname /\ f.qtype = t.question[1].qtype
  PROVE  Base(Call(t, f), n, H, D) /\ Position(Call(t, f), strategy, H, D)
<1> DEFINE u == Call(t, f)
           fs == <<f>> \o t.frames
<1>1. t.frames \in Seq(FrameType) /\ Len(t.frames) \in Nat
  BY DEF Base
<1>2. /\ fs \in Seq(FrameType) /\ Len(fs) = Len(t.frames) + 1 /\ fs[1] = f
      /\ \A i \in 1..Len(t.frames) : fs[i + 1] = t.frames[i]
  BY <1>1
<1>3. DOMAIN u = TaskFields /\ u.frames = fs /\ u.pc = "resolve"
  BY DEF Call, Base, TaskFields
<1>4. /\ u.unmatched = t.unmatched /\ u.later = t.later /\ u.depth = t.depth
      /\ u.asked = t.asked /\ u.packet = t.packet /\ u.question = t.question
  BY DEF Call, Base, TaskFields
<1> HIDE DEF u, fs
<1>5. Stack(fs, t.asked, H, D)
  <2>1. Stack(t.frames, t.asked, H, D)
    BY DEF Base
  <2> SUFFICES ASSUME NEW i \in 1..Len(fs), i + 1 <= Len(fs)
               PROVE  /\ fs[i].qtype = "A"
                      /\ ServerOf(fs[i].qname, fs[i + 1].qname)
                      /\ Finding(fs[i + 1], fs[i + 1].response, t.asked, H, D)
    BY DEF Stack
  <2>2. CASE i = 1
    <3>1. t.frames # <<>> /\ fs[i] = f /\ fs[i + 1] = t.frames[1]
      BY <1>1, <1>2, <2>2
    <3> QED BY <3>1
  <2>3. CASE i # 1
    <3>1. i - 1 \in 1..Len(t.frames) /\ (i - 1) + 1 <= Len(t.frames)
      BY <1>1, <1>2, <2>3
    <3>2. fs[i] = t.frames[i - 1] /\ fs[i + 1] = t.frames[(i - 1) + 1]
      BY <1>1, <1>2, <2>3, <3>1
    <3> QED BY <2>1, <3>1, <3>2 DEF Stack
  <2> QED BY <2>2, <2>3
<1>6. Asking(u)
  <2>1. CASE t.frames = <<>>
    <3>1. Len(fs) = 1
      BY <1>2, <2>1
    <3> QED BY <1>2, <1>3, <1>4, <2>1, <3>1 DEF Asking
  <2>2. CASE t.frames # <<>>
    <3>1. Len(t.frames) \in 1..Len(t.frames)
      BY <1>1, <2>2
    <3>2. fs[Len(fs)] = t.frames[Len(t.frames)]
      BY <1>2, <3>1
    <3> QED BY <1>3, <1>4, <2>2, <3>2 DEF Asking, Base
  <2> QED BY <2>1, <2>2
<1>7. Base(u, n, H, D)
  BY <1>2, <1>3, <1>4, <1>5, <1>6 DEF Base, Answered
<1>8. Position(u, strategy, H, D)
  <2>1. fs # <<>>
    BY <1>1, <1>2
  <2> QED BY <1>3, <2>1 DEF Position
<1> QED BY <1>7, <1>8 DEF u

(* The answers of a packet, for resolve_cnames. *)
LEMMA UnmatchedOK ==
  ASSUME NEW p \in PacketType, NEW depth \in Nat
  PROVE  Unmatched(p, depth) \in Seq(PendingType)
<1> DEFINE s == p.answers
           follow(rec) ==
             rec \in get_unresolved_cnames(p) /\ depth + 1 <= 10 /\ rec.type \in {"CNAME", "SRV"}
           x(i) == [rec |-> s[i], depth |-> depth + 1, follow |-> follow(s[i])]
<1>1. s \in Seq(Told)
  BY DEF PacketType
<1>2. ASSUME NEW i \in DOMAIN s PROVE x(i) \in PendingType
  <2>1. s[i] \in Told
    BY <1>1
  <2>2. follow(s[i]) => s[i].data \in Names
    BY <2>1, LookupAssumption
  <2>3. follow(s[i]) \in BOOLEAN
    OBVIOUS
  <2>4. depth + 1 \in Nat \ {0}
    OBVIOUS
  <2> HIDE DEF s, follow
  <2> QED BY <2>1, <2>2, <2>3, <2>4 DEF PendingType
<1>3. Unmatched(p, depth) = [i \in DOMAIN s |-> x(i)]
  BY DEF Unmatched
<1> HIDE DEF x
<1>4. DOMAIN s = 1..Len(s) /\ Len(s) \in Nat
  BY <1>1
<1> HIDE DEF s
<1>5. [i \in DOMAIN s |-> x(i)] \in [1..Len(s) -> PendingType]
  BY <1>2, <1>4
<1> QED BY <1>3, <1>4, <1>5

(* The next alias is followed, or the answer is complete. *)
LEMMA ResolveCnamesOK ==
  ASSUME NEW t, NEW n, NEW H, NEW D, NEW strategy, Base(t, n, H, D), t.frames = <<>>
  PROVE  /\ Base(ResolveCnames(t), n, H, D)
         /\ Position(ResolveCnames(t), strategy, H, D)
         /\ ResolveCnames(t).pc \in {"resolve", "reply"}
<1> DEFINE t1(list, later, i) ==
             [t EXCEPT !.unmatched = SubSeq(list, i + 1, Len(list)), !.later = later,
                       !.depth = list[i].depth]
           follow(list, later) ==
             Call(t1(list, later, Following(list)), Frame(list[Following(list)].rec.data, "A", TRUE))
<1>1. ASSUME NEW list \in Seq(PendingType), NEW later \in Seq(PendingType), Following(list) # 0
      PROVE  /\ Base(follow(list, later), n, H, D)
             /\ Position(follow(list, later), strategy, H, D)
             /\ follow(list, later).pc = "resolve"
  <2> DEFINE i == Following(list)
             u == t1(list, later, i)
             f == Frame(list[i].rec.data, "A", TRUE)
  <2>1. i \in 1..Len(list) /\ list[i].follow
    BY <1>1, FollowingFound
  <2>2. list[i] \in PendingType
    BY <2>1
  <2>3. list[i].depth \in Nat /\ list[i].depth # 0 /\ list[i].rec.data \in Names
    BY <2>1, <2>2 DEF PendingType
  <2>4. f \in FrameType
    BY <2>3, FrameOK DEF Types
  <2>5. SubSeq(list, i + 1, Len(list)) \in Seq(PendingType)
    BY <2>1
  <2>6. /\ DOMAIN u = TaskFields /\ u.unmatched = SubSeq(list, i + 1, Len(list)) /\ u.later = later
        /\ u.depth = list[i].depth /\ u.frames = t.frames /\ u.asked = t.asked
        /\ u.packet = t.packet /\ u.question = t.question
    BY DEF Base, TaskFields
  <2> HIDE DEF u, i, f
  <2>7. Base(u, n, H, D)
    BY <2>3, <2>5, <2>6 DEF Base, Answered, Asking
  <2>8. u.frames = <<>> /\ u.depth # 0
    BY <2>3, <2>6
  <2>9. Base(Call(u, f), n, H, D) /\ Position(Call(u, f), strategy, H, D)
    BY <2>4, <2>7, <2>8, CallOK
  <2>10. Call(u, f).pc = "resolve"
    BY <2>6 DEF Call, TaskFields
  <2> QED BY <2>9, <2>10 DEF u, f, i
<1>2. t.unmatched \in Seq(PendingType) /\ t.later \in Seq(PendingType) /\ <<>> \in Seq(PendingType)
  BY DEF Base
<1>3. CASE Following(t.unmatched) # 0
  <2>1. ResolveCnames(t) = follow(t.unmatched, t.later)
    BY <1>3 DEF ResolveCnames
  <2> HIDE DEF follow
  <2> QED BY <1>1, <1>2, <1>3, <2>1
<1>4. CASE Following(t.unmatched) = 0 /\ Following(t.later) # 0
  <2>1. ResolveCnames(t) = follow(t.later, <<>>)
    BY <1>4 DEF ResolveCnames
  <2> HIDE DEF follow
  <2> QED BY <1>1, <1>2, <1>4, <2>1
<1>5. CASE Following(t.unmatched) = 0 /\ Following(t.later) = 0
  <2> DEFINE u == [t EXCEPT !.pc = "reply", !.depth = 0]
  <2>1. ResolveCnames(t) = u
    BY <1>5 DEF ResolveCnames
  <2>2. /\ DOMAIN u = TaskFields /\ u.pc = "reply" /\ u.depth = 0 /\ u.frames = t.frames
        /\ u.unmatched = t.unmatched /\ u.later = t.later
        /\ u.asked = t.asked /\ u.packet = t.packet /\ u.question = t.question
    BY DEF Base, TaskFields
  <2> HIDE DEF u
  <2>3. Base(u, n, H, D)
    BY <2>2 DEF Base, Answered, Asking
  <2>4. Position(u, strategy, H, D)
    BY <2>2 DEF Position
  <2> QED BY <2>1, <2>2, <2>3, <2>4
<1> QED BY <1>3, <1>4, <1>5

(* A packet without answers, and no denial, is a finding for any name. *)
LEMMA EmptyFinding ==
  ASSUME NEW code \in ResultCodes \cup {"None", "Err"}, code # "NXDOMAIN",
         NEW f, NEW asked, NEW H, NEW D
  PROVE  Finding(f, Packet(code), asked, H, D)
<1>1. Packet(code) \in PacketType /\ Packet(code).answers = <<>> /\ Packet(code).rescode = code
  BY DEF Packet, PacketType
<1>2. Elements(<<>>) = {}
  BY DEF Elements
<1> QED BY <1>1, <1>2 DEF Finding

LEMMA CollectOK ==
  ASSUME NEW packet \in PacketType, NEW p \in PacketType
  PROVE  /\ Collect(packet, p) \in PacketType
         /\ Collect(packet, p).rescode = packet.rescode
         /\ Collect(packet, p).answers = packet.answers \o p.answers
<1> DEFINE a == packet.answers \o p.answers
           b == packet.authorities \o p.authorities
           c == packet.resources \o p.resources
<1>1. a \in Seq(Told) /\ b \in Seq(Told) /\ c \in Seq(Told)
  BY DEF PacketType
<1>2. Collect(packet, p) = [packet EXCEPT !.answers = a, !.authorities = b, !.resources = c]
  BY DEF Collect, PacketType
<1> HIDE DEF a, b, c
<1>3. [packet EXCEPT !.answers = a, !.authorities = b, !.resources = c] \in PacketType
  BY <1>1 DEF PacketType
<1>4. /\ [packet EXCEPT !.answers = a, !.authorities = b, !.resources = c].rescode = packet.rescode
      /\ [packet EXCEPT !.answers = a, !.authorities = b, !.resources = c].answers = a
  BY DEF PacketType
<1> QED BY <1>2, <1>3, <1>4 DEF a

LEMMA OneOrMore == \A k \in Nat : k >= 1 => (k > 1 \/ k = 1) /\ ~(k > 1 /\ k = 1)
OBVIOUS

(* A call of resolve returns what it found. *)
LEMMA ReturnOK ==
  ASSUME NEW t, NEW n, NEW H, NEW D, NEW strategy, Base(t, n, H, D), t.frames # <<>>,
         NEW p, Finding(t.frames[1], p, t.asked, H, D)
  PROVE  /\ Base(Return(t, p), n, H, D)
         /\ Position(Return(t, p), strategy, H, D)
         /\ Return(t, p).pc \in {"return", "resolve", "reply"}
<1> DEFINE t1 == [t EXCEPT !.frames = <<>>]
<1>0. t.frames \in Seq(FrameType) /\ Len(t.frames) \in Nat /\ Len(t.frames) >= 1 /\ t.depth \in Nat
  BY DEF Base
<1>1. /\ DOMAIN t1 = TaskFields /\ t1.frames = <<>> /\ t1.depth = t.depth
      /\ t1.unmatched = t.unmatched /\ t1.later = t.later
      /\ t1.asked = t.asked /\ t1.packet = t.packet /\ t1.question = t.question
  BY DEF Base, TaskFields
<1>2. Stack(<<>>, t.asked, H, D) /\ <<>> \in Seq(FrameType)
  BY DEF Stack
<1>3. p \in PacketType /\ \A rec \in Elements(p.answers) : Fresh(rec, t.asked, H)
  BY DEF Finding
<1>7. /\ Len(t.frames) > 1 \/ Len(t.frames) = 1
      /\ ~(Len(t.frames) > 1 /\ Len(t.frames) = 1)
  <2>1. PICK k \in Nat : k = Len(t.frames) /\ k >= 1
    BY <1>0
  <2> QED BY <2>1, OneOrMore, Zenon
<1>4. CASE Len(t.frames) > 1
  <2> DEFINE u == [t EXCEPT !.pc = "return", !.result = p]
  <2>1. Return(t, p) = u
    <3>1. Len(t.frames) # 1
      BY <1>4, <1>7
    <3> QED BY <1>4, <3>1, Zenon DEF Return
  <2>2. /\ DOMAIN u = TaskFields /\ u.pc = "return" /\ u.result = p /\ u.frames = t.frames
        /\ u.depth = t.depth /\ u.unmatched = t.unmatched /\ u.later = t.later
        /\ u.asked = t.asked /\ u.packet = t.packet /\ u.question = t.question
    BY DEF Base, TaskFields
  <2> HIDE DEF u
  <2>3. Base(u, n, H, D)
    BY <2>2 DEF Base, Answered, Asking
  <2>4. Position(u, strategy, H, D)
    BY <1>4, <2>2 DEF Position
  <2> QED BY <2>1, <2>2, <2>3, <2>4
<1>5. CASE Len(t.frames) = 1 /\ t.depth = 0
  <2>1. /\ t.question # <<>> /\ t.frames[1].qname = t.question[1].qname
        /\ t.frames[1].qtype = t.question[1].qtype
    BY <1>5 DEF Base, Asking
  <2>2. CASE p = Err
    <3> DEFINE u == [t1 EXCEPT !.pc = "reply", !.packet = Packet("SERVFAIL")]
    <3>1. Return(t, p) = u
      BY <1>5, <2>2 DEF Return
    <3>2. /\ DOMAIN u = TaskFields /\ u.pc = "reply" /\ u.packet = Packet("SERVFAIL")
          /\ u.frames = <<>> /\ u.depth = t.depth /\ u.unmatched = t.unmatched /\ u.later = t.later
          /\ u.asked = t.asked /\ u.question = t.question
      BY <1>1 DEF TaskFields
    <3>3. Finding(t.frames[1], Packet("SERVFAIL"), t.asked, H, D) /\ Packet("SERVFAIL").rescode = "SERVFAIL"
      BY EmptyFinding DEF ResultCodes, Packet
    <3> HIDE DEF u
    <3>4. Answered(u, H, D)
      BY <3>2, <3>3 DEF Answered, Finding
    <3>5. Base(u, n, H, D)
      BY <1>2, <3>2, <3>4 DEF Base, Asking
    <3>6. Position(u, strategy, H, D)
      BY <3>2 DEF Position
    <3> QED BY <3>1, <3>2, <3>5, <3>6
  <2>3. CASE p # Err
    <3> DEFINE u == [t1 EXCEPT !.packet = p, !.unmatched = Unmatched(p, 0)]
    <3>1. Return(t, p) = ResolveCnames(u)
      BY <1>5, <2>3 DEF Return
    <3>2. /\ DOMAIN u = TaskFields /\ u.packet = p /\ u.unmatched = Unmatched(p, 0)
          /\ u.frames = <<>> /\ u.depth = t.depth /\ u.later = t.later
          /\ u.asked = t.asked /\ u.question = t.question
      BY <1>1 DEF TaskFields
    <3>3. Unmatched(p, 0) \in Seq(PendingType)
      BY <1>3, UnmatchedOK
    <3> HIDE DEF u
    <3>4. Answered(u, H, D)
      BY <1>3, <2>1, <3>2 DEF Answered, Finding
    <3>5. Base(u, n, H, D)
      BY <1>2, <3>2, <3>3, <3>4 DEF Base, Asking
    <3> QED BY <3>1, <3>2, <3>5, ResolveCnamesOK
  <2> QED BY <2>2, <2>3
<1>6. CASE Len(t.frames) = 1 /\ t.depth # 0
  <2>1. CASE p = Err
    <3>1. Return(t, p) = ResolveCnames(t1)
      BY <1>6, <2>1 DEF Return
    <3> HIDE DEF t1
    <3>2. Base(t1, n, H, D)
      BY <1>1, <1>2 DEF Base, Answered, Asking
    <3> QED BY <1>1, <3>1, <3>2, ResolveCnamesOK
  <2>2. CASE p # Err
    <3> DEFINE packet == Collect(t.packet, p)
               later == t.later \o Unmatched(p, t.depth)
               u == [t1 EXCEPT !.packet = packet, !.later = later]
    <3>1. Return(t, p) = ResolveCnames(u)
      BY <1>1, <1>6, <2>2 DEF Return
    <3>2. /\ DOMAIN u = TaskFields /\ u.packet = packet /\ u.later = later
          /\ u.frames = <<>> /\ u.depth = t.depth /\ u.unmatched = t.unmatched
          /\ u.asked = t.asked /\ u.question = t.question
      BY <1>1 DEF TaskFields
    <3>3. later \in Seq(PendingType)
      <4>1. Unmatched(p, t.depth) \in Seq(PendingType) /\ t.later \in Seq(PendingType)
        BY <1>0, <1>3, UnmatchedOK DEF Base
      <4> QED BY <4>1
    <3>4. /\ packet \in PacketType /\ packet.rescode = t.packet.rescode
          /\ packet.answers = t.packet.answers \o p.answers
      <4>1. t.packet \in PacketType
        BY DEF Base, Answered
      <4> QED BY <1>3, <4>1, CollectOK
    <3>5. Elements(packet.answers) = Elements(t.packet.answers) \cup Elements(p.answers)
      <4>1. t.packet.answers \in Seq(Told) /\ p.answers \in Seq(Told)
        BY <1>3 DEF Base, Answered, PacketType
      <4> QED BY <3>4, <4>1, ElementsConcat
    <3> HIDE DEF u, packet, later
    <3>6. Answered(u, H, D)
      BY <1>3, <3>2, <3>4, <3>5 DEF Answered, Base
    <3>7. Base(u, n, H, D)
      BY <1>2, <3>2, <3>3, <3>6 DEF Base, Asking
    <3> QED BY <3>1, <3>2, <3>7, ResolveCnamesOK
  <2> QED BY <2>1, <2>2
<1> QED BY <1>4, <1>5, <1>6, <1>7, Zenon

-----------------------------------------------------------------------------
(* The cache is read *)

LEMMA ClocksOK ==
  ASSUME now \in Nat, NEW c \in Clocks
  PROVE  c[1] \in Nat /\ c[2] \in Nat /\ now <= c[1] /\ now <= c[2]
<1>1. c \in {<<now, now>>, <<now, now + 1>>, <<now + 1, now + 1>>}
  BY DEF Clocks
<1> QED BY <1>1

(* What has not expired later has not expired before. *)
LEMMA ExpiredLater ==
  ASSUME NEW at \in Nat, NEW ttl \in Nat, NEW n1 \in Nat, NEW n2 \in Nat, n1 <= n2, ~Expired(at, ttl, n2)
  PROVE  ~Expired(at, ttl, n1)
BY DEF Expired

(* What fill_queryresult appends was told for the name and has not expired. *)
LEMMA FillOK ==
  ASSUME HistoryOK, CacheOK(cache, heard, denied), NEW qname, NEW qtype,
         NEW asked \in Nat, NEW at \in Nat, asked <= at, NEW a \in FillQueryResult(qname, qtype, at)
  PROVE  /\ a \in Seq(Told)
         /\ \A rec \in Elements(a) :
              /\ rec \in Told /\ rec.domain = qname /\ rec.type = qtype
              /\ Fresh(rec, asked, heard)
<1>1. CASE <<qname, qtype>> \notin DOMAIN cache
  <2>1. a = <<>>
    BY <1>1 DEF FillQueryResult
  <2>2. Elements(<<>>) = {}
    BY DEF Elements
  <2> QED BY <2>1, <2>2
<1>2. CASE <<qname, qtype>> \in DOMAIN cache
  <2> DEFINE rs == cache[<<qname, qtype>>]
             E == {e \in rs.records : ~Expired(e.at, e.rec.ttl, at)}
             S == {e.rec : e \in E}
             g == [e \in E |-> e.rec]
  <2>1. EntryOK(<<qname, qtype>>, rs, heard, denied)
    BY <1>2 DEF CacheOK
  <2>2. a \in SetToSeqs(S)
    BY <1>2 DEF FillQueryResult
  <2>3. IsFiniteSet(E)
    BY <2>1, FS_Subset DEF EntryOK
  <2>4. g \in Surjection(E, S)
    BY DEF Surjection
  <2>5. IsFiniteSet(S)
    BY <2>3, <2>4, FS_Surjection
  <2>6. ASSUME NEW e \in E
        PROVE  /\ e.rec \in Told /\ e.rec.domain = qname /\ e.rec.type = qtype
               /\ Fresh(e.rec, asked, heard)
    <3>1. e \in heard /\ <<qname, qtype>> = <<e.rec.domain, e.rec.type>>
      BY <2>1 DEF EntryOK
    <3>2. e.rec \in Told /\ e.at \in Nat
      BY <3>1 DEF HistoryOK
    <3>3. e.rec.ttl \in Nat
      BY <3>2, LookupAssumption
    <3>4. ~Expired(e.at, e.rec.ttl, asked)
      BY <3>2, <3>3, ExpiredLater
    <3>5. Fresh(e.rec, asked, heard)
      BY <3>1, <3>4 DEF Fresh, Same
    <3> QED BY <3>1, <3>2, <3>5
  <2>7. S \subseteq Told
    BY <2>6
  <2>8. a \in Seq(Told) /\ Elements(a) \subseteq S
    BY <2>2, <2>5, <2>7, SequencesOfSet
  <2> QED BY <2>6, <2>8
<1> QED BY <1>1, <1>2

(* The cases of SynchronizedCache::lookup. *)
LEMMA LookupCases ==
  ASSUME NEW qname, NEW qtype, NEW c, NEW p \in Lookup(qname, qtype, c)
  PROVE  \/ CacheState(qname, qtype, now) = "PositiveCache" /\ p \in Positive(qname, qtype, c)
         \/ CacheState(qname, qtype, now) = "NegativeCache" /\ p = Packet("NXDOMAIN")
         \/ CacheState(qname, qtype, now) = "NotCached" /\ p = NoPacket
<1>1. CacheState(qname, qtype, now) \in {"PositiveCache", "NegativeCache", "NotCached"}
  BY DEF CacheState
<1> QED BY <1>1 DEF Lookup

(* What SynchronizedCache::lookup returns; and when it returns nothing,    *)
(* nothing is known.                                                       *)
LEMMA LookupOK ==
  ASSUME now \in Nat, HistoryOK, CacheOK(cache, heard, denied), LearnedOK(learned, cache, now, denied),
         NEW qname, NEW qtype, NEW asked \in Nat, asked <= now,
         NEW c \in Clocks, NEW p \in Lookup(qname, qtype, c)
  PROVE  /\ p \in PacketType
         /\ \A rec \in Elements(p.answers) :
              rec \in Told /\ rec.domain = qname /\ rec.type = qtype /\ Fresh(rec, asked, heard)
         /\ \A rec \in Elements(p.authorities) : rec \in Told /\ rec.domain = qname /\ rec.type = "NS"
         /\ p.rescode = "NXDOMAIN" =>
              \E d \in denied : d.qname = qname /\ d.qtype = qtype /\ ~Expired(d.at, d.ttl, asked)
         /\ p = NoPacket => ~Known(qname, qtype)
<1> DEFINE state == CacheState(qname, qtype, now)
           k == <<qname, qtype>>
           rs == cache[k]
<1>0. Elements(<<>>) = {} /\ <<>> \in Seq(Told)
  BY DEF Elements
<1>1. c[1] \in Nat /\ c[2] \in Nat /\ now <= c[1] /\ now <= c[2]
  BY ClocksOK
<1>2. asked <= c[1] /\ asked <= c[2]
  BY <1>1
<1>3. CASE state = "PositiveCache" /\ p \in Positive(qname, qtype, c)
  <2>1. PICK a \in FillQueryResult(qname, qtype, c[1]), s \in FillQueryResult(qname, "NS", c[2]) :
          p = [rescode |-> "NOERROR", answers |-> a, authorities |-> s, resources |-> <<>>]
    BY <1>3, SMT DEF Positive
  <2>3. /\ a \in Seq(Told)
        /\ \A rec \in Elements(a) :
             rec \in Told /\ rec.domain = qname /\ rec.type = qtype /\ Fresh(rec, asked, heard)
    BY <1>1, <1>2, FillOK
  <2>4. /\ s \in Seq(Told)
        /\ \A rec \in Elements(s) :
             /\ rec \in Told /\ rec.domain = qname /\ rec.type = "NS"
             /\ Fresh(rec, asked, heard)
    <3>1. ASSUME NEW type, NEW at \in Nat, asked <= at, NEW b \in FillQueryResult(qname, type, at)
          PROVE  /\ b \in Seq(Told)
                 /\ \A rec \in Elements(b) :
                      rec \in Told /\ rec.domain = qname /\ rec.type = type /\ Fresh(rec, asked, heard)
      BY <3>1, FillOK
    <3> QED BY <1>1, <1>2, <3>1, Zenon
  <2>5. p \in PacketType
    BY <1>0, <2>1, <2>3, <2>4 DEF PacketType, ResultCodes
  <2>6. p.answers = a /\ p.authorities = s /\ p.rescode = "NOERROR"
    BY <2>1
  <2>7. p # NoPacket
    BY <2>6 DEF NoPacket, Packet
  <2> QED BY <2>3, <2>4, <2>5, <2>6, <2>7
<1>4. CASE state = "NegativeCache" /\ p = Packet("NXDOMAIN")
  <2>2. p \in PacketType /\ p.answers = <<>> /\ p.authorities = <<>> /\ p # NoPacket
    BY <1>4 DEF Packet, NoPacket, PacketType, ResultCodes
  <2>3. k \in DOMAIN cache /\ rs.kind = "NoRecords" /\ ~Expired(rs.at, rs.ttl, now)
    BY <1>4 DEF CacheState
  <2>4. PICK d \in denied : k = <<d.qname, d.qtype>> /\ d.at = rs.at /\ d.ttl = rs.ttl
    BY <2>3 DEF CacheOK, EntryOK
  <2>5. d.at \in Nat /\ d.ttl \in Nat
    BY DEF HistoryOK
  <2>6. ~Expired(d.at, d.ttl, asked)
    BY <2>3, <2>4, <2>5, ExpiredLater
  <2>7. d.qname = qname /\ d.qtype = qtype
    BY <2>4
  <2> QED BY <1>0, <2>2, <2>6, <2>7
<1>5. CASE state = "NotCached" /\ p = NoPacket
  <2>2. p \in PacketType /\ p.answers = <<>> /\ p.authorities = <<>> /\ p.rescode = "None"
    BY <1>5 DEF Packet, NoPacket, PacketType
  <2>3. ASSUME Known(qname, qtype) PROVE FALSE
    <3>1. PICK h \in learned :
            /\ h.rec.domain = qname /\ h.rec.type = qtype /\ ~Expired(h.at, h.rec.ttl, now)
            /\ \A d \in denied : d.qname = qname /\ d.qtype = qtype => d.at < h.at
      BY <2>3 DEF Known
    <3>2. h.at \in Nat /\ <<h.rec.domain, h.rec.type>> = k
      BY <3>1 DEF LearnedOK
    <3>3. ~\E d \in denied : d.qname = h.rec.domain /\ d.qtype = h.rec.type /\ d.at \in Nat /\ d.at >= h.at
      BY <3>1, <3>2
    <3>4. k \in DOMAIN cache /\ h \in rs.records
      BY <3>2, <3>3 DEF LearnedOK
    <3>5. rs.kind = "Records"
      BY <3>4 DEF CacheOK, EntryOK
    <3>6. \E e \in rs.records : ~Expired(e.at, e.rec.ttl, now)
      BY <3>1, <3>4
    <3>7. state = "PositiveCache"
      BY <3>4, <3>5, <3>6 DEF CacheState
    <3> QED BY <1>5, <3>7
  <2> QED BY <1>0, <2>2, <2>3
<1> QED BY <1>3, <1>4, <1>5, LookupCases

(* An address a record gives for a name leads to it. *)
LEMMA LeadsToOwn ==
  ASSUME NEW rec \in Told, rec.type = "A"
  PROVE  rec.data \in LeadsTo(rec.domain)
BY DEF LeadsTo

(* What is cached for a name, or for an alias of it, is a finding. *)
LEMMA LookupFinding ==
  ASSUME now \in Nat, HistoryOK, CacheOK(cache, heard, denied), LearnedOK(learned, cache, now, denied),
         NEW f, NEW qtype \in {f.qtype, "CNAME"}, NEW asked \in Nat, asked <= now,
         NEW c \in Clocks, NEW p \in Lookup(f.qname, qtype, c)
  PROVE  Finding(f, p, asked, heard, denied)
<1>1. /\ p \in PacketType
      /\ \A rec \in Elements(p.answers) :
           rec \in Told /\ rec.domain = f.qname /\ rec.type = qtype /\ Fresh(rec, asked, heard)
      /\ p.rescode = "NXDOMAIN" =>
           \E d \in denied : d.qname = f.qname /\ d.qtype = qtype /\ ~Expired(d.at, d.ttl, asked)
  <2>1. \A name, type : \A q \in Lookup(name, type, c) :
          /\ q \in PacketType
          /\ \A rec \in Elements(q.answers) :
               rec \in Told /\ rec.domain = name /\ rec.type = type /\ Fresh(rec, asked, heard)
          /\ q.rescode = "NXDOMAIN" =>
               \E d \in denied : d.qname = name /\ d.qtype = type /\ ~Expired(d.at, d.ttl, asked)
    BY LookupOK
  <2> QED BY <2>1, SMT
<1>2. p.rescode = "NXDOMAIN" => DeniedFor(f.qname, f.qtype, asked, denied)
  BY <1>1 DEF DeniedFor
<1> QED BY <1>1, <1>2, LeadsToOwn DEF Finding

-----------------------------------------------------------------------------
(* The cache is written *)

LEMMA MaxIn ==
  ASSUME NEW n \in Nat, NEW I \in SUBSET (1..n), I # {}
  PROVE  \E i \in I : \A j \in I : j <= i
<1> DEFINE J == {n - i : i \in I}
<1>1. J \subseteq Nat /\ J # {}
  <2>1. ASSUME NEW i \in I PROVE n - i \in Nat
    OBVIOUS
  <2> QED BY <2>1, Zenon
<1>2. PICK m \in J : \A j \in J : m <= j
  <2> DEFINE less == {ss \in Nat \X Nat : ss[1] < ss[2]}
  <2>1. IsWellFoundedOn(less, Nat)
    BY NatLessThanWellFounded, Zenon DEF OpToRel
  <2>2. \A a, b \in Nat : a < b => <<a, b>> \in less
    OBVIOUS
  <2> HIDE DEF less, J
  <2>3. PICK k \in J : \A j \in J : ~(<<j, k>> \in less)
    BY <1>1, <2>1, WFMin
  <2>4. \A j \in J : ~(j < k)
    BY <1>1, <2>2, <2>3, Zenon
  <2> QED BY <1>1, <2>4
<1>3. PICK i \in I : m = n - i
  BY <1>2
<1>4. ASSUME NEW j \in I PROVE j <= i
  <2>1. n - i <= n - j
    BY <1>2, <1>3
  <2> QED BY <2>1
<1> QED BY <1>4

(* The records that are stored for a key. *)
LEMMA LatestOK ==
  ASSUME NEW recs \in Seq(Told), NEW k
  PROVE  /\ Latest(recs, k) \subseteq Elements(recs)
         /\ IsFiniteSet(Latest(recs, k))
         /\ \A rec \in Latest(recs, k) : k = <<rec.domain, rec.type>>
<1> DEFINE I == {i \in DOMAIN recs :
                   k \in Keys(recs[i]) /\ \A j \in DOMAIN recs : j > i => ~Same(recs[i], recs[j])}
           g == [i \in I |-> recs[i]]
<1>1. Latest(recs, k) = {recs[i] : i \in I}
  BY DEF Latest
<1>2. Len(recs) \in Nat /\ DOMAIN recs = 1..Len(recs)
  OBVIOUS
<1>3. IsFiniteSet(I)
  <2>1. IsFiniteSet(1..Len(recs))
    BY <1>2, FS_Interval
  <2> QED BY <1>2, <2>1, FS_Subset
<1>4. g \in Surjection(I, Latest(recs, k))
  BY <1>1 DEF Surjection
<1>5. IsFiniteSet(Latest(recs, k))
  BY <1>3, <1>4, FS_Surjection
<1>6. ASSUME NEW rec \in Latest(recs, k)
      PROVE rec \in Elements(recs) /\ k = <<rec.domain, rec.type>>
  <2>1. PICK i \in I : rec = recs[i]
    BY <1>1
  <2>2. i \in DOMAIN recs /\ k \in Keys(recs[i])
    OBVIOUS
  <2>3. rec \in Elements(recs)
    BY <2>1, <2>2 DEF Elements
  <2>4. k = <<rec.domain, rec.type>>
    BY <2>1, <2>2 DEF Keys
  <2> QED BY <2>3, <2>4
<1> QED BY <1>5, <1>6

(* A key of a packet has a record that is stored. *)
LEMMA LatestExists ==
  ASSUME NEW recs \in Seq(Told), NEW rec \in Elements(recs), NEW k \in Keys(rec)
  PROVE  Latest(recs, k) # {}
<1> DEFINE I == {i \in 1..Len(recs) : k \in Keys(recs[i])}
<1>1. Len(recs) \in Nat /\ DOMAIN recs = 1..Len(recs)
  OBVIOUS
<1>2. I # {}
  BY <1>1 DEF Elements
<1>3. PICK i \in I : \A j \in I : j <= i
  BY <1>1, <1>2, MaxIn
<1>4. ASSUME NEW j \in DOMAIN recs, j > i, Same(recs[i], recs[j]) PROVE FALSE
  <2>1. Keys(recs[i]) = Keys(recs[j])
    BY <1>4 DEF Same, Keys
  <2>2. j \in I /\ i \in 1..Len(recs)
    BY <1>1, <2>1
  <2>3. j <= i
    BY <1>3, <2>2
  <2> QED BY <1>1, <1>4, <2>2, <2>3
<1>5. recs[i] \in Latest(recs, k)
  BY <1>1, <1>4 DEF Latest
<1> QED BY <1>5

(* What Cache::store leaves under a key. *)
LEMMA StoreAt ==
  ASSUME NEW c, NEW recs \in Seq(Told), NEW k \in DOMAIN Store(c, recs)
  PROVE  \/ k \in DOMAIN c /\ Latest(recs, k) = {} /\ Store(c, recs)[k] = c[k]
         \/ /\ Latest(recs, k) # {}
            /\ Store(c, recs)[k] =
                 StoreRecord(IF k \in DOMAIN c THEN c[k] ELSE Records({}), Latest(recs, k))
<1> DEFINE K == DOMAIN c \cup UNION {Keys(rec) : rec \in Elements(recs)}
<1>1. /\ k \in K
      /\ Store(c, recs)[k] =
           IF Latest(recs, k) = {} THEN c[k]
           ELSE StoreRecord(IF k \in DOMAIN c THEN c[k] ELSE Records({}), Latest(recs, k))
  BY DEF Store
<1>2. ASSUME Latest(recs, k) = {} PROVE k \in DOMAIN c
  BY <1>1, <1>2, LatestExists
<1> QED BY <1>1, <1>2

(* store_record over a set that is in order, or none. *)
LEMMA StoreRecordOK ==
  ASSUME NEW k, NEW rs, NEW recs, NEW H, NEW D, NEW H2, H \subseteq H2, Now(recs) \subseteq H2,
         IsFiniteSet(recs), \A rec \in recs : k = <<rec.domain, rec.type>>,
         IsFiniteSet(rs.records), \A e \in rs.records : e \in H /\ k = <<e.rec.domain, e.rec.type>>
  PROVE  EntryOK(k, StoreRecord(rs, recs), H2, D)
<1> DEFINE kept == {e \in rs.records : \A rec \in recs : ~Same(e.rec, rec)}
           g == [rec \in recs |-> [rec |-> rec, at |-> now]]
<1>1. /\ StoreRecord(rs, recs).records = kept \cup Now(recs)
      /\ StoreRecord(rs, recs).kind = "Records"
  BY DEF StoreRecord, Records, Now
<1>2. IsFiniteSet(kept)
  BY FS_Subset
<1>3. g \in Surjection(recs, Now(recs))
  BY DEF Surjection, Now
<1>4. IsFiniteSet(Now(recs))
  BY <1>3, FS_Surjection
<1>5. IsFiniteSet(kept \cup Now(recs))
  BY <1>2, <1>4, FS_Union
<1>6. ASSUME NEW e \in kept \cup Now(recs) PROVE e \in H2 /\ k = <<e.rec.domain, e.rec.type>>
  <2>1. CASE e \in kept
    BY <2>1
  <2>2. CASE e \in Now(recs)
    BY <2>2 DEF Now
  <2> QED BY <2>1, <2>2
<1> HIDE DEF kept
<1> QED BY <1>1, <1>5, <1>6 DEF EntryOK

(* Cache::store keeps what the cache promises. *)
LEMMA StoreOK ==
  ASSUME NEW c, NEW recs \in Seq(Told), NEW H, NEW D, CacheOK(c, H, D),
         NEW H2, H \subseteq H2, Now(Elements(recs)) \subseteq H2, NEW D2, D \subseteq D2
  PROVE  CacheOK(Store(c, recs), H2, D2)
<1> SUFFICES ASSUME NEW k \in DOMAIN Store(c, recs)
             PROVE  EntryOK(k, Store(c, recs)[k], H2, D2)
  BY DEF CacheOK
<1>1. CASE k \in DOMAIN c /\ Latest(recs, k) = {} /\ Store(c, recs)[k] = c[k]
  <2>1. EntryOK(k, c[k], H, D)
    BY <1>1 DEF CacheOK
  <2>2. EntryOK(k, c[k], H2, D2)
    BY <2>1, Zenon DEF EntryOK
  <2> QED BY <1>1, <2>2
<1>2. CASE Store(c, recs)[k] =
             StoreRecord(IF k \in DOMAIN c THEN c[k] ELSE Records({}), Latest(recs, k))
  <2> DEFINE rs == IF k \in DOMAIN c THEN c[k] ELSE Records({})
             new == Latest(recs, k)
  <2>1. IsFiniteSet(rs.records) /\ \A e \in rs.records : e \in H /\ k = <<e.rec.domain, e.rec.type>>
    <3>1. CASE k \in DOMAIN c
      BY <3>1 DEF CacheOK, EntryOK
    <3>2. CASE k \notin DOMAIN c
      <4>1. rs.records = {}
        BY <3>2 DEF Records
      <4> QED BY <4>1, FS_EmptySet
    <3> QED BY <3>1, <3>2
  <2>2. /\ new \subseteq Elements(recs) /\ IsFiniteSet(new)
        /\ \A rec \in new : k = <<rec.domain, rec.type>>
    BY LatestOK
  <2>3. Now(new) \subseteq H2
    BY <2>2 DEF Now
  <2> HIDE DEF rs, new
  <2>4. EntryOK(k, StoreRecord(rs, new), H2, D2)
    BY <2>1, <2>2, <2>3, StoreRecordOK
  <2> QED BY <1>2, <2>4 DEF rs, new
<1> QED BY <1>1, <1>2, StoreAt

(* What the resolver learns with it is in the cache from then on. *)
LEMMA StoreLearned ==
  ASSUME now \in Nat, NEW c, NEW recs \in Seq(Told), NEW D, NEW D2, D \subseteq D2, NEW L,
         LearnedOK(L, c, now, D)
  PROVE  LearnedOK({h \in L : \A rec \in Elements(recs) : ~Same(h.rec, rec)} \cup Now(LatestOf(recs)),
                   Store(c, recs), now, D2)
<1> DEFINE old == {h \in L : \A rec \in Elements(recs) : ~Same(h.rec, rec)}
           K == DOMAIN c \cup UNION {Keys(rec) : rec \in Elements(recs)}
<1>0. DOMAIN Store(c, recs) = K
  BY DEF Store
<1>1. ASSUME NEW h \in old, NEW k, k = <<h.rec.domain, h.rec.type>>, k \in DOMAIN c, h \in c[k].records
      PROVE  k \in DOMAIN Store(c, recs) /\ h \in Store(c, recs)[k].records
  <2>1. k \in DOMAIN Store(c, recs)
    BY <1>0, <1>1
  <2>2. CASE Store(c, recs)[k] = c[k]
    BY <1>1, <2>1, <2>2
  <2>3. CASE Store(c, recs)[k] =
               StoreRecord(IF k \in DOMAIN c THEN c[k] ELSE Records({}), Latest(recs, k))
    <3>1. \A rec \in Latest(recs, k) : ~Same(h.rec, rec)
      BY LatestOK
    <3>2. Store(c, recs)[k] = StoreRecord(c[k], Latest(recs, k))
      BY <1>1, <2>3
    <3>3. h \in StoreRecord(c[k], Latest(recs, k)).records
      BY <1>1, <3>1 DEF StoreRecord, Records
    <3> QED BY <2>1, <3>2, <3>3
  <2> QED BY <2>1, <2>2, <2>3, StoreAt
<1>2. ASSUME NEW h \in Now(LatestOf(recs)), NEW k, k = <<h.rec.domain, h.rec.type>>
      PROVE  h.at = now /\ k \in DOMAIN Store(c, recs) /\ h \in Store(c, recs)[k].records
  <2>1. PICK rec \in LatestOf(recs) : h = [rec |-> rec, at |-> now]
    BY DEF Now
  <2>2. PICK k2 \in UNION {Keys(rec2) : rec2 \in Elements(recs)} : rec \in Latest(recs, k2)
    BY DEF LatestOf
  <2>3. k2 = k /\ h.at = now
    BY <1>2, <2>1, <2>2, LatestOK
  <2>4. k \in DOMAIN Store(c, recs)
    BY <1>0, <2>2, <2>3
  <2>5. Store(c, recs)[k] = StoreRecord(IF k \in DOMAIN c THEN c[k] ELSE Records({}), Latest(recs, k))
    BY <2>2, <2>3, <2>4, StoreAt
  <2>6. \A rs : h \in StoreRecord(rs, Latest(recs, k)).records
    BY <2>1, <2>2, <2>3 DEF StoreRecord, Records
  <2> QED BY <2>3, <2>4, <2>5, <2>6
<1>3. ASSUME NEW h \in old \cup Now(LatestOf(recs))
      PROVE  /\ h.at \in Nat /\ h.at <= now
             /\ \/ /\ <<h.rec.domain, h.rec.type>> \in DOMAIN Store(c, recs)
                   /\ h \in Store(c, recs)[<<h.rec.domain, h.rec.type>>].records
                \/ \E d \in D2 : d.qname = h.rec.domain /\ d.qtype = h.rec.type /\ d.at \in Nat /\ d.at >= h.at
  <2> DEFINE k == <<h.rec.domain, h.rec.type>>
  <2>1. CASE h \in old
    <3>1. /\ h.at \in Nat /\ h.at <= now
          /\ \/ k \in DOMAIN c /\ h \in c[k].records
             \/ \E d \in D : d.qname = h.rec.domain /\ d.qtype = h.rec.type /\ d.at \in Nat /\ d.at >= h.at
      BY <2>1 DEF LearnedOK
    <3>2. CASE k \in DOMAIN c /\ h \in c[k].records
      BY <1>1, <2>1, <3>1, <3>2
    <3>3. CASE \E d \in D : d.qname = h.rec.domain /\ d.qtype = h.rec.type /\ d.at \in Nat /\ d.at >= h.at
      BY <3>1, <3>3
    <3> QED BY <3>1, <3>2, <3>3
  <2>2. CASE h \in Now(LatestOf(recs))
    BY <1>2, <2>2
  <2> QED BY <2>1, <2>2
<1> QED BY <1>3 DEF LearnedOK

(* Nothing is kept of an answer. *)
LEMMA NothingKept ==
  ASSUME NEW L
  PROVE  {h \in L : \A rec \in Elements(<<>>) : ~Same(h.rec, rec)} \cup Now(LatestOf(<<>>)) = L
<1>1. Elements(<<>>) = {}
  BY DEF Elements
<1>2. LatestOf(<<>>) = {}
  BY <1>1 DEF LatestOf
<1>3. Now(LatestOf(<<>>)) = {}
  BY <1>2 DEF Now
<1> QED BY <1>1, <1>3

LEMMA CacheGrows ==
  ASSUME NEW c, NEW H, NEW D, CacheOK(c, H, D), NEW H2, H \subseteq H2, NEW D2, D \subseteq D2
  PROVE  CacheOK(c, H2, D2)
BY Zenon DEF CacheOK, EntryOK

LEMMA LearnedGrows ==
  ASSUME NEW L, NEW c, NEW n \in Nat, NEW n2 \in Nat, n <= n2, NEW D, LearnedOK(L, c, n, D),
         NEW D2, D \subseteq D2
  PROVE  LearnedOK(L, c, n2, D2)
<1> SUFFICES ASSUME NEW h \in L
             PROVE  /\ h.at \in Nat /\ h.at <= n2
                    /\ \/ /\ <<h.rec.domain, h.rec.type>> \in DOMAIN c
                          /\ h \in c[<<h.rec.domain, h.rec.type>>].records
                       \/ \E d \in D2 : d.qname = h.rec.domain /\ d.qtype = h.rec.type /\ d.at \in Nat /\ d.at >= h.at
  BY DEF LearnedOK
<1> QED BY DEF LearnedOK

(* Cache::store_nxdomain: the denial replaces what was cached. *)
LEMMA StoreNxdomainOK ==
  ASSUME now \in Nat, NEW c, NEW H, NEW D, NEW L, CacheOK(c, H, D), LearnedOK(L, c, now, D),
         NEW qname, NEW qtype, NEW ttl, NEW d, d.qname = qname, d.qtype = qtype, d.at = now, d.ttl = ttl,
         NEW H2, H \subseteq H2, NEW D2, D \subseteq D2, d \in D2
  PROVE  /\ CacheOK(StoreNxdomain(c, qname, qtype, ttl), H2, D2)
         /\ LearnedOK(L, StoreNxdomain(c, qname, qtype, ttl), now, D2)
<1> DEFINE k0 == <<qname, qtype>>
           c2 == StoreNxdomain(c, qname, qtype, ttl)
<1>1. /\ DOMAIN c2 = DOMAIN c \cup {k0} /\ c2[k0] = NoRecords(ttl)
      /\ \A k \in DOMAIN c : k # k0 => c2[k] = c[k]
  BY DEF StoreNxdomain
<1> HIDE DEF c2
<1>2. EntryOK(k0, NoRecords(ttl), H2, D2)
  <2>1. /\ NoRecords(ttl).records = {} /\ NoRecords(ttl).kind = "NoRecords"
        /\ NoRecords(ttl).at = now /\ NoRecords(ttl).ttl = ttl
    BY DEF NoRecords
  <2>2. k0 = <<d.qname, d.qtype>>
    OBVIOUS
  <2> QED BY <2>1, <2>2, FS_EmptySet DEF EntryOK
<1>3. CacheOK(c, H2, D2)
  BY CacheGrows
<1>4. CacheOK(c2, H2, D2)
  BY <1>1, <1>2, <1>3 DEF CacheOK
<1>5. ASSUME NEW h \in L
      PROVE  /\ h.at \in Nat /\ h.at <= now
             /\ \/ /\ <<h.rec.domain, h.rec.type>> \in DOMAIN c2
                   /\ h \in c2[<<h.rec.domain, h.rec.type>>].records
                \/ \E e \in D2 : e.qname = h.rec.domain /\ e.qtype = h.rec.type /\ e.at \in Nat /\ e.at >= h.at
  <2> DEFINE k == <<h.rec.domain, h.rec.type>>
  <2>1. /\ h.at \in Nat /\ h.at <= now
        /\ \/ k \in DOMAIN c /\ h \in c[k].records
           \/ \E e \in D2 : e.qname = h.rec.domain /\ e.qtype = h.rec.type /\ e.at \in Nat /\ e.at >= h.at
    BY DEF LearnedOK
  <2>2. CASE k = k0
    <3>1. d.qname = h.rec.domain /\ d.qtype = h.rec.type /\ d.at \in Nat /\ d.at >= h.at
      BY <2>1, <2>2
    <3> QED BY <2>1, <3>1
  <2>3. CASE k # k0
    BY <1>1, <2>1, <2>3
  <2> QED BY <2>2, <2>3
<1>6. LearnedOK(L, c2, now, D2)
  BY <1>5 DEF LearnedOK
<1> QED BY <1>4, <1>6 DEF c2

-----------------------------------------------------------------------------
(* What a step of a task leaves *)

(* The task of a request changes, and the others see more history. *)
LEMMA OtherTasks ==
  ASSUME now \in Nat, TasksOK, NEW r \in Requests, NEW t, Set(r, t), resolver' = resolver,
         now' \in Nat, now <= now', heard \subseteq heard', denied \subseteq denied',
         Base(t, now', heard', denied'), Position(t, resolver.strategy, heard', denied')
  PROVE  TasksOK'
<1>1. DOMAIN task' = Requests
  BY DEF TasksOK, Set
<1>2. ASSUME NEW q \in Requests
      PROVE  /\ Base(task'[q], now', heard', denied')
             /\ Position(task'[q], resolver'.strategy, heard', denied')
  <2>1. CASE q = r
    <3>1. task'[q] = t
      BY <2>1 DEF TasksOK, Set
    <3> QED BY <3>1
  <2>2. CASE q # r
    <3>1. task'[q] = task[q]
      BY <2>2 DEF TasksOK, Set
    <3>2. Base(task[q], now, heard, denied) /\ Position(task[q], resolver.strategy, heard, denied)
      BY DEF TasksOK
    <3>3. Base(task[q], now', heard', denied') /\ Position(task[q], resolver.strategy, heard', denied')
      BY <3>2, TaskGrows
    <3> QED BY <3>1, <3>3
  <2> QED BY <2>1, <2>2
<1> QED BY <1>1, <1>2 DEF TasksOK

(* A step that hears nothing, and may read the clock. *)
LEMMA QuietStep ==
  ASSUME IInv, NEW r \in Requests, NEW t, Set(r, t), UNCHANGED <<resolver, cache, heard, learned, denied>>,
         now' \in Nat, now <= now',
         Base(t, now, heard, denied), Position(t, resolver.strategy, heard, denied)
  PROVE  IInv'
<1>0. now \in Nat /\ HistoryOK /\ CacheOK(cache, heard, denied) /\ LearnedOK(learned, cache, now, denied) /\ TasksOK
  BY DEF IInv
<1>1. /\ resolver' = resolver /\ cache' = cache /\ heard' = heard /\ learned' = learned /\ denied' = denied
  OBVIOUS
<1>2. HistoryOK' /\ CacheOK(cache, heard, denied)'
  BY <1>0, <1>1 DEF HistoryOK, CacheOK, EntryOK
<1>3. LearnedOK(learned, cache, now, denied)'
  <2>1. LearnedOK(learned, cache, now', denied)
    BY <1>0, LearnedGrows
  <2> QED BY <1>1, <2>1
<1>4. Base(t, now', heard', denied') /\ Position(t, resolver.strategy, heard', denied')
  <2>1. Base(t, now', heard, denied) /\ Position(t, resolver.strategy, heard, denied)
    BY <1>0, TaskGrows
  <2> QED BY <1>1, <2>1
<1>5. heard \subseteq heard' /\ denied \subseteq denied'
  BY <1>1
<1>6. TasksOK'
  BY <1>0, <1>1, <1>4, <1>5, OtherTasks
<1> QED BY <1>2, <1>3, <1>6 DEF IInv

(* The sections of a packet. *)
LEMMA SectionsOK ==
  ASSUME NEW p \in PacketType
  PROVE  /\ p.answers \in Seq(Told) /\ p.authorities \in Seq(Told) /\ p.resources \in Seq(Told)
         /\ Sections(p) \in Seq(Told)
         /\ Elements(Sections(p)) = Elements(p.answers) \cup Elements(p.authorities) \cup Elements(p.resources)
<1> DEFINE a == p.answers
           b == p.authorities
           c == p.resources
<1>1. a \in Seq(Told) /\ b \in Seq(Told) /\ c \in Seq(Told)
  BY DEF PacketType
<1>2. Sections(p) = (a \o b) \o c
  BY DEF Sections
<1> HIDE DEF a, b, c
<1>3. a \o b \in Seq(Told) /\ Elements(a \o b) = Elements(a) \cup Elements(b)
  BY <1>1, ElementsConcat
<1>4. (a \o b) \o c \in Seq(Told) /\ Elements((a \o b) \o c) = Elements(a \o b) \cup Elements(c)
  <2>1. PICK ab \in Seq(Told) : ab = a \o b
    BY <1>3
  <2>2. ab \o c \in Seq(Told) /\ Elements(ab \o c) = Elements(ab) \cup Elements(c)
    BY <1>1, ElementsConcat
  <2> QED BY <2>1, <2>2, Zenon
<1> QED BY <1>1, <1>2, <1>3, <1>4 DEF a, b, c

(* The history after an answer. *)
LEMMA HearOK ==
  ASSUME now \in Nat, HistoryOK, NEW f, NEW p \in PacketType, NEW kept, Hear(f, p, kept)
  PROVE  /\ HistoryOK' /\ heard \subseteq heard' /\ denied \subseteq denied'
         /\ Now(Elements(Sections(p))) \subseteq heard'
         /\ p.rescode = "NXDOMAIN" =>
              \E d \in denied' :
                /\ d.qname = f.qname /\ d.qtype = f.qtype /\ d.at = now /\ d.ttl \in Nat
                /\ get_ttl_from_soa(p) # 0 => d.ttl = SoaTtl(p)
<1> DEFINE ttl == IF get_ttl_from_soa(p) = 0 THEN 0 ELSE SoaTtl(p)
           d0 == [qname |-> f.qname, qtype |-> f.qtype, at |-> now, ttl |-> ttl]
<1>1. ttl \in Nat
  BY SoaFound
<1>2. /\ heard' = heard \cup Now(Elements(Sections(p)))
      /\ denied' = IF p.rescode # "NXDOMAIN" THEN denied ELSE denied \cup {d0}
  BY DEF Hear
<1>3. get_ttl_from_soa(p) # 0 => ttl = SoaTtl(p)
  OBVIOUS
<1> HIDE DEF ttl
<1>4. d0.qname = f.qname /\ d0.qtype = f.qtype /\ d0.at = now /\ d0.ttl = ttl
  OBVIOUS
<1> HIDE DEF d0
<1>5. \A h \in Now(Elements(Sections(p))) : h.at \in Nat /\ h.rec \in Told
  <2>1. Elements(Sections(p)) \subseteq Told
    BY SectionsOK, ElementsOf
  <2> QED BY <2>1 DEF Now
<1>6. HistoryOK'
  BY <1>1, <1>2, <1>4, <1>5 DEF HistoryOK
<1> QED BY <1>1, <1>2, <1>3, <1>4, <1>6

(* What a server answers is a finding for the question. *)
LEMMA UpstreamOK ==
  ASSUME NEW f \in FrameType, f.addr \in Addresses, NEW p \in Upstream(f.addr, f.qname, f.qtype)
  PROVE  /\ p \in PacketType /\ p.rescode \in ResultCodes
         /\ \A rec \in Elements(p.answers) :
              f.qtype = "A" /\ rec.type = "A" => rec.data \in LeadsTo(f.qname)
<1>1. f.qname \in Names /\ f.qtype \in Types
  BY DEF FrameType
<1>2. p \in [rescode : ResultCodes, answers : Seq(Told), authorities : Seq(Told), resources : Seq(Told)]
  BY <1>1, LookupAssumption
<1>3. ASSUME NEW rec \in Elements(p.answers), f.qtype = "A", rec.type = "A"
      PROVE  rec.data \in LeadsTo(f.qname)
  <2> DEFINE A == UNION {Elements(p2.answers) : p2 \in UNION {Upstream(s, f.qname, "A") : s \in Addresses}}
  <2>1. p \in UNION {Upstream(s, f.qname, "A") : s \in Addresses}
    BY <1>3
  <2>2. rec \in A
    BY <2>1
  <2> HIDE DEF A
  <2>3. rec.data \in {a.data : a \in {rec2 \in A : rec2.type = "A"}}
    BY <1>3, <2>2
  <2> QED BY <2>3 DEF LeadsTo, A
<1> QED BY <1>2, <1>3 DEF PacketType

LEMMA UpstreamFinding ==
  ASSUME now \in Nat, HistoryOK, NEW f \in FrameType, f.addr \in Addresses,
         NEW p \in Upstream(f.addr, f.qname, f.qtype), NEW kept, Hear(f, p, kept),
         NEW asked \in Nat, asked <= now
  PROVE  Finding(f, p, asked, heard', denied')
<1>1. /\ p \in PacketType
      /\ \A rec \in Elements(p.answers) :
           f.qtype = "A" /\ rec.type = "A" => rec.data \in LeadsTo(f.qname)
  BY UpstreamOK
<1>2. /\ Now(Elements(Sections(p))) \subseteq heard'
      /\ p.rescode = "NXDOMAIN" =>
           \E d \in denied' : d.qname = f.qname /\ d.qtype = f.qtype /\ d.at = now /\ d.ttl \in Nat
  BY <1>1, HearOK
<1>3. \A ttl \in Nat : ~Expired(now, ttl, asked)
  BY DEF Expired
<1>4. ASSUME NEW rec \in Elements(p.answers) PROVE Fresh(rec, asked, heard')
  <2>1. rec \in Elements(Sections(p)) /\ rec \in Told
    BY <1>1, SectionsOK, ElementsOf
  <2>2. rec.ttl \in Nat
    BY <2>1, LookupAssumption
  <2> DEFINE h == [rec |-> rec, at |-> now]
  <2>3. h \in heard'
    BY <1>2, <2>1 DEF Now
  <2>4. Same(h.rec, rec) /\ ~Expired(h.at, h.rec.ttl, asked)
    BY <1>3, <2>2 DEF Same
  <2> HIDE DEF h
  <2> QED BY <2>3, <2>4 DEF Fresh
<1>5. p.rescode = "NXDOMAIN" => DeniedFor(f.qname, f.qtype, asked, denied')
  BY <1>2, <1>3 DEF DeniedFor
<1> QED BY <1>1, <1>4, <1>5 DEF Finding

(* A step that takes records of an answer over. *)
LEMMA KeepingStep ==
  ASSUME IInv, NEW f, NEW p \in PacketType, NEW kept \in Seq(Told), Hear(f, p, kept),
         Elements(kept) \subseteq Elements(Sections(p)), cache' = Store(cache, kept),
         UNCHANGED <<resolver, now>>,
         NEW r \in Requests, NEW t, Set(r, t),
         Base(t, now, heard', denied'), Position(t, resolver.strategy, heard', denied')
  PROVE  IInv'
<1>0. now \in Nat /\ HistoryOK /\ CacheOK(cache, heard, denied) /\ LearnedOK(learned, cache, now, denied) /\ TasksOK
  BY DEF IInv
<1>1. resolver' = resolver /\ now' = now
  OBVIOUS
<1>2. /\ HistoryOK' /\ heard \subseteq heard' /\ denied \subseteq denied'
      /\ Now(Elements(Sections(p))) \subseteq heard'
  BY <1>0, HearOK
<1>3. Now(Elements(kept)) \subseteq heard'
  BY <1>2 DEF Now
<1>4. CacheOK(Store(cache, kept), heard', denied')
  BY <1>0, <1>2, <1>3, StoreOK
<1>5. LearnedOK(learned', Store(cache, kept), now, denied')
  BY <1>0, <1>2, StoreLearned DEF Hear
<1>6. TasksOK'
  BY <1>0, <1>1, <1>2, OtherTasks
<1> QED BY <1>0, <1>1, <1>2, <1>4, <1>5, <1>6 DEF IInv

(* A step that takes none over, and may cache a denial. *)
LEMMA LeavingStep ==
  ASSUME IInv, NEW f, NEW p \in PacketType, Hear(f, p, <<>>),
         \/ cache' = cache
         \/ /\ p.rescode = "NXDOMAIN" /\ get_ttl_from_soa(p) # 0
            /\ cache' = StoreNxdomain(cache, f.qname, f.qtype, SoaTtl(p)),
         UNCHANGED <<resolver, now>>,
         NEW r \in Requests, NEW t, Set(r, t),
         Base(t, now, heard', denied'), Position(t, resolver.strategy, heard', denied')
  PROVE  IInv'
<1>0. now \in Nat /\ HistoryOK /\ CacheOK(cache, heard, denied) /\ LearnedOK(learned, cache, now, denied) /\ TasksOK
  BY DEF IInv
<1>1. resolver' = resolver /\ now' = now /\ learned' = learned
  BY NothingKept DEF Hear
<1>2. HistoryOK' /\ heard \subseteq heard' /\ denied \subseteq denied'
  BY <1>0, HearOK
<1>3. CacheOK(cache', heard', denied') /\ LearnedOK(learned, cache', now, denied')
  <2>1. CASE cache' = cache
    <3>1. CacheOK(cache, heard', denied') /\ LearnedOK(learned, cache, now, denied')
      BY <1>0, <1>2, CacheGrows, LearnedGrows
    <3> QED BY <2>1, <3>1
  <2>2. CASE /\ p.rescode = "NXDOMAIN" /\ get_ttl_from_soa(p) # 0
             /\ cache' = StoreNxdomain(cache, f.qname, f.qtype, SoaTtl(p))
    <3>1. PICK d \in denied' :
            d.qname = f.qname /\ d.qtype = f.qtype /\ d.at = now /\ d.ttl = SoaTtl(p)
      BY <1>0, <2>2, HearOK
    <3>2. /\ CacheOK(StoreNxdomain(cache, f.qname, f.qtype, SoaTtl(p)), heard', denied')
          /\ LearnedOK(learned, StoreNxdomain(cache, f.qname, f.qtype, SoaTtl(p)), now, denied')
      BY <1>0, <1>2, <3>1, StoreNxdomainOK
    <3> QED BY <2>2, <3>2
  <2> QED BY <2>1, <2>2
<1>4. TasksOK'
  BY <1>0, <1>1, <1>2, OtherTasks
<1> QED BY <1>0, <1>1, <1>2, <1>3, <1>4 DEF IInv

-----------------------------------------------------------------------------
(* The steps *)

LEMMA FrameSet ==
  ASSUME NEW f \in FrameType
  PROVE  /\ \A a \in Addresses \cup {0} :
              /\ [f EXCEPT !.addr = a] \in FrameType /\ [f EXCEPT !.addr = a].addr = a
              /\ [f EXCEPT !.addr = a].qname = f.qname /\ [f EXCEPT !.addr = a].qtype = f.qtype
         /\ \A ns \in Names :
              /\ [f EXCEPT !.ns = ns] \in FrameType /\ [f EXCEPT !.ns = ns].ns = ns
              /\ [f EXCEPT !.ns = ns].qname = f.qname /\ [f EXCEPT !.ns = ns].qtype = f.qtype
         /\ \A p \in PacketType :
              /\ [f EXCEPT !.response = p] \in FrameType /\ [f EXCEPT !.response = p].response = p
              /\ [f EXCEPT !.response = p].qname = f.qname /\ [f EXCEPT !.response = p].qtype = f.qtype
         /\ [f EXCEPT !.idx = @ + 1] \in FrameType
         /\ [f EXCEPT !.idx = @ + 1].qname = f.qname /\ [f EXCEPT !.idx = @ + 1].qtype = f.qtype
BY DEF FrameType

(* The innermost call goes on elsewhere. *)
LEMMA PlaceOK ==
  ASSUME NEW t, NEW n, NEW H, NEW D, Base(t, n, H, D), t.frames # <<>>, NEW pc,
         NEW g \in FrameType, g.qname = t.frames[1].qname, g.qtype = t.frames[1].qtype
  PROVE  /\ Base(SetTop(Goto(t, pc), g), n, H, D)
         /\ SetTop(Goto(t, pc), g).pc = pc
         /\ SetTop(Goto(t, pc), g).frames # <<>> /\ SetTop(Goto(t, pc), g).frames[1] = g
<1> DEFINE u == Goto(t, pc)
<1>1. Base(u, n, H, D) /\ u.pc = pc /\ u.frames = t.frames
  BY GotoOK DEF TaskFields
<1> HIDE DEF u
<1>2. /\ Base(SetTop(u, g), n, H, D)
      /\ SetTop(u, g).frames # <<>> /\ SetTop(u, g).frames[1] = g
      /\ \A x \in TaskFields \ {"frames"} : SetTop(u, g)[x] = u[x]
  BY <1>1, SetTopOK
<1>3. SetTop(u, g).pc = u.pc
  BY <1>2 DEF TaskFields
<1> QED BY <1>1, <1>2, <1>3 DEF u

LEMMA MissOK ==
  ASSUME NEW t, NEW n, NEW H, NEW D, Base(t, n, H, D), t.frames # <<>>, NEW f, f = t.frames[1]
  PROVE  /\ Base(Miss(t, f), n, H, D)
         /\ Position(Miss(t, f), resolver.strategy, H, D)
<1>0. f \in FrameType
  BY DEF Base
<1>1. CASE resolver.strategy = "Forward"
  <2> DEFINE g == [f EXCEPT !.addr = Forwarder]
             u == SetTop(Goto(t, "wait"), g)
  <2>1. g \in FrameType /\ g.addr = Forwarder /\ g.qname = f.qname /\ g.qtype = f.qtype /\ Forwarder \in Addresses
    <3>1. Forwarder \in Addresses
      BY LookupAssumption
    <3> QED BY <1>0, <3>1 DEF FrameType
  <2> HIDE DEF g
  <2>2. Base(u, n, H, D) /\ u.pc = "wait" /\ u.frames # <<>> /\ u.frames[1] = g
    BY <2>1, PlaceOK
  <2>3. Miss(t, f) = u
    BY <1>1 DEF Miss, g
  <2> HIDE DEF u
  <2>4. Position(u, resolver.strategy, H, D)
    BY <1>1, <2>1, <2>2 DEF Position
  <2> QED BY <2>2, <2>3, <2>4
<1>2. CASE resolver.strategy # "Forward"
  <2> DEFINE u == Goto(t, "ns")
  <2>1. Miss(t, f) = u
    BY <1>2 DEF Miss
  <2>2. Base(u, n, H, D) /\ u.pc = "ns" /\ u.frames = t.frames
    BY GotoOK DEF TaskFields
  <2> HIDE DEF u
  <2>3. Position(u, resolver.strategy, H, D)
    BY <2>2 DEF Position
  <2> QED BY <2>1, <2>2, <2>3
<1> QED BY <1>1, <1>2

LEMMA NextSuffixOK ==
  ASSUME NEW t, NEW n, NEW H, NEW D, NEW strategy, Base(t, n, H, D), t.frames # <<>>,
         NEW f, f = t.frames[1]
  PROVE  Base(NextSuffix(t, f), n, H, D) /\ Position(NextSuffix(t, f), strategy, H, D)
<1>0. f \in FrameType
  BY DEF Base
<1>1. CASE f.idx = Len(f.qname)
  <2>1. NextSuffix(t, f) = Return(t, Err)
    BY <1>1 DEF NextSuffix
  <2>2. Finding(t.frames[1], Err, t.asked, H, D)
    BY EmptyFinding DEF Err
  <2> QED BY <2>1, <2>2, ReturnOK
<1>2. CASE f.idx # Len(f.qname)
  <2> DEFINE g == [f EXCEPT !.idx = @ + 1]
             u == SetTop(Goto(t, "ns"), g)
  <2>1. g \in FrameType /\ g.qname = f.qname /\ g.qtype = f.qtype
    BY <1>0, FrameSet
  <2>2. NextSuffix(t, f) = u
    BY <1>2 DEF NextSuffix
  <2> HIDE DEF g
  <2>3. Base(u, n, H, D) /\ u.pc = "ns" /\ u.frames # <<>>
    BY <2>1, PlaceOK
  <2> HIDE DEF u
  <2>4. Position(u, strategy, H, D)
    BY <2>3 DEF Position
  <2> QED BY <2>2, <2>3, <2>4
<1> QED BY <1>1, <1>2

(* A task that is in a resolve call. *)
LEMMA InCall ==
  ASSUME IInv, NEW r \in Requests, task[r].pc \notin {"idle", "reply", "done"}
  PROVE  /\ Base(task[r], now, heard, denied) /\ Position(task[r], resolver.strategy, heard, denied)
         /\ task[r].frames # <<>> /\ Top(r) = task[r].frames[1] /\ Top(r) \in FrameType
         /\ task[r].asked \in Nat /\ task[r].asked <= now
<1>1. Base(task[r], now, heard, denied) /\ Position(task[r], resolver.strategy, heard, denied)
  BY DEF IInv, TasksOK
<1>2. task[r].frames # <<>>
  BY <1>1 DEF Position
<1>3. task[r].frames \in Seq(FrameType) /\ task[r].asked \in Nat /\ task[r].asked <= now
  BY <1>1 DEF Base
<1>4. Top(r) = task[r].frames[1] /\ Top(r) \in FrameType
  BY <1>2, <1>3 DEF Top
<1> QED BY <1>1, <1>2, <1>3, <1>4

LEMMA ReplyStep ==
  ASSUME IInv, NEW r \in Requests, Reply(r)
  PROVE  IInv'
<1> DEFINE t == Task("done")
<1>1. /\ DOMAIN t = TaskFields /\ t.pc = "done" /\ t.frames = <<>> /\ t.unmatched = <<>> /\ t.later = <<>>
      /\ t.depth = 0 /\ t.asked = 0 /\ t.packet = NoPacket
  BY DEF Task, TaskFields
<1>2. now \in Nat
  BY DEF IInv
<1>3. NoPacket \in PacketType /\ NoPacket.answers = <<>> /\ NoPacket.rescode = "None"
  BY DEF NoPacket, Packet, PacketType
<1> HIDE DEF t
<1>4. Answered(t, heard, denied)
  BY <1>1, <1>3 DEF Answered, Elements
<1>5. Base(t, now, heard, denied)
  BY <1>1, <1>2, <1>4 DEF Base, Stack, Asking
<1>6. Position(t, resolver.strategy, heard, denied)
  BY <1>1 DEF Position
<1>7. Set(r, t) /\ UNCHANGED <<resolver, cache, heard, learned, denied>> /\ now' = now
  BY DEF Reply, t
<1> QED BY <1>2, <1>5, <1>6, <1>7, QuietStep

LEMMA InitInv == Init => IInv
<1> SUFFICES ASSUME Init PROVE IInv
  OBVIOUS
<1>1. PICK hints \in Hints :
        LET recs == IF resolver.strategy = "Forward" THEN <<>> ELSE hints IN
        /\ cache = Store(<<>>, recs)
        /\ heard = Now(Elements(recs)) /\ learned = Now(LatestOf(recs))
  BY DEF Init
<1> DEFINE recs == IF resolver.strategy = "Forward" THEN <<>> ELSE hints
<1>2. now = 0 /\ task = [r \in Requests |-> Task("idle")] /\ denied = {}
  BY DEF Init
<1>3. recs \in Seq(Told) /\ cache = Store(<<>>, recs) /\ heard = Now(Elements(recs)) /\ learned = Now(LatestOf(recs))
  BY <1>1, LookupAssumption
<1> HIDE DEF recs
<1>4. HistoryOK
  <2>1. Elements(recs) \subseteq Told
    BY <1>3, ElementsOf
  <2> QED BY <1>2, <1>3, <2>1 DEF HistoryOK, Now
<1>5. CacheOK(cache, heard, denied)
  <2>1. CacheOK(<<>>, {}, {})
    BY DEF CacheOK
  <2> QED BY <1>2, <1>3, <2>1, StoreOK
<1>6. LearnedOK(learned, cache, now, denied)
  <2>1. LearnedOK({}, <<>>, now, {}) /\ now \in Nat
    BY <1>2 DEF LearnedOK
  <2>2. LearnedOK({h \in {} : \A rec \in Elements(recs) : ~Same(h.rec, rec)} \cup Now(LatestOf(recs)),
                  Store(<<>>, recs), now, {})
    BY <1>3, <2>1, StoreLearned
  <2>3. {h \in {} : \A rec \in Elements(recs) : ~Same(h.rec, rec)} \cup Now(LatestOf(recs)) = learned
    BY <1>3
  <2> QED BY <1>2, <1>3, <2>2, <2>3
<1>7. ASSUME NEW r \in Requests
      PROVE  Base(task[r], now, heard, denied) /\ Position(task[r], resolver.strategy, heard, denied)
  <2> DEFINE t == Task("idle")
  <2>1. /\ DOMAIN t = TaskFields /\ t.pc = "idle" /\ t.frames = <<>> /\ t.unmatched = <<>> /\ t.later = <<>>
        /\ t.depth = 0 /\ t.asked = 0 /\ t.packet = NoPacket
    BY DEF Task, TaskFields
  <2>2. NoPacket \in PacketType /\ NoPacket.answers = <<>> /\ NoPacket.rescode = "None"
    BY DEF NoPacket, Packet, PacketType
  <2> HIDE DEF t
  <2>3. Answered(t, heard, denied)
    BY <2>1, <2>2 DEF Answered, Elements
  <2>4. Base(t, now, heard, denied)
    BY <1>2, <2>1, <2>3 DEF Base, Stack, Asking
  <2>5. Position(t, resolver.strategy, heard, denied)
    BY <2>1 DEF Position
  <2>6. task[r] = t
    BY <1>2 DEF t
  <2> QED BY <2>4, <2>5, <2>6
<1> QED BY <1>2, <1>4, <1>5, <1>6, <1>7 DEF IInv, TasksOK

LEMMA ReceiveStep ==
  ASSUME IInv, NEW r \in Requests, Receive(r)
  PROVE  IInv'
<1> DEFINE t == task[r]
<1>0. now \in Nat /\ now' = now /\ UNCHANGED <<resolver, cache, heard, learned, denied>> /\ t.pc = "idle"
  BY DEF IInv, Receive
<1>1. Base(t, now, heard, denied) /\ Position(t, resolver.strategy, heard, denied)
  BY DEF IInv, TasksOK
<1>2. t.frames = <<>> /\ t.packet = NoPacket
  BY <1>0, <1>1 DEF Position
<1>3. /\ DOMAIN t = TaskFields /\ t.unmatched \in Seq(PendingType) /\ t.later \in Seq(PendingType)
      /\ t.depth \in Nat
  BY <1>1 DEF Base
<1>4. Elements(<<>>) = {}
  BY DEF Elements
<1>5. CASE Set(r, [task[r] EXCEPT !.pc = "reply", !.packet = Packet("FORMERR"), !.asked = now])
  <2> DEFINE u == [t EXCEPT !.pc = "reply", !.packet = Packet("FORMERR"), !.asked = now]
  <2>1. /\ DOMAIN u = TaskFields /\ u.pc = "reply" /\ u.packet = Packet("FORMERR") /\ u.asked = now
        /\ u.frames = <<>> /\ u.unmatched = t.unmatched /\ u.later = t.later /\ u.depth = t.depth
    BY <1>2, <1>3 DEF TaskFields
  <2>2. Packet("FORMERR") \in PacketType /\ Packet("FORMERR").answers = <<>> /\ Packet("FORMERR").rescode = "FORMERR"
    BY DEF Packet, PacketType, ResultCodes
  <2>3. Set(r, u)
    BY <1>5
  <2> HIDE DEF u
  <2>4. Answered(u, heard, denied)
    BY <1>4, <2>1, <2>2 DEF Answered
  <2>5. Base(u, now, heard, denied)
    BY <1>0, <1>3, <2>1, <2>4 DEF Base, Stack, Asking
  <2>6. Position(u, resolver.strategy, heard, denied)
    BY <2>1 DEF Position
  <2> QED BY <1>0, <2>3, <2>5, <2>6, QuietStep
<1>6. CASE \E q \in Questions :
             Set(r, Call([task[r] EXCEPT !.question = <<q>>, !.asked = now], Frame(q.qname, q.qtype, q.rd)))
  <2>1. PICK q \in Questions :
          Set(r, Call([t EXCEPT !.question = <<q>>, !.asked = now], Frame(q.qname, q.qtype, q.rd)))
    BY <1>6
  <2> DEFINE u == [t EXCEPT !.question = <<q>>, !.asked = now]
             f == Frame(q.qname, q.qtype, q.rd)
  <2>2. q.qname \in Names /\ q.qtype \in Types /\ q.rd \in BOOLEAN
    BY LookupAssumption
  <2>3. f \in FrameType /\ f.qname = q.qname /\ f.qtype = q.qtype
    BY <2>2, FrameOK
  <2>4. /\ DOMAIN u = TaskFields /\ u.packet = NoPacket /\ u.asked = now /\ u.question = <<q>>
        /\ u.frames = <<>> /\ u.unmatched = t.unmatched /\ u.later = t.later /\ u.depth = t.depth
    BY <1>2, <1>3 DEF TaskFields
  <2>5. u.question # <<>> /\ u.question[1] = q
    BY <2>4
  <2>6. NoPacket \in PacketType /\ NoPacket.answers = <<>> /\ NoPacket.rescode = "None"
    BY DEF NoPacket, Packet, PacketType
  <2> HIDE DEF u, f
  <2>7. Answered(u, heard, denied)
    BY <1>4, <2>4, <2>6 DEF Answered
  <2>8. Base(u, now, heard, denied)
    BY <1>0, <1>3, <2>4, <2>7 DEF Base, Stack, Asking
  <2>9. Base(Call(u, f), now, heard, denied) /\ Position(Call(u, f), resolver.strategy, heard, denied)
    BY <2>3, <2>4, <2>5, <2>8, CallOK
  <2>10. Set(r, Call(u, f))
    BY <2>1 DEF u, f
  <2> QED BY <1>0, <2>9, <2>10, QuietStep
<1> QED BY <1>5, <1>6 DEF Receive

LEMMA QueryFailsStep ==
  ASSUME IInv, NEW r \in Requests, QueryFails(r)
  PROVE  IInv'
<1>1. /\ now \in Nat /\ now' = now /\ UNCHANGED <<resolver, cache, heard, learned, denied>>
      /\ task[r].pc = "wait" /\ Set(r, Return(task[r], Err))
  BY DEF IInv, QueryFails
<1>2. Base(task[r], now, heard, denied) /\ task[r].frames # <<>>
  BY <1>1, InCall
<1>3. Finding(task[r].frames[1], Err, task[r].asked, heard, denied)
  BY EmptyFinding DEF Err
<1>4. /\ Base(Return(task[r], Err), now, heard, denied)
      /\ Position(Return(task[r], Err), resolver.strategy, heard, denied)
  BY <1>2, <1>3, ReturnOK
<1> QED BY <1>1, <1>4, QuietStep

(* get_random_a gives the address of one of the answers, or none. *)
LEMMA RandomAnswer ==
  ASSUME NEW p, NEW addr \in get_random_a(p), addr # 0
  PROVE  \E rec \in Elements(p.answers) : rec.type = "A" /\ rec.data = addr
<1>1. CASE p.answers = <<>>
  BY <1>1 DEF get_random_a
<1>2. CASE p.answers # <<>>
  <2>1. PICK rec \in Elements(p.answers) : addr = IF rec.type = "A" THEN rec.data ELSE 0
    BY <1>2 DEF get_random_a
  <2> QED BY <2>1
<1> QED BY <1>1, <1>2

(* The address of a server for a domain the name ends with serves the name. *)
LEMMA ServerServes ==
  ASSUME NEW name, NEW qname \in Names, ServerOf(name, qname), NEW addr \in LeadsTo(name)
  PROVE  addr \in Addresses /\ Serves(addr, qname)
<1>1. PICK ns \in Told : ns.type = "NS" /\ ns.data = name /\ EndsWith(qname, ns.domain)
  BY DEF ServerOf
<1>2. ns.domain \in Names /\ name \in Names
  BY <1>1, LookupAssumption
<1>3. PICK rec \in Told : rec.type = "A" /\ addr = rec.data
  <2> DEFINE P == UNION {Upstream(s, name, "A") : s \in Addresses}
             A == UNION {Elements(p.answers) : p \in P}
  <2>1. A \subseteq Told
    <3>1. ASSUME NEW p \in P PROVE Elements(p.answers) \subseteq Told
      <4>1. PICK s \in Addresses : p \in Upstream(s, name, "A")
        OBVIOUS
      <4>2. Upstream(s, name, "A") \subseteq
              [rescode : ResultCodes, answers : Seq(Told), authorities : Seq(Told), resources : Seq(Told)]
        BY <1>2, LookupAssumption DEF Types
      <4>3. p.answers \in Seq(Told)
        BY <4>1, <4>2
      <4> QED BY <4>3, ElementsOf
    <3> HIDE DEF P
    <3> QED BY <3>1
  <2>2. LeadsTo(name) =
          {a.data : a \in {rec \in Told : rec.type = "A" /\ rec.domain = name}}
            \cup {a.data : a \in {rec \in A : rec.type = "A"}}
    BY DEF LeadsTo
  <2> HIDE DEF A
  <2> QED BY <2>1, <2>2
<1>4. addr \in Addresses
  BY <1>3, LookupAssumption
<1>5. PICK zone \in Zones(addr) : IsSuffix(zone, ns.domain)
  BY <1>1, DelegationsAgree
<1>6. zone \in Seq(STRING) /\ ns.domain \in Seq(STRING) /\ qname \in Seq(STRING)
  BY <1>2, <1>4, LookupAssumption
<1>7. CASE IsSuffix(ns.domain, qname)
  <2>1. IsSuffix(zone, qname)
    BY <1>5, <1>6, <1>7, SuffixTransitive
  <2> QED BY <1>4, <2>1 DEF Serves
<1>8. CASE ~IsSuffix(ns.domain, qname)
  <2>1. addr \in Lookalikes(qname)
    BY <1>1, <1>8 DEF Lookalikes
  <2> QED BY <1>4, <2>1 DEF Serves
<1> QED BY <1>7, <1>8

LEMMA ResolveStep ==
  ASSUME IInv, NEW r \in Requests, Resolve(r)
  PROVE  IInv'
<1> DEFINE t == task[r]
           f == Top(r)
           found(p) == IF p # NoPacket THEN Return(t, p)
                       ELSE IF f.qtype \in {"A", "AAAA"} THEN Goto(t, "cname") ELSE Miss(t, f)
<1>0. /\ now \in Nat /\ HistoryOK /\ CacheOK(cache, heard, denied) /\ LearnedOK(learned, cache, now, denied)
      /\ UNCHANGED <<resolver, cache, heard, learned, denied>> /\ t.pc = "resolve"
  BY DEF IInv, Resolve
<1>1. /\ Base(t, now, heard, denied) /\ t.frames # <<>> /\ f = t.frames[1]
      /\ t.asked \in Nat /\ t.asked <= now
  BY <1>0, InCall
<1>2. ASSUME NEW p, Finding(f, p, t.asked, heard, denied), Set(r, Return(t, p)), now' \in Nat, now <= now'
      PROVE  IInv'
  <2>1. Base(Return(t, p), now, heard, denied) /\ Position(Return(t, p), resolver.strategy, heard, denied)
    BY <1>1, <1>2, ReturnOK
  <2> QED BY <1>0, <1>2, <2>1, QuietStep
<1>3. CASE Set(r, Return(t, Packet("NOTIMP"))) /\ now' = now
  <2>1. Finding(f, Packet("NOTIMP"), t.asked, heard, denied)
    BY EmptyFinding DEF ResultCodes
  <2> QED BY <1>0, <1>2, <1>3, <2>1
<1>4. CASE Set(r, Return(t, Packet("REFUSED"))) /\ now' = now
  <2>1. Finding(f, Packet("REFUSED"), t.asked, heard, denied)
    BY EmptyFinding DEF ResultCodes
  <2> QED BY <1>0, <1>2, <1>4, <2>1
<1>5. CASE \E c \in Clocks : \E p \in Lookup(f.qname, f.qtype, c) : Set(r, found(p)) /\ now' = c[2]
  <2>1. PICK c \in Clocks : \E p \in Lookup(f.qname, f.qtype, c) : Set(r, found(p)) /\ now' = c[2]
    BY <1>5
  <2>2. PICK p \in Lookup(f.qname, f.qtype, c) : Set(r, found(p)) /\ now' = c[2]
    BY <2>1
  <2>3. now' \in Nat /\ now <= now'
    BY <1>0, <2>2, ClocksOK
  <2>4. Finding(f, p, t.asked, heard, denied)
    BY <1>0, <1>1, LookupFinding
  <2>5. CASE p # NoPacket
    <3>1. Set(r, Return(t, p))
      BY <2>2, <2>5
    <3> QED BY <1>2, <2>3, <2>4, <3>1
  <2>6. CASE p = NoPacket /\ f.qtype \in {"A", "AAAA"}
    <3> DEFINE u == Goto(t, "cname")
    <3>1. Set(r, u)
      BY <2>2, <2>6
    <3>2. Base(u, now, heard, denied) /\ u.pc = "cname" /\ u.frames = t.frames
      BY <1>1, GotoOK DEF TaskFields
    <3> HIDE DEF u
    <3>3. Position(u, resolver.strategy, heard, denied)
      BY <1>1, <3>2 DEF Position
    <3> QED BY <1>0, <2>3, <3>1, <3>2, <3>3, QuietStep
  <2>7. CASE p = NoPacket /\ f.qtype \notin {"A", "AAAA"}
    <3>1. Set(r, Miss(t, f))
      BY <2>2, <2>7
    <3>2. Base(Miss(t, f), now, heard, denied) /\ Position(Miss(t, f), resolver.strategy, heard, denied)
      BY <1>1, MissOK
    <3> QED BY <1>0, <2>3, <3>1, <3>2, QuietStep
  <2> QED BY <2>5, <2>6, <2>7
<1> QED BY <1>3, <1>4, <1>5 DEF Resolve

LEMMA ResolveAliasStep ==
  ASSUME IInv, NEW r \in Requests, ResolveAlias(r)
  PROVE  IInv'
<1> DEFINE t == task[r]
           f == Top(r)
<1>0. /\ now \in Nat /\ HistoryOK /\ CacheOK(cache, heard, denied) /\ LearnedOK(learned, cache, now, denied)
      /\ UNCHANGED <<resolver, cache, heard, learned, denied>> /\ t.pc = "cname"
  BY DEF IInv, ResolveAlias
<1>1. /\ Base(t, now, heard, denied) /\ t.frames # <<>> /\ f = t.frames[1]
      /\ t.asked \in Nat /\ t.asked <= now
  BY <1>0, InCall
<1>2. PICK c \in Clocks : \E p \in Lookup(f.qname, "CNAME", c) :
        Set(r, IF p # NoPacket THEN Return(t, p) ELSE Miss(t, f)) /\ now' = c[2]
  BY DEF ResolveAlias
<1>3. PICK p \in Lookup(f.qname, "CNAME", c) :
        Set(r, IF p # NoPacket THEN Return(t, p) ELSE Miss(t, f)) /\ now' = c[2]
  BY <1>2
<1>4. now' \in Nat /\ now <= now'
  BY <1>0, <1>3, ClocksOK
<1>5. Finding(f, p, t.asked, heard, denied)
  BY <1>0, <1>1, LookupFinding
<1>6. CASE p # NoPacket
  <2>1. Base(Return(t, p), now, heard, denied) /\ Position(Return(t, p), resolver.strategy, heard, denied)
    BY <1>1, <1>5, ReturnOK
  <2>2. Set(r, Return(t, p))
    BY <1>3, <1>6
  <2> QED BY <1>0, <1>4, <2>1, <2>2, QuietStep
<1>7. CASE p = NoPacket
  <2>1. Base(Miss(t, f), now, heard, denied) /\ Position(Miss(t, f), resolver.strategy, heard, denied)
    BY <1>1, MissOK
  <2>2. Set(r, Miss(t, f))
    BY <1>3, <1>7
  <2> QED BY <1>0, <1>4, <2>1, <2>2, QuietStep
<1> QED BY <1>6, <1>7

(* What is cached was told. *)
LEMMA LookupTold ==
  ASSUME IInv
  PROVE  \A name, type : \A c \in Clocks : \A q \in Lookup(name, type, c) :
           /\ \A rec \in Elements(q.answers) : rec \in Told /\ rec.domain = name
           /\ \A rec \in Elements(q.authorities) : rec \in Told
<1>0. now \in Nat /\ HistoryOK /\ CacheOK(cache, heard, denied) /\ LearnedOK(learned, cache, now, denied)
  BY DEF IInv
<1>1. now <= now
  BY <1>0
<1> TAKE name, type
<1> TAKE c \in Clocks
<1> TAKE q \in Lookup(name, type, c)
<1> QED BY <1>0, <1>1, LookupOK

(* A name server that a packet names for a name is one for a domain it     *)
(* ends with.                                                              *)
LEMMA UnresolvedServer ==
  ASSUME NEW p, \A rec \in Elements(p.authorities) : rec \in Told,
         NEW qname, NEW ns \in get_unresolved_ns(p, qname)
  PROVE  ns \in Names /\ ServerOf(ns, qname)
<1>1. PICK rec \in Elements(p.authorities) : rec.type = "NS" /\ EndsWith(qname, rec.domain) /\ rec.data = ns
  BY DEF get_unresolved_ns
<1>2. ns \in Names
  BY <1>1, LookupAssumption
<1> QED BY <1>1, <1>2 DEF ServerOf

LEMMA FindNsStep ==
  ASSUME IInv, NEW r \in Requests, FindNs(r)
  PROVE  IInv'
<1> DEFINE t == task[r]
           f == Top(r)
           domain == SubSeq(f.qname, f.idx + 1, Len(f.qname))
<1>0. /\ now \in Nat /\ HistoryOK /\ CacheOK(cache, heard, denied) /\ LearnedOK(learned, cache, now, denied)
      /\ UNCHANGED <<resolver, cache, heard, learned, denied>> /\ t.pc = "ns"
  BY DEF IInv, FindNs
<1>1. /\ Base(t, now, heard, denied) /\ t.frames # <<>> /\ f = t.frames[1] /\ f \in FrameType
      /\ t.asked \in Nat /\ t.asked <= now
  BY <1>0, InCall
<1> DEFINE Goes(p, c) ==
             /\ now' = c[2]
             /\ \/ Set(r, NextSuffix(t, f))
                \/ \E ns \in get_unresolved_ns(p, domain) :
                     Set(r, SetTop(Goto(t, "nsaddr"), [f EXCEPT !.ns = ns]))
<1>8. PICK c \in Clocks : \E p \in Lookup(domain, "NS", c) : Goes(p, c)
  BY DEF FindNs
<1>2. PICK p \in Lookup(domain, "NS", c) : Goes(p, c)
  BY <1>8
<1>3. now' \in Nat /\ now <= now'
  BY <1>0, <1>2, ClocksOK
<1>4. f.qname \in Seq(STRING) /\ f.idx \in Nat
  BY <1>1, LookupAssumption DEF FrameType
<1>5. domain \in Seq(STRING) /\ IsSuffix(domain, f.qname)
  BY <1>4, SuffixOfTail
<1> HIDE DEF domain
<1>6. CASE Set(r, NextSuffix(t, f))
  <2>1. Base(NextSuffix(t, f), now, heard, denied) /\ Position(NextSuffix(t, f), resolver.strategy, heard, denied)
    BY <1>1, NextSuffixOK
  <2> QED BY <1>0, <1>3, <1>6, <2>1, QuietStep
<1>7. ASSUME NEW ns \in get_unresolved_ns(p, domain),
             Set(r, SetTop(Goto(t, "nsaddr"), [f EXCEPT !.ns = ns]))
      PROVE  IInv'
  <2> DEFINE g == [f EXCEPT !.ns = ns]
             u == SetTop(Goto(t, "nsaddr"), g)
  <2>1. \A rec \in Elements(p.authorities) : rec \in Told
    BY LookupTold, Zenon
  <2>2. ns \in Names /\ ServerOf(ns, domain)
    BY <2>1, UnresolvedServer
  <2>3. ServerOf(ns, f.qname)
    <3>1. PICK rec \in Told : rec.type = "NS" /\ rec.data = ns /\ EndsWith(domain, rec.domain)
      BY <2>2 DEF ServerOf
    <3>2. rec.domain \in Seq(STRING)
      BY <3>1, LookupAssumption
    <3>3. EndsWith(f.qname, rec.domain)
      BY <1>4, <1>5, <3>1, <3>2, SuffixEndsWith
    <3> QED BY <3>1, <3>3 DEF ServerOf
  <2>4. g \in FrameType /\ g.ns = ns /\ g.qname = f.qname /\ g.qtype = f.qtype
    BY <1>1, <2>2 DEF FrameType
  <2>5. Set(r, u)
    BY <1>7
  <2> HIDE DEF g
  <2>6. Base(u, now, heard, denied) /\ u.pc = "nsaddr" /\ u.frames # <<>> /\ u.frames[1] = g
    BY <1>1, <2>4, PlaceOK
  <2> HIDE DEF u
  <2>7. Position(u, resolver.strategy, heard, denied)
    BY <2>3, <2>4, <2>6 DEF Position
  <2> QED BY <1>0, <1>3, <2>5, <2>6, <2>7, QuietStep
<1> QED BY <1>2, <1>6, <1>7

(* The innermost call asks a server that serves its name. *)
LEMMA AskOK ==
  ASSUME NEW t, NEW n, NEW H, NEW D, NEW strategy, Base(t, n, H, D), t.frames # <<>>,
         NEW f \in FrameType, f.qname = t.frames[1].qname, f.qtype = t.frames[1].qtype,
         NEW addr, addr \in Addresses, Serves(addr, f.qname)
  PROVE  /\ Base(SetTop(Goto(t, "wait"), [f EXCEPT !.addr = addr]), n, H, D)
         /\ Position(SetTop(Goto(t, "wait"), [f EXCEPT !.addr = addr]), strategy, H, D)
<1> DEFINE g == [f EXCEPT !.addr = addr]
           u == SetTop(Goto(t, "wait"), g)
<1>1. g \in FrameType /\ g.addr = addr /\ g.qname = f.qname /\ g.qtype = f.qtype
  BY DEF FrameType
<1> HIDE DEF g
<1>2. Base(u, n, H, D) /\ u.pc = "wait" /\ u.frames # <<>> /\ u.frames[1] = g
  BY <1>1, PlaceOK
<1> HIDE DEF u
<1>3. Position(u, strategy, H, D)
  BY <1>1, <1>2 DEF Position
<1> QED BY <1>2, <1>3 DEF u, g

LEMMA FindNsAddrStep ==
  ASSUME IInv, NEW r \in Requests, FindNsAddr(r)
  PROVE  IInv'
<1> DEFINE t == task[r]
           f == Top(r)
<1>0. /\ now \in Nat /\ HistoryOK /\ CacheOK(cache, heard, denied) /\ LearnedOK(learned, cache, now, denied)
      /\ UNCHANGED <<resolver, cache, heard, learned, denied>> /\ t.pc = "nsaddr"
  BY DEF IInv, FindNsAddr
<1>1. /\ Base(t, now, heard, denied) /\ t.frames # <<>> /\ f = t.frames[1] /\ f \in FrameType
      /\ t.asked \in Nat /\ t.asked <= now /\ Position(t, resolver.strategy, heard, denied)
  BY <1>0, InCall
<1> DEFINE Goes(addr, c) ==
             /\ Set(r, IF addr = 0 THEN NextSuffix(t, f) ELSE SetTop(Goto(t, "wait"), [f EXCEPT !.addr = addr]))
             /\ now' = c[2]
<1>6. PICK c \in Clocks : \E p \in Lookup(f.ns, "A", c) : \E addr \in get_random_a(p) : Goes(addr, c)
  BY DEF FindNsAddr
<1>7. PICK p \in Lookup(f.ns, "A", c) : \E addr \in get_random_a(p) : Goes(addr, c)
  BY <1>6
<1>2. PICK addr \in get_random_a(p) : Goes(addr, c)
  BY <1>7
<1>3. now' \in Nat /\ now <= now'
  BY <1>0, <1>2, ClocksOK
<1>4. CASE addr = 0
  <2>1. Base(NextSuffix(t, f), now, heard, denied) /\ Position(NextSuffix(t, f), resolver.strategy, heard, denied)
    BY <1>1, NextSuffixOK
  <2>2. Set(r, NextSuffix(t, f))
    BY <1>2, <1>4
  <2> QED BY <1>0, <1>3, <2>1, <2>2, QuietStep
<1>5. CASE addr # 0
  <2> DEFINE u == SetTop(Goto(t, "wait"), [f EXCEPT !.addr = addr])
  <2>1. PICK rec \in Elements(p.answers) : rec.type = "A" /\ rec.data = addr
    BY <1>5, RandomAnswer
  <2>2. rec \in Told /\ rec.domain = f.ns
    BY LookupTold, Zenon
  <2>3. addr \in LeadsTo(f.ns)
    BY <2>1, <2>2, LeadsToOwn
  <2>4. ServerOf(f.ns, f.qname) /\ f.qname \in Names
    BY <1>0, <1>1 DEF Position, FrameType
  <2>5. addr \in Addresses /\ Serves(addr, f.qname)
    BY <2>3, <2>4, ServerServes
  <2>6. Base(u, now, heard, denied) /\ Position(u, resolver.strategy, heard, denied)
    BY <1>1, <2>5, AskOK
  <2>7. Set(r, u)
    BY <1>2, <1>5
  <2> QED BY <1>0, <1>3, <2>6, <2>7, QuietStep
<1> QED BY <1>4, <1>5

LEMMA ForwardAnsweredStep ==
  ASSUME IInv, NEW r \in Requests, ForwardAnswered(r)
  PROVE  IInv'
<1> DEFINE t == task[r]
           f == Top(r)
<1>0. now \in Nat /\ HistoryOK /\ t.pc = "wait" /\ UNCHANGED <<resolver, now>>
  BY DEF IInv, ForwardAnswered
<1>1. /\ Base(t, now, heard, denied) /\ Position(t, resolver.strategy, heard, denied)
      /\ t.frames # <<>> /\ f = t.frames[1] /\ f \in FrameType
      /\ t.asked \in Nat /\ t.asked <= now
  BY <1>0, InCall
<1>2. f.addr \in Addresses
  BY <1>0, <1>1 DEF Position
<1>3. PICK p \in Upstream(f.addr, f.qname, f.qtype) :
        cache' = Store(cache, p.answers) /\ Set(r, Return(t, p)) /\ Hear(f, p, p.answers)
  BY DEF ForwardAnswered
<1>4. p \in PacketType
  BY <1>1, <1>2, UpstreamOK
<1>5. Finding(f, p, t.asked, heard', denied')
  BY <1>0, <1>1, <1>2, <1>3, UpstreamFinding
<1>6. heard \subseteq heard' /\ denied \subseteq denied'
  BY <1>0, <1>3, <1>4, HearOK
<1>7. Base(t, now, heard', denied')
  BY <1>0, <1>1, <1>6, BaseGrows
<1>8. Base(Return(t, p), now, heard', denied') /\ Position(Return(t, p), resolver.strategy, heard', denied')
  BY <1>1, <1>5, <1>7, ReturnOK
<1>9. p.answers \in Seq(Told) /\ Elements(p.answers) \subseteq Elements(Sections(p))
  BY <1>4, SectionsOK
<1> QED BY <1>0, <1>3, <1>4, <1>8, <1>9, KeepingStep

(* A name server whose address comes with the packet serves the name. *)
LEMMA ResolvedServer ==
  ASSUME NEW p \in PacketType, NEW qname \in Names, NEW addr \in get_resolved_ns(p, qname)
  PROVE  addr \in Addresses /\ Serves(addr, qname)
<1>1. PICK a \in Elements(p.resources) : a.type = "A" /\ a.domain \in get_unresolved_ns(p, qname) /\ a.data = addr
  BY DEF get_resolved_ns
<1>2. /\ \A rec \in Elements(p.authorities) : rec \in Told
      /\ a \in Told
  BY SectionsOK, ElementsOf
<1>3. ServerOf(a.domain, qname)
  BY <1>1, <1>2, UnresolvedServer
<1>4. addr \in LeadsTo(a.domain)
  BY <1>1, <1>2, LeadsToOwn
<1> QED BY <1>3, <1>4, ServerServes

LEMMA ServerAnsweredStep ==
  ASSUME IInv, NEW r \in Requests, ServerAnswered(r)
  PROVE  IInv'
<1> DEFINE t == task[r]
           f == Top(r)
           answered(p) == p.answers # <<>> /\ p.rescode = "NOERROR"
           denies(p) == ~answered(p) /\ p.rescode = "NXDOMAIN"
           refers(p) == ~answered(p) /\ ~denies(p)
<1>0. /\ now \in Nat /\ HistoryOK /\ t.pc = "wait" /\ UNCHANGED <<resolver, now>>
  BY DEF IInv, ServerAnswered
<1>1. /\ Base(t, now, heard, denied) /\ Position(t, resolver.strategy, heard, denied)
      /\ t.frames # <<>> /\ f = t.frames[1] /\ f \in FrameType
      /\ t.asked \in Nat /\ t.asked <= now
  BY <1>0, InCall
<1>2. f.addr \in Addresses /\ f.qname \in Names
  BY <1>0, <1>1 DEF Position, FrameType
<1> DEFINE Answer(p) ==
      /\ answered(p)
      /\ Hear(f, p, Sections(p))
      /\ cache' = StoreAll(cache, p)
      /\ Set(r, Return(t, p))
    Denial(p) ==
      /\ denies(p)
      /\ Hear(f, p, <<>>)
      /\ cache' = IF get_ttl_from_soa(p) = 0 THEN cache
                  ELSE StoreNxdomain(cache, f.qname, f.qtype, SoaTtl(p))
      /\ Set(r, Return(t, p))
    Referral(p) ==
      /\ refers(p)
      /\ \E addr \in get_resolved_ns(p, f.qname) : Set(r, SetTop(t, [f EXCEPT !.addr = addr]))
      /\ cache' = StoreAll(cache, p)
      /\ Hear(f, p, Sections(p))
    Unresolved(p) ==
      /\ refers(p) /\ get_resolved_ns(p, f.qname) = {}
      /\ \E ns \in get_unresolved_ns(p, f.qname) :
           Set(r, Call(SetTop(t, [f EXCEPT !.response = p]), Frame(ns, "A", TRUE)))
      /\ Hear(f, p, <<>>)
      /\ UNCHANGED cache
    Nothing(p) ==
      /\ refers(p) /\ get_unresolved_ns(p, f.qname) = {}
      /\ Set(r, Return(t, p))
      /\ Hear(f, p, <<>>)
      /\ UNCHANGED cache
<1>3. PICK p \in Upstream(f.addr, f.qname, f.qtype) :
        Answer(p) \/ Denial(p) \/ Referral(p) \/ Unresolved(p) \/ Nothing(p)
  BY DEF ServerAnswered
<1>4. p \in PacketType
  BY <1>1, <1>2, UpstreamOK
<1>5. /\ Sections(p) \in Seq(Told)
      /\ \A rec \in Elements(p.authorities) : rec \in Told
  BY <1>4, SectionsOK, ElementsOf
<1>6. ASSUME NEW kept, Hear(f, p, kept)
      PROVE  /\ Finding(f, p, t.asked, heard', denied')
             /\ Base(t, now, heard', denied')
             /\ Base(Return(t, p), now, heard', denied')
             /\ Position(Return(t, p), resolver.strategy, heard', denied')
  <2>1. Finding(f, p, t.asked, heard', denied')
    BY <1>0, <1>1, <1>2, <1>6, UpstreamFinding
  <2>2. heard \subseteq heard' /\ denied \subseteq denied'
    BY <1>0, <1>4, <1>6, HearOK
  <2>3. Base(t, now, heard', denied')
    BY <1>0, <1>1, <2>2, BaseGrows
  <2> QED BY <1>1, <2>1, <2>3, ReturnOK
<1>7. CASE Answer(p)
  <2>1. /\ Hear(f, p, Sections(p)) /\ cache' = Store(cache, Sections(p)) /\ Set(r, Return(t, p))
    BY <1>7 DEF StoreAll
  <2> QED BY <1>0, <1>4, <1>5, <1>6, <2>1, KeepingStep
<1>8. CASE Denial(p)
  <2>1. /\ Hear(f, p, <<>>) /\ Set(r, Return(t, p))
        /\ \/ cache' = cache
           \/ /\ p.rescode = "NXDOMAIN" /\ get_ttl_from_soa(p) # 0
              /\ cache' = StoreNxdomain(cache, f.qname, f.qtype, SoaTtl(p))
    BY <1>8
  <2> QED BY <1>0, <1>4, <1>6, <2>1, LeavingStep
<1>9. CASE Referral(p)
  <2>1. PICK addr \in get_resolved_ns(p, f.qname) : Set(r, SetTop(t, [f EXCEPT !.addr = addr]))
    BY <1>9
  <2> DEFINE g == [f EXCEPT !.addr = addr]
             u == SetTop(t, g)
  <2>2. addr \in Addresses /\ Serves(addr, f.qname)
    BY <1>2, <1>4, ResolvedServer
  <2>3. g \in FrameType /\ g.addr = addr /\ g.qname = f.qname /\ g.qtype = f.qtype
    BY <1>1, <2>2 DEF FrameType
  <2>4. Hear(f, p, Sections(p)) /\ cache' = Store(cache, Sections(p)) /\ Set(r, u)
    BY <1>9, <2>1 DEF StoreAll
  <2>5. Base(t, now, heard', denied')
    BY <1>6, <2>4
  <2> HIDE DEF g
  <2>6. /\ Base(u, now, heard', denied') /\ u.frames # <<>> /\ u.frames[1] = g
        /\ \A x \in TaskFields \ {"frames"} : u[x] = t[x]
    BY <1>1, <2>3, <2>5, SetTopOK
  <2>7. u.pc = "wait"
    BY <1>0, <2>6 DEF TaskFields
  <2> HIDE DEF u
  <2>8. Position(u, resolver.strategy, heard', denied')
    BY <2>2, <2>3, <2>6, <2>7 DEF Position
  <2> QED BY <1>0, <1>4, <1>5, <2>4, <2>6, <2>8, KeepingStep
<1>10. CASE Unresolved(p)
  <2>1. PICK ns \in get_unresolved_ns(p, f.qname) :
          Set(r, Call(SetTop(t, [f EXCEPT !.response = p]), Frame(ns, "A", TRUE)))
    BY <1>10
  <2> DEFINE g == [f EXCEPT !.response = p]
             u == SetTop(t, g)
             f2 == Frame(ns, "A", TRUE)
  <2>2. ns \in Names /\ ServerOf(ns, f.qname)
    BY <1>5, UnresolvedServer
  <2>3. g \in FrameType /\ g.response = p /\ g.qname = f.qname /\ g.qtype = f.qtype
    BY <1>1, <1>4 DEF FrameType
  <2>4. f2 \in FrameType /\ f2.qname = ns /\ f2.qtype = "A"
    BY <2>2, AddressFrame
  <2>5. Hear(f, p, <<>>) /\ cache' = cache /\ Set(r, Call(u, f2))
    BY <1>10, <2>1
  <2>6. Base(t, now, heard', denied') /\ Finding(f, p, t.asked, heard', denied')
    BY <1>6, <2>5
  <2> HIDE DEF g, f2
  <2>7. /\ Base(u, now, heard', denied') /\ u.frames # <<>> /\ u.frames[1] = g
        /\ \A x \in TaskFields \ {"frames"} : u[x] = t[x]
    BY <1>1, <2>3, <2>6, SetTopOK
  <2>8. u.asked = t.asked
    BY <2>7 DEF TaskFields
  <2>9. Finding(g, p, t.asked, heard', denied')
    BY <2>3, <2>6 DEF Finding
  <2> HIDE DEF u
  <2>10. Base(Call(u, f2), now, heard', denied') /\ Position(Call(u, f2), resolver.strategy, heard', denied')
    BY <2>2, <2>3, <2>4, <2>7, <2>8, <2>9, CallOK
  <2> QED BY <1>0, <1>4, <2>5, <2>10, LeavingStep
<1>11. CASE Nothing(p)
  <2>1. Hear(f, p, <<>>) /\ cache' = cache /\ Set(r, Return(t, p))
    BY <1>11
  <2> QED BY <1>0, <1>4, <1>6, <2>1, LeavingStep
<1> QED BY <1>3, <1>7, <1>8, <1>9, <1>10, <1>11

(* The innermost call has returned. *)
LEMMA PoppedOK ==
  ASSUME NEW t, NEW n, NEW H, NEW D, Base(t, n, H, D), Len(t.frames) > 1
  PROVE  /\ Base([t EXCEPT !.frames = Tail(@), !.result = NoPacket], n, H, D)
         /\ [t EXCEPT !.frames = Tail(@), !.result = NoPacket].frames # <<>>
         /\ [t EXCEPT !.frames = Tail(@), !.result = NoPacket].frames[1] = t.frames[2]
         /\ [t EXCEPT !.frames = Tail(@), !.result = NoPacket].asked = t.asked
         /\ t.frames[2] \in FrameType
<1> DEFINE fs == Tail(t.frames)
           u == [t EXCEPT !.frames = Tail(@), !.result = NoPacket]
<1>1. t.frames \in Seq(FrameType) /\ Len(t.frames) \in Nat
  BY DEF Base
<1>2. /\ fs \in Seq(FrameType) /\ Len(fs) = Len(t.frames) - 1 /\ fs # <<>> /\ fs[1] = t.frames[2]
      /\ \A i \in 1..Len(fs) : fs[i] = t.frames[i + 1]
  <2>1. /\ fs \in Seq(FrameType) /\ Len(fs) = Len(t.frames) - 1 /\ fs # <<>>
        /\ \A i \in 1..Len(fs) : fs[i] = t.frames[i + 1]
    BY <1>1, TailPlaces
  <2>2. 1 \in 1..Len(fs)
    BY <1>1, <2>1
  <2> HIDE DEF fs
  <2> QED BY <2>1, <2>2
<1>3. /\ DOMAIN u = TaskFields /\ u.frames = fs /\ u.asked = t.asked
      /\ u.unmatched = t.unmatched /\ u.later = t.later /\ u.depth = t.depth
      /\ u.packet = t.packet /\ u.question = t.question
  BY DEF Base, TaskFields
<1> HIDE DEF fs, u
<1>4. Stack(fs, t.asked, H, D)
  <2>1. Stack(t.frames, t.asked, H, D)
    BY DEF Base
  <2> SUFFICES ASSUME NEW i \in 1..Len(fs), i + 1 <= Len(fs)
               PROVE  /\ fs[i].qtype = "A"
                      /\ ServerOf(fs[i].qname, fs[i + 1].qname)
                      /\ Finding(fs[i + 1], fs[i + 1].response, t.asked, H, D)
    BY DEF Stack
  <2>2. i + 1 \in 1..Len(t.frames) /\ (i + 1) + 1 <= Len(t.frames)
    BY <1>1, <1>2
  <2>3. fs[i] = t.frames[i + 1] /\ fs[i + 1] = t.frames[(i + 1) + 1]
    BY <1>1, <1>2
  <2> QED BY <2>1, <2>2, <2>3 DEF Stack
<1>5. Asking(u)
  <2>1. fs[Len(fs)] = t.frames[Len(t.frames)] /\ t.frames # <<>>
    BY <1>1, <1>2
  <2> QED BY <1>3, <2>1 DEF Base, Asking
<1>6. Base(u, n, H, D)
  BY <1>2, <1>3, <1>4, <1>5 DEF Base, Answered
<1>7. t.frames[2] \in FrameType
  BY <1>1
<1> QED BY <1>2, <1>3, <1>6, <1>7 DEF u

LEMMA NsResolvedStep ==
  ASSUME IInv, NEW r \in Requests, NsResolved(r)
  PROVE  IInv'
<1> DEFINE t == task[r]
           f == t.frames[2]
           t1 == [t EXCEPT !.frames = Tail(@), !.result = NoPacket]
<1>0. /\ now \in Nat /\ now' = now /\ UNCHANGED <<resolver, cache, heard, learned, denied>>
      /\ t.pc = "return" /\ Len(t.frames) > 1
  BY DEF IInv, NsResolved
<1>1. Base(t, now, heard, denied) /\ Position(t, resolver.strategy, heard, denied)
  BY <1>0, InCall
<1>2. Base(t1, now, heard, denied) /\ t1.frames # <<>> /\ t1.frames[1] = f /\ t1.asked = t.asked /\ f \in FrameType
  BY <1>0, <1>1, PoppedOK
<1>3. \/ Set(r, Return(t1, Err))
      \/ \E addr \in get_random_a(t.result) :
           Set(r, IF addr = 0 THEN Return(t1, f.response)
                  ELSE SetTop(Goto(t1, "wait"), [f EXCEPT !.addr = addr, !.response = NoPacket]))
  BY DEF NsResolved
<1>4. /\ t.frames[1].qtype = "A" /\ ServerOf(t.frames[1].qname, f.qname)
      /\ Finding(f, f.response, t.asked, heard, denied)
      /\ Finding(t.frames[1], t.result, t.asked, heard, denied)
  <2>1. Stack(t.frames, t.asked, heard, denied) /\ Len(t.frames) \in Nat
    BY <1>1 DEF Base
  <2>2. 1 \in 1..Len(t.frames) /\ 1 + 1 <= Len(t.frames) /\ 1 + 1 = 2
    BY <1>0, <2>1
  <2>3. /\ t.frames[1].qtype = "A" /\ ServerOf(t.frames[1].qname, f.qname)
        /\ Finding(f, f.response, t.asked, heard, denied)
    BY <2>1, <2>2 DEF Stack
  <2> QED BY <1>0, <1>1, <2>3 DEF Position
<1> HIDE DEF t1
<1>5. CASE Set(r, Return(t1, Err))
  <2>1. Finding(f, Err, t.asked, heard, denied)
    BY EmptyFinding DEF Err
  <2>2. Base(Return(t1, Err), now, heard, denied) /\ Position(Return(t1, Err), resolver.strategy, heard, denied)
    BY <1>2, <2>1, ReturnOK
  <2> QED BY <1>0, <1>5, <2>2, QuietStep
<1>6. ASSUME NEW addr \in get_random_a(t.result), addr = 0, Set(r, Return(t1, f.response)) PROVE IInv'
  <2>1. /\ Base(Return(t1, f.response), now, heard, denied)
        /\ Position(Return(t1, f.response), resolver.strategy, heard, denied)
    BY <1>2, <1>4, ReturnOK
  <2> QED BY <1>0, <1>6, <2>1, QuietStep
<1>7. ASSUME NEW addr \in get_random_a(t.result), addr # 0,
             Set(r, SetTop(Goto(t1, "wait"), [f EXCEPT !.addr = addr, !.response = NoPacket]))
      PROVE  IInv'
  <2>1. PICK rec \in Elements(t.result.answers) : rec.type = "A" /\ rec.data = addr
    BY <1>7, RandomAnswer
  <2>2. addr \in LeadsTo(t.frames[1].qname)
    BY <1>4, <2>1 DEF Finding
  <2>3. f.qname \in Names
    BY <1>2 DEF FrameType
  <2>4. addr \in Addresses /\ Serves(addr, f.qname)
    BY <1>4, <2>2, <2>3, ServerServes
  <2> DEFINE g == [f EXCEPT !.addr = addr, !.response = NoPacket]
             u == SetTop(Goto(t1, "wait"), g)
  <2>5. NoPacket \in PacketType
    BY DEF NoPacket, Packet, PacketType
  <2>6. g \in FrameType /\ g.addr = addr /\ g.qname = f.qname /\ g.qtype = f.qtype
    BY <1>2, <2>4, <2>5 DEF FrameType
  <2>7. Set(r, u)
    BY <1>7
  <2> HIDE DEF g
  <2>8. Base(u, now, heard, denied) /\ u.pc = "wait" /\ u.frames # <<>> /\ u.frames[1] = g
    BY <1>2, <2>6, PlaceOK
  <2> HIDE DEF u
  <2>9. Position(u, resolver.strategy, heard, denied)
    BY <2>4, <2>6, <2>8 DEF Position
  <2> QED BY <1>0, <2>7, <2>8, <2>9, QuietStep
<1> QED BY <1>3, <1>5, <1>6, <1>7

LEMMA TickStep ==
  ASSUME IInv, Tick
  PROVE  IInv'
<1>0. now \in Nat /\ HistoryOK /\ CacheOK(cache, heard, denied) /\ LearnedOK(learned, cache, now, denied) /\ TasksOK
  BY DEF IInv
<1>1. /\ resolver' = resolver /\ cache' = cache /\ task' = task
      /\ heard' = heard /\ learned' = learned /\ denied' = denied /\ now' = now + 1
  BY DEF Tick
<1>2. now' \in Nat /\ now <= now'
  BY <1>0, <1>1
<1>3. HistoryOK' /\ CacheOK(cache, heard, denied)'
  BY <1>0, <1>1 DEF HistoryOK, CacheOK, EntryOK
<1>4. LearnedOK(learned, cache, now', denied)
  BY <1>0, <1>2, LearnedGrows
<1>5. ASSUME NEW r \in Requests
      PROVE  Base(task[r], now', heard, denied) /\ Position(task[r], resolver.strategy, heard, denied)
  <2>1. Base(task[r], now, heard, denied) /\ Position(task[r], resolver.strategy, heard, denied)
    BY <1>0 DEF TasksOK
  <2> QED BY <1>0, <1>2, <2>1, TaskGrows
<1>6. TasksOK'
  BY <1>0, <1>1, <1>5 DEF TasksOK
<1> QED BY <1>1, <1>2, <1>3, <1>4, <1>6 DEF IInv

LEMMA NextInv ==
  ASSUME IInv, [Next]_vars
  PROVE  IInv'
<1>1. CASE UNCHANGED vars
  BY <1>1 DEF vars, IInv, HistoryOK, CacheOK, EntryOK, LearnedOK, TasksOK
<1>2. CASE Tick
  BY <1>2, TickStep
<1>3. ASSUME NEW r \in Requests, Receive(r) PROVE IInv'
  BY <1>3, ReceiveStep
<1>4. ASSUME NEW r \in Requests, Step(r) PROVE IInv'
  BY <1>4, ReplyStep, ResolveStep, ResolveAliasStep, FindNsStep, FindNsAddrStep, QueryFailsStep,
     ForwardAnsweredStep, ServerAnsweredStep, NsResolvedStep, Zenon DEF Step
<1> QED BY <1>1, <1>2, <1>3, <1>4 DEF Next

-----------------------------------------------------------------------------
(* The theorems *)

(* The invariant the others rest on: every record in a task was told, and  *)
(* had not expired when its request came in; every resolve call of a task  *)
(* looks for the address of a server the one below it waits for; and the   *)
(* cache holds what was learned, unless it was denied since.               *)
THEOREM LookupInvariant == Spec => []IInv
<1>1. Init => IInv
  BY InitInv
<1>2. IInv /\ [Next]_vars => IInv'
  BY NextInv
<1> QED BY <1>1, <1>2, PTL DEF Spec

LEMMA InvCurrent ==
  ASSUME IInv
  PROVE  AnswersCurrent
<1>1. ASSUME NEW r \in Requests
      PROVE  Answered(task[r], heard, denied)
  BY DEF IInv, TasksOK, Base
<1>2. NothingExpired
  BY <1>1 DEF NothingExpired, Answered, Fresh
<1>3. NxdomainCurrent
  BY <1>1 DEF NxdomainCurrent, Answered, DeniedFor
<1> QED BY <1>2, <1>3 DEF AnswersCurrent

(* What execute_query answers, or denies, is still so: no record of an     *)
(* answer, found in the cache or by a server, through aliases or not, had  *)
(* expired when the request came in, and a name is denied only while the   *)
(* denial of a server lasts (get_cache_state, fill_queryresult).           *)
THEOREM AnswersAreCurrent == Spec => []AnswersCurrent
<1>1. IInv => AnswersCurrent
  BY InvCurrent
<1> QED BY <1>1, LookupInvariant, PTL

LEMMA InvAuthoritative ==
  ASSUME IInv
  PROVE  AsksAuthoritative
<1> SUFFICES ASSUME NEW r \in Requests, resolver.strategy = "Recursive", task[r].pc = "wait"
             PROVE  Serves(Top(r).addr, Top(r).qname)
  BY DEF AsksAuthoritative, Serves
<1>1. Position(task[r], resolver.strategy, heard, denied) /\ Top(r) = task[r].frames[1]
  BY InCall
<1> QED BY <1>1 DEF Position

(* RecursiveDnsResolver::perform sends a query only to a server of a zone  *)
(* that holds the name, however it found the server: hints, glue, a cached *)
(* address or a resolve of its own.  The one exception is a referral for a *)
(* domain that the name ends with as a string only.                        *)
THEOREM ServersAreAuthoritative == Spec => []AsksAuthoritative
<1>1. IInv => AsksAuthoritative
  BY InvAuthoritative
<1> QED BY <1>1, LookupInvariant, PTL

(* Each step is one of one task. *)
LEMMA ActsAlone ==
  ASSUME TasksOK, NEW q \in Requests, Receive(q) \/ Step(q), NEW r \in Requests, r # q
  PROVE  task'[r] = task[r]
<1>1. ASSUME NEW t, Set(q, t) PROVE task'[r] = task[r]
  BY <1>1 DEF TasksOK, Set
<1>2. CASE Receive(q)
  BY <1>1, <1>2, Zenon DEF Receive
<1>3. CASE Reply(q)
  BY <1>1, <1>3, Zenon DEF Reply
<1>4. CASE Resolve(q)
  BY <1>1, <1>4, Zenon DEF Resolve
<1>5. CASE ResolveAlias(q)
  BY <1>1, <1>5, Zenon DEF ResolveAlias
<1>6. CASE FindNs(q)
  BY <1>1, <1>6, Zenon DEF FindNs
<1>7. CASE FindNsAddr(q)
  BY <1>1, <1>7, Zenon DEF FindNsAddr
<1>8. CASE QueryFails(q)
  BY <1>1, <1>8, Zenon DEF QueryFails
<1>9. CASE ForwardAnswered(q)
  BY <1>1, <1>9, Zenon DEF ForwardAnswered
<1>10. CASE ServerAnswered(q)
  BY <1>1, <1>10, Zenon DEF ServerAnswered
<1>11. CASE NsResolved(q)
  BY <1>1, <1>11, Zenon DEF NsResolved
<1> QED BY <1>2, <1>3, <1>4, <1>5, <1>6, <1>7, <1>8, <1>9, <1>10, <1>11 DEF Step

(* Whoever leaves a lookup with empty hands has found nothing that is      *)
(* known.                                                                  *)
LEMMA LeavesLookup ==
  ASSUME IInv, NEW r \in Requests, NEW qtype, NEW c \in Clocks, NEW p \in Lookup(Top(r).qname, qtype, c),
         p = NoPacket
  PROVE  ~Known(Top(r).qname, qtype)
<1>0. now \in Nat /\ HistoryOK /\ CacheOK(cache, heard, denied) /\ LearnedOK(learned, cache, now, denied)
  BY DEF IInv
<1>1. now <= now
  BY <1>0
<1>2. ASSUME NEW name, p \in Lookup(name, qtype, c) PROVE ~Known(name, qtype)
  BY <1>0, <1>1, <1>2, LookupOK
<1> QED BY <1>2, Zenon

LEMMA ResolveAsks ==
  ASSUME IInv, NEW r \in Requests, Resolve(r), task'[r].pc \in {"cname", "wait", "ns"}
  PROVE  ~Known(Top(r).qname, Top(r).qtype)
<1> DEFINE t == task[r]
           f == Top(r)
           found(p) == IF p # NoPacket THEN Return(t, p)
                       ELSE IF f.qtype \in {"A", "AAAA"} THEN Goto(t, "cname") ELSE Miss(t, f)
<1>0. /\ now \in Nat /\ HistoryOK /\ CacheOK(cache, heard, denied) /\ LearnedOK(learned, cache, now, denied)
      /\ t.pc = "resolve"
  BY DEF IInv, Resolve
<1>1. /\ Base(t, now, heard, denied) /\ t.frames # <<>> /\ f = t.frames[1]
      /\ t.asked \in Nat /\ t.asked <= now
  BY <1>0, InCall
<1>2. ASSUME NEW p, Finding(f, p, t.asked, heard, denied), Set(r, Return(t, p)) PROVE FALSE
  <2>1. Return(t, p).pc \in {"return", "resolve", "reply"}
    BY <1>1, <1>2, ReturnOK
  <2>2. task'[r] = Return(t, p)
    BY <1>2 DEF IInv, TasksOK, Set
  <2> QED BY <2>1, <2>2
<1>3. CASE Set(r, Return(t, Packet("NOTIMP")))
  <2>1. Finding(f, Packet("NOTIMP"), t.asked, heard, denied)
    BY EmptyFinding DEF ResultCodes
  <2> QED BY <1>2, <1>3, <2>1
<1>4. CASE Set(r, Return(t, Packet("REFUSED")))
  <2>1. Finding(f, Packet("REFUSED"), t.asked, heard, denied)
    BY EmptyFinding DEF ResultCodes
  <2> QED BY <1>2, <1>4, <2>1
<1>5. CASE \E c \in Clocks : \E p \in Lookup(f.qname, f.qtype, c) : Set(r, found(p))
  <2>1. PICK c \in Clocks : \E p \in Lookup(f.qname, f.qtype, c) : Set(r, found(p))
    BY <1>5
  <2>2. PICK p \in Lookup(f.qname, f.qtype, c) : Set(r, found(p))
    BY <2>1
  <2>3. Finding(f, p, t.asked, heard, denied)
    BY <1>0, <1>1, LookupFinding
  <2>4. CASE p # NoPacket
    <3>1. Set(r, Return(t, p))
      BY <2>2, <2>4
    <3> QED BY <1>2, <2>3, <3>1
  <2>5. CASE p = NoPacket
    BY <2>5, LeavesLookup, Zenon
  <2> QED BY <2>4, <2>5
<1> QED BY <1>3, <1>4, <1>5 DEF Resolve

LEMMA ResolveAliasAsks ==
  ASSUME IInv, NEW r \in Requests, ResolveAlias(r), task'[r].pc \in {"wait", "ns"}
  PROVE  ~Known(Top(r).qname, "CNAME")
<1> DEFINE t == task[r]
           f == Top(r)
<1>0. /\ now \in Nat /\ HistoryOK /\ CacheOK(cache, heard, denied) /\ LearnedOK(learned, cache, now, denied)
      /\ t.pc = "cname"
  BY DEF IInv, ResolveAlias
<1>1. /\ Base(t, now, heard, denied) /\ t.frames # <<>> /\ f = t.frames[1]
      /\ t.asked \in Nat /\ t.asked <= now
  BY <1>0, InCall
<1>2. PICK c \in Clocks : \E p \in Lookup(f.qname, "CNAME", c) :
        Set(r, IF p # NoPacket THEN Return(t, p) ELSE Miss(t, f))
  BY DEF ResolveAlias
<1>3. PICK p \in Lookup(f.qname, "CNAME", c) : Set(r, IF p # NoPacket THEN Return(t, p) ELSE Miss(t, f))
  BY <1>2
<1>4. CASE p # NoPacket
  <2>1. Finding(f, p, t.asked, heard, denied)
    BY <1>0, <1>1, LookupFinding
  <2>2. Return(t, p).pc \in {"return", "resolve", "reply"}
    BY <1>1, <2>1, ReturnOK
  <2>3. task'[r] = Return(t, p)
    BY <1>3, <1>4 DEF IInv, TasksOK, Set
  <2> QED BY <2>2, <2>3
<1>5. CASE p = NoPacket
  BY <1>5, LeavesLookup, Zenon
<1> QED BY <1>4, <1>5

LEMMA InvAsks ==
  ASSUME IInv, [Next]_vars
  PROVE  /\ \A r \in Requests :
              task[r].pc = "resolve" /\ task'[r].pc \in {"cname", "wait", "ns"} =>
                ~Known(Top(r).qname, Top(r).qtype)
         /\ \A r \in Requests :
              task[r].pc = "cname" /\ task'[r].pc \in {"wait", "ns"} => ~Known(Top(r).qname, "CNAME")
<1>1. ASSUME NEW r \in Requests, task[r].pc \in {"resolve", "cname"}, task'[r].pc # task[r].pc
      PROVE  Resolve(r) \/ ResolveAlias(r)
  <2>1. ASSUME task' = task PROVE FALSE
    BY <1>1, <2>1
  <2>2. PICK q \in Requests : Receive(q) \/ Step(q)
    BY <2>1 DEF Next, Tick, vars
  <2>3. q = r
    BY <1>1, <2>2, ActsAlone DEF IInv
  <2> QED BY <1>1, <2>2, <2>3 DEF Receive, Step, Reply, FindNs, FindNsAddr, QueryFails, ForwardAnswered,
            ServerAnswered, NsResolved
<1>2. ASSUME NEW r \in Requests, task[r].pc = "resolve", task'[r].pc \in {"cname", "wait", "ns"}
      PROVE  ~Known(Top(r).qname, Top(r).qtype)
  <2>1. Resolve(r)
    BY <1>1, <1>2 DEF ResolveAlias
  <2> QED BY <1>2, <2>1, ResolveAsks
<1>3. ASSUME NEW r \in Requests, task[r].pc = "cname", task'[r].pc \in {"wait", "ns"}
      PROVE  ~Known(Top(r).qname, "CNAME")
  <2>1. ResolveAlias(r)
    BY <1>1, <1>3 DEF Resolve
  <2> QED BY <1>3, <2>1, ResolveAliasAsks
<1> QED BY <1>2, <1>3

(* resolve asks a server, or looks for one, only for a name and a type     *)
(* that no answer the resolver took over has told within its ttl, whoever  *)
(* it was told: SynchronizedCache::lookup comes back empty-handed for no   *)
(* other reason, save a denial that came later.                            *)
THEOREM NobodyAsksForTheKnown == Spec => AsksWhatIsUnknown
<1>1. IInv /\ [Next]_vars =>
        [/\ \A r \in Requests :
              task[r].pc = "resolve" /\ task'[r].pc \in {"cname", "wait", "ns"} =>
                ~Known(Top(r).qname, Top(r).qtype)
         /\ \A r \in Requests :
              task[r].pc = "cname" /\ task'[r].pc \in {"wait", "ns"} => ~Known(Top(r).qname, "CNAME")]_vars
  BY InvAsks
<1> QED BY <1>1, LookupInvariant, PTL DEF Spec, AsksWhatIsUnknown

=============================================================================
