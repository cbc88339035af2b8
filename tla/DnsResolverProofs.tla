------------------------- MODULE DnsResolverProofs -------------------------
(***************************************************************************)
(* Proofs about DnsResolver, for every set of domains, every width of the  *)
(* address counter and every content of /etc/hosts.                        *)
(***************************************************************************)
EXTENDS DnsResolver, TLAPS

(* What makes a key space consistent: without a counter it holds nothing;  *)
(* addresses handed out are below the counter and distinct; the reverse    *)
(* entries agree with the forward ones.                                    *)
Below(x, n) == \A d \in Domain : x.fwd[d] # None => x.fwd[d] < n

Unstarted(x) ==
  x.next = None => /\ \A d \in Domain : x.fwd[d] = None
                   /\ \A i \in Ip : x.rev[i] = None

ReverseAgrees(x) ==
  \A i \in Ip : x.rev[i] # None => x.fwd[x.rev[i]] = i

Consistent(x) ==
  /\ x.next # None => Below(x, x.next)
  /\ Injective(x)
  /\ ReverseAgrees(x)

(* The part of the inductive invariant that does not depend on the counter *)
(* having room: what is in progress, and that the running database extends *)
(* the durable one.                                                        *)
RequestOK ==
  /\ stage \in {"allocated", "counted", "mapped"} =>
        req.domain \in Domain /\ req.ip \in Ip
  /\ stage \in {"allocated", "counted"} => db.fwd[req.domain] = None
  /\ stage \in {"counted", "mapped"} => db.next # None

(* Where the counter stands relative to the database at each stage. *)
CounterOK ==
  /\ stage = "idle" => (db.next # None => next_ip = db.next)
  /\ stage = "allocated" => next_ip = req.ip + 1 /\ Below(db, req.ip)
  /\ stage = "counted" => /\ next_ip = req.ip + 1
                          /\ db.next = next_ip
                          /\ Below(db, req.ip)
  /\ stage = "mapped" => /\ next_ip = req.ip + 1
                         /\ db.next = next_ip
                         /\ db.fwd[req.domain] = req.ip

Extends(x, y) == \A d \in Domain : y.fwd[d] # None => x.fwd[d] = y.fwd[d]

BaseInv ==
  /\ TypeOK
  /\ Unstarted(db)
  /\ Unstarted(disk)
  /\ RequestOK

IInv ==
  /\ BaseInv
  /\ ~exhausted => Consistent(db) /\ Consistent(disk) /\ CounterOK
-----------------------------------------------------------------------------
LEMMA EmptyIsConsistent ==
  EmptyDb \in KeySpace /\ Unstarted(EmptyDb) /\ Consistent(EmptyDb)
BY ResolverAssumption
   DEF EmptyDb, KeySpace, Unstarted, Consistent, Below, Injective,
       ReverseAgrees

(* Every variable keeps its type, an unstarted database stays empty and a  *)
(* request in progress is for a domain that has no address yet.            *)
LEMMA BaseStep ==
  BaseInv /\ [Next]_vars => BaseInv'
<1> SUFFICES ASSUME BaseInv, [Next]_vars PROVE BaseInv'
  OBVIOUS
<1> USE ResolverAssumption DEF BaseInv, TypeOK, RequestOK, Unstarted, Stage
<1>1. CASE Open
  <2>1. CASE ResumeCounter
    BY <1>1, <2>1 DEF Open, ResumeCounter, KeySpace
  <2>2. CASE ClearAndStart
    BY <1>1, <2>2, EmptyIsConsistent DEF Open, ClearAndStart
  <2> QED BY <1>1, <2>1, <2>2 DEF Open
<1>2. ASSUME NEW d \in Domain, ResolveFromHosts(d) PROVE BaseInv'
  BY <1>2 DEF ResolveFromHosts, vars
<1>3. ASSUME NEW d \in Domain, ResolveFromDb(d) PROVE BaseInv'
  BY <1>3 DEF ResolveFromDb, vars
<1>4. ASSUME NEW d \in Domain, ResolveNew(d) PROVE BaseInv'
  <2>1. next_ip' \in Ip /\ exhausted' \in BOOLEAN
    BY <1>4 DEF ResolveNew, GenIpaddr, Ip
  <2>2. req' \in [domain : Domain \cup {None}, ip : Ip \cup {None}]
    BY <1>4 DEF ResolveNew
  <2> QED BY <1>4, <2>1, <2>2 DEF ResolveNew
<1>5. CASE InsertNextIp
  <2>1. db' \in KeySpace /\ db'.next = next_ip /\ db'.fwd = db.fwd
    BY <1>5 DEF InsertNextIp, KeySpace
  <2> QED BY <1>5, <2>1 DEF InsertNextIp
<1>6. CASE InsertDomain
  <2>1. db' \in KeySpace /\ db'.next = db.next
    BY <1>6 DEF InsertDomain, KeySpace
  <2> QED BY <1>6, <2>1 DEF InsertDomain
<1>7. CASE InsertIp
  <2>1. db' \in KeySpace /\ db'.next = db.next /\ db'.fwd = db.fwd
    BY <1>7 DEF InsertIp, KeySpace
  <2>2. db.next # None
    BY <1>7 DEF InsertIp
  <2>3. req' \in [domain : Domain \cup {None}, ip : Ip \cup {None}]
    BY <1>7 DEF InsertIp, NoRequest
  <2> QED BY <1>7, <2>1, <2>2, <2>3 DEF InsertIp
<1>8. CASE Flush
  BY <1>8 DEF Flush
<1>9. CASE Crash
  BY <1>9 DEF Crash, NoRequest
<1>10. CASE UNCHANGED vars
  BY <1>10 DEF vars
<1> QED BY <1>1, <1>2, <1>3, <1>4, <1>5, <1>6, <1>7, <1>8, <1>9, <1>10 DEF Next

LEMMA BaseInit == Init => BaseInv
<1> SUFFICES ASSUME Init PROVE BaseInv
  OBVIOUS
<1>1. req \in [domain : Domain \cup {None}, ip : Ip \cup {None}]
  BY DEF Init, NoRequest
<1> QED
  BY <1>1, ResolverAssumption, EmptyIsConsistent
     DEF Init, BaseInv, TypeOK, RequestOK, Stage

(* The types declared in TypeOK hold in every reachable state. *)
THEOREM TypeCorrect == Spec => []TypeOK
<1>1. BaseInv => TypeOK
  BY DEF BaseInv
<1> QED BY <1>1, BaseInit, BaseStep, PTL DEF Spec
-----------------------------------------------------------------------------
(* Allocation keeps every key space consistent and the counter ahead of    *)
(* it, as long as the counter has not wrapped.                             *)
LEMMA ConsistentStep ==
  IInv /\ [Next]_vars => IInv'
<1> SUFFICES ASSUME IInv, [Next]_vars PROVE IInv'
  OBVIOUS
<1>0. BaseInv /\ BaseInv'
  BY BaseStep DEF IInv
<1> SUFFICES ASSUME ~exhausted'
             PROVE  Consistent(db)' /\ Consistent(disk)' /\ CounterOK'
  BY <1>0 DEF IInv
<1>e. ~exhausted
  BY <1>0 DEF Next, Open, ResolveFromHosts, ResolveFromDb, ResolveNew, GenIpaddr,
              InsertNextIp, InsertDomain, InsertIp, Flush, Crash, vars, BaseInv,
              TypeOK
<1>c. Consistent(db) /\ Consistent(disk) /\ CounterOK
  BY <1>e DEF IInv
<1> USE ResolverAssumption
<1>1. CASE Open
  <2>1. CASE ResumeCounter
    BY <1>c, <1>1, <2>1 DEF Open, ResumeCounter, CounterOK
  <2>2. CASE ClearAndStart
    <3>1. db'.next = None
      BY <2>2 DEF ClearAndStart, EmptyDb
    <3> QED
      BY <1>c, <1>1, <2>2, <3>1, EmptyIsConsistent
         DEF Open, ClearAndStart, CounterOK
  <2> QED BY <1>1, <2>1, <2>2 DEF Open
<1>2. ASSUME NEW d \in Domain, ResolveFromHosts(d)
      PROVE  Consistent(db)' /\ Consistent(disk)' /\ CounterOK'
  BY <1>2, <1>c DEF ResolveFromHosts, vars, CounterOK, Below
<1>3. ASSUME NEW d \in Domain, ResolveFromDb(d)
      PROVE  Consistent(db)' /\ Consistent(disk)' /\ CounterOK'
  BY <1>3, <1>c DEF ResolveFromDb, vars, CounterOK, Below
<1>4. ASSUME NEW d \in Domain, ResolveNew(d)
      PROVE  Consistent(db)' /\ Consistent(disk)' /\ CounterOK'
  <2>1. next_ip' = next_ip + 1 /\ req'.ip = next_ip
    <3>1. next_ip \in 0 .. IpSpace - 1 /\ next_ip + 1 # IpSpace
      BY <1>0, <1>4, <1>e DEF ResolveNew, GenIpaddr, BaseInv, TypeOK, Ip
    <3>2. (next_ip + 1) % IpSpace = next_ip + 1
      BY <3>1
    <3> QED BY <1>4, <3>2 DEF ResolveNew, GenIpaddr
  <2>2. Below(db, next_ip)
    BY <1>0, <1>c, <1>4
       DEF ResolveNew, Consistent, CounterOK, Below, BaseInv, Unstarted
  <2> QED BY <1>c, <1>4, <2>1, <2>2 DEF ResolveNew, CounterOK, Below
<1>5. CASE InsertNextIp
  <2>1. db'.next = next_ip /\ db'.fwd = db.fwd /\ db'.rev = db.rev
    BY <1>0, <1>5 DEF InsertNextIp, BaseInv, TypeOK, KeySpace
  <2>2. next_ip = req.ip + 1 /\ Below(db, req.ip) /\ req.ip \in Ip
    BY <1>0, <1>c, <1>5 DEF InsertNextIp, CounterOK, BaseInv, RequestOK
  <2>3. Below(db, next_ip)
    BY <1>0, <2>2 DEF Below, BaseInv, TypeOK, KeySpace, Ip
  <2>4. Consistent(db)'
    BY <1>c, <2>1, <2>3 DEF Consistent, Below, Injective, ReverseAgrees
  <2> QED BY <1>c, <1>5, <2>1, <2>2, <2>4 DEF InsertNextIp, CounterOK, Below
<1>6. CASE InsertDomain
  <2>1. db.fwd \in [Domain -> Ip \cup {None}] /\ db.rev \in [Ip -> Domain \cup {None}]
    BY <1>0 DEF BaseInv, TypeOK, KeySpace
  <2>2. /\ db'.next = db.next /\ db'.rev = db.rev
        /\ db'.fwd = [db.fwd EXCEPT ![req.domain] = req.ip]
    BY <1>0, <1>6 DEF InsertDomain, BaseInv, TypeOK, KeySpace
  <2>3. /\ req.domain \in Domain /\ req.ip \in Ip
        /\ db.fwd[req.domain] = None
        /\ db.next = req.ip + 1 /\ next_ip = req.ip + 1
        /\ Below(db, req.ip)
    BY <1>0, <1>c, <1>6 DEF InsertDomain, CounterOK, BaseInv, RequestOK
  <2>4. \A d \in Domain : db'.fwd[d] = IF d = req.domain THEN req.ip ELSE db.fwd[d]
    BY <2>1, <2>2, <2>3
  <2>5. Injective(db)'
    BY <1>c, <2>1, <2>3, <2>4 DEF Injective, Below, Consistent, Ip
  <2>6. ReverseAgrees(db)'
    BY <1>c, <2>1, <2>2, <2>3, <2>4 DEF ReverseAgrees, Consistent
  <2>7. Below(db, db.next)'
    BY <2>1, <2>2, <2>3, <2>4 DEF Below, Ip
  <2> QED
    BY <1>c, <1>6, <2>2, <2>3, <2>4, <2>5, <2>6, <2>7
       DEF InsertDomain, CounterOK, Consistent
<1>7. CASE InsertIp
  <2>1. db.rev \in [Ip -> Domain \cup {None}]
    BY <1>0 DEF BaseInv, TypeOK, KeySpace
  <2>2. /\ db'.next = db.next /\ db'.fwd = db.fwd
        /\ db'.rev = [db.rev EXCEPT ![req.ip] = req.domain]
    BY <1>0, <1>7 DEF InsertIp, BaseInv, TypeOK, KeySpace
  <2>3. /\ req.domain \in Domain /\ req.ip \in Ip
        /\ db.fwd[req.domain] = req.ip
        /\ db.next = next_ip
    BY <1>0, <1>c, <1>7 DEF InsertIp, CounterOK, BaseInv, RequestOK
  <2>4. ReverseAgrees(db)'
    BY <1>c, <2>1, <2>2, <2>3 DEF ReverseAgrees, Consistent
  <2>5. Consistent(db)'
    BY <1>c, <2>2, <2>4 DEF Consistent, Injective, Below
  <2> QED BY <1>c, <1>7, <2>2, <2>3, <2>5 DEF InsertIp, CounterOK
<1>8. CASE Flush
  BY <1>c, <1>8 DEF Flush, CounterOK, Below
<1>9. CASE Crash
  BY <1>c, <1>9 DEF Crash, CounterOK
<1>10. CASE UNCHANGED vars
  BY <1>c, <1>10 DEF vars, CounterOK, Below
<1> QED BY <1>1, <1>2, <1>3, <1>4, <1>5, <1>6, <1>7, <1>8, <1>9, <1>10 DEF Next

LEMMA ConsistentInv == Spec => []IInv
<1>1. Init => IInv
  BY BaseInit, EmptyIsConsistent DEF Init, IInv, CounterOK
<1> QED BY <1>1, ConsistentStep, PTL DEF Spec

(* Whatever crashes and restarts interleave with the inserts of resolve,   *)
(* no two domains share an address.                                        *)
THEOREM UniqueAddresses == Spec => []UniqueIp
<1>1. IInv => UniqueIp
  BY DEF IInv, UniqueIp, Consistent
<1> QED BY <1>1, ConsistentInv, PTL

(* A connection to an assigned address is never routed to another domain. *)
THEOREM RoutedToItsDomain == Spec => []NeverWrongHost
<1>1. IInv => NeverWrongHost
  <2> SUFFICES ASSUME IInv, ~exhausted, NEW d \in Domain, db.fwd[d] # None
               PROVE  HostOf(db.fwd[d]) \in {d, db.fwd[d]}
    BY DEF NeverWrongHost
  <2>1. db.fwd[d] \in Ip /\ db.rev \in [Ip -> Domain \cup {None}]
    BY DEF IInv, BaseInv, TypeOK, KeySpace
  <2>2. db.rev[db.fwd[d]] # None => db.rev[db.fwd[d]] = d
    BY <2>1 DEF IInv, Consistent, ReverseAgrees, Injective
  <2> QED BY <2>2 DEF HostOf, LookupHost
<1> QED BY <1>1, ConsistentInv, PTL

-----------------------------------------------------------------------------
(* Until a failed read clears it, the running database extends the durable *)
(* one, so that a flush only ever adds assignments.                        *)
ExtendsInv == BaseInv /\ (~lost => Extends(db, disk))

LEMMA ExtendsStep == ExtendsInv /\ [Next]_vars => ExtendsInv'
<1> SUFFICES ASSUME ExtendsInv, [Next]_vars PROVE ExtendsInv'
  OBVIOUS
<1>0. BaseInv /\ BaseInv'
  BY BaseStep DEF ExtendsInv
<1> SUFFICES ASSUME ~lost' PROVE Extends(db, disk)'
  BY <1>0 DEF ExtendsInv
<1>y. ~lost
  BY <1>0 DEF BaseInv, TypeOK, Next, Open, ResumeCounter, ClearAndStart, ResolveFromHosts,
         ResolveFromDb, ResolveNew, InsertNextIp, InsertDomain, InsertIp, Flush, Crash, vars
<1>x. Extends(db, disk)
  BY <1>y DEF ExtendsInv
<1>1. CASE Open
  <2>1. CASE ResumeCounter
    BY <1>1, <1>x, <2>1 DEF Open, ResumeCounter, Extends
  <2>2. CASE ClearAndStart
    BY <1>0, <1>1, <1>x, <2>2
       DEF Open, ClearAndStart, Extends, BaseInv, Unstarted, EmptyDb
  <2> QED BY <1>1, <2>1, <2>2 DEF Open
<1>2. ASSUME NEW d \in Domain, ResolveFromHosts(d) PROVE Extends(db, disk)'
  BY <1>2, <1>x DEF ResolveFromHosts, vars, Extends
<1>3. ASSUME NEW d \in Domain, ResolveFromDb(d) PROVE Extends(db, disk)'
  BY <1>3, <1>x DEF ResolveFromDb, vars, Extends
<1>4. ASSUME NEW d \in Domain, ResolveNew(d) PROVE Extends(db, disk)'
  BY <1>4, <1>x DEF ResolveNew, Extends
<1>5. CASE InsertNextIp
  BY <1>0, <1>5, <1>x DEF InsertNextIp, Extends, BaseInv, TypeOK, KeySpace
<1>6. CASE InsertDomain
  <2>1. db'.fwd = [db.fwd EXCEPT ![req.domain] = req.ip]
    BY <1>0, <1>6 DEF InsertDomain, BaseInv, TypeOK, KeySpace
  <2>2. db.fwd[req.domain] = None /\ req.domain \in Domain
    BY <1>0, <1>6 DEF InsertDomain, BaseInv, RequestOK
  <2>3. disk.fwd[req.domain] = None
    BY <1>x, <2>2 DEF Extends
  <2>4. db.fwd \in [Domain -> Ip \cup {None}]
    BY <1>0 DEF BaseInv, TypeOK, KeySpace
  <2> QED BY <1>6, <1>x, <2>1, <2>3, <2>4 DEF InsertDomain, Extends
<1>7. CASE InsertIp
  BY <1>0, <1>7, <1>x DEF InsertIp, Extends, BaseInv, TypeOK, KeySpace
<1>8. CASE Flush
  BY <1>8 DEF Flush, Extends
<1>9. CASE Crash
  BY <1>9 DEF Crash, Extends
<1>10. CASE UNCHANGED vars
  BY <1>10, <1>x DEF vars, Extends
<1> QED BY <1>1, <1>2, <1>3, <1>4, <1>5, <1>6, <1>7, <1>8, <1>9, <1>10 DEF Next

(* A durable assignment survives every later step, restarts included,      *)
(* until opening the database fails to read the counter.                   *)
THEOREM DurableAssignments == Spec => DurableStable
<1>1. Init => ExtendsInv
  BY BaseInit DEF Init, ExtendsInv, Extends, EmptyDb
<1>2. ExtendsInv /\ [Next]_vars =>
        [~lost => \A d \in Domain :
                    disk.fwd[d] # None => disk'.fwd[d] = disk.fwd[d]]_vars
  BY DEF ExtendsInv, Extends, Next, Open, ResolveFromHosts, ResolveFromDb,
         ResolveNew, InsertNextIp, InsertDomain, InsertIp, Flush, Crash, vars
<1> QED BY <1>1, <1>2, ExtendsStep, PTL DEF Spec, DurableStable
=============================================================================
