----------------------------- MODULE DnsLookup -----------------------------
(***************************************************************************)
(* The DNS server of hermesdns: the UDP server of server.rs with a task    *)
(* per request, the forwarding and the recursive resolver of resolve.rs,   *)
(* and the cache of cache.rs they share.                                   *)
(*                                                                         *)
(* A name is the sequence of its labels, and labels are atoms, of which    *)
(* one may end with another.  A record has one datum (address, host or SOA *)
(* minimum).  A step of a task is the code from one lock of the cache, or  *)
(* one await, to the next; the stores that follow an answer, each of which *)
(* locks the cache for itself, are one step with the one that takes it.    *)
(* The resolvers never clone a DomainEntry (only list(), which nothing     *)
(* calls, does), so Arc::get_mut always succeeds.                          *)
(***************************************************************************)
EXTENDS Naturals, Sequences, SequencesExt

CONSTANTS
  Requests,        \* numbers of the requests the server receives
  Questions,       \* questions they may hold: qname, qtype, rd
  Strategies,      \* resolvers to run: "Forward", "Recursive"
  Forwarder,       \* server of ForwardingDnsResolver
  Hints,           \* what may be in the cache of a recursive resolver at first: the
                   \* program starts it empty, resolve.rs's tests with name servers
  Names,           \* names that are asked for, or told by a server
  Addresses,       \* addresses, of servers and of other hosts
  LabelEnds(_,_),  \* is the second label the end of the first, as strings?
  Upstream(_,_,_), \* packets a server answers a name and a type with
  Zones(_),        \* the zones a server is an authority for
  MaxTime          \* bound on the clock

VARIABLES
  resolver,  \* which resolver runs, and its allow_recursive
  cache,     \* domain_entries: the RecordSet of a domain and a type
  now,       \* Local::now(), in units of the ttl
  task,      \* the task of each request
  heard,     \* records servers told, and when (history)
  learned,   \* of those the resolver took over, the latest of each (history)
  denied     \* NXDOMAINs servers gave, and when (history)

vars == <<resolver, cache, now, task, heard, learned, denied>>

(* QueryType and ResultCode. *)
Types == {"A", "NS", "CNAME", "SOA", "MX", "TXT", "AAAA", "SRV", "OPT", "UNKNOWN"}
ResultCodes == {"NOERROR", "FORMERR", "SERVFAIL", "NXDOMAIN", "NOTIMP", "REFUSED"}

Packet(rescode) == [rescode |-> rescode, answers |-> <<>>, authorities |-> <<>>, resources |-> <<>>]
NoPacket == Packet("None")  \* Option::None, or no packet yet
Err == Packet("Err")        \* an io::Error

Elements(s) == {s[i] : i \in DOMAIN s}
Sections(p) == p.answers \o p.authorities \o p.resources

(* All that servers ever tell. *)
Told ==
  UNION {Elements(recs) : recs \in Hints}
    \cup UNION {Elements(Sections(p)) :
                 p \in UNION {Upstream(s, n, q) : s \in Addresses, n \in Names, q \in Types}}

ASSUME LookupAssumption ==
  /\ Questions \subseteq [qname : Names, qtype : Types, rd : BOOLEAN]
  /\ Names \subseteq Seq(STRING)
  /\ \A label \in UNION {Elements(n) : n \in Names} : LabelEnds(label, label)
  /\ Forwarder \in Addresses
  /\ MaxTime \in Nat
  /\ \A s \in Addresses : Zones(s) \subseteq Names
  /\ \A recs \in Hints : recs \in Seq(Told)
  /\ \A s \in Addresses, n \in Names, q \in Types :
       Upstream(s, n, q) \subseteq
         [rescode : ResultCodes, answers : Seq(Told), authorities : Seq(Told), resources : Seq(Told)]
  /\ \A rec \in Told :
       /\ rec.type \in Types /\ rec.domain \in Names /\ rec.ttl \in Nat
       /\ rec.type = "A" => rec.data \in Addresses
       /\ rec.type \in {"NS", "CNAME", "SRV"} => rec.data \in Names
       /\ rec.type = "SOA" => rec.data \in Nat

(* The addresses that a name has by a record of its own, or that a server  *)
(* answers with when it is asked for them (through an alias, say).         *)
LeadsTo(name) ==
  {a.data : a \in {rec \in Told : rec.type = "A" /\ rec.domain = name}}
    \cup {a.data : a \in {rec \in UNION {Elements(p.answers) : p \in UNION {Upstream(s, name, "A") : s \in Addresses}} :
                            rec.type = "A"}}

(* str::ends_with on names: the labels agree from the last on, and the     *)
(* first one of the suffix need only be the end of its counterpart.        *)
EndsWith(qname, domain) ==
  LET k == Len(qname) - Len(domain)
  IN /\ Len(domain) <= Len(qname)
     /\ \A i \in DOMAIN domain :
          IF i = 1 THEN LabelEnds(qname[k + 1], domain[1]) ELSE qname[k + i] = domain[i]

(* Servers agree on who serves a zone: the name server a record names for  *)
(* it has no address but of servers of that zone, or of one above it.      *)
ASSUME DelegationsAgree ==
  \A ns \in Told : ns.type = "NS" =>
    \A addr \in LeadsTo(ns.data) : \E zone \in Zones(addr) : IsSuffix(zone, ns.domain)

(* DnsRecord's equality: TransientTtl compares as equal to any other. *)
Same(rec1, rec2) ==
  rec1.type = rec2.type /\ rec1.domain = rec2.domain /\ rec1.data = rec2.data

-----------------------------------------------------------------------------
(* What a packet tells *)

(* The place of the first SOA among the authorities, 0 if there is none. *)
get_ttl_from_soa(p) == SelectInSeq(p.authorities, LAMBDA rec : rec.type = "SOA")
SoaTtl(p) == p.authorities[get_ttl_from_soa(p)].data

(* The answers random::<usize>() may choose from; one that is no A gives   *)
(* None, which get_random_a makes of an empty packet too.                  *)
get_random_a(p) ==
  LET Addr(rec) == IF rec.type = "A" THEN rec.data ELSE 0
  IN IF p.answers = <<>> THEN {0} ELSE {Addr(rec) : rec \in Elements(p.answers)}

(* Every answer, a CNAME whose host has an A in the packet excepted. *)
get_unresolved_cnames(p) ==
  LET Matched(rec) ==
        /\ rec.type = "CNAME"
        /\ \E rec2 \in Elements(p.answers) : rec2.type = "A" /\ rec2.domain = rec.data
  IN {rec \in Elements(p.answers) : ~Matched(rec)}

get_unresolved_ns(p, qname) ==
  {rec.data : rec \in {a \in Elements(p.authorities) : a.type = "NS" /\ EndsWith(qname, a.domain)}}

(* Fault: any address will do. *)
get_resolved_ns_any(p, qname) ==
  {rec.data : rec \in {a \in Elements(p.resources) : a.type = "A"}}

get_resolved_ns(p, qname) ==
  {rec.data : rec \in {a \in Elements(p.resources) :
                         a.type = "A" /\ a.domain \in get_unresolved_ns(p, qname)}}

-----------------------------------------------------------------------------
(* The cache *)

Expired(at, ttl, t) == at + ttl < t

NoRecords(ttl) == [kind |-> "NoRecords", ttl |-> ttl, at |-> now, records |-> {}]
Records(entries) == [kind |-> "Records", ttl |-> 0, at |-> 0, records |-> entries]

(* get_domain and get_querytype: an OPT belongs to no domain. *)
Keys(rec) == IF rec.type = "OPT" THEN {} ELSE {<<rec.domain, rec.type>>}

(* The records for a key; of those that are the same, the last. *)
Latest(recs, k) ==
  {recs[i] : i \in {i \in DOMAIN recs :
     k \in Keys(recs[i]) /\ \A j \in DOMAIN recs : j > i => ~Same(recs[i], recs[j])}}

(* Fault: a record that is there stays as it is. *)
StoreRecordInserts(rs, recs) ==
  Records(rs.records \cup {[rec |-> rec, at |-> now] :
            rec \in {rec \in recs : \A e \in rs.records : ~Same(e.rec, rec)}})

(* store_record over an entry: a record that is there is removed first, as *)
(* HashSet::insert keeps the element it has; a NoRecords is replaced.      *)
StoreRecord(rs, recs) ==
  Records({e \in rs.records : \A rec \in recs : ~Same(e.rec, rec)}
            \cup {[rec |-> rec, at |-> now] : rec \in recs})

(* Cache::store, for all the records of a packet: stored in their order,   *)
(* the last of those that are the same stays.                              *)
Store(c, recs) ==
  [k \in DOMAIN c \cup UNION {Keys(rec) : rec \in Elements(recs)} |->
     IF Latest(recs, k) = {} THEN c[k]
     ELSE StoreRecord(IF k \in DOMAIN c THEN c[k] ELSE Records({}), Latest(recs, k))]

StoreNxdomain(c, qname, qtype, ttl) ==
  [k \in DOMAIN c \cup {<<qname, qtype>>} |-> IF k = <<qname, qtype>> THEN NoRecords(ttl) ELSE c[k]]

(* DomainEntry::get_cache_state at time t. *)
CacheState(qname, qtype, t) ==
  IF <<qname, qtype>> \notin DOMAIN cache THEN "NotCached"
  ELSE LET rs == cache[<<qname, qtype>>] IN
    CASE rs.kind = "Records" /\ (\E e \in rs.records : ~Expired(e.at, e.rec.ttl, t)) -> "PositiveCache"
      [] rs.kind = "NoRecords" /\ ~Expired(rs.at, rs.ttl, t) -> "NegativeCache"
      [] OTHER -> "NotCached"

(* Fault: records that expired are not left out. *)
FillQueryResultAll(qname, qtype, t) ==
  IF <<qname, qtype>> \notin DOMAIN cache THEN {<<>>}
  ELSE SetToSeqs({e.rec : e \in cache[<<qname, qtype>>].records})

(* What fill_queryresult at time t may append: a HashSet has no order. *)
FillQueryResult(qname, qtype, t) ==
  IF <<qname, qtype>> \notin DOMAIN cache THEN {<<>>}
  ELSE SetToSeqs({e.rec : e \in {e \in cache[<<qname, qtype>>].records : ~Expired(e.at, e.rec.ttl, t)}})

(* SynchronizedCache::lookup.  The state, the answers and the authorities  *)
(* each read the clock, which may tick between them.                       *)
Clocks == {<<now, now>>} \cup (IF now = MaxTime THEN {} ELSE {<<now, now + 1>>, <<now + 1, now + 1>>})
Positive(qname, qtype, c) ==
  {[rescode |-> "NOERROR", answers |-> a, authorities |-> s, resources |-> <<>>] :
     a \in FillQueryResult(qname, qtype, c[1]), s \in FillQueryResult(qname, "NS", c[2])}
Lookup(qname, qtype, c) ==
  CASE CacheState(qname, qtype, now) = "PositiveCache" -> Positive(qname, qtype, c)
    [] CacheState(qname, qtype, now) = "NegativeCache" -> {Packet("NXDOMAIN")}
    [] CacheState(qname, qtype, now) = "NotCached" -> {NoPacket}

-----------------------------------------------------------------------------
(* A task: the resolve calls it is in (the innermost first), the result of *)
(* the one that returns, the answer it puts together, and the records      *)
(* resolve_cnames has still to follow at this depth and at the next.       *)

Frame(qname, qtype, recursive) ==
  [qname |-> qname, qtype |-> qtype, recursive |-> recursive, idx |-> 0, ns |-> <<>>, addr |-> 0,
   response |-> NoPacket]

Task(pc) ==
  [pc |-> pc, frames |-> <<>>, result |-> NoPacket, packet |-> NoPacket, unmatched |-> <<>>,
   later |-> <<>>, depth |-> 0, question |-> <<>>, asked |-> 0]

(* Records told now, and those of them that are taken over. *)
Now(recs) == {[rec |-> rec, at |-> now] : rec \in recs}
LatestOf(recs) == UNION {Latest(recs, k) : k \in UNION {Keys(rec) : rec \in Elements(recs)}}

Init ==
  /\ resolver \in [strategy : Strategies, allow_recursive : BOOLEAN]
  /\ now = 0
  /\ \E hints \in Hints :
       LET recs == IF resolver.strategy = "Forward" THEN <<>> ELSE hints IN
       /\ cache = Store(<<>>, recs)
       /\ heard = Now(Elements(recs)) /\ learned = Now(LatestOf(recs))
  /\ task = [r \in Requests |-> Task("idle")]
  /\ denied = {}

Set(r, t) == task' = [task EXCEPT ![r] = t]
Goto(t, pc) == [t EXCEPT !.pc = pc]
Call(t, frame) == [t EXCEPT !.pc = "resolve", !.frames = <<frame>> \o @]

-----------------------------------------------------------------------------
(* The server *)

(* run_server takes a request and spawns its task, which starts            *)
(* execute_query.  A datagram that does not parse is dropped and leaves    *)
(* no trace.  ServerContext::allow_recursive is always true.  Requests are *)
(* numbered as they come in.                                               *)
Receive(r) ==
  /\ task[r].pc = "idle" /\ \A s \in 1..(r - 1) : task[s].pc # "idle"
  /\ \/ Set(r, [task[r] EXCEPT !.pc = "reply", !.packet = Packet("FORMERR"), !.asked = now])
     \/ \E q \in Questions :
          Set(r, Call([task[r] EXCEPT !.question = <<q>>, !.asked = now], Frame(q.qname, q.qtype, q.rd)))
  /\ UNCHANGED <<resolver, cache, now, heard, learned, denied>>

(* The answers of a packet, and whether resolve_cnames, one deeper, has to *)
(* follow them.                                                            *)
Unmatched(p, depth) ==
  LET follow(rec) ==
        rec \in get_unresolved_cnames(p) /\ depth + 1 <= 10 /\ rec.type \in {"CNAME", "SRV"}
  IN [i \in DOMAIN p.answers |->
        [rec |-> p.answers[i], depth |-> depth + 1, follow |-> follow(p.answers[i])]]

(* resolve_cnames: the next record of this depth, or the first of the      *)
(* next, or the answer is complete.                                        *)
Following(list) == SelectInSeq(list, LAMBDA x : x.follow)
ResolveCnames(t) ==
  LET follow(list, later) ==
        LET i == Following(list) IN
        Call([t EXCEPT !.unmatched = SubSeq(list, i + 1, Len(list)), !.later = later,
                       !.depth = list[i].depth],
             Frame(list[i].rec.data, "A", TRUE))
  IN CASE Following(t.unmatched) # 0 -> follow(t.unmatched, t.later)
       [] Following(t.unmatched) = 0 /\ Following(t.later) # 0 -> follow(t.later, <<>>)
       [] OTHER -> [t EXCEPT !.pc = "reply", !.depth = 0]

(* Append what a resolve call found to the sections of the answer. *)
Collect(packet, p) ==
  [packet EXCEPT !.answers = @ \o p.answers, !.authorities = @ \o p.authorities,
                 !.resources = @ \o p.resources]

(* Fault: an alias that fails is tried again. *)
ReturnRetries(t, p) ==
  LET t1 == [t EXCEPT !.frames = <<>>]
  IN CASE Len(t.frames) > 1 -> [t EXCEPT !.pc = "return", !.result = p]
       [] Len(t.frames) = 1 /\ t.depth = 0 ->
            IF p = Err THEN [t1 EXCEPT !.pc = "reply", !.packet = Packet("SERVFAIL")]
            ELSE ResolveCnames([t1 EXCEPT !.packet = p, !.unmatched = Unmatched(p, 0)])
       [] OTHER ->
            IF p = Err THEN Goto(t, "resolve")
            ELSE ResolveCnames([t1 EXCEPT !.packet = Collect(@, p), !.later = @ \o Unmatched(p, t.depth)])

(* resolve returns p to execute_query (depth 0), to resolve_cnames, or to  *)
(* the perform that asked for the address of a name server.                *)
Return(t, p) ==
  LET t1 == [t EXCEPT !.frames = <<>>]
  IN CASE Len(t.frames) > 1 -> [t EXCEPT !.pc = "return", !.result = p]
       [] Len(t.frames) = 1 /\ t.depth = 0 ->
            IF p = Err THEN [t1 EXCEPT !.pc = "reply", !.packet = Packet("SERVFAIL")]
            ELSE ResolveCnames([t1 EXCEPT !.packet = p, !.unmatched = Unmatched(p, 0)])
       [] OTHER ->
            IF p = Err THEN ResolveCnames(t1)
            ELSE ResolveCnames([t1 EXCEPT !.packet = Collect(@, p), !.later = @ \o Unmatched(p, t.depth)])

(* The packet is written (DnsWire) and sent, and the task ends, also when  *)
(* the socket does not take it.                                            *)
Reply(r) ==
  /\ task[r].pc = "reply"
  /\ Set(r, Task("done"))
  /\ UNCHANGED <<resolver, cache, now, heard, learned, denied>>

-----------------------------------------------------------------------------
(* The resolvers *)

Top(r) == Head(task[r].frames)
SetTop(t, f) == [t EXCEPT !.frames[1] = f]

(* Nothing is cached: ask the forwarder, or look for a name server. *)
Miss(t, f) ==
  IF resolver.strategy = "Forward"
  THEN SetTop(Goto(t, "wait"), [f EXCEPT !.addr = Forwarder])
  ELSE Goto(t, "ns")

(* DnsResolver::resolve of either resolver, up to the first lookup. *)
Resolve(r) ==
  LET t == task[r]
      f == Top(r)
      found(p) == IF p # NoPacket THEN Return(t, p)
                  ELSE IF f.qtype \in {"A", "AAAA"} THEN Goto(t, "cname") ELSE Miss(t, f)
  IN /\ t.pc = "resolve"
     /\ \/ /\ f.qtype = "UNKNOWN"
           /\ Set(r, Return(t, Packet("NOTIMP")))
           /\ UNCHANGED now
        \/ /\ f.qtype # "UNKNOWN"
           /\ ~f.recursive \/ ~resolver.allow_recursive
           /\ Set(r, Return(t, Packet("REFUSED")))
           /\ UNCHANGED now
        \/ /\ f.qtype # "UNKNOWN" /\ f.recursive /\ resolver.allow_recursive
           /\ \E c \in Clocks : \E p \in Lookup(f.qname, f.qtype, c) :
                Set(r, found(p)) /\ now' = c[2]
     /\ UNCHANGED <<resolver, cache, heard, learned, denied>>

(* The second lookup of resolve, for an alias of the name. *)
ResolveAlias(r) ==
  LET t == task[r]
      f == Top(r)
  IN /\ t.pc = "cname"
     /\ \E c \in Clocks : \E p \in Lookup(f.qname, "CNAME", c) :
          /\ Set(r, IF p # NoPacket THEN Return(t, p) ELSE Miss(t, f))
          /\ now' = c[2]
     /\ UNCHANGED <<resolver, cache, heard, learned, denied>>

(* The search of perform has no server for the suffix that starts at idx. *)
NextSuffix(t, f) ==
  IF f.idx = Len(f.qname) THEN Return(t, Err)
  ELSE SetTop(Goto(t, "ns"), [f EXCEPT !.idx = @ + 1])

(* RecursiveDnsResolver::perform: a name server cached for the suffix. *)
FindNs(r) ==
  LET t == task[r]
      f == Top(r)
      domain == SubSeq(f.qname, f.idx + 1, Len(f.qname))
  IN /\ t.pc = "ns"
     /\ \E c \in Clocks : \E p \in Lookup(domain, "NS", c) :
          LET names == get_unresolved_ns(p, domain) IN
          /\ now' = c[2]
          /\ \/ names = {} /\ Set(r, NextSuffix(t, f))
             \/ \E ns \in names : Set(r, SetTop(Goto(t, "nsaddr"), [f EXCEPT !.ns = ns]))
     /\ UNCHANGED <<resolver, cache, heard, learned, denied>>

(* perform: an address cached for it. *)
FindNsAddr(r) ==
  LET t == task[r]
      f == Top(r)
  IN /\ t.pc = "nsaddr"
     /\ \E c \in Clocks : \E p \in Lookup(f.ns, "A", c) : \E addr \in get_random_a(p) :
          /\ Set(r, IF addr = 0 THEN NextSuffix(t, f) ELSE SetTop(Goto(t, "wait"), [f EXCEPT !.addr = addr]))
          /\ now' = c[2]
     /\ UNCHANGED <<resolver, cache, heard, learned, denied>>

(* What the answer of a server, and the records of it that the resolver    *)
(* takes over, add to the history.                                         *)
Hear(f, p, kept) ==
  /\ heard' = heard \cup Now(Elements(Sections(p)))
  /\ learned' = {h \in learned : \A rec \in Elements(kept) : ~Same(h.rec, rec)} \cup Now(LatestOf(kept))
  /\ denied' =
       IF p.rescode # "NXDOMAIN" THEN denied
       ELSE denied \cup {[qname |-> f.qname, qtype |-> f.qtype, at |-> now,
                          ttl |-> IF get_ttl_from_soa(p) = 0 THEN 0 ELSE SoaTtl(p)]}

(* send_query fails; the `?` of perform and the forwarder return its error. *)
QueryFails(r) ==
  /\ task[r].pc = "wait"
  /\ Set(r, Return(task[r], Err))
  /\ UNCHANGED <<resolver, cache, now, heard, learned, denied>>

(* send_query of the forwarding resolver returns an answer. *)
ForwardAnswered(r) ==
  LET t == task[r]
      f == Top(r)
  IN /\ resolver.strategy = "Forward" /\ t.pc = "wait"
     /\ \E p \in Upstream(f.addr, f.qname, f.qtype) :
          /\ cache' = Store(cache, p.answers)
          /\ Set(r, Return(t, p))
          /\ Hear(f, p, p.answers)
     /\ UNCHANGED <<resolver, now>>

StoreAll(c, p) == Store(c, Sections(p))

(* send_query of perform returns an answer. *)
ServerAnswered(r) ==
  LET t == task[r]
      f == Top(r)
      answered(p) == p.answers # <<>> /\ p.rescode = "NOERROR"
      denies(p) == ~answered(p) /\ p.rescode = "NXDOMAIN"
      refers(p) == ~answered(p) /\ ~denies(p)
  IN /\ resolver.strategy = "Recursive" /\ t.pc = "wait"
     /\ \E p \in Upstream(f.addr, f.qname, f.qtype) :
          /\ \/ /\ answered(p)
                /\ Hear(f, p, Sections(p))
                /\ cache' = StoreAll(cache, p)
                /\ Set(r, Return(t, p))
             \/ /\ denies(p)
                /\ Hear(f, p, <<>>)
                /\ cache' = IF get_ttl_from_soa(p) = 0 THEN cache
                            ELSE StoreNxdomain(cache, f.qname, f.qtype, SoaTtl(p))
                /\ Set(r, Return(t, p))
             \/ /\ refers(p)
                /\ \E addr \in get_resolved_ns(p, f.qname) :
                     Set(r, SetTop(t, [f EXCEPT !.addr = addr]))
                /\ cache' = StoreAll(cache, p)
                /\ Hear(f, p, Sections(p))
             \/ /\ refers(p) /\ get_resolved_ns(p, f.qname) = {}
                /\ \E ns \in get_unresolved_ns(p, f.qname) :
                     Set(r, Call(SetTop(t, [f EXCEPT !.response = p]), Frame(ns, "A", TRUE)))
                /\ Hear(f, p, <<>>)
                /\ UNCHANGED cache
             \/ /\ refers(p) /\ get_unresolved_ns(p, f.qname) = {}
                /\ Set(r, Return(t, p))
                /\ Hear(f, p, <<>>)
                /\ UNCHANGED cache
     /\ UNCHANGED <<resolver, now>>

(* The address of a name server that perform resolved: go on there. *)
NsResolved(r) ==
  LET t == task[r]
      f == t.frames[2]
      t1 == [t EXCEPT !.frames = Tail(@), !.result = NoPacket]
  IN /\ t.pc = "return" /\ Len(t.frames) > 1
     /\ \/ /\ t.result = Err
           /\ Set(r, Return(t1, Err))
        \/ /\ t.result # Err
           /\ \E addr \in get_random_a(t.result) :
                Set(r, IF addr = 0 THEN Return(t1, f.response)
                       ELSE SetTop(Goto(t1, "wait"), [f EXCEPT !.addr = addr, !.response = NoPacket]))
     /\ UNCHANGED <<resolver, cache, now, heard, learned, denied>>

-----------------------------------------------------------------------------
Tick == now < MaxTime /\ now' = now + 1 /\ UNCHANGED <<resolver, cache, task, heard, learned, denied>>

Step(r) ==
  \/ Reply(r) \/ Resolve(r) \/ ResolveAlias(r) \/ FindNs(r) \/ FindNsAddr(r)
  \/ QueryFails(r) \/ ForwardAnswered(r) \/ ServerAnswered(r) \/ NsResolved(r)

Next == Tick \/ \E r \in Requests : Receive(r) \/ Step(r)

Spec == Init /\ [][Next]_vars

(* Tasks are scheduled, and send_query always returns: DnsClient's         *)
(* CallReturns.  Requests need not arrive, and time need not pass.         *)
FairSpec == Spec /\ \A r \in Requests : WF_vars(Step(r))

-----------------------------------------------------------------------------
(* Properties *)

(* No record of an answer had expired when the request came in: it was     *)
(* learned from a server no longer ago than its ttl.  get_cache_state and  *)
(* fill_queryresult check each entry, whatever else its set holds.         *)
NothingExpired ==
  \A r \in Requests : \A rec \in Elements(task[r].packet.answers) :
    \E h \in heard : Same(h.rec, rec) /\ ~Expired(h.at, h.rec.ttl, task[r].asked)

(* A name is denied only while a server's denial lasts: an answer NXDOMAIN *)
(* goes back to one no older than the minimum of its SOA.                  *)
NxdomainCurrent ==
  \A r \in Requests : task[r].packet.rescode = "NXDOMAIN" =>
    \E d \in denied :
      /\ task[r].question[1].qname = d.qname
      /\ d.qtype \in {task[r].question[1].qtype, "CNAME"}
      /\ ~Expired(d.at, d.ttl, task[r].asked)

(* What is answered, or denied, is so still. *)
AnswersCurrent == NothingExpired /\ NxdomainCurrent

(* A record of the name and type that was learned, and not denied since,   *)
(* and has time left.                                                      *)
Known(qname, qtype) ==
  \E h \in learned :
    /\ h.rec.domain = qname /\ h.rec.type = qtype /\ ~Expired(h.at, h.rec.ttl, now)
    /\ \A d \in denied : d.qname = qname /\ d.qtype = qtype => d.at < h.at

(* resolve goes past a lookup only for what no server has told within      *)
(* its ttl, by whichever request it was asked: a record that is learned    *)
(* again lives from then on.                                               *)
AsksWhatIsUnknown ==
  [][/\ \A r \in Requests :
       task[r].pc = "resolve" /\ task'[r].pc \in {"cname", "wait", "ns"} =>
         ~Known(Top(r).qname, Top(r).qtype)
     /\ \A r \in Requests :
       task[r].pc = "cname" /\ task'[r].pc \in {"wait", "ns"} => ~Known(Top(r).qname, "CNAME")]_vars

(* The servers of domains that a name ends with as a string only: of       *)
(* ank.com for bank.com.                                                   *)
Lookalikes(qname) ==
  UNION {LeadsTo(ns.data) : ns \in {rec \in Told :
           rec.type = "NS" /\ EndsWith(qname, rec.domain) /\ ~IsSuffix(rec.domain, qname)}}

(* perform asks a server only about names of the zones it serves, on       *)
(* whichever way (hints, glue, cached glue, a resolved name server) it     *)
(* came by the server's address.  The one exception is a referral that     *)
(* names a domain the question ends with as a string, not as a domain:     *)
(* get_resolved_ns and get_unresolved_ns take its server for a server of   *)
(* the question.                                                           *)
AsksAuthoritative ==
  \A r \in Requests : resolver.strategy = "Recursive" /\ task[r].pc = "wait" =>
    \/ \E zone \in Zones(Top(r).addr) : IsSuffix(zone, Top(r).qname)
    \/ Top(r).addr \in Lookalikes(Top(r).qname)

(* "This function will always return a valid packet, even if the request   *)
(* could not be performed", says the comment of execute_query.  Not so:    *)
(* perform follows referrals for as long as servers refer to each other.   *)
EveryRequestAnswered ==
  \A r \in Requests : task[r].pc # "idle" ~> task[r].pc = "done"

(* A server answers with a referral, and another one is asked or looked    *)
(* for.                                                                    *)
Referred(r) ==
  /\ ServerAnswered(r)
  /\ task'[r].pc = "wait" \/ Len(task'[r].frames) > Len(task[r].frames)

(* Nothing but referrals without end keeps a request from its answer: not  *)
(* aliases of each other (resolve_cnames gives up after ten of them), not  *)
(* failing queries, and not what other requests store or expire meanwhile. *)
OnlyReferralsGoOn ==
  \A r \in Requests :
    (task[r].pc # "idle" ~> task[r].pc = "done") \/ []<><<Referred(r)>>_vars
=============================================================================
