---------------------------- MODULE DnsResolver ----------------------------
(***************************************************************************)
(* The fake-IP allocator of dnsserver/src/resolver.rs.                     *)
(*                                                                         *)
(* Every domain an application asks for is answered with an address of the *)
(* TUN network; when the application connects to that address, seeker      *)
(* looks the domain up again (lookup_host).  Both directions live in a     *)
(* sled database, written with three separate inserts and never flushed    *)
(* explicitly, and survive restarts of the process.                        *)
(*                                                                         *)
(* The handlers run under one async Mutex, so only one of them is in       *)
(* progress at a time.  resolve is nevertheless cut at its inserts: sled's *)
(* background thread may make the log durable between any two of them, and *)
(* the process may die there.                                              *)
(***************************************************************************)
EXTENDS Naturals

CONSTANTS
  Domain,      \* domain names (keys that are neither an IP nor "next_ip")
  IpSpace,     \* number of values of the u32 the addresses are made from
  StartIp,     \* config.dns_start_ip
  HostsFiles,  \* the contents /etc/hosts may have, as functions of Domain
  None         \* absent key

Ip == 0 .. IpSpace - 1

ASSUME ResolverAssumption ==
  /\ IpSpace \in Nat \ {0}
  /\ StartIp \in Ip
  /\ HostsFiles \subseteq [Domain -> Ip \cup {None}]
  /\ None \notin Ip
  /\ None \notin Domain

VARIABLES
  db,         \* the key space as the running process sees it
  disk,       \* the key space sled would recover after a crash
  next_ip,    \* Inner.next_ip
  hosts,      \* Inner.hosts
  stage,      \* where the handler holding the mutex is
  req,        \* the domain being given a new address, and that address
  exhausted,  \* history: next_ip has wrapped around
  lost        \* history: a failed read of the counter cleared the database

vars == <<db, disk, next_ip, hosts, stage, req, exhausted, lost>>

Stage == {"down", "idle", "allocated", "counted", "mapped"}

(* The one key space, split by kind of key: the counter under NEXT_IP,     *)
(* domain -> ip and ip -> domain.                                          *)
KeySpace == [next : Ip \cup {None},
             fwd  : [Domain -> Ip \cup {None}],
             rev  : [Ip -> Domain \cup {None}]]

EmptyDb == [next |-> None,
            fwd  |-> [d \in Domain |-> None],
            rev  |-> [i \in Ip |-> None]]

NoRequest == [domain |-> None, ip |-> None]

Init ==
  /\ db = EmptyDb
  /\ disk = EmptyDb
  /\ next_ip = StartIp
  /\ hosts = [d \in Domain |-> None]
  /\ stage = "down"
  /\ req = NoRequest
  /\ exhausted = FALSE
  /\ lost = FALSE

-----------------------------------------------------------------------------
(* Inner::new.  The counter is resumed when it can be read; an absent      *)
(* counter and a read that fails (it may at any time) clear the database.  *)

ResumeCounter ==
  /\ db.next # None
  /\ next_ip' = db.next
  /\ UNCHANGED <<db, lost>>

ClearAndStart ==
  /\ next_ip' = StartIp
  /\ db' = EmptyDb
  /\ lost' = (lost \/ db.next # None)

Open ==
  /\ stage = "down"
  /\ ResumeCounter \/ ClearAndStart
  /\ hosts' \in HostsFiles
  /\ stage' = "idle"
  /\ UNCHANGED <<disk, req, exhausted>>

-----------------------------------------------------------------------------
(* Inner::resolve, one disjunct per branch; the answer is sent when the    *)
(* last step of it is done, whether or not what it wrote is durable.       *)

ResolveFromHosts(d) ==
  /\ stage = "idle"
  /\ hosts[d] # None
  /\ UNCHANGED vars

ResolveFromDb(d) ==
  /\ stage = "idle"
  /\ hosts[d] = None
  /\ db.fwd[d] # None
  /\ UNCHANGED vars

(* Fault: the increment is not reduced to the width of the counter. *)
GenWithoutWidth ==
  /\ next_ip' = next_ip + 1
  /\ exhausted' = (exhausted \/ next_ip + 1 = IpSpace)

(* gen_ipaddr: hand out next_ip and increment it, modulo its width. *)
GenIpaddr ==
  /\ next_ip' = (next_ip + 1) % IpSpace
  /\ exhausted' = (exhausted \/ next_ip + 1 = IpSpace)

(* Fault: the database is not consulted before allocating. *)
ResolveAlwaysNew(d) ==
  /\ stage = "idle"
  /\ hosts[d] = None
  /\ GenIpaddr
  /\ req' = [domain |-> d, ip |-> next_ip]
  /\ stage' = "allocated"
  /\ UNCHANGED <<db, disk, hosts, lost>>

ResolveNew(d) ==
  /\ stage = "idle"
  /\ hosts[d] = None
  /\ db.fwd[d] = None
  /\ GenIpaddr
  /\ req' = [domain |-> d, ip |-> next_ip]
  /\ stage' = "allocated"
  /\ UNCHANGED <<db, disk, hosts, lost>>

(* Fault: the counter is saved as it was before the increment. *)
InsertUsedIp ==
  /\ stage = "allocated"
  /\ db' = [db EXCEPT !.next = req.ip]
  /\ stage' = "counted"
  /\ UNCHANGED <<disk, next_ip, hosts, req, exhausted, lost>>

InsertNextIp ==
  /\ stage = "allocated"
  /\ db' = [db EXCEPT !.next = next_ip]
  /\ stage' = "counted"
  /\ UNCHANGED <<disk, next_ip, hosts, req, exhausted, lost>>

InsertDomain ==
  /\ stage = "counted"
  /\ db' = [db EXCEPT !.fwd[req.domain] = req.ip]
  /\ stage' = "mapped"
  /\ UNCHANGED <<disk, next_ip, hosts, req, exhausted, lost>>

(* Fault: the reverse entry is written under the address to come. *)
InsertNextReverse ==
  /\ stage = "mapped"
  /\ db' = [db EXCEPT !.rev[next_ip] = req.domain]
  /\ stage' = "idle"
  /\ req' = NoRequest
  /\ UNCHANGED <<disk, next_ip, hosts, exhausted, lost>>

InsertIp ==
  /\ stage = "mapped"
  /\ db' = [db EXCEPT !.rev[req.ip] = req.domain]
  /\ stage' = "idle"
  /\ req' = NoRequest
  /\ UNCHANGED <<disk, next_ip, hosts, exhausted, lost>>

-----------------------------------------------------------------------------
(* sled (external): the log becomes durable in insertion order, in the     *)
(* background.  A crash keeps what is durable.                             *)

Flush ==
  /\ disk' = db
  /\ UNCHANGED <<db, next_ip, hosts, stage, req, exhausted, lost>>

Crash ==
  /\ stage # "down"
  /\ db' = disk
  /\ req' = NoRequest
  /\ stage' = "down"
  /\ UNCHANGED <<disk, next_ip, hosts, exhausted, lost>>

Next ==
  \/ Open
  \/ \E d \in Domain : ResolveFromHosts(d) \/ ResolveFromDb(d) \/ ResolveNew(d)
  \/ InsertNextIp
  \/ InsertDomain
  \/ InsertIp
  \/ Flush
  \/ Crash

Spec == Init /\ [][Next]_vars

-----------------------------------------------------------------------------
(* lookup_host, and the host handle_connection hands to the client: the    *)
(* address itself when the database does not know it.                      *)

LookupHost(addr) == db.rev[addr]

HostOf(addr) == IF LookupHost(addr) # None THEN LookupHost(addr) ELSE addr

(* The database, in memory and on disk, holds domains and addresses; the   *)
(* counter stays within its width.                                         *)
TypeOK ==
  /\ db \in KeySpace
  /\ disk \in KeySpace
  /\ next_ip \in Ip
  /\ hosts \in [Domain -> Ip \cup {None}]
  /\ stage \in Stage
  /\ req \in [domain : Domain \cup {None}, ip : Ip \cup {None}]
  /\ exhausted \in BOOLEAN
  /\ lost \in BOOLEAN

(* No two domains share an address, in the running database and in what    *)
(* any crash would leave behind, until the u32 counter itself wraps.       *)
Injective(x) ==
  \A d, e \in Domain : x.fwd[d] # None /\ x.fwd[d] = x.fwd[e] => d = e

UniqueIp == ~exhausted => Injective(db) /\ Injective(disk)

(* A connection to an address that some domain resolves to is never routed *)
(* to another domain: handle_connection finds that domain, or (after a     *)
(* crash between the last two inserts) no domain at all.                   *)
NeverWrongHost ==
  ~exhausted =>
    \A d \in Domain : db.fwd[d] # None => HostOf(db.fwd[d]) \in {d, db.fwd[d]}

(* Once an assignment is durable it never changes: restarts resume the     *)
(* counter and find the domain again, unless reading the counter failed.   *)
DurableStable ==
  [][~lost =>
       \A d \in Domain : disk.fwd[d] # None => disk'.fwd[d] = disk.fwd[d]]_vars

(* What the unit test asserts of resolve and lookup_host: a domain the     *)
(* database resolves is found again from its address.                      *)
RoundTrip ==
  stage = "idle" =>
    \A d \in Domain : db.fwd[d] # None => LookupHost(db.fwd[d]) = d
=============================================================================
