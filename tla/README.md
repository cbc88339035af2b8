# A TLA+ model of seeker

seeker is a transparent proxy. It answers every DNS query with an address of a
private network that is routed to a TUN device, reassembles the packets that
arrive there into connections, finds the domain an address stands for, and
relays each connection directly or through a shadowsocks server.

This directory holds TLA+ modules that model the parts of seeker whose
correctness depends on order: what happens when tasks interleave, when a
process dies between two writes, when a reply is late or a wake-up is missed.
TLC checks them on small instances (the `.cfg` files) and TLAPS checks the
proofs in the `*Proofs` modules. `PROJECT.json` lists the runs, the mapping of
definitions to source lines, the deliberate faults each property was tested
against, the hazards, the findings and the theorems.

## The system and its parts

| part | state | operations | what is hard | module |
|---|---|---|---|---|
| `dnsserver/src/resolver.rs` | sled database (counter, domain -> ip, ip -> domain), `next_ip`, `/etc/hosts` | `Inner::new`, `resolve`, `lookup_host` | crash between inserts, no flush before the answer, limits of the counter | DnsResolver |
| `ssclient/src/connection_pool.rs` | queue of idle connections, channel of capacity 1 | `run_connection_pool`, `get_connection` | stale length, lost wake-ups, timeouts | ConnectionPool |
| `ssclient/src/lib.rs`, `seeker/src/client/ruled_client.rs` | current server, error counter, the pool | connector, `change_conf`, `handle_tcp` | check-then-act without a lock, late errors, connections of the old server | SsClient |
| `ssclient/src/encrypted_stream`, `tcp_io.rs` | cipher state and half-read chunk of each direction | `send_all`, `recv`, `send_iv`, `recv_iv` | TCP cuts chunks anywhere, nonces counted at both ends, cancelled writes | EncryptedStream, ByteStream |
| `ssclient` relay, `client_stats.rs`, `udp_io.rs`; `seeker/src/client/direct_client.rs`; `config/src/rule.rs`, `socks5.rs` | list of connections, statistics, UDP session maps, probe cache, rules | `handle_tcp`, `handle_udp`, `probe_connectivity`, `recycle_stats`, address codec | two directions raced and cancelled, recycling during updates, lock held across connect, stale probes | Relay, Datagram |
| `hermes/hermesdns/src/dns/client.rs` | id counter, request channel, map id -> caller | `send_udp_query`, `run` | replies late, lost, duplicated; id reuse; restart of `run` | DnsClient |
| `hermesdns` `server.rs`, `resolve.rs`, `cache.rs` | cache of records with expiry, one task per request | `execute_query`, `resolve`, `perform`, `lookup`, `store` | alias loops, referrals, expiry between two reads of the clock | DnsLookup |
| `hermesdns` `protocol.rs`, `buffer.rs` | - | `DnsPacket::write`, `from_buffer`, name codec | compression pointers, two passes over sizes, limits | DnsWire |
| `tun/src` (`lib.rs`, `socket/`, `iface/`) | smoltcp socket set, wakers, receive ring, new sockets | `TunListen::poll_next`, `TunWrite::poll`, `poll_read`, `poll_write`, `clone`, `drop` | wake-ups between four kinds of tasks, reference counts, errors in mid-batch | TunSockets |
| `sysconfig`, `seeker/src/main.rs` | the system's DNS and forwarding settings, the termination flag | `DNSSetup`, `IpForward`, `main`, signals | crash before the settings are restored, a step that fails half way | Lifecycle |
| `crypto` | counters of ciphers | encrypt, decrypt | position in the key stream across updates | symbolically in EncryptedStream and Datagram |

How they interact: `main` changes the system's settings, starts the DNS server
and polls the TUN listener. The DNS server (DnsWire, DnsLookup) calls the
resolver (DnsResolver), or other name servers through the DNS client
(DnsClient). `handle_connection` asks the resolver for the domain of each new
socket and spawns a handler (Relay); the handler decides between proxy, direct
and reject, takes a connection from the pool of `SSClient` (ConnectionPool,
SsClient), and relays between the socket (TunSockets) and the encrypted stream
(EncryptedStream). The pool's connector resolves the server's name with the DNS
client and counts errors; `RuledClient` reads the count and changes the server.

What makes each part correct: no two domains share an address and a connection
is never sent to the wrong domain; the pool stays bounded, full, and hands out
each connection once; a server that refuses is left; an encrypted connection is
a reliable byte stream; lists and statistics are true of the relays there are,
and every relay ends; a DNS call returns its own answer, and returns; a lookup
serves nothing that expired, and answers; a packet is read back as it was
written; no reader, writer or sender sleeps while it has something to do, and
socket references are counted right; the system's settings are put back. Not all
of this holds: where a line of the repository promises what the code does not
do, a run shows it (Findings), and where an exception has to be made the property
names it (Observations).

## Modules

`X.tla` is a component, `MCX.tla` its instance for TLC, `XProofs.tla` its
theorems. Definitions marked *Fault* are what a plausible mistake would make of
the definition that follows them; nothing in the specifications uses them.

### DnsResolver

The variable `db` is the database as the process sees it and `disk` what a
crash would leave of it. All handlers run under one async mutex, so one of them
is in progress at a time and `stage` says where it is; it is cut only at its
three inserts, because sled's background thread (`Flush`) may make the log
durable there and the process may die there (`Crash`). `Open` is `Inner::new`;
`ResolveFromHosts`, `ResolveFromDb` and `ResolveNew` are the branches of
`resolve`, `InsertNextIp`, `InsertDomain` and `InsertIp` its writes;
`LookupHost` and `HostOf` are how `handle_connection` finds the domain. The u32
is `0 .. IpSpace - 1` with wrap-around (the release build; a debug build panics
there). Reading the counter may fail at any start (`ClearAndStart`). `exhausted`
(the counter wrapped) and `lost` (a failed read cleared a database in use) are
history variables. Assumed: query names are
neither addresses nor `next_ip`, the three keys' kinds therefore disjoint;
`Db::clear` is atomic.

### ConnectionPool

`conns` is the queue, `chan` the channel, `filler`/`len`/`made` the state of
`run_connection_pool`, `getter`/`held` each `get_connection`. The mutex is held
for single operations, so `Measure`, `Push`, `Take` and `FindEmpty` are steps of
their own and connecting happens in between. A send into the full channel may
time out (`NotifyTimeout`). `Conn` are identities of sockets; a closed identity
may be used again.

### SsClient

Extends ConnectionPool: a getter is now a request in the Proxy branch of
`RuledClient::handle_tcp`. `LoadErrors`, `ReadName`, `WriteConf` and
`ResetErrors` are the four unsynchronised parts of check and switch; `ReadConf`
is the connector capturing the configuration before it connects; an error it
meets is counted unless the pool's own timeout drops the connector first
(`NotConnected`). `peer` remembers which configuration, and after how many
switches, a connection was made for. The counters saturate at `ErrorCap` and
`MaxSwitches`: the code only compares errors with the limit, and
`OldServerDrainsFirst` only compares switch counts.

### EncryptedStream and ByteStream

One direction of a connection to a server: a writer (`wr`), the bytes TCP holds
(`pipe`) and a reader (`rd`). Encryption is symbolic: a byte on the wire carries
what it was encrypted under, the position in the key stream for a stream cipher
and the nonce of its chunk for an AEAD cipher, and decrypting it at another
place yields nothing sensible or fails. `SendIv` and `SendAll` encrypt, `Flush`
is a step of `write_all`, `ReadExact` a step of `read_exact` (`HaveIv`,
`HaveLen` and `HaveBody` are what follows when it is complete) and `ReadStream`
the `read` of a stream cipher. Timeouts drop an operation half done. The
writer's buffer has the size of this program's or of a peer with a larger one.
ByteStream is what an application expects of the whole: `SendBytes`,
`DeliverBytes`, a complete or a broken end. `ImplementsByteStream` instantiates
it with a mapping: the stream is closed when the writer is gone and its end is
complete when a writer that closed between two sends meets a reader at end of
file.

### DnsWire

A packet is built (`PushQuestion`, `PushRecord`), written under a limit
(`Write`) and read from a buffer of fixed size (`Read`). Packets are real byte
sequences here, since compression pointers and sizes are the point: `WriteName`
keeps the table of suffixes and their positions, `Layout` gives the fields of
each record type, `RecordCount` is the first pass of `DnsPacket::write` and
`Encode` the second. `BufSize` stands for the 512 bytes of `BytePacketBuffer`.

### DnsLookup

A request is a task with a stack of calls (`frames`), since `perform` calls
itself for the address of a name server. `Receive` is `run_server` taking a
request, `Resolve`, `ResolveAlias`, `FindNs` and `FindNsAddr` the lookups that
precede a query, `ForwardAnswered` and `ServerAnswered` the handling of an
answer, `QueryFails` an error of the DNS client, `NsResolved` the return of the
inner call, `Reply` the answer. `Unmatched` and `ResolveCnames` are the chase of
aliases after an answer. Names are sequences of labels and what a server answers
an operator (`Upstream`, over the sets `Names` and `Addresses`), so any tree of
zones can be given. `get_resolved_ns` and `get_unresolved_ns` compare names with
`str::ends_with`, which knows nothing of labels: `EndsWith` says what that is for
sequences of labels, with the constant `LabelEnds` for the labels that end with
another as strings (`bank` and `ank`). The cache is a function from name and type to a negative
entry or a set of records with the time each was stored; `Store` says what is in
it after all records of a packet were stored one after the other (of records that
are the same but for their ttl the last one stays, `Latest`). The recursive
resolver stores the three sections of a packet under three locks; `StoreAll` is
one step, so a lookup of another task between two of them is left out. `Lookup` reads the
clock once for the state and again for the records. `heard` (what servers told),
`learned` (what of it was stored, until it is told again) and `denied` are
histories.

Two assumptions are about name servers, which are no part of the program.
`LookupAssumption` only types what they say (`Told`): names, addresses and ttls
where the record has them. `DelegationsAgree` says that servers do not contradict
each other about who serves a zone: wherever an NS record names a server for a
zone, every address that name has, by any A record or as the answer to a question
for it, is of a server for that zone or for one above it. Without it a lie of one
server would make the resolver ask the wrong one, whatever its code does. TLC
evaluates both on the zones of the run. Neither excludes answers that differ from
one time to the next or hold records of other names, referrals to servers nobody
has an address of, or denials of what exists.

### Relay and Datagram

`conn` is the handler of each connection: `Accept` is `handle_connection`
taking it from the listener, `Dispatch` and `Probe*` choose the action,
`HandleTcp` to `HandleTcpEnd` are the life of a relay and `HandleUdp` to
`UdpReadEnds` that of a UDP session. The two directions of a TCP relay step
independently until one of them ends (`ReadEof`, `RelayFails`), which drops the
other where it is. Bytes are counted: `made`, `read` and `out` of a direction.
`stats` and `connections` are the statistics and the list of `RuledClient`;
`RecycleStats` runs at any time. A datagram or an answer is one of `Payloads`, and
each client receives it in a buffer of its own: `DirectBuf` are the 1024 bytes of
`DirectClient`, `ProxyBuf` the `MAX_PACKET_SIZE` of `SSClient`, of which the
address takes its part (`Room`). What does not fit is lost without an error
(`Cut`); a packet of a server that was cut cannot be opened (`Incoming`), which
ends its task. Datagram holds the SOCKS5 address codec and
`encrypt_payload`/`decrypt_payload` of `udp_io.rs`, as bytes with a salt and a
tag. `Addresses` are the values of `Address`: 4 or 16 bytes, or a name of at most
255 (`write_domain_name_address` asserts it), and a port of 16 bits. An AEAD
cipher has a salt of at least one byte. The connections of a run are given by
`Scenarios`.

### Lifecycle

The main thread of seeker through its set-up (`TunSetup`, `DnsRead`,
`DnsTruncate`, `DnsSeek`, `DnsWrite`, `IpRead`, `IpWrite`), its loop and its drops
(`DropIp`, `DropDns`), one system call per step, each of which may fail and
unwind. The loop polls the listener (`PollNext`), which ends the stream once the
flag is set, yields a socket, or waits; a packet wakes it (`Woken`), or a second
passes (`TimedOut`), after which the loop looks at the flag itself; an error of
the listener is a panic (`LoopFails`). `Signal` sets the flag at any time, `Crash` ends the process with
nothing dropped, `Edit` is the user changing the settings between two runs.
`/etc/resolv.conf` is a byte sequence because `drop` overwrites it without
truncating. `user` and `left` are histories: what the user wants, and whether a
crash or a failed system call has left a change behind.

### DnsClient

One call per member of `Query`. `run` races its read and write loop inside one
task, so sending a request and entering it in the map is one step (`Send`). Any
error ends `run` (`SendFails`, `ReceiveFails`), drops map and socket and binds
again. `Reply` and `Lose` are the network: replies may be repeated, late and
out of order. `IdSpace` is the 65536 of the code. `WithinWindow` states the
load assumed: fewer than 65535 new calls during the life of one call and its
packets; without it ids are reused while answers are under way and no matching
by id could work.

### TunSockets

One action per poll of a task, since every poll holds the mutex throughout;
an iteration of `poll_next` is `Populate`, `Ingress` per packet, `IngressDone`
and `Notify`, with the mutex held (`pc # "idle"`). smoltcp is external: a
socket is a record of its merged TCP state, fill levels and reference count,
and `Process`, `Prune` and the predicates follow how the code uses them.
`pending` and `objs` count the socket objects in `new_sockets` and in handlers;
`rtask`, `wtask`, `twtask` are the waker maps. The receive ring keeps the empty
buffer every idle poll leaves in it. A socket may owe a segment without data
(`owes`): an acknowledgement of what arrived, or a window update after a read
that made room in a full buffer. `Emits` is what `TunWrite` finds to send, `Due`
the part of it that is urgent: a read wakes nobody, so a window update waits for
the next wake-up of the sender. A reset that smoltcp refuses (`RstDropped`) ends
the batch of packets like any error. The socket set of the code grows without
bound; the model has `Handle` slots, and applications begin a flow only when one
is free for it (`Present`, `Room`). Not modelled: packet contents, retransmission
timers of smoltcp, which of several new sockets is popped first, and errors of
`poll_write` of the interface other than a full ring.

## Runs

| run | configuration | distinct states | shows |
|---|---|---|---|
| `resolver` | 2 domains, 5 address values, start 1 | 15269 | `UniqueIp`, `NeverWrongHost`, `DurableStable` under crashes and flushes everywhere and reads that fail at start-up |
| `resolver_round_trip` | as `resolver` | - | finding, see below |
| `client` | 2 requests, 2 servers of which the second refuses, `max_idle` 2, 5 connections | 244722 | the pool under the client that switches servers: `Bounded`, `NoLostRefill`, `Exclusive`; `get_connection` returns (`GetterReturns`) and the pool fills up (`Refilled`); the client implements the pool (`UsesPool`), connections of the old server drain first, a refusing server is left |
| `dns_client` | 5 calls over 3 ids | 66247 | own answers only (`OwnAnswer`), callers stay `Reachable`, calls return |
| `tun` | a connection and a UDP endpoint that take turns at one slot, two packets per batch, transmit buffer of 2, clones, a device that may fail | 755755 | references, hand-out, wake-ups (`NobodySleeps`); a released connection is closed and a window update leaves though nothing arrives |
| `wire` | 10 records of 9 types, up to 2 of them in any sections, 2 questions, 4 limits | 34074 | `RoundTrip`, `CutAtLimit` |
| `encrypted` | up to 6 bytes in chunks of up to 5, salt 2, tag 1, pipe of 4 | 49825 | `ChunksWhole`, `ImplementsByteStream`, `SentArrives`, for both kinds of cipher |
| `lookup` | 2 requests of 7 questions, 3 servers, aliases to another name and to themselves, a denial, glue and none, a zone whose name another ends in as a string, servers that refer to each other, ttls that expire or not | 225429 | `AnswersCurrent`, `AsksAuthoritative`, `AsksWhatIsUnknown`, `OnlyReferralsGoOn`, for both resolvers |
| `lookup_referrals` | as `lookup`, one request, the recursive resolver | - | finding, see below |
| `relay` | 5 scenarios of one or two connections, up to 3 bytes or 2 datagrams from 2 sources, payloads shorter and longer than the buffers | 87770 | `BookKeeping`, `CountsHonest`, `EndPassesAllOn`, `DatagramsFindTheirWay`, `ProbeCurrent`, `ProbesSerialized`, `HandlersEnd` |
| `lifecycle` | 3 starts, 1 edit, 4 contents shorter and longer than seeker's own | 17412 | `OwnSettings`, `PutBack`, `SignalEnds` |
| `lifecycle_dns` | as `lifecycle`, 1 start | - | finding, see below |

Bounds. Two domains suffice for a clash of addresses, and five address values
for the counter to wrap after some were burnt. Two requests are enough for the
races of check and switch, and with the filler they make three users of the
pool's queue: one may wait at the full channel while the others move. Five calls over three ids make every id be
reused, with the restart of the counter raced. One slot is enough for it to be
reused by the other kind of socket while the wakers of the first are still in
the maps; rings and buffers are the smallest that can be
full and partly full. A pipe shorter than a chunk makes every chunk arrive in
pieces; a peer's buffer larger than the reader's makes its limits bite. Two
records and a question exercise a pointer to a question, to a record and into
record data, and the limits cut a packet before, between and after the records.
Two requests meet in the cache in both orders, and one tick lets an entry
expire between any two steps. Two connections to one address contend for the
probe's lock; one with three bytes fills a buffer of two and starts the next. Of
the two payloads one fits every buffer and the other none of them.
Three starts let a run find what a crash of an earlier one left.

Reductions. Action constraints keep one of several alike choices: the first free
connection identity (`FirstFree` in `client`) and calls starting in the order of
their numbers (`StartInOrder` in `dns_client`). Deadlock checking is
off where the system may stop: TunSockets (a signal or a panic), and the
modules whose work is bounded and may be finished (DnsWire, EncryptedStream,
DnsLookup, Relay, Lifecycle).

Fairness. `ClientFairness`: the executor polls tasks that can run, and both
`new_connection` and the send have timeouts; no request need arrive. What two
properties need beyond that are hypotheses of theirs and no part of the
specification: `Refilled`, that the server accepts sooner or later
(`FillerFairness`), and `RefusingServerLeft`, that requests keep arriving
(`RequestsArrive`). DnsClient: strong fairness for entering the
request channel (its queue of waiting senders is served) and for the write loop
(it is polled between errors of the socket). TunSockets: weak fairness of the
listener, which `handle_connection` polls at least once a second by its
timeout, and strong fairness of `TunWrite`, which the executor polls once it is
woken and which gets the mutex in between polls of others (parking_lot's mutex is
eventually fair). EncryptedStream: TCP makes progress and writer and reader are polled
when it does; that they also give up is possible, never assumed. DnsLookup:
each task is scheduled, and its queries return, which is `CallReturns` of
DnsClient; neither requests nor the clock are fair. Relay: handlers and the
readers of UDP answers are scheduled and every wait of theirs has a timeout;
nothing is assumed of applications, servers and the clock. Lifecycle: the main
thread makes progress, the one-second timer of its loop included; packets,
signals, failures and crashes need not happen.

## Findings

`resolver_round_trip`: a crash between the inserts of domain and address leaves
a domain whose address is unknown for ever (`resolver.rs:93`).

`lookup_referrals`: two servers that refer a name to each other keep `perform`
asking them in turn (`resolve.rs:146`), although `execute_query` is said to always
return a packet (`server.rs:84`). `OnlyReferralsGoOn`, of the passing run over the
same zones, says that nothing else has this effect.

`lifecycle_dns`: `DNSSetup::drop` does not truncate `resolv.conf`
(`linux.rs:41`), so a shorter original keeps a tail of seeker's line, although DNS
is said to be set back on exit (`README.md:37`). `PutBack` states what an orderly
end does restore: forwarding, and a `resolv.conf` no shorter than seeker's line.

Observations made while modelling, which contradict no line of the repository
that a run could state, or for which the properties name an exception:

- Resolver: `UniqueIp` is about the database. Answers are sent before they are
  durable, so across a crash one address may be answered for two domains, and
  `/etc/hosts` may give two domains one address. Addresses outside the TUN network are handed out once
  it is used up (`resolver.rs:72`, which has a TODO saying so).
- Failover: a second request may switch away from the new server on the count
  it loaded for the old one (`ruled_client.rs:175`). A server that never answers
  is not counted, since the pool's timeout drops the connector.
- Sockets: a UDP writer that waits for room is never woken, because its waker is
  looked for in the readers' map (`tun/src/lib.rs:265`). After an error of
  `poll_read` the rest of the batch waits in the ring until another packet
  arrives, although the log says "poll again" (`tun/src/lib.rs:183`). A failed
  write to the device becomes `Ok(0)` and then a failed assertion
  (`tun_linux.rs:139`, `tun/src/lib.rs:304`). A connection whose handshake and
  FIN arrive in one batch is never handed out and stays in the socket set. A
  reader or writer parked on a connection that is reset is not woken, because the
  listener tests `is_open` (`tun/src/lib.rs:195`); `ReadersWoken` excepts it by
  name, and the relay's timeouts end it (`HandlersEnd`).
- Encrypted streams: the reader's buffer has room for `MAX_PACKET_SIZE` bytes
  and is asked for a chunk and its tag, so a length just under the limit makes
  the slice panic (`tcp_io.rs:54`); this program's own writer never sends such a
  chunk. With an AEAD cipher a clean close is an `UnexpectedEof`.
- Wire format: `OPT` and unknown records are counted in the header but not
  written; the root is written as two zero bytes; the size of a question leaves
  out its type and class, hence the `+ 4` in `LimitKept`; `get_range` refuses the
  last byte of a full buffer (`buffer.rs:345`).
- Lookup: an `AAAA` query for a cached alias gets the `A` records of its target;
  a cached ttl is served unchanged. A referral for a domain the question ends
  with only as a string is followed (`protocol.rs:926`, `972`), so the server of
  such a lookalike may be asked; `AsksAuthoritative` allows this and nothing else.
- Relay: the direction that ends first cancels the other, so a client that
  closes its sending half may lose the answer (`ssclient/src/lib.rs:229`). The
  reader of a UDP session may end while the map keeps its socket. One slow probe
  makes every other probe wait. `IpCidr` rules are never consulted.
  `DirectClient` cuts datagrams and answers at 1024 bytes without an error
  (`direct_client.rs:186`); `SSClient` cannot open an answer longer than its
  buffer, which ends the reader of that source. `DatagramsFindTheirWay` says
  exactly what arrives.
- Lifecycle: after a crash the next start saves seeker's own setting as the
  original; `PutBack` and `DnsPutBack` except what a crash has left.

## Proofs

**DnsResolverProofs**, from `ResolverAssumption` alone, for any set of domains
and any width. `TypeOK` is inductive. `UniqueIp` is not: it needs that, until
the counter wraps, every address in the database and on disk lies below the
counter that would be resumed with it, that the address in hand is below
`next_ip` and not in use, and that a reverse entry never contradicts a forward
one. The invariant `IInv` in the module states this for the running database,
for the disk and for the request in progress; `UniqueAddresses` and
`RoutedToItsDomain` follow. `DurableAssignments` needs in addition that what is
on disk is never lost from `db` (`ExtendsInv`), which holds until a failed read
of the counter clears the database.

**SsClientProofs**, about the pool from `PoolAssumption` and about the client
from `ClientAssumption` too. `Bounded` needs that the filler, when it connects or
pushes, saw fewer than `max_idle` connections and that the queue has not grown
since (`FillerOK`). `NoLostRefill` (while the filler sleeps, a queue below
`max_idle` has a message in the channel or a getter about to send one) is
inductive with it. `Exclusive` adds that the connection the filler holds is in
nobody else's hands (`MadeOwned`). The type invariant proved with it is no
property of a run. `ClientUsesPool` is the refinement `UsesPool`: every action of
the client is a step of the pool or leaves it alone, so that what is proved of the
pool carries over (`PoolUnderFailover`). `OldServerFirst` needs that the queue is
ordered by the number of switches its connections were made after, that the one
the filler holds comes no earlier than the last of the queue, and that none was
made after more switches than there were.

**DnsClientProofs**, from `DnsClientAssumption`, for any number of calls and any
`IdSpace`. `OwnAnswer` and `Reachable` rest on `LiveIdsDiffer`: calls whose
packets may still meet have different ids. That follows from `IdsInOrder`, which
places every id relative to the last restart of the counter (ids after it count
up modulo `IdSpace`; one from before is repeated `IdSpace - 1` calls later at
the earliest), and from `WithinWindow`. The counter is restarted without a lock;
the invariant covers calls in the middle of it.

**LifecycleProofs**, from `LifecycleAssumption`, for any contents and any number of
starts. `OwnSettings` needs what the file holds after each system call of the
set-up (`FileStage`). `PutBack` needs that, while nothing was left behind, the
user's forwarding is in force or is the copy that `IpForward` saved, and the same
of a `resolv.conf` no shorter than seeker's line (`Restorable`): writing over a
file that is no longer replaces all of it (`OverwriteSeq`).

**RelayProofs**, from `RelayAssumption`, for any rules, connections, sizes and
times. `BookKeeping`, `CountsHonest` and `EndPassesAllOn` rest on one invariant:
each handled connection has an index and each relay an entry of statistics of its
own, below the counter that gives out the next, and every byte of a direction is
shown, in the buffer in hand, or unread (`BytesInPlace`). `ProbesAreCurrent` and
`ProbesOneByOne` are action properties; they need that the lock is held by the
one connection that probes and that the cache lacks a result only when it is too
old. `DatagramsAnswered` follows the bytes of a datagram, for any payloads and
any sizes of the buffers that may cut them. That a packet opens to
what was sealed (`DecryptOpens`) and that `read_address` returns the address
`write_address` wrote, for each kind of address, whatever follows it (`ReadsBack`),
are lemmas about sequences, place by place; together they say that a packet reads
as the address and the payload put into it (`PacketReads`). The invariant
(`DatagramInv`) then says of every socket of a UDP session that all it asked for
came from one source and was for the connection's address, that every packet in
its inbox answers that source and, unless it was damaged on the way, is
an answer a server or a peer would build, and that a handler has sockets only once
its address and its action are fixed: a packet that is read much later is opened
by the same client that sealed the question.

**TunSocketsProofs**, from `TunAssumption`. References and wakers are kept apart
from what they stand for, and an iteration of the listener compares the sockets
before and after a batch of packets. `IInv` adds to the three properties how
reference counts and objects agree at any moment (`Referred`), what
`before_handle` stands for while the listener has the mutex (`BeforeKnown`), and
that whoever is parked has left a waker (`ParkedHasWaker`). `ReadersWoken` says
what a parked reader is owed, not what the listener tests: it follows because no
reader stays parked that the test finds readable (`ReadableWoken`), and because
the test can miss data or an end of file only on a closed socket, our side not
being closed while anybody refers to it (`WellFormed`).

**EncryptedStreamProofs**, from `StreamAssumption`, for any sizes of buffers, tags,
salts, blocks and pipe. What `read_exact` has got, what is on its way and what
`write_all` has left are one stretch of the wire (`Flight`), wherever TCP cut it.
`InStep` says where on the wire it begins, given what was handed out and the
reader's counter (`Consumed`), where it ends (`Extent`), and which byte of which
chunk is at every place of it (`Content`). From this `ChunksArriveWhole`; that
nothing sent fails to decrypt (`NeverFailsToDecrypt`); and, step by step, that
the stream implements ByteStream (`StreamImplementsByteStream`): at the end of a
connection that was closed between two sends nothing can be left to hand out.
The history variable `cuts` is a sequence because the proofs number the chunks.

**DnsLookupProofs**, from `LookupAssumption` and `DelegationsAgree`, for any
number of requests, any questions, any zones and any time. Three things are
related by `IInv`. The cache and the history: every record in it was told at the
time it is stored with, every negative entry goes back to a denial (`CacheOK`),
and what was learned is in the cache unless it was denied since (`LearnedOK`).
The packets of a task and the history: whatever `resolve` finds for a name has
records that had not expired when the request came in, has an NXDOMAIN only for a
denial that lasts, and for a question of type A has no address but those the name
leads to (`Finding`); this must hold of the packet put together so far, of the
result on its way to a caller, and of the packet a call falls back on when its
name server cannot be resolved. The calls of a task and each other: each looks for
the address of a name that is a server for the name the call below it asks for
(`Stack`), and the server that is being asked serves that name (`Position`) or is
one of its `Lookalikes`, whichever labels end with others (`LabelEnds`).
`AnswersAreCurrent` and `ServersAreAuthoritative` are parts of it.
`NobodyAsksForTheKnown` is an action property: by `LearnedOK` a lookup for what is
known is a hit.

Every inductive invariant was checked by TLC on the instances of the runs before
it was proved. The proofs use no definition that is overlapping: the arms of
`Process` in TunSockets and the steps of `ReadExact` are disjoint.

Every safety invariant and action property of the runs is proved but two. Only
model-checked:

- every liveness property (`GetterReturns`, `Refilled`, `RefusingServerLeft`,
  `CallReturns`, `ReleasedSocketsEnd`, `WindowUpdatesLeave`, `SentArrives`,
  `OnlyReferralsGoOn`, `HandlersEnd`, `SignalEnds`), since the prover has no support for fairness;
- `RoundTrip` and `CutAtLimit` of DnsWire, which reads names with a RECURSIVE
  operator: what a recursive definition computes for every input is beyond the
  prover;
- the findings.

## Not modelled

Every component with state of its own has a module, and all modules but DnsWire
have proofs.

Left out for good: the tables of ciphers, key derivation and the calls of
cipher libraries (ciphers are symbolic); ioctl calls of the device driver;
command line, YAML parsing and the accessors of the configuration; the text of
`/etc/hosts`; finding the owner of a socket in `/proc` or with `lsof` (its
outcome is nondeterministic in `Dispatch`); the macOS settings, which run
`networksetup`; `Authority`, which the resolvers load and never ask;
`StreamPacketBuffer`, which only zone files use; logging and counters that are
only printed; `Interface::poll`, `poll_at` and `poll_delay`, which nothing calls.
