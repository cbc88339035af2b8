------------------------------- MODULE Relay -------------------------------
(***************************************************************************)
(* A connection from its arrival at the TUN device to its end: the choice  *)
(* between proxy, direct and reject (RuledClient, ProxyRules, the probe of *)
(* DirectClient), the relay of a TCP connection in both directions and of  *)
(* UDP datagrams (SSClient and DirectClient), and the statistics of both.  *)
(*                                                                         *)
(* Data are counted, not represented: the bytes of a direction are         *)
(* numbered in the order they are made, and EncryptedStream shows that a   *)
(* connection to a server keeps that order.  Connections to servers come   *)
(* from the pool (ConnectionPool, SsClient), where failover belongs too.   *)
(* The statistics' lock is never held across an await, so a step that      *)
(* takes it is atomic and its 3 seconds do not run out.                    *)
(***************************************************************************)
EXTENDS Datagram

CONSTANTS
  Scenarios,  \* connections that arrive, each a kind and an address, and a bound
              \* on the bytes and datagrams sent on them
  MaxConns,   \* connections of the longest of them
  Rules,      \* the rules of the configuration: kind, value, action
  Sources,    \* local addresses datagrams come from
  Payloads,   \* what datagrams and their answers carry
  DirectBuf,  \* size of DirectClient's datagram buffers: 1024
  ProxyBuf,   \* size of SSClient's: MAX_PACKET_SIZE
  Cipher,     \* CipherCategory of the server
  ProbeTtl,   \* 5 minutes
  Chunk,      \* size of the relay's buffers
  MaxTime     \* bound on the clock

RuleKinds == {"Domain", "DomainSuffix", "DomainKeyword", "IpCidr", "Match"}
Actions == {"Reject", "Direct", "Proxy", "Probe"}

(* Address.  A domain is no longer than write_domain_name_address asserts. *)
Addresses ==
  {a \in [kind : {"V4", "V6", "Domain"}, host : Seq(Byte), port : U16] :
     /\ a.kind = "V4" => Len(a.host) = 4
     /\ a.kind = "V6" => Len(a.host) = 16
     /\ a.kind = "Domain" => Len(a.host) <= 255}

ASSUME RelayAssumption ==
  /\ \A s \in Scenarios :
       /\ s \in [arrivals : Seq([kind : {"tcp", "udp"}, addr : Addresses]), bytes : Nat]
       /\ Len(s.arrivals) <= MaxConns
       /\ \A c \in DOMAIN s.arrivals : AddrLen(s.arrivals[c].addr) <= ProxyBuf
  /\ Payloads \subseteq Seq(Byte) /\ DirectBuf \in Nat /\ ProxyBuf \in Nat
  /\ Rules \in Seq([kind : RuleKinds, value : Seq(Nat), action : Actions])
  /\ MaxConns \in Nat /\ MaxTime \in Nat
  /\ ProbeTtl \in Nat \ {0} /\ Chunk \in Nat \ {0}
  /\ Cipher \in {"aead", "stream"} /\ (Cipher = "aead" => SaltSize > 0)

VARIABLES
  scenario,     \* the connections of this run
  conn,         \* the handler of each connection
  connections,  \* RuledClient.connections: index -> connection
  counter,      \* RuledClient.counter
  stats,        \* ClientStats of "Proxy" and "Direct": counter and inner
  probe,        \* DirectClient.prob_cache: the lock, and (connectable, expire) by address
  now,          \* Local::now()
  made,         \* bytes and datagrams sent so far
  probed        \* the latest probe of each address (history)

vars == <<scenario, conn, connections, counter, stats, probe, now, made, probed>>

Ways == {"up", "down"}
Clients == {"Proxy", "Direct"}

(* A direction of a relay: the bytes its source has made, the bytes read   *)
(* and written, and the size of the last read.  A source may end whenever  *)
(* its bytes are read.                                                     *)
Way(pc) == [pc |-> pc, made |-> 0, read |-> 0, out |-> 0, size |-> 0]

Handler(st) ==
  [st |-> st, kind |-> "tcp", addr |-> NoAddress, action |-> "None", index |-> 0, idx |-> 0,
   ret |-> "None", up |-> Way("off"), down |-> Way("off"), socks |-> <<>>, got |-> {}]

Conns == DOMAIN scenario.arrivals

Init ==
  /\ scenario \in Scenarios
  /\ conn = [c \in Conns |-> Handler("new")]
  /\ connections = <<>> /\ counter = 0
  /\ stats = [cl \in Clients |-> [counter |-> 0, inner |-> <<>>]]
  /\ probe = [lock |-> 0, cache |-> <<>>]
  /\ now = 0 /\ made = 0 /\ probed = <<>>

Set(c, h) == conn' = [conn EXCEPT ![c] = h]
Put(f, k, v) == [x \in DOMAIN f \cup {k} |-> IF x = k THEN v ELSE f[x]]
Without(f, k) == [x \in DOMAIN f \ {k} |-> f[x]]

-----------------------------------------------------------------------------
(* Which way a connection takes *)

Matches(rule, domain) ==
  CASE rule.kind = "Domain" -> domain = rule.value
    [] rule.kind = "DomainSuffix" -> IsSuffix(rule.value, domain)
    [] rule.kind = "DomainKeyword" ->
         \E i \in 1..(Len(domain) + 1) : IsPrefix(rule.value, SubSeq(domain, i, Len(domain)))
    [] rule.kind = "Match" -> TRUE
    [] OTHER -> FALSE  \* IpCidr

(* action_for_domain, or default_action. *)
ActionForDomain(domain) ==
  LET first == SelectInSeq(Rules, LAMBDA rule : Matches(rule, domain))
  IN IF first = 0 THEN "Direct" ELSE Rules[first].action

(* The text rules are matched against: the domain, or address and port. *)
DomainOf(addr) == IF addr.kind = "Domain" THEN addr.host ELSE addr.host \o U16Be(addr.port)

(* handle_connection takes a socket and spawns its handler. *)
Accept(c) ==
  /\ conn[c].st = "new" /\ \A d \in 1..(c - 1) : conn[d].st # "new"
  /\ Set(c, [Handler("dispatch") EXCEPT !.kind = scenario.arrivals[c].kind,
                                         !.addr = scenario.arrivals[c].addr])
  /\ UNCHANGED <<scenario, connections, counter, stats, probe, now, made, probed>>

(* get_action_for_addr.  A socket of another user than the one to proxy is *)
(* connected directly, and its owner may be impossible to tell.            *)
Dispatch(c) ==
  LET h == conn[c]
      act(a) == [h EXCEPT !.action = a, !.st = IF a = "Probe" THEN "probe" ELSE "handle"]
  IN /\ h.st = "dispatch"
     /\ \/ Set(c, act(ActionForDomain(DomainOf(h.addr))))
        \/ Set(c, act("Direct"))
        \/ Set(c, [h EXCEPT !.st = "done", !.ret = "Err"])
     /\ UNCHANGED <<scenario, connections, counter, stats, probe, now, made, probed>>

Probed(h, ok) == [h EXCEPT !.st = "handle", !.action = IF ok THEN "Direct" ELSE "Proxy"]

(* Fault: a result never expires. *)
GoodForEver(addr) == addr \in DOMAIN probe.cache

(* probe_connectivity: the lock is free, and either a result is still good *)
(* or the lock is kept while the address is tried.                         *)
Good(addr) == addr \in DOMAIN probe.cache /\ probe.cache[addr].expire > now
ProbeCached(c) ==
  LET h == conn[c] IN
  /\ h.st = "probe" /\ probe.lock = 0 /\ Good(h.addr)
  /\ Set(c, Probed(h, probe.cache[h.addr].connectable))
  /\ UNCHANGED <<scenario, connections, counter, stats, probe, now, made, probed>>

(* Fault: the lock is not held while the address is tried. *)
ProbeStartUnlocked(c) ==
  LET h == conn[c] IN
  /\ h.st = "probe" /\ ~Good(h.addr)
  /\ Set(c, [h EXCEPT !.st = "probing"])
  /\ probe' = [lock |-> 0, cache |-> Without(probe.cache, h.addr)]
  /\ UNCHANGED <<scenario, connections, counter, stats, now, made, probed>>

ProbeStart(c) ==
  LET h == conn[c] IN
  /\ h.st = "probe" /\ probe.lock = 0 /\ ~Good(h.addr)
  /\ Set(c, [h EXCEPT !.st = "probing"])
  /\ probe' = [lock |-> c, cache |-> Without(probe.cache, h.addr)]
  /\ UNCHANGED <<scenario, connections, counter, stats, now, made, probed>>

(* connect within probe_timeout, or not: no address, refused, too slow. *)
ProbeEnd(c) ==
  LET h == conn[c] IN
  /\ h.st = "probing"
  /\ \E ok \in BOOLEAN :
       /\ Set(c, Probed(h, ok))
       /\ probe' = [lock |-> 0,
                    cache |-> Put(probe.cache, h.addr, [connectable |-> ok, expire |-> now + ProbeTtl])]
       /\ probed' = Put(probed, h.addr, [ok |-> ok, at |-> now])
  /\ UNCHANGED <<scenario, connections, counter, stats, now, made>>

-----------------------------------------------------------------------------
(* TCP *)

(* RuledClient::handle_tcp registers the connection. *)
HandleTcp(c) ==
  LET h == conn[c] IN
  /\ h.st = "handle" /\ h.kind = "tcp"
  /\ Set(c, [h EXCEPT !.index = counter, !.ret = IF h.action = "Reject" THEN "Ok" ELSE @,
                      !.st = IF h.action = "Reject" THEN "remove" ELSE "connect"])
  /\ connections' = Put(connections, counter, [addr |-> h.addr, action |-> h.action])
  /\ counter' = counter + 1
  /\ UNCHANGED <<scenario, stats, probe, now, made, probed>>

(* DirectClient::connect, or the pool, has a connection: add_connection.   *)
(* Through a server the first thing sent is the address.                   *)
Connect(c) ==
  LET h == conn[c]
      s == stats[h.action]
      entry == [addr |-> h.addr, open |-> TRUE, up |-> 0, down |-> 0]
  IN /\ h.st = "connect"
     /\ Set(c, [h EXCEPT !.st = "relay", !.idx = s.counter, !.down = Way("read"),
                         !.up = Way(IF h.action = "Proxy" THEN "addr" ELSE "read")])
     /\ stats' = [stats EXCEPT ![h.action] = [counter |-> s.counter + 1,
                                              inner |-> Put(s.inner, s.counter, entry)]]
     /\ UNCHANGED <<scenario, connections, counter, probe, now, made, probed>>
ConnectFails(c) ==
  /\ conn[c].st = "connect"
  /\ Set(c, [conn[c] EXCEPT !.st = "remove", !.ret = "Err"])
  /\ UNCHANGED <<scenario, connections, counter, stats, probe, now, made, probed>>

(* One task of the race ends: the other is dropped where it waits. *)
End(h, ret) == [h EXCEPT !.st = "close", !.ret = ret]

Relaying(c, w, pc) == conn[c].st = "relay" /\ conn[c][w].pc = pc

SendAddr(c) ==
  /\ Relaying(c, "up", "addr")
  /\ Set(c, [conn[c] EXCEPT !.up.pc = "read"])
  /\ UNCHANGED <<scenario, connections, counter, stats, probe, now, made, probed>>

(* read returns some bytes ... *)
Read(c, w) ==
  LET way == conn[c][w] IN
  /\ Relaying(c, w, "read")
  /\ \E n \in 1..Chunk :
       /\ way.read + n <= way.made
       /\ Set(c, [conn[c] EXCEPT ![w] = [way EXCEPT !.pc = "write", !.read = @ + n, !.size = n]])
  /\ UNCHANGED <<scenario, connections, counter, stats, probe, now, made, probed>>

(* Fault: the end is seen while bytes are being written. *)
ReadEofEarly(c, w) ==
  /\ \/ Relaying(c, w, "read")
     \/ Relaying(c, w, "write")
  /\ conn[c][w].read = conn[c][w].made
  /\ Set(c, End(conn[c], w))
  /\ UNCHANGED <<scenario, connections, counter, stats, probe, now, made, probed>>

(* ... or none, at the end: the loop breaks with Ok. *)
ReadEof(c, w) ==
  /\ Relaying(c, w, "read")
  /\ conn[c][w].read = conn[c][w].made
  /\ Set(c, End(conn[c], w))
  /\ UNCHANGED <<scenario, connections, counter, stats, probe, now, made, probed>>

(* write_all moves on by a byte. *)
Write(c, w) ==
  LET way == conn[c][w] IN
  /\ Relaying(c, w, "write")
  /\ Set(c, [conn[c] EXCEPT ![w] = [way EXCEPT !.out = @ + 1,
                                               !.pc = IF way.out + 1 = way.read THEN "count" ELSE @]])
  /\ UNCHANGED <<scenario, connections, counter, stats, probe, now, made, probed>>

(* Fault: all that was read so far is added. *)
CountTotal(c, w) ==
  LET h == conn[c] IN
  /\ Relaying(c, w, "count")
  /\ h.idx \in DOMAIN stats[h.action].inner
  /\ stats' = [stats EXCEPT ![h.action].inner[h.idx][w] = @ + h[w].read]
  /\ Set(c, [h EXCEPT ![w].pc = "read"])
  /\ UNCHANGED <<scenario, connections, counter, probe, now, made, probed>>

(* update_connection_stats, for sent_bytes (up) or recv_bytes (down). *)
Count(c, w) ==
  LET h == conn[c] IN
  /\ Relaying(c, w, "count")
  /\ stats' = IF h.idx \in DOMAIN stats[h.action].inner
              THEN [stats EXCEPT ![h.action].inner[h.idx][w] = @ + h[w].size] ELSE stats
  /\ Set(c, [h EXCEPT ![w].pc = "read"])
  /\ UNCHANGED <<scenario, connections, counter, probe, now, made, probed>>

(* Fault: reads have no timeout. *)
RelayFailsOnce(c, w) ==
  /\ \E pc \in {"addr", "write"} : Relaying(c, w, pc)
  /\ Set(c, End(conn[c], "Err"))
  /\ UNCHANGED <<scenario, connections, counter, stats, probe, now, made, probed>>

(* A read or a write, the handshake of an encrypted connection among them, *)
(* times out or fails.                                                     *)
RelayFails(c, w) ==
  /\ \E pc \in {"addr", "read", "write"} : Relaying(c, w, pc)
  /\ Set(c, End(conn[c], "Err"))
  /\ UNCHANGED <<scenario, connections, counter, stats, probe, now, made, probed>>

(* Fault: an error returns before close_time is set. *)
CloseOnlyOk(c) ==
  LET h == conn[c] IN
  /\ h.st = "close"
  /\ stats' = IF h.ret # "Err" THEN [stats EXCEPT ![h.action].inner[h.idx].open = FALSE] ELSE stats
  /\ Set(c, [h EXCEPT !.st = "remove", !.up = Way("off"), !.down = Way("off")])
  /\ UNCHANGED <<scenario, connections, counter, probe, now, made, probed>>

(* The race is over: close_time is set, and the connection dropped. *)
Close(c) ==
  LET h == conn[c] IN
  /\ h.st = "close"
  /\ stats' = IF h.idx \in DOMAIN stats[h.action].inner
              THEN [stats EXCEPT ![h.action].inner[h.idx].open = FALSE] ELSE stats
  /\ Set(c, [h EXCEPT !.st = "remove", !.up = Way("off"), !.down = Way("off")])
  /\ UNCHANGED <<scenario, connections, counter, probe, now, made, probed>>

(* RuledClient::handle_tcp forgets the connection, whatever came of it. *)
HandleTcpEnd(c) ==
  /\ conn[c].st = "remove"
  /\ connections' = Without(connections, conn[c].index)
  /\ Set(c, Handler("done"))
  /\ UNCHANGED <<scenario, counter, stats, probe, now, made, probed>>

(* The task RuledClient::new spawns: every 5 seconds it prints and then    *)
(* recycles the statistics of both clients.                                *)
RecycleStats(cl) ==
  LET inner == stats[cl].inner
      open == {i \in DOMAIN inner : inner[i].open}
  IN /\ open # DOMAIN inner
     /\ stats' = [stats EXCEPT ![cl].inner = [i \in open |-> inner[i]]]
     /\ UNCHANGED <<scenario, conn, connections, counter, probe, now, made, probed>>

-----------------------------------------------------------------------------
(* UDP *)

(* handle_udp of the client the action names; a reject, or an address that *)
(* cannot be resolved, is the end of it.                                   *)
HandleUdp(c) ==
  LET h == conn[c] IN
  /\ h.st = "handle" /\ h.kind = "udp"
  /\ \/ h.action = "Reject" /\ Set(c, [h EXCEPT !.st = "done", !.ret = "Ok"])
     \/ h.action # "Reject" /\ Set(c, [h EXCEPT !.st = "done", !.ret = "Err"])
     \/ h.action # "Reject" /\ Set(c, [h EXCEPT !.st = "udp"])
  /\ UNCHANGED <<scenario, connections, counter, stats, probe, now, made, probed>>

(* Fault: the map is not asked for the source. *)
SocketForAny(h, src) == IF h.socks = <<>> THEN 0 ELSE Len(h.socks)

(* The socket of udp_map for a source: 0 when there is none. *)
SocketFor(h, src) ==
  IF \E k \in DOMAIN h.socks : h.socks[k].src = src
  THEN CHOOSE k \in DOMAIN h.socks : h.socks[k].src = src ELSE 0

(* What recv_from leaves of a datagram in a buffer of n bytes. *)
Cut(p, n) == IF Len(p) <= n THEN p ELSE SubSeq(p, 1, n)

(* The part of a client's buffer that a datagram is received in: SSClient  *)
(* puts the bytes of the address in front.                                 *)
Room(action, addr) == IF action = "Direct" THEN DirectBuf ELSE ProxyBuf - Len(WriteAddress(addr))

(* What goes out for a datagram with payload p: the bytes of the address   *)
(* and the payload, encrypted with a fresh salt, or just the payload.      *)
Outgoing(h, salt, p) ==
  LET buf == Cut(p, Room(h.action, h.addr)) IN
  IF h.action = "Direct" THEN buf ELSE EncryptPayload(Cipher, salt, WriteAddress(h.addr) \o buf)

(* What the other end makes of it: a shadowsocks server opens the packet   *)
(* and reads the address.                                                  *)
Understood(h, packet) ==
  IF h.action = "Direct" THEN [addr |-> h.addr, payload |-> packet]
  ELSE LET plain == DecryptPayload(Cipher, packet).payload
           addr == ReadAddress(plain)
       IN [addr |-> addr, payload |-> Drop(plain, Len(WriteAddress(addr)))]

(* The loop takes a datagram: a new source gets a socket, and a task that  *)
(* reads its answers; the packet waits at the other end for an answer.     *)
UdpSend(c) ==
  LET h == conn[c] IN
  /\ h.st = "udp" /\ made < scenario.bytes
  /\ \E src \in Sources, p \in Payloads :
       LET k == SocketFor(h, src)
           asked == [src |-> src, sent |-> p, msg |-> Understood(h, Outgoing(h, made, p))]
           socks == IF k # 0 THEN h.socks
                    ELSE Append(h.socks, [src |-> src, reading |-> TRUE, asked |-> {}, inbox |-> {}])
           j == IF k # 0 THEN k ELSE Len(socks)
       IN Set(c, [h EXCEPT !.socks = [socks EXCEPT ![j].asked = @ \cup {asked}]])
  /\ made' = made + 1
  /\ UNCHANGED <<scenario, connections, counter, stats, probe, now, probed>>

(* No datagram within read_timeout, or a bind or send that fails, ends the *)
(* loop; the tasks it spawned go on.                                       *)
UdpEnd(c) ==
  /\ conn[c].st = "udp"
  /\ Set(c, [conn[c] EXCEPT !.st = "done", !.ret = "Err"])
  /\ UNCHANGED <<scenario, connections, counter, stats, probe, now, made, probed>>

ServerAddr == [kind |-> "V4", host |-> <<8, 8, 8, 8>>, port |-> 53]

(* An answer to what was sent from socket k, with the address it is from;  *)
(* on the way it may be damaged or cut.                                    *)
UdpAnswer(c, k) ==
  LET h == conn[c] IN
  /\ \E m \in h.socks[k].asked, p \in Payloads :
       \E from \in {m.msg.addr, ServerAddr}, cut \in {0, 1} :
         /\ cut = 1 => from = ServerAddr
         /\ LET whole == IF h.action = "Direct" THEN p
                         ELSE EncryptPayload(Cipher, scenario.bytes, WriteAddress(from) \o p)
            IN Set(c, [h EXCEPT !.socks[k].asked = @ \ {m},
                                !.socks[k].inbox = @ \cup {[packet |-> SubSeq(whole, 1, Len(whole) - cut),
                                                            of |-> m.src, sent |-> p, cut |-> cut # 0]}])
  /\ UNCHANGED <<scenario, connections, counter, stats, probe, now, made, probed>>

(* What a task makes of the packet it receives in its buffer: the payload, *)
(* or that the packet cannot be opened or has no address.                  *)
Incoming(action, packet) ==
  IF action = "Direct" THEN [ok |-> TRUE, payload |-> Cut(packet, DirectBuf)]
  ELSE LET d == DecryptPayload(Cipher, Cut(packet, ProxyBuf))
           addr == ReadAddress(d.payload)
       IN IF d.ok /\ addr # NoAddress
          THEN [ok |-> TRUE, payload |-> Drop(d.payload, AddrLen(addr))] ELSE Broken

(* A packet is whole if it came so and, for SSClient, fits in its buffer.  *)
(* (DirectClient's packet is the payload: Incoming says what is left.)     *)
Whole(action, p) == ~p.cut /\ (action # "Direct" => Len(p.packet) <= ProxyBuf)

(* The task of socket k reads a packet and hands it to its source, unless  *)
(* it cannot be opened: then, or when handing it on fails, the task ends.  *)
UdpRead(c, k) ==
  LET h == conn[c]
      s == h.socks[k]
  IN /\ s.reading
     /\ \E p \in s.inbox :
          LET in == Incoming(h.action, p.packet) IN
          Set(c, IF in.ok
                 THEN [h EXCEPT !.socks[k].inbox = @ \ {p},
                                !.got = @ \cup {[to |-> s.src, of |-> p.of, sent |-> p.sent,
                                                 payload |-> in.payload, whole |-> Whole(h.action, p)]}]
                 ELSE [h EXCEPT !.socks[k].inbox = @ \ {p}, !.socks[k].reading = FALSE])
     /\ UNCHANGED <<scenario, connections, counter, stats, probe, now, made, probed>>
UdpReadEnds(c, k) ==
  /\ conn[c].socks[k].reading
  /\ Set(c, [conn[c] EXCEPT !.socks[k].reading = FALSE])
  /\ UNCHANGED <<scenario, connections, counter, stats, probe, now, made, probed>>

-----------------------------------------------------------------------------
(* The two ends of a TCP connection, and time *)

Make(c, w) ==
  /\ conn[c].st = "relay" /\ made < scenario.bytes
  /\ Set(c, [conn[c] EXCEPT ![w].made = @ + 1])
  /\ made' = made + 1
  /\ UNCHANGED <<scenario, connections, counter, stats, probe, now, probed>>

Tick ==
  /\ now < MaxTime /\ now' = now + 1
  /\ UNCHANGED <<scenario, conn, connections, counter, stats, probe, made, probed>>

(* What the program does next for a connection. *)
Handle(c) ==
  \/ Dispatch(c) \/ ProbeCached(c) \/ ProbeStart(c) \/ ProbeEnd(c)
  \/ HandleTcp(c) \/ Connect(c) \/ ConnectFails(c) \/ SendAddr(c) \/ Close(c) \/ HandleTcpEnd(c)
  \/ \E w \in Ways : Read(c, w) \/ Write(c, w) \/ Count(c, w) \/ RelayFails(c, w)
  \/ HandleUdp(c) \/ UdpEnd(c)

(* A reader of UDP answers, as long as it runs. *)
UdpReader(c) == \E k \in DOMAIN conn[c].socks : UdpRead(c, k) \/ UdpReadEnds(c, k)

(* What depends on a peer: data, their end, answers. *)
Peers(c) ==
  \/ \E w \in Ways : Make(c, w) \/ ReadEof(c, w)
  \/ UdpSend(c)
  \/ \E k \in DOMAIN conn[c].socks : UdpAnswer(c, k)

Next ==
  \/ Tick
  \/ \E c \in Conns : Accept(c) \/ Handle(c) \/ UdpReader(c) \/ Peers(c)
  \/ \E cl \in Clients : RecycleStats(cl)

Spec == Init /\ [][Next]_vars

(* Tasks are scheduled and every wait has a timeout.  Nothing is assumed   *)
(* of the peers.                                                           *)
FairSpec ==
  /\ Spec
  /\ \A c \in 1..MaxConns :
       WF_vars(c \in Conns /\ Handle(c)) /\ WF_vars(c \in Conns /\ UdpReader(c))

-----------------------------------------------------------------------------
(* Properties *)

InRelay(c) == conn[c].st \in {"relay", "close"}

(* RuledClient.connections holds exactly the TCP connections that are      *)
(* being handled, also when their handling fails.                          *)
ConnectionsTracked ==
  LET handled == {c \in Conns : conn[c].st \in {"connect", "relay", "close", "remove"}} IN
  /\ DOMAIN connections = {conn[c].index : c \in handled}
  /\ \A c, d \in handled : conn[c].index = conn[d].index => c = d
  /\ \A c \in handled : connections[conn[c].index].addr = conn[c].addr

(* The open entries of a client's statistics are its relays, each its own: *)
(* recycling never takes one away, and none stays open without a relay.    *)
OpenEntriesAreRelays ==
  \A cl \in Clients :
    LET open == {i \in DOMAIN stats[cl].inner : stats[cl].inner[i].open}
        relays == {c \in Conns : InRelay(c) /\ conn[c].action = cl}
    IN /\ open = {conn[c].idx : c \in relays}
       /\ \A c, d \in relays : conn[c].idx = conn[d].idx => c = d
       /\ \A c \in relays : stats[cl].inner[conn[c].idx].addr = conn[c].addr

(* Whoever holds the lock of the probe cache is probing. *)
LockHeldByProber == probe.lock # 0 => conn[probe.lock].st = "probing"

(* What the program keeps about its connections is true of them, also when *)
(* one fails half way.                                                     *)
BookKeeping == ConnectionsTracked /\ OpenEntriesAreRelays /\ LockHeldByProber

(* The bytes the statistics show were really passed on, and lack at most   *)
(* the one buffer that is being written.                                   *)
CountsHonest ==
  \A c \in Conns, w \in Ways : InRelay(c) =>
    LET shown == stats[conn[c].action].inner[conn[c].idx][w]
        out == conn[c][w].out
    IN shown <= out /\ out <= shown + Chunk

(* A relay that ends because one side has said all it had to say has       *)
(* passed all of that on; what the other side said may be lost.            *)
EndPassesAllOn ==
  \A c \in Conns, w \in Ways : conn[c].st = "close" /\ conn[c].ret = w => conn[c][w].out = conn[c][w].made

(* Probing decides by a result for the address that is at most 5 minutes   *)
(* old when the connection uses it.                                        *)
ProbeCurrent ==
  [][\A c \in Conns :
       conn[c].st \in {"probe", "probing"} /\ conn'[c].st = "handle" =>
         LET addr == conn[c].addr IN
         /\ addr \in DOMAIN probed' /\ now < probed'[addr].at + ProbeTtl
         /\ conn'[c].action = IF probed'[addr].ok THEN "Direct" ELSE "Proxy"]_vars

(* One address is tried at a time, and none again within 5 minutes: who    *)
(* asks meanwhile waits for the lock and then finds the result.            *)
ProbesSerialized ==
  [][\A c \in Conns :
       conn[c].st = "probe" /\ conn'[c].st = "probing" =>
         /\ \A d \in Conns : conn[d].st # "probing"
         /\ conn[c].addr \in DOMAIN probed => now >= probed[conn[c].addr].at + ProbeTtl]_vars

(* A server gets the connection's address and the datagram that was sent,  *)
(* or the beginning of one that is longer than the client's buffer         *)
(* (DirectClient keeps 1024 bytes and drops the rest without a word).  An  *)
(* answer goes to the source whose datagram it answers, whichever kind of  *)
(* address the server puts in front of it; if its packet came whole, with  *)
(* the payload that was sent, of which DirectClient keeps 1024 bytes too.  *)
DatagramsFindTheirWay ==
  \A c \in Conns :
    LET h == conn[c] IN
    /\ \A k \in DOMAIN h.socks : \A m \in h.socks[k].asked :
         m.msg = [addr |-> h.addr, payload |-> Cut(m.sent, Room(h.action, h.addr))]
    /\ \A g \in h.got :
         /\ g.to = g.of
         /\ g.whole => g.payload = IF h.action = "Direct" THEN Cut(g.sent, DirectBuf) ELSE g.sent

(* Every handler ends, and with it the readers it has spawned: no relay    *)
(* outlives its timeouts.                                                  *)
HandlersEnd ==
  \A c \in 1..MaxConns :
    (c \in Conns /\ conn[c].st # "new") ~>
      (c \in Conns /\ conn[c].st = "done" /\ \A k \in DOMAIN conn[c].socks : ~conn[c].socks[k].reading)

=============================================================================
