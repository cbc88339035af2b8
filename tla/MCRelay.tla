------------------------------ MODULE MCRelay ------------------------------
(* An instance of Relay: a rule of each kind, a domain that is probed, one *)
(* that is rejected and an address that no rule is for.                    *)
EXTENDS Relay

Domain(host) == [kind |-> "Domain", host |-> host, port |-> 443]
Probed1 == Domain(<<1, 9, 2>>)
Rejected == Domain(<<4, 5, 6>>)
Other == [kind |-> "V4", host |-> <<10, 0, 0, 1>>, port |-> 53]

Tcp(addr) == [kind |-> "tcp", addr |-> addr]
Udp(addr) == [kind |-> "udp", addr |-> addr]
Scenario(arrivals, bytes) == [arrivals |-> arrivals, bytes |-> bytes]
MCScenarios ==
  {Scenario(<<Tcp(Probed1), Tcp(Probed1)>>, 0), Scenario(<<Tcp(Probed1)>>, 3),
   Scenario(<<Tcp(Other), Tcp(Other)>>, 2), Scenario(<<Udp(Probed1)>>, 2),
   Scenario(<<Tcp(Rejected), Udp(Rejected)>>, 0)}

(* One datagram fits in both buffers; the other is cut by both on its way  *)
(* out, and as an answer by both.                                          *)
MCPayloads == {<<7>>, <<7, 8, 9, 10>>}

Rule(kind, value, action) == [kind |-> kind, value |-> value, action |-> action]
MCRules ==
  <<Rule("IpCidr", <<10>>, "Reject"), Rule("DomainKeyword", <<9>>, "Probe"),
    Rule("Domain", <<3>>, "Proxy"), Rule("DomainSuffix", <<5, 6>>, "Reject")>>
=============================================================================
