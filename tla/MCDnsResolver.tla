--------------------------- MODULE MCDnsResolver ---------------------------
(* Small instances of DnsResolver.  IpSpace is large enough for every      *)
(* domain and a few addresses burnt by crashes, and small enough to wrap.  *)
EXTENDS DnsResolver

CONSTANTS d1, d2

(* /etc/hosts is empty, or overrides d1 with an address. *)
MCHostsFiles ==
  {[d \in Domain |-> None],
   [d \in Domain |-> IF d = d1 THEN 0 ELSE None]}
=============================================================================
