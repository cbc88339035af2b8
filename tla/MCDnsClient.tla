---------------------------- MODULE MCDnsClient ----------------------------
(* An instance of DnsClient with a few calls and an id of a few values, so *)
(* that ids are reused and the restart of the counter is raced.            *)
EXTENDS DnsClient

(* The calls are alike, so they may as well take their ids in the order of *)
(* their numbers.                                                          *)
StartInOrder ==
  \A p, q \in Query : p < q /\ call[p] = "idle" => call'[q] = "idle"
=============================================================================
