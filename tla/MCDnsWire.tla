----------------------------- MODULE MCDnsWire -----------------------------
(* Instances of DnsWire: names that share suffixes, in both cases, one     *)
(* record of every type, and limits that cut a packet at every place.      *)
EXTENDS DnsWire

a == <<97>>
b == <<98, 66>>
NameA == <<a>>
NameBA == <<b, a>>
NameBBA == <<b, b, a>>
NameB == <<b>>

MCHeader == [id |-> 513, rd |-> TRUE, tc |-> FALSE, aa |-> FALSE, opcode |-> 0, response |-> FALSE,
             rescode |-> 0, cd |-> FALSE, ad |-> FALSE, z |-> FALSE, ra |-> FALSE]
MCHeaders ==
  {MCHeader,
   [MCHeader EXCEPT !.rd = FALSE, !.response = TRUE, !.aa = TRUE, !.rescode = 3, !.opcode = 9, !.ra = TRUE]}

Rec(t, d, ttl, data) == [type |-> t, domain |-> d, ttl |-> ttl, data |-> data]
MCRecords ==
  {Rec("A", NameBA, 70000, <<<<10, 0, 0, 1>>>>),
   Rec("NS", NameA, 1, <<NameBBA>>),
   Rec("CNAME", NameBBA, 300, <<NameB>>),
   Rec("MX", NameBA, 300, <<10, NameBA>>),
   Rec("SRV", NameB, 300, <<1, 2, 443, NameBBA>>),
   Rec("TXT", NameA, 300, <<<<120, 121, 122>>>>),
   Rec("UNKNOWN", NameA, 300, <<65, 2>>)}
MCRecordsLong ==
  {Rec("AAAA", NameBA, 300, <<<<32, 1, 13, 184, 0, 0, 0, 0, 0, 0, 0, 0, 0, 0, 0, 1>>>>),
   Rec("SOA", NameA, 300, <<NameBA, NameBBA, 1, 2, 3, 70000, 5>>),
   Rec("NS", <<>>, 300, <<NameA>>)}
MCAllRecords == MCRecords \cup MCRecordsLong

MCQuestions ==
  {[name |-> NameBBA, qtype |-> QueryType("A", 0)], [name |-> NameB, qtype |-> QueryType("UNKNOWN", 65)]}
=============================================================================
