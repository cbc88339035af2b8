---------------------------- MODULE MCDnsLookup ----------------------------
(* An instance of DnsLookup: a root server 1, which refers to server 2 for *)
(* the zone of c with glue and for that of ed without, and server 3 of the *)
(* zone of d, which nobody asks for, but whose records may come along: ed  *)
(* ends with d.  Servers 2 and 3 refer to each other for lame.c.           *)
EXTENDS DnsLookup

Root == <<>>
C == <<"c">>
E == <<"ed">>
N == <<"n", "c">>     \* name server of c and of ed
Al == <<"al", "c">>   \* an alias of H
H == <<"h", "c">>
L == <<"l", "c">>     \* an alias of itself
Nx == <<"nx", "c">>
W == <<"w", "ed">>
Lame == <<"lame", "c">>

MCNames == {Root, C, E, N, Al, H, L, Nx, W, Lame, <<"r">>, <<"d">>, <<"nd">>}

MCLabelEnds(label, end) == label = end \/ <<label, end>> \in {<<"ed", "d">>, <<"nd", "d">>}

Rec(type, domain, data, ttl) == [type |-> type, domain |-> domain, data |-> data, ttl |-> ttl]
P(answers, authorities, resources) ==
  [rescode |-> "NOERROR", answers |-> answers, authorities |-> authorities, resources |-> resources]

MCHints == {<<>>, <<Rec("NS", Root, <<"r">>, 9), Rec("A", <<"r">>, 1, 9)>>}

Other == Rec("NS", <<"d">>, <<"nd">>, 9)
OtherAddr == Rec("A", <<"nd">>, 3, 9)

FromRoot(qname) ==
  IF IsSuffix(C, qname) THEN
    {P(<<>>, <<Other, Rec("NS", C, N, 0)>>, <<OtherAddr, Rec("A", N, 2, 1)>>)}
  ELSE IF IsSuffix(E, qname) THEN
    {P(<<>>, <<Rec("NS", E, N, 9)>>, <<OtherAddr>>),
     P(<<>>, <<Other, Rec("NS", E, N, 9)>>, <<OtherAddr>>)}
  ELSE {P(<<>>, <<Other>>, <<>>)}

FromZone(qname, qtype) ==
  CASE qname = Al /\ qtype # "NS" -> {P(<<Rec("CNAME", Al, H, 0)>>, <<>>, <<>>)}
    [] qname = H /\ qtype = "A" ->
         {P(<<Rec("A", H, 4, 0), Rec("A", H, 5, 1)>>, <<>>, <<>>)}
    [] qname = N /\ qtype = "A" -> {P(<<Rec("A", N, 2, 1)>>, <<>>, <<>>), P(<<>>, <<>>, <<>>)}
    [] qname = L -> {P(<<Rec("CNAME", L, L, 0)>>, <<>>, <<>>)}
    [] qname = Nx -> {[P(<<>>, <<Rec("SOA", C, 0, 0)>>, <<>>) EXCEPT !.rescode = "NXDOMAIN"]}
    [] qname = W /\ qtype = "A" -> {P(<<Rec("A", W, 6, 1)>>, <<>>, <<>>)}
    [] qname = Lame -> {P(<<>>, <<Rec("NS", Lame, <<"nd">>, 0)>>, <<OtherAddr>>)}
    [] OTHER -> {P(<<>>, <<>>, <<>>)}

FromOther(qname) ==
  IF qname = Lame THEN {P(<<>>, <<Rec("NS", C, N, 0)>>, <<Rec("A", N, 2, 1)>>)} ELSE {P(<<>>, <<>>, <<>>)}

MCUpstream(server, qname, qtype) ==
  CASE server = 1 -> FromRoot(qname)
    [] server = 3 -> FromOther(qname)
    [] OTHER -> FromZone(qname, qtype)
MCZones(server) ==
  CASE server = 1 -> {Root}
    [] server = 2 -> {C, E}
    [] server = 3 -> {<<"d">>, Lame}
    [] OTHER -> {}

Q(qname, qtype) == [qname |-> qname, qtype |-> qtype, rd |-> TRUE]
MCQuestions ==
  {Q(Al, "A"), Q(L, "A"), Q(Nx, "A"), Q(W, "A"), Q(Lame, "A"), Q(H, "UNKNOWN"),
   [Q(H, "A") EXCEPT !.rd = FALSE]}
=============================================================================
