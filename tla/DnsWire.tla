------------------------------ MODULE DnsWire ------------------------------
(***************************************************************************)
(* The wire format of hermesdns: a packet is put together record by        *)
(* record, written into a buffer with a size limit (DnsPacket::write) and  *)
(* read back by the other side (DnsPacket::from_buffer).                   *)
(*                                                                         *)
(* Bytes are numbers, a name is a sequence of labels, a label a sequence   *)
(* of letters.  What the record types have in common is written once:      *)
(* Layout says of which fields the data of each of them consists.  A       *)
(* buffer that is written keeps its bytes and the positions of the names   *)
(* in it; reading yields values together with the position reached and     *)
(* the highest position touched, which must lie inside the reader's buffer.*)
(***************************************************************************)
EXTENDS Naturals, Sequences, FiniteSets, SequencesExt

CONSTANTS
  Headers,      \* headers packets are made with
  Questions,    \* questions that are asked
  Records,      \* records that are put into packets
  MaxRecords,   \* bound on the records of a packet
  Limits,       \* values of max_size packets are written with
  BufSize       \* size of the reader's buffer: 512

ASSUME WireAssumption == MaxRecords \in Nat /\ Limits \subseteq Nat /\ BufSize \in Nat

VARIABLES
  pc,      \* "building", "written" or "read"
  packet,  \* the packet being made
  limit,   \* the max_size it was written with
  wire,    \* its bytes
  result   \* what the reader made of them

vars == <<pc, packet, limit, wire, result>>

-----------------------------------------------------------------------------
(* QueryType; an unknown type keeps its number. *)
TypeNum == [A |-> 1, NS |-> 2, CNAME |-> 5, SOA |-> 6, MX |-> 15, TXT |-> 16,
            AAAA |-> 28, SRV |-> 33, OPT |-> 41]

QueryType(kind, num) == [kind |-> kind, num |-> num]

ToNum(q) == IF q.kind = "UNKNOWN" THEN q.num ELSE TypeNum[q.kind]

FromNum(n) ==
  IF \E t \in DOMAIN TypeNum : TypeNum[t] = n
  THEN QueryType(CHOOSE t \in DOMAIN TypeNum : TypeNum[t] = n, 0)
  ELSE QueryType("UNKNOWN", n)

(* The fields of the data of each record type. *)
Layout ==
  [A |-> <<"ipv4">>, AAAA |-> <<"ipv6">>, NS |-> <<"name">>, CNAME |-> <<"name">>,
   SRV |-> <<"u16", "u16", "u16", "name">>, MX |-> <<"u16", "name">>,
   SOA |-> <<"name", "name", "u32", "u32", "u32", "u32", "u32">>,
   TXT |-> <<"text">>, OPT |-> <<"text">>, UNKNOWN |-> <<"skip">>]

(* ResultCode::from_num: codes it does not know become NOERROR. *)
ResultCode(n) == IF n \in 1 .. 5 THEN n ELSE 0

Lower(b) == IF b \in 65 .. 90 THEN b + 32 ELSE b

U16(n) == <<(n \div 256) % 256, n % 256>>
U32(n) == <<n \div 16777216, (n \div 65536) % 256, (n \div 256) % 256, n % 256>>

-----------------------------------------------------------------------------
(* Writing.  A buffer with keep = FALSE is a BytePacketBuffer, which has   *)
(* no memory of labels.                                                    *)
EmptyBuffer(keep) == [bytes |-> <<>>, labels |-> {}, keep |-> keep]

Put(b, bytes) == [b EXCEPT !.bytes = @ \o bytes]

(* Fault: the position of a whole name is remembered for its suffixes. *)
WriteNameAtStart(b, name) ==
  LET ls == IF name = <<>> THEN <<<<>>>> ELSE name
      Suffix(i) == SubSeq(ls, i, Len(ls))
      known == {i \in 1 .. Len(ls) : \E l \in b.labels : l.name = Suffix(i)}
      stop == IF known = {} THEN Len(ls) + 1 ELSE CHOOSE i \in known : \A j \in known : i <= j
      Labels(n) == FlattenSeq([j \in 1 .. n |-> <<Len(ls[j])>> \o ls[j]])
      tail == IF known = {} THEN <<0>>
              ELSE U16(49152 + (CHOOSE l \in b.labels : l.name = Suffix(stop)).pos)
  IN [b EXCEPT !.bytes = @ \o Labels(stop - 1) \o tail,
               !.labels = @ \cup IF ~b.keep THEN {} ELSE
                 {[name |-> Suffix(j), pos |-> Len(b.bytes)] : j \in 1 .. stop - 1}]

(* write_qname: labels up to the first suffix that was written before,     *)
(* then a pointer to it, or a zero.  The root is split into one empty      *)
(* label and so becomes two zeros.                                         *)
WriteName(b, name) ==
  LET ls == IF name = <<>> THEN <<<<>>>> ELSE name
      Suffix(i) == SubSeq(ls, i, Len(ls))
      known == {i \in 1 .. Len(ls) : \E l \in b.labels : l.name = Suffix(i)}
      stop == IF known = {} THEN Len(ls) + 1 ELSE CHOOSE i \in known : \A j \in known : i <= j
      Labels(n) == FlattenSeq([j \in 1 .. n |-> <<Len(ls[j])>> \o ls[j]])
      tail == IF known = {} THEN <<0>>
              ELSE U16(49152 + (CHOOSE l \in b.labels : l.name = Suffix(stop)).pos)
  IN [b EXCEPT !.bytes = @ \o Labels(stop - 1) \o tail,
               !.labels = @ \cup IF ~b.keep THEN {} ELSE
                 {[name |-> Suffix(j), pos |-> Len(b.bytes) + Len(Labels(j - 1))] :
                    j \in 1 .. stop - 1}]

WriteField(b, kind, val) ==
  CASE kind = "name" -> WriteName(b, val)
    [] kind = "u16" -> Put(b, U16(val))
    [] kind = "u32" -> Put(b, U32(val))
    [] OTHER -> Put(b, val)

(* DnsRecord::write.  The length is filled in once the data is written;    *)
(* records of type OPT and UNKNOWN are skipped.                            *)
WriteRecord(b, r) ==
  IF r.type \in {"OPT", "UNKNOWN"} THEN b
  ELSE LET fixed == Put(WriteName(b, r.domain), U16(TypeNum[r.type]) \o U16(1) \o U32(r.ttl))
           at == Len(fixed.bytes)
           done == FoldLeft(LAMBDA acc, i : WriteField(acc, Layout[r.type][i], r.data[i]),
                            Put(fixed, <<0, 0>>), [i \in 1 .. Len(r.data) |-> i])
           size == U16(Len(done.bytes) - (at + 2))
       IN [done EXCEPT !.bytes[at + 1] = size[1], !.bytes[at + 2] = size[2]]

(* DnsQuestion::write and ::binary_len, which counts the name alone. *)
WriteQuestion(b, q) == Put(WriteName(b, q.name), U16(ToNum(q.qtype)) \o U16(1))
QuestionLen(q) == 1 + FoldLeft(LAMBDA n, l : n + Len(l) + 1, 0, IF q.name = <<>> THEN <<<<>>>> ELSE q.name)

Bits(b, k) == IF b THEN 2 ^ k ELSE 0

(* DnsHeader::write *)
HeaderBytes(h, n) ==
  U16(h.id)
  \o <<Bits(h.rd, 0) + Bits(h.tc, 1) + Bits(h.aa, 2) + 8 * h.opcode + Bits(h.response, 7),
       h.rescode + Bits(h.cd, 4) + Bits(h.ad, 5) + Bits(h.z, 6) + Bits(h.ra, 7)>>
  \o U16(n.questions) \o U16(n.answers) \o U16(n.authorities) \o U16(n.resources)

AllRecords(p) == p.answers \o p.authorities \o p.resources

WriteQuestions(b, p) == FoldLeft(WriteQuestion, b, p.questions)

(* The first pass of DnsPacket::write: sizes of the records, measured in a *)
(* buffer of their own, and how many of them fit.                          *)
Measured(p) == [k \in 0 .. Len(AllRecords(p)) |->
  Len(FoldLeft(WriteRecord, WriteQuestions(EmptyBuffer(TRUE), p), SubSeq(AllRecords(p), 1, k)).bytes)]

FixedSize(p) == 12 + FoldLeft(LAMBDA n, q : n + QuestionLen(q), 0, p.questions)

(* Fault: the size of a record is compared with the limit on its own. *)
RecordCountAlone(p, max) ==
  LET m == Measured(p)
      over == {k \in 1 .. Len(AllRecords(p)) : m[k] - m[k - 1] > max}
  IN IF over = {} THEN Len(AllRecords(p)) ELSE (CHOOSE k \in over : \A j \in over : k <= j) - 1

RecordCount(p, max) ==
  LET m == Measured(p)
      over == {k \in 1 .. Len(AllRecords(p)) : FixedSize(p) + m[k] - m[0] > max}
  IN IF over = {} THEN Len(AllRecords(p)) ELSE (CHOOSE k \in over : \A j \in over : k <= j) - 1

Clip(n, low, high) == IF n < low THEN 0 ELSE IF n > high THEN high - low ELSE n - low

(* The second pass: the header with the counts, then what fits. *)
Encode(p, count, keep) ==
  LET a == Len(p.answers)
      b == a + Len(p.authorities)
      n == [questions |-> Len(p.questions), answers |-> Clip(count, 0, a),
            authorities |-> Clip(count, a, b), resources |-> Clip(count, b, Len(AllRecords(p)))]
      h == [p.header EXCEPT !.tc = @ \/ count < Len(AllRecords(p))]
  IN FoldLeft(WriteRecord, WriteQuestions(Put(EmptyBuffer(keep), HeaderBytes(h, n)), p),
              SubSeq(AllRecords(p), 1, count)).bytes

-----------------------------------------------------------------------------
(* Reading *)
At(buf, pos) == IF pos < Len(buf) THEN buf[pos + 1] ELSE 0
Max2(a, b) == IF a > b THEN a ELSE b
Got(val, next, hi) == [val |-> val, next |-> next, hi |-> hi]

(* A length with one of the two highest bits set is taken for a pointer. *)
Offset(len, low) == 256 * (IF len >= 192 THEN len - 192 ELSE IF len >= 128 THEN len - 64 ELSE len + 64) + low

(* read_qname.  After a pointer the buffer's position stays behind it. *)
RECURSIVE ReadName(_, _)
ReadName(buf, pos) ==
  LET len == At(buf, pos) IN
  IF len >= 64
  THEN LET r == ReadName(buf, Offset(len, At(buf, pos + 1)))
       IN Got(r.val, pos + 2, Max2(pos + 1, r.hi))
  ELSE IF len = 0 THEN Got(<<>>, pos + 1, pos)
  ELSE LET r == ReadName(buf, pos + 1 + len)
       IN Got(<<[i \in 1 .. len |-> Lower(At(buf, pos + i))]>> \o r.val, r.next, Max2(pos + 1 + len, r.hi))

Raw(buf, pos, n) == [i \in 1 .. n |-> At(buf, pos + i - 1)]

(* get_range rejects a range that ends with the buffer: it touches the     *)
(* byte after it.                                                          *)
ReadField(buf, pos, kind, len) ==
  CASE kind = "name" -> ReadName(buf, pos)
    [] kind = "u16" -> Got(256 * At(buf, pos) + At(buf, pos + 1), pos + 2, pos + 1)
    [] kind = "u32" -> Got(65536 * (256 * At(buf, pos) + At(buf, pos + 1))
                           + 256 * At(buf, pos + 2) + At(buf, pos + 3), pos + 4, pos + 3)
    [] kind = "ipv4" -> Got(Raw(buf, pos, 4), pos + 4, pos + 3)
    [] kind = "ipv6" -> Got(Raw(buf, pos, 16), pos + 16, pos + 15)
    [] kind = "text" -> Got(Raw(buf, pos, len), pos + len, pos + len)
    [] OTHER -> Got(<<>>, pos + len, pos)

ReadFields(buf, from, kinds, len) ==
  FoldLeft(LAMBDA acc, kind :
             LET f == ReadField(buf, acc.next, kind, len)
             IN Got(Append(acc.val, f.val), f.next, Max2(acc.hi, f.hi)),
           Got(<<>>, from.next, from.hi), kinds)

(* DnsRecord::read; an OPT record has no domain and keeps class and ttl. *)
ReadRecord(buf, from) ==
  LET fixed == ReadFields(buf, from, <<"name", "u16", "u16", "u32", "u16">>, 0)
      type == FromNum(fixed.val[2])
      body == ReadFields(buf, fixed, Layout[type.kind], fixed.val[5])
      data == CASE type.kind = "UNKNOWN" -> <<type.num, fixed.val[5]>>
                [] type.kind = "OPT" -> <<fixed.val[3]>> \o body.val
                [] OTHER -> body.val
  IN Got([type |-> type.kind, domain |-> IF type.kind = "OPT" THEN <<>> ELSE fixed.val[1],
          ttl |-> fixed.val[4], data |-> data], body.next, body.hi)

ReadQuestion(buf, from) ==
  LET q == ReadFields(buf, from, <<"name", "u16", "u16">>, 0)
  IN Got([name |-> q.val[1], qtype |-> FromNum(q.val[2])], q.next, q.hi)

ReadMany(buf, from, n, Item(_, _)) ==
  FoldLeft(LAMBDA acc, i :
             LET r == Item(buf, acc) IN Got(Append(acc.val, r.val), r.next, Max2(acc.hi, r.hi)),
           Got(<<>>, from.next, from.hi), [i \in 1 .. n |-> i])

Bit(n, k) == (n \div (2 ^ k)) % 2 = 1

(* DnsHeader::read *)
ReadHeader(buf) ==
  LET a == At(buf, 2)  b == At(buf, 3) IN
  [id |-> 256 * At(buf, 0) + At(buf, 1), rd |-> Bit(a, 0), tc |-> Bit(a, 1), aa |-> Bit(a, 2),
   opcode |-> (a \div 8) % 16, response |-> Bit(a, 7), rescode |-> ResultCode(b % 16),
   cd |-> Bit(b, 4), ad |-> Bit(b, 5), z |-> Bit(b, 6), ra |-> Bit(b, 7)]

(* DnsPacket::from_buffer; ok is FALSE when it left the buffer. *)
FromBuffer(buf) ==
  LET n == ReadFields(buf, Got(<<>>, 4, 0), <<"u16", "u16", "u16", "u16">>, 0)
      q == ReadMany(buf, n, n.val[1], ReadQuestion)
      a == ReadMany(buf, q, n.val[2], ReadRecord)
      b == ReadMany(buf, a, n.val[3], ReadRecord)
      c == ReadMany(buf, b, n.val[4], ReadRecord)
  IN [ok |-> c.hi < BufSize, header |-> ReadHeader(buf),
      questions |-> q.val, answers |-> a.val, authorities |-> b.val, resources |-> c.val]

-----------------------------------------------------------------------------
NoResult == [ok |-> FALSE]
NewPacket(h) == [header |-> h, questions |-> <<>>, answers |-> <<>>, authorities |-> <<>>, resources |-> <<>>]

Init ==
  /\ pc = "building" /\ limit = 0 /\ wire = <<>> /\ result = NoResult
  /\ \E h \in Headers : packet = NewPacket(h)

(* Clients and servers ask one question per packet. *)
PushQuestion(q) ==
  /\ pc = "building" /\ packet.questions = <<>>
  /\ packet' = [packet EXCEPT !.questions = <<q>>]
  /\ UNCHANGED <<pc, limit, wire, result>>

PushRecord(section, r) ==
  /\ pc = "building" /\ Len(AllRecords(packet)) < MaxRecords
  /\ packet' = [packet EXCEPT ![section] = Append(@, r)]
  /\ UNCHANGED <<pc, limit, wire, result>>

(* DnsPacket::write.  A BytePacketBuffer is only used for questions. *)
Write(max, keep) ==
  /\ pc = "building"
  /\ keep \/ AllRecords(packet) = <<>>
  /\ limit' = max
  /\ wire' = Encode(packet, RecordCount(packet, max), keep)
  /\ pc' = "written"
  /\ UNCHANGED <<packet, result>>

(* recv_from into a buffer of BufSize bytes, and from_buffer. *)
Read ==
  /\ pc = "written"
  /\ result' = FromBuffer(SubSeq(wire, 1, IF Len(wire) < BufSize THEN Len(wire) ELSE BufSize))
  /\ pc' = "read"
  /\ UNCHANGED <<packet, limit, wire>>

Next ==
  \/ \E q \in Questions : PushQuestion(q)
  \/ \E s \in {"answers", "authorities", "resources"}, r \in Records : PushRecord(s, r)
  \/ \E max \in Limits, keep \in BOOLEAN : Write(max, keep)
  \/ Read

Spec == Init /\ [][Next]_vars

-----------------------------------------------------------------------------
LowerName(name) == [i \in 1 .. Len(name) |-> [j \in 1 .. Len(name[i]) |-> Lower(name[i][j])]]

(* What the reader should make of a record or a question: names in lower   *)
(* case.                                                                   *)
Canonical(r) ==
  [r EXCEPT !.domain = LowerName(@),
            !.data = [i \in 1 .. Len(@) |-> IF Layout[r.type][i] = "name" THEN LowerName(@[i]) ELSE @[i]]]

(* Packets whose records can all be written and which do not name the root. *)
NamesOf(r) == {r.domain} \cup {r.data[i] : i \in {j \in 1 .. Len(r.data) : Layout[r.type][j] = "name"}}
Writable ==
  /\ \A i \in 1 .. Len(AllRecords(packet)) :
       LET r == AllRecords(packet)[i] IN r.type \notin {"OPT", "UNKNOWN"} /\ <<>> \notin NamesOf(r)
  /\ \A i \in 1 .. Len(packet.questions) : packet.questions[i].name # <<>>

(* Reading gives back what was written, wherever names were replaced by    *)
(* pointers: the question, and of the records a prefix in which every      *)
(* record is in the section it was put in; the header is unchanged but for *)
(* the truncation flag, set exactly if a record is missing.                *)
RoundTrip ==
  pc = "read" /\ Writable /\ Len(wire) < BufSize =>
    LET kept == Len(AllRecords(result))
        section(s) == IsPrefix(result[s], [i \in 1 .. Len(packet[s]) |-> Canonical(packet[s][i])])
    IN /\ result.ok
       /\ section("answers") /\ section("authorities") /\ section("resources")
       /\ result.authorities # <<>> => Len(result.answers) = Len(packet.answers)
       /\ result.resources # <<>> => Len(result.authorities) = Len(packet.authorities)
       /\ result.questions = [i \in 1 .. Len(packet.questions) |->
                                [packet.questions[i] EXCEPT !.name = LowerName(@)]]
       /\ result.header = [packet.header EXCEPT !.tc = @ \/ kept < Len(AllRecords(packet))]

(* The limit holds but for the type and class of the question, which the   *)
(* sizes leave out.                                                        *)
LimitKept ==
  pc = "read" /\ Writable /\ AllRecords(result) # <<>> => Len(wire) <= limit + 4 * Len(packet.questions)

(* No record is dropped that had room. *)
DropsOnlyWhatDoesNotFit ==
  pc = "read" /\ Writable /\ result.ok /\ result.header.tc /\ ~packet.header.tc =>
    Len(Encode(packet, Len(AllRecords(result)) + 1, TRUE)) > limit

(* Records are left out from exactly where the limit does not allow the    *)
(* next one, although write adds sizes up in one pass and writes in        *)
(* another.                                                                *)
CutAtLimit == LimitKept /\ DropsOnlyWhatDoesNotFit
=============================================================================
