----------------------- MODULE EncryptedStreamProofs -----------------------
(***************************************************************************)
(* Proofs about EncryptedStream, for buffers, tags, salts and blocks of    *)
(* any size: an AEAD reader hands out whole chunks, and reader and writer  *)
(* together implement ByteStream.                                          *)
(*                                                                         *)
(* The argument is about the bytes between the two ends, wherever TCP has  *)
(* cut them up: what read_exact has got, what is on its way and what       *)
(* write_all has left are one stretch of the wire (Flight).  IInv says     *)
(* where on the wire it begins, given what the reader has handed out and   *)
(* its counter, and which byte of which chunk is at every place of it.     *)
(***************************************************************************)
EXTENDS EncryptedStream, Integers, SequenceTheorems, TLAPS

WireByte == [under : Nat, kind : {"iv", "data", "tag"}, val : Nat]

WriterEnd == {"failed", "panicked", "closed"}

TypeOK ==
  /\ cipher \in {"stream", "aead"}
  /\ wr \in [st : {"new", "ready", "writing"} \cup WriterEnd, ctr : Nat,
             out : Seq(WireByte), buf : Nat]
  /\ rd \in [st : Reading \cup ReaderEnd, ctr : Nat, got : Seq(WireByte), len : Nat]
  /\ pipe \in Seq(WireByte)
  /\ sent \in Seq(Nat) /\ received \in Seq(Nat) /\ cuts \in Seq(Nat)

(* The payload is numbered. *)
Numbered ==
  /\ \A i \in 1 .. Len(sent) : sent[i] = i
  /\ \A i \in 1 .. Len(received) : received[i] = i
  /\ Len(received) <= Len(sent)

(* The chunks follow each other up to the last byte sent, none empty. *)
Cuts(c) ==
  /\ c \in Seq(Nat) /\ Len(c) > 0 /\ c[1] = 0
  /\ \A i, j \in 1 .. Len(c) : i < j => c[i] < c[j]

CutUp == Cuts(cuts) /\ cuts[Len(cuts)] = Len(sent)

(* The writer's counter, and when write_all has something left. *)
WriterKnown ==
  /\ wr.ctr = IF cipher = "aead" THEN 2 * (Len(cuts) - 1) ELSE Len(sent)
  /\ wr.st # "writing" => wr.out = <<>>
  /\ wr.st = "new" => sent = <<>> /\ Len(cuts) = 1

(* What encryption adds to a chunk. *)
Overhead == 2 + TagSize + TagSize

(* With the chunks cut at c: bytes on the wire before chunk j, and the     *)
(* chunk.                                                                  *)
Start(c, j) == SaltSize + Overhead * (j - 1) + c[j]
ChunkLen(c, j) == c[j + 1] - c[j]
Payload(c, j) == [i \in 1 .. ChunkLen(c, j) |-> c[j] + i]
Chunk(c, j) == AeadChunk(Payload(c, j), 2 * (j - 1))

(* Bytes the writer has put on the wire, or has in its buffer. *)
Total ==
  IF wr.st = "new" THEN 0
  ELSE IF cipher = "aead" THEN Start(cuts, Len(cuts)) ELSE SaltSize + Len(sent)

Flight == rd.got \o (pipe \o wr.out)

(* The reader has consumed n bytes of the wire. *)
Consumed(n) ==
  \/ /\ rd.st = "iv" /\ n = 0 /\ received = <<>> /\ Len(rd.got) < SaltSize
  \/ /\ rd.st = "read" /\ cipher = "stream" /\ rd.got = <<>>
     /\ n = SaltSize + Len(received) /\ rd.ctr = Len(received)
  \/ /\ rd.st = "len" /\ cipher = "aead" /\ Len(rd.got) < 2 + TagSize
     /\ \E j \in 1 .. Len(cuts) :
          n = Start(cuts, j) /\ rd.ctr = 2 * (j - 1) /\ Len(received) = cuts[j]
  \/ /\ rd.st = "body" /\ cipher = "aead" /\ Len(rd.got) < rd.len + TagSize
     /\ \E j \in 1 .. Len(cuts) - 1 :
          /\ n = Start(cuts, j) + 2 + TagSize /\ rd.ctr = 2 * (j - 1) + 1
          /\ Len(received) = cuts[j] /\ rd.len = ChunkLen(cuts, j)

(* The bytes after the first n of the wire are in flight, all of them      *)
(* unless write_all was dropped.                                           *)
Extent(n) ==
  /\ n + Len(Flight) <= Total
  /\ wr.st # "failed" => n + Len(Flight) = Total

(* The sequence F is what follows the first n bytes of the wire, when k    *)
(* bytes of payload were sent in chunks cut at c.                          *)
Carries(category, F, n, c, k) ==
  IF category = "aead"
  THEN \A j \in 1 .. Len(c) - 1 : \A m \in 1 .. Overhead + ChunkLen(c, j) :
         Start(c, j) + m - n \in 1 .. Len(F) => F[Start(c, j) + m - n] = Chunk(c, j)[m]
  ELSE \A q \in 1 .. k :
         SaltSize + q - n \in 1 .. Len(F) => F[SaltSize + q - n] = Byte(q, "data", q)

Content(n) == Carries(cipher, Flight, n, cuts, Len(sent))

InStep == rd.st \in Reading => \E n \in Nat : Consumed(n) /\ Extent(n) /\ Content(n)

(* What the other end wrote opens under the reader's nonce. *)
Decrypts == rd.st # "decrypt_failed"

(* How a reader may have ended. *)
EndedBy == (rd.st \in {"eof", "unexpected_eof"} => WriterGone) /\ Decrypts

IInv == TypeOK /\ Numbered /\ CutUp /\ WriterKnown /\ InStep /\ ChunksWhole /\ EndedBy

-----------------------------------------------------------------------------
(* Sequences *)

(* Moving bytes from the front of one buffer to the end of the one before  *)
(* it leaves what they hold together unchanged.                            *)
LEMMA MoveBytes ==
  ASSUME NEW a \in Seq(WireByte), NEW b \in Seq(WireByte), NEW k \in 0 .. Len(b)
  PROVE  /\ SubSeq(b, 1, k) \in Seq(WireByte) /\ Len(SubSeq(b, 1, k)) = k
         /\ SubSeq(b, k + 1, Len(b)) \in Seq(WireByte) /\ Len(SubSeq(b, k + 1, Len(b))) = Len(b) - k
         /\ (a \o SubSeq(b, 1, k)) \o SubSeq(b, k + 1, Len(b)) = a \o b
<1>1. Len(b) \in Nat /\ k \in Nat
  BY LenProperties
<1>2. /\ SubSeq(b, 1, k) \in Seq(WireByte) /\ Len(SubSeq(b, 1, k)) = k
      /\ SubSeq(b, k + 1, Len(b)) \in Seq(WireByte) /\ Len(SubSeq(b, k + 1, Len(b))) = Len(b) - k
  BY <1>1
<1>3. SubSeq(b, 1, k) \o SubSeq(b, k + 1, Len(b)) = b
  <2>1. SubSeq(b, 1, k) \o SubSeq(b, k + 1, Len(b)) = SubSeq(b, 1, Len(b))
    <3>1. 1 \in 1 .. Len(b) + 1 /\ k \in 1 - 1 .. Len(b) /\ Len(b) \in k .. Len(b)
      BY <1>1
    <3> QED BY <3>1, ConcatAdjacentSubSeq
  <2> QED BY <2>1, SubSeqFull
<1>4. (a \o SubSeq(b, 1, k)) \o SubSeq(b, k + 1, Len(b)) = a \o (SubSeq(b, 1, k) \o SubSeq(b, k + 1, Len(b)))
  <2> DEFINE p == SubSeq(b, 1, k)
             q == SubSeq(b, k + 1, Len(b))
  <2>1. p \in Seq(WireByte) /\ q \in Seq(WireByte)
    BY <1>2
  <2> HIDE DEF p, q
  <2>2. (a \o p) \o q = a \o (p \o q)
    BY SMTT(60), <2>1, ConcatAssociative
  <2> QED BY <2>2 DEF p, q
<1> QED BY <1>2, <1>3, <1>4

(* The ciphers *)

(* A byte's place in the key stream: blocks and padding add up to it. *)
LEMMA KeyPosition ==
  ASSUME NEW ctr \in Nat, NEW i \in Nat
  PROVE  KeyPos(ctr, i) = ctr + i
BY StreamAssumption DEF KeyPos

(* What is sealed under a nonce opens under it, to the same text. *)
LEMMA Sealed ==
  ASSUME NEW data \in Seq(Nat), NEW nonce \in Nat, NEW c, c = AeadEncrypt(data, nonce)
  PROVE  /\ c \in Seq(WireByte) /\ Len(c) = Len(data) + TagSize
         /\ Opens(c, nonce) /\ AeadDecrypt(c) = data
<1>1. TagSize \in Nat /\ Len(data) \in Nat
  BY StreamAssumption
<1>2. c \in Seq(WireByte) /\ Len(c) = Len(data) + TagSize
  BY <1>1 DEF AeadEncrypt, Byte, WireByte
<1>3. \A i \in 1 .. Len(data) : c[i].val = data[i]
  BY <1>1 DEF AeadEncrypt, Byte
<1>4. [i \in 1 .. Len(c) - TagSize |-> c[i].val] = data
  BY <1>1, <1>2, <1>3
<1> QED BY SMTT(60), <1>1, <1>2, <1>4 DEF Opens, AeadDecrypt

(* The length survives being written as two bytes. *)
LEMMA LengthBytes ==
  ASSUME NEW n \in Nat
  PROVE  /\ n \div 256 \in Nat /\ n % 256 \in Nat
         /\ 256 * (n \div 256) + (n % 256) = n
OBVIOUS

(* A chunk is its length and its payload, each sealed, one after the       *)
(* other.                                                                  *)
SealedLen(c, j) == AeadEncrypt(<<ChunkLen(c, j) \div 256, ChunkLen(c, j) % 256>>, 2 * (j - 1))
SealedBody(c, j) == AeadEncrypt(Payload(c, j), 2 * (j - 1) + 1)

LEMMA ChunkShape ==
  ASSUME NEW c, Cuts(c), NEW j \in 1 .. Len(c) - 1
  PROVE  /\ ChunkLen(c, j) \in Nat /\ ChunkLen(c, j) > 0
         /\ Payload(c, j) \in Seq(Nat) /\ Len(Payload(c, j)) = ChunkLen(c, j)
         /\ Chunk(c, j) \in Seq(WireByte) /\ Len(Chunk(c, j)) = Overhead + ChunkLen(c, j)
         /\ \A m \in 1 .. 2 + TagSize : Chunk(c, j)[m] = SealedLen(c, j)[m]
         /\ \A m \in 1 .. ChunkLen(c, j) + TagSize : Chunk(c, j)[2 + TagSize + m] = SealedBody(c, j)[m]
<1> DEFINE n == ChunkLen(c, j)
           text == <<n \div 256, n % 256>>
           head == AeadEncrypt(text, 2 * (j - 1))
           body == AeadEncrypt(Payload(c, j), 2 * (j - 1) + 1)
<1>1. j \in Nat /\ j >= 1 /\ j \in 1 .. Len(c) /\ j + 1 \in 1 .. Len(c) /\ TagSize \in Nat
  BY StreamAssumption DEF Cuts
<1>2. n \in Nat /\ n > 0 /\ c[j] \in Nat
  BY <1>1 DEF ChunkLen, Cuts
<1>3. Payload(c, j) \in Seq(Nat) /\ Len(Payload(c, j)) = n
  BY <1>2 DEF Payload
<1>4. text \in Seq(Nat) /\ Len(text) = 2
  BY <1>2, LengthBytes
<1>5. 2 * (j - 1) \in Nat /\ 2 * (j - 1) + 1 \in Nat
  BY <1>1
<1> HIDE DEF n, text
<1>6. head \in Seq(WireByte) /\ Len(head) = 2 + TagSize
  BY <1>4, <1>5, Sealed
<1>7. body \in Seq(WireByte) /\ Len(body) = n + TagSize
  BY <1>3, <1>5, Sealed
<1>8. Chunk(c, j) = head \o body
  BY <1>3 DEF Chunk, AeadChunk, text
<1> HIDE DEF head, body
<1>9. /\ Chunk(c, j) \in Seq(WireByte) /\ Len(Chunk(c, j)) = Overhead + n
      /\ \A m \in 1 .. 2 + TagSize : Chunk(c, j)[m] = head[m]
      /\ \A m \in 1 .. n + TagSize : Chunk(c, j)[2 + TagSize + m] = body[m]
  <2>1. /\ head \o body \in Seq(WireByte) /\ Len(head \o body) = (2 + TagSize) + (n + TagSize)
        /\ \A i \in 1 .. (2 + TagSize) + (n + TagSize) :
             (head \o body)[i] = IF i <= 2 + TagSize THEN head[i] ELSE body[i - (2 + TagSize)]
    BY <1>6, <1>7, ConcatProperties
  <2>2. (2 + TagSize) + (n + TagSize) = Overhead + n
    BY <1>1, <1>2 DEF Overhead
  <2>3. \A m \in 1 .. 2 + TagSize : (head \o body)[m] = head[m]
    BY <1>1, <1>2, <2>1
  <2>4. ASSUME NEW m \in 1 .. n + TagSize
        PROVE  (head \o body)[2 + TagSize + m] = body[m]
    <3>1. /\ 2 + TagSize + m \in 1 .. (2 + TagSize) + (n + TagSize)
          /\ ~(2 + TagSize + m <= 2 + TagSize) /\ (2 + TagSize + m) - (2 + TagSize) = m
      BY <1>1, <1>2
    <3> QED BY <2>1, <3>1
  <2> QED BY <1>8, <2>1, <2>2, <2>3, <2>4
<1>10. SealedLen(c, j) = head /\ SealedBody(c, j) = body
  BY DEF n, text, head, body, SealedLen, SealedBody
<1> QED BY <1>2, <1>3, <1>9, <1>10 DEF n

(* The chunks lie one behind the other. *)
LEMMA StartNext ==
  ASSUME NEW c, Cuts(c), NEW j \in 1 .. Len(c) - 1
  PROVE  Start(c, j + 1) = Start(c, j) + Overhead + ChunkLen(c, j)
<1>1. j \in Nat /\ j \in 1 .. Len(c) /\ j + 1 \in 1 .. Len(c) /\ Overhead \in Nat /\ SaltSize \in Nat
  BY SMTT(60), StreamAssumption DEF Cuts, Overhead
<1>2. c[j] \in Nat /\ c[j + 1] \in Nat
  BY <1>1 DEF Cuts
<1>3. Overhead * ((j + 1) - 1) = Overhead * (j - 1) + Overhead /\ Overhead * (j - 1) \in Int
  BY <1>1
<1> QED BY <1>1, <1>2, <1>3 DEF Start, ChunkLen

LEMMA StartBehind ==
  ASSUME NEW c, Cuts(c), NEW i \in 1 .. Len(c), NEW j \in 1 .. Len(c), i < j
  PROVE  Start(c, i) + Overhead + ChunkLen(c, i) <= Start(c, j)
<1>1. i \in Nat /\ j \in Nat /\ i + 1 \in 1 .. Len(c) /\ Overhead \in Nat /\ SaltSize \in Nat
  <2>1. Overhead \in Nat /\ SaltSize \in Nat
    BY StreamAssumption DEF Overhead
  <2>2. Len(c) \in Nat
    BY LenProperties DEF Cuts
  <2> QED BY <2>1, <2>2
<1>2. c[i] \in Nat /\ c[i + 1] \in Nat /\ c[j] \in Nat /\ c[i + 1] <= c[j]
  BY SMTT(60), <1>1 DEF Cuts
<1>3. /\ Overhead * (i - 1) + Overhead <= Overhead * (j - 1)
      /\ Overhead * (i - 1) \in Int /\ Overhead * (j - 1) \in Int
  <2>1. PICK d \in Nat : j = i + 1 + d
    <3>1. j - i - 1 \in Nat
      BY <1>1
    <3> QED BY <1>1, <3>1
  <2>2. Overhead * (j - 1) = Overhead * (i - 1) + Overhead + Overhead * d /\ Overhead * d \in Nat
    BY <1>1, <2>1
  <2> QED BY <1>1, <2>2
<1> DEFINE a == Overhead * (i - 1)
           b == Overhead * (j - 1)
<1>4. /\ Start(c, i) = SaltSize + a + c[i] /\ Start(c, j) = SaltSize + b + c[j]
      /\ ChunkLen(c, i) = c[i + 1] - c[i]
  BY DEF Start, ChunkLen
<1>5. a + Overhead <= b /\ a \in Int /\ b \in Int
  BY <1>3
<1> HIDE DEF a, b
<1> QED BY SMTT(60), <1>1, <1>2, <1>4, <1>5

LEMMA StartType ==
  ASSUME NEW c, Cuts(c), NEW j \in 1 .. Len(c)
  PROVE  Start(c, j) \in Nat /\ Start(c, j) >= SaltSize /\ Start(c, 1) = SaltSize
<1>1. j - 1 \in Nat /\ Overhead \in Nat /\ SaltSize \in Nat /\ c[j] \in Nat /\ c[1] = 0
  BY SMTT(60), StreamAssumption DEF Cuts, Overhead
<1>2. Overhead * (j - 1) \in Nat /\ Overhead * (1 - 1) = 0
  BY <1>1
<1> QED BY <1>1, <1>2 DEF Start

(* What the arithmetic of places on the wire needs to know of a chunk. *)
LEMMA ChunkFacts ==
  ASSUME NEW c, Cuts(c), NEW j \in 1 .. Len(c) - 1
  PROVE  /\ Len(c) \in Nat /\ j \in Nat /\ j \in 1 .. Len(c) /\ j + 1 \in 1 .. Len(c) /\ Len(c) \in 1 .. Len(c)
         /\ Start(c, j) \in Nat /\ ChunkLen(c, j) \in Nat /\ ChunkLen(c, j) > 0
         /\ Overhead \in Nat /\ Start(c, Len(c)) \in Nat
         /\ Start(c, j) + Overhead + ChunkLen(c, j) <= Start(c, Len(c))
         /\ Chunk(c, j) \in Seq(WireByte) /\ Len(Chunk(c, j)) = Overhead + ChunkLen(c, j)
<1>1. Len(c) \in Nat /\ Overhead \in Nat
  BY LenProperties, StreamAssumption DEF Cuts, Overhead
<1>2. j \in Nat /\ j \in 1 .. Len(c) /\ j + 1 \in 1 .. Len(c) /\ j < Len(c) /\ Len(c) \in 1 .. Len(c)
  BY <1>1
<1>3. Start(c, j) \in Nat /\ Start(c, Len(c)) \in Nat
  BY <1>2, StartType
<1>4. Start(c, j) + Overhead + ChunkLen(c, j) <= Start(c, Len(c))
  BY <1>2, StartBehind
<1>5. ChunkLen(c, j) \in Nat /\ ChunkLen(c, j) > 0
  BY <1>1, <1>2 DEF ChunkLen, Cuts
<1>6. Chunk(c, j) \in Seq(WireByte) /\ Len(Chunk(c, j)) = Overhead + ChunkLen(c, j)
  BY ChunkShape
<1> QED BY <1>1, <1>2, <1>3, <1>4, <1>5, <1>6

-----------------------------------------------------------------------------
(* The wire *)

(* The reader takes bytes from the front. *)
LEMMA TakeFront ==
  ASSUME NEW category, NEW F \in Seq(WireByte), NEW G \in Seq(WireByte), NEW n \in Nat, NEW d \in Nat,
         NEW c, Cuts(c), NEW k \in Nat, Carries(category, F, n, c, k),
         Len(F) = d + Len(G), \A i \in 1 .. Len(G) : G[i] = F[d + i]
  PROVE  Carries(category, G, n + d, c, k)
<1>1. Len(G) \in Nat /\ SaltSize \in Nat /\ TagSize \in Nat /\ Overhead \in Nat
  BY LenProperties, StreamAssumption DEF Overhead
<1>2. CASE category = "aead"
  <2> SUFFICES ASSUME NEW j \in 1 .. Len(c) - 1, NEW m \in 1 .. Overhead + ChunkLen(c, j),
                      Start(c, j) + m - (n + d) \in 1 .. Len(G)
               PROVE  G[Start(c, j) + m - (n + d)] = Chunk(c, j)[m]
    BY <1>2 DEF Carries
  <2>1. j \in 1 .. Len(c) /\ Start(c, j) \in Nat /\ ChunkLen(c, j) \in Nat
    BY ChunkFacts
  <2>2. /\ Start(c, j) + m - n \in 1 .. Len(F)
        /\ d + (Start(c, j) + m - (n + d)) = Start(c, j) + m - n
    <3>1. m \in Nat
      BY SMTT(60), <1>1, <2>1
    <3>2. PICK a \in Nat : a = Start(c, j)
      BY <2>1
    <3>3. a + m - (n + d) \in 1 .. Len(G)
      BY <3>2
    <3>4. a + m - n \in 1 .. Len(F) /\ d + (a + m - (n + d)) = a + m - n
      BY <1>1, <3>1, <3>3
    <3> QED BY <3>2, <3>4
  <2>3. F[Start(c, j) + m - n] = Chunk(c, j)[m]
    BY <1>2, <2>2 DEF Carries
  <2> QED BY <2>2, <2>3
<1>3. CASE category # "aead"
  <2> SUFFICES ASSUME NEW q \in 1 .. k, SaltSize + q - (n + d) \in 1 .. Len(G)
               PROVE  G[SaltSize + q - (n + d)] = Byte(q, "data", q)
    BY <1>3 DEF Carries
  <2>1. /\ SaltSize + q - n \in 1 .. Len(F)
        /\ d + (SaltSize + q - (n + d)) = SaltSize + q - n
    BY <1>1
  <2>2. F[SaltSize + q - n] = Byte(q, "data", q)
    BY <1>3, <2>1 DEF Carries
  <2> QED BY <2>1, <2>2
<1> QED BY <1>2, <1>3

(* Bytes at the end are lost. *)
LEMMA LoseEnd ==
  ASSUME NEW category, NEW F \in Seq(WireByte), NEW G \in Seq(WireByte), NEW n \in Nat,
         NEW c, Cuts(c), NEW k \in Nat, Carries(category, F, n, c, k),
         Len(G) <= Len(F), \A i \in 1 .. Len(G) : G[i] = F[i]
  PROVE  Carries(category, G, n, c, k)
<1>1. \A i \in 1 .. Len(G) : i \in 1 .. Len(F)
  BY LenProperties
<1> QED BY <1>1 DEF Carries

(* The cuts up to a new last one are as they were. *)
LEMMA AppendCut ==
  ASSUME NEW c, Cuts(c), NEW x \in Nat, c[Len(c)] < x
  PROVE  /\ Cuts(Append(c, x)) /\ Len(Append(c, x)) = Len(c) + 1
         /\ Append(c, x)[Len(c) + 1] = x
         /\ \A j \in 1 .. Len(c) :
              Append(c, x)[j] = c[j] /\ Start(Append(c, x), j) = Start(c, j)
         /\ \A j \in 1 .. Len(c) - 1 :
              ChunkLen(Append(c, x), j) = ChunkLen(c, j) /\ Chunk(Append(c, x), j) = Chunk(c, j)
<1>1. c \in Seq(Nat) /\ Len(c) \in Nat
  BY LenProperties DEF Cuts
<1>2. /\ Append(c, x) \in Seq(Nat) /\ Len(Append(c, x)) = Len(c) + 1
      /\ \A j \in 1 .. Len(c) : Append(c, x)[j] = c[j]
      /\ Append(c, x)[Len(c) + 1] = x
  BY <1>1, AppendProperties
<1>3. \A j \in 1 .. Len(c) : c[j] \in Nat /\ c[j] <= c[Len(c)]
  BY <1>1 DEF Cuts
<1>4. Cuts(Append(c, x))
  <2> SUFFICES ASSUME NEW i \in 1 .. Len(c) + 1, NEW j \in 1 .. Len(c) + 1, i < j
               PROVE  Append(c, x)[i] < Append(c, x)[j]
    BY <1>1, <1>2 DEF Cuts
  <2>1. CASE j = Len(c) + 1
    BY <1>1, <1>2, <1>3, <2>1 DEF Cuts
  <2>2. CASE j # Len(c) + 1
    BY <1>1, <1>2, <2>2 DEF Cuts
  <2> QED BY <2>1, <2>2
<1>5. \A j \in 1 .. Len(c) : Start(Append(c, x), j) = Start(c, j)
  BY <1>2 DEF Start
<1>6. \A j \in 1 .. Len(c) - 1 :
        ChunkLen(Append(c, x), j) = ChunkLen(c, j) /\ Chunk(Append(c, x), j) = Chunk(c, j)
  <2> SUFFICES ASSUME NEW j \in 1 .. Len(c) - 1
               PROVE  ChunkLen(Append(c, x), j) = ChunkLen(c, j) /\ Chunk(Append(c, x), j) = Chunk(c, j)
    OBVIOUS
  <2>1. Append(c, x)[j] = c[j] /\ Append(c, x)[j + 1] = c[j + 1]
    BY <1>1, <1>2
  <2> QED BY <2>1 DEF ChunkLen, Chunk, Payload
<1> QED BY <1>2, <1>4, <1>5, <1>6

(* A chunk is added at the end. *)
LEMMA AddChunk ==
  ASSUME NEW F \in Seq(WireByte), NEW n \in Nat, NEW c, Cuts(c), NEW x \in Nat, c[Len(c)] < x,
         NEW k, NEW l, Carries("aead", F, n, c, k), n + Len(F) = Start(c, Len(c)),
         NEW new \in Seq(WireByte), new = Chunk(Append(c, x), Len(c))
  PROVE  Carries("aead", F \o new, n, Append(c, x), l)
<1> DEFINE C == Append(c, x)
           G == F \o new
<1>1. /\ Cuts(C) /\ Len(C) = Len(c) + 1 /\ Len(c) \in Nat /\ Len(c) \in 1 .. Len(c)
      /\ \A j \in 1 .. Len(c) : Start(C, j) = Start(c, j)
      /\ \A j \in 1 .. Len(c) - 1 : ChunkLen(C, j) = ChunkLen(c, j) /\ Chunk(C, j) = Chunk(c, j)
  <2>1. Len(c) \in Nat /\ Len(c) > 0
    BY LenProperties DEF Cuts
  <2> QED BY <2>1, AppendCut
<1>2. Len(c) \in 1 .. Len(C) - 1
  BY <1>1
<1>3. /\ ChunkLen(C, Len(c)) \in Nat /\ Len(new) = Overhead + ChunkLen(C, Len(c))
      /\ Overhead \in Nat /\ Len(F) \in Nat
  <2>1. Len(F) \in Nat
    BY LenProperties
  <2>2. ChunkLen(C, Len(c)) \in Nat /\ Overhead \in Nat
    BY <1>1, <1>2, ChunkFacts
  <2>3. Len(Chunk(C, Len(c))) = Overhead + ChunkLen(C, Len(c))
    BY <1>1, <1>2, ChunkFacts
  <2> QED BY <2>1, <2>2, <2>3
<1>4. /\ G \in Seq(WireByte) /\ Len(G) = Len(F) + Len(new)
      /\ \A i \in 1 .. Len(F) + Len(new) : G[i] = IF i <= Len(F) THEN F[i] ELSE new[i - Len(F)]
  BY ConcatProperties
<1> HIDE DEF C, G
<1> SUFFICES ASSUME NEW j \in 1 .. Len(C) - 1, NEW m \in 1 .. Overhead + ChunkLen(C, j),
                    Start(C, j) + m - n \in 1 .. Len(G)
             PROVE  G[Start(C, j) + m - n] = Chunk(C, j)[m]
  BY DEF Carries, C, G
<1>5. CASE j = Len(c)
  <2>1. Start(C, j) + m - n = Len(F) + m
    BY <1>1, <1>3, <1>5, StartType
  <2>2. Len(F) + m \in 1 .. Len(F) + Len(new) /\ ~(Len(F) + m <= Len(F)) /\ (Len(F) + m) - Len(F) = m
    BY SMTT(60), <1>3, <1>5
  <2> QED BY <1>4, <1>5, <2>1, <2>2 DEF C
<1>6. CASE j # Len(c)
  <2>1. j \in 1 .. Len(c) - 1 /\ j \in 1 .. Len(c) /\ j < Len(c)
    BY <1>1, <1>6
  <2>2. /\ Start(c, j) \in Nat /\ Start(c, Len(c)) \in Nat /\ ChunkLen(c, j) \in Nat
        /\ Start(c, j) + Overhead + ChunkLen(c, j) <= Start(c, Len(c))
    BY <2>1, ChunkFacts
  <2>3. Start(C, j) = Start(c, j) /\ ChunkLen(C, j) = ChunkLen(c, j) /\ Chunk(C, j) = Chunk(c, j)
    BY <1>1, <2>1
  <2>4. Start(c, j) + m - n \in 1 .. Len(F)
    <3>1. m \in Nat /\ m <= Overhead + ChunkLen(c, j)
      BY <1>3, <2>2, <2>3
    <3>2. PICK a \in Nat, b \in Nat, w \in Nat : a = Start(c, j) /\ b = Start(c, Len(c)) /\ w = ChunkLen(c, j)
      BY <2>2
    <3>3. a + m - n \in 1 .. Len(G) /\ n + Len(F) = b /\ a + Overhead + w <= b /\ m <= Overhead + w
      BY <2>2, <2>3, <3>1, <3>2
    <3>4. a + m - n \in 1 .. Len(F)
      <4>1. Len(G) \in Nat /\ Len(F) \in Nat /\ Overhead \in Nat /\ m \in Nat
        BY <1>3, <1>4, <3>1, LenProperties
      <4>2. a + m <= n + Len(F)
        BY <3>3, <4>1
      <4>3. a + m - n \in Int /\ a + m - n >= 1
        BY <3>3, <4>1
      <4> QED BY <4>1, <4>2, <4>3
    <3> QED BY <3>2, <3>4
  <2>5. F[Start(c, j) + m - n] = Chunk(c, j)[m]
    BY <2>1, <2>3, <2>4 DEF Carries
  <2>6. G[Start(c, j) + m - n] = F[Start(c, j) + m - n]
    <3>1. Len(new) \in Nat
      BY LenProperties
    <3>2. Start(c, j) + m - n \in 1 .. Len(F) + Len(new) /\ Start(c, j) + m - n <= Len(F)
      BY SMTT(60), <1>3, <2>4, <3>1
    <3> QED BY <1>4, <3>2
  <2> QED BY <2>3, <2>5, <2>6
<1> QED BY <1>5, <1>6

(* Bytes of a stream cipher are added at the end. *)
LEMMA AddBytes ==
  ASSUME NEW F \in Seq(WireByte), NEW n \in Nat, NEW k \in Nat, NEW d \in Nat, NEW c, NEW e,
         Carries("stream", F, n, c, k), n + Len(F) = SaltSize + k,
         NEW new \in Seq(WireByte), Len(new) = d,
         \A i \in 1 .. d : new[i] = Byte(k + i, "data", k + i)
  PROVE  Carries("stream", F \o new, n, e, k + d)
<1> DEFINE G == F \o new
<1>1. SaltSize \in Nat /\ Len(F) \in Nat
  BY StreamAssumption, LenProperties
<1>2. /\ Len(G) = Len(F) + d
      /\ \A i \in 1 .. Len(F) + d : G[i] = IF i <= Len(F) THEN F[i] ELSE new[i - Len(F)]
  BY ConcatProperties
<1> HIDE DEF G
<1> SUFFICES ASSUME NEW q \in 1 .. k + d, SaltSize + q - n \in 1 .. Len(G)
             PROVE  G[SaltSize + q - n] = Byte(q, "data", q)
  BY DEF Carries, G
<1>3. CASE q <= k
  <2>1. q \in 1 .. k /\ SaltSize + q - n \in 1 .. Len(F)
    BY <1>1, <1>2, <1>3
  <2>2. F[SaltSize + q - n] = Byte(q, "data", q)
    BY <2>1 DEF Carries
  <2>3. SaltSize + q - n \in 1 .. Len(F) + d /\ SaltSize + q - n <= Len(F)
    BY <1>1, <2>1
  <2> QED BY <1>2, <2>2, <2>3
<1>4. CASE q > k
  <2>1. /\ q - k \in 1 .. d /\ k + (q - k) = q
        /\ ~(SaltSize + q - n <= Len(F)) /\ (SaltSize + q - n) - Len(F) = q - k
    BY <1>1, <1>4
  <2> QED BY <1>2, <2>1
<1> QED BY <1>3, <1>4

-----------------------------------------------------------------------------
(* Preservation of the invariant *)

LEMMA ThreeParts ==
  ASSUME NEW a \in Seq(WireByte), NEW b \in Seq(WireByte), NEW c \in Seq(WireByte)
  PROVE  /\ a \o (b \o c) \in Seq(WireByte) /\ Len(a \o (b \o c)) \in Nat
         /\ Len(a) \in Nat /\ Len(b) \in Nat /\ Len(c) \in Nat
         /\ Len(a \o (b \o c)) = Len(a) + (Len(b) + Len(c))
         /\ a \o (b \o c) = (a \o b) \o c
<1>1. b \o c \in Seq(WireByte) /\ Len(b \o c) = Len(b) + Len(c)
  BY ConcatProperties
<1>2. a \o (b \o c) \in Seq(WireByte) /\ Len(a \o (b \o c)) = Len(a) + Len(b \o c)
  BY <1>1, ConcatProperties
<1> QED BY SMTT(60), <1>1, <1>2, LenProperties, ConcatAssociative

(* The bytes in flight, before a step and after it. *)
LEMMA FlightOK ==
  ASSUME TypeOK
  PROVE  /\ Flight \in Seq(WireByte) /\ Len(Flight) \in Nat
         /\ Len(rd.got) \in Nat /\ Len(pipe) \in Nat /\ Len(wr.out) \in Nat
         /\ Len(Flight) = Len(rd.got) + (Len(pipe) + Len(wr.out))
<1>1. rd.got \in Seq(WireByte) /\ pipe \in Seq(WireByte) /\ wr.out \in Seq(WireByte)
  BY DEF TypeOK
<1> QED BY <1>1, ThreeParts DEF Flight

LEMMA FlightOKAfter ==
  ASSUME TypeOK'
  PROVE  /\ Flight' \in Seq(WireByte) /\ Len(Flight') \in Nat
         /\ Len(rd'.got) \in Nat /\ Len(pipe') \in Nat /\ Len(wr'.out) \in Nat
         /\ Len(Flight') = Len(rd'.got) + (Len(pipe') + Len(wr'.out))
<1>1. rd'.got \in Seq(WireByte) /\ pipe' \in Seq(WireByte) /\ wr'.out \in Seq(WireByte)
  BY DEF TypeOK
<1> QED BY <1>1, ThreeParts DEF Flight

(* A reader that is left alone is where it was, also when a chunk is added *)
(* behind those there are.                                                 *)
LEMMA ConsumedKept ==
  ASSUME NEW n \in Nat, Consumed(n), UNCHANGED <<cipher, rd, received>>, Len(cuts) \in Nat, Len(cuts') \in Nat,
         Len(cuts) <= Len(cuts'), \A j \in 1 .. Len(cuts) : cuts'[j] = cuts[j]
  PROVE  Consumed(n)'
<1>1. \A j \in 1 .. Len(cuts) : j \in 1 .. Len(cuts') /\ Start(cuts', j) = Start(cuts, j)
  BY DEF Start
<1>2. \A j \in 1 .. Len(cuts) - 1 :
        /\ j \in 1 .. Len(cuts') - 1 /\ j \in 1 .. Len(cuts) /\ ChunkLen(cuts', j) = ChunkLen(cuts, j)
  BY DEF ChunkLen
<1>3. CASE rd.st \in {"iv", "read"}
  BY <1>3 DEF Consumed
<1>4. CASE rd.st = "len"
  <2>1. PICK j \in 1 .. Len(cuts) :
          n = Start(cuts, j) /\ rd.ctr = 2 * (j - 1) /\ Len(received) = cuts[j]
    BY <1>4 DEF Consumed
  <2>2. /\ j \in 1 .. Len(cuts') /\ n = Start(cuts', j) /\ rd'.ctr = 2 * (j - 1)
        /\ Len(received') = cuts'[j]
    BY <1>1, <2>1
  <2> QED BY <1>4, <2>2 DEF Consumed
<1>5. CASE rd.st = "body"
  <2>1. PICK j \in 1 .. Len(cuts) - 1 :
          /\ n = Start(cuts, j) + 2 + TagSize /\ rd.ctr = 2 * (j - 1) + 1
          /\ Len(received) = cuts[j] /\ rd.len = ChunkLen(cuts, j)
    BY <1>5 DEF Consumed
  <2>2. /\ j \in 1 .. Len(cuts') - 1 /\ n = Start(cuts', j) + 2 + TagSize /\ rd'.ctr = 2 * (j - 1) + 1
        /\ Len(received') = cuts'[j] /\ rd'.len = ChunkLen(cuts', j)
    BY <1>1, <1>2, <2>1
  <2> QED BY <1>5, <2>2 DEF Consumed
<1> QED BY <1>3, <1>4, <1>5 DEF Consumed

(* What the conjuncts that are not about the wire say is kept when nothing *)
(* they mention changes.                                                   *)
LEMMA PayloadKept ==
  ASSUME IInv, UNCHANGED <<cipher, sent, received, cuts>>
  PROVE  Numbered' /\ CutUp' /\ ChunksWhole'
BY DEF IInv, Numbered, CutUp, ChunksWhole

LEMMA InitOK == Init => IInv
<1> SUFFICES ASSUME Init PROVE IInv
  OBVIOUS
<1> USE DEF Init
<1>0. <<>> \in Seq(WireByte) /\ <<>> \in Seq(Nat) /\ <<0>> \in Seq(Nat) /\ Len(<<0>>) = 1 /\ Len(<<>>) = 0
  BY EmptySeq
<1>1. TypeOK
  <2>1. wr \in [st : {"new", "ready", "writing"} \cup WriterEnd, ctr : Nat, out : Seq(WireByte), buf : Nat]
    BY <1>0, StreamAssumption
  <2>2. rd \in [st : Reading \cup ReaderEnd, ctr : Nat, got : Seq(WireByte), len : Nat]
    BY <1>0 DEF Reading
  <2> QED BY <1>0, <2>1, <2>2 DEF TypeOK
<1>2. Numbered
  BY <1>0 DEF Numbered
<1>3. CutUp
  BY <1>0 DEF CutUp, Cuts
<1>4. WriterKnown
  BY <1>0 DEF WriterKnown
<1>5. InStep
  <2>1. Consumed(0)
    BY <1>0, StreamAssumption DEF Consumed
  <2>2. Len(Flight) = 0
    BY <1>0, <1>1, FlightOK
  <2>3. Extent(0)
    BY <2>2 DEF Extent, Total
  <2>4. Content(0)
    BY <1>0, <2>2 DEF Content, Carries
  <2> QED BY <2>1, <2>3, <2>4 DEF InStep
<1>6. ChunksWhole
  BY <1>0 DEF ChunksWhole
<1>7. EndedBy
  BY DEF EndedBy, Decrypts
<1> QED BY <1>1, <1>2, <1>3, <1>4, <1>5, <1>6, <1>7 DEF IInv

LEMMA SendIvOK == IInv /\ SendIv => IInv'
<1> SUFFICES ASSUME IInv, SendIv PROVE IInv'
  OBVIOUS
<1> USE DEF IInv
<1> DEFINE iv == [i \in 1 .. SaltSize |-> Byte(0, "iv", i)]
<1>1. /\ UNCHANGED <<cipher, pipe, rd, sent, received, cuts>> /\ wr.st = "new"
      /\ wr' = [wr EXCEPT !.st = "writing", !.out = iv]
  BY DEF SendIv
<1>2. iv \in Seq(WireByte) /\ Len(iv) = SaltSize /\ SaltSize \in Nat
  <2>1. SaltSize \in Nat
    BY StreamAssumption
  <2> QED BY <2>1 DEF Byte, WireByte
<1> HIDE DEF iv
<1>3. /\ TypeOK' /\ wr'.st = "writing" /\ wr'.out = iv /\ wr'.ctr = wr.ctr
  BY <1>1, <1>2 DEF TypeOK
<1>4. Numbered' /\ CutUp' /\ ChunksWhole'
  BY <1>1, PayloadKept
<1>5. WriterKnown' /\ EndedBy'
  BY <1>1, <1>3 DEF WriterKnown, EndedBy, Decrypts, WriterGone
<1>6. InStep'
  <2> SUFFICES ASSUME rd.st \in Reading PROVE \E n \in Nat : (Consumed(n) /\ Extent(n) /\ Content(n))'
    BY <1>1 DEF InStep
  <2>1. PICK n \in Nat : Consumed(n) /\ Extent(n)
    BY DEF InStep
  <2>2. n + Len(Flight) = 0 /\ Len(sent) = 0 /\ Len(cuts) = 1
    BY <1>1, <2>1 DEF Extent, Total, WriterKnown
  <2>3. n = 0 /\ Len(rd.got) = 0 /\ Len(pipe) = 0
    <3>1. TypeOK
      OBVIOUS
    <3>2. /\ Len(Flight) \in Nat /\ Len(rd.got) \in Nat /\ Len(pipe) \in Nat /\ Len(wr.out) \in Nat
          /\ Len(Flight) = Len(rd.got) + (Len(pipe) + Len(wr.out))
      BY <3>1, FlightOK
    <3>3. PICK f \in Nat, g \in Nat, p \in Nat, o \in Nat :
            f = Len(Flight) /\ g = Len(rd.got) /\ p = Len(pipe) /\ o = Len(wr.out)
      BY <3>2
    <3>4. n + f = 0 /\ f = g + (p + o)
      BY <2>2, <3>2, <3>3
    <3>5. n = 0 /\ g = 0 /\ p = 0
      BY <3>4
    <3> QED BY <3>3, <3>5
  <2>4. Len(Flight') = SaltSize
    <3>1. Len(Flight') = Len(rd'.got) + (Len(pipe') + Len(wr'.out))
      BY <1>3, FlightOKAfter
    <3> QED BY <1>1, <1>2, <1>3, <2>3, <3>1
  <2>5. Consumed(n)'
    BY <1>1, <2>1, <2>2, ConsumedKept
  <2>6. Total' = SaltSize
    <3>1. Cuts(cuts) /\ 1 \in 1 .. Len(cuts)
      BY <2>2 DEF CutUp
    <3>2. Start(cuts, 1) = SaltSize
      BY <3>1, StartType
    <3> QED BY <1>1, <1>2, <1>3, <2>2, <3>2 DEF Total
  <2>7. Extent(n)'
    BY <1>2, <2>3, <2>4, <2>6 DEF Extent
  <2>8. Content(n)'
    BY <1>1, <2>2 DEF Content, Carries
  <2> QED BY <2>5, <2>7, <2>8
<1> QED BY <1>3, <1>4, <1>5, <1>6

(* The writer moves or loses bytes, or ends: nothing is sent. *)
LEMMA WriterStep ==
  ASSUME IInv, TypeOK', UNCHANGED <<cipher, rd, sent, received, cuts>>,
         wr.st # "new", wr'.st # "new", wr'.ctr = wr.ctr, wr'.st # "writing" => wr'.out = <<>>,
         wr.st = "failed" => wr'.st = "failed", WriterGone => WriterGone',
         Len(Flight') <= Len(Flight), wr'.st # "failed" => Flight' = Flight,
         \A i \in 1 .. Len(Flight') : Flight'[i] = Flight[i]
  PROVE  IInv'
<1> USE DEF IInv
<1>1. Numbered' /\ CutUp' /\ ChunksWhole'
  BY PayloadKept
<1>2. WriterKnown' /\ EndedBy'
  BY DEF WriterKnown, EndedBy, Decrypts
<1>3. InStep'
  <2> SUFFICES ASSUME rd.st \in Reading PROVE \E n \in Nat : (Consumed(n) /\ Extent(n) /\ Content(n))'
    BY DEF InStep
  <2>1. PICK n \in Nat : Consumed(n) /\ Extent(n) /\ Content(n)
    BY DEF InStep
  <2>2. Len(cuts) \in Nat /\ Len(sent) \in Nat
    BY LenProperties DEF TypeOK
  <2>3. Consumed(n)'
    BY <2>1, <2>2, ConsumedKept
  <2>4. Total' = Total
    BY DEF Total
  <2>5. Flight \in Seq(WireByte) /\ Flight' \in Seq(WireByte) /\ Len(Flight) \in Nat /\ Len(Flight') \in Nat
    <3>1. TypeOK /\ TypeOK'
      OBVIOUS
    <3> QED BY <3>1, FlightOK, FlightOKAfter
  <2>6. Total \in Nat
    <3>1. Len(cuts) \in 1 .. Len(cuts)
      BY <2>2 DEF CutUp, Cuts
    <3>2. Start(cuts, Len(cuts)) \in Nat /\ SaltSize \in Nat
      BY <3>1, StartType, StreamAssumption DEF CutUp
    <3> QED BY <2>2, <3>2 DEF Total
  <2>7. Extent(n)'
    BY <2>1, <2>4, <2>5, <2>6 DEF Extent
  <2>8. Content(n)'
    <3>1. Carries(cipher, Flight', n, cuts, Len(sent))
      BY <2>1, <2>2, <2>5, LoseEnd DEF Content, CutUp
    <3> QED BY <3>1 DEF Content
  <2> QED BY <2>3, <2>7, <2>8
<1> QED BY <1>1, <1>2, <1>3

LEMMA FlushOK ==
  ASSUME IInv, NEW k \in 1 .. PipeCap, Flush(k)
  PROVE  IInv'
<1>1. /\ UNCHANGED <<cipher, rd, sent, received, cuts>> /\ wr.st = "writing"
      /\ pipe' = pipe \o SubSeq(wr.out, 1, k) /\ k <= Len(wr.out)
      /\ wr' = [wr EXCEPT !.out = SubSeq(wr.out, k + 1, Len(wr.out)),
                          !.st = IF k = Len(wr.out) THEN "ready" ELSE "writing"]
  BY DEF Flush
<1>2. TypeOK /\ rd.got \in Seq(WireByte) /\ pipe \in Seq(WireByte) /\ wr.out \in Seq(WireByte)
  BY DEF IInv, TypeOK
<1>3. k \in 0 .. Len(wr.out) /\ k \in Nat /\ Len(wr.out) \in Nat
  <2>1. Len(wr.out) \in Nat /\ PipeCap \in Nat
    BY <1>2, LenProperties, StreamAssumption
  <2> QED BY <1>1, <2>1
<1> DEFINE p == SubSeq(wr.out, 1, k)
           q == SubSeq(wr.out, k + 1, Len(wr.out))
<1>4. /\ p \in Seq(WireByte) /\ q \in Seq(WireByte) /\ Len(q) = Len(wr.out) - k
      /\ (pipe \o p) \o q = pipe \o wr.out
  <2>1. PICK o \in Seq(WireByte) : o = wr.out
    BY <1>2
  <2>2. k \in 0 .. Len(o)
    BY <1>3, <2>1
  <2>3. PICK a \in Seq(WireByte) : a = pipe
    BY <1>2
  <2>4. /\ SubSeq(o, 1, k) \in Seq(WireByte) /\ Len(SubSeq(o, 1, k)) = k
        /\ SubSeq(o, k + 1, Len(o)) \in Seq(WireByte) /\ Len(SubSeq(o, k + 1, Len(o))) = Len(o) - k
        /\ (a \o SubSeq(o, 1, k)) \o SubSeq(o, k + 1, Len(o)) = a \o o
    BY <2>2, MoveBytes
  <2> QED BY <2>1, <2>3, <2>4
<1> HIDE DEF p, q
<1>5. pipe \o p \in Seq(WireByte)
  BY <1>2, <1>4, ConcatProperties
<1>6. /\ wr'.out = q /\ wr'.ctr = wr.ctr /\ wr'.st \in {"ready", "writing"}
      /\ wr'.st # "writing" => k = Len(wr.out)
      /\ wr' \in [st : {"new", "ready", "writing"} \cup WriterEnd, ctr : Nat, out : Seq(WireByte), buf : Nat]
  BY <1>1, <1>2, <1>4 DEF TypeOK, q
<1>7. TypeOK'
  BY <1>1, <1>2, <1>5, <1>6 DEF TypeOK, p
<1>8. wr'.st # "writing" => wr'.out = <<>>
  BY <1>3, <1>4, <1>6, EmptySeq
<1>9. Flight' = Flight
  BY <1>1, <1>4, <1>6 DEF Flight, p
<1>10. Len(Flight) \in Nat
  BY <1>2, FlightOK
<1> QED BY <1>1, <1>6, <1>7, <1>8, <1>9, <1>10, WriterStep DEF WriterGone

LEMMA WriteTimeoutOK ==
  ASSUME IInv, WriteTimeout
  PROVE  IInv'
<1>1. /\ UNCHANGED <<cipher, pipe, rd, sent, received, cuts>> /\ wr.st = "writing"
      /\ wr' = [wr EXCEPT !.st = "failed", !.out = <<>>]
  BY DEF WriteTimeout
<1>2. TypeOK /\ rd.got \in Seq(WireByte) /\ pipe \in Seq(WireByte) /\ wr.out \in Seq(WireByte)
  BY DEF IInv, TypeOK
<1>3. wr'.st = "failed" /\ wr'.out = <<>> /\ wr'.ctr = wr.ctr /\ <<>> \in Seq(WireByte)
  BY <1>1, <1>2, EmptySeq DEF TypeOK
<1>4. TypeOK'
  BY <1>1, <1>2, <1>3 DEF TypeOK, WriterEnd
<1>5. Flight' = rd.got \o pipe /\ Flight = (rd.got \o pipe) \o wr.out
  <2>1. pipe \o <<>> = pipe
    BY <1>2, ConcatEmptySeq
  <2>2. Flight' = rd.got \o (pipe \o <<>>)
    BY <1>1, <1>3 DEF Flight
  <2>3. rd.got \o (pipe \o wr.out) = (rd.got \o pipe) \o wr.out
    BY <1>2, ThreeParts
  <2> QED BY <2>1, <2>2, <2>3 DEF Flight
<1>6. Len(Flight') <= Len(Flight) /\ \A i \in 1 .. Len(Flight') : Flight'[i] = Flight[i]
  <2>1. rd.got \o pipe \in Seq(WireByte)
    BY <1>2, ConcatProperties
  <2> DEFINE F == rd.got \o pipe
             o == wr.out
  <2>2. F \in Seq(WireByte) /\ o \in Seq(WireByte)
    BY <1>2, <2>1
  <2> HIDE DEF F, o
  <2>3. /\ Len(F \o o) = Len(F) + Len(o) /\ Len(F) \in Nat /\ Len(o) \in Nat
        /\ \A i \in 1 .. Len(F) + Len(o) : (F \o o)[i] = IF i <= Len(F) THEN F[i] ELSE o[i - Len(F)]
    BY <2>2, ConcatProperties, LenProperties
  <2>4. Len(F) <= Len(F \o o) /\ \A i \in 1 .. Len(F) : (F \o o)[i] = F[i]
    BY <2>3
  <2> QED BY <1>5, <2>4 DEF F, o
<1> QED BY <1>1, <1>3, <1>4, <1>6, WriterStep DEF WriterGone

LEMMA CloseOK ==
  ASSUME IInv, Close
  PROVE  IInv'
<1>1. /\ UNCHANGED <<cipher, pipe, rd, sent, received, cuts>> /\ wr.st = "ready"
      /\ wr' = [wr EXCEPT !.st = "closed"]
  BY DEF Close
<1>2. TypeOK /\ wr.out = <<>>
  BY <1>1 DEF IInv, WriterKnown
<1>3. wr'.st = "closed" /\ wr'.out = wr.out /\ wr'.ctr = wr.ctr
  BY <1>1, <1>2 DEF TypeOK
<1>4. TypeOK'
  BY <1>1, <1>2 DEF TypeOK, WriterEnd
<1>5. Flight' = Flight
  BY <1>1, <1>3 DEF Flight
<1>6. Len(Flight) \in Nat
  BY <1>2, FlightOK
<1> QED BY <1>1, <1>2, <1>3, <1>4, <1>5, <1>6, WriterStep DEF WriterGone

(* The reader ends. *)
LEMMA ReaderEnds ==
  ASSUME IInv, UNCHANGED <<cipher, wr, sent, received, cuts>>, pipe' \in Seq(WireByte),
         NEW s \in ReaderEnd \ {"decrypt_failed"}, rd' = [rd EXCEPT !.st = s],
         s \in {"eof", "unexpected_eof"} => WriterGone
  PROVE  IInv'
<1>1. TypeOK
  BY DEF IInv
<1>2. rd'.st = s /\ TypeOK'
  BY <1>1 DEF TypeOK
<1>3. Numbered' /\ CutUp' /\ ChunksWhole'
  BY PayloadKept
<1>4. WriterKnown'
  BY DEF IInv, WriterKnown
<1>5. InStep'
  BY <1>2 DEF InStep, Reading, ReaderEnd
<1>6. EndedBy'
  BY <1>2 DEF EndedBy, Decrypts, WriterGone
<1> QED BY <1>2, <1>3, <1>4, <1>5, <1>6 DEF IInv

LEMMA ReadEofOK ==
  ASSUME IInv, ReadEof
  PROVE  IInv'
<1>1. PICK s \in {"eof", "unexpected_eof"} : rd' = [rd EXCEPT !.st = s]
  BY DEF ReadEof
<1>2. pipe' \in Seq(WireByte)
  BY DEF ReadEof, IInv, TypeOK
<1>3. s \in ReaderEnd \ {"decrypt_failed"}
  BY DEF ReaderEnd
<1> QED BY <1>1, <1>2, <1>3, ReaderEnds DEF ReadEof

LEMMA ReadTimeoutOK ==
  ASSUME IInv, ReadTimeout
  PROVE  IInv'
<1>1. pipe' \in Seq(WireByte)
  BY DEF ReadTimeout, IInv, TypeOK
<1>2. "timed_out" \in ReaderEnd \ {"decrypt_failed"}
  BY DEF ReaderEnd
<1> QED BY <1>1, <1>2, ReaderEnds DEF ReadTimeout

LEMMA ConnectionResetOK ==
  ASSUME IInv, ConnectionReset
  PROVE  IInv'
<1>1. pipe' \in Seq(WireByte)
  BY EmptySeq DEF ConnectionReset
<1>2. "reset" \in ReaderEnd \ {"decrypt_failed"}
  BY DEF ReaderEnd
<1> QED BY <1>1, <1>2, ReaderEnds DEF ConnectionReset

(* Bytes of payload are numbered on. *)
LEMMA NumberedOn ==
  ASSUME NEW s \in Seq(Nat), \A i \in 1 .. Len(s) : s[i] = i, NEW n \in Nat,
         NEW data, data = [i \in 1 .. n |-> Len(s) + i]
  PROVE  /\ data \in Seq(Nat) /\ Len(data) = n
         /\ s \o data \in Seq(Nat) /\ Len(s \o data) = Len(s) + n /\ Len(s) \in Nat
         /\ \A i \in 1 .. Len(s) + n : (s \o data)[i] = i
<1>1. Len(s) \in Nat
  BY LenProperties
<1>2. data \in Seq(Nat) /\ Len(data) = n /\ \A i \in 1 .. n : data[i] = Len(s) + i
  BY <1>1
<1>3. /\ s \o data \in Seq(Nat) /\ Len(s \o data) = Len(s) + n
      /\ \A i \in 1 .. Len(s) + n : (s \o data)[i] = IF i <= Len(s) THEN s[i] ELSE data[i - Len(s)]
  BY <1>2, ConcatProperties
<1>4. ASSUME NEW i \in 1 .. Len(s) + n
      PROVE  (s \o data)[i] = i
  <2>1. CASE i <= Len(s)
    BY <1>1, <1>3, <2>1
  <2>2. CASE i > Len(s)
    <3>1. i - Len(s) \in 1 .. n /\ ~(i <= Len(s)) /\ Len(s) + (i - Len(s)) = i
      BY <1>1, <2>2
    <3> QED BY <1>2, <1>3, <3>1
  <2> QED BY <1>1, <2>1, <2>2
<1> QED BY <1>1, <1>2, <1>3, <1>4

(* What a send that fits puts on the wire, for either category. *)
Sends(n, data, new) ==
  /\ wr.st = "ready" /\ UNCHANGED <<cipher, pipe, rd, received>>
  /\ data = [i \in 1 .. n |-> Len(sent) + i]
  /\ sent' = sent \o data /\ cuts' = Append(cuts, Len(sent'))
  /\ new = IF cipher = "aead" THEN AeadChunk(data, wr.ctr) ELSE StreamEncrypt(data, wr.ctr)
  /\ wr' = [wr EXCEPT !.st = "writing", !.ctr = wr.ctr + (IF cipher = "aead" THEN 2 ELSE n), !.out = new]

LEMMA SendAllFits ==
  ASSUME IInv, NEW n \in Nat, n > 0, NEW data, NEW new \in Seq(WireByte), Sends(n, data, new)
  PROVE  IInv'
<1>0. wr.st = "ready" /\ UNCHANGED <<cipher, pipe, rd, received>>
  BY DEF Sends
<1>1. TypeOK /\ Numbered /\ CutUp /\ WriterKnown /\ InStep /\ ChunksWhole /\ EndedBy
  BY DEF IInv
<1>2. /\ data \in Seq(Nat) /\ Len(data) = n /\ sent' \in Seq(Nat)
      /\ Len(sent') = Len(sent) + n /\ Len(sent) \in Nat /\ Len(sent') \in Nat
      /\ \A i \in 1 .. Len(sent') : sent'[i] = i
  <2>1. sent \in Seq(Nat) /\ \A i \in 1 .. Len(sent) : sent[i] = i
    BY <1>1 DEF TypeOK, Numbered
  <2>2. data = [i \in 1 .. n |-> Len(sent) + i] /\ sent' = sent \o data
    BY DEF Sends
  <2>3. /\ data \in Seq(Nat) /\ Len(data) = n
        /\ sent \o data \in Seq(Nat) /\ Len(sent \o data) = Len(sent) + n /\ Len(sent) \in Nat
        /\ \A i \in 1 .. Len(sent) + n : (sent \o data)[i] = i
    BY <2>1, <2>2, NumberedOn
  <2>4. Len(sent) + n \in Nat
    BY <2>3
  <2> QED BY <2>2, <2>3, <2>4
<1>3. /\ Cuts(cuts') /\ Len(cuts') = Len(cuts) + 1 /\ cuts'[Len(cuts) + 1] = Len(sent')
      /\ \A j \in 1 .. Len(cuts) : cuts'[j] = cuts[j] /\ Start(cuts', j) = Start(cuts, j)
  <2>1. Cuts(cuts) /\ cuts[Len(cuts)] < Len(sent')
    BY <1>1, <1>2 DEF CutUp
  <2>2. cuts' = Append(cuts, Len(sent'))
    BY DEF Sends
  <2> QED BY <1>2, <2>1, <2>2, AppendCut
<1>4. /\ Cuts(cuts) /\ Len(cuts) \in Nat /\ Len(cuts) > 0 /\ cuts' \in Seq(Nat)
      /\ cuts[Len(cuts)] = Len(sent) /\ Len(cuts) \in 1 .. Len(cuts) /\ Len(cuts) \in 1 .. Len(cuts') - 1
  <2>1. Cuts(cuts) /\ Len(cuts) \in Nat /\ Len(cuts) > 0 /\ cuts' \in Seq(Nat) /\ cuts[Len(cuts)] = Len(sent)
    BY <1>1, <1>3, LenProperties DEF CutUp, Cuts
  <2> QED BY <1>3, <2>1
<1>5. /\ wr'.st = "writing" /\ wr'.out = new /\ wr'.ctr = wr.ctr + (IF cipher = "aead" THEN 2 ELSE n)
      /\ wr.ctr \in Nat /\ wr.out = <<>>
  BY <1>0, <1>1 DEF TypeOK, WriterKnown, Sends
<1>6. TypeOK'
  <2>1. wr' \in [st : {"new", "ready", "writing"} \cup WriterEnd, ctr : Nat, out : Seq(WireByte), buf : Nat]
    <3>1. PICK d \in Nat : d = wr.ctr + (IF cipher = "aead" THEN 2 ELSE n)
      BY <1>5
    <3>2. wr' = [wr EXCEPT !.st = "writing", !.ctr = d, !.out = new]
      BY <3>1 DEF Sends
    <3> QED BY <1>1, <3>2 DEF TypeOK
  <2> QED BY <1>0, <1>1, <1>2, <1>4, <2>1 DEF TypeOK
<1>7. Numbered'
  <2>1. Len(received) \in Nat
    BY <1>1, LenProperties DEF TypeOK
  <2> QED BY <1>0, <1>1, <1>2, <2>1 DEF Numbered
<1>8. CutUp'
  BY <1>3 DEF CutUp
<1>9. WriterKnown'
  <2>1. wr.ctr = IF cipher = "aead" THEN 2 * (Len(cuts) - 1) ELSE Len(sent)
    BY <1>1 DEF WriterKnown
  <2>2. wr'.ctr = IF cipher' = "aead" THEN 2 * (Len(cuts') - 1) ELSE Len(sent')
    BY <1>0, <1>2, <1>3, <1>4, <1>5, <2>1
  <2> QED BY <1>5, <2>2 DEF WriterKnown
<1>10. ChunksWhole' /\ EndedBy'
  <2>1. ~WriterGone
    BY <1>0 DEF WriterGone
  <2>2. \A j \in 1 .. Len(cuts) : j \in 1 .. Len(cuts') /\ cuts'[j] = cuts[j]
    BY <1>3, <1>4
  <2>3. ChunksWhole'
    BY <1>0, <1>1, <2>2 DEF ChunksWhole
  <2>4. EndedBy'
    BY <1>0, <1>1, <2>1 DEF EndedBy, Decrypts
  <2> QED BY <2>3, <2>4
<1>11. InStep'
  <2> SUFFICES ASSUME rd.st \in Reading PROVE \E m \in Nat : (Consumed(m) /\ Extent(m) /\ Content(m))'
    BY <1>0 DEF InStep
  <2>1. PICK m \in Nat : Consumed(m) /\ Extent(m) /\ Content(m)
    BY <1>1 DEF InStep
  <2>2. Consumed(m)'
    <3>1. \A j \in 1 .. Len(cuts) : cuts'[j] = cuts[j]
      BY <1>3
    <3>2. Len(cuts') \in Nat /\ Len(cuts) <= Len(cuts')
      BY <1>3, <1>4
    <3> QED BY <1>0, <1>4, <2>1, <3>1, <3>2, ConsumedKept
  <2>3. Flight \in Seq(WireByte) /\ Len(Flight) \in Nat /\ Flight' = Flight \o new
    <3>1. Flight \in Seq(WireByte) /\ Len(Flight) \in Nat
      BY <1>1, FlightOK
    <3>2. rd.got \in Seq(WireByte) /\ pipe \in Seq(WireByte)
      BY <1>1 DEF TypeOK
    <3>3. pipe \o <<>> = pipe
      BY <3>2, ConcatEmptySeq
    <3>4. Flight = rd.got \o pipe
      BY <1>5, <3>3 DEF Flight
    <3>5. Flight' = rd.got \o (pipe \o new)
      BY <1>0, <1>5 DEF Flight
    <3>6. rd.got \o (pipe \o new) = (rd.got \o pipe) \o new
      BY <3>2, ThreeParts
    <3> QED BY <3>1, <3>4, <3>5, <3>6
  <2>4. Len(Flight') = Len(Flight) + Len(new) /\ Len(new) \in Nat
    BY <2>3, ConcatProperties, LenProperties
  <2>5. m + Len(Flight) = Total
    BY <1>0, <2>1 DEF Extent
  <2>6. CASE cipher = "aead"
    <3>1. wr.ctr = 2 * (Len(cuts) - 1)
      BY <1>1, <2>6 DEF WriterKnown
    <3>2. ChunkLen(cuts', Len(cuts)) = n /\ Payload(cuts', Len(cuts)) = data
      <4>1. cuts'[Len(cuts)] = Len(sent) /\ cuts'[Len(cuts) + 1] = Len(sent) + n
        BY <1>2, <1>3, <1>4
      <4>2. ChunkLen(cuts', Len(cuts)) = n
        BY <1>2, <4>1 DEF ChunkLen
      <4> QED BY <4>1, <4>2 DEF Payload, Sends
    <3>3. new = Chunk(cuts', Len(cuts))
      BY <2>6, <3>1, <3>2 DEF Chunk, Sends
    <3>4. Total = Start(cuts, Len(cuts)) /\ Total' = Start(cuts', Len(cuts'))
      BY <1>0, <1>5, <2>6 DEF Total
    <3>5. Extent(m)'
      <4>1. Start(cuts', Len(cuts) + 1) = Start(cuts', Len(cuts)) + Overhead + n
        BY <1>3, <1>4, <3>2, StartNext
      <4>2. Len(new) = Overhead + n /\ Overhead \in Nat
        <5>1. Len(Chunk(cuts', Len(cuts))) = Overhead + ChunkLen(cuts', Len(cuts)) /\ Overhead \in Nat
          BY <1>3, <1>4, ChunkFacts
        <5> QED BY <3>2, <3>3, <5>1
      <4>3. Start(cuts', Len(cuts)) = Start(cuts, Len(cuts)) /\ Start(cuts, Len(cuts)) \in Nat
        BY <1>3, <1>4, StartType
      <4>4. PICK a \in Nat, f \in Nat : a = Start(cuts, Len(cuts)) /\ f = Len(Flight)
        BY <2>3, <4>3
      <4>5. Total' = a + Overhead + n /\ m + f = a /\ Len(Flight') = f + (Overhead + n)
        BY <1>3, <2>4, <2>5, <3>4, <4>1, <4>2, <4>3, <4>4
      <4>6. m + Len(Flight') = Total'
        BY <4>2, <4>5
      <4>7. Total' \in Nat
        BY <4>2, <4>5
      <4> QED BY <4>6, <4>7 DEF Extent
    <3>6. Content(m)'
      <4>1. Carries("aead", Flight, m, cuts, Len(sent))
        BY <2>1, <2>6 DEF Content
      <4>2. m + Len(Flight) = Start(cuts, Len(cuts)) /\ cuts[Len(cuts)] < Len(sent')
        BY <1>2, <1>4, <2>5, <3>4
      <4>3. cuts' = Append(cuts, Len(sent'))
        BY DEF Sends
      <4>4. Carries("aead", Flight \o new, m, Append(cuts, Len(sent')), Len(sent'))
        BY <1>2, <1>4, <2>3, <3>3, <4>1, <4>2, <4>3, AddChunk
      <4> QED BY <1>0, <2>3, <2>6, <4>3, <4>4 DEF Content
    <3> QED BY <2>2, <3>5, <3>6
  <2>7. CASE cipher # "aead"
    <3>1. cipher = "stream" /\ wr.ctr = Len(sent)
      BY <1>1, <2>7 DEF WriterKnown, TypeOK
    <3>2. Len(new) = n /\ \A i \in 1 .. n : new[i] = Byte(Len(sent) + i, "data", Len(sent) + i)
      <4>1. new = [i \in 1 .. n |-> Byte(KeyPos(Len(sent), i), "data", data[i])]
        BY <1>2, <2>7, <3>1 DEF StreamEncrypt, Sends
      <4>2. \A i \in 1 .. n : KeyPos(Len(sent), i) = Len(sent) + i
        BY <1>2, KeyPosition
      <4>3. \A i \in 1 .. n : data[i] = Len(sent) + i
        BY DEF Sends
      <4> QED BY <4>1, <4>2, <4>3
    <3>3. Total = SaltSize + Len(sent) /\ Total' = SaltSize + Len(sent') /\ SaltSize \in Nat
      BY <1>0, <1>5, <2>7, StreamAssumption DEF Total
    <3>4. Extent(m)'
      <4>1. m + Len(Flight') = Total' /\ Total' \in Nat
        <5>1. PICK a \in Nat, f \in Nat : a = Len(sent) /\ f = Len(Flight)
          BY <1>2, <2>3
        <5>2. Len(Flight') = f + n /\ m + f = SaltSize + a /\ Total' = SaltSize + (a + n)
          BY <1>2, <2>4, <2>5, <3>2, <3>3, <5>1
        <5> QED BY <3>3, <5>2
      <4> QED BY <4>1 DEF Extent
    <3>5. Content(m)'
      <4>1. Carries("stream", Flight, m, cuts, Len(sent)) /\ m + Len(Flight) = SaltSize + Len(sent)
        BY <2>1, <2>5, <3>1, <3>3 DEF Content
      <4>2. Carries("stream", Flight \o new, m, cuts', Len(sent) + n)
        BY <1>2, <2>3, <3>2, <4>1, AddBytes
      <4> QED BY <1>0, <1>2, <2>3, <3>1, <4>2 DEF Content
    <3> QED BY <2>2, <3>4, <3>5
  <2> QED BY <2>6, <2>7
<1> QED BY <1>6, <1>7, <1>8, <1>9, <1>10, <1>11 DEF IInv

LEMMA SendAllOK ==
  ASSUME IInv, NEW n \in 1 .. MaxPacket, SendAll(n)
  PROVE  IInv'
<1> DEFINE data == [i \in 1 .. n |-> Len(sent) + i]
<1>1. n \in Nat /\ n > 0
  BY StreamAssumption
<1>2. TypeOK /\ wr.st = "ready" /\ wr.out = <<>>
  BY DEF IInv, SendAll, WriterKnown
<1>3. CASE cipher = "aead" /\ OutputLength(n) > wr.buf
  <2>1. UNCHANGED <<cipher, pipe, rd, sent, received, cuts>> /\ wr' = [wr EXCEPT !.st = "panicked"]
    BY <1>3 DEF SendAll
  <2>2. wr'.st = "panicked" /\ wr'.out = wr.out /\ wr'.ctr = wr.ctr
    BY <1>2, <2>1 DEF TypeOK
  <2>3. TypeOK'
    BY <1>2, <2>1 DEF TypeOK, WriterEnd
  <2>4. Flight' = Flight /\ Len(Flight) \in Nat
    BY <1>2, <2>1, <2>2, FlightOK DEF Flight
  <2> QED BY <1>2, <2>1, <2>2, <2>3, <2>4, WriterStep DEF WriterGone
<1>4. CASE ~(cipher = "aead" /\ OutputLength(n) > wr.buf)
  <2> DEFINE new == IF cipher = "aead" THEN AeadChunk(data, wr.ctr) ELSE StreamEncrypt(data, wr.ctr)
  <2>1. Sends(n, data, new)
    BY <1>4 DEF SendAll, Sends
  <2>2. new \in Seq(WireByte)
    <3>1. data \in Seq(Nat) /\ Len(data) = n
      <4>1. sent \in Seq(Nat) /\ \A i \in 1 .. Len(sent) : sent[i] = i
        BY DEF IInv, TypeOK, Numbered
      <4> QED BY <1>1, <4>1, NumberedOn
    <3>2. wr.ctr \in Nat
      BY <1>2 DEF TypeOK
    <3> HIDE DEF data
    <3>3. CASE cipher = "aead"
      <4> DEFINE text == <<n \div 256, n % 256>>
      <4>1. text \in Seq(Nat)
        BY <1>1, LengthBytes
      <4>2. wr.ctr + 1 \in Nat
        BY <3>2
      <4> HIDE DEF text
      <4>3. AeadEncrypt(text, wr.ctr) \in Seq(WireByte) /\ AeadEncrypt(data, wr.ctr + 1) \in Seq(WireByte)
        BY <3>1, <3>2, <4>1, <4>2, Sealed
      <4>4. AeadEncrypt(text, wr.ctr) \o AeadEncrypt(data, wr.ctr + 1) \in Seq(WireByte)
        BY <4>3, ConcatProperties
      <4> QED BY <3>1, <3>3, <4>4 DEF AeadChunk, text
    <3>4. CASE cipher # "aead"
      <4>1. \A i \in 1 .. n : KeyPos(wr.ctr, i) \in Nat /\ data[i] \in Nat
        <5> SUFFICES ASSUME NEW i \in 1 .. n
                     PROVE  KeyPos(wr.ctr, i) \in Nat /\ data[i] \in Nat
          OBVIOUS
        <5>1. i \in Nat
          BY <1>1
        <5>2. KeyPos(wr.ctr, i) = wr.ctr + i
          BY <3>2, <5>1, KeyPosition
        <5>3. data[i] \in Nat
          BY <3>1
        <5> QED BY <3>2, <5>1, <5>2, <5>3
      <4> QED BY <1>1, <3>1, <3>4, <4>1 DEF StreamEncrypt, Byte, WireByte
    <3> QED BY <3>3, <3>4
  <2> HIDE DEF new, data
  <2> QED BY <1>1, <2>1, <2>2, SendAllFits
<1> QED BY <1>3, <1>4

(* F is c and then G. *)
Splits(F, c, G) ==
  /\ c \in Seq(WireByte) /\ Len(c) \in Nat
  /\ G \in Seq(WireByte) /\ <<>> \o G = G /\ Len(G) \in Nat
  /\ F = c \o G /\ Len(F) = Len(c) + Len(G)
  /\ \A i \in 1 .. Len(c) : i \in 1 .. Len(F) /\ F[i] = c[i]
  /\ \A i \in 1 .. Len(G) : G[i] = F[Len(c) + i]

(* Bytes q come off the pipe, behind what read_exact had got. *)
LEMMA TakeBytes ==
  ASSUME NEW got \in Seq(WireByte), NEW q \in Seq(WireByte), NEW rest \in Seq(WireByte),
         NEW out \in Seq(WireByte)
  PROVE  /\ Splits(got \o ((q \o rest) \o out), got \o q, rest \o out)
         /\ Len(got \o q) = Len(got) + Len(q)
<1> DEFINE c == got \o q
           G == rest \o out
           F == got \o ((q \o rest) \o out)
<1>1. /\ c \in Seq(WireByte) /\ Len(c) = Len(got) + Len(q) /\ Len(c) \in Nat
      /\ G \in Seq(WireByte) /\ Len(G) \in Nat
  BY ConcatProperties, LenProperties
<1>2. F = c \o G
  <2>1. (q \o rest) \o out = q \o G
    BY SMTT(60), ConcatAssociative
  <2>2. G \in Seq(WireByte)
    BY <1>1
  <2> HIDE DEF G
  <2>3. got \o (q \o G) = (got \o q) \o G
    BY ZenonT(60), <2>2, ThreeParts
  <2> QED BY <2>1, <2>3
<1> HIDE DEF c, F, G
<1>3. <<>> \o G = G
  BY <1>1, ConcatEmptySeq
<1>4. /\ Len(c \o G) = Len(c) + Len(G)
      /\ \A i \in 1 .. Len(c) + Len(G) : (c \o G)[i] = IF i <= Len(c) THEN c[i] ELSE G[i - Len(c)]
  <2>1. c \in Seq(WireByte) /\ G \in Seq(WireByte)
    BY <1>1
  <2> QED BY <2>1, ConcatProperties
<1>5. ASSUME NEW i \in 1 .. Len(c)
      PROVE  i \in 1 .. Len(F) /\ F[i] = c[i]
  <2>1. i \in 1 .. Len(c) + Len(G) /\ i <= Len(c)
    BY <1>1
  <2> QED BY <1>2, <1>4, <2>1
<1>6. ASSUME NEW i \in 1 .. Len(G)
      PROVE  G[i] = F[Len(c) + i]
  <2>1. /\ Len(c) + i \in 1 .. Len(c) + Len(G) /\ ~(Len(c) + i <= Len(c))
        /\ (Len(c) + i) - Len(c) = i
    BY <1>1
  <2> QED BY <1>2, <1>4, <2>1
<1>7. Splits(F, c, G)
  BY <1>1, <1>2, <1>3, <1>4, <1>5, <1>6 DEF Splits
<1> QED BY <1>1, <1>7 DEF c, F, G

(* The reader takes d bytes off the wire and goes on reading. *)
LEMMA ReaderMoves ==
  ASSUME IInv, TypeOK', UNCHANGED <<cipher, wr, sent, cuts>>, rd'.st \in Reading,
         NEW n \in Nat, NEW d \in Nat, Extent(n), Content(n), Consumed(n + d)',
         Len(Flight) = d + Len(Flight'), \A i \in 1 .. Len(Flight') : Flight'[i] = Flight[d + i],
         Numbered', ChunksWhole'
  PROVE  IInv'
<1>1. TypeOK /\ CutUp /\ WriterKnown
  BY DEF IInv
<1>2. CutUp' /\ WriterKnown'
  BY <1>1 DEF CutUp, WriterKnown
<1>3. EndedBy'
  BY DEF EndedBy, Decrypts, Reading
<1>4. /\ Flight \in Seq(WireByte) /\ Len(Flight) \in Nat
      /\ Flight' \in Seq(WireByte) /\ Len(Flight') \in Nat
  BY <1>1, FlightOK, FlightOKAfter
<1>5. Total' = Total
  BY DEF Total
<1>6. Extent(n + d)'
  <2>1. PICK f \in Nat, g \in Nat : f = Len(Flight) /\ g = Len(Flight')
    BY <1>4
  <2>2. n + f = (n + d) + g
    BY <2>1
  <2> QED BY <1>5, <2>1, <2>2 DEF Extent
<1>7. Content(n + d)'
  <2>1. Cuts(cuts) /\ Len(sent) \in Nat /\ Carries(cipher, Flight, n, cuts, Len(sent))
    BY <1>1, LenProperties DEF CutUp, TypeOK, Content
  <2>2. Carries(cipher, Flight', n + d, cuts, Len(sent))
    BY <1>4, <2>1, TakeFront
  <2> QED BY <2>2 DEF Content
<1>8. n + d \in Nat
  OBVIOUS
<1>9. InStep'
  BY <1>6, <1>7, <1>8 DEF InStep
<1> QED BY <1>2, <1>3, <1>9 DEF IInv

(* A read of k bytes: they are the front of what is in flight, and either  *)
(* read_exact keeps them or the reader takes all it has got off the wire.  *)
LEMMA TakenOff ==
  ASSUME TypeOK, NEW k \in 1 .. PipeCap, k <= Len(pipe), UNCHANGED wr,
         pipe' = SubSeq(pipe, k + 1, Len(pipe)),
         NEW c, c = rd.got \o SubSeq(pipe, 1, k)
  PROVE  /\ c \in Seq(WireByte) /\ Len(c) = Len(rd.got) + k /\ Len(c) \in Nat /\ k \in Nat
         /\ pipe' \in Seq(WireByte)
         /\ \A i \in 1 .. Len(c) : i \in 1 .. Len(Flight) /\ Flight[i] = c[i]
         /\ rd'.got = c => Flight' = Flight
         /\ rd'.got = <<>> => /\ Len(Flight) = Len(c) + Len(Flight')
                             /\ \A i \in 1 .. Len(Flight') : Flight'[i] = Flight[Len(c) + i]
<1>1. PICK got \in Seq(WireByte), p \in Seq(WireByte), out \in Seq(WireByte) :
        got = rd.got /\ p = pipe /\ out = wr.out
  BY DEF TypeOK
<1>2. k \in Nat /\ Len(p) \in Nat /\ k \in 0 .. Len(p)
  <2>1. PipeCap \in Nat /\ Len(p) \in Nat
    BY StreamAssumption, LenProperties
  <2> QED BY <1>1, <2>1
<1>3. PICK q \in Seq(WireByte), rest \in Seq(WireByte) :
        /\ q = SubSeq(p, 1, k) /\ rest = SubSeq(p, k + 1, Len(p))
        /\ Len(q) = k /\ q \o rest = p
  <2>1. /\ SubSeq(p, 1, k) \in Seq(WireByte) /\ Len(SubSeq(p, 1, k)) = k
        /\ SubSeq(p, k + 1, Len(p)) \in Seq(WireByte)
        /\ (p \o SubSeq(p, 1, k)) \o SubSeq(p, k + 1, Len(p)) = p \o p
    BY <1>2, MoveBytes
  <2>2. /\ <<>> \in Seq(WireByte)
        /\ (<<>> \o SubSeq(p, 1, k)) \o SubSeq(p, k + 1, Len(p)) = <<>> \o p
    BY <1>2, MoveBytes, EmptySeq
  <2>3. <<>> \o SubSeq(p, 1, k) = SubSeq(p, 1, k) /\ <<>> \o p = p
    BY <2>1, ConcatEmptySeq
  <2> QED BY <2>1, <2>2, <2>3
<1>4. c = got \o q /\ pipe' = rest /\ Flight = got \o ((q \o rest) \o out)
  BY <1>1, <1>3 DEF Flight
<1>5. rd'.got = c => Flight' = c \o (rest \o out)
  BY <1>1, <1>4 DEF Flight
<1>6. rd'.got = <<>> => Flight' = <<>> \o (rest \o out)
  BY <1>1, <1>4 DEF Flight
<1>7. /\ Splits(got \o ((q \o rest) \o out), got \o q, rest \o out)
      /\ Len(got \o q) = Len(got) + Len(q)
  BY TakeBytes, Zenon
<1> DEFINE G == rest \o out
<1>8. Splits(Flight, c, G) /\ Len(c) = Len(got) + Len(q)
  BY <1>4, <1>7, Zenon
<1> HIDE DEF G
<1>9. Len(c) \in Nat /\ Len(c) = Len(rd.got) + k
  BY <1>1, <1>3, <1>8 DEF Splits
<1>10. rd'.got = c => Flight' = Flight
  BY <1>5, <1>8 DEF G, Splits
<1>11. rd'.got = <<>> => Flight' = G
  BY <1>6, <1>8 DEF G, Splits
<1> QED BY <1>2, <1>3, <1>4, <1>8, <1>9, <1>10, <1>11, Zenon DEF Splits

LEMMA ReadStreamOK ==
  ASSUME IInv, NEW k \in 1 .. PipeCap, ReadStream(k)
  PROVE  IInv' /\ rd'.st \in Reading /\ Len(received) <= Len(received')
<1>1. TypeOK /\ Numbered /\ CutUp /\ InStep
  BY DEF IInv
<1>2. /\ rd.st = "read" /\ k <= Len(pipe) /\ UNCHANGED <<cipher, wr, sent, cuts>>
      /\ pipe' = SubSeq(pipe, k + 1, Len(pipe)) /\ rd' = [rd EXCEPT !.ctr = rd.ctr + k]
      /\ received' = received \o StreamDecrypt(SubSeq(pipe, 1, k), rd.ctr)
  BY DEF ReadStream
<1>3. PICK n \in Nat : Consumed(n) /\ Extent(n) /\ Content(n)
  BY <1>1, <1>2 DEF InStep, Reading
<1>4. /\ cipher = "stream" /\ rd.got = <<>>
      /\ n = SaltSize + Len(received) /\ rd.ctr = Len(received)
  BY <1>2, <1>3 DEF Consumed
<1>5. Len(received) \in Nat /\ Len(sent) \in Nat /\ SaltSize \in Nat /\ SaltSize > 0
  BY <1>1, LenProperties, StreamAssumption DEF TypeOK
<1> DEFINE c == rd.got \o SubSeq(pipe, 1, k)
<1>6. /\ Len(c) = Len(rd.got) + k /\ k \in Nat /\ pipe' \in Seq(WireByte)
      /\ \A i \in 1 .. Len(c) : i \in 1 .. Len(Flight) /\ Flight[i] = c[i]
      /\ rd'.got = <<>> => /\ Len(Flight) = Len(c) + Len(Flight')
                          /\ \A i \in 1 .. Len(Flight') : Flight'[i] = Flight[Len(c) + i]
  BY ZenonT(60), <1>1, <1>2, TakenOff
<1>7. c = SubSeq(pipe, 1, k)
  <2>1. pipe \in Seq(WireByte) /\ k \in 0 .. Len(pipe)
    BY <1>1, <1>2, <1>6, LenProperties DEF TypeOK
  <2>2. SubSeq(pipe, 1, k) \in Seq(WireByte)
    BY <2>1, MoveBytes
  <2> QED BY <1>4, <2>2, ConcatEmptySeq
<1>8. Len(c) = k
  BY <1>4, <1>6, EmptySeq
<1> HIDE DEF c
<1>9. rd'.got = <<>> /\ rd'.st = "read" /\ rd'.ctr = Len(received) + k
  BY <1>1, <1>2, <1>4 DEF TypeOK
<1>10. Len(Flight) = k + Len(Flight') /\ \A i \in 1 .. Len(Flight') : Flight'[i] = Flight[k + i]
  BY <1>6, <1>8, <1>9
<1>11. Len(received) + k <= Len(sent) /\ wr.st # "new"
  <2>1. k \in 1 .. Len(Flight) /\ Len(Flight) \in Nat
    <3>1. k \in 1 .. Len(c) /\ Len(Flight) \in Nat
      BY <1>1, <1>6, <1>8, FlightOK
    <3> QED BY <1>6, <3>1
  <2>2. n + Len(Flight) <= Total
    BY <1>3 DEF Extent
  <2>3. wr.st # "new" /\ Total = SaltSize + Len(sent)
    BY <1>4, <1>5, <2>1, <2>2 DEF Total
  <2> QED BY <1>4, <1>5, <1>6, <2>1, <2>2, <2>3
<1>12. \A i \in 1 .. k : c[i] = Byte(Len(received) + i, "data", Len(received) + i)
  <2> SUFFICES ASSUME NEW i \in 1 .. k
               PROVE  c[i] = Byte(Len(received) + i, "data", Len(received) + i)
    OBVIOUS
  <2>1. i \in 1 .. Len(Flight) /\ Flight[i] = c[i]
    BY <1>6, <1>8
  <2>2. Len(received) + i \in 1 .. Len(sent) /\ SaltSize + (Len(received) + i) - n = i
    BY <1>4, <1>5, <1>6, <1>11
  <2>3. \A q \in 1 .. Len(sent) :
          SaltSize + q - n \in 1 .. Len(Flight) => Flight[SaltSize + q - n] = Byte(q, "data", q)
    BY <1>3, <1>4 DEF Content, Carries
  <2> QED BY <2>1, <2>2, <2>3
<1> DEFINE data == [i \in 1 .. k |-> Len(received) + i]
<1>13. StreamDecrypt(c, Len(received)) = data
  <2>1. \A i \in 1 .. k : KeyPos(Len(received), i) = Len(received) + i
    BY <1>5, <1>6, KeyPosition
  <2>2. ASSUME NEW i \in 1 .. k
        PROVE  c[i].under = Len(received) + i /\ c[i].val = Len(received) + i
    <3>1. c[i] = Byte(Len(received) + i, "data", Len(received) + i)
      BY <1>12
    <3> QED BY <3>1 DEF Byte
  <2> QED BY <1>8, <2>1, <2>2 DEF StreamDecrypt
<1>14. received' = received \o data
  BY <1>2, <1>4, <1>7, <1>13
<1>15. /\ received' \in Seq(Nat) /\ Len(received') = Len(received) + k
       /\ \A i \in 1 .. Len(received') : received'[i] = i
  <2>1. received \in Seq(Nat) /\ \A i \in 1 .. Len(received) : received[i] = i
    BY <1>1 DEF TypeOK, Numbered
  <2>2. /\ received \o data \in Seq(Nat) /\ Len(received \o data) = Len(received) + k
        /\ \A i \in 1 .. Len(received) + k : (received \o data)[i] = i
    <3>1. data = [i \in 1 .. k |-> Len(received) + i]
      OBVIOUS
    <3> HIDE DEF data
    <3> QED BY <1>6, <2>1, <3>1, NumberedOn
  <2> HIDE DEF data
  <2> QED BY <1>14, <2>2
<1> HIDE DEF data
<1>16. TypeOK'
  <2>1. Len(received) + k \in Nat
    BY <1>5, <1>6
  <2>2. rd' \in [st : Reading \cup ReaderEnd, ctr : Nat, got : Seq(WireByte), len : Nat]
    BY <1>1, <1>2, <1>4, <2>1 DEF TypeOK
  <2> QED BY <1>1, <1>2, <1>6, <1>15, <2>2 DEF TypeOK
<1>17. Numbered' /\ ChunksWhole'
  <2>1. Numbered'
    BY <1>1, <1>2, <1>11, <1>15 DEF Numbered
  <2>2. ChunksWhole'
    BY <1>2, <1>4 DEF ChunksWhole
  <2> QED BY <2>1, <2>2
<1>18. Consumed(n + k)'
  <2>1. n + k = SaltSize + Len(received')
    BY <1>4, <1>5, <1>6, <1>15
  <2> QED BY <1>2, <1>4, <1>9, <1>15, <2>1 DEF Consumed
<1>19. rd'.st \in Reading
  BY <1>9 DEF Reading
<1>20. IInv'
  BY <1>2, <1>3, <1>6, <1>10, <1>16, <1>17, <1>18, <1>19, ReaderMoves
<1>21. Len(received) <= Len(received')
  BY <1>5, <1>6, <1>15
<1> QED BY <1>19, <1>20, <1>21

(* A read_exact has got c, k bytes of it new. *)
Takes(k, c) ==
  /\ k <= Len(pipe) /\ c = rd.got \o SubSeq(pipe, 1, k) /\ pipe' = SubSeq(pipe, k + 1, Len(pipe))
  /\ UNCHANGED <<cipher, wr, sent, cuts>>

LEMMA TakesOff ==
  ASSUME TypeOK, NEW k \in 1 .. PipeCap, NEW c, Takes(k, c)
  PROVE  /\ c \in Seq(WireByte) /\ Len(c) = Len(rd.got) + k /\ Len(c) \in Nat /\ k \in Nat
         /\ pipe' \in Seq(WireByte)
         /\ \A i \in 1 .. Len(c) : i \in 1 .. Len(Flight) /\ Flight[i] = c[i]
         /\ rd'.got = c => Flight' = Flight
         /\ rd'.got = <<>> => /\ Len(Flight) = Len(c) + Len(Flight')
                             /\ \A i \in 1 .. Len(Flight') : Flight'[i] = Flight[Len(c) + i]
<1>1. /\ k <= Len(pipe) /\ UNCHANGED wr /\ pipe' = SubSeq(pipe, k + 1, Len(pipe))
      /\ c = rd.got \o SubSeq(pipe, 1, k)
  BY DEF Takes
<1> QED BY ZenonT(60), <1>1, TakenOff

(* read_exact needs more. *)
LEMMA ReadMore ==
  ASSUME IInv, NEW k \in 1 .. PipeCap, NEW c, Takes(k, c), rd.st \in {"iv", "len", "body"},
         Len(c) < Wanted, rd' = [rd EXCEPT !.got = c], received' = received
  PROVE  IInv'
<1>1. TypeOK /\ Numbered /\ ChunksWhole /\ InStep
  BY DEF IInv
<1>2. c \in Seq(WireByte) /\ pipe' \in Seq(WireByte) /\ (rd'.got = c => Flight' = Flight)
  BY <1>1, TakesOff, ZenonT(60)
<1>3. UNCHANGED <<cipher, wr, sent, cuts>>
  BY DEF Takes
<1>4. rd'.got = c /\ rd'.st = rd.st /\ rd'.ctr = rd.ctr /\ rd'.len = rd.len
  BY <1>1 DEF TypeOK
<1>5. TypeOK'
  BY <1>1, <1>2, <1>3 DEF TypeOK
<1>6. Numbered' /\ ChunksWhole'
  BY <1>1, <1>3 DEF Numbered, ChunksWhole
<1>7. PICK n \in Nat : Consumed(n) /\ Extent(n) /\ Content(n)
  BY <1>1 DEF InStep, Reading
<1>8. Consumed(n)'
  <2>1. CASE rd.st = "iv"
    BY <1>4, <1>7, <2>1 DEF Consumed, Wanted
  <2>2. CASE rd.st = "len"
    <3>1. PICK j \in 1 .. Len(cuts) :
            n = Start(cuts, j) /\ rd.ctr = 2 * (j - 1) /\ Len(received) = cuts[j]
      BY <1>7, <2>2 DEF Consumed
    <3>2. cipher = "aead" /\ Len(c) < 2 + TagSize
      BY <1>7, <2>2 DEF Consumed, Wanted
    <3> QED BY <1>3, <1>4, <2>2, <3>1, <3>2 DEF Consumed
  <2>3. CASE rd.st = "body"
    <3>1. PICK j \in 1 .. Len(cuts) - 1 :
            /\ n = Start(cuts, j) + 2 + TagSize /\ rd.ctr = 2 * (j - 1) + 1
            /\ Len(received) = cuts[j] /\ rd.len = ChunkLen(cuts, j)
      BY <1>7, <2>3 DEF Consumed
    <3>2. cipher = "aead" /\ Len(c) < rd.len + TagSize
      BY <1>7, <2>3 DEF Consumed, Wanted
    <3> QED BY <1>3, <1>4, <2>3, <3>1, <3>2 DEF Consumed
  <2> QED BY <2>1, <2>2, <2>3
<1>9. n + 0 = n /\ Flight' = Flight /\ Len(Flight) \in Nat
  BY <1>1, <1>2, <1>4, FlightOK
<1>10. Len(Flight) = 0 + Len(Flight') /\ \A i \in 1 .. Len(Flight') : Flight'[i] = Flight[0 + i]
  BY <1>9
<1>11. rd'.st \in Reading /\ Consumed(n + 0)' /\ 0 \in Nat
  <2>1. Consumed(n + 0)'
    BY <1>8, <1>9
  <2> QED BY <1>4, <2>1 DEF Reading
<1> QED BY <1>3, <1>5, <1>6, <1>7, <1>10, <1>11, ReaderMoves

(* recv_iv is complete. *)
LEMMA ReadIv ==
  ASSUME IInv, NEW k \in 1 .. PipeCap, NEW c, Takes(k, c), rd.st = "iv",
         Len(c) = Wanted, rd' = HaveIv, received' = received
  PROVE  IInv'
<1>1. TypeOK /\ Numbered /\ CutUp /\ ChunksWhole /\ InStep
  BY DEF IInv
<1>2. /\ pipe' \in Seq(WireByte)
      /\ rd'.got = <<>> => /\ Len(Flight) = Len(c) + Len(Flight')
                          /\ \A i \in 1 .. Len(Flight') : Flight'[i] = Flight[Len(c) + i]
  BY <1>1, TakesOff, ZenonT(60)
<1>3. UNCHANGED <<cipher, wr, sent, cuts>>
  BY DEF Takes
<1>4. Len(c) = SaltSize /\ SaltSize \in Nat /\ TagSize \in Nat
  BY StreamAssumption DEF Wanted
<1>5. rd'.got = <<>> /\ rd'.ctr = 0 /\ rd'.st = (IF cipher = "aead" THEN "len" ELSE "read") /\ Len(<<>>) = 0
  BY EmptySeq DEF HaveIv
<1>6. TypeOK'
  <2>1. rd' \in [st : Reading \cup ReaderEnd, ctr : Nat, got : Seq(WireByte), len : Nat]
    BY EmptySeq DEF HaveIv, Reading
  <2> QED BY <1>1, <1>2, <1>3, <2>1 DEF TypeOK
<1>7. Numbered' /\ ChunksWhole'
  BY <1>1, <1>3 DEF Numbered, ChunksWhole
<1>8. PICK n \in Nat : Consumed(n) /\ Extent(n) /\ Content(n)
  BY <1>1 DEF InStep, Reading
<1>9. n = 0 /\ Len(received) = 0
  BY <1>5, <1>8 DEF Consumed
<1>10. Consumed(n + SaltSize)'
  <2>1. n + SaltSize = SaltSize /\ SaltSize + 0 = SaltSize
    BY <1>4, <1>9
  <2>2. CASE cipher = "aead"
    <3>1. 1 \in 1 .. Len(cuts) /\ Start(cuts, 1) = SaltSize /\ cuts[1] = 0 /\ 2 * (1 - 1) = 0
      <4>1. 1 \in 1 .. Len(cuts) /\ Cuts(cuts) /\ cuts[1] = 0
        BY <1>1, LenProperties DEF CutUp, Cuts
      <4> QED BY <4>1, StartType
    <3>2. \E j \in 1 .. Len(cuts') :
            SaltSize = Start(cuts', j) /\ rd'.ctr = 2 * (j - 1) /\ Len(received') = cuts'[j]
      BY <1>3, <1>5, <1>9, <3>1
    <3>3. Len(rd'.got) < 2 + TagSize
      BY <1>4, <1>5
    <3> QED BY <1>3, <1>5, <2>1, <2>2, <3>2, <3>3 DEF Consumed
  <2>3. CASE cipher # "aead"
    BY <1>1, <1>3, <1>5, <1>9, <2>1, <2>3 DEF Consumed, TypeOK
  <2> QED BY <2>2, <2>3
<1>11. rd'.st \in Reading
  BY <1>5 DEF Reading
<1> QED BY <1>2, <1>3, <1>4, <1>5, <1>6, <1>7, <1>8, <1>10, <1>11, ReaderMoves

(* With bytes of a chunk in flight behind n bytes of the wire, the chunk   *)
(* was sent, and the bytes are the chunk's.                                *)
LEMMA ChunkAhead ==
  ASSUME TypeOK, CutUp, cipher = "aead", NEW n \in Nat, Extent(n), Content(n),
         NEW j \in 1 .. Len(cuts), NEW o \in Nat, n = Start(cuts, j) + o, Len(Flight) > 0
  PROVE  /\ j \in 1 .. Len(cuts) - 1
         /\ \A i \in 1 .. Len(Flight) : o + i \in 1 .. Overhead + ChunkLen(cuts, j) =>
               Flight[i] = Chunk(cuts, j)[o + i]
<1>1. Cuts(cuts) /\ Len(cuts) \in Nat /\ Len(Flight) \in Nat
  BY FlightOK, LenProperties DEF CutUp, TypeOK
<1>2. Start(cuts, j) \in Nat
  BY <1>1, StartType
<1>3. j # Len(cuts)
  <2>1. n + Len(Flight) <= Total /\ (Total = 0 \/ Total = Start(cuts, Len(cuts)))
    BY DEF Extent, Total
  <2>2. PICK a \in Nat, f \in Nat : a = Start(cuts, j) /\ f = Len(Flight)
    BY <1>1, <1>2
  <2> SUFFICES ASSUME j = Len(cuts) PROVE FALSE
    OBVIOUS
  <2>3. (a + o) + f <= 0 \/ (a + o) + f <= a
    BY <2>1, <2>2
  <2>4. f > 0
    BY <2>2
  <2> QED BY <2>3, <2>4
<1>4. j \in 1 .. Len(cuts) - 1
  BY <1>1, <1>3
<1>5. ASSUME NEW i \in 1 .. Len(Flight), o + i \in 1 .. Overhead + ChunkLen(cuts, j)
      PROVE  Flight[i] = Chunk(cuts, j)[o + i]
  <2>1. Start(cuts, j) + (o + i) - n = i
    <3>1. PICK a \in Nat : a = Start(cuts, j)
      BY <1>2
    <3>2. i \in Nat /\ n = a + o
      BY <1>1, <3>1
    <3>3. a + (o + i) - n = i
      BY <3>2
    <3> QED BY <3>1, <3>3
  <2>2. \A m \in 1 .. Overhead + ChunkLen(cuts, j) :
          Start(cuts, j) + m - n \in 1 .. Len(Flight) => Flight[Start(cuts, j) + m - n] = Chunk(cuts, j)[m]
    BY <1>4 DEF Content, Carries
  <2> QED BY <1>5, <2>1, <2>2
<1> QED BY <1>4, <1>5

(* The length of a chunk is complete. *)
LEMMA ReadLen ==
  ASSUME IInv, NEW k \in 1 .. PipeCap, NEW c, Takes(k, c), rd.st = "len",
         Len(c) = Wanted, rd' = HaveLen(c), received' = received
  PROVE  IInv'
<1>1. TypeOK /\ Numbered /\ CutUp /\ ChunksWhole /\ InStep /\ Cuts(cuts)
  BY DEF IInv, CutUp
<1>2. /\ c \in Seq(WireByte) /\ pipe' \in Seq(WireByte)
      /\ \A i \in 1 .. Len(c) : i \in 1 .. Len(Flight) /\ Flight[i] = c[i]
      /\ rd'.got = <<>> => /\ Len(Flight) = Len(c) + Len(Flight')
                          /\ \A i \in 1 .. Len(Flight') : Flight'[i] = Flight[Len(c) + i]
  BY <1>1, TakesOff, ZenonT(60)
<1>3. UNCHANGED <<cipher, wr, sent, cuts>>
  BY DEF Takes
<1>4. Len(c) = 2 + TagSize /\ TagSize \in Nat /\ Len(Flight) \in Nat
  BY <1>1, StreamAssumption, FlightOK DEF Wanted
<1>5. PICK n \in Nat : Consumed(n) /\ Extent(n) /\ Content(n)
  BY <1>1 DEF InStep, Reading
<1>6. cipher = "aead"
  BY <1>5 DEF Consumed
<1>7. PICK j \in 1 .. Len(cuts) :
        n = Start(cuts, j) /\ rd.ctr = 2 * (j - 1) /\ Len(received) = cuts[j]
  BY <1>5 DEF Consumed
<1>8. n = Start(cuts, j) + 0 /\ Len(Flight) > 0 /\ 0 \in Nat
  <2>1. n = Start(cuts, j) + 0
    BY <1>7
  <2>2. 1 \in 1 .. Len(c)
    BY <1>4
  <2>3. 1 \in 1 .. Len(Flight)
    BY <1>2, <2>2
  <2> QED BY <1>4, <2>1, <2>3
<1>9. /\ j \in 1 .. Len(cuts) - 1
      /\ \A i \in 1 .. Len(Flight) : 0 + i \in 1 .. Overhead + ChunkLen(cuts, j) =>
            Flight[i] = Chunk(cuts, j)[0 + i]
  BY <1>1, <1>5, <1>6, <1>8, ChunkAhead
<1> DEFINE len == ChunkLen(cuts, j)
           text == <<len \div 256, len % 256>>
           head == SealedLen(cuts, j)
<1>10. /\ len \in Nat /\ len > 0
       /\ \A m \in 1 .. 2 + TagSize : Chunk(cuts, j)[m] = head[m]
  BY <1>1, <1>9, ChunkShape
<1>11. text \in Seq(Nat) /\ Len(text) = 2 /\ text[1] = len \div 256 /\ text[2] = len % 256
  BY <1>10, LengthBytes
<1>12. 2 * (j - 1) \in Nat /\ j \in Nat
  BY <1>9
<1> HIDE DEF len, text, head
<1>13. head \in Seq(WireByte) /\ Len(head) = 2 + TagSize
  <2>1. text \in Seq(Nat) /\ Len(text) = 2
    BY <1>11
  <2>2. 2 * (j - 1) \in Nat
    BY <1>12
  <2>3. head \in Seq(WireByte) /\ Len(head) = Len(text) + TagSize
    <3>1. head = AeadEncrypt(text, 2 * (j - 1))
      BY DEF head, SealedLen, text, len
    <3> QED BY <2>1, <2>2, <3>1, Sealed
  <2> QED BY <2>1, <2>3
<1>14. c = head
  <2>1. ASSUME NEW i \in 1 .. Len(c)
        PROVE  c[i] = head[i]
    <3>1. i \in 1 .. 2 + TagSize /\ 0 + i = i /\ 0 + i \in 1 .. Overhead + ChunkLen(cuts, j)
      <4>1. len \in Nat /\ len = ChunkLen(cuts, j)
        BY <1>10 DEF len
      <4>2. i \in 1 .. 2 + TagSize
        BY <1>4
      <4>3. i \in Nat /\ 1 <= i /\ i <= 2 + TagSize
        BY <1>4, <4>2
      <4>4. Overhead = 2 + TagSize + TagSize
        BY DEF Overhead
      <4>5. 0 + i = i /\ 0 + i \in 1 .. Overhead + len
        BY <1>4, <4>1, <4>3, <4>4
      <4> QED BY <4>1, <4>2, <4>5
    <3>2. i \in 1 .. Len(Flight) /\ Flight[i] = c[i]
      BY <1>2
    <3> QED BY <1>9, <1>10, <3>1, <3>2
  <2> QED BY <1>2, <1>4, <1>13, <2>1, SeqEqual
<1>15. Opens(c, rd.ctr) /\ AeadDecrypt(c) = text
  <2>1. c = AeadEncrypt(text, 2 * (j - 1))
    BY <1>14 DEF head, SealedLen, text, len
  <2> QED BY <1>7, <1>11, <1>12, <2>1, Sealed
<1>16. 256 * AeadDecrypt(c)[1] + AeadDecrypt(c)[2] = len
  BY <1>10, <1>11, <1>15, LengthBytes
<1>17. rd' = IF len > MaxPacket THEN [rd EXCEPT !.st = "invalid"]
             ELSE IF len + TagSize > MaxPacket THEN [rd EXCEPT !.st = "panicked"]
             ELSE [st |-> "body", ctr |-> rd.ctr + 1, got |-> <<>>, len |-> len]
  BY <1>15, <1>16 DEF HaveLen
<1>18. CASE len > MaxPacket
  BY <1>2, <1>3, <1>17, <1>18, ReaderEnds DEF ReaderEnd
<1>19. CASE ~(len > MaxPacket) /\ len + TagSize > MaxPacket
  BY <1>2, <1>3, <1>17, <1>19, ReaderEnds DEF ReaderEnd
<1>20. CASE ~(len > MaxPacket) /\ ~(len + TagSize > MaxPacket)
  <2>1. rd' = [st |-> "body", ctr |-> rd.ctr + 1, got |-> <<>>, len |-> len]
    BY <1>17, <1>20
  <2>2. rd'.st = "body" /\ rd'.ctr = 2 * (j - 1) + 1 /\ rd'.got = <<>> /\ rd'.len = len
    BY <1>7, <2>1
  <2>3. TypeOK'
    <3>1. rd' \in [st : Reading \cup ReaderEnd, ctr : Nat, got : Seq(WireByte), len : Nat]
      BY SMTT(60), <1>1, <1>10, <2>1, EmptySeq DEF TypeOK, Reading
    <3> QED BY <1>1, <1>2, <1>3, <3>1 DEF TypeOK
  <2>4. Numbered' /\ ChunksWhole'
    BY <1>1, <1>3 DEF Numbered, ChunksWhole
  <2>5. Consumed(n + (2 + TagSize))'
    <3>1. n + (2 + TagSize) = Start(cuts, j) + 2 + TagSize
      BY <1>4, <1>7
    <3>2. Len(rd'.got) < len + TagSize
      BY <1>4, <1>10, <2>2, EmptySeq
    <3>3. len = ChunkLen(cuts, j)
      BY DEF len
    <3>4. \E i \in 1 .. Len(cuts') - 1 :
            /\ n + (2 + TagSize) = Start(cuts', i) + 2 + TagSize /\ rd'.ctr = 2 * (i - 1) + 1
            /\ Len(received') = cuts'[i] /\ rd'.len = ChunkLen(cuts', i)
      BY <1>3, <1>7, <1>9, <2>2, <3>1, <3>3
    <3> QED BY <1>3, <1>6, <2>2, <3>2, <3>4 DEF Consumed
  <2>6. rd'.st \in Reading /\ 2 + TagSize \in Nat
    BY <1>4, <2>2 DEF Reading
  <2> QED BY <1>2, <1>3, <1>4, <1>5, <2>2, <2>3, <2>4, <2>5, <2>6, ReaderMoves
<1> QED BY <1>18, <1>19, <1>20

(* The payload of a chunk is complete: recv hands it out. *)
LEMMA ReadBody ==
  ASSUME IInv, NEW k \in 1 .. PipeCap, NEW c, Takes(k, c), rd.st = "body",
         Len(c) = Wanted, rd' = HaveBody(c),
         received' = IF rd'.st = "len" THEN received \o AeadDecrypt(c) ELSE received
  PROVE  /\ IInv' /\ rd'.st = "len" /\ Len(received) <= Len(received')
<1>1. TypeOK /\ Numbered /\ CutUp /\ ChunksWhole /\ InStep /\ Cuts(cuts)
  BY DEF IInv, CutUp
<1>2. /\ c \in Seq(WireByte) /\ pipe' \in Seq(WireByte)
      /\ \A i \in 1 .. Len(c) : i \in 1 .. Len(Flight) /\ Flight[i] = c[i]
      /\ rd'.got = <<>> => /\ Len(Flight) = Len(c) + Len(Flight')
                          /\ \A i \in 1 .. Len(Flight') : Flight'[i] = Flight[Len(c) + i]
  BY <1>1, TakesOff, ZenonT(60)
<1>3. UNCHANGED <<cipher, wr, sent, cuts>>
  BY DEF Takes
<1>4. Len(c) = rd.len + TagSize /\ TagSize \in Nat /\ TagSize > 0 /\ Len(Flight) \in Nat
  BY <1>1, StreamAssumption, FlightOK DEF Wanted
<1>5. PICK n \in Nat : Consumed(n) /\ Extent(n) /\ Content(n)
  BY <1>1 DEF InStep, Reading
<1>6. cipher = "aead"
  BY <1>5 DEF Consumed
<1>7. PICK j \in 1 .. Len(cuts) - 1 :
        /\ n = Start(cuts, j) + 2 + TagSize /\ rd.ctr = 2 * (j - 1) + 1
        /\ Len(received) = cuts[j] /\ rd.len = ChunkLen(cuts, j)
  BY <1>5 DEF Consumed
<1> DEFINE len == ChunkLen(cuts, j)
           text == Payload(cuts, j)
           body == SealedBody(cuts, j)
<1>8. /\ len \in Nat /\ len > 0 /\ text \in Seq(Nat) /\ Len(text) = len
      /\ \A m \in 1 .. len + TagSize : Chunk(cuts, j)[2 + TagSize + m] = body[m]
  <2>1. len \in Nat /\ len > 0 /\ text \in Seq(Nat) /\ Len(text) = len
    BY <1>1, ChunkShape
  <2>2. \A m \in 1 .. len + TagSize : Chunk(cuts, j)[2 + TagSize + m] = body[m]
    BY <1>1, ChunkShape
  <2> QED BY <2>1, <2>2
<1>9. /\ Start(cuts, j) \in Nat /\ j \in 1 .. Len(cuts) /\ j + 1 \in 1 .. Len(cuts) /\ j \in Nat
      /\ Len(cuts) \in Nat /\ Len(cuts) \in 1 .. Len(cuts)
  BY <1>1, ChunkFacts
<1>10. rd.len = len
  BY <1>7
<1>11. text = [i \in 1 .. len |-> Len(received) + i]
  BY <1>7 DEF Payload
<1> HIDE DEF len, text, body
<1>12. 2 * (j - 1) + 1 \in Nat /\ 2 + TagSize \in Nat
  BY <1>4, <1>9
<1>13. body \in Seq(WireByte) /\ Len(body) = len + TagSize
  <2>1. text \in Seq(Nat) /\ Len(text) = len
    BY <1>8
  <2>2. body \in Seq(WireByte) /\ Len(body) = Len(text) + TagSize
    BY <1>12, <2>1, Sealed DEF body, SealedBody, text
  <2> QED BY <2>1, <2>2
<1>14. \A i \in 1 .. Len(Flight) : (2 + TagSize) + i \in 1 .. Overhead + ChunkLen(cuts, j) =>
            Flight[i] = Chunk(cuts, j)[(2 + TagSize) + i]
  <2>1. n = Start(cuts, j) + (2 + TagSize)
    BY <1>4, <1>7, <1>9
  <2>2. Len(Flight) > 0
    <3>1. 1 \in 1 .. Len(c)
      BY <1>4, <1>8, <1>10
    <3>2. 1 \in 1 .. Len(Flight)
      BY <1>2, <3>1
    <3> QED BY <1>4, <3>2
  <2> QED BY <1>1, <1>5, <1>6, <1>9, <1>12, <2>1, <2>2, ChunkAhead
<1>15. c = body
  <2>1. ASSUME NEW i \in 1 .. Len(c)
        PROVE  c[i] = body[i]
    <3>1. i \in 1 .. len + TagSize
      BY <1>4, <1>10
    <3>2. (2 + TagSize) + i \in 1 .. Overhead + ChunkLen(cuts, j) /\ (2 + TagSize) + i = 2 + TagSize + i
      <4>1. i \in Nat /\ 1 <= i /\ i <= len + TagSize
        BY <1>4, <1>8, <3>1
      <4>2. Overhead = 2 + TagSize + TagSize /\ len = ChunkLen(cuts, j)
        BY DEF Overhead, len
      <4>3. (2 + TagSize) + i \in 1 .. Overhead + len /\ (2 + TagSize) + i = 2 + TagSize + i
        BY <1>4, <1>8, <4>1, <4>2
      <4> QED BY <4>2, <4>3
    <3>3. i \in 1 .. Len(Flight) /\ Flight[i] = c[i]
      BY <1>2
    <3> QED BY <1>8, <1>14, <3>1, <3>2, <3>3
  <2> QED BY <1>2, <1>4, <1>10, <1>13, <2>1, SeqEqual
<1>16. Opens(c, rd.ctr) /\ AeadDecrypt(c) = text
  <2>1. c = AeadEncrypt(text, 2 * (j - 1) + 1)
    BY <1>15 DEF body, SealedBody, text
  <2>2. text \in Seq(Nat)
    BY <1>8
  <2> QED BY <1>7, <1>12, <2>1, <2>2, Sealed
<1>17. rd' = [st |-> "len", ctr |-> rd.ctr + 1, got |-> <<>>, len |-> 0]
  BY <1>16 DEF HaveBody
<1>18. rd'.st = "len" /\ rd'.ctr = rd.ctr + 1 /\ rd'.got = <<>>
  BY <1>17
<1>19. received' = received \o text
  BY <1>16, <1>18
<1>20. /\ received' \in Seq(Nat) /\ Len(received') = Len(received) + len /\ Len(received) \in Nat
       /\ \A i \in 1 .. Len(received') : received'[i] = i
  <2>1. received \in Seq(Nat) /\ \A i \in 1 .. Len(received) : received[i] = i
    BY <1>1 DEF TypeOK, Numbered
  <2>2. /\ received \o text \in Seq(Nat) /\ Len(received \o text) = Len(received) + len
        /\ \A i \in 1 .. Len(received) + len : (received \o text)[i] = i
    BY <1>8, <1>11, <2>1, NumberedOn
  <2> QED BY <1>19, <2>1, <2>2, LenProperties
<1>21. Len(received') = cuts[j + 1] /\ cuts[j + 1] <= Len(sent)
  <2>1. cuts[j] \in Nat /\ cuts[j + 1] \in Nat /\ len = cuts[j + 1] - cuts[j]
    BY <1>1, <1>9 DEF Cuts, ChunkLen, len
  <2>2. cuts[j + 1] <= cuts[Len(cuts)]
    <3>1. CASE j + 1 = Len(cuts)
      BY <2>1, <3>1
    <3>2. CASE j + 1 # Len(cuts)
      <4>1. j + 1 < Len(cuts) /\ cuts[Len(cuts)] \in Nat
        BY <1>1, <1>9, <3>2 DEF Cuts
      <4>2. cuts[j + 1] < cuts[Len(cuts)]
        BY <1>1, <1>9, <4>1 DEF Cuts
      <4> QED BY <2>1, <4>1, <4>2
    <3> QED BY <3>1, <3>2
  <2> QED BY SMTT(60), <1>1, <1>7, <1>20, <2>1, <2>2 DEF CutUp
<1>22. TypeOK'
  <2>1. rd' \in [st : Reading \cup ReaderEnd, ctr : Nat, got : Seq(WireByte), len : Nat]
    BY SMTT(60), <1>1, <1>17, EmptySeq DEF TypeOK, Reading
  <2> QED BY <1>1, <1>2, <1>3, <1>20, <2>1 DEF TypeOK
<1>23. Numbered' /\ ChunksWhole'
  <2>1. Numbered'
    BY <1>1, <1>3, <1>20, <1>21 DEF Numbered
  <2>2. ChunksWhole'
    BY <1>3, <1>9, <1>21 DEF ChunksWhole
  <2> QED BY <2>1, <2>2
<1>24. Consumed(n + Len(c))'
  <2>1. n + Len(c) = Start(cuts, j + 1)
    <3>1. Start(cuts, j + 1) = Start(cuts, j) + Overhead + len
      BY <1>1, StartNext DEF len
    <3>2. PICK a \in Nat : a = Start(cuts, j)
      BY <1>9
    <3>3. n = a + 2 + TagSize /\ Len(c) = len + TagSize /\ Start(cuts, j + 1) = a + Overhead + len
      BY <1>4, <1>7, <1>10, <3>1, <3>2
    <3>4. a + 2 + TagSize + (len + TagSize) = a + Overhead + len
      BY <1>4, <1>8 DEF Overhead
    <3> QED BY <3>3, <3>4
  <2>2. rd'.ctr = 2 * ((j + 1) - 1)
    BY <1>7, <1>9, <1>18
  <2>3. Len(rd'.got) < 2 + TagSize
    BY <1>4, <1>18, EmptySeq
  <2>4. \E i \in 1 .. Len(cuts') :
          n + Len(c) = Start(cuts', i) /\ rd'.ctr = 2 * (i - 1) /\ Len(received') = cuts'[i]
    BY <1>3, <1>9, <1>21, <2>1, <2>2
  <2> QED BY <1>3, <1>6, <1>18, <2>3, <2>4 DEF Consumed
<1>25. rd'.st \in Reading /\ Len(c) \in Nat
  BY <1>2, <1>18, LenProperties DEF Reading
<1>26. IInv'
  BY <1>2, <1>3, <1>5, <1>18, <1>22, <1>23, <1>24, <1>25, ReaderMoves
<1>27. Len(received) <= Len(received')
  BY <1>8, <1>20
<1> QED BY <1>18, <1>26, <1>27

(* What a step of read_exact does to the reader. *)
LEMMA ReadExactCases ==
  ASSUME IInv, NEW k \in 1 .. PipeCap, ReadExact(k)
  PROVE  /\ IInv' /\ rd'.st \notin {"eof", "unexpected_eof"}
         /\ received' = received \/ (rd'.st \in Reading /\ Len(received) <= Len(received'))
<1>1. PICK c \in {rd.got \o SubSeq(pipe, 1, k)} : c = rd.got \o SubSeq(pipe, 1, k)
  OBVIOUS
<1>2. /\ Takes(k, c) /\ rd.st \in {"iv", "len", "body"} /\ Len(rd.got) + k <= Wanted
      /\ rd' = IF Len(c) < Wanted THEN [rd EXCEPT !.got = c]
               ELSE CASE rd.st = "iv" -> HaveIv
                      [] rd.st = "len" -> HaveLen(c)
                      [] rd.st = "body" -> HaveBody(c)
      /\ received' = IF rd.st = "body" /\ rd'.st = "len" THEN received \o AeadDecrypt(c) ELSE received
  BY <1>1 DEF ReadExact, Takes
<1>3. TypeOK
  BY DEF IInv
<1>4. Len(c) = Len(rd.got) + k /\ Len(c) \in Nat
  BY <1>2, <1>3, TakesOff, ZenonT(60)
<1>5. Wanted \in Nat
  <2>1. rd.len \in Nat /\ TagSize \in Nat /\ SaltSize \in Nat
    BY <1>3, StreamAssumption DEF TypeOK
  <2>2. rd.len + TagSize \in Nat /\ 2 + TagSize \in Nat
    BY <2>1
  <2> QED BY <1>2, <2>1, <2>2 DEF Wanted
<1>6. CASE Len(c) < Wanted
  <2>1. rd' = [rd EXCEPT !.got = c]
    BY <1>2, <1>6
  <2>2. rd'.st = rd.st
    BY <1>3, <2>1 DEF TypeOK
  <2>3. received' = received
    BY <1>2, <2>2
  <2>4. IInv'
    BY <1>2, <1>6, <2>1, <2>3, ReadMore
  <2> QED BY <1>2, <2>2, <2>3, <2>4
<1>7. CASE ~(Len(c) < Wanted)
  <2>1. Len(c) = Wanted
    BY <1>2, <1>4, <1>5, <1>7
  <2>2. CASE rd.st = "iv"
    <3>1. rd' = HaveIv /\ received' = received
      BY <1>2, <1>7, <2>2
    <3>2. IInv'
      BY <1>2, <2>1, <2>2, <3>1, ReadIv
    <3>3. rd'.st \in {"len", "read"}
      BY <3>1 DEF HaveIv
    <3> QED BY <3>1, <3>2, <3>3
  <2>3. CASE rd.st = "len"
    <3>1. rd' = HaveLen(c) /\ received' = received
      BY <1>2, <1>7, <2>3
    <3>2. IInv'
      BY <1>2, <2>1, <2>3, <3>1, ReadLen
    <3>3. rd'.st \in {"decrypt_failed", "invalid", "panicked", "body"}
      BY <1>3, <3>1 DEF HaveLen, TypeOK
    <3> QED BY <3>1, <3>2, <3>3
  <2>4. CASE rd.st = "body"
    <3>1. /\ rd' = HaveBody(c)
          /\ received' = IF rd'.st = "len" THEN received \o AeadDecrypt(c) ELSE received
      BY <1>2, <1>7, <2>4
    <3>2. IInv' /\ rd'.st = "len" /\ Len(received) <= Len(received')
      BY <1>2, <2>1, <2>4, <3>1, ReadBody
    <3> QED BY <3>2 DEF Reading
  <2> QED BY <1>2, <2>2, <2>3, <2>4
<1> QED BY <1>6, <1>7

LEMMA StutterOK == IInv /\ UNCHANGED vars => IInv'
<1> SUFFICES ASSUME IInv, UNCHANGED vars PROVE IInv'
  OBVIOUS
<1>1. UNCHANGED <<cipher, wr, pipe, rd, sent, received, cuts>>
  BY DEF vars
<1>2. TypeOK' /\ WriterKnown' /\ EndedBy'
  BY <1>1 DEF IInv, TypeOK, WriterKnown, EndedBy, Decrypts, WriterGone
<1>3. Numbered' /\ CutUp' /\ ChunksWhole'
  BY <1>1, PayloadKept
<1>4. InStep'
  <2>1. Flight' = Flight /\ Total' = Total
    BY <1>1 DEF Flight, Total
  <2>2. ASSUME NEW n \in Nat, Consumed(n), Extent(n), Content(n)
        PROVE  Consumed(n)' /\ Extent(n)' /\ Content(n)'
    BY <1>1, <2>1, <2>2 DEF Consumed, Extent, Content
  <2>3. InStep
    BY DEF IInv
  <2> QED BY <1>1, <2>2, <2>3 DEF InStep
<1> QED BY <1>2, <1>3, <1>4 DEF IInv

LEMMA StepOK == IInv /\ [Next]_vars => IInv'
<1> SUFFICES ASSUME IInv, [Next]_vars PROVE IInv'
  OBVIOUS
<1>1. CASE SendIv
  BY <1>1, SendIvOK
<1>2. ASSUME NEW k \in 1 .. PipeCap, Flush(k) PROVE IInv'
  BY <1>2, FlushOK
<1>3. ASSUME NEW k \in 1 .. PipeCap, ReadExact(k) PROVE IInv'
  BY <1>3, ReadExactCases
<1>4. ASSUME NEW k \in 1 .. PipeCap, ReadStream(k) PROVE IInv'
  BY <1>4, ReadStreamOK
<1>5. ASSUME NEW n \in 1 .. MaxPacket, SendAll(n) PROVE IInv'
  BY <1>5, SendAllOK
<1>6. CASE WriteTimeout
  BY <1>6, WriteTimeoutOK
<1>7. CASE Close
  BY <1>7, CloseOK
<1>8. CASE ReadEof
  BY <1>8, ReadEofOK
<1>9. CASE ReadTimeout
  BY <1>9, ReadTimeoutOK
<1>10. CASE ConnectionReset
  BY <1>10, ConnectionResetOK
<1>11. CASE UNCHANGED vars
  BY <1>11, StutterOK
<1> QED BY <1>1, <1>2, <1>3, <1>4, <1>5, <1>6, <1>7, <1>8, <1>9, <1>10, <1>11
        DEF Next, WriterRuns, ReaderRuns

-----------------------------------------------------------------------------
(* The invariant holds whatever either end, TCP and the timeouts do: the   *)
(* reader's counter and the bytes on the wire fit the writer's.            *)
THEOREM Inductive == Spec => []IInv
BY InitOK, StepOK, PTL DEF Spec

(* With an AEAD cipher recv hands out whole chunks, however TCP cuts the   *)
(* bytes up and wherever a timeout, a reset or the end breaks them off.    *)
THEOREM ChunksArriveWhole == Spec => []ChunksWhole
<1>1. IInv => ChunksWhole
  BY DEF IInv
<1> QED BY <1>1, Inductive, PTL

(* What a writer of this project sent never fails to decrypt: writer and   *)
(* reader count nonces alike.                                              *)
THEOREM NeverFailsToDecrypt == Spec => []Decrypts
<1>1. IInv => Decrypts
  BY DEF IInv, EndedBy
<1> QED BY <1>1, Inductive, PTL

-----------------------------------------------------------------------------
(* Refinement *)

Told ==
  IF rd.st \in Reading THEN "no"
  ELSE IF wr.st = "closed" /\ rd.st \in {"eof", "unexpected_eof"} THEN "complete"
  ELSE "broken"

(* Numbered bytes are a prefix of more of them. *)
LEMMA NumberedPrefix ==
  ASSUME NEW s \in Seq(Nat), NEW t \in Seq(Nat), \A i \in 1 .. Len(s) : s[i] = i,
         \A i \in 1 .. Len(t) : t[i] = i, Len(s) <= Len(t)
  PROVE  Channel!IsPrefix(s, t) /\ (Len(s) = Len(t) => s = t)
<1>1. Len(s) \in Nat /\ Len(t) \in Nat
  BY LenProperties
<1>2. SubSeq(s, 1, Len(s)) = s
  BY SubSeqFull
<1>3. /\ SubSeq(t, 1, Len(s)) \in Seq(Nat) /\ Len(SubSeq(t, 1, Len(s))) = Len(s)
      /\ \A i \in 1 .. Len(s) : SubSeq(t, 1, Len(s))[i] = t[i]
  BY <1>1
<1>4. \A i \in 1 .. Len(s) : i \in 1 .. Len(t)
  BY <1>1
<1>5. SubSeq(t, 1, Len(s)) = s
  BY <1>3, <1>4, SeqEqual
<1>6. Len(s) = Len(t) => s = t
  BY SeqEqual
<1> QED BY <1>2, <1>5, <1>6 DEF Channel!IsPrefix

(* The writer closed between two sends and nothing is on its way: the      *)
(* reader is between two chunks and has handed out everything.             *)
LEMMA AllArrived ==
  ASSUME IInv, rd.st \in Reading, pipe = <<>>, wr.st = "closed"
  PROVE  received = sent
<1>1. TypeOK /\ Numbered /\ CutUp /\ WriterKnown /\ InStep /\ Cuts(cuts) /\ wr.out = <<>>
  BY DEF IInv, CutUp, WriterKnown
<1>2. PICK n \in Nat : Consumed(n) /\ Extent(n)
  BY <1>1 DEF InStep
<1>3. /\ Len(received) \in Nat /\ Len(sent) \in Nat /\ Len(cuts) \in Nat /\ Len(cuts) \in 1 .. Len(cuts)
      /\ SaltSize \in Nat /\ TagSize \in Nat /\ TagSize > 0 /\ Len(rd.got) \in Nat
  <2>1. /\ Len(received) \in Nat /\ Len(sent) \in Nat /\ Len(cuts) \in Nat /\ Len(cuts) > 0
        /\ SaltSize \in Nat /\ TagSize \in Nat /\ TagSize > 0 /\ Len(rd.got) \in Nat
    BY <1>1, LenProperties, StreamAssumption DEF TypeOK, Cuts
  <2> QED BY <2>1
<1>4. n + Len(rd.got) = Total
  <2>1. Len(Flight) = Len(rd.got) + (Len(pipe) + Len(wr.out))
    BY <1>1, FlightOK
  <2>2. Len(Flight) = Len(rd.got)
    BY <1>1, <1>3, <2>1, EmptySeq
  <2> QED BY <1>2, <2>2 DEF Extent
<1>5. Start(cuts, Len(cuts)) \in Nat /\ Start(cuts, Len(cuts)) >= SaltSize
  BY <1>1, <1>3, StartType
<1>6. Total = IF cipher = "aead" THEN Start(cuts, Len(cuts)) ELSE SaltSize + Len(sent)
  BY DEF Total
<1>7. Len(received) = Len(sent)
  <2>1. CASE rd.st = "iv"
    <3>1. n = 0 /\ Len(rd.got) < SaltSize
      BY <1>2, <2>1 DEF Consumed
    <3> QED BY <1>3, <1>4, <1>5, <1>6, <3>1
  <2>2. CASE rd.st = "read"
    <3>1. cipher = "stream" /\ Len(rd.got) = 0 /\ n = SaltSize + Len(received)
      BY <1>2, <2>2, EmptySeq DEF Consumed
    <3> QED BY <1>3, <1>4, <1>6, <3>1
  <2>3. CASE rd.st = "len"
    <3>1. cipher = "aead" /\ Len(rd.got) < 2 + TagSize
      BY <1>2, <2>3 DEF Consumed
    <3>2. PICK j \in 1 .. Len(cuts) : n = Start(cuts, j) /\ Len(received) = cuts[j]
      BY <1>2, <2>3 DEF Consumed
    <3>3. CASE j = Len(cuts)
      BY <1>1, <3>2, <3>3 DEF CutUp
    <3>4. CASE j # Len(cuts)
      <4>1. j \in 1 .. Len(cuts) - 1
        BY <1>3, <3>4
      <4>2. /\ ChunkLen(cuts, j) \in Nat
            /\ Start(cuts, j) + Overhead + ChunkLen(cuts, j) <= Start(cuts, Len(cuts))
        BY <1>1, <4>1, ChunkFacts
      <4>3. PICK w \in Nat, b \in Nat : w = ChunkLen(cuts, j) /\ b = Start(cuts, Len(cuts))
        BY <1>5, <4>2
      <4>4. n + Overhead + w <= b /\ n + Len(rd.got) = b /\ Overhead = 2 + TagSize + TagSize
        BY <1>4, <1>6, <3>1, <3>2, <4>2, <4>3 DEF Overhead
      <4> QED BY <1>3, <3>1, <4>4
    <3> QED BY <3>3, <3>4
  <2>4. CASE rd.st = "body"
    <3>1. cipher = "aead" /\ Len(rd.got) < rd.len + TagSize
      BY <1>2, <2>4 DEF Consumed
    <3>2. PICK j \in 1 .. Len(cuts) - 1 : n = Start(cuts, j) + 2 + TagSize /\ rd.len = ChunkLen(cuts, j)
      BY <1>2, <2>4 DEF Consumed
    <3>3. /\ ChunkLen(cuts, j) \in Nat /\ Start(cuts, j) \in Nat
          /\ Start(cuts, j) + Overhead + ChunkLen(cuts, j) <= Start(cuts, Len(cuts))
      BY <1>1, ChunkFacts
    <3>4. PICK a \in Nat, w \in Nat, b \in Nat :
            a = Start(cuts, j) /\ w = ChunkLen(cuts, j) /\ b = Start(cuts, Len(cuts))
      BY <1>5, <3>3
    <3>5. /\ a + Overhead + w <= b /\ n + Len(rd.got) = b /\ Overhead = 2 + TagSize + TagSize
          /\ n = a + 2 + TagSize /\ Len(rd.got) < w + TagSize
      BY <1>4, <1>6, <3>1, <3>2, <3>3, <3>4 DEF Overhead
    <3>6. PICK g \in Nat : g = Len(rd.got)
      BY <1>3
    <3>7. /\ a + (2 + TagSize + TagSize) + w <= (a + 2 + TagSize) + g
          /\ g < w + TagSize
      BY <3>5, <3>6
    <3>8. FALSE
      BY <1>3, <3>7
    <3> QED BY <3>8
  <2> QED BY <2>1, <2>2, <2>3, <2>4 DEF Reading
<1>8. /\ received \in Seq(Nat) /\ sent \in Seq(Nat) /\ Len(received) <= Len(sent)
      /\ (\A i \in 1 .. Len(received) : received[i] = i) /\ (\A i \in 1 .. Len(sent) : sent[i] = i)
  BY <1>1 DEF TypeOK, Numbered
<1>9. \A i \in 1 .. Len(received) : received[i] = sent[i]
  BY <1>7, <1>8
<1> QED BY <1>7, <1>8, <1>9, SeqEqual

(* Steps of the abstract stream, under the refinement mapping. *)
LEMMA Sending ==
  ASSUME IInv, IInv', ~WriterGone, ~WriterGone', UNCHANGED <<rd, received>>, Len(sent) <= Len(sent'),
         wr.st # "closed", wr'.st # "closed"
  PROVE  Channel!SendBytes
<1>1. Channel!IsPrefix(sent, sent')
  <2>1. /\ sent \in Seq(Nat) /\ sent' \in Seq(Nat) /\ \A i \in 1 .. Len(sent) : sent[i] = i
    BY DEF IInv, TypeOK, Numbered
  <2>2. \A i \in 1 .. Len(sent') : sent'[i] = i
    BY DEF IInv, Numbered
  <2> QED BY <2>1, <2>2, NumberedPrefix
<1>2. Told' = Told
  BY DEF Told
<1>3. WriterGone' = WriterGone
  BY DEF WriterGone
<1> QED BY <1>1, <1>2, <1>3 DEF Channel!SendBytes, Told

LEMMA Stopping ==
  ASSUME IInv, ~WriterGone, WriterGone', UNCHANGED <<rd, sent, received>>
  PROVE  Channel!StopSending
<1>1. rd.st \notin {"eof", "unexpected_eof"}
  BY DEF IInv, EndedBy
<1>2. Told' = Told
  BY <1>1 DEF Told
<1> QED BY <1>2 DEF Channel!StopSending, Told

LEMMA Delivering ==
  ASSUME IInv, IInv', rd.st \in Reading, rd'.st \in Reading, UNCHANGED <<wr, sent>>,
         Len(received) <= Len(received')
  PROVE  Channel!DeliverBytes
<1>1. /\ sent \in Seq(Nat) /\ received \in Seq(Nat) /\ received' \in Seq(Nat)
      /\ \A i \in 1 .. Len(sent) : sent[i] = i
  BY DEF IInv, TypeOK, Numbered
<1>2. \A i \in 1 .. Len(received) : received[i] = i
  BY DEF IInv, Numbered
<1>3. Len(received') <= Len(sent) /\ \A i \in 1 .. Len(received') : received'[i] = i
  BY DEF IInv, Numbered
<1>4. Channel!IsPrefix(received, received') /\ Channel!IsPrefix(received', sent)
  BY <1>1, <1>2, <1>3, NumberedPrefix
<1>5. Told = "no" /\ Told' = Told
  BY DEF Told
<1>6. WriterGone' = WriterGone
  BY DEF WriterGone
<1> QED BY <1>4, <1>5, <1>6 DEF Channel!DeliverBytes, Told

LEMMA Ending ==
  ASSUME IInv, rd.st \in Reading, rd'.st \in ReaderEnd, UNCHANGED <<wr, sent, received>>,
         rd'.st \in {"eof", "unexpected_eof"} => pipe = <<>>
  PROVE  Channel!EndComplete \/ Channel!EndBroken
<1>1. WriterGone' = WriterGone
  BY DEF WriterGone
<1>2. Told = "no" /\ Told' # "no"
  BY DEF Told, Reading, ReaderEnd
<1>3. CASE wr.st = "closed" /\ rd'.st \in {"eof", "unexpected_eof"}
  <2>1. received = sent
    BY <1>3, AllArrived
  <2>2. Told' = "complete" /\ WriterGone
    BY <1>2, <1>3 DEF Told, WriterGone
  <2> QED BY <1>1, <1>2, <2>1, <2>2 DEF Channel!EndComplete, Told
<1>4. CASE ~(wr.st = "closed" /\ rd'.st \in {"eof", "unexpected_eof"})
  <2>1. Told' = "broken"
    BY <1>2, <1>4 DEF Told
  <2> QED BY <1>1, <1>2, <2>1 DEF Channel!EndBroken, Told
<1> QED BY <1>3, <1>4

LEMMA InitRefines == Init => Channel!StreamInit
BY DEF Init, Channel!StreamInit, WriterGone, Reading

LEMMA StepRefines == IInv /\ IInv' /\ [Next]_vars => [Channel!StreamNext]_(Channel!streamVars)
<1> SUFFICES ASSUME IInv, IInv', [Next]_vars
             PROVE  Channel!StreamNext \/ UNCHANGED Channel!streamVars
  OBVIOUS
<1>0. Len(sent) \in Nat /\ Len(received) \in Nat
  BY LenProperties DEF IInv, TypeOK
<1>1. CASE SendIv
  <2>1. UNCHANGED <<rd, sent, received>> /\ wr.st = "new" /\ wr'.st = "writing"
    BY <1>1 DEF SendIv, IInv, TypeOK
  <2>2. Channel!SendBytes
    BY <1>0, <2>1, Sending DEF WriterGone
  <2> QED BY <2>2 DEF Channel!StreamNext
<1>2. ASSUME NEW k \in 1 .. PipeCap, Flush(k)
      PROVE  Channel!StreamNext \/ UNCHANGED Channel!streamVars
  <2>1. UNCHANGED <<rd, sent, received>> /\ wr.st = "writing" /\ wr'.st \in {"ready", "writing"}
    BY <1>2 DEF Flush, IInv, TypeOK
  <2>2. Channel!SendBytes
    BY <1>0, <2>1, Sending DEF WriterGone
  <2> QED BY <2>2 DEF Channel!StreamNext
<1>3. ASSUME NEW k \in 1 .. PipeCap, ReadExact(k)
      PROVE  Channel!StreamNext \/ UNCHANGED Channel!streamVars
  <2>1. UNCHANGED <<wr, sent>> /\ rd.st \in Reading
    BY <1>3 DEF ReadExact, Reading
  <2>2. /\ rd'.st \notin {"eof", "unexpected_eof"}
        /\ received' = received \/ (rd'.st \in Reading /\ Len(received) <= Len(received'))
    BY <1>3, ReadExactCases
  <2>3. rd'.st \in Reading \cup ReaderEnd
    BY DEF IInv, TypeOK
  <2>4. CASE rd'.st \in Reading
    <3>1. Channel!DeliverBytes
      BY <1>0, <2>1, <2>2, <2>4, Delivering
    <3> QED BY <3>1 DEF Channel!StreamNext
  <2>5. CASE rd'.st \notin Reading
    <3>1. Channel!EndComplete \/ Channel!EndBroken
      BY <2>1, <2>2, <2>3, <2>5, Ending
    <3> QED BY <3>1 DEF Channel!StreamNext
  <2> QED BY <2>4, <2>5
<1>4. ASSUME NEW k \in 1 .. PipeCap, ReadStream(k)
      PROVE  Channel!StreamNext \/ UNCHANGED Channel!streamVars
  <2>1. UNCHANGED <<wr, sent>> /\ rd.st \in Reading
    BY <1>4 DEF ReadStream, Reading
  <2>2. rd'.st \in Reading /\ Len(received) <= Len(received')
    BY <1>4, ReadStreamOK
  <2>3. Channel!DeliverBytes
    BY <2>1, <2>2, Delivering
  <2> QED BY <2>3 DEF Channel!StreamNext
<1>5. ASSUME NEW n \in 1 .. MaxPacket, SendAll(n)
      PROVE  Channel!StreamNext \/ UNCHANGED Channel!streamVars
  <2>1. UNCHANGED <<rd, received>> /\ wr.st = "ready"
    BY <1>5 DEF SendAll
  <2>2. CASE cipher = "aead" /\ OutputLength(n) > wr.buf
    <3>1. UNCHANGED sent /\ wr'.st = "panicked"
      BY <1>5, <2>2 DEF SendAll, IInv, TypeOK
    <3>2. Channel!StopSending
      BY <2>1, <3>1, Stopping DEF WriterGone
    <3> QED BY <3>2 DEF Channel!StreamNext
  <2>3. CASE ~(cipher = "aead" /\ OutputLength(n) > wr.buf)
    <3> DEFINE data == [i \in 1 .. n |-> Len(sent) + i]
    <3>1. sent' = sent \o data /\ wr'.st = "writing"
      BY <1>5, <2>3 DEF SendAll, IInv, TypeOK
    <3>2. Len(sent \o data) = Len(sent) + n /\ n \in Nat
      <4>1. n \in Nat
        BY StreamAssumption
      <4>2. sent \in Seq(Nat) /\ \A i \in 1 .. Len(sent) : sent[i] = i
        BY DEF IInv, TypeOK, Numbered
      <4>3. data = [i \in 1 .. n |-> Len(sent) + i]
        OBVIOUS
      <4> HIDE DEF data
      <4> QED BY <4>1, <4>2, <4>3, NumberedOn
    <3> HIDE DEF data
    <3>3. Len(sent) <= Len(sent')
      BY <1>0, <3>1, <3>2
    <3>4. Channel!SendBytes
      BY <2>1, <3>1, <3>3, Sending DEF WriterGone
    <3> QED BY <3>4 DEF Channel!StreamNext
  <2> QED BY <2>2, <2>3
<1>6. CASE WriteTimeout \/ Close
  <2>1. /\ UNCHANGED <<rd, sent, received>> /\ wr.st \in {"ready", "writing"}
        /\ wr'.st \in {"failed", "closed"}
    BY <1>6 DEF WriteTimeout, Close, IInv, TypeOK
  <2>2. Channel!StopSending
    BY <2>1, Stopping DEF WriterGone
  <2> QED BY <2>2 DEF Channel!StreamNext
<1>7. CASE ReadEof \/ ReadTimeout \/ ConnectionReset
  <2>1. /\ rd.st \in Reading /\ UNCHANGED <<wr, sent, received>>
        /\ rd'.st \in {"eof", "unexpected_eof", "timed_out", "reset"}
        /\ rd'.st \in {"eof", "unexpected_eof"} => pipe = <<>>
    BY <1>7 DEF ReadEof, ReadTimeout, ConnectionReset, IInv, TypeOK
  <2>2. Channel!EndComplete \/ Channel!EndBroken
    BY <2>1, Ending DEF ReaderEnd
  <2> QED BY <2>2 DEF Channel!StreamNext
<1>8. CASE UNCHANGED vars
  BY <1>8 DEF vars, Channel!streamVars, WriterGone
<1> QED BY <1>1, <1>2, <1>3, <1>4, <1>5, <1>6, <1>7, <1>8 DEF Next, WriterRuns, ReaderRuns

(* Reader and writer implement a byte stream: what recv hands out is a     *)
(* prefix of what send_all was given, nothing follows the end, and a       *)
(* reader that meets the end of a connection the writer closed between     *)
(* two sends has got everything.                                           *)
THEOREM StreamImplementsByteStream == Spec => ImplementsByteStream
<1>1. IInv /\ IInv' /\ [Next]_vars => [Channel!StreamNext]_(Channel!streamVars)
  BY StepRefines
<1> QED BY <1>1, InitRefines, Inductive, PTL DEF Spec, ImplementsByteStream, Channel!StreamSpec
=============================================================================
