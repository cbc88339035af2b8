-------------------------- MODULE EncryptedStream --------------------------
(***************************************************************************)
(* One direction of a connection to a shadowsocks server: the writer and   *)
(* the reader of ssclient/src/encrypted_stream over a TCP connection, for  *)
(* a stream cipher and for an AEAD cipher.                                 *)
(*                                                                         *)
(* Ciphers are symbolic: a byte on the wire carries what it was encrypted  *)
(* under (the position in the key stream, or the nonce of its chunk), and  *)
(* only a reader at the same place makes sense of it.  Bytes of the        *)
(* payload are numbered in the order they are sent.  TCP moves any number  *)
(* of bytes at a time and loses none; either end may give up by a timeout. *)
(***************************************************************************)
EXTENDS Naturals, Sequences, FiniteSets

CONSTANTS
  MaxPacket,  \* MAX_PACKET_SIZE, the size of the reader's buffers
  PeerBuf,    \* size of the buffer of a writer that is not this client's
  TagSize,    \* CipherType::tag_size
  SaltSize,   \* CipherType::salt_size, iv_size
  Block,      \* SODIUM_BLOCK_SIZE
  PipeCap,    \* bytes TCP holds between the two ends
  MaxBytes    \* bound on the payload of a connection

ASSUME StreamAssumption ==
  /\ {MaxPacket, PeerBuf, TagSize, SaltSize, Block, PipeCap, MaxBytes} \subseteq Nat
  /\ MaxPacket > 0 /\ TagSize > 0 /\ SaltSize > 0 /\ Block > 0 /\ PipeCap > 0

VARIABLES
  cipher,    \* CipherCategory of the connection
  wr,        \* the writer: st, counter of its cipher, bytes write_all has left, size of buf
  pipe,      \* bytes on their way
  rd,        \* the reader: st, counter of its cipher, bytes read_exact has, len
  sent,      \* payload encrypted so far
  received,  \* payload handed out by recv so far
  cuts       \* lengths of sent at which a chunk began or ended (a history variable)

vars == <<cipher, wr, pipe, rd, sent, received, cuts>>

Byte(under, kind, val) == [under |-> under, kind |-> kind, val |-> val]

Reading == {"iv", "len", "body", "read"}
WriterGone == wr.st \notin {"new", "ready", "writing"}

Min2(a, b) == IF a < b THEN a ELSE b

Init ==
  /\ cipher \in {"stream", "aead"}
  /\ \E size \in {MaxPacket, PeerBuf} :
       wr = [st |-> "new", ctr |-> 0, out |-> <<>>, buf |-> size]
  /\ pipe = <<>>
  /\ rd = [st |-> "iv", ctr |-> 0, got |-> <<>>, len |-> 0]
  /\ sent = <<>> /\ received = <<>> /\ cuts = <<0>>

-----------------------------------------------------------------------------
(* The ciphers *)

(* Position in the key stream of byte i of an update: the library starts   *)
(* at a block, and the bytes of it that are used up are padded away.       *)
KeyPos(ctr, i) == Block * (ctr \div Block) + (ctr % Block) + i

(* StreamCipher::update, encrypting and decrypting. *)
StreamEncrypt(data, ctr) == [i \in 1 .. Len(data) |-> Byte(KeyPos(ctr, i), "data", data[i])]

(* Fault: a cipher per read, which starts at the first block again. *)
StreamDecryptAnew(c, ctr) ==
  [i \in 1 .. Len(c) |-> IF c[i].under = KeyPos(0, i) THEN c[i].val ELSE 0]

StreamDecrypt(c, ctr) ==
  [i \in 1 .. Len(c) |-> IF c[i].under = KeyPos(ctr, i) THEN c[i].val ELSE 0]

(* AeadEncryptor::encrypt: the text followed by a tag over all of it. *)
AeadEncrypt(data, nonce) ==
  [i \in 1 .. Len(data) + TagSize |->
     IF i <= Len(data) THEN Byte(nonce, "data", data[i]) ELSE Byte(nonce, "tag", Len(data))]

(* AeadDecryptor::decrypt succeeds on what encrypt made under the nonce. *)
Opens(c, nonce) ==
  /\ Len(c) >= TagSize
  /\ c = AeadEncrypt([i \in 1 .. Len(c) - TagSize |-> c[i].val], nonce)

AeadDecrypt(c) == [i \in 1 .. Len(c) - TagSize |-> c[i].val]

-----------------------------------------------------------------------------
(* The writer *)

(* buffer_size *)
OutputLength(n) == 2 + TagSize + n + TagSize

(* send_iv *)
SendIv ==
  /\ wr.st = "new"
  /\ wr' = [wr EXCEPT !.st = "writing",
                      !.out = [i \in 1 .. SaltSize |-> Byte(0, "iv", i)]]
  /\ UNCHANGED <<cipher, pipe, rd, sent, received, cuts>>

(* aead_encrypted_write: the length and the data, each under a nonce of    *)
(* its own, into a buffer of fixed size.                                   *)
AeadChunk(data, nonce) ==
  AeadEncrypt(<<Len(data) \div 256, Len(data) % 256>>, nonce) \o AeadEncrypt(data, nonce + 1)

(* send_all, and send_addr for the first payload.  The slice of the AEAD   *)
(* writer's buffer panics when the chunk does not fit.                     *)
SendAll(n) ==
  /\ wr.st = "ready"
  /\ Len(sent) + n <= MaxBytes
  /\ LET data == [i \in 1 .. n |-> Len(sent) + i] IN
     IF cipher = "aead" /\ OutputLength(n) > wr.buf
     THEN /\ wr' = [wr EXCEPT !.st = "panicked"]
          /\ UNCHANGED <<sent, cuts>>
     ELSE /\ wr' = [wr EXCEPT !.st = "writing",
                              !.ctr = @ + IF cipher = "aead" THEN 2 ELSE n,
                              !.out = IF cipher = "aead" THEN AeadChunk(data, wr.ctr)
                                      ELSE StreamEncrypt(data, wr.ctr)]
          /\ sent' = sent \o data
          /\ cuts' = Append(cuts, Len(sent'))
  /\ UNCHANGED <<cipher, pipe, rd, received>>

(* write_all hands bytes to TCP as it has room, until none is left. *)
Flush(k) ==
  /\ wr.st = "writing"
  /\ k <= Len(wr.out) /\ Len(pipe) + k <= PipeCap
  /\ pipe' = pipe \o SubSeq(wr.out, 1, k)
  /\ wr' = [wr EXCEPT !.out = SubSeq(@, k + 1, Len(@)),
                      !.st = IF k = Len(wr.out) THEN "ready" ELSE "writing"]
  /\ UNCHANGED <<cipher, rd, sent, received, cuts>>

(* The write timeout drops write_all half done; the relay then ends. *)
WriteTimeout ==
  /\ wr.st = "writing"
  /\ wr' = [wr EXCEPT !.st = "failed", !.out = <<>>]
  /\ UNCHANGED <<cipher, pipe, rd, sent, received, cuts>>

(* The relay ends between two sends and drops the connection. *)
Close ==
  /\ wr.st = "ready"
  /\ wr' = [wr EXCEPT !.st = "closed"]
  /\ UNCHANGED <<cipher, pipe, rd, sent, received, cuts>>

-----------------------------------------------------------------------------
(* The reader *)

(* What a read asks TCP for. *)
Wanted ==
  CASE rd.st = "iv" -> SaltSize
    [] rd.st = "len" -> 2 + TagSize
    [] rd.st = "body" -> rd.len + TagSize
    [] OTHER -> MaxPacket

(* recv_iv is complete: the decryptor is made from it. *)
HaveIv == [st |-> IF cipher = "aead" THEN "len" ELSE "read", ctr |-> 0, got |-> <<>>, len |-> 0]

(* Fault: the nonce is increased per chunk, not per decryption. *)
HaveLenSameNonce(c) ==
  IF ~Opens(c, rd.ctr) THEN [rd EXCEPT !.st = "decrypt_failed"]
  ELSE [st |-> "body", ctr |-> rd.ctr, got |-> <<>>, len |-> AeadDecrypt(c)[2]]

(* aead_decrypted_read has the length.  Its limit is the size of the       *)
(* buffer, but the tag has to fit in it too: a longer slice panics.        *)
HaveLen(c) ==
  LET len == 256 * AeadDecrypt(c)[1] + AeadDecrypt(c)[2] IN
  IF ~Opens(c, rd.ctr) THEN [rd EXCEPT !.st = "decrypt_failed"]
  ELSE IF len > MaxPacket THEN [rd EXCEPT !.st = "invalid"]
  ELSE IF len + TagSize > MaxPacket THEN [rd EXCEPT !.st = "panicked"]
  ELSE [st |-> "body", ctr |-> rd.ctr + 1, got |-> <<>>, len |-> len]

(* ... and the data: recv returns it. *)
HaveBody(c) ==
  IF ~Opens(c, rd.ctr) THEN [rd EXCEPT !.st = "decrypt_failed"]
  ELSE [st |-> "len", ctr |-> rd.ctr + 1, got |-> <<>>, len |-> 0]

(* Fault: a piece of a chunk is taken for all of it. *)
ReadShort(k) ==
  /\ rd.st \in {"iv", "len", "body"}
  /\ k <= Len(pipe) /\ Len(rd.got) + k <= Wanted
  /\ LET c == rd.got \o SubSeq(pipe, 1, k) IN
     /\ rd' = IF rd.st = "body" THEN [rd EXCEPT !.st = "len", !.ctr = @ + 1, !.got = <<>>]
              ELSE IF Len(c) < Wanted THEN [rd EXCEPT !.got = c]
              ELSE IF rd.st = "iv" THEN HaveIv ELSE HaveLen(c)
     /\ received' = IF rd.st = "body"
                    THEN received \o [i \in 1 .. Min2(Len(c), rd.len) |-> c[i].val]
                    ELSE received
  /\ pipe' = SubSeq(pipe, k + 1, Len(pipe))
  /\ UNCHANGED <<cipher, wr, sent, cuts>>

(* read_exact gets another piece; the last one completes the step. *)
ReadExact(k) ==
  /\ rd.st \in {"iv", "len", "body"}
  /\ k <= Len(pipe) /\ Len(rd.got) + k <= Wanted
  /\ LET c == rd.got \o SubSeq(pipe, 1, k)
         next == IF Len(c) < Wanted THEN [rd EXCEPT !.got = c]
                 ELSE CASE rd.st = "iv" -> HaveIv
                        [] rd.st = "len" -> HaveLen(c)
                        [] rd.st = "body" -> HaveBody(c)
     IN /\ rd' = next
        /\ received' = IF rd.st = "body" /\ next.st = "len" THEN received \o AeadDecrypt(c)
                       ELSE received
  /\ pipe' = SubSeq(pipe, k + 1, Len(pipe))
  /\ UNCHANGED <<cipher, wr, sent, cuts>>

(* StreamEncryptedReader::recv takes what there is. *)
ReadStream(k) ==
  /\ rd.st = "read"
  /\ k <= Len(pipe) /\ k <= Wanted
  /\ received' = received \o StreamDecrypt(SubSeq(pipe, 1, k), rd.ctr)
  /\ rd' = [rd EXCEPT !.ctr = @ + k]
  /\ pipe' = SubSeq(pipe, k + 1, Len(pipe))
  /\ UNCHANGED <<cipher, wr, sent, cuts>>

(* The connection is at its end: recv returns 0 for a stream cipher, but   *)
(* read_exact fails, also between two chunks.                              *)
ReadEof ==
  /\ rd.st \in Reading
  /\ pipe = <<>> /\ WriterGone
  /\ rd' = [rd EXCEPT !.st = IF @ = "read" THEN "eof" ELSE "unexpected_eof"]
  /\ UNCHANGED <<cipher, wr, pipe, sent, received, cuts>>

(* The read timeout drops a read half done; the relay then ends. *)
ReadTimeout ==
  /\ rd.st \in Reading
  /\ rd' = [rd EXCEPT !.st = "timed_out"]
  /\ UNCHANGED <<cipher, wr, pipe, sent, received, cuts>>

(* The connection is reset: what is under way is lost. *)
ConnectionReset ==
  /\ rd.st \in Reading
  /\ rd' = [rd EXCEPT !.st = "reset"]
  /\ pipe' = <<>>
  /\ UNCHANGED <<cipher, wr, sent, received, cuts>>

-----------------------------------------------------------------------------
WriterRuns == SendIv \/ \E k \in 1 .. PipeCap : Flush(k)
ReaderRuns == \E k \in 1 .. PipeCap : ReadExact(k) \/ ReadStream(k)

Next ==
  \/ WriterRuns \/ ReaderRuns
  \/ \E n \in 1 .. MaxPacket : SendAll(n)
  \/ WriteTimeout \/ Close \/ ReadEof \/ ReadTimeout \/ ConnectionReset

Spec == Init /\ [][Next]_vars

(* TCP makes progress and both tasks are polled when it does. *)
FairSpec == Spec /\ WF_vars(WriterRuns) /\ WF_vars(ReaderRuns)

-----------------------------------------------------------------------------
ReaderEnd == {"eof", "unexpected_eof", "timed_out", "decrypt_failed", "invalid", "panicked", "reset"}

(* With an AEAD cipher recv hands out whole chunks: whatever ends the      *)
(* connection, the application never gets part of one send_all.            *)
ChunksWhole ==
  cipher = "aead" => \E j \in 1 .. Len(cuts) : cuts[j] = Len(received)

(* Reader and writer implement a byte stream: order is kept, nothing comes *)
(* after the end, and when the writer closed between two sends, a reader   *)
(* that reaches the end has got everything.                                *)
Channel ==
  INSTANCE ByteStream WITH
    closed <- WriterGone,
    ended <- IF rd.st \in Reading THEN "no"
             ELSE IF wr.st = "closed" /\ rd.st \in {"eof", "unexpected_eof"} THEN "complete"
             ELSE "broken"

ImplementsByteStream == Channel!StreamSpec

(* Everything written arrives, unless an end gives up or breaks off.  What *)
(* the other end wrote never fails to decrypt: writer and reader count     *)
(* nonces alike however TCP cuts the bytes up.                             *)
SentArrives ==
  \A k \in 1 .. MaxBytes :
    Len(sent) >= k ~>
      \/ Len(received) >= k
      \/ rd.st \in ReaderEnd \ {"decrypt_failed", "invalid"}
      \/ wr.st \in {"failed", "panicked"}
=============================================================================
