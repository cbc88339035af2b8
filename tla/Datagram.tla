------------------------------ MODULE Datagram ------------------------------
(***************************************************************************)
(* What a UDP packet between the client and a shadowsocks server holds:    *)
(* the addresses of config/src/socks5.rs and the encryption of             *)
(* ssclient/src/udp_io.rs.  Bytes are numbers; a ciphertext byte, a byte   *)
(* of the salt or IV and a byte of the tag are records of their own, which *)
(* only the key they were made with opens.                                 *)
(***************************************************************************)
EXTENDS Naturals, Sequences, SequencesExt

CONSTANTS
  SaltSize,  \* CipherType::salt_size or iv_size
  TagSize    \* CipherType::tag_size

ASSUME DatagramAssumption == SaltSize \in Nat /\ TagSize \in Nat

Drop(s, n) == SubSeq(s, n + 1, Len(s))

Byte == 0..255
U16 == 0..65535

(* Address: a socket address with 4 or 16 bytes, or a domain name. *)
U16Be(n) == <<n \div 256, n % 256>>
TypeByte == [V4 |-> 1, Domain |-> 3, V6 |-> 4]

WriteAddress(addr) ==
  (IF addr.kind = "Domain" THEN <<TypeByte.Domain, Len(addr.host)>> ELSE <<TypeByte[addr.kind]>>)
    \o addr.host \o U16Be(addr.port)

(* get_addr_len *)
AddrLen(addr) ==
  CASE addr.kind = "V4" -> 1 + 4 + 2
    [] addr.kind = "V6" -> 1 + 8 * 2 + 2
    [] addr.kind = "Domain" -> 1 + 1 + Len(addr.host) + 2

NoAddress == [kind |-> "Err", host |-> <<>>, port |-> 0]

(* A host of n bytes from byte k on, and its port; an error if the reader  *)
(* runs out of bytes.  (Names are those of Strings, so that from_utf8      *)
(* accepts them.)                                                          *)
ReadHost(kind, s, k, n) ==
  IF Len(s) < k + n + 1 THEN NoAddress
  ELSE [kind |-> kind, host |-> SubSeq(s, k, k + n - 1), port |-> 256 * s[k + n] + s[k + n + 1]]

(* read_address *)
ReadAddress(s) ==
  CASE s = <<>> -> NoAddress
    [] s # <<>> /\ s[1] = TypeByte.V4 -> ReadHost("V4", s, 2, 4)
    [] s # <<>> /\ s[1] = TypeByte.V6 -> ReadHost("V6", s, 2, 16)
    [] s # <<>> /\ s[1] = TypeByte.Domain ->
         IF Len(s) = 1 THEN NoAddress ELSE ReadHost("Domain", s, 3, s[2])
    [] OTHER -> NoAddress

-----------------------------------------------------------------------------
(* Ciphers, each packet under a salt or IV of its own *)

SaltBytes(salt) == [i \in 1..SaltSize |-> [salt |-> salt, at |-> i]]
Sealed(salt, s) == [i \in DOMAIN s |-> [salt |-> salt, at |-> i, byte |-> s[i]]]
TagBytes(salt) == [i \in 1..TagSize |-> [salt |-> salt, tag |-> i]]

EncryptPayload(cipher, salt, payload) ==
  SaltBytes(salt) \o Sealed(salt, payload) \o (IF cipher = "aead" THEN TagBytes(salt) ELSE <<>>)

(* A packet that is too short, or, for AEAD, not as it was sealed, is an   *)
(* error.  A stream cipher opens whatever it is given, if it is no shorter *)
(* than the IV (the code's slice panics on one that is; none is made here).*)
Broken == [ok |-> FALSE, payload |-> <<>>]
DecryptPayload(cipher, packet) ==
  LET tag == IF cipher = "aead" THEN TagSize ELSE 0
      data == SubSeq(packet, SaltSize + 1, Len(packet) - tag)
      open == [i \in DOMAIN data |-> data[i].byte]
  IN CASE Len(packet) < tag + SaltSize -> Broken
       [] Len(packet) >= tag + SaltSize ->
            IF cipher = "aead" /\ packet # EncryptPayload(cipher, packet[1].salt, open)
            THEN Broken
            ELSE [ok |-> TRUE, payload |-> open]
=============================================================================
