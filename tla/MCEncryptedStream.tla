------------------------- MODULE MCEncryptedStream -------------------------
(* Instances of EncryptedStream: packets of up to five bytes from a peer   *)
(* with a larger buffer, blocks of two bytes, a pipe shorter than a chunk. *)
EXTENDS EncryptedStream
=============================================================================
