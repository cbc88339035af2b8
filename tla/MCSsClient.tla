----------------------------- MODULE MCSsClient -----------------------------
(* An instance of SsClient: two servers with distinct names, the second of *)
(* which refuses every connection, two requests at a time, a pool of two   *)
(* idle connections.                                                       *)
EXTENDS SsClient

MCNameOf == [i \in Server |-> i]
MCRefusing == {1}

(* Connections are alike, so the one that is made may as well be the first *)
(* that is free.                                                           *)
FirstFree == \A c \in Fresh \ Fresh', d \in Fresh : c <= d
=============================================================================
