----------------------------- MODULE ByteStream -----------------------------
(***************************************************************************)
(* What one direction of a connection promises its two ends, whatever is   *)
(* underneath: bytes arrive in the order they were sent, and an end that   *)
(* the sender intended arrives after the last of them.                     *)
(***************************************************************************)
EXTENDS Sequences, SequencesExt

VARIABLES
  sent,      \* bytes accepted from the sender
  received,  \* bytes given to the receiver
  closed,    \* the sender will send no more
  ended      \* "no", "complete" or "broken": what the receiver was told

streamVars == <<sent, received, closed, ended>>

StreamInit ==
  /\ sent = <<>> /\ received = <<>>
  /\ closed = FALSE /\ ended = "no"

SendBytes ==
  /\ ~closed
  /\ IsPrefix(sent, sent')
  /\ UNCHANGED <<received, closed, ended>>

StopSending == ~closed /\ closed' /\ UNCHANGED <<sent, received, ended>>

DeliverBytes ==
  /\ ended = "no"
  /\ IsPrefix(received, received') /\ IsPrefix(received', sent)
  /\ UNCHANGED <<sent, closed, ended>>

EndComplete ==
  /\ ended = "no" /\ closed /\ received = sent
  /\ ended' = "complete"
  /\ UNCHANGED <<sent, received, closed>>

EndBroken ==
  /\ ended = "no" /\ ended' = "broken"
  /\ UNCHANGED <<sent, received, closed>>

StreamNext == SendBytes \/ StopSending \/ DeliverBytes \/ EndComplete \/ EndBroken

StreamSpec == StreamInit /\ [][StreamNext]_streamVars
=============================================================================
