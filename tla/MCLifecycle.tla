---------------------------- MODULE MCLifecycle ----------------------------
(* An instance of Lifecycle: contents shorter and longer than the own one. *)
EXTENDS Lifecycle

MCOwn == <<1, 2>>
MCContents == {<<>>, <<3>>, <<4, 5>>, <<6, 7, 8>>}
=============================================================================
