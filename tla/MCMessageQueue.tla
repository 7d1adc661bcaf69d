--------------------------- MODULE MCMessageQueue ---------------------------
(* MessageQueue for TLC: selectors for any type, for one, and for a range. *)
EXTENDS MessageQueue

AllSelectors == {0, 2, -1}
=============================================================================
