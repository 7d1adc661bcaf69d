----------------------------- MODULE MCProcess ------------------------------
(* Process for TLC: init, a parent and a child. *)
EXTENDS Process

AllSelectors == {-1, 0, 3}
SomeSelectors == {-1}
=============================================================================
