------------------------------- MODULE MCPipe -------------------------------
(* Pipe for TLC: reads of nothing, of one byte and of all that the buffer can
   hold; writes of nothing, of more than half the buffer and of more than all. *)
EXTENDS Pipe

SomeReads == {0, 1, Size}
SomeWrites == {0, Size - 1, Size + 1}
=============================================================================
