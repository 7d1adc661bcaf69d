---------------------------- MODULE ByteChannel ----------------------------
(***************************************************************************)
(* What a pipe promises: a bounded queue of bytes.  Messages enter as a    *)
(* whole, and a read takes a non-empty prefix of what is queued or throws  *)
(* all of it away.  received is what was ever taken out, and sent is that  *)
(* followed by what is queued.                                             *)
(***************************************************************************)
EXTENDS Naturals, Sequences, SequencesExt

CONSTANTS Messages, Size

VARIABLES sent, received

Init == sent = <<>> /\ received = <<>>

Put(m) ==
    /\ Len(sent) + Len(m) <= Len(received) + Size
    /\ sent' = sent \o m
    /\ UNCHANGED received

Get(n) ==
    /\ received' = SubSeq(sent, 1, Len(received) + n)
    /\ UNCHANGED sent

Discard == sent' = received /\ UNCHANGED received

Next == \/ \E m \in Messages : Put(m)
        \/ \E n \in 1..(Len(sent) - Len(received)) : Get(n)
        \/ Discard

Spec == Init /\ [][Next]_<<sent, received>>
=============================================================================
