------------------------------ MODULE MCSemSet ------------------------------
(* SemSet for TLC: the lists of operations. *)
EXTENDS SemSet

CONSTANTS p1, p2, p3

Op(s, n) == [num |-> s, op |-> n, nowait |-> FALSE]
NowaitOp(s, n) == [num |-> s, op |-> n, nowait |-> TRUE]

(* A lock and its release, waiting for zero, and a second semaphore that moves
   together with the first; ... *)
LockOps == {<<Op(1, -1)>>, <<Op(1, 1)>>, <<Op(1, 0)>>,
            <<Op(1, -1), Op(2, 1)>>, <<NowaitOp(2, -1), Op(1, 1)>>}

(* ... a wait on the second semaphore alone, a semaphore taken twice, a list
   longer than the set that waits at its end, and a semaphore that is not
   there. *)
OtherOps == {<<Op(2, -1)>>, <<Op(1, -1), Op(1, -1)>>,
             <<Op(1, 1), Op(2, 1), Op(1, -2)>>, <<Op(3, 1)>>}

AllOps == LockOps \cup OtherOps
=============================================================================
