----------------------------- MODULE MCScheduler -----------------------------
(* Scheduler on small instances. *)
EXTENDS Scheduler, TLC
CONSTANTS a, b

Interchangeable == Permutations({a, b})
=============================================================================
