---------------------------- MODULE MCIdempotency ----------------------------
(* Idempotency with interchangeable requests and bodies.                   *)
EXTENDS Idempotency, TLC

Interchangeable == Permutations(Requests) \cup Permutations(Bodies)
=============================================================================
