------------------------------ MODULE MCRefunds ------------------------------
(* Refunds with interchangeable workers and references.                    *)
EXTENDS Refunds, TLC

Interchangeable == Permutations(Workers) \cup Permutations(Refs)
=============================================================================
