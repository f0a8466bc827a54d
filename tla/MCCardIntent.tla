----------------------------- MODULE MCCardIntent -----------------------------
(* CardIntent with two interchangeable workers.                            *)
EXTENDS CardIntent, TLC

WorkerSymmetry == Permutations(Workers)
=============================================================================
