-------------------------- MODULE MCEmailChallenge --------------------------
(* TLC instances of EmailChallenge. *)
EXTENDS EmailChallenge, TLC

(* Requests are interchangeable slots. *)
RequestSymmetry == Permutations(Requests)
=============================================================================
