----------------------------- MODULE MCRootRefs -----------------------------
(* Small instances of RootRefs. *)
EXTENDS RootRefs, TLC

CONSTANTS a, b

\* Take a root on a; move it from a to b.
Take == a :> 1 @@ b :> 0
Move == a :> -1 @@ b :> 1
TakeOrMove == {Take, Move}

=============================================================================
