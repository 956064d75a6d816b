----------------------------- MODULE MCSpaceCas -----------------------------
(* Small instances of SpaceCas. *)
EXTENDS SpaceCas, TLC

CONSTANTS p, c

\* A parent that names its only child twice.
PairRefs == p :> <<c, c>> @@ c :> <<>>
PairRank == p :> 1 @@ c :> 0

\* A single leaf.
LeafRefs == c :> <<>>
LeafRank == c :> 0

\* Root changes: commit p, move the root from p to c in one update, release c.
RootOn(h, d) == [x \in Hash |-> IF x = h THEN d ELSE 0]
PairRoots == {RootOn(p, 1), p :> -1 @@ c :> 1, RootOn(c, -1)}
LeafRoots == {RootOn(c, 1), RootOn(c, -1)}

=============================================================================
