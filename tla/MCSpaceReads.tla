---------------------------- MODULE MCSpaceReads ----------------------------
(* A small instance of SpaceReads: a parent that names its child twice. *)
EXTENDS SpaceReads, TLC

CONSTANTS p, c

PairRefs == p :> <<c, c>> @@ c :> <<>>
PairRank == p :> 1 @@ c :> 0
RootOn(h, d) == [x \in Hash |-> IF x = h THEN d ELSE 0]
ParentRoots == {RootOn(p, 1), RootOn(p, -1)}

=============================================================================
