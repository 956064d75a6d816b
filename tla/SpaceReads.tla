----------------------------- MODULE SpaceReads -----------------------------
(***************************************************************************)
(* Metadata and content reads of a Space.  They do not enter the mutation  *)
(* gate: the row, the ordered references and the content are read with a   *)
(* call each, and any step of SpaceCas may come in between.                *)
(***************************************************************************)
EXTENDS SpaceCas

VARIABLE rd  \* the read under way, or its answer

NoRead == [pc |-> "idle"]

\* The fields of a read: how far it has come, the hash, whether content is
\* asked for, whether the node has been protected ever since the read began
\* ("safe"), and the references read.
readVars == <<vars, rd>>

Continue(pc, refs) ==
    rd' = [rd EXCEPT !.pc = pc, !.refs = refs]

\* readNode: no row, no answer (404).
ReadRow(h, content) ==
    /\ rd.pc \in {"idle", "answered", "missing"}
    /\ rd' = [pc |-> IF h \in nodes THEN "row" ELSE "missing", hash |-> h,
              content |-> content, safe |-> h \in Protected, refs |-> {}]
    /\ UNCHANGED vars

\* readOrderedRefs; a metadata read is answered with them.
ReadRefs ==
    /\ rd.pc = "row"
    /\ Continue(IF rd.content THEN "refs" ELSE "answered", EdgesOf(rd.hash))
    /\ UNCHANGED vars

\* readCanonicalRange, at the offset that the number of references gives.
ReadBody ==
    /\ rd.pc = "refs"
    /\ Continue(IF canonical[rd.hash] = "absent" THEN "missing" ELSE "answered", rd.refs)
    /\ UNCHANGED vars

ReadStep ==
    \/ \E h \in Hash, content \in BOOLEAN : ReadRow(h, content)
    \/ ReadRefs \/ ReadBody

\* A step of the Space; it may end the protection of the node being read.
SpaceStep ==
    /\ Next
    /\ rd' = IF rd.pc \in {"row", "refs"}
             THEN [rd EXCEPT !.safe = @ /\ rd.hash \in Protected'] ELSE rd

ReadInit == Init /\ rd = NoRead
ReadNext == ReadStep \/ SpaceStep
ReadSpec == ReadInit /\ [][ReadNext]_readVars

-----------------------------------------------------------------------------

\* A read of a node that stays leased or referenced until the answer returns
\* its references (and its body from the right offset), never a 404.
ProtectedReadIntact ==
    rd.pc \in {"answered", "missing"} /\ rd.safe =>
        rd.pc = "answered" /\ rd.refs = RefEdges(rd.hash)

=============================================================================
