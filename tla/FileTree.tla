------------------------------ MODULE FileTree ------------------------------
(***************************************************************************)
(* The working tree of a file root (space-file-client): a map from paths   *)
(* to directories and files.  A directory may be present only through the  *)
(* entries below it.  A manifest is content-addressed, so the tree itself  *)
(* stands for the hash of its manifest node.                               *)
(***************************************************************************)
EXTENDS Integers, Sequences, SequencesExt

CONSTANTS
    Path,       \* the paths used, as non-empty sequences of names
    Content,    \* file contents
    Directory   \* the entry of a directory

ASSUME TreeAssumption ==
    /\ \A p \in Path : p \in Seq(STRING) /\ p # <<>>
    /\ Directory \notin Content

Entry == Content \cup {Directory}

EmptyTree == [p \in {} |-> Directory]

Has(t, p) == p \in DOMAIN t

Below(p, q) == IsStrictPrefix(p, q)

HasDescendant(t, p) == \E q \in DOMAIN t : Below(p, q)

Found(t, p) == Has(t, p) \/ HasDescendant(t, p)

IsFile(t, p) == Has(t, p) /\ t[p] # Directory

\* requireParent: the parent exists, by itself or through a descendant, and is
\* not a file.
HasParent(t, p) ==
    Len(p) = 1 \/ (Found(t, Front(p)) /\ ~IsFile(t, Front(p)))

Put(t, p, e) == [q \in DOMAIN t \cup {p} |-> IF q = p THEN e ELSE t[q]]

Without(t, S) == [q \in DOMAIN t \ S |-> t[q]]

CanMkdir(t, p) == HasParent(t, p) /\ ~Found(t, p)

CanWrite(t, p) ==
    /\ HasParent(t, p)
    /\ ~HasDescendant(t, p)
    /\ Has(t, p) => t[p] # Directory

RemovePath(t, p) == Without(t, {q \in DOMAIN t : q = p \/ Below(p, q)})

CanMove(t, p, q) ==
    /\ Found(t, p)
    /\ q # p /\ ~Below(p, q)
    /\ HasParent(t, q)
    /\ ~Found(t, q)

Moved(p, q, r) == q \o SubSeq(r, Len(p) + 1, Len(r))

Move(t, p, q) ==
    LET from == {r \in DOMAIN t : r = p \/ Below(p, r)}
        to   == {Moved(p, q, r) : r \in from} IN
    [r \in (DOMAIN t \ from) \cup to |->
        IF r \in to THEN t[CHOOSE o \in from : Moved(p, q, o) = r] ELSE t[r]]

\* cleanupPaths removes what is still there, shortest path first.
RemoveAll(t, S) ==
    Without(t, {q \in DOMAIN t : \E p \in S : q = p \/ Below(p, q)})

\* validateFileManifest: nothing lies below a file.
ValidManifest(t) == \A p, q \in DOMAIN t : Below(p, q) => t[p] = Directory

=============================================================================
