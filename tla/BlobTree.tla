------------------------------ MODULE BlobTree ------------------------------
(***************************************************************************)
(* Upload of a blob (space-blob-client): the source is cut into chunks,    *)
(* each chunk is stored and leased, full groups of nodes get an index      *)
(* node, and the index over what remains is the blob's root.  The store is *)
(* external: a node becomes ready when its children are, leases run out,   *)
(* and what nothing protects is collected.                                 *)
(***************************************************************************)
EXTENDS Integers, Sequences, SequencesExt, FiniteSets

CONSTANTS
    Sources,      \* what is uploaded, as sequences of bytes
    chunkBytes,   \* bytes per chunk
    indexFanout   \* children per index node

ASSUME BlobAssumption ==
    /\ Sources \subseteq Seq(Nat)
    /\ chunkBytes \in Nat \ {0}
    /\ indexFanout \in Nat \ {0, 1}

VARIABLES
    up,       \* the upload: source, bytes cut, groups per level, node in hand
    ready,    \* the store: nodes that are ready
    leased    \* the store: nodes under a lease

blobVars == <<up, ready, leased>>

\* Nodes are content-addressed: the value of a node stands for its hash, and
\* chunks of the same bytes are one node.
Leaf(bytes) == [level |-> -1, size |-> Len(bytes), bytes |-> bytes, kids |-> <<>>]

\* Where each of the nodes ends when they are laid out one after the other.
Ends(nodes) ==
    LET end[i \in 0..Len(nodes)] == IF i = 0 THEN 0 ELSE end[i - 1] + nodes[i].size IN end

Total(nodes) == Ends(nodes)[Len(nodes)]

Index(group) ==
    [level |-> group[1].level + 1, size |-> Total(group), bytes |-> <<>>, kids |-> group]

Least(m, n) == IF m < n THEN m ELSE n

NoNode == [level |-> -2, size |-> 0, bytes |-> <<>>, kids |-> <<>>]

\* groups[level + 2] holds nodes of that level, and comes with the first one.
BlobInit ==
    /\ \E s \in Sources :
          up = [pc |-> "cut", source |-> s, cut |-> 0, hand |-> NoNode, groups |-> <<>>]
    /\ ready = {} /\ leased = {}

\* chunkSource: the last chunk may be short, and an empty source is one empty
\* node.
NextChunk ==
    LET end == Least(up.cut + chunkBytes, Len(up.source)) IN
    /\ up.pc = "cut"
    /\ up' = [up EXCEPT !.cut = end, !.pc = "store",
                        !.hand = Leaf(SubSeq(up.source, up.cut + 1, end))]
    /\ UNCHANGED <<ready, leased>>

\* storeNode: lease, upload, lease again until the node is ready.  Children
\* that are not ready are leased in turn; one that is gone fails the upload.
\* Mutant: a node whose upload was validated counts as stored.
CanStoreUnchecked(n) == TRUE

CanStore(n) == \A i \in DOMAIN n.kids : n.kids[i] \in ready

\* appendTreeNode: a full group is replaced by its index node.
Appended(n) ==
    IF n.level + 2 \in DOMAIN up.groups
    THEN [up.groups EXCEPT ![n.level + 2] = Append(@, n)]
    ELSE Append(up.groups, <<n>>)

StoreNode ==
    LET n == up.hand
        g == n.level + 2
        groups == Appended(n) IN
    /\ up.pc = "store"
    /\ IF CanStore(n)
       THEN /\ ready' = ready \cup {n}
            /\ leased' = leased \cup {n}
            /\ up' = IF Len(groups[g]) = indexFanout
                     THEN [up EXCEPT !.groups = [groups EXCEPT ![g] = <<>>], !.hand = Index(groups[g])]
                     ELSE [up EXCEPT !.groups = groups, !.hand = NoNode,
                                     !.pc = IF up.cut < Len(up.source) THEN "cut" ELSE "finish"]
       ELSE /\ up' = [up EXCEPT !.pc = "failed"]
            /\ UNCHANGED <<ready, leased>>

Populated == {g \in DOMAIN up.groups : up.groups[g] # <<>>}

LowestGroup == CHOOSE g \in Populated : \A h \in Populated : g <= h

\* finishTree: index the lowest group until one node is left.
FinishTree ==
    LET g == LowestGroup IN
    /\ up.pc = "finish"
    /\ up' = IF Cardinality(Populated) = 1 /\ Len(up.groups[g]) = 1
             THEN [up EXCEPT !.pc = "stored", !.hand = up.groups[g][1]]
             ELSE [up EXCEPT !.pc = "store", !.hand = Index(up.groups[g]),
                             !.groups = [@ EXCEPT ![g] = <<>>]]
    /\ UNCHANGED <<ready, leased>>

\* External: the store.
ExpireLease(n) ==
    /\ n \in leased
    /\ leased' = leased \ {n}
    /\ UNCHANGED <<up, ready>>

CollectNode(n) ==
    /\ n \in ready \ leased
    /\ \A p \in ready : ~\E i \in DOMAIN p.kids : p.kids[i] = n
    /\ ready' = ready \ {n}
    /\ UNCHANGED <<up, leased>>

-----------------------------------------------------------------------------
(* Reading (openBlob)                                                      *)

Missing == -1

\* readRangeNode: every child that meets the range is read for its part.
ReadRange(n, offset, length) ==
    LET read[c \in [node : ready, offset : Nat, length : Nat]] ==
          IF c.node.kids = <<>> THEN SubSeq(c.node.bytes, c.offset + 1, c.offset + c.length)
          ELSE LET kids     == c.node.kids
                   start(i) == Ends(kids)[i - 1]
                   from(i)  == IF c.offset > start(i) THEN c.offset ELSE start(i)
                   to(i)    == Least(c.offset + c.length, Ends(kids)[i])
                   part(i)  == IF from(i) >= to(i) THEN <<>>
                               ELSE IF kids[i] \notin ready THEN <<Missing>>
                               ELSE read[[node |-> kids[i], offset |-> from(i) - start(i),
                                          length |-> to(i) - from(i)]] IN
               FlattenSeq([i \in 1..Len(kids) |-> part(i)])
    IN IF n \in ready THEN read[[node |-> n, offset |-> offset, length |-> length]] ELSE <<Missing>>

\* While the root's lease lasts, every range of a stored blob reads back the
\* bytes of the source, whatever was collected around it and however often a
\* chunk of the same bytes occurs in it.
BlobReadsBack ==
    up.pc = "stored" /\ up.hand \in leased =>
        \A offset \in 0..Len(up.source) : \A length \in 0..(Len(up.source) - offset) :
            ReadRange(up.hand, offset, length) = SubSeq(up.source, offset + 1, offset + length)

=============================================================================
