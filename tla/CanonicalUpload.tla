-------------------------- MODULE CanonicalUpload --------------------------
(***************************************************************************)
(* The upload kernels of the service package other than the lease-driven   *)
(* one: streaming a node straight to its canonical object (begin, upload,  *)
(* finalize), the direct upload session (prepare, admit), and the renewal  *)
(* or adoption of a node whose bytes are already stored.  Begin, finalize, *)
(* prepare, admit and renewal are gate sections: "outside a mutation gate" *)
(* is said of the upload alone.  So each is one step and the upload, the   *)
(* collector and other callers run between them.                           *)
(***************************************************************************)
EXTENDS Integers, FiniteSets

CONSTANTS
    CuNode,          \* node hashes
    CuChildren,      \* CuChildren[h]: the children named by the bytes of h
    CuCaller,        \* callers of the kernels
    CuDurations,     \* lease durations asked for
    CuSessionMs,     \* uploadSessionMs
    CuReservationMs, \* MAX_LEASE_MS, the life of a reservation
    CuLengths,       \* lengths a caller declares for its upload session
    CuNone,          \* null
    CuMaxClock,      \* bound: clock
    CuMaxSessions    \* bound: upload sessions created

\* A row counts its parents; the bytes of a node cannot name their own hash.
CuRows == [lease : Nat, refs : Nat]

ASSUME CanonicalUploadAssumption ==
    /\ IsFiniteSet(CuNode) /\ CuChildren \in [CuNode -> SUBSET CuNode]
    /\ \A h \in CuNode : h \notin CuChildren[h]
    /\ CuDurations \subseteq Nat
    /\ CuNone \notin CuRows

VARIABLES
    cuClock,      \* wall clock
    cuRow,        \* cas_nodes: [lease |-> lease_expires_at, refs |-> child_ref_count], or CuNone
    cuObjects,    \* hashes with a canonical object in R2
    cuReserved,   \* cas_upload_reservations.expires_at, 0 for no row
    cuSession,    \* cas_direct_upload_sessions by hash, or CuNone
    cuSessions,   \* sessions created so far (stands for fresh identifiers)
    cuTask        \* what each caller is doing

cuVars == <<cuClock, cuRow, cuObjects, cuReserved, cuSession, cuSessions, cuTask>>

CuResting == [at |-> "rest"]
Uploading(h, d) == [at |-> "upload", hash |-> h, dur |-> d]
Finalizing(h, d) == [at |-> "finalize", hash |-> h, dur |-> d]
Signed(h, d, id) == [at |-> "signed", hash |-> h, dur |-> d, id |-> id]
Answered(h, d, at) == [at |-> "ready", hash |-> h, dur |-> d, since |-> at]

CanonicalUploadInit ==
    /\ cuClock = 0 /\ cuSessions = 0
    /\ cuRow = [h \in CuNode |-> CuNone]
    /\ cuObjects = {}
    /\ cuReserved = [h \in CuNode |-> 0]
    /\ cuSession = [h \in CuNode |-> CuNone]
    /\ cuTask = [c \in CuCaller |-> CuResting]

-----------------------------------------------------------------------------
(* Reading *)

HasNode(h) == cuRow[h] # CuNone
IsNodeReady(h) == HasNode(h) /\ h \in cuObjects
ChildrenReady(h) == \A k \in CuChildren[h] : IsNodeReady(k)

\* nextNodeLease: a lease is never shortened
NextExpires(h, d) ==
    LET asked == cuClock + d
    IN  IF HasNode(h) /\ cuRow[h].lease > asked THEN cuRow[h].lease ELSE asked

\* Mutant: metadata parsed from the upload stream is taken for a read of the stored object
InspectedParsed(h) == TRUE

\* inspectCanonicalNode: the stored prefix is read back; the object must still be there
Inspected(h) == h \in cuObjects

LiveSession(h) == cuSession[h] # CuNone /\ cuSession[h].expires > cuClock

-----------------------------------------------------------------------------
(* Writing *)

Become(c, t) == cuTask' = [cuTask EXCEPT ![c] = t]

\* renewNodeLease
RenewNodeLease(h, d) ==
    /\ cuRow' = [cuRow EXCEPT ![h].lease = NextExpires(h, d)]
    /\ UNCHANGED <<cuReserved, cuSession>>

\* commitUploadedCanonicalNode of an existing row
CommitExisting(h, d) ==
    /\ cuRow' = [cuRow EXCEPT ![h].lease = NextExpires(h, d)]
    /\ cuReserved' = [cuReserved EXCEPT ![h] = 0]
    /\ cuSession' = [cuSession EXCEPT ![h] = CuNone]

\* commitNewNode: the row, its edges and the counts of its children in one batch
CommitNew(h, d) ==
    /\ cuRow' = [k \in CuNode |->
                    IF k = h THEN [lease |-> cuClock + d, refs |-> 0]
                    ELSE IF k \in CuChildren[h] THEN [cuRow[k] EXCEPT !.refs = @ + 1]
                    ELSE cuRow[k]]
    /\ cuReserved' = [cuReserved EXCEPT ![h] = 0]
    /\ cuSession' = [cuSession EXCEPT ![h] = CuNone]

\* reserveCanonicalUpload
ReserveCanonicalUpload(h) ==
    /\ cuReserved' = [cuReserved EXCEPT ![h] = cuClock + CuReservationMs]
    /\ UNCHANGED <<cuRow, cuSession, cuSessions>>

\* reserveCanonicalUploadSession: the session and a reservation of the same life
ReserveCanonicalUploadSession(h, len) ==
    LET expires == cuClock + CuSessionMs
    IN  /\ cuSession' = [cuSession EXCEPT
                            ![h] = [id |-> cuSessions + 1, length |-> len, expires |-> expires]]
        /\ cuReserved' = [cuReserved EXCEPT ![h] = expires]
        /\ cuSessions' = cuSessions + 1
        /\ UNCHANGED cuRow

-----------------------------------------------------------------------------
(* The kernels *)

\* leaseReadyNode, a row exists: renewed when its content is there, refused when not
RenewReady(c, h, d) ==
    /\ HasNode(h)
    /\ IF IsNodeReady(h)
       THEN RenewNodeLease(h, d) /\ Become(c, Answered(h, d, cuClock))
       ELSE UNCHANGED <<cuRow, cuReserved, cuSession>> /\ Become(c, CuResting)

\* leaseReadyNode, only the object exists: inspected, children checked, adopted
Adopt(c, h, d) ==
    /\ ~HasNode(h) /\ h \in cuObjects
    /\ IF Inspected(h) /\ ChildrenReady(h)
       THEN CommitNew(h, d) /\ Become(c, Answered(h, d, cuClock))
       ELSE UNCHANGED <<cuRow, cuReserved, cuSession>> /\ Become(c, CuResting)

LeaseReadyNode(c, h, d) ==
    /\ RenewReady(c, h, d) \/ Adopt(c, h, d)
    /\ UNCHANGED <<cuClock, cuObjects, cuSessions>>

\* leaseReadyNode answers NOT_FOUND: neither a row nor an object
NotFound(h) == ~HasNode(h) /\ h \notin cuObjects

Lease(c, h, d) == cuTask[c] = CuResting /\ LeaseReadyNode(c, h, d)

\* beginCanonicalNodeLease
BeginCanonicalNodeLease(c, h, d) ==
    /\ cuTask[c] = CuResting
    /\ IF IsNodeReady(h)
       THEN RenewNodeLease(h, d) /\ Become(c, Answered(h, d, cuClock)) /\ UNCHANGED cuSessions
       ELSE ReserveCanonicalUpload(h) /\ Become(c, Uploading(h, d))
    /\ UNCHANGED <<cuClock, cuObjects>>

\* uploadCanonicalNode: a conditional put under the checksum of the hash; the bytes are
\* stored, or were, or the call fails and nothing is cleaned up
UploadCanonicalNode(c) ==
    /\ cuTask[c].at = "upload"
    /\ \/ /\ cuObjects' = cuObjects \cup {cuTask[c].hash}
          /\ Become(c, Finalizing(cuTask[c].hash, cuTask[c].dur))
       \/ UNCHANGED cuObjects /\ Become(c, CuResting)
    /\ UNCHANGED <<cuClock, cuRow, cuReserved, cuSession, cuSessions>>

\* finalizeCanonicalNodeLease: mutable state is read again
FinalizeCanonicalNodeLease(c) ==
    LET h == cuTask[c].hash  d == cuTask[c].dur
    IN  /\ cuTask[c].at = "finalize"
        /\ IF Inspected(h) /\ ChildrenReady(h)
           THEN /\ IF HasNode(h) THEN CommitExisting(h, d) ELSE CommitNew(h, d)
                /\ Become(c, Answered(h, d, cuClock))
           ELSE UNCHANGED <<cuRow, cuReserved, cuSession>> /\ Become(c, CuResting)
        /\ UNCHANGED <<cuClock, cuObjects, cuSessions>>

\* prepareCanonicalNodeUpload: ready, the live session of the same length, or a new one
PrepareCanonicalNodeUpload(c, h, d, len) ==
    /\ cuTask[c] = CuResting
    /\ \/ LeaseReadyNode(c, h, d)
       \/ /\ NotFound(h) /\ LiveSession(h)
          /\ Become(c, IF cuSession[h].length = len THEN Signed(h, d, cuSession[h].id) ELSE CuResting)
          /\ UNCHANGED <<cuClock, cuRow, cuObjects, cuReserved, cuSession, cuSessions>>
       \/ /\ NotFound(h) /\ ~LiveSession(h) /\ cuSessions < CuMaxSessions
          /\ ReserveCanonicalUploadSession(h, len)
          /\ Become(c, Signed(h, d, cuSessions + 1))
          /\ UNCHANGED <<cuClock, cuObjects>>

\* admitCanonicalNodeUploadFinalization: the session named must be the current one
AdmitFinalization(c) ==
    LET h == cuTask[c].hash  d == cuTask[c].dur
    IN  /\ cuTask[c].at = "signed"
        /\ \/ LeaseReadyNode(c, h, d)
           \/ /\ NotFound(h)
              /\ Become(c, IF LiveSession(h) /\ cuSession[h].id = cuTask[c].id
                           THEN Uploading(h, d) ELSE CuResting)
              /\ UNCHANGED <<cuClock, cuRow, cuObjects, cuReserved, cuSession, cuSessions>>

\* deleteCanonicalUploadSession: the reservation goes only with the session named
DeleteCanonicalUploadSession(c) ==
    LET h == cuTask[c].hash
        current == cuSession[h] # CuNone /\ cuSession[h].id = cuTask[c].id
    IN  /\ cuTask[c].at = "signed"
        /\ cuReserved' = IF current THEN [cuReserved EXCEPT ![h] = 0] ELSE cuReserved
        /\ cuSession' = IF current THEN [cuSession EXCEPT ![h] = CuNone] ELSE cuSession
        /\ Become(c, CuResting)
        /\ UNCHANGED <<cuClock, cuRow, cuObjects, cuSessions>>

-----------------------------------------------------------------------------
(* The collector of the Space, and time *)

\* findExpiredUnreferenced / readStillExpiredUnreferenced
CuCollectable(h) ==
    HasNode(h) /\ cuRow[h].refs = 0 /\ cuRow[h].lease <= cuClock /\ cuReserved[h] <= cuClock

\* deleteCanonicalContent, then commitDeletion unless the object is cut short in between
CuCollect(h, cut) ==
    /\ CuCollectable(h)
    /\ cuObjects' = cuObjects \ {h}
    /\ cuRow' = IF cut THEN cuRow
                ELSE [k \in CuNode |->
                        IF k = h THEN CuNone
                        ELSE IF k \in CuChildren[h] /\ HasNode(k) THEN [cuRow[k] EXCEPT !.refs = @ - 1]
                        ELSE cuRow[k]]
    /\ UNCHANGED <<cuClock, cuReserved, cuSession, cuSessions, cuTask>>

CuTick ==
    /\ cuClock < CuMaxClock
    /\ cuClock' = cuClock + 1
    /\ UNCHANGED <<cuRow, cuObjects, cuReserved, cuSession, cuSessions, cuTask>>

\* A caller is done with its answer
CuForget(c) ==
    /\ cuTask[c].at = "ready"
    /\ Become(c, CuResting)
    /\ UNCHANGED <<cuClock, cuRow, cuObjects, cuReserved, cuSession, cuSessions>>

CanonicalUploadNext ==
    \/ \E c \in CuCaller, h \in CuNode, d \in CuDurations :
          \/ Lease(c, h, d)
          \/ BeginCanonicalNodeLease(c, h, d)
          \/ \E len \in CuLengths : PrepareCanonicalNodeUpload(c, h, d, len)
    \/ \E c \in CuCaller :
          \/ UploadCanonicalNode(c)
          \/ FinalizeCanonicalNodeLease(c)
          \/ AdmitFinalization(c)
          \/ DeleteCanonicalUploadSession(c)
          \/ CuForget(c)
    \/ \E h \in CuNode, cut \in BOOLEAN : CuCollect(h, cut)
    \/ CuTick

-----------------------------------------------------------------------------
(* Properties *)

\* A ready answer holds for the lease it grants: until the duration asked for has passed
\* the node has a row, its bytes are in R2, and so are those of everything below it, however
\* other uploads of the same hash, sessions and collections interleave.
ReadyAnswersHold ==
    \A c \in CuCaller :
        LET t == cuTask[c]
        IN  t.at = "ready" /\ cuClock < t.since + t.dur =>
                IsNodeReady(t.hash) /\ ChildrenReady(t.hash)
=============================================================================
