--------------------------- MODULE SpaceCasProofs ---------------------------
(***************************************************************************)
(* Proofs about SpaceCas and SpaceReads, for any finite set of hashes, any *)
(* references between them, any lease durations, limits and root changes.  *)
(***************************************************************************)
EXTENDS SpaceReads, FiniteSetTheorems, TLAPS

-----------------------------------------------------------------------------
(* Type correctness *)

\* The key of an attempt that names none is still a key.
LEMMA NoKeyType == NoKey \in Hash \X (0..MaxGen)
BY HashAssumption, LimitAssumption DEF NoKey

\* An empty Space is well typed.
LEMMA InitType == Init => TypeOK
<1> USE HashAssumption, LimitAssumption, TimeAssumption, RefsAssumption
<1> SUFFICES ASSUME Init PROVE TypeOK
    OBVIOUS
<1>1. NoUpload \in UploadRecord
    BY DEF NoUpload, UploadRecord
<1>2. Idle \in Op /\ NoAttempt \in Attempt
    BY DEF Op, Attempt
<1> QED BY <1>1, <1>2 DEF Init, TypeOK, Stored

\* A request that arrives only joins the queue.
LEMMA ArrivalType ==
    ASSUME TypeOK,
           \/ \E h \in Hash, d \in LeaseDurations : RequestLease(h, d)
           \/ \E c \in RootChanges : RequestRootRefs(c)
           \/ RequestGc
    PROVE  TypeOK'
<1>1. PICK r \in Request : Enqueue(r)
    BY DEF TypeOK, RequestLease, RequestRootRefs, RequestGc, Request, LeaseRequest,
           GcRequest, RootRequest
<1>2. queue' \in Seq(Request)
    BY <1>1 DEF TypeOK, Enqueue
<1> QED BY <1>1, <1>2 DEF TypeOK, Enqueue, store, upl

\* A request that gets the gate becomes a well-formed running operation.
LEMMA EnterType ==
    ASSUME TypeOK, EnterLease \/ EnterGc \/ EnterRootRefs
    PROVE  TypeOK'
<1> USE LimitAssumption, TimeAssumption
<1>1. queue \in Seq(Request) /\ queue # <<>>
    BY DEF TypeOK, EnterLease, EnterGc, EnterRootRefs
<1>2. Head(queue) \in Request /\ Tail(queue) \in Seq(Request)
    BY <1>1
<1>3. op' \in Op
    <2>1. CASE EnterLease
        <3>1. Head(queue) \in LeaseRequest
            BY <1>2, <2>1 DEF EnterLease, Request, LeaseRequest, GcRequest, RootRequest
        <3>2. op' \in LeaseOp
            BY <2>1, <3>1 DEF EnterLease, LeaseRequest, LeaseOp, LeasePcs
        <3> QED BY <3>2 DEF Op
    <2>2. CASE EnterGc
        <3>1. op' \in GcOp
            BY <2>2, NoKeyType DEF EnterGc, GcOp, GcPcs, TypeOK
        <3> QED BY <3>1 DEF Op
    <2>3. CASE EnterRootRefs
        BY <2>3 DEF EnterRootRefs, Op, RootOp
    <2> QED BY <2>1, <2>2, <2>3
<1>4. rr' \in Attempt
    <2>1. CASE EnterRootRefs
        <3>1. Head(queue).changes \in RootChanges
            BY <1>2, <2>1 DEF EnterRootRefs, Request, LeaseRequest, GcRequest, RootRequest
        <3> QED BY <2>1, <3>1 DEF EnterRootRefs, Attempt
    <2> QED BY <2>1 DEF EnterLease, EnterGc, TypeOK
<1> QED BY <1>2, <1>3, <1>4 DEF TypeOK, EnterLease, EnterGc, EnterRootRefs, store, upl

\* The request that holds the gate, by kind.
LEMMA OpShape ==
    ASSUME TypeOK
    PROVE  /\ op.kind = "lease" => op \in LeaseOp
           /\ op.kind = "gc" => op \in GcOp
           /\ Idle \in Op
BY DEF TypeOK, Op, Idle, LeaseOp, GcOp, RootOp

\* A new generation is a well-formed record.
LEMMA NewUploadType ==
    ASSUME TypeOK, NEW h \in Hash, NEW t \in Nat, NEW rej \in BOOLEAN, lastGen[h] < MaxGen
    PROVE  NewUpload(h, t, rej) \in UploadRecord /\ lastGen[h] + 1 \in 0..MaxGen
BY LimitAssumption, TimeAssumption DEF TypeOK, NewUpload, UploadRecord

\* The object under the current key of a hash.
LEMMA TempOfType ==
    ASSUME TypeOK, NEW h \in Hash
    PROVE  /\ TempOf(h) \in Stored
           /\ uploads[h].gen # 0 => TempKey(h) \in Key
           /\ uploads[h] \in UploadRecord
<1> USE LimitAssumption
<1>1. uploads[h] \in UploadRecord /\ uploads[h].gen \in 0..MaxGen
    BY DEF TypeOK, UploadRecord
<1>2. uploads[h].gen # 0 => TempKey(h) \in Key
    BY <1>1 DEF TempKey, Key
<1>3. TempOf(h) \in Stored
    BY <1>2 DEF TypeOK, TempOf, Stored
<1> QED BY <1>1, <1>2, <1>3

\* A signature only moves the expiry of a key's URL.
LEMMA SignType ==
    ASSUME NEW f \in [Key -> Nat], NEW k, NEW t \in Nat
    PROVE  [f EXCEPT ![k] = Max2(@, t)] \in [Key -> Nat]
<1> DEFINE g == [f EXCEPT ![k] = Max2(@, t)]
<1>1. g = [j \in Key |-> IF j = k THEN Max2(f[k], t) ELSE f[j]]
    OBVIOUS
<1>2. \A j \in Key : f[j] \in Nat
    OBVIOUS
<1>3. ASSUME NEW j \in Key PROVE (IF j = k THEN Max2(f[k], t) ELSE f[j]) \in Nat
    BY <1>2 DEF Max2
<1> QED BY <1>1, <1>3

\* The steps of a lease evaluation up to the validation of the upload.
LEMMA LeaseEvalType ==
    ASSUME TypeOK, NEW h \in Hash,
           \/ LeaseRenew(h) \/ LeaseRefuse(h) \/ LeaseOpenUpload(h)
           \/ LeaseAwaitUpload(h) \/ LeaseReplaceExpired(h) \/ LeaseReplaceRejected(h)
           \/ LeaseBound(h) \/ LeaseStage(h) \/ LeaseAwaitChildren(h)
           \/ LeasePutCanonical(h)
    PROVE  TypeOK'
<1> USE LimitAssumption, TimeAssumption
<1>1. op \in LeaseOp /\ Idle \in Op /\ op.at \in Nat /\ op.dur \in Nat /\ op.hash = h
    BY OpShape DEF LeaseOp, LeaseRenew, LeaseRefuse, LeaseOpenUpload, LeaseAwaitUpload,
       LeaseReplaceExpired, LeaseReplaceRejected, LeaseBound, LeaseStage,
       LeaseAwaitChildren, LeasePutCanonical, Publishing, EvaluatingUpload, Evaluating
<1>u. /\ TempOf(h) \in Stored /\ uploads[h] \in UploadRecord
      /\ uploads[h].gen # 0 => TempKey(h) \in Key
    BY TempOfType
<1>r. /\ uploads[h].gen \in 0..MaxGen /\ uploads[h].cleanupAt \in Nat
      /\ uploads[h].rejected \in BOOLEAN
    BY <1>u DEF UploadRecord
<1>2. CASE LeaseRenew(h)
    <2>1. leaseExp' \in [Hash -> Nat]
        BY <1>1, <1>2 DEF LeaseRenew, TypeOK, NextLeaseExp, Max2
    <2> QED BY <1>1, <1>2, <2>1 DEF LeaseRenew, TypeOK, upl
<1>3. CASE LeaseRefuse(h) \/ LeaseBound(h) \/ LeaseAwaitChildren(h)
    BY <1>1, <1>3 DEF LeaseRefuse, LeaseBound, LeaseAwaitChildren, TypeOK, store, upl
<1>4. CASE LeaseOpenUpload(h)
    <2>1. NewUpload(h, op.at, FALSE) \in UploadRecord /\ lastGen[h] + 1 \in 0..MaxGen
        BY <1>1, <1>4, NewUploadType DEF LeaseOpenUpload
    <2>2. uploads' \in [Hash -> UploadRecord] /\ lastGen' \in [Hash -> 0..MaxGen]
        BY <1>4, <2>1 DEF LeaseOpenUpload, TypeOK
    <2> QED BY <1>4, <2>2 DEF LeaseOpenUpload, TypeOK, store
<1>5. CASE LeaseAwaitUpload(h)
    <2>1. url' \in [Key -> Nat]
        <3>1. now + UploadSession \in Nat
            BY DEF TypeOK
        <3> QED BY <3>1, <1>5, SignType DEF LeaseAwaitUpload, TypeOK
    <2> QED BY <1>1, <1>5, <2>1 DEF LeaseAwaitUpload, TypeOK, store
<1>6. CASE LeaseReplaceExpired(h) \/ LeaseReplaceRejected(h)
    <2>1. PICK rej \in BOOLEAN : ReplaceUpload(h, rej)
        BY <1>6, <1>r DEF LeaseReplaceExpired, LeaseReplaceRejected
    <2>2. NewUpload(h, op.at, rej) \in UploadRecord /\ lastGen[h] + 1 \in 0..MaxGen
        BY <1>1, <2>1, NewUploadType DEF ReplaceUpload
    <2>3. uploads' \in [Hash -> UploadRecord] /\ lastGen' \in [Hash -> 0..MaxGen]
        BY <2>1, <2>2 DEF ReplaceUpload, TypeOK
    <2>4. cleanup' \in [Key -> Nat]
        BY <1>r, <2>1 DEF ReplaceUpload, TypeOK
    <2>5. op' \in LeaseOp
        BY <1>1, <1>r, <2>1 DEF ReplaceUpload, LeaseOp, LeasePcs
    <2> QED BY <2>1, <2>3, <2>4, <2>5 DEF ReplaceUpload, TypeOK, Op, store
<1>7. CASE LeaseStage(h)
    <2>1. [uploads[h] EXCEPT !.validated = TRUE] \in UploadRecord
        BY <1>u DEF UploadRecord
    <2>2. uploads' \in [Hash -> UploadRecord]
        BY <1>7, <2>1 DEF LeaseStage, TypeOK
    <2>3. reservation' \in [Hash -> Nat]
        BY <1>7, <1>r DEF LeaseStage, TypeOK
    <2> QED BY <1>7, <2>2, <2>3 DEF LeaseStage, TypeOK, store
<1>8. CASE LeasePutCanonical(h)
    <2>1. canonical' \in [Hash -> Stored]
        BY <1>8, <1>u DEF LeasePutCanonical, TypeOK
    <2>2. op' \in LeaseOp
        BY <1>1, <1>8, <1>r DEF LeasePutCanonical, LeaseOp, LeasePcs
    <2> QED BY <1>8, <2>1, <2>2 DEF LeasePutCanonical, TypeOK, Op, upl
<1> QED BY <1>2, <1>3, <1>4, <1>5, <1>6, <1>7, <1>8

\* The clean-up that follows a published or replaced upload.
LEMMA LeaseCleanupType ==
    ASSUME TypeOK, LeaseCleanupStep \/ LeaseCleanupFails
    PROVE  TypeOK'
<1> USE LimitAssumption, TimeAssumption
<1>1. op \in LeaseOp /\ Idle \in Op /\ op.at \in Nat
    BY OpShape DEF LeaseOp, LeaseCleanupStep, LeaseDropTemp, LeaseAckTemp, LeaseAckOld,
       LeaseDropRecord, LeaseCleanupFails
<1>s. now + UploadSession \in Nat
    BY DEF TypeOK
<1>2. CASE LeaseDropTemp
    <2>1. temp' \in [Key -> Stored]
        BY <1>2 DEF LeaseDropTemp, TypeOK, Stored
    <2>2. op' \in LeaseOp
        BY <1>1, <1>2 DEF LeaseDropTemp, LeaseOp, LeasePcs
    <2> QED BY <1>2, <2>1, <2>2 DEF LeaseDropTemp, TypeOK, Op, store
<1>3. CASE LeaseAckTemp
    <2>1. cleanup' \in [Key -> Nat]
        BY <1>3 DEF LeaseAckTemp, TypeOK
    <2>2. op' \in LeaseOp
        BY <1>1, <1>3 DEF LeaseAckTemp, LeaseOp, LeasePcs
    <2> QED BY <1>3, <2>1, <2>2 DEF LeaseAckTemp, TypeOK, Op, store
<1>4. CASE LeaseAckOld
    <2>1. cleanup' \in [Key -> Nat]
        BY <1>4 DEF LeaseAckOld, TypeOK
    <2>2. url' \in [Key -> Nat]
        BY <1>4, <1>s, SignType DEF LeaseAckOld, SignReplacement, TypeOK
    <2> QED BY <1>1, <1>4, <2>1, <2>2 DEF LeaseAckOld, TypeOK, store
<1>5. CASE LeaseDropRecord
    <2>1. NoUpload \in UploadRecord
        BY DEF NoUpload, UploadRecord
    <2>2. uploads' \in [Hash -> UploadRecord]
        BY <1>5, <2>1 DEF LeaseDropRecord, TypeOK
    <2> QED BY <1>1, <1>5, <2>2 DEF LeaseDropRecord, TypeOK, store
<1>6. CASE LeaseCleanupFails
    <2>1. url' \in [Key -> Nat]
        <3>1. CASE op.pc \in {"dropOld", "ackOld"}
            <4>1. url' = [url EXCEPT ![TempKey(op.hash)] = Max2(@, now + UploadSession)]
                BY <1>6, <3>1 DEF LeaseCleanupFails, SignReplacement
            <4> QED BY <1>s, <4>1, SignType DEF TypeOK
        <3>2. CASE op.pc \notin {"dropOld", "ackOld"}
            BY <1>6, <3>2 DEF LeaseCleanupFails, TypeOK
        <3> QED BY <3>1, <3>2
    <2> QED BY <1>1, <1>6, <2>1 DEF LeaseCleanupFails, TypeOK, store
<1> QED BY <1>2, <1>3, <1>4, <1>5, <1>6 DEF LeaseCleanupStep

\* The steps in which a collection drops expired and superseded uploads.
LEMMA GcUploadsType ==
    ASSUME TypeOK,
           \/ \E h \in Hash : GcRecord(h)
           \/ \E k \in Key : GcSuperseded(k)
           \/ GcAckRecord \/ GcDropRecord \/ GcRecordsDone
           \/ GcAckSuperseded \/ GcSupersededDone
    PROVE  TypeOK'
<1> USE LimitAssumption, TimeAssumption
<1>1. op \in GcOp
    BY OpShape DEF GcRecord, GcSuperseded, GcAckRecord, GcDropRecord, GcRecordsDone,
       GcAckSuperseded, GcSupersededDone, InGc
<1>n. NoKey \in Hash \X (0..MaxGen)
    BY NoKeyType
<1>2. ASSUME NEW h \in Hash, GcRecord(h) PROVE TypeOK'
    <2>1. temp' \in [Key -> Stored]
        BY <1>2 DEF GcRecord, TypeOK, Stored
    <2>2. TempKey(h) \in Hash \X (0..MaxGen)
        BY TempOfType DEF TempKey, UploadRecord
    <2>3. op' \in GcOp
        BY <1>1, <1>2, <2>2 DEF GcRecord, GcOp, GcPcs
    <2> QED BY <1>2, <2>1, <2>3 DEF GcRecord, TypeOK, Op, store
<1>3. ASSUME NEW k \in Key, GcSuperseded(k) PROVE TypeOK'
    <2>1. temp' \in [Key -> Stored]
        BY <1>3 DEF GcSuperseded, TypeOK, Stored
    <2>2. k \in Hash \X (0..MaxGen)
        BY DEF Key
    <2>3. op' \in GcOp
        BY <1>1, <1>3, <2>2 DEF GcSuperseded, GcOp, GcPcs
    <2> QED BY <1>3, <2>1, <2>3 DEF GcSuperseded, TypeOK, Op, store
<1>4. CASE GcAckRecord
    <2>1. cleanup' \in [Key -> Nat]
        BY <1>4 DEF GcAckRecord, TypeOK
    <2>2. op' \in GcOp
        BY <1>1, <1>4 DEF GcAckRecord, GcOp, GcPcs
    <2> QED BY <1>4, <2>1, <2>2 DEF GcAckRecord, TypeOK, Op, store
<1>5. CASE GcDropRecord
    <2>1. NoUpload \in UploadRecord
        BY DEF NoUpload, UploadRecord
    <2>t. uploads \in [Hash -> UploadRecord] /\ reservation \in [Hash -> Nat]
        BY DEF TypeOK
    <2>2. uploads' \in [Hash -> UploadRecord] /\ reservation' \in [Hash -> Nat]
        <3>1. CASE uploads[op.key[1]].gen = op.key[2]
            BY <1>5, <2>1, <2>t, <3>1 DEF GcDropRecord, Unreserve
        <3>2. CASE uploads[op.key[1]].gen # op.key[2]
            BY <1>5, <2>t, <3>2 DEF GcDropRecord
        <3> QED BY <3>1, <3>2
    <2>3. op' \in GcOp
        <3>1. CASE uploads[op.key[1]].gen = op.key[2]
            <4>0. PICK n \in Int : n = op.left - 1
                BY <1>1 DEF GcOp
            <4>1. op' = [op EXCEPT !.pc = "records", !.left = n, !.key = NoKey]
                BY <1>5, <3>1, <4>0 DEF GcDropRecord
            <4> QED BY <1>1, <1>n, <4>1 DEF GcOp, GcPcs
        <3>2. CASE uploads[op.key[1]].gen # op.key[2]
            <4>1. op' = [op EXCEPT !.pc = "records", !.key = NoKey]
                BY <1>5, <3>2 DEF GcDropRecord
            <4> QED BY <1>1, <1>n, <4>1 DEF GcOp, GcPcs
        <3> QED BY <3>1, <3>2
    <2> QED BY <1>5, <2>2, <2>3 DEF GcDropRecord, TypeOK, Op, store
<1>6. CASE GcAckSuperseded
    <2>1. cleanup' \in [Key -> Nat]
        BY <1>6 DEF GcAckSuperseded, TypeOK
    <2>2. op' \in GcOp
        <3>0. PICK n \in Int : n = op.left - 1
            BY <1>1 DEF GcOp
        <3>1. op' = [op EXCEPT !.pc = "superseded", !.left = n, !.key = NoKey]
            BY <1>6, <3>0 DEF GcAckSuperseded
        <3> QED BY <1>1, <1>n, <3>1 DEF GcOp, GcPcs
    <2> QED BY <1>6, <2>1, <2>2 DEF GcAckSuperseded, TypeOK, Op, store
<1>7. CASE GcRecordsDone \/ GcSupersededDone
    <2>1. op' \in GcOp
        BY <1>1, <1>7 DEF GcRecordsDone, GcSupersededDone, GcOp, GcPcs
    <2> QED BY <1>7, <2>1 DEF GcRecordsDone, GcSupersededDone, TypeOK, Op, store, upl
<1> QED BY <1>2, <1>3, <1>4, <1>5, <1>6, <1>7

\* The steps in which a collection scans, looks again and deletes nodes.
LEMMA GcNodesType ==
    ASSUME TypeOK,
           \/ \E h \in Hash : GcPick(h)
           \/ GcScan \/ GcDeleteContent \/ GcDone
           \/ GcCommit /\ childRefs' \in [Hash -> Int]
    PROVE  TypeOK'
<1> USE LimitAssumption, TimeAssumption
<1>1. op \in GcOp /\ Idle \in Op
    BY OpShape DEF GcPick, GcScan, GcDeleteContent, GcDone, GcCommit, InGc
<1>2. ASSUME NEW h \in Hash, GcPick(h) PROVE TypeOK'
    <2>0. <<h, 0>> \in Hash \X (0..MaxGen)
        OBVIOUS
    <2>1. op' \in GcOp
        <3>1. CASE Eligible(h, op.at)
            BY <1>1, <1>2, <2>0, <3>1 DEF GcPick, GcOp, GcPcs
        <3>2. CASE ~Eligible(h, op.at)
            BY <1>1, <1>2, <3>2 DEF GcPick, GcOp, GcPcs
        <3> QED BY <3>1, <3>2
    <2> QED BY <1>2, <2>1 DEF GcPick, TypeOK, Op, store, upl
<1>3. CASE GcScan
    <2>1. PICK C \in SUBSET Hash :
             op' = [op EXCEPT !.pc = "pick", !.at = now, !.left = 0, !.cands = C]
        BY <1>3 DEF GcScan
    <2>2. op' \in GcOp
        <3>1. now \in Nat
            BY DEF TypeOK
        <3>2. op' = [kind |-> "gc", pc |-> "pick", at |-> now, left |-> 0,
                     key |-> op.key, cands |-> C]
            BY <1>1, <2>1 DEF GcOp
        <3>3. op.key \in Hash \X (0..MaxGen)
            BY <1>1 DEF GcOp
        <3> QED BY <3>1, <3>2, <3>3 DEF GcOp, GcPcs
    <2> QED BY <1>3, <2>2 DEF GcScan, TypeOK, Op, store, upl
<1>4. CASE GcDeleteContent
    <2>1. canonical' \in [Hash -> Stored]
        BY <1>4 DEF GcDeleteContent, TypeOK, Stored
    <2>2. op' \in GcOp
        BY <1>1, <1>4 DEF GcDeleteContent, GcOp, GcPcs
    <2> QED BY <1>4, <2>1, <2>2 DEF GcDeleteContent, TypeOK, Op, upl
<1>5. CASE GcDone
    BY <1>1, <1>5 DEF GcDone, TypeOK, store, upl
<1>6. CASE GcCommit /\ childRefs' \in [Hash -> Int]
    <2>1. nodes' \subseteq Hash /\ edges' \subseteq Hash \X Nat \X Hash
        BY <1>6 DEF GcCommit, TypeOK
    <2>2. leaseExp' \in [Hash -> Nat] /\ rootRefs' \in [Hash -> Nat]
        BY <1>6 DEF GcCommit, TypeOK
    <2>3. op' \in GcOp
        BY <1>1, <1>6, NoKeyType DEF GcCommit, GcOp, GcPcs
    <2> QED BY <1>6, <2>1, <2>2, <2>3 DEF GcCommit, TypeOK, Op, upl
<1> QED BY <1>2, <1>3, <1>4, <1>5, <1>6

\* The row commit: a new row, its edges and its first lease are well typed.
LEMMA LeaseCommitType ==
    ASSUME TypeOK, NEW h \in Hash, LeaseCommit(h), childRefs' \in [Hash -> Int]
    PROVE  TypeOK'
<1> USE LimitAssumption, TimeAssumption
<1>1. op \in LeaseOp /\ op.at \in Nat /\ op.dur \in Nat
    BY OpShape DEF LeaseCommit, LeaseOp
<1>2. nodes' \subseteq Hash
    BY DEF LeaseCommit, TypeOK
<1>3. leaseExp' \in [Hash -> Nat]
    <2>1. NextLeaseExp(0, op.dur, op.at) \in Nat
        BY <1>1 DEF NextLeaseExp, Max2
    <2> QED BY <2>1 DEF LeaseCommit, TypeOK
<1>4. edges' \subseteq Hash \X Nat \X Hash
    <2>1. RefEdges(h) \subseteq Hash \X Nat \X Hash
        BY RefsAssumption DEF RefEdges
    <2> QED BY <2>1 DEF LeaseCommit, TypeOK
<1>5. reservation' \in [Hash -> Nat]
    BY DEF LeaseCommit, Unreserve, TypeOK
<1>6. op' \in LeaseOp
    BY <1>1 DEF LeaseCommit, LeaseOp, LeasePcs
<1> QED BY <1>2, <1>3, <1>4, <1>5, <1>6 DEF LeaseCommit, TypeOK, Op

\* What an attempt that is under way carries.
LEMMA AttemptShape ==
    ASSUME TypeOK
    PROVE  /\ rr.phase \in {"read", "commit"} =>
                rr.changes \in RootChanges /\ rr.changes \in [Hash -> Int] /\ rr.tries \in Nat
           /\ rr.phase = "commit" => rr.planned \in [Hash -> Nat]
BY LimitAssumption DEF TypeOK, Attempt, NoAttempt

\* The end of a Root Ref attempt leaves no attempt behind.
LEMMA AttemptEndsType ==
    ASSUME TypeOK, AttemptEnds
    PROVE  op' \in Op /\ rr' \in Attempt
BY OpShape DEF TypeOK, AttemptEnds, Attempt

\* The steps of a Root Ref attempt: a commit keeps counts within their range.
LEMMA RootType ==
    ASSUME TypeOK, RrStep
    PROVE  TypeOK'
<1> USE LimitAssumption
<1>1. CASE RrRead
    <2>1. rr.changes \in RootChanges /\ rr.changes \in [Hash -> Int] /\ rr.tries \in Nat
        BY <1>1, AttemptShape DEF RrRead
    <2>2. CASE RootRefsValid(rr.changes)
        <3>1. ASSUME NEW h \in Hash PROVE projection[h] + rr.changes[h] \in Nat
            BY <2>1, <2>2 DEF RootRefsValid, Changed, TypeOK
        <3>2. [h \in Hash |-> projection[h] + rr.changes[h]] \in [Hash -> Nat]
            BY <3>1
        <3>3. rr' \in Attempt
            BY <1>1, <2>1, <2>2, <3>2 DEF RrRead, Attempt
        <3> QED BY <1>1, <2>2, <3>3 DEF RrRead, TypeOK, store, upl
    <2>3. CASE ~RootRefsValid(rr.changes)
        BY <1>1, <2>3, AttemptEndsType DEF RrRead, TypeOK, store, upl
    <2> QED BY <2>2, <2>3
<1>2. CASE RrCommit
    <2>1. rr.changes \in [Hash -> Int] /\ rr.planned \in [Hash -> Nat]
        BY <1>2, AttemptShape DEF RrCommit
    <2>2. rootRefs' \in [Hash -> Nat]
        BY <1>2, <2>1 DEF RrCommit, TypeOK
    <2>3. projection' \in [Hash -> Nat]
        BY <1>2, <2>1 DEF RrCommit, TypeOK
    <2> QED BY <1>2, <2>2, <2>3, AttemptEndsType DEF RrCommit, TypeOK, upl
<1>3. CASE RrConflict
    <2>1. rr.changes \in RootChanges /\ rr.tries \in Nat
        BY <1>3, AttemptShape DEF RrConflict
    <2>2. CASE rr.tries < MaxAttempts
        <3>1. rr' \in Attempt
            BY <1>3, <2>1, <2>2 DEF RrConflict, Attempt
        <3> QED BY <1>3, <2>2, <3>1 DEF RrConflict, TypeOK, store, upl
    <2>3. CASE ~(rr.tries < MaxAttempts)
        BY <1>3, <2>3, AttemptEndsType DEF RrConflict, TypeOK, store, upl
    <2> QED BY <2>2, <2>3
<1> QED BY <1>1, <1>2, <1>3 DEF RrStep

\* Client uploads, failures, crashes, lost dispatches and the clock.
LEMMA OutsideType ==
    ASSUME TypeOK,
           \/ \E k \in Key, c \in Contents : PutTemp(k, c)
           \/ GateFails \/ RrFails \/ Crash \/ DispatchLost \/ Tick
    PROVE  TypeOK'
<1> USE LimitAssumption
<1>0. Idle \in Op /\ faults + 1 \in Nat /\ now + 1 \in Nat /\ <<>> \in Seq(Request)
    <2>1. Idle \in Op
        BY OpShape
    <2> QED BY <2>1 DEF TypeOK
<1>1. ASSUME NEW k \in Key, NEW c \in Contents, PutTemp(k, c) PROVE TypeOK'
    <2>1. temp' \in [Key -> Stored]
        BY <1>1, ModeAssumption DEF PutTemp, TypeOK, Stored
    <2> QED BY <1>1, <2>1 DEF PutTemp, TypeOK, store
<1>2. CASE GateFails \/ DispatchLost
    BY <1>0, <1>2 DEF GateFails, DispatchLost, TypeOK, store, upl
<1>3. CASE RrFails
    BY <1>0, <1>3, AttemptEndsType DEF RrFails, TypeOK, store, upl
<1>4. CASE Crash
    BY <1>0, <1>4 DEF Crash, TypeOK, store, upl
<1>5. CASE Tick
    BY <1>0, <1>5 DEF Tick, TypeOK, store, upl
<1> QED BY <1>1, <1>2, <1>3, <1>4, <1>5

-----------------------------------------------------------------------------
(* The inductive invariant that needs no assumption on Root Ref attempts *)

\* A lease about to commit its node: no row yet, canonical bytes stored, and
\* every child has a row and content.  Only the gate keeps it so.
CommitReady ==
    op.kind = "lease" /\ op.pc = "commit" =>
        /\ op.hash \notin nodes
        /\ canonical[op.hash] = "good"
        /\ \A c \in Children(op.hash) : c \in nodes /\ canonical[c] # "absent"

\* A collection about to delete a row: nothing stored refers to it and its
\* lease has run out; it deletes the row after the content.
VictimUnreferenced ==
    op.kind = "gc" /\ op.pc \in {"delete", "commit"} =>
        /\ op.key[1] \in nodes
        /\ childRefs[op.key[1]] = 0
        /\ leaseExp[op.key[1]] <= op.at
        /\ op.pc = "commit" => canonical[op.key[1]] = "absent"

GcClock == op.kind = "gc" => op.at <= now

\* A row without content is unreferenced by other nodes and not leased.
GhostUnreferenced ==
    \A h \in nodes : canonical[h] = "absent" => childRefs[h] = 0 /\ leaseExp[h] <= now

Inv ==
    /\ TypeOK
    /\ IsFiniteSet(edges)
    /\ ChildRefsExact
    /\ CanonicalIntegrity
    /\ CommitReady
    /\ VictimUnreferenced
    /\ GcClock
    /\ GhostUnreferenced

-----------------------------------------------------------------------------
(* Counting edges *)

\* A node has finitely many references, each an edge to a child of its own.
LEMMA RefEdgesFinite ==
    ASSUME NEW h \in Hash
    PROVE  /\ IsFiniteSet(RefEdges(h))
           /\ \A e \in RefEdges(h) : e[1] = h /\ e[3] \in Children(h)
<1>1. Refs[h] \in Seq(Hash)
    BY RefsAssumption
<1>2. DOMAIN Refs[h] = 1..Len(Refs[h]) /\ Len(Refs[h]) \in Nat
    BY <1>1
<1>3. IsFiniteSet(DOMAIN Refs[h])
    BY <1>2, FS_Interval
<1> DEFINE f == [i \in DOMAIN Refs[h] |-> <<h, i, Refs[h][i]>>]
<1>4. f \in Surjection(DOMAIN Refs[h], RefEdges(h))
    BY DEF Surjection, RefEdges
<1>5. IsFiniteSet(RefEdges(h))
    BY <1>3, <1>4, FS_Surjection
<1>6. \A e \in RefEdges(h) : e[1] = h /\ e[3] \in Children(h)
    BY DEF RefEdges, Children
<1> QED BY <1>5, <1>6

\* Occurrences add up over disjoint sets of edges.
LEMMA OccurrencesUnion ==
    ASSUME NEW A, IsFiniteSet(A), NEW B, IsFiniteSet(B), A \cap B = {}, NEW c
    PROVE  /\ Occurrences(A, c) \in Nat
           /\ Occurrences(A \cup B, c) = Occurrences(A, c) + Occurrences(B, c)
<1> DEFINE X == {e \in A : e[3] = c}
           Y == {e \in B : e[3] = c}
<1>1. IsFiniteSet(X) /\ IsFiniteSet(Y)
    <2>1. X \in SUBSET A /\ Y \in SUBSET B
        OBVIOUS
    <2> QED BY <2>1, FS_Subset
<1>2. X \cap Y = {} /\ {e \in A \cup B : e[3] = c} = X \cup Y
    OBVIOUS
<1>3. Cardinality(X) \in Nat /\ Cardinality(Y) \in Nat /\ Cardinality({}) = 0
    BY <1>1, FS_CardinalityType, FS_EmptySet
<1>4. Cardinality(X \cup Y) = Cardinality(X) + Cardinality(Y) - Cardinality(X \cap Y)
    BY <1>1, FS_Union
<1>5. Cardinality(X \cap Y) = 0
    BY <1>2, <1>3
<1> HIDE DEF X, Y
<1>6. Cardinality(X \cup Y) = Cardinality(X) + Cardinality(Y)
    BY <1>3, <1>4, <1>5
<1> QED BY <1>2, <1>3, <1>6 DEF Occurrences, X, Y

\* No occurrence, no edge, and conversely.
LEMMA OccurrencesZero ==
    ASSUME NEW A, IsFiniteSet(A), NEW c
    PROVE  Occurrences(A, c) \in Nat /\ (Occurrences(A, c) = 0 <=> \A e \in A : e[3] # c)
<1> DEFINE X == {e \in A : e[3] = c}
<1>1. IsFiniteSet(X)
    <2>1. X \in SUBSET A
        OBVIOUS
    <2> QED BY <2>1, FS_Subset
<1>2. Cardinality(X) \in Nat /\ (Cardinality(X) = 0 <=> X = {})
    BY <1>1, FS_CardinalityType, FS_EmptySet
<1> QED BY <1>2 DEF Occurrences

\* The edges of the stored node h are its references; the others start
\* elsewhere.
LEMMA EdgesOfNode ==
    ASSUME Inv, NEW h \in nodes
    PROVE  EdgesOf(h) = RefEdges(h)
<1>1. nodes \subseteq Hash
    BY DEF Inv, TypeOK
<1>2. edges = UNION {RefEdges(g) : g \in nodes}
    BY DEF Inv, ChildRefsExact
<1>3. \A g \in nodes : \A e \in RefEdges(g) : e[1] = g
    BY <1>1, RefEdgesFinite
<1> QED BY <1>2, <1>3 DEF EdgesOf

-----------------------------------------------------------------------------
(* The two batches that change rows and edges *)

\* commitNewNode keeps rows, edges and counts in step.
LEMMA CommitCounts ==
    ASSUME Inv, NEW h \in Hash, LeaseCommit(h)
    PROVE  /\ childRefs' \in [Hash -> Int]
           /\ IsFiniteSet(edges')
           /\ ChildRefsExact'
<1> DEFINE R == RefEdges(h)
<1>0. /\ nodes \subseteq Hash /\ childRefs \in [Hash -> Int] /\ IsFiniteSet(edges)
      /\ edges = UNION {RefEdges(g) : g \in nodes}
      /\ \A c \in Hash : childRefs[c] = Occurrences(edges, c)
      /\ \A e \in edges : e[3] \in nodes
    BY DEF Inv, TypeOK, ChildRefsExact, Occurrences
<1>1. /\ h \notin nodes /\ nodes' = nodes \cup {h} /\ edges' = edges \cup R
      /\ childRefs' = [c \in Hash |-> IF c \in nodes THEN childRefs[c] + Occurrences(R, c) ELSE 0]
      /\ \A c \in Children(h) : c \in nodes
    BY DEF LeaseCommit, Inv, CommitReady
<1>2. IsFiniteSet(R) /\ \A e \in R : e[1] = h /\ e[3] \in nodes
    BY <1>1, RefEdgesFinite
<1>3. edges \cap R = {}
    <2>1. \A g \in nodes : \A e \in RefEdges(g) : e[1] = g
        BY <1>0, RefEdgesFinite
    <2> QED BY <1>0, <1>1, <1>2, <2>1
<1>4. IsFiniteSet(edges')
    BY <1>0, <1>1, <1>2, FS_Union
<1>5. \A c \in Hash : /\ Occurrences(edges, c) \in Nat /\ Occurrences(R, c) \in Nat
                     /\ Occurrences(edges', c) = Occurrences(edges, c) + Occurrences(R, c)
    BY <1>0, <1>1, <1>2, <1>3, OccurrencesUnion, OccurrencesZero
<1>6. \A c \in Hash \ nodes : Occurrences(edges, c) = 0 /\ Occurrences(R, c) = 0
    BY <1>0, <1>2, OccurrencesZero
<1>7. ASSUME NEW c \in Hash
      PROVE  childRefs'[c] = Occurrences(edges', c) /\ childRefs'[c] \in Int
    <2> DEFINE old == Occurrences(edges, c)
               new == Occurrences(R, c)
    <2>1. /\ old \in Nat /\ new \in Nat /\ Occurrences(edges', c) = old + new
          /\ c \notin nodes => old = 0 /\ new = 0
        BY <1>5, <1>6
    <2>2. childRefs'[c] = IF c \in nodes THEN old + new ELSE 0
        BY <1>0, <1>1
    <2> HIDE DEF old, new
    <2> QED BY <2>1, <2>2
<1>8. childRefs' \in [Hash -> Int]
    BY <1>1, <1>7
<1>9. edges' = UNION {RefEdges(g) : g \in nodes'}
    BY <1>0, <1>1
<1>10. \A e \in edges' : e[3] \in nodes'
    BY <1>0, <1>1, <1>2
<1> QED BY <1>4, <1>7, <1>8, <1>9, <1>10 DEF ChildRefsExact, Occurrences

\* commitDeletion keeps them in step as well: nothing refers to the victim.
LEMMA DeletionCounts ==
    ASSUME Inv, GcCommit
    PROVE  /\ childRefs' \in [Hash -> Int]
           /\ IsFiniteSet(edges')
           /\ ChildRefsExact'
<1> DEFINE h == op.key[1]
           E == EdgesOf(h)
<1>0. /\ nodes \subseteq Hash /\ childRefs \in [Hash -> Int] /\ IsFiniteSet(edges)
      /\ edges = UNION {RefEdges(g) : g \in nodes}
      /\ \A c \in Hash : childRefs[c] = Occurrences(edges, c)
      /\ \A e \in edges : e[3] \in nodes
    BY DEF Inv, TypeOK, ChildRefsExact, Occurrences
<1>1. /\ h \in nodes /\ childRefs[h] = 0
      /\ nodes' = nodes \ {h} /\ edges' = edges \ E
      /\ childRefs' = [c \in Hash |-> IF c \in nodes \ {h}
                                      THEN childRefs[c] - Occurrences(E, c) ELSE 0]
    BY DEF GcCommit, InGc, Inv, VictimUnreferenced
<1>2. E = RefEdges(h)
    BY <1>1, EdgesOfNode
<1>3. IsFiniteSet(E) /\ IsFiniteSet(edges') /\ E \subseteq edges
    <2>1. E \in SUBSET edges /\ edges \ E \in SUBSET edges
        BY DEF EdgesOf
    <2> QED BY <1>0, <1>1, <2>1, FS_Subset
<1>4. \A c \in Hash : /\ Occurrences(edges', c) \in Nat /\ Occurrences(E, c) \in Nat
                     /\ Occurrences(edges, c) = Occurrences(edges', c) + Occurrences(E, c)
    <2>1. edges = edges' \cup E /\ edges' \cap E = {}
        BY <1>1, <1>3
    <2>2. ASSUME NEW c \in Hash
          PROVE  Occurrences(edges' \cup E, c) = Occurrences(edges', c) + Occurrences(E, c)
        BY <1>3, <2>1, OccurrencesUnion
    <2>3. \A c \in Hash : Occurrences(edges', c) \in Nat /\ Occurrences(E, c) \in Nat
        BY <1>3, OccurrencesZero
    <2> HIDE DEF E
    <2> QED BY <2>1, <2>2, <2>3
<1>5. \A e \in edges : e[3] # h
    <2>1. h \in Hash /\ Occurrences(edges, h) = 0
        BY <1>0, <1>1
    <2> QED BY <1>0, <2>1, OccurrencesZero
<1>6. \A c \in Hash : c \notin nodes \ {h} => Occurrences(edges', c) = 0
    BY <1>0, <1>1, <1>3, <1>5, OccurrencesZero
<1>7. ASSUME NEW c \in Hash
      PROVE  childRefs'[c] = Occurrences(edges', c) /\ childRefs'[c] \in Int
    <2> DEFINE new == Occurrences(edges', c)
               gone == Occurrences(E, c)
    <2>1. /\ new \in Nat /\ gone \in Nat /\ Occurrences(edges, c) = new + gone
          /\ c \notin nodes \ {h} => new = 0
        BY <1>4, <1>6
    <2>2. childRefs'[c] = IF c \in nodes \ {h} THEN Occurrences(edges, c) - gone ELSE 0
        BY <1>0, <1>1
    <2> HIDE DEF new, gone
    <2>3. childRefs'[c] = new
        BY <2>1, <2>2
    <2> QED BY <2>1, <2>3 DEF new
<1>8. childRefs' \in [Hash -> Int]
    BY <1>1, <1>7
<1>9. edges' = UNION {RefEdges(g) : g \in nodes'}
    <2>1. \A g \in nodes : \A e \in RefEdges(g) : e[1] = g
        BY <1>0, RefEdgesFinite
    <2> QED BY <1>0, <1>1, <1>2, <2>1
<1>10. \A e \in edges' : e[3] \in nodes'
    BY <1>0, <1>1, <1>5
<1> QED BY <1>3, <1>7, <1>8, <1>9, <1>10 DEF ChildRefsExact, Occurrences

-----------------------------------------------------------------------------
(* Preservation of Inv *)

\* The steps at which op relies on rows, counts and content.
Sensitive ==
    \/ op.kind = "lease" /\ op.pc = "commit"
    \/ op.kind = "gc" /\ op.pc \in {"delete", "commit"}

\* A step that changes no row, count, edge or content, and brings no request
\* to a sensitive point, keeps Inv.
LEMMA FrameInv ==
    ASSUME Inv, TypeOK', UNCHANGED <<nodes, leaseExp, childRefs, edges, canonical>>,
           now' >= now, op' = op \/ ~Sensitive',
           op'.kind = "gc" => op'.at <= now'
    PROVE  Inv'
<1>1. IsFiniteSet(edges') /\ ChildRefsExact' /\ CanonicalIntegrity'
    BY DEF Inv, ChildRefsExact, CanonicalIntegrity
<1>2. CommitReady' /\ VictimUnreferenced'
    BY DEF Inv, CommitReady, VictimUnreferenced, Sensitive
<1>3. GcClock'
    BY DEF GcClock
<1>4. GhostUnreferenced'
    <2>1. now \in Nat /\ now' \in Nat /\ leaseExp \in [Hash -> Nat] /\ nodes \subseteq Hash
        BY DEF Inv, TypeOK
    <2> QED BY <2>1 DEF Inv, GhostUnreferenced
<1> QED BY <1>1, <1>2, <1>3, <1>4 DEF Inv

\* A collection that goes on keeps its clock, except for the scan.
LEMMA GcStepAt ==
    ASSUME Inv,
           \/ \E h \in Hash : GcRecord(h) \/ GcPick(h)
           \/ \E k \in Key : GcSuperseded(k)
           \/ GcAckRecord \/ GcDropRecord \/ GcRecordsDone
           \/ GcAckSuperseded \/ GcSupersededDone \/ GcDeleteContent \/ GcCommit
    PROVE  op'.kind = "gc" /\ op'.at = op.at /\ now' = now /\ op'.at <= now'
<1>1. op \in GcOp /\ op.kind = "gc"
    BY OpShape DEF Inv, GcRecord, GcPick, GcSuperseded, GcAckRecord, GcDropRecord,
       GcRecordsDone, GcAckSuperseded, GcSupersededDone, GcDeleteContent, GcCommit, InGc
<1>2. op'.kind = "gc" /\ op'.at = op.at /\ now' = now
    BY <1>1 DEF GcOp, GcRecord, GcPick, GcSuperseded, GcAckRecord, GcDropRecord,
       GcRecordsDone, GcAckSuperseded, GcSupersededDone, GcDeleteContent, GcCommit
<1> QED BY <1>1, <1>2 DEF Inv, GcClock

\* Renewal: the row has content, so it is no ghost.
LEMMA RenewInv ==
    ASSUME Inv, NEW h \in Hash, LeaseRenew(h), TypeOK'
    PROVE  Inv'
<1>1. /\ UNCHANGED <<now, nodes, childRefs, edges, canonical>> /\ op' = Idle
      /\ h \in nodes /\ canonical[h] # "absent"
      /\ \A g \in Hash \ {h} : leaseExp'[g] = leaseExp[g]
    BY DEF LeaseRenew, IsNodeReady, Inv, TypeOK
<1>2. IsFiniteSet(edges') /\ ChildRefsExact' /\ CanonicalIntegrity'
    BY <1>1 DEF Inv, ChildRefsExact, CanonicalIntegrity
<1>3. CommitReady' /\ VictimUnreferenced' /\ GcClock'
    BY <1>1 DEF CommitReady, VictimUnreferenced, GcClock, Idle
<1>4. GhostUnreferenced'
    BY <1>1 DEF Inv, TypeOK, GhostUnreferenced
<1> QED BY <1>2, <1>3, <1>4 DEF Inv

\* Publication: R2 compared the bytes, and the children were looked at.
LEMMA PutCanonicalInv ==
    ASSUME Inv, NEW h \in Hash, LeasePutCanonical(h), TypeOK'
    PROVE  Inv'
<1>1. /\ UNCHANGED <<now, nodes, leaseExp, childRefs, edges>>
      /\ h \notin nodes /\ op.hash = h /\ op.kind = "lease"
      /\ \A c \in Children(h) : c \in nodes /\ canonical[c] # "absent"
    BY DEF LeasePutCanonical, Publishing, EvaluatingUpload, Evaluating, IsNodeReady
<1>2. op \in LeaseOp
    BY <1>1, OpShape DEF Inv
<1>3. op'.kind = "lease" /\ op'.pc = "commit" /\ op'.hash = h
    BY <1>1, <1>2 DEF LeasePutCanonical, LeaseOp
<1>4. canonical[h] \in Stored /\ canonical[h] # "bad" /\ canonical \in [Hash -> Stored]
    BY DEF Inv, TypeOK, CanonicalIntegrity
<1>5. /\ canonical'[h] = "good"
      /\ \A g \in Hash \ {h} : canonical'[g] = canonical[g]
    BY <1>4 DEF LeasePutCanonical, ChecksumMatches, Stored
<1>6. IsFiniteSet(edges') /\ ChildRefsExact'
    BY <1>1 DEF Inv, ChildRefsExact
<1>7. CanonicalIntegrity'
    BY <1>5 DEF Inv, CanonicalIntegrity
<1>8. nodes \subseteq Hash
    BY DEF Inv, TypeOK
<1>9. CommitReady'
    BY <1>1, <1>3, <1>5, <1>8 DEF CommitReady
<1>10. VictimUnreferenced' /\ GcClock'
    BY <1>3 DEF VictimUnreferenced, GcClock
<1>11. GhostUnreferenced'
    BY <1>1, <1>5, <1>8 DEF Inv, GhostUnreferenced
<1> QED BY <1>6, <1>7, <1>9, <1>10, <1>11 DEF Inv

\* A new row: its content is there, and the counts it raises are of rows
\* with content.
LEMMA CommitInv ==
    ASSUME Inv, NEW h \in Hash, LeaseCommit(h)
    PROVE  Inv'
<1>1. TypeOK' /\ IsFiniteSet(edges') /\ ChildRefsExact'
    BY CommitCounts, LeaseCommitType DEF Inv
<1>2. op \in LeaseOp /\ op.kind = "lease" /\ op.hash = h
    BY OpShape DEF Inv, LeaseCommit
<1>3. op'.kind = "lease" /\ op'.pc = "dropTemp"
    BY <1>2 DEF LeaseCommit, LeaseOp
<1>4. CanonicalIntegrity'
    BY DEF Inv, CanonicalIntegrity, LeaseCommit
<1>5. CommitReady' /\ VictimUnreferenced' /\ GcClock'
    BY <1>3 DEF CommitReady, VictimUnreferenced, GcClock
<1>6. GhostUnreferenced'
    <2> SUFFICES ASSUME NEW g \in nodes', canonical'[g] = "absent"
                 PROVE  childRefs'[g] = 0 /\ leaseExp'[g] <= now'
        BY DEF GhostUnreferenced
    <2>1. canonical' = canonical /\ now' = now /\ nodes' = nodes \cup {h}
        BY DEF LeaseCommit
    <2>2. g # h /\ g \in nodes /\ g \in Hash /\ g \notin Children(h)
        BY <1>2, <2>1 DEF Inv, CommitReady, LeaseCommit, TypeOK
    <2>3. childRefs[g] = 0 /\ leaseExp[g] <= now /\ leaseExp'[g] = leaseExp[g]
        BY <2>1, <2>2 DEF Inv, GhostUnreferenced, LeaseCommit, TypeOK
    <2>4. Occurrences(RefEdges(h), g) = 0
        BY <2>2, RefEdgesFinite, OccurrencesZero
    <2>5. childRefs'[g] = childRefs[g] + Occurrences(RefEdges(h), g)
        BY <2>2 DEF LeaseCommit
    <2> QED BY <2>1, <2>3, <2>4, <2>5
<1> QED BY <1>1, <1>4, <1>5, <1>6 DEF Inv

\* The second look at a candidate.
LEMMA PickInv ==
    ASSUME Inv, NEW h \in Hash, GcPick(h), TypeOK'
    PROVE  Inv'
<1>1. /\ UNCHANGED <<now, nodes, leaseExp, childRefs, edges, canonical>>
      /\ op.kind = "gc" /\ op.pc = "pick" /\ op \in GcOp
    BY OpShape DEF Inv, GcPick, InGc, store
<1>2. op'.kind = "gc" /\ op'.at = op.at /\ op'.at <= now'
    BY GcStepAt
<1>3. CASE Eligible(h, op.at)
    <2>1. op'.pc = "delete" /\ op'.key[1] = h
        BY <1>1, <1>3 DEF GcPick, GcOp
    <2>2. VictimUnreferenced' /\ CommitReady' /\ GcClock'
        BY <1>1, <1>2, <1>3, <2>1 DEF VictimUnreferenced, CommitReady, GcClock, Eligible
    <2>3. IsFiniteSet(edges') /\ ChildRefsExact' /\ CanonicalIntegrity' /\ GhostUnreferenced'
        BY <1>1 DEF Inv, ChildRefsExact, CanonicalIntegrity, GhostUnreferenced
    <2> QED BY <2>2, <2>3 DEF Inv
<1>4. CASE ~Eligible(h, op.at)
    <2>1. op'.pc = "pick"
        BY <1>1, <1>4 DEF GcPick, GcOp
    <2>2. now' >= now
        BY <1>1 DEF Inv, TypeOK
    <2> QED BY <1>1, <1>2, <2>1, <2>2, FrameInv DEF Sensitive
<1> QED BY <1>3, <1>4

\* The victim's content goes: it becomes a ghost, unreferenced and unleased.
LEMMA DeleteContentInv ==
    ASSUME Inv, GcDeleteContent, TypeOK'
    PROVE  Inv'
<1> DEFINE h == op.key[1]
<1>1. /\ UNCHANGED <<now, nodes, leaseExp, childRefs, edges>>
      /\ op.kind = "gc" /\ op.pc = "delete" /\ op \in GcOp
    BY OpShape DEF Inv, GcDeleteContent, InGc
<1>2. /\ op'.kind = "gc" /\ op'.at = op.at /\ op'.at <= now'
      /\ op'.pc = "commit" /\ op'.key = op.key
    BY <1>1, GcStepAt DEF GcDeleteContent, GcOp
<1>3. /\ h \in nodes /\ h \in Hash /\ childRefs[h] = 0 /\ leaseExp[h] <= op.at
      /\ canonical'[h] = "absent" /\ \A g \in Hash \ {h} : canonical'[g] = canonical[g]
    BY <1>1 DEF Inv, TypeOK, VictimUnreferenced, GcDeleteContent
<1>4. IsFiniteSet(edges') /\ ChildRefsExact'
    BY <1>1 DEF Inv, ChildRefsExact
<1>5. CanonicalIntegrity'
    BY <1>3 DEF Inv, CanonicalIntegrity
<1>6. CommitReady' /\ VictimUnreferenced' /\ GcClock'
    BY <1>1, <1>2, <1>3 DEF CommitReady, VictimUnreferenced, GcClock
<1>7. op.at \in Nat /\ now \in Nat /\ leaseExp \in [Hash -> Nat] /\ nodes \subseteq Hash
    BY <1>1 DEF Inv, TypeOK, GcOp
<1>8. leaseExp[h] <= now
    BY <1>1, <1>2, <1>3, <1>7
<1>9. GhostUnreferenced'
    BY <1>1, <1>3, <1>7, <1>8 DEF Inv, GhostUnreferenced
<1> QED BY <1>4, <1>5, <1>6, <1>9 DEF Inv

\* The victim's row goes; only counts of other rows go down.
LEMMA DeletionInv ==
    ASSUME Inv, GcCommit
    PROVE  Inv'
<1> DEFINE h == op.key[1]
<1>1. TypeOK' /\ IsFiniteSet(edges') /\ ChildRefsExact'
    BY DeletionCounts, GcNodesType DEF Inv
<1>2. /\ op.kind = "gc" /\ op.pc = "commit" /\ op \in GcOp
      /\ op'.kind = "gc" /\ op'.pc = "pick" /\ op'.at <= now'
    BY OpShape, GcStepAt DEF Inv, GcCommit, InGc, GcOp
<1>3. CanonicalIntegrity'
    BY DEF Inv, CanonicalIntegrity, GcCommit
<1>4. CommitReady' /\ VictimUnreferenced' /\ GcClock'
    BY <1>2 DEF CommitReady, VictimUnreferenced, GcClock
<1>5. GhostUnreferenced'
    <2> SUFFICES ASSUME NEW g \in nodes', canonical'[g] = "absent"
                 PROVE  childRefs'[g] = 0 /\ leaseExp'[g] <= now'
        BY DEF GhostUnreferenced
    <2>1. /\ canonical' = canonical /\ now' = now /\ nodes' = nodes \ {h}
          /\ edges' = edges \ EdgesOf(h)
        BY DEF GcCommit
    <2>2. g # h /\ g \in nodes /\ g \in Hash
        BY <2>1 DEF Inv, TypeOK
    <2>3. childRefs[g] = 0 /\ leaseExp[g] <= now /\ leaseExp'[g] = leaseExp[g]
        BY <2>1, <2>2 DEF Inv, GhostUnreferenced, GcCommit, TypeOK
    <2>4. Occurrences(edges, g) = 0 /\ IsFiniteSet(edges)
        BY <2>2, <2>3 DEF Inv, ChildRefsExact, Occurrences
    <2>5. \A e \in edges' : e[3] # g
        BY <2>1, <2>4, OccurrencesZero
    <2>6. Occurrences(edges', g) = 0
        BY <1>1, <2>5, OccurrencesZero
    <2>7. childRefs'[g] = 0
        BY <1>1, <2>2, <2>6 DEF ChildRefsExact, Occurrences
    <2> QED BY <2>1, <2>3, <2>7
<1> QED BY <1>1, <1>3, <1>4, <1>5 DEF Inv

\* The steps of a lease that write uploads, URLs or nothing.
LEMMA LeaseFrameInv ==
    ASSUME Inv, TypeOK',
           \/ \E h \in Hash :
                \/ LeaseRefuse(h) \/ LeaseOpenUpload(h) \/ LeaseAwaitUpload(h)
                \/ LeaseReplaceExpired(h) \/ LeaseReplaceRejected(h)
                \/ LeaseBound(h) \/ LeaseStage(h) \/ LeaseAwaitChildren(h)
           \/ LeaseCleanupStep \/ LeaseCleanupFails
    PROVE  Inv'
<1>1. UNCHANGED <<now, nodes, leaseExp, childRefs, edges, canonical>>
    BY DEF LeaseRefuse, LeaseOpenUpload, LeaseAwaitUpload, LeaseReplaceExpired,
       LeaseReplaceRejected, ReplaceUpload, LeaseBound, LeaseStage, LeaseAwaitChildren,
       LeaseCleanupStep, LeaseDropTemp, LeaseAckTemp, LeaseAckOld, LeaseDropRecord,
       LeaseCleanupFails, store
<1>2. op.kind = "lease"
    BY DEF LeaseRefuse, LeaseOpenUpload, LeaseAwaitUpload, LeaseReplaceExpired,
       LeaseReplaceRejected, LeaseBound, LeaseStage, LeaseAwaitChildren, Publishing,
       EvaluatingUpload, Evaluating, LeaseCleanupStep, LeaseDropTemp, LeaseAckTemp,
       LeaseAckOld, LeaseDropRecord, LeaseCleanupFails
<1>3. op \in LeaseOp
    BY <1>2, OpShape DEF Inv
<1>4. op' = op \/ op' = Idle \/ (op'.kind = "lease" /\ op'.pc # "commit")
    BY <1>2, <1>3 DEF LeaseOp, LeaseRefuse, LeaseOpenUpload, LeaseAwaitUpload,
       LeaseReplaceExpired, LeaseReplaceRejected, ReplaceUpload, LeaseBound, LeaseStage,
       LeaseAwaitChildren, LeaseCleanupStep, LeaseDropTemp, LeaseAckTemp, LeaseAckOld,
       LeaseDropRecord, LeaseCleanupFails
<1>5. now' >= now
    BY <1>1 DEF Inv, TypeOK
<1>6. op' = op \/ ~Sensitive'
    BY <1>4 DEF Sensitive, Idle
<1>7. op'.kind # "gc"
    BY <1>2, <1>4 DEF Idle
<1> QED BY <1>1, <1>5, <1>6, <1>7, FrameInv

\* The steps of a collection that clean up uploads, scan, or end.
LEMMA GcFrameInv ==
    ASSUME Inv, TypeOK',
           \/ \E h \in Hash : GcRecord(h)
           \/ \E k \in Key : GcSuperseded(k)
           \/ GcAckRecord \/ GcDropRecord \/ GcRecordsDone
           \/ GcAckSuperseded \/ GcSupersededDone \/ GcScan \/ GcDone
    PROVE  Inv'
<1>1. UNCHANGED <<now, nodes, leaseExp, childRefs, edges, canonical>>
    BY DEF GcRecord, GcSuperseded, GcAckRecord, GcDropRecord, GcRecordsDone,
       GcAckSuperseded, GcSupersededDone, GcScan, GcDone, store
<1>2. op.kind = "gc" /\ op \in GcOp
    BY OpShape DEF Inv, GcRecord, GcSuperseded, GcAckRecord, GcDropRecord, GcRecordsDone,
       GcAckSuperseded, GcSupersededDone, GcScan, GcDone, InGc
<1>3. now \in Nat /\ now' >= now
    BY <1>1 DEF Inv, TypeOK
<1>4. CASE GcScan
    <2>1. op'.kind = "gc" /\ op'.pc = "pick" /\ op'.at = now
        BY <1>2, <1>4 DEF GcScan, GcOp
    <2> QED BY <1>1, <1>3, <2>1, FrameInv DEF Sensitive
<1>5. CASE GcDone
    <2>1. op' = Idle
        BY <1>5 DEF GcDone
    <2> QED BY <1>1, <1>3, <2>1, FrameInv DEF Sensitive, Idle
<1>6. CASE ~GcScan /\ ~GcDone
    <2>1. op'.kind = "gc" /\ op'.at <= now'
        BY <1>6, GcStepAt
    <2>2. op'.pc \notin {"delete", "commit"}
        BY <1>2, <1>6 DEF GcOp, GcRecord, GcSuperseded, GcAckRecord, GcDropRecord,
           GcRecordsDone, GcAckSuperseded, GcSupersededDone
    <2> QED BY <1>1, <1>3, <2>1, <2>2, FrameInv DEF Sensitive
<1> QED BY <1>4, <1>5, <1>6

\* Arrivals, entries into the gate, Root Ref attempts, clients, faults, time.
LEMMA OutsideFrameInv ==
    ASSUME Inv, TypeOK',
           \/ ClientStep \/ RequestGc
           \/ EnterLease \/ EnterGc \/ EnterRootRefs
           \/ RrStep \/ GateFails \/ RrFails \/ Crash \/ DispatchLost \/ Tick
    PROVE  Inv'
<1>1. UNCHANGED <<nodes, leaseExp, childRefs, edges, canonical>>
    BY DEF ClientStep, RequestLease, RequestRootRefs, PutTemp, RequestGc, Enqueue,
       EnterLease, EnterGc, EnterRootRefs, RrStep, RrRead, RrCommit, RrConflict,
       GateFails, RrFails, Crash, DispatchLost, Tick, store
<1>2. now \in Nat /\ (now' = now \/ now' = now + 1)
    BY DEF Inv, TypeOK, ClientStep, RequestLease, RequestRootRefs, PutTemp, RequestGc, Enqueue,
       EnterLease, EnterGc, EnterRootRefs, RrStep, RrRead, RrCommit, RrConflict,
       GateFails, RrFails, Crash, DispatchLost, Tick
<1>3. CASE EnterLease \/ EnterGc \/ EnterRootRefs
    <2>1. ~Sensitive' /\ (op'.kind = "gc" => op'.at = now)
        BY <1>3 DEF EnterLease, EnterGc, EnterRootRefs, Sensitive
    <2> QED BY <1>1, <1>2, <2>1, FrameInv
<1>4. CASE ~(EnterLease \/ EnterGc \/ EnterRootRefs)
    <2>1. op' = op \/ op' = Idle
        BY <1>4 DEF ClientStep, RequestLease, RequestRootRefs, PutTemp, RequestGc, Enqueue,
           RrStep, RrRead, RrCommit, RrConflict, AttemptEnds,
           GateFails, RrFails, Crash, DispatchLost, Tick
    <2>2. op' = op \/ ~Sensitive'
        BY <2>1 DEF Sensitive, Idle
    <2>3. op'.kind = "gc" => op'.at <= now'
        <3>1. op.kind = "gc" => op.at \in Nat
            BY OpShape DEF Inv, GcOp
        <3> QED BY <1>2, <2>1, <3>1 DEF Inv, GcClock, Idle
    <2>4. now' >= now
        BY <1>2
    <2> QED BY <1>1, <2>2, <2>3, <2>4, FrameInv
<1> QED BY <1>3, <1>4

\* The empty Space satisfies the inductive invariant.
LEMMA InitInv == Init => Inv
<1> SUFFICES ASSUME Init PROVE Inv
    OBVIOUS
<1>1. TypeOK
    BY InitType
<1>2. IsFiniteSet(edges)
    BY FS_EmptySet DEF Init
<1>3. ChildRefsExact
    <2>1. \A c \in Hash : childRefs[c] = 0
        BY DEF Init
    <2>2. \A c \in Hash : {e \in edges : e[3] = c} = {}
        BY DEF Init
    <2>3. edges = UNION {RefEdges(h) : h \in nodes} /\ \A e \in edges : e[3] \in nodes
        BY DEF Init
    <2> QED BY <2>1, <2>2, <2>3, FS_EmptySet DEF ChildRefsExact
<1>4. CanonicalIntegrity /\ CommitReady /\ VictimUnreferenced /\ GcClock /\ GhostUnreferenced
    BY DEF Init, Idle, CanonicalIntegrity, CommitReady, VictimUnreferenced, GcClock,
       GhostUnreferenced
<1> QED BY <1>1, <1>2, <1>3, <1>4 DEF Inv

\* Every step keeps the inductive invariant: one case per action of Next.
LEMMA NextInv == Inv /\ [Next]_vars => Inv'
<1> SUFFICES ASSUME Inv, [Next]_vars PROVE Inv'
    OBVIOUS
<1>0. TypeOK
    BY DEF Inv
<1>1. CASE UNCHANGED vars
    BY <1>1 DEF vars, store, upl, Inv, TypeOK, ChildRefsExact, CanonicalIntegrity,
       CommitReady, VictimUnreferenced, GcClock, GhostUnreferenced
<1>2. CASE ClientStep \/ RequestGc
    <2>1. TypeOK'
        BY <1>0, <1>2, ArrivalType, OutsideType DEF ClientStep
    <2> QED BY <1>2, <2>1, OutsideFrameInv
<1>3. CASE GateStep
    <2>1. CASE EnterLease \/ EnterGc \/ EnterRootRefs
        BY <1>0, <2>1, EnterType, OutsideFrameInv
    <2>2. ASSUME NEW h \in Hash, LeaseStep(h) PROVE Inv'
        <3>1. CASE LeaseRenew(h)
            BY <1>0, <3>1, LeaseEvalType, RenewInv
        <3>2. CASE LeasePutCanonical(h)
            BY <1>0, <3>2, LeaseEvalType, PutCanonicalInv
        <3>3. CASE LeaseCommit(h)
            BY <3>3, CommitInv
        <3>4. CASE \/ LeaseRefuse(h) \/ LeaseOpenUpload(h) \/ LeaseAwaitUpload(h)
                   \/ LeaseReplaceExpired(h) \/ LeaseReplaceRejected(h)
                   \/ LeaseBound(h) \/ LeaseStage(h) \/ LeaseAwaitChildren(h)
            <4>1. TypeOK'
                BY <1>0, <3>4, LeaseEvalType
            <4> QED BY <3>4, <4>1, LeaseFrameInv
        <3> QED BY <2>2, <3>1, <3>2, <3>3, <3>4 DEF LeaseStep
    <2>3. CASE LeaseCleanupStep
        BY <1>0, <2>3, LeaseCleanupType, LeaseFrameInv
    <2>4. CASE GcStep
        <3>1. ASSUME NEW h \in Hash, GcPick(h) PROVE Inv'
            BY <1>0, <3>1, GcNodesType, PickInv
        <3>2. CASE GcDeleteContent
            BY <1>0, <3>2, GcNodesType, DeleteContentInv
        <3>3. CASE GcCommit
            BY <3>3, DeletionInv
        <3>4. CASE GcScan \/ GcDone
            BY <1>0, <3>4, GcNodesType, GcFrameInv
        <3>5. CASE \/ \E h \in Hash : GcRecord(h)
                   \/ \E k \in Key : GcSuperseded(k)
                   \/ GcAckRecord \/ GcDropRecord \/ GcRecordsDone
                   \/ GcAckSuperseded \/ GcSupersededDone
            BY <1>0, <3>5, GcUploadsType, GcFrameInv
        <3> QED BY <2>4, <3>1, <3>2, <3>3, <3>4, <3>5 DEF GcStep
    <2> QED BY <1>3, <2>1, <2>2, <2>3, <2>4 DEF GateStep
<1>4. CASE RrStep
    BY <1>0, <1>4, RootType, OutsideFrameInv
<1>5. CASE FaultStep
    <2>1. CASE LeaseCleanupFails
        BY <1>0, <2>1, LeaseCleanupType, LeaseFrameInv
    <2>2. CASE GateFails \/ RrFails \/ Crash \/ DispatchLost
        BY <1>0, <2>2, OutsideType, OutsideFrameInv
    <2> QED BY <1>5, <2>1, <2>2 DEF FaultStep
<1>6. CASE Tick
    BY <1>0, <1>6, OutsideType, OutsideFrameInv
<1> QED BY <1>1, <1>2, <1>3, <1>4, <1>5, <1>6 DEF Next

-----------------------------------------------------------------------------
(* What holds however Root Ref attempts and the gate interleave *)

\* The inductive invariant holds in every reachable state.
THEOREM Invariance == Spec => []Inv
<1>1. Init => Inv
    BY InitInv
<1>2. Inv /\ [Next]_vars => Inv'
    BY NextInv
<1> QED BY <1>1, <1>2, PTL DEF Spec

\* Rows, counts, records and requests keep their types: in particular no root
\* count or balance is ever negative.
THEOREM TypeCorrect == Spec => []TypeOK
<1>1. Inv => TypeOK
    BY DEF Inv
<1> QED BY <1>1, Invariance, PTL

\* Edges are the references of the stored nodes and child counts the number of
\* edge occurrences, also when a node names a child several times, when
\* requests stop half-way and when Root Ref attempts outlive the gate.
THEOREM ChildCountsExact == Spec => []ChildRefsExact
<1>1. Inv => ChildRefsExact
    BY DEF Inv
<1> QED BY <1>1, Invariance, PTL

\* No canonical object ever holds bytes other than those its hash names,
\* whatever clients write to temporary keys and when.
THEOREM CanonicalObjectsIntact == Spec => []CanonicalIntegrity
<1>1. Inv => CanonicalIntegrity
    BY DEF Inv
<1> QED BY <1>1, Invariance, PTL

\* A referenced node is stored and protected.
LEMMA EdgeTargetsProtected ==
    ASSUME Inv, NEW e \in edges
    PROVE  e[3] \in Hash /\ e[3] \in Protected /\ canonical[e[3]] = "good"
<1>1. e[3] \in nodes /\ e[3] \in Hash /\ IsFiniteSet(edges)
    BY DEF Inv, TypeOK, ChildRefsExact
<1>2. childRefs[e[3]] = Occurrences(edges, e[3])
    BY <1>1 DEF Inv, ChildRefsExact, Occurrences
<1>3. Occurrences(edges, e[3]) \in Nat /\ Occurrences(edges, e[3]) # 0
    BY <1>1, OccurrencesZero
<1>4. childRefs[e[3]] > 0
    BY <1>2, <1>3
<1>5. canonical[e[3]] = "good"
    BY <1>1, <1>2, <1>3 DEF Inv, TypeOK, GhostUnreferenced, CanonicalIntegrity, Stored
<1> QED BY <1>1, <1>4, <1>5 DEF Protected

\* Whatever a leased node reaches is stored, has its content and is out of the
\* collector's reach, even if Root Ref attempts outlive the gate.
THEOREM LeasesProtect == Spec => []LeasedSetReady
<1>1. Inv => LeasedSetReady
    <2> SUFFICES ASSUME Inv, NEW h \in Reach(Leased)
                 PROVE  h \in Protected /\ canonical[h] = "good"
        BY DEF LeasedSetReady
    <2> DEFINE D == {g \in Hash : g \in Protected /\ canonical[g] = "good"}
    <2>1. Leased \subseteq D
        BY DEF Leased, Protected, Inv, TypeOK, GhostUnreferenced, CanonicalIntegrity, Stored
    <2>2. \A e \in edges : e[3] \in D
        BY EdgeTargetsProtected
    <2>3. h \in D
        BY <2>1, <2>2 DEF Reach
    <2> QED BY <2>3
<1> QED BY <1>1, Invariance, PTL

\* No step shortens the lease of a row that stays, although a renewal computes
\* with the time at which its request arrived.
THEOREM LeasesNeverShorten == Spec => LeaseNeverShortened
<1> DEFINE A == \A h \in nodes \cap nodes' : leaseExp'[h] >= leaseExp[h]
<1>1. Inv /\ [Next]_vars => [A]_vars
    <2> SUFFICES ASSUME Inv, Next, NEW h \in nodes \cap nodes'
                 PROVE  leaseExp'[h] >= leaseExp[h]
        OBVIOUS
    <2>0. leaseExp \in [Hash -> Nat] /\ h \in Hash /\ leaseExp[h] \in Nat
        BY DEF Inv, TypeOK
    <2>1. CASE leaseExp' = leaseExp
        BY <2>0, <2>1
    <2>2. ASSUME NEW g \in Hash, LeaseRenew(g) PROVE leaseExp'[h] >= leaseExp[h]
        <3>1. op.at \in Nat /\ op.dur \in Nat
            BY <2>2, OpShape, TimeAssumption DEF Inv, LeaseRenew, Evaluating, LeaseOp
        <3>2. leaseExp'[h] = IF h = g THEN NextLeaseExp(leaseExp[g], op.dur, op.at) ELSE leaseExp[h]
            BY <2>0, <2>2 DEF LeaseRenew
        <3> QED BY <2>0, <3>1, <3>2 DEF NextLeaseExp, Max2
    <2>3. ASSUME NEW g \in Hash, LeaseCommit(g) PROVE leaseExp'[h] >= leaseExp[h]
        BY <2>0, <2>3 DEF LeaseCommit
    <2>4. CASE GcCommit
        BY <2>0, <2>4 DEF GcCommit
    <2> QED BY <2>1, <2>2, <2>3, <2>4
        DEF Next, ClientStep, RequestLease, RequestRootRefs, PutTemp, RequestGc, Enqueue,
           GateStep, EnterLease, EnterGc, EnterRootRefs, LeaseStep, LeaseRefuse,
           LeaseOpenUpload, LeaseAwaitUpload, LeaseReplaceExpired, LeaseReplaceRejected,
           ReplaceUpload, LeaseBound, LeaseStage, LeaseAwaitChildren, LeasePutCanonical,
           LeaseCleanupStep, LeaseDropTemp, LeaseAckTemp, LeaseAckOld, LeaseDropRecord,
           GcStep, GcRecord, GcPick, GcSuperseded, GcAckRecord, GcDropRecord, GcRecordsDone,
           GcAckSuperseded, GcSupersededDone, GcScan, GcDeleteContent, GcDone,
           RrStep, RrRead, RrCommit, RrConflict, FaultStep, LeaseCleanupFails, GateFails,
           RrFails, Crash, DispatchLost, Tick, store
<1> QED BY <1>1, Invariance, PTL DEF Spec, LeaseNeverShortened

\* ContentHolds: what an unexpired lease reaches has the content its hash names, with the
\* domain object inside the call or detached from it.
THEOREM ContentIsHeld == Spec => []ContentHolds
<1>1. CanonicalIntegrity /\ LeasedSetReady => ContentHolds
    BY DEF ContentHolds
<1> QED BY <1>1, CanonicalObjectsIntact, LeasesProtect, PTL

-----------------------------------------------------------------------------
(* Upload records, reservations and the clean-up list *)

\* Generations are handed out in order, and a record that is gone is not validated.
RecordsNumbered ==
    \A h \in Hash : uploads[h].gen <= lastGen[h] /\ (uploads[h].gen = 0 => ~uploads[h].validated)

\* The clean-up list holds generations that were handed out and are not current.
CleanupSuperseded ==
    \A k \in Key : cleanup[k] # 0 => k[2] <= lastGen[k[1]] /\ k[2] # uploads[k[1]].gen

\* What the holder of the gate knows of the temporary key it is about to give
\* up: its node is stored, its generation is replaced, or its deadline has passed.
HolderKnows ==
    /\ op.kind = "lease" /\ op.pc \in {"dropTemp", "ackTemp", "dropRecord"} => op.hash \in nodes
    /\ op.kind = "lease" /\ op.pc \in {"dropOld", "ackOld"} => op.gen # uploads[op.hash].gen
    /\ op.kind = "gc" /\ op.pc \in {"ackRecord", "dropRecord"} =>
         (uploads[op.key[1]].gen = op.key[2] => uploads[op.key[1]].cleanupAt <= op.at)

UploadInv == RecordsNumbered /\ CleanupSuperseded /\ ReservationBacked /\ HolderKnows

Holding ==
    \/ op.kind = "lease" /\ op.pc \in {"dropTemp", "ackTemp", "dropRecord", "dropOld", "ackOld"}
    \/ op.kind = "gc" /\ op.pc \in {"ackRecord", "dropRecord"}

\* A step that changes neither rows nor upload tables, and that gives the
\* holder nothing to give up, keeps the invariant.
LEMMA UploadFrame ==
    ASSUME UploadInv, UNCHANGED <<nodes, uploads, lastGen, reservation, cleanup>>,
           op' = op \/ ~Holding'
    PROVE  UploadInv'
<1>1. RecordsNumbered' /\ CleanupSuperseded' /\ ReservationBacked'
    BY DEF UploadInv, RecordsNumbered, CleanupSuperseded, ReservationBacked
<1>2. HolderKnows'
    BY DEF UploadInv, HolderKnows, Holding
<1> QED BY <1>1, <1>2 DEF UploadInv

\* Everything but the writes of upload tables, rows and the steps of a clean-up.
LEMMA QuietUploads ==
    ASSUME Inv, UploadInv,
           \/ ClientStep \/ RequestGc \/ EnterLease \/ EnterGc \/ EnterRootRefs
           \/ \E h \in Hash :
                \/ LeaseRenew(h) \/ LeaseRefuse(h) \/ LeaseAwaitUpload(h) \/ LeaseBound(h)
                \/ LeaseAwaitChildren(h) \/ LeasePutCanonical(h) \/ GcPick(h)
           \/ \E k \in Key : GcSuperseded(k)
           \/ LeaseCleanupFails \/ GcRecordsDone \/ GcSupersededDone \/ GcScan
           \/ GcDeleteContent \/ GcDone
           \/ RrStep \/ GateFails \/ RrFails \/ Crash \/ DispatchLost \/ Tick
    PROVE  UploadInv'
<1>1. UNCHANGED <<nodes, uploads, lastGen, reservation, cleanup>>
    BY DEF ClientStep, RequestLease, RequestRootRefs, PutTemp, RequestGc, Enqueue,
       EnterLease, EnterGc, EnterRootRefs, LeaseRenew, LeaseRefuse, LeaseAwaitUpload,
       LeaseBound, LeaseAwaitChildren, LeasePutCanonical, LeaseCleanupFails,
       GcPick, GcSuperseded, GcRecordsDone, GcSupersededDone, GcScan, GcDeleteContent, GcDone,
       RrStep, RrRead, RrCommit, RrConflict, GateFails, RrFails, Crash, DispatchLost, Tick,
       store, upl
<1>2. CASE ClientStep \/ RequestGc \/ RrStep \/ GateFails \/ RrFails \/ Crash \/ DispatchLost \/ Tick
    <2>1. op' = op \/ op' = Idle
        BY <1>2 DEF ClientStep, RequestLease, RequestRootRefs, PutTemp, RequestGc, Enqueue,
           RrStep, RrRead, RrCommit, RrConflict, AttemptEnds,
           GateFails, RrFails, Crash, DispatchLost, Tick
    <2> QED BY <1>1, <2>1, UploadFrame DEF Holding, Idle
<1>3. CASE EnterLease \/ EnterGc \/ EnterRootRefs
    <2>1. ~Holding'
        BY <1>3 DEF EnterLease, EnterGc, EnterRootRefs, Holding
    <2> QED BY <1>1, <2>1, UploadFrame
<1>4. ASSUME NEW h \in Hash,
             \/ LeaseRenew(h) \/ LeaseRefuse(h) \/ LeaseAwaitUpload(h) \/ LeaseBound(h)
             \/ LeaseAwaitChildren(h) \/ LeasePutCanonical(h)
      PROVE  UploadInv'
    <2>1. op \in LeaseOp
        BY <1>4, OpShape DEF Inv, LeaseRenew, LeaseRefuse, LeaseAwaitUpload, LeaseBound,
           LeaseAwaitChildren, LeasePutCanonical, Publishing, EvaluatingUpload, Evaluating
    <2>2. op' = Idle \/ (op'.kind = "lease" /\ op'.pc = "commit")
        BY <1>4, <2>1 DEF LeaseOp, LeaseRenew, LeaseRefuse, LeaseAwaitUpload, LeaseBound,
           LeaseAwaitChildren, LeasePutCanonical
    <2>3. ~Holding'
        BY <2>2 DEF Holding, Idle
    <2> QED BY <1>1, <2>3, UploadFrame
<1>5. CASE LeaseCleanupFails \/ GcDone
    <2>1. op' = Idle
        BY <1>5 DEF LeaseCleanupFails, GcDone
    <2> QED BY <1>1, <2>1, UploadFrame DEF Holding, Idle
<1>6. CASE \/ \E h \in Hash : GcPick(h)
           \/ \E k \in Key : GcSuperseded(k)
           \/ GcRecordsDone \/ GcSupersededDone \/ GcScan \/ GcDeleteContent
    <2>1. op \in GcOp
        BY <1>6, OpShape DEF Inv, GcPick, GcSuperseded, GcRecordsDone, GcSupersededDone, GcScan,
           GcDeleteContent, InGc
    <2>2. op'.kind = "gc" /\ op'.pc \notin {"ackRecord", "dropRecord"}
        BY <1>6, <2>1 DEF GcOp, GcPick, GcSuperseded, GcRecordsDone, GcSupersededDone, GcScan,
           GcDeleteContent, InGc
    <2>3. ~Holding'
        BY <2>2 DEF Holding
    <2> QED BY <1>1, <2>3, UploadFrame
<1> QED BY <1>2, <1>3, <1>4, <1>5, <1>6

\* A new generation: the first of a hash, or one in place of the old one.
LEMMA NewGeneration ==
    ASSUME Inv, UploadInv, NEW h \in Hash, LeaseOpenUpload(h) \/ LeaseReplaceExpired(h) \/ LeaseReplaceRejected(h)
    PROVE  UploadInv'
<1>0. /\ uploads \in [Hash -> UploadRecord] /\ lastGen \in [Hash -> 0..MaxGen]
      /\ cleanup \in [Key -> Nat] /\ reservation \in [Hash -> Nat] /\ MaxGen \in Nat
    BY LimitAssumption DEF Inv, TypeOK
<1>1. PICK rej : uploads' = [uploads EXCEPT ![h] = NewUpload(h, op.at, rej)]
    BY DEF LeaseOpenUpload, LeaseReplaceExpired, LeaseReplaceRejected, ReplaceUpload
<1>2. UNCHANGED <<nodes, reservation>> /\ lastGen' = [lastGen EXCEPT ![h] = @ + 1]
    BY DEF LeaseOpenUpload, LeaseReplaceExpired, LeaseReplaceRejected, ReplaceUpload, store
<1>3. uploads'[h].gen = lastGen[h] + 1 /\ uploads'[h].validated = FALSE
    BY <1>0, <1>1 DEF NewUpload
<1>4. \A g \in Hash \ {h} : uploads'[g] = uploads[g] /\ lastGen'[g] = lastGen[g]
    BY <1>0, <1>1, <1>2
<1>5. lastGen'[h] = lastGen[h] + 1 /\ lastGen[h] \in Nat /\ uploads[h].gen \in Nat /\ uploads[h].gen <= lastGen[h]
    BY <1>0, <1>2 DEF UploadInv, RecordsNumbered, UploadRecord
<1>6. ~uploads[h].validated
    BY DEF UploadInv, RecordsNumbered, LeaseOpenUpload, LeaseReplaceExpired, LeaseReplaceRejected
<1>7. RecordsNumbered'
    BY <1>3, <1>4, <1>5 DEF UploadInv, RecordsNumbered
<1>8. ReservationBacked'
    BY <1>2, <1>4, <1>6 DEF UploadInv, ReservationBacked
<1>9. \A k \in Key : cleanup'[k] # 0 => cleanup[k] # 0 \/ k = TempKey(h)
    BY <1>0 DEF LeaseOpenUpload, LeaseReplaceExpired, LeaseReplaceRejected, ReplaceUpload
<1>10. CleanupSuperseded'
    <2> SUFFICES ASSUME NEW k \in Key, cleanup'[k] # 0
                 PROVE  k[2] <= lastGen'[k[1]] /\ k[2] # uploads'[k[1]].gen
        BY DEF CleanupSuperseded
    <2>1. k[1] \in Hash /\ k[2] \in Nat
        BY <1>0 DEF Key
    <2>2. CASE cleanup[k] # 0
        <3>1. k[2] <= lastGen[k[1]] /\ k[2] # uploads[k[1]].gen
            BY <2>2 DEF UploadInv, CleanupSuperseded
        <3> QED BY <1>3, <1>4, <1>5, <2>1, <3>1
    <2>3. CASE k = TempKey(h)
        BY <1>3, <1>5, <2>3 DEF TempKey
    <2> QED BY <1>9, <2>2, <2>3
<1>11. HolderKnows'
    <2>1. op.kind = "lease" /\ op.pc = "eval" /\ op.hash = h /\ op \in LeaseOp
        BY OpShape DEF Inv, LeaseOpenUpload, LeaseReplaceExpired, LeaseReplaceRejected,
           EvaluatingUpload, Evaluating
    <2>2. CASE op' = op
        BY <2>1, <2>2 DEF HolderKnows
    <2>3. CASE op' = [op EXCEPT !.pc = "dropOld", !.gen = uploads[h].gen]
        <3>1. op'.kind = "lease" /\ op'.pc = "dropOld" /\ op'.hash = h /\ op'.gen = uploads[h].gen
            BY <2>1, <2>3 DEF LeaseOp
        <3> QED BY <1>3, <1>5, <3>1 DEF HolderKnows
    <2> QED BY <2>2, <2>3 DEF LeaseOpenUpload, LeaseReplaceExpired, LeaseReplaceRejected, ReplaceUpload
<1> QED BY <1>7, <1>8, <1>10, <1>11 DEF UploadInv

\* Staging writes evidence and reservation for the record that is there.
LEMMA StageKeeps ==
    ASSUME Inv, UploadInv, NEW h \in Hash, LeaseStage(h)
    PROVE  UploadInv'
<1>0. uploads \in [Hash -> UploadRecord] /\ reservation \in [Hash -> Nat]
    BY DEF Inv, TypeOK
<1>1. /\ UNCHANGED <<nodes, lastGen, cleanup, op>> /\ h \notin nodes /\ uploads[h].gen # 0
      /\ op.kind = "lease" /\ op.pc = "eval"
    BY DEF LeaseStage, EvaluatingUpload, Evaluating, store
<1>2. /\ uploads'[h].gen = uploads[h].gen /\ uploads'[h].validated
      /\ uploads'[h].cleanupAt = uploads[h].cleanupAt
      /\ \A g \in Hash \ {h} : uploads'[g] = uploads[g]
    BY <1>0 DEF LeaseStage, UploadRecord
<1>3. reservation'[h] = uploads[h].cleanupAt /\ \A g \in Hash \ {h} : reservation'[g] = reservation[g]
    BY <1>0 DEF LeaseStage
<1>4. RecordsNumbered'
    BY <1>1, <1>2 DEF UploadInv, RecordsNumbered
<1>5. CleanupSuperseded'
    <2>1. \A k \in Key : k[1] \in Hash
        BY DEF Key
    <2> QED BY <1>1, <1>2, <2>1 DEF UploadInv, CleanupSuperseded
<1>6. ReservationBacked'
    BY <1>1, <1>2, <1>3 DEF UploadInv, ReservationBacked
<1>7. HolderKnows'
    BY <1>1 DEF HolderKnows
<1> QED BY <1>4, <1>5, <1>6, <1>7 DEF UploadInv

\* The row of a node comes with the end of its reservation.
LEMMA CommitKeepsUploads ==
    ASSUME Inv, UploadInv, NEW h \in Hash, LeaseCommit(h)
    PROVE  UploadInv'
<1>0. reservation \in [Hash -> Nat]
    BY DEF Inv, TypeOK
<1>1. /\ UNCHANGED <<uploads, lastGen, cleanup>> /\ nodes' = nodes \cup {h}
      /\ reservation' = [reservation EXCEPT ![h] = 0] /\ op' = [op EXCEPT !.pc = "dropTemp"]
    BY DEF LeaseCommit, Unreserve
<1>2. op \in LeaseOp /\ op.hash = h
    BY OpShape DEF Inv, LeaseCommit
<1>3. RecordsNumbered' /\ CleanupSuperseded'
    BY <1>1 DEF UploadInv, RecordsNumbered, CleanupSuperseded
<1>4. ReservationBacked'
    BY <1>0, <1>1 DEF UploadInv, ReservationBacked
<1>5. HolderKnows'
    <2>1. op'.kind = "lease" /\ op'.pc = "dropTemp" /\ op'.hash = h
        BY <1>1, <1>2 DEF LeaseOp
    <2> QED BY <1>1, <2>1 DEF HolderKnows
<1> QED BY <1>3, <1>4, <1>5 DEF UploadInv

\* A list from which entries go stays a list of superseded keys.
LEMMA ShorterCleanup ==
    ASSUME UploadInv, UNCHANGED <<nodes, uploads, lastGen, reservation>>,
           \A k \in Key : cleanup'[k] \in {0, cleanup[k]}, HolderKnows'
    PROVE  UploadInv'
BY DEF UploadInv, RecordsNumbered, CleanupSuperseded, ReservationBacked

\* A record that goes takes its reservation along, or has none.
LEMMA RecordGone ==
    ASSUME Inv, UploadInv, UNCHANGED <<nodes, lastGen, cleanup>>, NEW h \in Hash,
           uploads' = [uploads EXCEPT ![h] = NoUpload],
           reservation' = [reservation EXCEPT ![h] = 0] \/ (reservation' = reservation /\ h \in nodes),
           ~Holding'
    PROVE  UploadInv'
<1>0. uploads \in [Hash -> UploadRecord] /\ reservation \in [Hash -> Nat] /\ lastGen \in [Hash -> 0..MaxGen]
    BY DEF Inv, TypeOK
<1>1. /\ uploads'[h].gen = 0 /\ ~uploads'[h].validated
      /\ \A g \in Hash \ {h} : uploads'[g] = uploads[g]
    BY <1>0 DEF NoUpload
<1>2. reservation'[h] = 0 /\ \A g \in Hash \ {h} : reservation'[g] = reservation[g]
    BY <1>0 DEF UploadInv, ReservationBacked
<1>3. RecordsNumbered'
    BY <1>0, <1>1 DEF UploadInv, RecordsNumbered
<1>4. CleanupSuperseded'
    <2>1. \A k \in Key : k[1] \in Hash /\ k[2] # 0
        BY LimitAssumption DEF Key, LimitAssumption
    <2> QED BY <1>1, <2>1 DEF UploadInv, CleanupSuperseded
<1>5. ReservationBacked'
    BY <1>1, <1>2 DEF UploadInv, ReservationBacked
<1>6. HolderKnows'
    BY DEF Holding, HolderKnows
<1> QED BY <1>3, <1>4, <1>5, <1>6 DEF UploadInv

LEMMA LeaseCleanupKeeps ==
    ASSUME Inv, UploadInv, LeaseCleanupStep
    PROVE  UploadInv'
<1>0. op \in LeaseOp /\ op.kind = "lease" /\ cleanup \in [Key -> Nat]
    BY OpShape DEF Inv, TypeOK, LeaseCleanupStep, LeaseDropTemp, LeaseAckTemp, LeaseAckOld, LeaseDropRecord
<1>1. CASE LeaseDropTemp
    <2>1. UNCHANGED <<nodes, uploads, lastGen, reservation, cleanup>>
        BY <1>1 DEF LeaseDropTemp, store
    <2>2. /\ op'.kind = "lease" /\ op'.hash = op.hash /\ op'.gen = op.gen
          /\ op'.pc = IF op.pc = "dropTemp" THEN "ackTemp" ELSE "ackOld"
        BY <1>0, <1>1 DEF LeaseDropTemp, LeaseOp
    <2>3. HolderKnows'
        BY <1>1, <2>1, <2>2 DEF UploadInv, HolderKnows, LeaseDropTemp
    <2> QED BY <2>1, <2>3, ShorterCleanup
<1>2. CASE LeaseAckTemp
    <2>1. UNCHANGED <<nodes, uploads, lastGen, reservation>>
        BY <1>2 DEF LeaseAckTemp, store
    <2>2. op'.kind = "lease" /\ op'.hash = op.hash /\ op'.pc = "dropRecord"
        BY <1>0, <1>2 DEF LeaseAckTemp, LeaseOp
    <2>3. HolderKnows'
        BY <1>2, <2>1, <2>2 DEF UploadInv, HolderKnows, LeaseAckTemp
    <2>4. \A k \in Key : cleanup'[k] \in {0, cleanup[k]}
        BY <1>0, <1>2 DEF LeaseAckTemp
    <2> QED BY <2>1, <2>3, <2>4, ShorterCleanup
<1>3. CASE LeaseAckOld
    <2>1. UNCHANGED <<nodes, uploads, lastGen, reservation>> /\ op' = Idle
        BY <1>3 DEF LeaseAckOld, store
    <2>2. HolderKnows'
        BY <2>1 DEF HolderKnows, Idle
    <2>3. \A k \in Key : cleanup'[k] \in {0, cleanup[k]}
        BY <1>0, <1>3 DEF LeaseAckOld
    <2> QED BY <2>1, <2>2, <2>3, ShorterCleanup
<1>4. CASE LeaseDropRecord
    <2>1. UNCHANGED <<nodes, lastGen, reservation, cleanup>> /\ op' = Idle
        BY <1>4 DEF LeaseDropRecord, store
    <2>2. op.hash \in nodes /\ op.hash \in Hash
        BY <1>0, <1>4 DEF LeaseDropRecord, UploadInv, HolderKnows, LeaseOp
    <2>3. ~Holding'
        BY <2>1 DEF Holding, Idle
    <2>4. CASE uploads' = uploads
        BY <2>1, <2>3, <2>4, UploadFrame
    <2>5. CASE uploads' = [uploads EXCEPT ![op.hash] = NoUpload]
        BY <2>1, <2>2, <2>3, <2>5, RecordGone
    <2> QED BY <1>4, <2>4, <2>5 DEF LeaseDropRecord
<1> QED BY <1>1, <1>2, <1>3, <1>4 DEF LeaseCleanupStep

LEMMA GcUploadsKeep ==
    ASSUME Inv, UploadInv,
           (\E h \in Hash : GcRecord(h)) \/ GcAckRecord \/ GcDropRecord \/ GcAckSuperseded
    PROVE  UploadInv'
<1>0. op \in GcOp /\ op.kind = "gc" /\ cleanup \in [Key -> Nat]
    BY OpShape DEF Inv, TypeOK, GcRecord, GcAckRecord, GcDropRecord, GcAckSuperseded, InGc
<1>1. ASSUME NEW h \in Hash, GcRecord(h) PROVE UploadInv'
    <2>1. UNCHANGED <<nodes, uploads, lastGen, reservation, cleanup>>
        BY <1>1 DEF GcRecord, store
    <2>2. op'.kind = "gc" /\ op'.pc = "ackRecord" /\ op'.key = TempKey(h) /\ op'.at = op.at
        BY <1>0, <1>1 DEF GcRecord, GcOp
    <2>3. uploads[h].cleanupAt <= op.at
        BY <1>1 DEF GcRecord, ExpiredRecords
    <2>4. HolderKnows'
        BY <2>1, <2>2, <2>3 DEF HolderKnows, TempKey
    <2> QED BY <2>1, <2>4, ShorterCleanup
<1>2. CASE GcAckRecord
    <2>1. UNCHANGED <<nodes, uploads, lastGen, reservation>>
        BY <1>2 DEF GcAckRecord, store
    <2>2. op'.kind = "gc" /\ op'.pc = "dropRecord" /\ op'.key = op.key /\ op'.at = op.at
        BY <1>0, <1>2 DEF GcAckRecord, GcOp
    <2>3. HolderKnows'
        BY <1>2, <2>1, <2>2 DEF UploadInv, HolderKnows, GcAckRecord, InGc
    <2>4. \A k \in Key : cleanup'[k] \in {0, cleanup[k]}
        BY <1>0, <1>2 DEF GcAckRecord
    <2> QED BY <2>1, <2>3, <2>4, ShorterCleanup
<1>3. CASE GcDropRecord
    <2>1. UNCHANGED <<nodes, lastGen, cleanup>> /\ op.key[1] \in Hash
        BY <1>0, <1>3 DEF GcDropRecord, store, GcOp
    <2>2. op'.kind = "gc" /\ op'.pc = "records"
        BY <1>0, <1>3 DEF GcDropRecord, GcOp
    <2>3. ~Holding'
        BY <2>2 DEF Holding
    <2>4. CASE uploads[op.key[1]].gen = op.key[2]
        BY <1>3, <2>1, <2>3, <2>4, RecordGone DEF GcDropRecord, Unreserve
    <2>5. CASE uploads[op.key[1]].gen # op.key[2]
        BY <1>3, <2>1, <2>3, <2>5, UploadFrame DEF GcDropRecord
    <2> QED BY <2>4, <2>5
<1>4. CASE GcAckSuperseded
    <2>1. UNCHANGED <<nodes, uploads, lastGen, reservation>>
        BY <1>4 DEF GcAckSuperseded, store
    <2>2. op'.kind = "gc" /\ op'.pc = "superseded"
        BY <1>0, <1>4 DEF GcAckSuperseded, GcOp
    <2>3. HolderKnows'
        BY <2>2 DEF HolderKnows
    <2>4. \A k \in Key : cleanup'[k] \in {0, cleanup[k]}
        BY <1>0, <1>4 DEF GcAckSuperseded
    <2> QED BY <2>1, <2>3, <2>4, ShorterCleanup
<1> QED BY <1>1, <1>2, <1>3, <1>4

\* The deletion of a row concerns no upload: a stored node has no reservation.
LEMMA DeletionKeepsUploads ==
    ASSUME Inv, UploadInv, GcCommit
    PROVE  UploadInv'
<1>1. UNCHANGED <<uploads, lastGen, reservation, cleanup>> /\ nodes' \subseteq nodes
    BY DEF GcCommit, upl
<1>2. op'.kind = "gc" /\ op'.pc = "pick"
    BY OpShape DEF Inv, GcCommit, InGc, GcOp
<1>3. RecordsNumbered' /\ CleanupSuperseded' /\ ReservationBacked'
    BY <1>1 DEF UploadInv, RecordsNumbered, CleanupSuperseded, ReservationBacked
<1>4. HolderKnows'
    BY <1>2 DEF HolderKnows
<1> QED BY <1>3, <1>4 DEF UploadInv

LEMMA NextUploads == Inv /\ UploadInv /\ [Next]_vars => UploadInv'
<1> SUFFICES ASSUME Inv, UploadInv, [Next]_vars PROVE UploadInv'
    OBVIOUS
<1>1. CASE UNCHANGED vars
    <2>1. UNCHANGED <<nodes, uploads, lastGen, reservation, cleanup, op>>
        BY <1>1 DEF vars, store, upl
    <2> QED BY <2>1, UploadFrame
<1>2. ASSUME NEW h \in Hash, LeaseStep(h) PROVE UploadInv'
    BY <1>2, QuietUploads, NewGeneration, StageKeeps, CommitKeepsUploads DEF LeaseStep
<1>3. CASE GcStep
    BY <1>3, QuietUploads, GcUploadsKeep, DeletionKeepsUploads DEF GcStep
<1>4. CASE LeaseCleanupStep
    BY <1>4, LeaseCleanupKeeps
<1>5. CASE \/ ClientStep \/ RequestGc \/ EnterLease \/ EnterGc \/ EnterRootRefs
           \/ RrStep \/ FaultStep \/ Tick
    BY <1>5, QuietUploads DEF FaultStep
<1> QED BY <1>1, <1>2, <1>3, <1>4, <1>5 DEF Next, GateStep

\* Upload records, reservations and clean-up rows keep their relation in every
\* reachable state.
THEOREM UploadInvariance == Spec => []UploadInv
<1>1. Init => UploadInv
    BY DEF Init, UploadInv, RecordsNumbered, CleanupSuperseded, ReservationBacked, HolderKnows,
       NoUpload, Idle
<1>2. Inv /\ UploadInv /\ [Next]_vars => UploadInv'
    BY NextUploads
<1> QED BY <1>1, <1>2, Invariance, PTL DEF Spec

\* UploadsAccounted: however uploads are replaced, published and collected, bytes stay
\* reserved only for a validated record and until its deadline, and the key of a
\* current upload is never on the clean-up list.
THEOREM UploadsAreAccounted == Spec => []UploadsAccounted
<1>1. Inv /\ UploadInv => UploadsAccounted
    <2> SUFFICES ASSUME Inv, UploadInv PROVE UploadsAccounted
        OBVIOUS
    <2>1. CurrentUploadFenced
        <3> SUFFICES ASSUME NEW h \in Hash, uploads[h].gen # 0 PROVE cleanup[TempKey(h)] = 0
            BY DEF CurrentUploadFenced, ActiveUploads
        <3>1. uploads[h].gen \in 1..MaxGen
            BY LimitAssumption DEF Inv, TypeOK, UploadRecord, LimitAssumption
        <3>2. TempKey(h) \in Key /\ TempKey(h)[1] = h /\ TempKey(h)[2] = uploads[h].gen
            BY <3>1 DEF TempKey, Key
        <3> QED BY <3>2 DEF UploadInv, CleanupSuperseded
    <2> QED BY <2>1 DEF UploadInv, UploadsAccounted
<1> QED BY <1>1, Invariance, UploadInvariance, PTL

\* The temporary object of a validated upload whose deadline has not passed.
Staged(h) ==
    /\ h \notin nodes /\ canonical[h] = "absent"
    /\ uploads[h].validated /\ TempOf(h) = "good"
    /\ uploads[h].cleanupAt > now

\* No step takes a staged upload: its record is changed or its object deleted
\* only for a stored node, a replaced generation or after the deadline.
LEMMA StagedStays ==
    ASSUME Inv, UploadInv, Next, NEW h \in Hash, Staged(h)
    PROVE  uploads'[h] = uploads[h] /\ temp'[TempKey(h)] = "good"
<1>0. /\ uploads \in [Hash -> UploadRecord] /\ temp \in [Key -> Stored] /\ now \in Nat
      /\ op.kind = "gc" => op.at <= now
    BY DEF Inv, TypeOK, GcClock
<1>1. uploads[h].gen # 0 /\ uploads[h].gen \in 1..MaxGen /\ uploads[h].validated /\ h \notin nodes
    BY <1>0, LimitAssumption DEF Staged, UploadInv, RecordsNumbered, UploadRecord, LimitAssumption
<1>2. TempKey(h) \in Key /\ TempKey(h)[1] = h /\ TempKey(h)[2] = uploads[h].gen /\ temp[TempKey(h)] = "good"
    BY <1>1 DEF TempKey, Key, Staged, TempOf
<1>3. uploads[h].cleanupAt > now /\ uploads[h].cleanupAt \in Nat
    BY <1>0 DEF Staged, UploadRecord
<1>4. CASE UNCHANGED <<uploads, temp>>
    BY <1>2, <1>4
<1>5. ASSUME NEW g \in Hash, LeaseOpenUpload(g) \/ LeaseReplaceExpired(g) \/ LeaseReplaceRejected(g) \/ LeaseStage(g)
      PROVE  uploads'[h] = uploads[h] /\ temp'[TempKey(h)] = "good"
    <2>1. g # h
        BY <1>1, <1>5 DEF LeaseOpenUpload, LeaseReplaceExpired, LeaseReplaceRejected, LeaseStage
    <2>2. temp' = temp /\ uploads'[h] = uploads[h]
        BY <1>0, <1>5, <2>1 DEF LeaseOpenUpload, LeaseReplaceExpired, LeaseReplaceRejected, ReplaceUpload, LeaseStage
    <2> QED BY <1>2, <2>2
<1>6. CASE LeaseDropTemp
    <2>1. <<op.hash, op.gen>> # TempKey(h)
        BY <1>1, <1>6 DEF LeaseDropTemp, UploadInv, HolderKnows, TempKey
    <2>2. temp'[TempKey(h)] = temp[TempKey(h)] /\ uploads' = uploads
        BY <1>0, <1>2, <1>6, <2>1 DEF LeaseDropTemp
    <2> QED BY <1>2, <2>2
<1>7. CASE LeaseDropRecord
    <2>1. op.hash # h
        BY <1>1, <1>7 DEF LeaseDropRecord, UploadInv, HolderKnows
    <2>2. temp' = temp /\ uploads'[h] = uploads[h]
        BY <1>0, <1>7, <2>1 DEF LeaseDropRecord
    <2> QED BY <1>2, <2>2
<1>8. ASSUME NEW g \in Hash, GcRecord(g) PROVE uploads'[h] = uploads[h] /\ temp'[TempKey(h)] = "good"
    <2>1. op.kind = "gc" /\ op \in GcOp
        BY <1>8, OpShape DEF Inv, GcRecord, InGc
    <2>2. uploads[g].cleanupAt <= op.at /\ op.at \in Nat
        BY <1>8, <2>1 DEF GcRecord, ExpiredRecords, GcOp
    <2>3. g # h
        BY <1>0, <1>3, <2>1, <2>2
    <2>4. temp'[TempKey(h)] = temp[TempKey(h)] /\ uploads' = uploads
        BY <1>0, <1>2, <1>8, <2>3 DEF GcRecord, TempKey
    <2> QED BY <1>2, <2>4
<1>9. CASE GcDropRecord
    <2>1. op.kind = "gc" /\ op \in GcOp /\ op.pc = "dropRecord" /\ op.at \in Nat
        BY <1>9, OpShape DEF Inv, GcDropRecord, InGc, GcOp
    <2>2. uploads[op.key[1]].gen = op.key[2] => uploads[op.key[1]].cleanupAt <= op.at
        BY <2>1 DEF UploadInv, HolderKnows
    <2>3. uploads[op.key[1]].gen = op.key[2] => op.key[1] # h
        BY <1>0, <1>3, <2>1, <2>2
    <2>4. temp' = temp /\ uploads'[h] = uploads[h]
        BY <1>0, <1>9, <2>3 DEF GcDropRecord
    <2> QED BY <1>2, <2>4
<1>10. ASSUME NEW k \in Key, GcSuperseded(k) PROVE uploads'[h] = uploads[h] /\ temp'[TempKey(h)] = "good"
    <2>1. cleanup[k] # 0
        BY <1>10 DEF GcSuperseded, ExpiredCleanup
    <2>2. k # TempKey(h)
        BY <1>2, <2>1 DEF UploadInv, CleanupSuperseded
    <2>3. temp'[TempKey(h)] = temp[TempKey(h)] /\ uploads' = uploads
        BY <1>0, <1>2, <1>10, <2>2 DEF GcSuperseded
    <2> QED BY <1>2, <2>3
<1>11. ASSUME NEW k \in Key, NEW c \in Contents, PutTemp(k, c)
       PROVE  uploads'[h] = uploads[h] /\ temp'[TempKey(h)] = "good"
    <2>1. k # TempKey(h)
        BY <1>2, <1>11 DEF PutTemp
    <2>2. temp'[TempKey(h)] = temp[TempKey(h)] /\ uploads' = uploads
        BY <1>0, <1>2, <1>11, <2>1 DEF PutTemp
    <2> QED BY <1>2, <2>2
<1> QED BY <1>4, <1>5, <1>6, <1>7, <1>8, <1>9, <1>10, <1>11
    DEF Next, ClientStep, RequestLease, RequestRootRefs, RequestGc, Enqueue,
       GateStep, EnterLease, EnterGc, EnterRootRefs, LeaseStep, LeaseRenew, LeaseRefuse,
       LeaseAwaitUpload, LeaseBound, LeaseAwaitChildren, LeasePutCanonical, LeaseCommit,
       LeaseCleanupStep, LeaseAckTemp, LeaseAckOld,
       GcStep, GcPick, GcAckRecord, GcRecordsDone,
       GcAckSuperseded, GcSupersededDone, GcScan, GcDeleteContent, GcCommit, GcDone,
       RrStep, RrRead, RrCommit, RrConflict, FaultStep, LeaseCleanupFails, GateFails,
       RrFails, Crash, DispatchLost, Tick, upl

\* A validated upload that waits for its children keeps its record and its bytes until
\* its node is stored or its deadline has passed.
THEOREM StagedUploadsStay == Spec => StagedUploadKept
<1> DEFINE A == \A h \in Hash :
         /\ h \notin nodes /\ canonical[h] = "absent"
         /\ uploads[h].validated /\ TempOf(h) = "good"
         /\ uploads[h].cleanupAt > now
         => /\ uploads'[h] = uploads[h]
            /\ temp'[TempKey(h)] = "good"
<1>1. Inv /\ UploadInv /\ [Next]_vars => [A]_vars
    BY StagedStays DEF Staged
<1> QED BY <1>1, Invariance, UploadInvariance, PTL DEF Spec, StagedUploadKept

\* GrantedIsKept: no step takes back lease time or the bytes of a staged upload, although
\* leases and collections compute with clocks read before they entered the gate.
THEOREM GrantsAreKept == Spec => GrantedIsKept
<1>1. LeaseNeverShortened /\ StagedUploadKept => GrantedIsKept
    BY DEF GrantedIsKept
<1> QED BY <1>1, LeasesNeverShorten, StagedUploadsStay

-----------------------------------------------------------------------------
(***************************************************************************)
(* What the mutation gate adds when it covers the whole Root Ref attempt   *)
(* (DetachedRootRefs is FALSE): the two copies of the root counts agree,   *)
(* whatever is rooted or leased stays readable, and no collection takes    *)
(* away what is protected.                                                 *)
(***************************************************************************)

\* An attempt runs behind the gate.
AttemptGated == rr # NoAttempt => op.kind = "root"

\* What the attempt checked and planned still holds when it commits.
PlanCurrent ==
    rr.phase = "commit" =>
        /\ RootRefsValid(rr.changes)
        /\ rr.planned = [h \in Hash |-> projection[h] + rr.changes[h]]

RootsHaveRows == \A h \in Hash : rootRefs[h] # 0 => h \in nodes

VictimUnrooted ==
    op.kind = "gc" /\ op.pc \in {"delete", "commit"} => rootRefs[op.key[1]] = 0

GhostUnrooted == \A h \in nodes : canonical[h] = "absent" => rootRefs[h] = 0

\* A stored node has no byte reservation left.
RowsUnreserved == \A h \in nodes : reservation[h] = 0

GatedInv ==
    /\ Inv
    /\ RootLedgerMatches
    /\ AttemptGated
    /\ PlanCurrent
    /\ RootsHaveRows
    /\ VictimUnrooted
    /\ GhostUnrooted
    /\ RowsUnreserved

\* While a lease or a collection holds the gate there is no attempt.
LEMMA NoAttemptBehindOthers ==
    ASSUME GatedInv, op.kind # "root"
    PROVE  rr = NoAttempt /\ rr.phase # "commit"
BY DEF GatedInv, AttemptGated, NoAttempt

\* A step that leaves rows, root counts and content alone.
LEMMA GatedFrame ==
    ASSUME GatedInv, Inv', UNCHANGED <<nodes, rootRefs, projection, canonical>>,
           \A h \in nodes : reservation'[h] = 0,
           AttemptGated', rr' = rr \/ rr'.phase # "commit", op' = op \/ ~Sensitive'
    PROVE  GatedInv'
<1>1. RootLedgerMatches' /\ RootsHaveRows' /\ GhostUnrooted' /\ RowsUnreserved'
    BY DEF GatedInv, RootLedgerMatches, RootsHaveRows, GhostUnrooted, RowsUnreserved
<1>2. PlanCurrent'
    BY DEF GatedInv, PlanCurrent, RootRefsValid, Changed
<1>3. VictimUnrooted'
    BY DEF GatedInv, VictimUnrooted, Sensitive
<1> QED BY <1>1, <1>2, <1>3 DEF GatedInv

\* The steps of a lease that do not touch rows and content.
LEMMA LeaseFrameGated ==
    ASSUME GatedInv, Inv',
           \/ \E h \in Hash :
                \/ LeaseRenew(h)
                \/ LeaseRefuse(h) \/ LeaseOpenUpload(h) \/ LeaseAwaitUpload(h)
                \/ LeaseReplaceExpired(h) \/ LeaseReplaceRejected(h)
                \/ LeaseBound(h) \/ LeaseStage(h) \/ LeaseAwaitChildren(h)
           \/ LeaseCleanupStep \/ LeaseCleanupFails
    PROVE  GatedInv'
<1>1. UNCHANGED <<nodes, rootRefs, projection, canonical, rr>>
    BY DEF LeaseRenew, LeaseRefuse, LeaseOpenUpload, LeaseAwaitUpload, LeaseReplaceExpired,
       LeaseReplaceRejected, ReplaceUpload, LeaseBound, LeaseStage, LeaseAwaitChildren,
       LeaseCleanupStep, LeaseDropTemp, LeaseAckTemp, LeaseAckOld, LeaseDropRecord,
       LeaseCleanupFails, store
<1>2. op.kind = "lease"
    BY DEF LeaseRenew, LeaseRefuse, LeaseOpenUpload, LeaseAwaitUpload, LeaseReplaceExpired,
       LeaseReplaceRejected, LeaseBound, LeaseStage, LeaseAwaitChildren, Publishing,
       EvaluatingUpload, Evaluating, LeaseCleanupStep, LeaseDropTemp, LeaseAckTemp,
       LeaseAckOld, LeaseDropRecord, LeaseCleanupFails
<1>3. op \in LeaseOp
    BY <1>2, OpShape DEF GatedInv, Inv
<1>4. op' = op \/ op' = Idle \/ (op'.kind = "lease" /\ op'.pc # "commit")
    BY <1>2, <1>3 DEF LeaseOp, LeaseRenew, LeaseRefuse, LeaseOpenUpload, LeaseAwaitUpload,
       LeaseReplaceExpired, LeaseReplaceRejected, ReplaceUpload, LeaseBound, LeaseStage,
       LeaseAwaitChildren, LeaseCleanupStep, LeaseDropTemp, LeaseAckTemp, LeaseAckOld,
       LeaseDropRecord, LeaseCleanupFails
<1>5. op' = op \/ ~Sensitive'
    BY <1>4 DEF Sensitive, Idle
<1>6. AttemptGated'
    BY <1>1, <1>2, NoAttemptBehindOthers DEF AttemptGated
<1>7. \A h \in nodes : reservation'[h] = 0
    <2>1. CASE \E h \in Hash : LeaseStage(h)
        <3>1. PICK h \in Hash : LeaseStage(h)
            BY <2>1
        <3>2. h \notin nodes /\ reservation' = [reservation EXCEPT ![h] = uploads[h].cleanupAt]
            BY <3>1 DEF LeaseStage, EvaluatingUpload
        <3>3. reservation \in [Hash -> Nat] /\ nodes \subseteq Hash
            BY DEF GatedInv, Inv, TypeOK
        <3> QED BY <3>2, <3>3 DEF GatedInv, RowsUnreserved
    <2>2. CASE ~\E h \in Hash : LeaseStage(h)
        <3>1. reservation' = reservation
            BY <2>2 DEF LeaseRenew, LeaseRefuse, LeaseOpenUpload, LeaseAwaitUpload,
               LeaseReplaceExpired, LeaseReplaceRejected, ReplaceUpload, LeaseBound,
               LeaseAwaitChildren, LeaseCleanupStep, LeaseDropTemp, LeaseAckTemp,
               LeaseAckOld, LeaseDropRecord, LeaseCleanupFails, upl
        <3> QED BY <3>1 DEF GatedInv, RowsUnreserved
    <2> QED BY <2>1, <2>2
<1> QED BY <1>1, <1>5, <1>6, <1>7, GatedFrame

\* The steps of a collection that do not touch rows and content.
LEMMA GcFrameGated ==
    ASSUME GatedInv, Inv',
           \/ \E h \in Hash : GcRecord(h)
           \/ \E k \in Key : GcSuperseded(k)
           \/ GcAckRecord \/ GcDropRecord \/ GcRecordsDone
           \/ GcAckSuperseded \/ GcSupersededDone \/ GcScan \/ GcDone
    PROVE  GatedInv'
<1>1. UNCHANGED <<nodes, rootRefs, projection, canonical, rr>>
    BY DEF GcRecord, GcSuperseded, GcAckRecord, GcDropRecord, GcRecordsDone,
       GcAckSuperseded, GcSupersededDone, GcScan, GcDone, store
<1>2. op.kind = "gc"
    BY DEF GcRecord, GcSuperseded, GcAckRecord, GcDropRecord, GcRecordsDone,
       GcAckSuperseded, GcSupersededDone, GcScan, GcDone, InGc
<1>3. op \in GcOp
    BY <1>2, OpShape DEF GatedInv, Inv
<1>4. op' = Idle \/ (op'.kind = "gc" /\ op'.pc \notin {"delete", "commit"})
    BY <1>2, <1>3 DEF GcOp, GcRecord, GcSuperseded, GcAckRecord, GcDropRecord,
       GcRecordsDone, GcAckSuperseded, GcSupersededDone, GcScan, GcDone
<1>5. ~Sensitive'
    BY <1>4 DEF Sensitive, Idle
<1>6. AttemptGated'
    BY <1>1, <1>2, NoAttemptBehindOthers DEF AttemptGated
<1>7. \A h \in nodes : reservation'[h] = 0
    <2>0. reservation \in [Hash -> Nat] /\ nodes \subseteq Hash
        BY DEF GatedInv, Inv, TypeOK
    <2>1. reservation' = reservation \/ reservation' = Unreserve(op.key[1])
        BY DEF GcRecord, GcSuperseded, GcAckRecord, GcDropRecord, GcRecordsDone,
           GcAckSuperseded, GcSupersededDone, GcScan, GcDone, upl
    <2> QED BY <2>0, <2>1 DEF Unreserve, GatedInv, RowsUnreserved
<1> QED BY <1>1, <1>5, <1>6, <1>7, GatedFrame

\* Arrivals, entries into the gate, clients, faults and time.
LEMMA OutsideFrameGated ==
    ASSUME ~DetachedRootRefs, GatedInv, Inv',
           \/ ClientStep \/ RequestGc
           \/ EnterLease \/ EnterGc \/ EnterRootRefs
           \/ GateFails \/ RrFails \/ Crash \/ DispatchLost \/ Tick
    PROVE  GatedInv'
<1>1. UNCHANGED <<nodes, rootRefs, projection, canonical, reservation>>
    BY DEF ClientStep, RequestLease, RequestRootRefs, PutTemp, RequestGc, Enqueue,
       EnterLease, EnterGc, EnterRootRefs, GateFails, RrFails, Crash, DispatchLost, Tick,
       store, upl
<1>2. /\ rr' = rr \/ rr'.phase # "commit"
      /\ op' = op \/ ~Sensitive'
    <2>1. CASE EnterLease \/ EnterGc \/ EnterRootRefs
        BY <2>1 DEF EnterLease, EnterGc, EnterRootRefs, Sensitive
    <2>2. CASE ~(EnterLease \/ EnterGc \/ EnterRootRefs)
        <3>1. (rr' = rr \/ rr' = NoAttempt) /\ (op' = op \/ op' = Idle)
            BY <2>2 DEF ClientStep, RequestLease, RequestRootRefs, PutTemp, RequestGc,
               Enqueue, GateFails, RrFails, Crash, DispatchLost, Tick, AttemptEnds
        <3> QED BY <3>1 DEF NoAttempt, Sensitive, Idle
    <2> QED BY <2>1, <2>2
<1>3. AttemptGated'
    <2>0. AttemptGated
        BY DEF GatedInv
    <2>1. CASE ClientStep \/ RequestGc \/ Tick
        BY <2>0, <2>1 DEF AttemptGated, ClientStep, RequestLease, RequestRootRefs, PutTemp,
           RequestGc, Enqueue, Tick
    <2>2. CASE EnterLease \/ EnterGc \/ EnterRootRefs
        BY <2>0, <2>2 DEF AttemptGated, EnterLease, EnterGc, EnterRootRefs, Idle
    <2>3. CASE GateFails \/ Crash \/ DispatchLost
        BY <2>0, <2>3 DEF AttemptGated, GateFails, Crash, DispatchLost
    <2>4. CASE RrFails
        BY <2>4 DEF AttemptGated, RrFails, AttemptEnds
    <2> QED BY <2>1, <2>2, <2>3, <2>4
<1>4. \A h \in nodes : reservation'[h] = 0
    BY <1>1 DEF GatedInv, RowsUnreserved
<1> QED BY <1>1, <1>2, <1>3, <1>4, GatedFrame

\* The attempt reads, plans, commits or starts over; the gate keeps what it
\* read from changing in between.
LEMMA RootGated ==
    ASSUME GatedInv, Inv', RrStep
    PROVE  GatedInv'
<1>0. rr # NoAttempt /\ op.kind = "root"
    BY DEF GatedInv, AttemptGated, RrStep, RrRead, RrCommit, RrConflict, NoAttempt
<1>1. AttemptGated'
    BY <1>0 DEF AttemptGated, RrStep, RrRead, RrCommit, RrConflict, AttemptEnds
<1>2. ~Sensitive'
    BY <1>0 DEF Sensitive, RrStep, RrRead, RrCommit, RrConflict, AttemptEnds, Idle
<1>3. UNCHANGED <<nodes, canonical, reservation>>
    BY DEF RrStep, RrRead, RrCommit, RrConflict, store, upl
<1>4. \A h \in nodes : reservation'[h] = 0
    BY <1>3 DEF GatedInv, RowsUnreserved
<1>5. CASE RrRead
    <2>1. UNCHANGED <<rootRefs, projection>>
        BY <1>5 DEF RrRead, store
    <2>2. RootLedgerMatches' /\ RootsHaveRows' /\ GhostUnrooted' /\ RowsUnreserved'
        BY <1>3, <2>1 DEF GatedInv, RootLedgerMatches, RootsHaveRows, GhostUnrooted,
           RowsUnreserved
    <2>3. PlanCurrent'
        BY <1>3, <1>5, <2>1 DEF RrRead, AttemptEnds, NoAttempt, PlanCurrent,
           RootRefsValid, Changed
    <2>4. VictimUnrooted'
        BY <1>2 DEF VictimUnrooted, Sensitive
    <2> QED BY <1>1, <2>2, <2>3, <2>4 DEF GatedInv
<1>6. CASE RrConflict
    <2>1. UNCHANGED <<rootRefs, projection>> /\ rr'.phase # "commit"
        BY <1>6 DEF RrConflict, AttemptEnds, NoAttempt, store
    <2> QED BY <1>1, <1>2, <1>3, <1>4, <2>1, GatedFrame
<1>7. CASE RrCommit
    <2> DEFINE c == rr.changes
    <2>1. c \in [Hash -> Int] /\ RootRefsValid(c)
          /\ rr.planned = [h \in Hash |-> projection[h] + c[h]]
        BY <1>7, AttemptShape DEF RrCommit, GatedInv, Inv, PlanCurrent
    <2>2. /\ rootRefs \in [Hash -> Nat] /\ projection \in [Hash -> Nat] /\ nodes \subseteq Hash
          /\ rootRefs' = [h \in Hash |-> IF h \in nodes THEN rootRefs[h] + c[h] ELSE 0]
          /\ projection' = [h \in Hash |-> IF c[h] # 0 THEN rr.planned[h] ELSE projection[h]]
          /\ rr' = NoAttempt
        BY <1>7 DEF RrCommit, AttemptEnds, GatedInv, Inv, TypeOK
    <2>3. ASSUME NEW h \in Hash
          PROVE  /\ projection[h] = rootRefs[h]
                 /\ h \notin nodes => rootRefs[h] = 0 /\ c[h] = 0
                 /\ h \in nodes /\ canonical[h] = "absent" => rootRefs[h] = 0 /\ ~(c[h] > 0)
        BY <2>1, <2>2 DEF GatedInv, RootLedgerMatches, RootsHaveRows, GhostUnrooted,
           RootRefsValid, Changed
    <2>4. RootLedgerMatches'
        <3> SUFFICES ASSUME NEW h \in Hash PROVE projection'[h] = rootRefs'[h]
            BY DEF RootLedgerMatches
        <3> QED BY <2>1, <2>2, <2>3
    <2>5. RootsHaveRows' /\ RowsUnreserved'
        BY <1>3, <1>4, <2>2 DEF RootsHaveRows, RowsUnreserved
    <2>6. GhostUnrooted'
        <3> SUFFICES ASSUME NEW h \in nodes, canonical[h] = "absent" PROVE rootRefs'[h] = 0
            BY <1>3 DEF GhostUnrooted
        <3>1. rootRefs[h] + c[h] >= 0
            BY <1>7 DEF RrCommit
        <3> QED BY <2>1, <2>2, <2>3, <3>1
    <2>7. PlanCurrent' /\ VictimUnrooted'
        BY <1>2, <2>2 DEF PlanCurrent, NoAttempt, VictimUnrooted, Sensitive
    <2> QED BY <1>1, <2>4, <2>5, <2>6, <2>7 DEF GatedInv
<1> QED BY <1>5, <1>6, <1>7 DEF RrStep

\* The steps that change rows or content: only a lease or a collection takes
\* them, so no attempt is under way.
LEMMA StoreGated ==
    ASSUME GatedInv, Inv',
           \/ \E h \in Hash : LeasePutCanonical(h) \/ LeaseCommit(h) \/ GcPick(h)
           \/ GcDeleteContent \/ GcCommit
    PROVE  GatedInv'
<1>0. /\ rootRefs \in [Hash -> Nat] /\ canonical \in [Hash -> Stored] /\ nodes \subseteq Hash
      /\ reservation \in [Hash -> Nat]
    BY DEF GatedInv, Inv, TypeOK
<1>1. op.kind # "root" /\ UNCHANGED <<rr, projection>>
    BY DEF LeasePutCanonical, Publishing, EvaluatingUpload, Evaluating, LeaseCommit,
       GcPick, GcDeleteContent, GcCommit, InGc, store
<1>2. rr' = NoAttempt
    BY <1>1, NoAttemptBehindOthers
<1>3. AttemptGated' /\ PlanCurrent'
    BY <1>2 DEF AttemptGated, PlanCurrent, NoAttempt
<1>4. ASSUME NEW h \in Hash, LeasePutCanonical(h) PROVE GatedInv'
    <2>1. op \in LeaseOp /\ op.kind = "lease" /\ h \notin nodes
        BY <1>4, OpShape DEF GatedInv, Inv, LeasePutCanonical, Publishing, EvaluatingUpload,
           Evaluating
    <2>2. UNCHANGED <<nodes, rootRefs, projection, reservation>> /\ op'.kind = "lease"
          /\ \A g \in Hash \ {h} : canonical'[g] = canonical[g]
        BY <1>0, <1>4, <2>1 DEF LeasePutCanonical, LeaseOp, upl
    <2>3. RootLedgerMatches' /\ RootsHaveRows' /\ RowsUnreserved' /\ VictimUnrooted'
        BY <2>2 DEF GatedInv, RootLedgerMatches, RootsHaveRows, RowsUnreserved, VictimUnrooted
    <2>4. GhostUnrooted'
        BY <1>0, <2>1, <2>2 DEF GatedInv, GhostUnrooted
    <2> QED BY <1>3, <2>3, <2>4 DEF GatedInv
<1>5. ASSUME NEW h \in Hash, LeaseCommit(h) PROVE GatedInv'
    <2>1. op \in LeaseOp /\ op.kind = "lease" /\ op.pc = "commit" /\ op.hash = h
        BY <1>5, OpShape DEF GatedInv, Inv, LeaseCommit
    <2>2. /\ UNCHANGED <<rootRefs, projection, canonical>> /\ nodes' = nodes \cup {h}
          /\ reservation' = [reservation EXCEPT ![h] = 0] /\ op'.kind = "lease"
          /\ canonical[h] # "absent"
        BY <1>5, <2>1 DEF LeaseCommit, Unreserve, LeaseOp, GatedInv, Inv, CommitReady
    <2>3. RootLedgerMatches' /\ RootsHaveRows' /\ VictimUnrooted'
        BY <2>2 DEF GatedInv, RootLedgerMatches, RootsHaveRows, VictimUnrooted
    <2>4. GhostUnrooted' /\ RowsUnreserved'
        BY <1>0, <2>2 DEF GatedInv, GhostUnrooted, RowsUnreserved
    <2> QED BY <1>3, <2>3, <2>4 DEF GatedInv
<1>6. ASSUME NEW h \in Hash, GcPick(h) PROVE GatedInv'
    <2>1. op \in GcOp /\ op.kind = "gc" /\ op.pc = "pick"
        BY <1>6, OpShape DEF GatedInv, Inv, GcPick, InGc
    <2>2. UNCHANGED <<nodes, rootRefs, projection, canonical, reservation>>
        BY <1>6 DEF GcPick, store, upl
    <2>3. VictimUnrooted'
        <3>1. CASE Eligible(h, op.at)
            <4>1. op'.key[1] = h
                BY <1>6, <2>1, <3>1 DEF GcPick, GcOp
            <4> QED BY <2>2, <3>1, <4>1 DEF VictimUnrooted, Eligible
        <3>2. CASE ~Eligible(h, op.at)
            <4>1. op'.pc = "pick"
                BY <1>6, <2>1, <3>2 DEF GcPick, GcOp
            <4> QED BY <4>1 DEF VictimUnrooted
        <3> QED BY <3>1, <3>2
    <2>4. RootLedgerMatches' /\ RootsHaveRows' /\ GhostUnrooted' /\ RowsUnreserved'
        BY <2>2 DEF GatedInv, RootLedgerMatches, RootsHaveRows, GhostUnrooted, RowsUnreserved
    <2> QED BY <1>3, <2>3, <2>4 DEF GatedInv
<1>7. CASE GcDeleteContent
    <2> DEFINE h == op.key[1]
    <2>1. op \in GcOp /\ op.kind = "gc" /\ op.pc = "delete" /\ h \in Hash
        BY <1>7, OpShape DEF GatedInv, Inv, GcDeleteContent, InGc, GcOp
    <2>2. /\ UNCHANGED <<nodes, rootRefs, projection, reservation>> /\ op'.key = op.key
          /\ rootRefs[h] = 0
          /\ \A g \in Hash \ {h} : canonical'[g] = canonical[g]
        BY <1>0, <1>7, <2>1 DEF GcDeleteContent, GcOp, GatedInv, VictimUnrooted, upl
    <2>3. VictimUnrooted' /\ GhostUnrooted'
        BY <1>0, <2>1, <2>2 DEF VictimUnrooted, GatedInv, GhostUnrooted
    <2>4. RootLedgerMatches' /\ RootsHaveRows' /\ RowsUnreserved'
        BY <2>2 DEF GatedInv, RootLedgerMatches, RootsHaveRows, RowsUnreserved
    <2> QED BY <1>3, <2>3, <2>4 DEF GatedInv
<1>8. CASE GcCommit
    <2> DEFINE h == op.key[1]
    <2>1. op \in GcOp /\ op.kind = "gc" /\ op.pc = "commit" /\ h \in Hash
        BY <1>8, OpShape DEF GatedInv, Inv, GcCommit, InGc, GcOp
    <2>2. /\ UNCHANGED <<projection, canonical, reservation>> /\ nodes' = nodes \ {h}
          /\ op'.pc = "pick" /\ rootRefs[h] = 0
          /\ rootRefs' = [rootRefs EXCEPT ![h] = 0]
        BY <1>8, <2>1 DEF GcCommit, GcOp, GatedInv, VictimUnrooted, upl
    <2>3. rootRefs' = rootRefs
        BY <1>0, <2>1, <2>2
    <2>4. RootLedgerMatches' /\ RootsHaveRows' /\ GhostUnrooted' /\ RowsUnreserved'
        BY <1>0, <2>1, <2>2, <2>3 DEF GatedInv, RootLedgerMatches, RootsHaveRows,
           GhostUnrooted, RowsUnreserved
    <2>5. VictimUnrooted'
        BY <2>2 DEF VictimUnrooted
    <2> QED BY <1>3, <2>4, <2>5 DEF GatedInv
<1> QED BY <1>4, <1>5, <1>6, <1>7, <1>8

-----------------------------------------------------------------------------
(* Theorems *)

\* The empty Space has no roots, no attempt and no ghost row.
LEMMA InitGated == Init => GatedInv
<1> SUFFICES ASSUME Init PROVE GatedInv
    OBVIOUS
<1>1. Inv
    BY InitInv
<1> QED BY <1>1 DEF Init, GatedInv, RootLedgerMatches, AttemptGated, PlanCurrent,
       RootsHaveRows, VictimUnrooted, GhostUnrooted, RowsUnreserved, Idle, NoAttempt

\* Every step keeps the invariant of the gated Space.
LEMMA NextGated ==
    ASSUME ~DetachedRootRefs
    PROVE  GatedInv /\ [Next]_vars => GatedInv'
<1> SUFFICES ASSUME GatedInv, [Next]_vars PROVE GatedInv'
    OBVIOUS
<1>0. Inv'
    BY NextInv DEF GatedInv
<1>1. CASE UNCHANGED vars
    <2>1. /\ UNCHANGED <<nodes, rootRefs, projection, canonical>> /\ rr' = rr /\ op' = op
          /\ reservation' = reservation
        BY <1>1 DEF vars, store, upl
    <2>2. AttemptGated' /\ \A h \in nodes : reservation'[h] = 0
        BY <2>1 DEF GatedInv, AttemptGated, RowsUnreserved
    <2> QED BY <1>0, <2>1, <2>2, GatedFrame
<1>2. CASE ClientStep \/ RequestGc \/ EnterLease \/ EnterGc \/ EnterRootRefs
           \/ GateFails \/ RrFails \/ Crash \/ DispatchLost \/ Tick
    BY <1>0, <1>2, OutsideFrameGated
<1>3. CASE RrStep
    BY <1>0, <1>3, RootGated
<1>4. ASSUME NEW h \in Hash, LeaseStep(h) PROVE GatedInv'
    BY <1>0, <1>4, LeaseFrameGated, StoreGated DEF LeaseStep
<1>5. CASE LeaseCleanupStep \/ LeaseCleanupFails
    BY <1>0, <1>5, LeaseFrameGated
<1>6. CASE GcStep
    BY <1>0, <1>6, GcFrameGated, StoreGated DEF GcStep
<1> QED BY <1>1, <1>2, <1>3, <1>4, <1>5, <1>6 DEF Next, GateStep, FaultStep

\* With the gate held for the whole attempt, the invariant holds in every
\* reachable state.
THEOREM GatedInvariance == ASSUME ~DetachedRootRefs PROVE Spec => []GatedInv
<1>1. Init => GatedInv
    BY InitGated
<1>2. GatedInv /\ [Next]_vars => GatedInv'
    BY NextGated
<1> QED BY <1>1, <1>2, PTL DEF Spec

\* The App's projection and the nodes' own root counts never differ: the
\* attempt plans from what it read, and nothing else moves in between.
THEOREM RootCountsAgree == ASSUME ~DetachedRootRefs PROVE Spec => []RootLedgerMatches
<1>1. GatedInv => RootLedgerMatches
    BY DEF GatedInv
<1> QED BY <1>1, GatedInvariance, PTL

\* A row whose content a stopped collection took away is one that the next
\* collection may delete.
THEOREM GhostRowsCollectable == ASSUME ~DetachedRootRefs PROVE Spec => []GhostRowCollectable
<1>1. GatedInv => GhostRowCollectable
    <2> SUFFICES ASSUME GatedInv, NEW h \in nodes, canonical[h] = "absent"
                 PROVE  Eligible(h, now)
        BY DEF GhostRowCollectable
    <2>1. now \in Nat
        BY DEF GatedInv, Inv, TypeOK
    <2> QED BY <2>1 DEF GatedInv, Inv, GhostUnreferenced, GhostUnrooted, RowsUnreserved, Eligible
<1> QED BY <1>1, GatedInvariance, PTL

\* Everything that committed roots or unexpired leases reach is stored, has
\* its content and is out of the collector's reach.
THEOREM RootsAndLeasesProtect == ASSUME ~DetachedRootRefs PROVE Spec => []LiveSetReady
<1>1. GatedInv => LiveSetReady
    <2> SUFFICES ASSUME GatedInv, NEW h \in Reach(Leased \cup Rooted)
                 PROVE  h \in Protected /\ canonical[h] = "good"
        BY DEF LiveSetReady
    <2> DEFINE D == {g \in Hash : g \in Protected /\ canonical[g] = "good"}
    <2>0. Inv /\ nodes \subseteq Hash /\ canonical \in [Hash -> Stored]
          /\ rootRefs \in [Hash -> Nat] /\ projection \in [Hash -> Nat]
          /\ leaseExp \in [Hash -> Nat] /\ now \in Nat
        BY DEF GatedInv, Inv, TypeOK
    <2>1. Leased \subseteq D
        BY <2>0 DEF Leased, Protected, Inv, GhostUnreferenced, CanonicalIntegrity, Stored
    <2>2. Rooted \subseteq D
        <3> SUFFICES ASSUME NEW g \in Hash, projection[g] > 0 PROVE g \in D
            BY DEF Rooted
        <3>1. rootRefs[g] > 0 /\ g \in nodes
            BY <2>0 DEF GatedInv, RootLedgerMatches, RootsHaveRows
        <3>2. canonical[g] = "good"
            BY <2>0, <3>1 DEF GatedInv, GhostUnrooted, Inv, CanonicalIntegrity, Stored
        <3> QED BY <3>1, <3>2 DEF Protected
    <2>3. \A e \in edges : e[3] \in D
        BY <2>0, EdgeTargetsProtected
    <2>4. h \in D
        BY <2>1, <2>2, <2>3 DEF Reach
    <2> QED BY <2>4
<1> QED BY <1>1, GatedInvariance, PTL

\* No step takes the row or the content of a node that is leased, rooted or
\* referenced: collections look again, but only the gate makes the look valid.
THEOREM ProtectedNeverReclaimed ==
    ASSUME ~DetachedRootRefs PROVE Spec => NeverReclaimsProtected
<1> DEFINE A == \A h \in Hash :
         (h \in nodes /\ h \notin nodes') \/ (canonical[h] # "absent" /\ canonical'[h] = "absent")
         => h \in nodes /\ h \notin Protected /\ projection[h] = 0
<1>1. GatedInv /\ [Next]_vars => [A]_vars
    <2> SUFFICES ASSUME GatedInv, Next, NEW h \in Hash,
                        \/ h \in nodes /\ h \notin nodes'
                        \/ canonical[h] # "absent" /\ canonical'[h] = "absent"
                 PROVE  h \in nodes /\ h \notin Protected /\ projection[h] = 0
        OBVIOUS
    <2>0. canonical \in [Hash -> Stored]
        BY DEF GatedInv, Inv, TypeOK
    <2>1. GcDeleteContent \/ GcCommit \/ \E g \in Hash : LeasePutCanonical(g)
        BY DEF Next, ClientStep, RequestLease, RequestRootRefs, PutTemp, RequestGc, Enqueue,
           GateStep, EnterLease, EnterGc, EnterRootRefs, LeaseStep, LeaseRenew, LeaseRefuse,
           LeaseOpenUpload, LeaseAwaitUpload, LeaseReplaceExpired, LeaseReplaceRejected,
           ReplaceUpload, LeaseBound, LeaseStage, LeaseAwaitChildren, LeaseCommit,
           LeaseCleanupStep, LeaseDropTemp, LeaseAckTemp, LeaseAckOld, LeaseDropRecord,
           GcStep, GcRecord, GcPick, GcSuperseded, GcAckRecord, GcDropRecord, GcRecordsDone,
           GcAckSuperseded, GcSupersededDone, GcScan, GcDone,
           RrStep, RrRead, RrCommit, RrConflict, FaultStep, LeaseCleanupFails, GateFails,
           RrFails, Crash, DispatchLost, Tick, store
    <2>2. ASSUME NEW g \in Hash, LeasePutCanonical(g) PROVE FALSE
        BY <2>0, <2>2 DEF LeasePutCanonical, ChecksumMatches
    <2>3. h = op.key[1] /\ op.kind = "gc" /\ op.pc \in {"delete", "commit"} /\ op \in GcOp
        BY <2>0, <2>1, <2>2, OpShape DEF GatedInv, Inv, GcDeleteContent, GcCommit, InGc
    <2>4. /\ h \in nodes /\ childRefs[h] = 0 /\ leaseExp[h] <= op.at /\ rootRefs[h] = 0
          /\ op.at <= now /\ projection[h] = rootRefs[h]
        BY <2>3 DEF GatedInv, Inv, VictimUnreferenced, VictimUnrooted, GcClock, RootLedgerMatches
    <2>5. leaseExp[h] \in Nat /\ op.at \in Nat /\ now \in Nat
        BY <2>3 DEF GatedInv, Inv, TypeOK, GcOp
    <2>6. ~(leaseExp[h] > now)
        BY <2>4, <2>5
    <2> QED BY <2>4, <2>6 DEF Protected
<1> QED BY <1>1, GatedInvariance, PTL DEF Spec, NeverReclaimsProtected

\* CountsExact: behind the gate, the counts that commitNewNode, commitDeletion and the
\* Root Ref batch keep are exact in every state, whatever fails in between.
THEOREM CountsAreExact == ASSUME ~DetachedRootRefs PROVE Spec => []CountsExact
<1>1. ChildRefsExact /\ RootLedgerMatches => CountsExact
    BY DEF CountsExact
<1> QED BY <1>1, ChildCountsExact, RootCountsAgree, PTL

-----------------------------------------------------------------------------
(* Reads outside the gate *)

ReadState ==
    [pc: {"row", "refs", "answered", "missing"}, hash: Hash, content: BOOLEAN, safe: BOOLEAN,
     refs: SUBSET (Hash \X Nat \X Hash)]

\* A read that is still safe reads a protected node, with its references once
\* they are read.
ReadInv ==
    /\ rd \in {NoRead} \cup ReadState
    /\ rd.pc \in {"row", "refs"} /\ rd.safe => rd.hash \in Protected
    /\ rd.pc = "refs" /\ rd.safe => rd.refs = RefEdges(rd.hash)
    /\ ProtectedReadIntact

LEMMA ReadShape ==
    ASSUME rd \in {NoRead} \cup ReadState, rd.pc # "idle"
    PROVE  rd \in ReadState /\ rd.hash \in Hash /\ rd.content \in BOOLEAN /\ rd.safe \in BOOLEAN
BY DEF ReadState, NoRead

LEMMA ContinueShape ==
    ASSUME rd \in ReadState, NEW pc \in {"row", "refs", "answered", "missing"},
           NEW refs \in SUBSET (Hash \X Nat \X Hash), Continue(pc, refs)
    PROVE  /\ rd' \in ReadState /\ rd'.pc = pc /\ rd'.refs = refs
           /\ rd'.hash = rd.hash /\ rd'.safe = rd.safe
<1>1. rd' = [pc |-> pc, hash |-> rd.hash, content |-> rd.content, safe |-> rd.safe, refs |-> refs]
    BY DEF ReadState, Continue
<1>2. rd.hash \in Hash /\ rd.content \in BOOLEAN /\ rd.safe \in BOOLEAN
    BY DEF ReadState
<1> QED BY <1>1, <1>2 DEF ReadState

LEMMA NextRead ==
    GatedInv /\ ReadInv /\ [ReadNext]_readVars => ReadInv'
<1> SUFFICES ASSUME GatedInv, ReadInv, [ReadNext]_readVars PROVE ReadInv'
    OBVIOUS
<1>0. /\ Inv /\ TypeOK /\ nodes \subseteq Hash /\ rd \in {NoRead} \cup ReadState
      /\ edges \subseteq Hash \X Nat \X Hash
    BY DEF GatedInv, Inv, TypeOK, ReadInv
<1>1. ASSUME NEW h \in Hash, NEW content \in BOOLEAN, ReadRow(h, content) PROVE ReadInv'
    <2>1. /\ rd' = [pc |-> IF h \in nodes THEN "row" ELSE "missing", hash |-> h,
                    content |-> content, safe |-> h \in Protected, refs |-> {}]
          /\ Protected' = Protected
        BY <1>1 DEF ReadRow, vars, store, Protected
    <2>2. rd' \in ReadState
        BY <2>1 DEF ReadState
    <2>3. /\ rd'.pc \in {"row", "missing"} /\ (rd'.safe <=> h \in Protected) /\ rd'.hash = h
          /\ rd'.pc = "missing" => h \notin nodes
        BY <2>1
    <2>4. rd'.pc = "missing" => ~rd'.safe
        BY <2>3 DEF Protected
    <2> QED BY <2>1, <2>2, <2>3, <2>4 DEF ReadInv, ProtectedReadIntact
<1>2. CASE ReadRefs
    <2>0. rd.pc = "row" /\ rd \in ReadState /\ rd.hash \in Hash /\ rd.content \in BOOLEAN /\ rd.safe \in BOOLEAN
        BY <1>0, <1>2, ReadShape DEF ReadRefs
    <2>1. EdgesOf(rd.hash) \in SUBSET (Hash \X Nat \X Hash)
        BY <1>0 DEF EdgesOf
    <2>2. /\ rd' \in ReadState /\ rd'.pc \in {"refs", "answered"} /\ rd'.refs = EdgesOf(rd.hash)
          /\ rd'.hash = rd.hash /\ rd'.safe = rd.safe
        BY <1>2, <2>0, <2>1, ContinueShape DEF ReadRefs
    <2>3. Protected' = Protected
        BY <1>2 DEF ReadRefs, vars, store, Protected
    <2>4. rd.safe => rd.hash \in Protected /\ EdgesOf(rd.hash) = RefEdges(rd.hash)
        BY <1>0, <2>0, EdgesOfNode DEF ReadInv, Protected, Inv
    <2> QED BY <2>2, <2>3, <2>4 DEF ReadInv, ProtectedReadIntact
<1>3. CASE ReadBody
    <2>0. rd.pc = "refs" /\ rd \in ReadState /\ rd.hash \in Hash
        BY <1>0, <1>3, ReadShape DEF ReadBody
    <2>1. rd.refs \in SUBSET (Hash \X Nat \X Hash)
        BY <2>0 DEF ReadState
    <2>2. /\ rd' \in ReadState /\ rd'.refs = rd.refs /\ rd'.hash = rd.hash /\ rd'.safe = rd.safe
          /\ rd'.pc = IF canonical[rd.hash] = "absent" THEN "missing" ELSE "answered"
        BY <1>3, <2>0, <2>1, ContinueShape DEF ReadBody
    <2>3. rd.safe => canonical[rd.hash] # "absent"
        <3> SUFFICES ASSUME rd.safe, canonical[rd.hash] = "absent" PROVE FALSE
            OBVIOUS
        <3>1. rd.hash \in Protected
            BY <2>0 DEF ReadInv
        <3>2. rd.hash \in nodes /\ childRefs[rd.hash] = 0 /\ rootRefs[rd.hash] = 0 /\ leaseExp[rd.hash] <= now
            BY <3>1 DEF Protected, GatedInv, Inv, GhostUnreferenced, GhostUnrooted
        <3>3. leaseExp[rd.hash] \in Nat /\ now \in Nat
            BY <1>0, <2>0 DEF TypeOK
        <3> QED BY <3>1, <3>2, <3>3 DEF Protected
    <2> QED BY <2>0, <2>2, <2>3 DEF ReadInv, ProtectedReadIntact
<1>4. CASE SpaceStep
    <2>1. CASE rd.pc \in {"row", "refs"}
        <3>1. rd' = [rd EXCEPT !.safe = rd.safe /\ rd.hash \in Protected']
            BY <1>4, <2>1 DEF SpaceStep
        <3>2. rd \in ReadState
            BY <1>0, <2>1, ReadShape
        <3>3. /\ rd' \in ReadState /\ rd'.pc = rd.pc /\ rd'.hash = rd.hash /\ rd'.refs = rd.refs
              /\ rd'.safe => rd.safe /\ rd.hash \in Protected'
            BY <3>1, <3>2 DEF ReadState
        <3> QED BY <2>1, <3>3 DEF ReadInv, ProtectedReadIntact
    <2>2. CASE rd.pc \notin {"row", "refs"}
        BY <1>4, <2>2 DEF SpaceStep, ReadInv, ProtectedReadIntact
    <2> QED BY <2>1, <2>2
<1>5. CASE UNCHANGED readVars
    <2>1. rd' = rd /\ Protected' = Protected
        BY <1>5 DEF readVars, vars, store, Protected
    <2> QED BY <2>1 DEF ReadInv, ProtectedReadIntact
<1> QED BY <1>1, <1>2, <1>3, <1>4, <1>5 DEF ReadNext, ReadStep

\* Reads write nothing: the Space under reads behaves as the Space alone.
LEMMA ReadsLeaveSpace == ReadSpec => Spec
<1>1. ReadInit => Init
    BY DEF ReadInit
<1>2. [ReadNext]_readVars => [Next]_vars
    BY DEF ReadNext, ReadStep, ReadRow, ReadRefs, ReadBody, SpaceStep, readVars
<1> QED BY <1>1, <1>2, PTL DEF ReadSpec, Spec

\* ProtectedReadIntact: a read that does not enter the gate, and that any commit, collection
\* or Root Ref update may overtake between its three calls, answers with the references
\* of its node if the node stays protected.
THEOREM ReadsAreIntact == ASSUME ~DetachedRootRefs PROVE ReadSpec => []ProtectedReadIntact
<1>1. ReadInit => ReadInv
    BY DEF ReadInit, ReadInv, ReadState, NoRead, ProtectedReadIntact
<1>2. GatedInv /\ ReadInv /\ [ReadNext]_readVars => ReadInv'
    BY NextRead
<1>3. ReadInv => ProtectedReadIntact
    BY DEF ReadInv
<1>4. ReadSpec => []GatedInv
    BY ReadsLeaveSpace, GatedInvariance
<1> QED BY <1>1, <1>2, <1>3, <1>4, PTL DEF ReadSpec

=============================================================================
