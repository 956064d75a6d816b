------------------------------ MODULE SpaceCas ------------------------------
(***************************************************************************)
(* One Space of the content-addressed store: the Space Durable Object with *)
(* its mutation gate, lease-driven node upload, child and root reference   *)
(* counts, and garbage collection over D1 (rows, edges, upload records)    *)
(* and R2 (canonical and temporary objects).                               *)
(*                                                                         *)
(* Every D1 batch and every R2 call that changes durable state is a step   *)
(* of its own, so a request that holds the gate can be cut short between   *)
(* any two of them.  Reads made while the gate is held are merged into the *)
(* write that follows: only the holder of the gate writes what they read.  *)
(***************************************************************************)
EXTENDS Integers, Sequences, FiniteSets

CONSTANTS
    Hash,             \* node hashes
    Refs,             \* Refs[h]: ordered child hashes in the bytes of node h
    Rank,             \* a topological rank: a hash cannot occur in its own pre-image
    LeaseDurations,   \* lease durations a client may ask for (after clamping)
    UploadSession,    \* lifetime of an upload generation and of a signed URL
    UploadCleanup,    \* time from the end of the session to the cleanup deadline
    MaxActiveUploads, \* limit on upload records per Space
    GcLimit,          \* maxNodes of a garbage-collection request
    RootChanges,      \* the Root Ref change sets a client may send
    MaxRootCount,     \* largest root count (the safe-integer bound of the code)
    Contents,         \* what a client may PUT: "good" (canonical bytes of h) or "bad"
    MaxAttempts,      \* attempts at one Root Ref update (CAS_RETRY_MAX_ATTEMPTS)
    DetachedRootRefs, \* TRUE: a Root Ref attempt may outlive the gate that forwarded it
    MaxGen,           \* bound: upload generations per hash
    MaxTime,          \* bound: clock
    MaxQueue,         \* bound: requests waiting for the gate
    MaxFaults         \* bound: crashes, failed calls and lost requests

RefEdges(h) == {<<h, i, Refs[h][i]>> : i \in DOMAIN Refs[h]}
Children(h) == {Refs[h][i] : i \in DOMAIN Refs[h]}

ASSUME HashAssumption == IsFiniteSet(Hash) /\ Hash # {}
ASSUME RefsAssumption == Refs \in [Hash -> Seq(Hash)]
ASSUME RankAssumption ==
    /\ Rank \in [Hash -> Nat]
    /\ \A h \in Hash : \A c \in Children(h) : Rank[c] < Rank[h]
ASSUME TimeAssumption ==
    /\ LeaseDurations \subseteq Nat \ {0}
    /\ UploadSession \in Nat \ {0}
    /\ UploadCleanup \in Nat
    /\ MaxTime \in Nat
ASSUME LimitAssumption ==
    /\ MaxActiveUploads \in Nat /\ GcLimit \in Nat \ {0}
    /\ MaxGen \in Nat /\ MaxQueue \in Nat /\ MaxFaults \in Nat
    /\ MaxRootCount \in Nat /\ MaxAttempts \in Nat \ {0}
    /\ RootChanges \subseteq [Hash -> Int]
ASSUME ModeAssumption ==
    /\ Contents \subseteq {"good", "bad"}
    /\ DetachedRootRefs \in BOOLEAN

VARIABLES
    now,          \* wall clock
    nodes,        \* hashes with a row in cas_nodes
    leaseExp,     \* cas_nodes.lease_expires_at
    childRefs,    \* cas_nodes.child_ref_count
    rootRefs,     \* cas_nodes.root_ref_count
    edges,        \* cas_edges: <<parent, ordinal, child>>
    projection,   \* cas_app_root_refs.ref_count of this Space, 0 for no row
    canonical,    \* R2 canonical object of each hash
    uploads,      \* cas_node_uploads: the current upload record of each hash
    lastGen,      \* generations handed out so far (stands for fresh UUIDs)
    reservation,  \* cas_upload_reservations.expires_at, 0 for no row
    cleanup,      \* cas_node_upload_cleanup.cleanup_at by temporary key, 0 for no row
    temp,         \* R2 temporary object of each key
    url,          \* latest expiry of a signed PUT URL of each key, 0 for none
    queue,        \* requests waiting for the gate, oldest first
    op,           \* the request that holds the gate, and how far it has come
    rr,           \* the Root Ref attempt running in the App's domain object
    faults        \* faults so far

store == <<nodes, leaseExp, childRefs, rootRefs, edges, projection, canonical>>
upl   == <<uploads, lastGen, reservation, cleanup, temp, url>>
vars  == <<now, store, upl, queue, op, rr, faults>>

-----------------------------------------------------------------------------
(* Types *)

Key == Hash \X (1..MaxGen)
Stored == {"absent", "good", "bad"}

UploadRecord ==
    [gen: 0..MaxGen, expiresAt: Nat, cleanupAt: Nat,
     rejected: BOOLEAN, validated: BOOLEAN]

NoUpload ==
    [gen |-> 0, expiresAt |-> 0, cleanupAt |-> 0,
     rejected |-> FALSE, validated |-> FALSE]

LeasePcs == {"eval", "commit", "dropTemp", "ackTemp", "dropRecord", "dropOld", "ackOld"}
GcPcs == {"records", "ackRecord", "dropRecord", "superseded", "ackSuperseded",
          "scan", "pick", "delete", "commit"}

LeaseRequest == [kind: {"lease"}, hash: Hash, at: Nat, dur: LeaseDurations]
GcRequest    == [kind: {"gc"}]
RootRequest  == [kind: {"root"}, changes: RootChanges]
Request      == LeaseRequest \cup GcRequest \cup RootRequest

Idle    == [kind |-> "idle"]
LeaseOp == [kind: {"lease"}, pc: LeasePcs, hash: Hash, at: Nat, dur: LeaseDurations,
            gen: 0..MaxGen]
GcOp    == [kind: {"gc"}, pc: GcPcs, at: Nat, left: Int, key: Hash \X (0..MaxGen),
            cands: SUBSET Hash]
RootOp  == [kind: {"root"}]
Op      == {Idle} \cup LeaseOp \cup GcOp \cup RootOp

NoAttempt == [phase |-> "none"]
Attempt ==
    {NoAttempt} \cup [phase: {"read"}, changes: RootChanges, tries: Nat]
    \cup [phase: {"commit"}, changes: RootChanges, tries: Nat, planned: [Hash -> Nat]]

TypeOK ==
    /\ now \in Nat
    /\ nodes \subseteq Hash
    /\ leaseExp \in [Hash -> Nat]
    /\ childRefs \in [Hash -> Int]
    /\ rootRefs \in [Hash -> Nat]
    /\ edges \subseteq Hash \X Nat \X Hash
    /\ projection \in [Hash -> Nat]
    /\ canonical \in [Hash -> Stored]
    /\ uploads \in [Hash -> UploadRecord]
    /\ lastGen \in [Hash -> 0..MaxGen]
    /\ reservation \in [Hash -> Nat]
    /\ cleanup \in [Key -> Nat]
    /\ temp \in [Key -> Stored]
    /\ url \in [Key -> Nat]
    /\ queue \in Seq(Request)
    /\ op \in Op
    /\ rr \in Attempt
    /\ faults \in Nat

Init ==
    /\ now = 0
    /\ nodes = {} /\ edges = {}
    /\ leaseExp = [h \in Hash |-> 0]
    /\ childRefs = [h \in Hash |-> 0]
    /\ rootRefs = [h \in Hash |-> 0]
    /\ projection = [h \in Hash |-> 0]
    /\ canonical = [h \in Hash |-> "absent"]
    /\ uploads = [h \in Hash |-> NoUpload]
    /\ lastGen = [h \in Hash |-> 0]
    /\ reservation = [h \in Hash |-> 0]
    /\ cleanup = [k \in Key |-> 0]
    /\ temp = [k \in Key |-> "absent"]
    /\ url = [k \in Key |-> 0]
    /\ queue = <<>>
    /\ op = Idle
    /\ rr = NoAttempt
    /\ faults = 0

-----------------------------------------------------------------------------
(* Requests arrive; the gate serves them in order of arrival. *)

\* #activeLeaseEvaluations: a lease of h is queued or running.
ActiveLease(h) ==
    \/ \E i \in DOMAIN queue : queue[i].kind = "lease" /\ queue[i].hash = h
    \/ op.kind = "lease" /\ op.hash = h

Enqueue(r) ==
    /\ Len(queue) < MaxQueue
    /\ queue' = Append(queue, r)
    /\ UNCHANGED <<now, store, upl, op, rr, faults>>

\* The clock is read when the request arrives, before the wait for the gate.
\* A second request for the same hash joins the active evaluation.
RequestLease(h, d) ==
    /\ ~ActiveLease(h)
    /\ Enqueue([kind |-> "lease", hash |-> h, at |-> now, dur |-> d])

RequestGc == Enqueue([kind |-> "gc"])

RequestRootRefs(c) == Enqueue([kind |-> "root", changes |-> c])

NoKey == <<CHOOSE h \in Hash : TRUE, 0>>

EnterLease ==
    /\ op = Idle /\ queue # <<>> /\ Head(queue).kind = "lease"
    /\ op' = [kind |-> "lease", pc |-> "eval", hash |-> Head(queue).hash,
              at |-> Head(queue).at, dur |-> Head(queue).dur, gen |-> 0]
    /\ queue' = Tail(queue)
    /\ UNCHANGED <<now, store, upl, rr, faults>>

EnterGc ==
    /\ op = Idle /\ queue # <<>> /\ Head(queue).kind = "gc"
    /\ op' = [kind |-> "gc", pc |-> "records", at |-> now, left |-> GcLimit,
              key |-> NoKey, cands |-> {}]
    /\ queue' = Tail(queue)
    /\ UNCHANGED <<now, store, upl, rr, faults>>

\* The gate is held for the whole call to the domain object.  Bound: one
\* attempt of this Space at a time in the domain object.
EnterRootRefs ==
    /\ op = Idle /\ rr = NoAttempt
    /\ queue # <<>> /\ Head(queue).kind = "root"
    /\ op' = [kind |-> "root"]
    /\ rr' = [phase |-> "read", changes |-> Head(queue).changes, tries |-> 1]
    /\ queue' = Tail(queue)
    /\ UNCHANGED <<now, store, upl, faults>>

-----------------------------------------------------------------------------
(* leaseDrivenNodeUpload *)

Max2(a, b) == IF a >= b THEN a ELSE b

\* Mutant of NextLeaseExp: the new deadline replaces the old one.
NextLeaseExpReplaces(existing, d, t) == t + d

\* nextNodeLease (expiry): an existing lease is extended, never shortened.
NextLeaseExp(existing, d, t) == Max2(existing, t + d)

\* Mutant of IsNodeReady: the row alone is taken for readiness.
IsNodeReadyRowOnly(h) == h \in nodes

\* isNodeReady: a row, and content in R2.
IsNodeReady(h) == h \in nodes /\ canonical[h] # "absent"

ActiveUploads == {h \in Hash : uploads[h].gen # 0}

\* Mutant of NewUpload: a replacement keeps the key of the upload it replaces.
NewUploadSameKey(h, t, rej) ==
    [gen |-> Max2(uploads[h].gen, 1), expiresAt |-> t + UploadSession,
     cleanupAt |-> t + UploadSession + UploadCleanup,
     rejected |-> rej, validated |-> FALSE]

\* createLeaseDrivenUpload
NewUpload(h, t, rej) ==
    [gen |-> lastGen[h] + 1, expiresAt |-> t + UploadSession,
     cleanupAt |-> t + UploadSession + UploadCleanup,
     rejected |-> rej, validated |-> FALSE]

TempKey(h) == <<h, uploads[h].gen>>

TempOf(h) == IF uploads[h].gen = 0 THEN "absent" ELSE temp[TempKey(h)]

Evaluating(h) == op.kind = "lease" /\ op.pc = "eval" /\ op.hash = h

\* An evaluation of a hash without a row that has an upload record.
EvaluatingUpload(h) ==
    /\ Evaluating(h)
    /\ h \notin nodes
    /\ uploads[h].gen # 0

\* Row present and content present: renew and answer ready.
LeaseRenew(h) ==
    /\ Evaluating(h)
    /\ IsNodeReady(h)
    /\ leaseExp' = [leaseExp EXCEPT ![h] = NextLeaseExp(leaseExp[h], op.dur, op.at)]
    /\ op' = Idle
    /\ UNCHANGED <<now, nodes, childRefs, rootRefs, edges, projection, canonical,
                   upl, queue, rr, faults>>

\* The evaluations that answer with an error and write nothing: a row without
\* content, the active-upload limit, validated content that is gone, and a
\* temporary object replaced after validation, whose bytes R2 refuses to store
\* under the hash (and may refuse even where the hash has its object already).
\* (A canonical object with other bytes than its hash says
\* would be one more; CanonicalIntegrity shows there is none.)
LeaseRefusal(h) ==
    \/ h \in nodes /\ canonical[h] = "absent"
    \/ /\ h \notin nodes /\ canonical[h] = "absent"
       /\ uploads[h].gen = 0
       /\ Cardinality(ActiveUploads) >= MaxActiveUploads
    \/ /\ h \notin nodes /\ canonical[h] = "absent"
       /\ uploads[h].validated /\ TempOf(h) = "absent"
    \/ /\ h \notin nodes /\ uploads[h].validated
       /\ TempOf(h) = "bad" /\ \A c \in Children(h) : IsNodeReady(c)

LeaseRefuse(h) ==
    /\ Evaluating(h)
    /\ LeaseRefusal(h)
    /\ op' = Idle
    /\ UNCHANGED <<now, store, upl, queue, rr, faults>>

\* Insert the first record of a new upload.  The limit is only looked at when
\* there is no canonical object; an orphan is recovered without it.
LeaseOpenUpload(h) ==
    /\ Evaluating(h)
    /\ h \notin nodes /\ uploads[h].gen = 0
    /\ canonical[h] = "absent" => Cardinality(ActiveUploads) < MaxActiveUploads
    /\ lastGen[h] < MaxGen
    /\ uploads' = [uploads EXCEPT ![h] = NewUpload(h, op.at, FALSE)]
    /\ lastGen' = [lastGen EXCEPT ![h] = @ + 1]
    /\ UNCHANGED <<now, store, reservation, cleanup, temp, url, queue, op, rr, faults>>

\* Nothing uploaded yet and the session still open: sign the same key again.
\* The signature carries the time at which it is made, not the time at which
\* the request arrived, so a URL may outlive the session of its record.
LeaseAwaitUpload(h) ==
    /\ EvaluatingUpload(h)
    /\ canonical[h] = "absent" /\ TempOf(h) = "absent" /\ ~uploads[h].validated
    /\ uploads[h].expiresAt > op.at
    /\ url' = [url EXCEPT ![TempKey(h)] = Max2(@, now + UploadSession)]
    /\ op' = Idle
    /\ UNCHANGED <<now, store, uploads, lastGen, reservation, cleanup, temp,
                   queue, rr, faults>>

\* replaceLeaseDrivenUpload with an expected generation: queue the old key for
\* cleanup and move the record to a new generation, in one batch.
ReplaceUpload(h, rej) ==
    /\ lastGen[h] < MaxGen
    /\ cleanup' = [cleanup EXCEPT ![TempKey(h)] = uploads[h].cleanupAt]
    /\ uploads' = [uploads EXCEPT ![h] = NewUpload(h, op.at, rej)]
    /\ lastGen' = [lastGen EXCEPT ![h] = @ + 1]
    /\ op' = [op EXCEPT !.pc = "dropOld", !.gen = uploads[h].gen]
    /\ UNCHANGED <<now, store, reservation, temp, url, queue, rr, faults>>

\* The session ended with nothing uploaded.
LeaseReplaceExpired(h) ==
    /\ EvaluatingUpload(h)
    /\ canonical[h] = "absent" /\ TempOf(h) = "absent" /\ ~uploads[h].validated
    /\ uploads[h].expiresAt <= op.at
    /\ ReplaceUpload(h, uploads[h].rejected)

\* The uploaded bytes are too large, do not match the hash or do not parse.
LeaseReplaceRejected(h) ==
    /\ EvaluatingUpload(h)
    /\ canonical[h] = "absent" /\ TempOf(h) = "bad" /\ ~uploads[h].validated
    /\ ReplaceUpload(h, TRUE)

\* Bound: an evaluation that needs a generation beyond MaxGen is given up.
LeaseBound(h) ==
    /\ Evaluating(h)
    /\ h \notin nodes /\ lastGen[h] = MaxGen
    /\ \/ uploads[h].gen = 0
       \/ /\ canonical[h] = "absent" /\ ~uploads[h].validated
          /\ \/ TempOf(h) = "absent" /\ uploads[h].expiresAt <= op.at
             \/ TempOf(h) = "bad"
    /\ op' = Idle
    /\ UNCHANGED <<now, store, upl, queue, rr, faults>>

\* Stage the validation evidence and the byte reservation, in one batch.
LeaseStage(h) ==
    /\ EvaluatingUpload(h)
    /\ ~uploads[h].validated
    /\ canonical[h] = "good" \/ (canonical[h] = "absent" /\ TempOf(h) = "good")
    /\ uploads' = [uploads EXCEPT ![h].validated = TRUE]
    /\ reservation' = [reservation EXCEPT ![h] = uploads[h].cleanupAt]
    /\ UNCHANGED <<now, store, lastGen, cleanup, temp, url, queue, op, rr, faults>>

\* A validated upload with content at hand: publishValidatedLeaseDrivenUpload.
Publishing(h) ==
    /\ EvaluatingUpload(h)
    /\ uploads[h].validated
    /\ canonical[h] # "absent" \/ TempOf(h) # "absent"

LeaseAwaitChildren(h) ==
    /\ Publishing(h)
    /\ \E c \in Children(h) : ~IsNodeReady(c)
    /\ op' = Idle
    /\ UNCHANGED <<now, store, upl, queue, rr, faults>>

\* Mutant of ChecksumMatches: the put names no SHA-256.
ChecksumIgnored(bytes) == TRUE

\* The SHA-256 that the put of a canonical object names: R2 compares it.
ChecksumMatches(bytes) == bytes = "good"

\* putVerifiedCanonicalBytes.  R2 refuses bytes whose SHA-256 is not the hash
\* (LeaseRefusal); an existing object is kept.
LeasePutCanonical(h) ==
    /\ Publishing(h)
    /\ \A c \in Children(h) : IsNodeReady(c)
    /\ canonical[h] = "absent" => ChecksumMatches(TempOf(h))
    /\ canonical' = [canonical EXCEPT ![h] = IF @ = "absent" THEN TempOf(h) ELSE @]
    /\ op' = [op EXCEPT !.pc = "commit", !.gen = uploads[h].gen]
    /\ UNCHANGED <<now, nodes, leaseExp, childRefs, rootRefs, edges, projection,
                   upl, queue, rr, faults>>

\* Mutant of Occurrences: a child named twice is counted once.
OccurrencesDistinct(E, c) == IF \E e \in E : e[3] = c THEN 1 ELSE 0

\* Occurrences of c among the edges E.
Occurrences(E, c) == Cardinality({e \in E : e[3] = c})

\* Mutant of Unreserve: the reservation row is left behind.
UnreserveNothing(h) == reservation

Unreserve(h) == [reservation EXCEPT ![h] = 0]

\* commitNewNode: row, edges, one increment per reference occurrence and the
\* end of the reservation, in one batch.
LeaseCommit(h) ==
    /\ op.kind = "lease" /\ op.pc = "commit" /\ op.hash = h
    /\ h \notin nodes
    /\ nodes' = nodes \cup {h}
    /\ leaseExp' = [leaseExp EXCEPT ![h] = NextLeaseExp(0, op.dur, op.at)]
    /\ edges' = edges \cup RefEdges(h)
    /\ childRefs' = [c \in Hash |->
            IF c \in nodes THEN childRefs[c] + Occurrences(RefEdges(h), c) ELSE 0]
    /\ reservation' = Unreserve(h)
    /\ op' = [op EXCEPT !.pc = "dropTemp"]
    /\ UNCHANGED <<now, rootRefs, projection, canonical, uploads, lastGen, cleanup,
                   temp, url, queue, rr, faults>>

\* deleteTemporaryUploadObject, first half: the R2 delete.
LeaseDropTemp ==
    /\ op.kind = "lease" /\ op.pc \in {"dropTemp", "dropOld"}
    /\ temp' = [temp EXCEPT ![<<op.hash, op.gen>>] = "absent"]
    /\ op' = [op EXCEPT !.pc = IF @ = "dropTemp" THEN "ackTemp" ELSE "ackOld"]
    /\ UNCHANGED <<now, store, uploads, lastGen, reservation, cleanup, url,
                   queue, rr, faults>>

\* The answer of a replaced upload carries a URL of the new generation.
SignReplacement(h) ==
    url' = [url EXCEPT ![TempKey(h)] = Max2(@, now + UploadSession)]

\* Second half: the D1 delete of the cleanup row.
LeaseAckTemp ==
    /\ op.kind = "lease" /\ op.pc = "ackTemp"
    /\ cleanup' = [cleanup EXCEPT ![<<op.hash, op.gen>>] = 0]
    /\ op' = [op EXCEPT !.pc = "dropRecord"]
    /\ UNCHANGED <<now, store, uploads, lastGen, reservation, temp, url,
                   queue, rr, faults>>

LeaseAckOld ==
    /\ op.kind = "lease" /\ op.pc = "ackOld"
    /\ cleanup' = [cleanup EXCEPT ![<<op.hash, op.gen>>] = 0]
    /\ SignReplacement(op.hash)
    /\ op' = Idle
    /\ UNCHANGED <<now, store, uploads, lastGen, reservation, temp, queue, rr, faults>>

\* deleteLeaseDrivenUpload, only of the generation that was published.
LeaseDropRecord ==
    /\ op.kind = "lease" /\ op.pc = "dropRecord"
    /\ uploads' = IF uploads[op.hash].gen = op.gen
                  THEN [uploads EXCEPT ![op.hash] = NoUpload] ELSE uploads
    /\ op' = Idle
    /\ UNCHANGED <<now, store, lastGen, reservation, cleanup, temp, url,
                   queue, rr, faults>>

\* A failed clean-up call is swallowed: the answer is ready, or the URL of the
\* replacement, all the same.
LeaseCleanupFails ==
    /\ op.kind = "lease" /\ op.pc \notin {"eval", "commit"}
    /\ faults < MaxFaults
    /\ IF op.pc \in {"dropOld", "ackOld"} THEN SignReplacement(op.hash) ELSE url' = url
    /\ op' = Idle
    /\ faults' = faults + 1
    /\ UNCHANGED <<now, store, uploads, lastGen, reservation, cleanup, temp, queue, rr>>

-----------------------------------------------------------------------------
(* Garbage collection *)

InGc(pc) == op.kind = "gc" /\ op.pc = pc

\* Mutants of ExpiredRecords: the end of the session taken for the clean-up
\* deadline; validated uploads left to their publication.
SessionEndedRecords == {h \in ActiveUploads : uploads[h].expiresAt <= op.at}
ExpiredUnvalidated ==
    {h \in ActiveUploads : ~uploads[h].validated /\ uploads[h].cleanupAt <= op.at}

\* The scans of cleanupExpiredLeaseDrivenUploads.
ExpiredRecords == {h \in ActiveUploads : uploads[h].cleanupAt <= op.at}
ExpiredCleanup == {k \in Key : cleanup[k] # 0 /\ cleanup[k] <= op.at}

\* cleanupExpiredLeaseDrivenUploads, one expired record after the other, the
\* oldest deadline first: delete the temporary object ...
GcRecord(h) ==
    /\ InGc("records") /\ op.left > 0
    /\ h \in ExpiredRecords
    /\ \A g \in ExpiredRecords : uploads[h].cleanupAt <= uploads[g].cleanupAt
    /\ temp' = [temp EXCEPT ![TempKey(h)] = "absent"]
    /\ op' = [op EXCEPT !.pc = "ackRecord", !.key = TempKey(h)]
    /\ UNCHANGED <<now, store, uploads, lastGen, reservation, cleanup, url,
                   queue, rr, faults>>

\* ... acknowledge a cleanup row of that key ...
GcAckRecord ==
    /\ InGc("ackRecord")
    /\ cleanup' = [cleanup EXCEPT ![op.key] = 0]
    /\ op' = [op EXCEPT !.pc = "dropRecord"]
    /\ UNCHANGED <<now, store, uploads, lastGen, reservation, temp, url,
                   queue, rr, faults>>

\* ... and drop reservation and record if the generation is still the same.
GcDropRecord ==
    /\ InGc("dropRecord")
    /\ LET h == op.key[1] IN
         IF uploads[h].gen = op.key[2]
         THEN /\ uploads' = [uploads EXCEPT ![h] = NoUpload]
              /\ reservation' = Unreserve(h)
              /\ op' = [op EXCEPT !.pc = "records", !.left = @ - 1, !.key = NoKey]
         ELSE /\ op' = [op EXCEPT !.pc = "records", !.key = NoKey]
              /\ UNCHANGED <<uploads, reservation>>
    /\ UNCHANGED <<now, store, lastGen, cleanup, temp, url, queue, rr, faults>>

\* Superseded keys use what the records left of the limit.
GcRecordsDone ==
    /\ InGc("records")
    /\ op.left = 0 \/ ExpiredRecords = {}
    /\ op' = [op EXCEPT !.pc = IF op.left = 0 THEN "scan" ELSE "superseded"]
    /\ UNCHANGED <<now, store, upl, queue, rr, faults>>

GcSuperseded(k) ==
    /\ InGc("superseded") /\ op.left > 0
    /\ k \in ExpiredCleanup
    /\ \A j \in ExpiredCleanup : cleanup[k] <= cleanup[j]
    /\ temp' = [temp EXCEPT ![k] = "absent"]
    /\ op' = [op EXCEPT !.pc = "ackSuperseded", !.key = k]
    /\ UNCHANGED <<now, store, uploads, lastGen, reservation, cleanup, url,
                   queue, rr, faults>>

GcAckSuperseded ==
    /\ InGc("ackSuperseded")
    /\ cleanup' = [cleanup EXCEPT ![op.key] = 0]
    /\ op' = [op EXCEPT !.pc = "superseded", !.left = @ - 1, !.key = NoKey]
    /\ UNCHANGED <<now, store, uploads, lastGen, reservation, temp, url,
                   queue, rr, faults>>

GcSupersededDone ==
    /\ InGc("superseded")
    /\ op.left = 0 \/ ExpiredCleanup = {}
    /\ op' = [op EXCEPT !.pc = "scan"]
    /\ UNCHANGED <<now, store, upl, queue, rr, faults>>

\* Mutants of Eligible: the root count is forgotten; the child count is
\* forgotten; a row whose content is gone is passed over.
EligibleRooted(h, t) ==
    h \in nodes /\ childRefs[h] = 0 /\ leaseExp[h] <= t /\ reservation[h] <= t
EligibleReferenced(h, t) ==
    h \in nodes /\ rootRefs[h] = 0 /\ leaseExp[h] <= t /\ reservation[h] <= t
EligibleWithContent(h, t) ==
    /\ h \in nodes /\ canonical[h] # "absent"
    /\ childRefs[h] = 0 /\ rootRefs[h] = 0
    /\ leaseExp[h] <= t /\ reservation[h] <= t

\* The rows a collection that reads the clock at t may delete.
Eligible(h, t) ==
    /\ h \in nodes
    /\ childRefs[h] = 0 /\ rootRefs[h] = 0
    /\ leaseExp[h] <= t
    /\ reservation[h] <= t

\* findExpiredUnreferenced: LIMIT without ORDER BY takes any of them.
GcScan ==
    /\ InGc("scan")
    /\ \E C \in SUBSET {h \in Hash : Eligible(h, now)} :
         /\ \/ Cardinality(C) = GcLimit
            \/ Cardinality(C) < GcLimit /\ C = {h \in Hash : Eligible(h, now)}
         /\ op' = [op EXCEPT !.pc = "pick", !.at = now, !.left = 0, !.cands = C]
    /\ UNCHANGED <<now, store, upl, queue, rr, faults>>

\* readStillExpiredUnreferenced: the candidate is looked at again.
GcPick(h) ==
    /\ InGc("pick") /\ h \in op.cands
    /\ op' = IF Eligible(h, op.at)
             THEN [op EXCEPT !.pc = "delete", !.key = <<h, 0>>, !.cands = @ \ {h}]
             ELSE [op EXCEPT !.cands = @ \ {h}]
    /\ UNCHANGED <<now, store, upl, queue, rr, faults>>

GcDeleteContent ==
    /\ InGc("delete")
    /\ canonical' = [canonical EXCEPT ![op.key[1]] = "absent"]
    /\ op' = [op EXCEPT !.pc = "commit"]
    /\ UNCHANGED <<now, nodes, leaseExp, childRefs, rootRefs, edges, projection,
                   upl, queue, rr, faults>>

EdgesOf(h) == {e \in edges : e[1] = h}

\* commitDeletion: edges, row and the children's counts, in one batch that
\* does not look at the row's own counts again.
GcCommit ==
    /\ InGc("commit")
    /\ LET h == op.key[1] IN
         /\ nodes' = nodes \ {h}
         /\ edges' = edges \ EdgesOf(h)
         /\ childRefs' = [c \in Hash |->
                IF c \in nodes \ {h}
                THEN childRefs[c] - Occurrences(EdgesOf(h), c) ELSE 0]
         /\ leaseExp' = [leaseExp EXCEPT ![h] = 0]
         /\ rootRefs' = [rootRefs EXCEPT ![h] = 0]
    /\ op' = [op EXCEPT !.pc = "pick", !.key = NoKey]
    /\ UNCHANGED <<now, projection, canonical, upl, queue, rr, faults>>

GcDone ==
    /\ InGc("pick") /\ op.cands = {}
    /\ op' = Idle
    /\ UNCHANGED <<now, store, upl, queue, rr, faults>>

-----------------------------------------------------------------------------
(* A Root Ref attempt in the App's domain object (see RootRefs for the full  *)
(* protocol between the Spaces of an App).                                   *)

\* The answer, if the Space object still waits for it, releases the gate.
AttemptEnds ==
    /\ rr' = NoAttempt
    /\ op' = IF op.kind = "root" THEN Idle ELSE op

Changed(c) == {h \in Hash : c[h] # 0}

\* Mutants of RootRefsValid: no look at the content, no look at the row.
RootRefsValidNoHead(c) ==
    \A h \in Changed(c) :
        /\ h \in nodes
        /\ rootRefs[h] + c[h] \in 0..MaxRootCount
        /\ projection[h] = rootRefs[h]
RootRefsValidNoRow(c) ==
    \A h \in Changed(c) :
        /\ rootRefs[h] + c[h] \in 0..MaxRootCount
        /\ c[h] > 0 => canonical[h] # "absent"
        /\ projection[h] = rootRefs[h]

\* The checks of applyRootRefsUpdate.
RootRefsValid(c) ==
    \A h \in Changed(c) :
        /\ h \in nodes
        /\ rootRefs[h] + c[h] \in 0..MaxRootCount
        /\ c[h] > 0 => canonical[h] # "absent"
        /\ projection[h] = rootRefs[h]

RrRead ==
    /\ rr.phase = "read"
    /\ IF RootRefsValid(rr.changes)
       THEN /\ rr' = [phase |-> "commit", changes |-> rr.changes, tries |-> rr.tries,
                       planned |-> [h \in Hash |-> projection[h] + rr.changes[h]]]
            /\ op' = op
       ELSE AttemptEnds
    /\ UNCHANGED <<now, store, upl, queue, faults>>

\* One batch: the count of a row that is gone is not updated, the projection
\* is set to the planned value all the same.  The table's CHECK aborts a batch
\* that would make a count negative (RrConflict).
RrCommit ==
    /\ rr.phase = "commit"
    /\ \A h \in nodes : rootRefs[h] + rr.changes[h] >= 0
    /\ rootRefs' = [h \in Hash |->
            IF h \in nodes THEN rootRefs[h] + rr.changes[h] ELSE 0]
    /\ projection' = [h \in Hash |->
            IF rr.changes[h] # 0 THEN rr.planned[h] ELSE projection[h]]
    /\ AttemptEnds
    /\ UNCHANGED <<now, nodes, leaseExp, childRefs, edges, canonical, upl, queue, faults>>

\* Mutant of RrConflict: a lost race is repeated without counting.
RrConflictUncounted ==
    /\ rr.phase = "commit"
    /\ rr' = [phase |-> "read", changes |-> rr.changes, tries |-> rr.tries]
    /\ UNCHANGED <<now, store, upl, queue, op, faults>>

\* The batch is aborted, mostly because another Space won the race for the App
\* revision: start over, at most MaxAttempts times.
RrConflict ==
    /\ rr.phase = "commit"
    /\ IF rr.tries < MaxAttempts
       THEN /\ rr' = [phase |-> "read", changes |-> rr.changes, tries |-> rr.tries + 1]
            /\ op' = op
       ELSE AttemptEnds
    /\ UNCHANGED <<now, store, upl, queue, faults>>

-----------------------------------------------------------------------------
(* Clients, faults, time *)

\* A client PUTs to a signed URL.  The object is written once; a URL that is
\* still valid can be used again after the object was deleted.
PutTemp(k, c) ==
    /\ now < url[k] /\ temp[k] = "absent"
    /\ temp' = [temp EXCEPT ![k] = c]
    /\ UNCHANGED <<now, store, uploads, lastGen, reservation, cleanup, url,
                   queue, op, rr, faults>>

\* A D1 or R2 call of the request fails, before or after it took effect: the
\* request throws and releases the gate.
GateFails ==
    /\ faults < MaxFaults
    /\ op.kind = "gc" \/ (op.kind = "lease" /\ op.pc \in {"eval", "commit"})
    /\ op' = Idle
    /\ faults' = faults + 1
    /\ UNCHANGED <<now, store, upl, queue, rr>>

\* The attempt dies or exhausts its retries in the domain object.
RrFails ==
    /\ faults < MaxFaults /\ rr.phase # "none"
    /\ AttemptEnds
    /\ faults' = faults + 1
    /\ UNCHANGED <<now, store, upl, queue>>

\* The Space object is evicted or restarted: the gate and its queue are memory.
Crash ==
    /\ faults < MaxFaults
    /\ op # Idle \/ queue # <<>>
    /\ op.kind = "root" => DetachedRootRefs
    /\ op' = Idle /\ queue' = <<>>
    /\ faults' = faults + 1
    /\ UNCHANGED <<now, store, upl, rr>>

\* The call to the domain object breaks while the attempt goes on there.
DispatchLost ==
    /\ DetachedRootRefs /\ faults < MaxFaults
    /\ op.kind = "root"
    /\ op' = Idle
    /\ faults' = faults + 1
    /\ UNCHANGED <<now, store, upl, queue, rr>>

Tick ==
    /\ now < MaxTime
    /\ now' = now + 1
    /\ UNCHANGED <<store, upl, queue, op, rr, faults>>

-----------------------------------------------------------------------------

LeaseStep(h) ==
    \/ LeaseRenew(h) \/ LeaseRefuse(h) \/ LeaseOpenUpload(h)
    \/ LeaseAwaitUpload(h) \/ LeaseReplaceExpired(h) \/ LeaseReplaceRejected(h)
    \/ LeaseBound(h) \/ LeaseStage(h) \/ LeaseAwaitChildren(h)
    \/ LeasePutCanonical(h) \/ LeaseCommit(h)

LeaseCleanupStep == LeaseDropTemp \/ LeaseAckTemp \/ LeaseAckOld \/ LeaseDropRecord

GcStep ==
    \/ \E h \in Hash : GcRecord(h) \/ GcPick(h)
    \/ \E k \in Key : GcSuperseded(k)
    \/ GcAckRecord \/ GcDropRecord \/ GcRecordsDone
    \/ GcAckSuperseded \/ GcSupersededDone
    \/ GcScan \/ GcDeleteContent \/ GcCommit \/ GcDone

GateStep ==
    \/ EnterLease \/ EnterGc \/ EnterRootRefs
    \/ \E h \in Hash : LeaseStep(h)
    \/ LeaseCleanupStep
    \/ GcStep

RrStep == RrRead \/ RrCommit \/ RrConflict

ClientStep ==
    \/ \E h \in Hash, d \in LeaseDurations : RequestLease(h, d)
    \/ \E c \in RootChanges : RequestRootRefs(c)
    \/ \E k \in Key, c \in Contents : PutTemp(k, c)

FaultStep == LeaseCleanupFails \/ GateFails \/ RrFails \/ Crash \/ DispatchLost

Next ==
    \/ ClientStep \/ RequestGc \/ GateStep
    \/ RrStep \/ FaultStep \/ Tick

Spec == Init /\ [][Next]_vars

\* A request that holds the gate goes on, the domain object answers, time
\* passes, and an operator keeps asking for collections.
Fairness ==
    /\ WF_vars(GateStep) /\ WF_vars(RrStep) /\ WF_vars(Tick)
    /\ SF_vars(RequestGc)

FairSpec == Spec /\ Fairness

-----------------------------------------------------------------------------
(* Safety *)

\* The edge rows are exactly the references of the stored nodes, and every
\* child count is the number of edge occurrences that point at the hash: a
\* node without a row is pointed at by no edge.  Node creation (commitNewNode)
\* and collection (commitDeletion) keep the three tables in step.
ChildRefsExact ==
    /\ edges = UNION {RefEdges(h) : h \in nodes}
    /\ \A c \in Hash : childRefs[c] = Cardinality({e \in edges : e[3] = c})
    /\ \A e \in edges : e[3] \in nodes

\* The hashes reachable from S along stored edges: the least set that
\* contains S and the children of its members.
Reach(S) ==
    {h \in Hash : \A D \in SUBSET Hash :
        (S \subseteq D /\ \A e \in edges : e[1] \in D => e[3] \in D) => h \in D}

Leased == {h \in nodes : leaseExp[h] > now}
Rooted == {h \in Hash : projection[h] > 0}
Protected == {h \in nodes : rootRefs[h] > 0 \/ childRefs[h] > 0 \/ leaseExp[h] > now}

\* What committed roots or unexpired leases reach is stored, has its content
\* and is out of the collector's reach, whatever else is in progress.
LiveSetReady ==
    \A h \in Reach(Leased \cup Rooted) : h \in Protected /\ canonical[h] = "good"

\* The part of LiveSetReady that leases promise on their own.
LeasedSetReady ==
    \A h \in Reach(Leased) : h \in Protected /\ canonical[h] = "good"

\* The App's projection and the node's own count agree on every hash of the
\* Space, rows that are gone included.
RootLedgerMatches == \A h \in Hash : projection[h] = rootRefs[h]

\* The counts that decide what may be collected are exact: those of the
\* stored parents and those of the App's committed roots.
CountsExact == ChildRefsExact /\ RootLedgerMatches

\* A row that lost its content (a collection that stopped half-way) is one a
\* collection may delete now: nothing refers to it, nothing protects it.
GhostRowCollectable ==
    \A h \in nodes : canonical[h] = "absent" => Eligible(h, now)

\* A canonical object holds the bytes its hash names, even when a temporary
\* object is replaced by other bytes after it was validated.
CanonicalIntegrity == \A h \in Hash : canonical[h] # "bad"

\* Content is what its hash names, and what an unexpired lease reaches has its
\* content, also when calls break off and the domain object goes on alone.
ContentHolds == CanonicalIntegrity /\ LeasedSetReady

\* Reserved bytes belong to a validated, unpublished upload whose record ends
\* at the same deadline: no reservation outlives its record.
ReservationBacked ==
    \A h \in Hash : reservation[h] # 0 =>
        /\ h \notin nodes
        /\ uploads[h].validated
        /\ reservation[h] = uploads[h].cleanupAt

\* The temporary key of a current upload is never queued for clean-up as
\* superseded, so the collector cannot delete a live upload before its deadline.
CurrentUploadFenced ==
    \A h \in ActiveUploads : cleanup[TempKey(h)] = 0

\* The accounting of uploads: every reservation has its record, and no upload
\* that may still be committed is on the clean-up list.
UploadsAccounted == ReservationBacked /\ CurrentUploadFenced

\* Only a row that is unreferenced and whose lease has run out loses its
\* content or disappears; content without a row is never deleted.
NeverReclaimsProtected ==
    [][\A h \in Hash :
         (h \in nodes /\ h \notin nodes') \/ (canonical[h] # "absent" /\ canonical'[h] = "absent")
         => h \in nodes /\ h \notin Protected /\ projection[h] = 0]_vars

\* A lease is never shortened, although each renewal computes with the time at
\* which its request arrived.
LeaseNeverShortened ==
    [][\A h \in nodes \cap nodes' : leaseExp'[h] >= leaseExp[h]]_vars

\* A validated upload that waits for its children keeps its bytes until the
\* node is published or the clean-up deadline has passed: the parent is never
\* uploaded a second time.
StagedUploadKept ==
    [][\A h \in Hash :
         /\ h \notin nodes /\ canonical[h] = "absent"
         /\ uploads[h].validated /\ TempOf(h) = "good"
         /\ uploads[h].cleanupAt > now
         => /\ uploads'[h] = uploads[h]
            /\ temp'[TempKey(h)] = "good"]_vars

\* What was granted is not taken back, whatever was read before the gate: the
\* time of a lease and the bytes of a staged upload.
GrantedIsKept == LeaseNeverShortened /\ StagedUploadKept

-----------------------------------------------------------------------------
(* Liveness, under FairSpec *)

\* Every lease request that entered the gate's queue is answered (or lost in a
\* crash): no holder of the gate keeps it for good.
LeaseServed == \A h \in Hash : ActiveLease(h) ~> ~ActiveLease(h)

\* An unprotected row, one that lost its content included, is collected
\* unless something protects it again.
GarbageReclaimed ==
    \A h \in Hash : (h \in nodes \ Protected) ~> (h \notin nodes \/ h \in Protected)

\* A validated record whose content is gone and whose node has been collected:
\* every lease of the hash is refused.
Stuck(h) ==
    /\ h \notin nodes /\ canonical[h] = "absent"
    /\ uploads[h].validated /\ TempOf(h) # "good"

\* The clean-up deadline ends that state (if the deadline is within the
\* clock's bound).
StuckUploadRecovers ==
    \A h \in Hash :
        (Stuck(h) /\ uploads[h].cleanupAt <= MaxTime) ~> ~Stuck(h)

=============================================================================
