------------------------------ MODULE FileRoots ------------------------------
(***************************************************************************)
(* The files of one Principal in the Spaces application: the catalog row   *)
(* of its file root, the queue of releases that a commit leaves behind,    *)
(* the root references held in the store, and the smoke runs that create   *)
(* and remove a root.  Every await of the code is a step of a worker, so   *)
(* requests, the scheduled trigger and failures interleave.  Principals    *)
(* share no row, hence one is enough.                                      *)
(***************************************************************************)
EXTENDS FileTree, Bags, FiniteSets

CONSTANTS
    Worker,        \* concurrent invocations of the Spaces worker
    Run,           \* smoke runs
    FileRequest,   \* the mutations clients send
    None,
    MaxRevision,   \* bound on the revision of a root
    MaxFaults      \* bound on failed calls and stopped invocations

Own == "own"   \* the root a Principal is provisioned with

ASSUME FileRootsAssumption ==
    /\ {None, Own} \cap Run = {} /\ None # Own /\ IsFiniteSet(Worker)
    /\ MaxRevision \in Nat /\ MaxFaults \in Nat
    /\ \A r \in FileRequest :
          /\ r.path \in Path
          /\ r.do = "uploadFile" => r.content \in Content
          /\ r.do = "renameFile" => r.to \in Path

VARIABLES
    catalog,   \* spaces_file_system_roots: the row, or NoRoot
    pending,   \* spaces_pending_root_releases
    counts,    \* the store: root references per manifest
    applied,   \* the store: updates applied under a stable request identity
    smoke,     \* spaces_smoke_runs and spaces_smoke_resources
    job,       \* the invocation each worker is in
    faults,
    past,      \* history: manifests that were cataloged
    returned,  \* history: a manifest came back while it could still be released
    leaked     \* history: references taken by commits that never cataloged them

db    == <<catalog, pending, counts, applied, smoke>>
ghost == <<past, returned, leaked>>

NoRoot == [id |-> None, tree |-> EmptyTree, revision |-> 0]

Idle == [pc |-> "idle", op |-> "none", run |-> None, root |-> NoRoot,
         next |-> EmptyTree, info |-> NoRoot, todo |-> {}, row |-> NoRoot]

Held(t) == BagIn(t, counts)

Goto(w, pc) == job' = [job EXCEPT ![w].pc = pc]
Done(w) == job' = [job EXCEPT ![w] = Idle]
At(w, pc) == job[w].pc = pc

\* A call failed: a smoke job marks its run as failed, any other answers 503.
ForRun(w) == job[w].run # None
Give_up(w) == IF ForRun(w) THEN Goto(w, "fail") ELSE Done(w)

Fault == faults < MaxFaults /\ faults' = faults + 1

-----------------------------------------------------------------------------
(* Mutations of the tree (SpacesFileService)                               *)

Applicable(t, r) ==
    \/ r.do = "createFolder" /\ CanMkdir(t, r.path)
    \/ r.do = "uploadFile" /\ CanWrite(t, r.path)
    \/ r.do = "renameFile" /\ IsFile(t, r.path) /\ CanMove(t, r.path, r.to)
    \/ r.do = "deleteFile" /\ IsFile(t, r.path)

Changed(t, r) ==
    CASE r.do = "createFolder" -> Put(t, r.path, Directory)
      [] r.do = "uploadFile"   -> Put(t, r.path, r.content)
      [] r.do = "renameFile"   -> Move(t, r.path, r.to)
      [] r.do = "deleteFile"   -> RemovePath(t, r.path)

\* The working copy of a root after a change: a clean one commits nothing.
Opened(j, root, t) ==
    [j EXCEPT !.root = root, !.next = t, !.info = root,
              !.pc = IF t = root.tree THEN "assert" ELSE "retain"]

\* A request reads its session and the catalog row in one statement; the
\* revision the client names is the one it read.  The smoke client's paths are
\* recorded before the change.
Track(run, r) ==
    IF run \in Run /\ r.do \in {"createFolder", "uploadFile"}
    THEN /\ smoke[run].state = "active" /\ ~smoke[run].expired
         /\ smoke' = [smoke EXCEPT ![run].paths = @ \cup {r.path}]
    ELSE UNCHANGED smoke

StartEdit(w, r) ==
    /\ At(w, "idle")
    /\ catalog # NoRoot
    /\ catalog.revision < MaxRevision
    /\ Applicable(catalog.tree, r)
    /\ Track(catalog.id, r)
    /\ job' = [job EXCEPT ![w] =
                  Opened([Idle EXCEPT !.op = "edit"], catalog, Changed(catalog.tree, r))]
    /\ UNCHANGED <<catalog, pending, counts, applied, faults, ghost>>

-----------------------------------------------------------------------------
(* Commit (SpaceFileRoot.commit over D1FileRootCatalog.update)             *)

\* The stable request identity of the root's own release (revisions start at 1).
RootReleaseId(run) == <<run, 0>>

\* Something may still release the manifest: a queued release, an invocation
\* under way, or the release of the root itself, sent under the same identity.
Owed(w, t) ==
    \/ \E r \in pending : r.tree = t
    \/ \E v \in Worker \ {w} : ~At(v, "idle")
    \/ \E a \in applied : a.id = RootReleaseId(catalog.id) /\ a.tree = t

\* retain: the reference is taken under a fresh request identity.  When the
\* answer is lost nobody knows of it.
Retain(w) ==
    /\ At(w, "retain")
    /\ counts' = counts (+) SetToBag({job[w].next})
    /\ \/ Goto(w, "check") /\ UNCHANGED <<faults, leaked>>
       \/ /\ Fault
          /\ leaked' = leaked (+) SetToBag({job[w].next})
          /\ Give_up(w)
    /\ returned' = (returned \/ (job[w].next \in past /\ Owed(w, job[w].next)))
    /\ UNCHANGED <<catalog, pending, applied, smoke, past>>

SameRow(root) == catalog.id = root.id /\ catalog.revision = root.revision

\* update, first statement: the row must still have the revision read.
CheckRevision(w) ==
    /\ At(w, "check")
    /\ Goto(w, IF SameRow(job[w].root) THEN "batch" ELSE "undo")
    /\ UNCHANGED <<db, faults, ghost>>

\* Mutant: the release of the previous manifest is not queued.
QueueNothing(root) == pending

\* One queued release per root and manifest (ON CONFLICT DO NOTHING).
Queue(root) ==
    IF \E r \in pending : r.id = root.id /\ r.tree = root.tree
    THEN pending ELSE pending \cup {root}

\* Mutant: the UPDATE does not compare the revision.
MayUpdateAny(root) == catalog.id = root.id

MayUpdate(root) == SameRow(root)

\* update, second statement: a batch that queues the release of the manifest
\* read and moves the row if its revision still matches.
CommitRoot(w) ==
    LET root == job[w].root
        next == job[w].next IN
    /\ At(w, "batch")
    /\ pending' = Queue(root)
    /\ IF MayUpdate(root)
       THEN /\ catalog' = [catalog EXCEPT !.tree = next, !.revision = @ + 1]
            /\ past' = past \cup {next}
            /\ Goto(w, "reread")
       ELSE UNCHANGED <<catalog, past>> /\ Goto(w, "undo")
    /\ UNCHANGED <<counts, applied, smoke, faults, returned, leaked>>

\* update answers with the row as it is now, which may be a later one.
Reread(w) ==
    /\ At(w, "reread")
    /\ IF catalog.id = job[w].root.id
       THEN job' = [job EXCEPT ![w].info = catalog, ![w].pc = "release"]
       ELSE Goto(w, "undo")
    /\ UNCHANGED <<db, faults, ghost>>

\* The store refuses to go below zero.
Dropped(t) == IF Held(t) THEN counts (-) SetToBag({t}) ELSE counts

\* Mutant: the previous hash is taken after the row was read again.
ReleaseUpdated(w) ==
    /\ At(w, "release")
    /\ counts' = Dropped(job[w].info.tree)
    /\ Goto(w, "assert")
    /\ UNCHANGED <<catalog, pending, applied, smoke, faults, ghost>>

\* The previous manifest is released at once, and a failure is ignored: the
\* queued release stands in for it.
ReleasePrevious(w) ==
    /\ At(w, "release")
    /\ \/ counts' = Dropped(job[w].root.tree) /\ UNCHANGED faults
       \/ Fault /\ UNCHANGED counts
    /\ Goto(w, "assert")
    /\ UNCHANGED <<catalog, pending, applied, smoke, ghost>>

\* The commit lost: its own reference is given back, once, and a failure is
\* ignored.
Undo(w) ==
    /\ At(w, "undo")
    /\ \/ counts' = Dropped(job[w].next) /\ UNCHANGED <<faults, leaked>>
       \/ /\ Fault
          /\ leaked' = leaked (+) SetToBag({job[w].next})
          /\ UNCHANGED counts
    /\ Give_up(w)
    /\ UNCHANGED <<catalog, pending, applied, smoke, past, returned>>

AssertRetained(w) ==
    /\ At(w, "assert")
    /\ IF Held(job[w].info.tree) THEN Goto(w, "list") ELSE Give_up(w)
    /\ UNCHANGED <<db, faults, ghost>>

-----------------------------------------------------------------------------
(* reconcilePendingReleases                                                *)

ListPending(w) ==
    /\ At(w, "list")
    /\ job' = [job EXCEPT ![w].todo = pending, ![w].pc = "reconcile"]
    /\ UNCHANGED <<db, faults, ghost>>

ReadCount(w) ==
    /\ At(w, "reconcile")
    /\ \E r \in job[w].todo :
          job' = [job EXCEPT ![w].row = r, ![w].todo = @ \ {r},
                             ![w].pc = IF Held(r.tree) THEN "drop" ELSE "complete"]
    /\ UNCHANGED <<db, faults, ghost>>

\* An update under a stable request identity: applied once, answered the same
\* when it is sent again, refused with other changes or below zero.
Replayed(id, t) == [id |-> id, tree |-> t] \in applied
Conflicting(id, t) == \E a \in applied : a.id = id /\ a.tree # t

UpdateOnce(w, id, t, then) ==
    IF Replayed(id, t) THEN Goto(w, then) /\ UNCHANGED <<counts, applied, faults>>
    ELSE IF Conflicting(id, t) \/ ~Held(t) THEN Give_up(w) /\ UNCHANGED <<counts, applied, faults>>
    ELSE /\ counts' = Dropped(t)
         /\ applied' = applied \cup {[id |-> id, tree |-> t]}
         /\ \/ Goto(w, then) /\ UNCHANGED faults
            \/ Fault /\ Give_up(w)

ReleaseId(row) == <<row.id, row.revision>>

DropQueued(w) ==
    LET row == job[w].row IN
    /\ At(w, "drop")
    /\ UpdateOnce(w, ReleaseId(row), row.tree, "complete")
    /\ UNCHANGED <<catalog, pending, smoke, ghost>>

\* Mutant: the row stays in the queue.
CompleteReleaseKept(w) ==
    /\ At(w, "complete")
    /\ Goto(w, "reconcile")
    /\ UNCHANGED <<db, faults, ghost>>

CompleteRelease(w) ==
    /\ At(w, "complete")
    /\ pending' = {r \in pending : ReleaseId(r) # ReleaseId(job[w].row)}
    /\ Goto(w, "reconcile")
    /\ UNCHANGED <<catalog, counts, applied, smoke, faults, ghost>>

\* What follows: the answer; for a cleanup the second reconciliation and then
\* the release of the root itself.
Reconciled(w) ==
    /\ At(w, "reconcile") /\ job[w].todo = {}
    /\ job' = [job EXCEPT ![w] =
          CASE job[w].op = "edit"   -> [@ EXCEPT !.pc = "answered"]
            [] job[w].op = "cron"   -> Idle
            [] job[w].op = "paths"  -> [@ EXCEPT !.op = "remove", !.pc = "list"]
            [] job[w].op = "remove" -> [@ EXCEPT !.pc = "roots"]]
    /\ UNCHANGED <<db, faults, ghost>>

AnswerEdit(w) == At(w, "answered") /\ Done(w) /\ UNCHANGED <<db, faults, ghost>>

CronReconcile(w) ==
    /\ At(w, "idle")
    /\ pending # {}
    /\ job' = [job EXCEPT ![w] = [Idle EXCEPT !.op = "cron", !.pc = "list"]]
    /\ UNCHANGED <<db, faults, ghost>>

-----------------------------------------------------------------------------
(* Smoke runs                                                              *)

Open(s) == s.state \in {"active", "pending", "failed"}
Recoverable(s) == s.state \in {"pending", "failed"} \/ (s.state = "active" /\ s.expired)
NoOpenRun == \A r \in Run : ~Open(smoke[r])

\* createSmokeSession: finish what an earlier run left, then start a run.
StartSession(w) ==
    /\ At(w, "idle")
    /\ \E r \in Run : smoke[r].state = "none"
    /\ job' = [job EXCEPT ![w] = [Idle EXCEPT !.pc = "recover"]]
    /\ UNCHANGED <<db, faults, ghost>>

Recover(w) ==
    /\ At(w, "recover")
    /\ job' = [job EXCEPT ![w] =
          IF \E r \in Run : Recoverable(smoke[r])
          THEN [Idle EXCEPT !.pc = "prepare", !.info.id = "session",
                            !.run = CHOOSE r \in Run : Recoverable(smoke[r])]
          ELSE IF \E r \in Run : Open(smoke[r]) THEN Idle
          ELSE [Idle EXCEPT !.pc = "create run"]]
    /\ UNCHANGED <<db, faults, ghost>>

\* The unique index over open runs refuses a second one.
CreateRun(w) ==
    /\ At(w, "create run")
    /\ IF NoOpenRun
       THEN \E r \in Run :
                /\ smoke[r].state = "none"
                /\ smoke' = [smoke EXCEPT ![r].state = "active"]
                /\ job' = [job EXCEPT ![w].run = r, ![w].pc = "ensure"]
       ELSE Done(w) /\ UNCHANGED smoke
    /\ UNCHANGED <<catalog, pending, counts, applied, faults, ghost>>

EnsureRoot(w) ==
    /\ At(w, "ensure")
    /\ Goto(w, IF catalog = NoRoot THEN "hold" ELSE "fail")
    /\ UNCHANGED <<db, faults, ghost>>

HoldEmpty(w) ==
    /\ At(w, "hold")
    /\ counts' = counts (+) SetToBag({EmptyTree})
    /\ \/ Goto(w, "create") /\ UNCHANGED <<faults, leaked>>
       \/ Fault /\ leaked' = leaked (+) SetToBag({EmptyTree}) /\ Goto(w, "fail")
    /\ UNCHANGED <<catalog, pending, applied, smoke, past, returned>>

CreateRoot(w) ==
    /\ At(w, "create")
    /\ IF catalog = NoRoot
       THEN /\ catalog' = [id |-> job[w].run, tree |-> EmptyTree, revision |-> 1]
            /\ past' = past \cup {EmptyTree}
            /\ smoke' = [smoke EXCEPT ![job[w].run].issued = TRUE]
            /\ Done(w)
       ELSE Goto(w, "undo") /\ UNCHANGED <<catalog, past, smoke>>
    /\ UNCHANGED <<pending, counts, applied, faults, returned, leaked>>

\* A run outlives the invocation that creates it.
Creating(r) == \E w \in Worker : job[w].run = r /\ job[w].pc \in {"ensure", "hold", "create"}

ExpireRun(r) ==
    /\ smoke[r].state # "none" /\ ~smoke[r].expired
    /\ ~Creating(r)
    /\ smoke' = [smoke EXCEPT ![r].expired = TRUE]
    /\ UNCHANGED <<catalog, pending, counts, applied, job, faults, ghost>>

-----------------------------------------------------------------------------
(* executeSmokeCleanup                                                     *)

\* The client's own request, with the session it was issued, or the scheduled
\* trigger for an expired run.
BeginCleanup(w, r) ==
    /\ At(w, "idle")
    /\ job' = [job EXCEPT ![w] = [Idle EXCEPT !.pc = "prepare", !.run = r]]
    /\ UNCHANGED <<db, faults, ghost>>

StartCleanup(w, r) == smoke[r].issued /\ ~smoke[r].expired /\ BeginCleanup(w, r)

CronCleanup(w, r) == Open(smoke[r]) /\ smoke[r].expired /\ BeginCleanup(w, r)

\* Where a finished cleanup goes: back to the session that asked, or done.
Finished(j) == IF j.info.id = "session" THEN [Idle EXCEPT !.pc = "recover"] ELSE Idle

PrepareCleanup(w) ==
    /\ At(w, "prepare")
    /\ job' = [job EXCEPT ![w] = IF smoke[job[w].run].state = "complete" THEN Finished(@)
                                 ELSE [@ EXCEPT !.root = catalog, !.pc = "mark"]]
    /\ UNCHANGED <<db, faults, ghost>>

\* Marking is not conditional on the state read; the index over open runs may
\* refuse it.
MarkPending(w) ==
    LET r == job[w].run IN
    /\ At(w, "mark")
    /\ IF \E q \in Run \ {r} : Open(smoke[q])
       THEN Done(w) /\ UNCHANGED smoke
       ELSE /\ smoke' = [smoke EXCEPT ![r].state = "pending"]
            /\ Goto(w, IF job[w].root = NoRoot THEN "finish" ELSE "open")
    /\ UNCHANGED <<catalog, pending, counts, applied, faults, ghost>>

CleanupPaths(w) ==
    /\ At(w, "open")
    /\ IF catalog = NoRoot
       THEN Goto(w, "fail")
       ELSE job' = [job EXCEPT ![w] =
               Opened([@ EXCEPT !.op = "paths"], catalog,
                      RemoveAll(catalog.tree, smoke[job[w].run].paths))]
    /\ UNCHANGED <<db, faults, ghost>>

ListRoots(w) ==
    /\ At(w, "roots")
    /\ job' = [job EXCEPT ![w].root = catalog,
                          ![w].pc = IF catalog = NoRoot THEN "finish" ELSE "release root"]
    /\ UNCHANGED <<db, faults, ghost>>

\* Mutant: the row is deleted and its reference forgotten.
ReleaseRootSkipped(w) ==
    /\ At(w, "release root")
    /\ Goto(w, "delete")
    /\ UNCHANGED <<db, faults, ghost>>

ReleaseRoot(w) ==
    /\ At(w, "release root")
    /\ UpdateOnce(w, RootReleaseId(job[w].run), job[w].root.tree, "delete")
    /\ UNCHANGED <<catalog, pending, smoke, ghost>>

\* A row that is gone already counts as deleted.  Resources go with the root.
DeleteRoot(w) ==
    /\ At(w, "delete")
    /\ IF SameRow(job[w].root)
       THEN /\ catalog' = NoRoot
            /\ smoke' = [r \in Run |-> [smoke[r] EXCEPT !.paths = {}]]
            /\ Goto(w, "finish")
       ELSE /\ Goto(w, IF catalog = NoRoot THEN "finish" ELSE "fail")
            /\ UNCHANGED <<catalog, smoke>>
    /\ UNCHANGED <<pending, counts, applied, faults, ghost>>

FinishRun(w) ==
    /\ At(w, "finish")
    /\ smoke' = [smoke EXCEPT ![job[w].run].state = "complete", ![job[w].run].paths = {}]
    /\ job' = [job EXCEPT ![w] = Finished(@)]
    /\ UNCHANGED <<catalog, pending, counts, applied, faults, ghost>>

FailRun(w) ==
    /\ At(w, "fail")
    /\ smoke' = [smoke EXCEPT ![job[w].run].state = IF @ = "complete" THEN @ ELSE "failed"]
    /\ Done(w)
    /\ UNCHANGED <<catalog, pending, counts, applied, faults, ghost>>

-----------------------------------------------------------------------------
\* An invocation stops, or a call before any effect fails: what it held and
\* had not cataloged stays referenced.
Orphaned(j) ==
    CASE j.pc \in {"check", "batch", "undo"} -> SetToBag({j.next})
      [] j.pc = "create" -> SetToBag({EmptyTree})
      [] OTHER -> EmptyBag

Stop(w) ==
    /\ ~At(w, "idle")
    /\ Fault
    /\ leaked' = leaked (+) Orphaned(job[w])
    /\ Done(w)
    /\ UNCHANGED <<db, past, returned>>

FilesTypeOK ==
    /\ ValidManifest(catalog.tree) /\ catalog.revision \in 0..(MaxRevision + Cardinality(Run))
    /\ \A r \in pending : ValidManifest(r.tree)
    /\ \A r \in Run : smoke[r].state \in {"none", "active", "pending", "failed", "complete"}
    /\ faults \in 0..MaxFaults /\ returned \in BOOLEAN

=============================================================================
