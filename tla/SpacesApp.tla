------------------------------ MODULE SpacesApp ------------------------------
(***************************************************************************)
(* The Spaces application: sign-in, the files of a Principal with its      *)
(* smoke runs, and the upload of file contents.  A workload says which of  *)
(* them a behaviour exercises; the parts meet in the session that a file   *)
(* request needs.                                                          *)
(***************************************************************************)
EXTENDS FileRoots, SpacesLogin, BlobTree

CONSTANTS
    Workloads,
    StartTree    \* the files of the Principal at the start

ASSUME StartAssumption ==
    StartTree \in [DOMAIN StartTree -> Entry] /\ DOMAIN StartTree \subseteq Path

VARIABLE workload

fileVars == <<db, job, faults, ghost>>
vars == <<fileVars, loginVars, blobVars, workload>>

Uses(part) == part \in workload

\* A Principal has one root whose reference is held; the smoke Principal has
\* none.
FilesInit ==
    /\ catalog = IF Uses("smoke") THEN NoRoot
                 ELSE [id |-> Own, tree |-> StartTree, revision |-> 1]
    /\ counts = IF Uses("smoke") THEN EmptyBag ELSE SetToBag({StartTree})
    /\ pending = {} /\ applied = {}
    /\ smoke = [r \in Run |-> [state |-> "none", expired |-> FALSE, issued |-> FALSE, paths |-> {}]]
    /\ job = [w \in Worker |-> Idle]
    /\ faults = 0
    /\ past = {catalog.tree} /\ returned = FALSE /\ leaked = EmptyBag

Init ==
    /\ workload \in Workloads
    /\ FilesInit /\ LoginInit /\ BlobInit
    /\ ~Uses("login") => principal = "active"
    /\ ~Uses("blob") => up.source = (CHOOSE s \in Sources : TRUE)

Login ==
    \/ \E a \in Attempt : BeginLogin(a) \/ ExpireAttempt(a)
    \/ \E c \in Callback :
          (\E a \in Attempt : ConsumeAttempt(c, a)) \/ ExchangeCode(c) \/ ResolveIdentity(c) \/ CreateSession(c)
    \/ \E s \in sessions : EndSession(s)
    \/ PruneExpired \/ Suspend

Upload ==
    \/ NextChunk \/ StoreNode \/ FinishTree
    \/ \E n \in leased : ExpireLease(n)
    \/ \E n \in ready : CollectNode(n)

\* A file request is served to a Principal that is signed in.
Edit(w) == (Uses("login") => SignedIn) /\ \E r \in FileRequest : StartEdit(w, r)

\* The smoke client is a script that awaits every answer, and the scheduled
\* trigger acts on a run only after it expired.
MayStart == Uses("smoke") => \A w \in Worker : At(w, "idle")

\* The steps of an invocation, faults aside.
Work(w) ==
    \/ Retain(w) \/ CheckRevision(w) \/ CommitRoot(w) \/ Reread(w)
    \/ ReleasePrevious(w) \/ Undo(w) \/ AssertRetained(w)
    \/ ListPending(w) \/ ReadCount(w) \/ DropQueued(w) \/ CompleteRelease(w)
    \/ Reconciled(w) \/ AnswerEdit(w)

SmokeWork(w) ==
    \/ Recover(w) \/ CreateRun(w) \/ EnsureRoot(w) \/ HoldEmpty(w) \/ CreateRoot(w)
    \/ PrepareCleanup(w) \/ MarkPending(w) \/ CleanupPaths(w) \/ ListRoots(w)
    \/ ReleaseRoot(w) \/ DeleteRoot(w) \/ FinishRun(w) \/ FailRun(w)

Smoke(w) ==
    \/ SmokeWork(w)
    \/ MayStart /\ StartSession(w)
    \/ MayStart /\ \E r \in Run : StartCleanup(w, r) \/ CronCleanup(w, r)

Files ==
    \/ \E w \in Worker : (MayStart /\ (Edit(w) \/ CronReconcile(w))) \/ Work(w) \/ Stop(w)
    \/ Uses("smoke") /\ ((\E w \in Worker : Smoke(w)) \/ \E r \in Run : ExpireRun(r))

Next ==
    /\ \/ Uses("login") /\ Login /\ UNCHANGED <<fileVars, blobVars>>
       \/ Uses("blob") /\ Upload /\ UNCHANGED <<fileVars, loginVars>>
       \/ Uses("files") /\ Files /\ UNCHANGED <<loginVars, blobVars>>
    /\ UNCHANGED workload

\* An invocation that is not stopped goes on, and the scheduled trigger comes
\* again and again.
Fairness ==
    \A w \in Worker :
        /\ WF_vars(Uses("files") /\ (Work(w) \/ SmokeWork(w)) /\ UNCHANGED <<loginVars, blobVars, workload>>)
        /\ WF_vars(Uses("files") /\ MayStart /\ CronReconcile(w) /\ UNCHANGED <<loginVars, blobVars, workload>>)
        /\ \A r \in Run :
              WF_vars(Uses("smoke") /\ MayStart /\ (CronCleanup(w, r) \/ ExpireRun(r))
                      /\ UNCHANGED <<loginVars, blobVars, workload>>)

Spec == Init /\ [][Next]_vars /\ Fairness

-----------------------------------------------------------------------------

TypeOK == FilesTypeOK /\ LoginTypeOK

\* A commit moves the root only from the manifest its request opened: of two
\* edits of the same revision one is applied and none is overwritten.
EditsBuildOnLatest ==
    [][\A w \in Worker :
          job[w].pc = "batch" /\ job'[w].pc = "reread" => job[w].root = catalog]_vars

\* The release of the root itself has been applied (its row goes next).
RootLetGo == \E a \in applied : a.id = RootReleaseId(catalog.id) /\ a.tree = catalog.tree

\* As long as no manifest comes back that is still owed a release, the cataloged manifest is referenced in
\* the store at every moment: races, lost answers and stopped invocations
\* included.
CatalogedRootHeld ==
    catalog # NoRoot /\ ~returned => Held(catalog.tree) \/ RootLetGo

\* At rest, with nothing queued, the store references the cataloged manifest
\* at most once and nothing else, except what commits that stopped had taken.
OnlyRootReferenced ==
    (\A w \in Worker : At(w, "idle")) /\ pending = {} /\ ~returned
        => counts \sqsubseteq
              (leaked (+) IF catalog = NoRoot THEN EmptyBag ELSE SetToBag({catalog.tree}))

\* A smoke run that is complete leaves no root of its own behind, and once
\* every invocation is over no reference either, except what commits that
\* stopped had taken (and unless a manifest came back that was still owed).
CompleteRunLeavesNothing ==
    \A r \in Run : smoke[r].state = "complete" =>
        /\ catalog.id # r
        /\ (\A w \in Worker : At(w, "idle")) /\ pending = {} /\ catalog = NoRoot /\ ~returned
              => counts \sqsubseteq leaked

\* The references of the application in the store are those it answers for:
\* the cataloged manifest is held, and what was replaced, lost or part of a
\* finished smoke run is not.
RootsAccounted == CatalogedRootHeld /\ OnlyRootReferenced /\ CompleteRunLeavesNothing

\* A queued release is carried out: the queue does not keep it for ever.
QueuedReleaseCompletes ==
    \A n \in 1..MaxRevision :
        ~Uses("smoke") /\ (\E r \in pending : r.revision = n) ~> ~\E r \in pending : r.revision = n

=============================================================================
