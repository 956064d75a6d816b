------------------------------ MODULE Cutover ------------------------------
(***************************************************************************)
(* The production cut-over of Root Refs: a job of the deployment that      *)
(* fences the writers of the old ledger with triggers, freezes it,         *)
(* validates a copy, fills the new tables, checks them and publishes a     *)
(* marker, and that takes everything back when it stops before the marker. *)
(* Writers of the old version go on all along; the new version is deployed *)
(* once a job has succeeded.  Every remote command is a step, can fail     *)
(* before or after it took effect, and the job can be killed.              *)
(*                                                                         *)
(* A request adds one reference to the one node of the model, so a ledger  *)
(* is its sum, its revision, its events and its replay records.            *)
(***************************************************************************)
EXTENDS Naturals, FiniteSets

CONSTANTS
    Req,        \* Root Ref request ids
    Guard,      \* the archive triggers; the writer fence is one of them
    Fence,      \* cas_root_domain_events_archive_insert
    MaxJobs,    \* bound on jobs; a job is its number, its owner mark
    MaxFailures \* bound on failures and kills

ASSUME CutoverAssumption ==
    Fence \in Guard /\ MaxJobs \in Nat /\ MaxFailures \in Nat /\ IsFiniteSet(Req)

VARIABLES
    roots,     \* cas_nodes.root_ref_count
    old,       \* the legacy ledger: sum, revision, events, requests
    new,       \* the cas_app_root tables: the same and the checkpoint
    schema,    \* the new tables exist
    guards,    \* owner of each archive trigger, 0 for none
    marker,    \* cas_app_root_cutover has its row
    deployed,  \* the new version serves
    job,       \* the running or last job
    jobs,
    failures,
    applied    \* history: how often each request took effect

ledgers == <<roots, old, new, applied>>
cutoverVars == <<ledgers, schema, guards, marker, deployed, job, jobs, failures>>

Ledger(n, s) == [sum |-> n, revision |-> n, events |-> s, requests |-> s]
Empty == [sum |-> 0, revision |-> 0, events |-> {}, requests |-> {}, checkpoint |-> 0]
NoJob == [at |-> "none", owner |-> 0, empty |-> FALSE, tried |-> FALSE, outcome |-> "none", copied |-> 0]

Guarded == \E g \in Guard : guards[g] # 0
Owned(g) == guards[g] = job.owner /\ job.owner # 0
AllOwned == \A g \in Guard : Owned(g)
AllGuards == \A g \in Guard : guards[g] # 0
NewEmpty == new = Empty

-----------------------------------------------------------------------------
(* Writers                                                                 *)

Applied(r) == applied' = [applied EXCEPT ![r] = @ + 1]

\* An update of the old version: one batch that any archive trigger aborts.
OldWrite(r) ==
    /\ ~Guarded /\ r \notin old.requests
    /\ roots' = roots + 1
    /\ old' = [sum |-> old.sum + 1, revision |-> old.revision + 1,
               events |-> old.events \cup {r}, requests |-> old.requests \cup {r}]
    /\ Applied(r)
    /\ UNCHANGED <<new, schema, guards, marker, deployed, job, jobs, failures>>

\* assertRootRefCutover
MayOpen == marker \/ (old.events = {} /\ old.requests = {} /\ old.sum = 0)

NewWrite(r) ==
    /\ deployed /\ schema /\ MayOpen /\ r \notin new.requests
    /\ roots' = roots + 1
    /\ new' = [new EXCEPT !.sum = @ + 1, !.revision = @ + 1,
                          !.events = @ \cup {r}, !.requests = @ \cup {r}]
    /\ Applied(r)
    /\ UNCHANGED <<old, schema, guards, marker, deployed, job, jobs, failures>>

-----------------------------------------------------------------------------
(* What the job checks                                                     *)

\* planRootRefCutover: no drift, a replay record for every event, whole streams
Plannable == old.sum = roots /\ old.requests = old.events /\ old.revision = Cardinality(old.events)

\* applyRootRefCutover on a local copy: planned again, into empty tables, unchanged by it
CandidateApplies == Plannable /\ NewEmpty

\* verificationSql before anyone may write the new tables
Reconciled ==
    /\ new.sum = roots /\ old.sum = roots
    /\ new.requests = old.requests
    /\ new.checkpoint = old.revision /\ new.revision = new.checkpoint

\* verificationSql for a ledger in use
Live ==
    /\ new.sum = roots
    /\ new.requests = old.requests \cup new.events
    /\ new.checkpoint = old.revision
    /\ new.revision = new.checkpoint + Cardinality(new.events)

\* verificationSql of a part that is there
PartlyReconciled ==
    /\ new.sum # 0 => new.sum = roots
    /\ new.requests \subseteq old.requests
    /\ new.revision = new.checkpoint /\ new.checkpoint \in {0, old.revision}

-----------------------------------------------------------------------------
(* The job                                                                 *)

At(s) == job.at = s
Goto(s) == job' = [job EXCEPT !.at = s]
Stop(o) == job' = [job EXCEPT !.at = "stopped", !.outcome = o]

Fail == failures < MaxFailures /\ failures' = failures + 1

\* The catch of a job that set its fence: on to recovery.
Caught == Goto("recover")

StartJob ==
    /\ job.at \in {"none", "stopped"} /\ jobs < MaxJobs
    /\ jobs' = jobs + 1
    /\ job' = [NoJob EXCEPT !.at = "inspect"]
    /\ UNCHANGED <<ledgers, schema, guards, marker, deployed, failures>>

\* Already cut over, not clean, or the start of a cut-over.
Inspect ==
    /\ At("inspect")
    /\ \/ marker /\ Stop(IF AllGuards /\ Live THEN "already" ELSE "forwardFix")
       \/ ~marker /\ (Guarded \/ ~NewEmpty) /\ Stop("noMutation")
       \/ ~marker /\ ~Guarded /\ NewEmpty
          /\ job' = [job EXCEPT !.at = "fence", !.empty = TRUE]
    /\ UNCHANGED <<ledgers, schema, guards, marker, deployed, jobs, failures>>

FenceWriters ==
    /\ At("fence")
    /\ job' = [job EXCEPT !.owner = jobs, !.at = "archive"]
    /\ guards' = [guards EXCEPT ![Fence] = jobs]
    /\ UNCHANGED <<ledgers, schema, marker, deployed, jobs, failures>>

Archive ==
    /\ At("archive") /\ Owned(Fence)
    /\ guards' = [g \in Guard |-> jobs]
    /\ Goto("export")
    /\ UNCHANGED <<ledgers, schema, marker, deployed, jobs, failures>>

\* The copy is of a frozen ledger, so what is validated is what is there.
ExportAndValidate ==
    /\ At("export") /\ AllOwned
    /\ IF CandidateApplies
       THEN job' = [job EXCEPT !.at = "schema", !.copied = Cardinality(old.requests)]
       ELSE Caught
    /\ UNCHANGED <<ledgers, schema, guards, marker, deployed, jobs, failures>>

CreateSchema ==
    /\ At("schema") /\ schema' = TRUE
    /\ IF AllGuards /\ NewEmpty THEN Goto("populate") ELSE Caught
    /\ UNCHANGED <<ledgers, guards, marker, deployed, jobs, failures>>

Filled == [sum |-> roots, revision |-> old.revision, events |-> {},
           requests |-> old.requests, checkpoint |-> old.revision]

Populate ==
    /\ At("populate")
    /\ new' = Filled /\ Goto("verify")
    /\ UNCHANGED <<roots, old, applied, schema, guards, marker, deployed, jobs, failures>>

VerifyBeforeMarker ==
    /\ At("verify")
    /\ IF AllGuards /\ Reconciled /\ new.events = {} /\ Cardinality(new.requests) = job.copied
       THEN Goto("marker") ELSE Caught
    /\ UNCHANGED <<ledgers, schema, guards, marker, deployed, jobs, failures>>

PublishMarker ==
    /\ At("marker")
    /\ marker' = TRUE
    /\ job' = [job EXCEPT !.at = "verified", !.tried = TRUE]
    /\ UNCHANGED <<ledgers, schema, guards, deployed, jobs, failures>>

VerifyAfterMarker ==
    /\ At("verified")
    /\ IF AllGuards /\ Reconciled /\ new.events = {} THEN Stop("complete") ELSE Caught
    /\ UNCHANGED <<ledgers, schema, guards, marker, deployed, jobs, failures>>

\* The deployment follows the job that succeeded.
Deploy ==
    /\ At("stopped") /\ job.outcome \in {"complete", "already"} /\ ~deployed
    /\ deployed' = TRUE
    /\ UNCHANGED <<ledgers, schema, guards, marker, job, jobs, failures>>

-----------------------------------------------------------------------------
(* Failures                                                                *)

Running == job.at \notin {"none", "stopped"}
Stage == {"fence", "archive", "export", "schema", "populate", "verify", "marker", "verified"}

\* A read before the fence fails; only a marker already read is remembered.
InspectFails ==
    /\ Fail /\ At("inspect")
    /\ \E o \in {"noMutation"} \cup IF marker THEN {"forwardFix"} ELSE {} : Stop(o)
    /\ UNCHANGED <<ledgers, schema, guards, marker, deployed, jobs>>

\* A command that had no effect, or a read that failed.
CommandFails ==
    /\ Fail /\ job.at \in Stage
    /\ job' = [job EXCEPT !.owner = IF At("fence") THEN jobs ELSE @,
                          !.tried = @ \/ At("marker"), !.at = "recover"]
    /\ UNCHANGED <<ledgers, schema, guards, marker, deployed, jobs>>

\* Of the archive triggers any part can be there.
ArchiveCut ==
    /\ Fail /\ At("archive")
    /\ \E s \in SUBSET (Guard \ {Fence}) :
          guards' = [g \in Guard |-> IF g \in s THEN jobs ELSE guards[g]]
    /\ Goto("recover")
    /\ UNCHANGED <<ledgers, schema, marker, deployed, jobs>>

\* The command took effect and its answer was lost: the stages say what is next
\* for a job that goes on; here it goes to recovery instead.
AnswerLost ==
    /\ Fail
    /\ job.at \in {"fence", "schema", "populate", "marker"}
    /\ guards' = IF At("fence") THEN [guards EXCEPT ![Fence] = jobs] ELSE guards
    /\ schema' = (schema \/ At("schema"))
    /\ new' = IF At("populate") THEN Filled ELSE new
    /\ marker' = (marker \/ At("marker"))
    /\ job' = [job EXCEPT !.owner = IF At("fence") THEN jobs ELSE @,
                          !.tried = @ \/ At("marker"), !.at = "recover"]
    /\ UNCHANGED <<roots, old, applied, deployed, jobs>>

Killed ==
    /\ Fail /\ Running
    /\ Stop("killed")
    /\ UNCHANGED <<ledgers, schema, guards, marker, deployed, jobs>>

-----------------------------------------------------------------------------
(* Recovery                                                                *)

\* Mutant: the marker is not looked for.
PublishedUnread == FALSE

Published == marker \/ new.events # {}

RecoverInspect ==
    /\ At("recover")
    /\ \/ Published /\ Stop("forwardFix")
       \/ ~Published /\ ~Guarded /\ NewEmpty /\ Stop("noMutation")
       \/ ~Published /\ (Guarded \/ ~NewEmpty) /\ ~(job.empty /\ Owned(Fence)) /\ Stop("preserved")
       \/ /\ ~Published /\ job.empty /\ Owned(Fence)
          /\ IF (\A g \in Guard : guards[g] \in {0, job.owner}) /\ PartlyReconciled
             THEN Goto("clear") ELSE Stop("preserved")
    /\ UNCHANGED <<ledgers, schema, guards, marker, deployed, jobs, failures>>

Cleared == [Empty EXCEPT !.events = new.events]

\* Mutant: the triggers go while the new tables are still filled.
RecoverClearSkipped ==
    /\ At("clear") /\ Goto("unfreeze")
    /\ UNCHANGED <<ledgers, schema, guards, marker, deployed, jobs, failures>>

RecoverClear ==
    /\ At("clear")
    /\ new' = Cleared
    /\ IF Cleared = Empty /\ Owned(Fence) THEN Goto("unfreeze") ELSE Stop("preserved")
    /\ UNCHANGED <<roots, old, applied, schema, guards, marker, deployed, jobs, failures>>

RecoverUnfreeze ==
    /\ At("unfreeze")
    /\ guards' = [g \in Guard |-> IF g = Fence \/ ~Owned(g) THEN guards[g] ELSE 0]
    /\ Goto("unfence")
    /\ UNCHANGED <<ledgers, schema, marker, deployed, jobs, failures>>

\* The writer fence is always the last protection removed.
RecoverUnfence ==
    /\ At("unfence")
    /\ guards' = [guards EXCEPT ![Fence] = 0]
    /\ Stop("restored")
    /\ UNCHANGED <<ledgers, schema, marker, deployed, jobs, failures>>

\* A command of the recovery fails, with or without its effect.
RecoveryFails ==
    /\ Fail /\ job.at \in {"recover", "clear", "unfreeze", "unfence"}
    /\ new' \in IF At("clear") THEN {new, Cleared} ELSE {new}
    /\ guards' \in IF At("unfreeze")
                   THEN {[g \in Guard |-> IF g \in s THEN 0 ELSE guards[g]] : s \in SUBSET (Guard \ {Fence})}
                   ELSE IF At("unfence") THEN {guards, [guards EXCEPT ![Fence] = 0]} ELSE {guards}
    /\ Stop(IF job.tried THEN "forwardFix" ELSE "preserved")
    /\ UNCHANGED <<roots, old, applied, schema, marker, deployed, jobs>>

-----------------------------------------------------------------------------

\* A whole ledger, one whose sum drifted, one that misses a replay record.
CutoverInit ==
    /\ \E s \in SUBSET Req, drift \in {0, 1}, lost \in SUBSET Req :
          /\ Cardinality(lost) <= 1 /\ lost \subseteq s
          /\ roots = Cardinality(s) + drift
          /\ old = [Ledger(Cardinality(s), s) EXCEPT !.requests = s \ lost]
          /\ applied = [r \in Req |-> IF r \in s THEN 1 ELSE 0]
    /\ new = Empty /\ schema = FALSE /\ guards = [g \in Guard |-> 0]
    /\ marker = FALSE /\ deployed = FALSE /\ job = NoJob /\ jobs = 0 /\ failures = 0

CutoverNext ==
    \/ \E r \in Req : OldWrite(r) \/ NewWrite(r)
    \/ StartJob \/ Inspect \/ FenceWriters \/ Archive \/ ExportAndValidate
    \/ CreateSchema \/ Populate \/ VerifyBeforeMarker \/ PublishMarker \/ VerifyAfterMarker \/ Deploy
    \/ InspectFails \/ CommandFails \/ ArchiveCut \/ AnswerLost \/ Killed
    \/ RecoverInspect \/ RecoverClear \/ RecoverUnfreeze \/ RecoverUnfence \/ RecoveryFails

-----------------------------------------------------------------------------

\* Once the marker is there the new tables are the ledger: they agree with the
\* counts on the nodes, hold a replay record for everything the old ledger
\* applied, and no request takes effect in both; failures, kills, repeated jobs
\* and the recovery of a later job never take that back.
CutOverReconciled ==
    marker =>
        /\ new.sum = roots
        /\ old.requests \subseteq new.requests
        /\ \A r \in Req : applied[r] <= 1

\* While nobody is fenced out the new tables are empty or the ledger itself:
\* writers of the old version never run beside a filled new ledger, so a job
\* that reports the old writer restored leaves nothing behind.
OldWritersAlone ==
    ~Guarded /\ ~marker => NewEmpty

\* The cut-over can neither publish a ledger that is not the old one nor give
\* the old writers back while a filled ledger lies beside theirs.
CutoverSafe == CutOverReconciled /\ OldWritersAlone

=============================================================================
