---------------------------- MODULE ServiceProofs ----------------------------
(* Theorems about the worker and its background work, for any number of isolates, requests
   and migration statements, and for any number of cut-over jobs, writers and triggers. *)
EXTENDS Service, FiniteSetTheorems, TLAPS

(* The worker's entry point. *)

\* What an entrance is: at rest or answered without work, on its way to a Space, or an
\* admin, MCP or scheduled run that waits, works or is over.
AtRest == [phase : Answers \cup {"idle", "unauthorized", "invalid", "actor"}]
ToSpace == [phase : {"authorize", "dispatch"}, in : Isolate, legacy : {v.legacy : v \in Visit}]
ControlRun ==
  [phase : {"wait", "work", "served", "failed"}, in : Isolate, kind : {"admin", "mcp", "scheduled"},
   task : Nat, hurt : BOOLEAN, whole : BOOLEAN]

\* An isolate has no rejected promise: the rejection forgets it.
Promises == [state : {"none", "running", "done"}, at : 0..Statements, handler : BOOLEAN]

EntryShape ==
  /\ tables \in 0..Statements
  /\ isolate \in [Isolate -> Promises]
  /\ entry \in [Entrance -> AtRest \cup ToSpace \cup ControlRun]

\* A resolved promise is one of a complete schema, which no statement undoes.
ResolvedIsWhole == \A i \in Isolate : isolate[i].state = "done" => tables = Statements

EntryInv == EntryShape /\ ResolvedIsWhole /\ WorksOnWholeSchema

LEMMA RunOfEntrance ==
  ASSUME EntryShape, NEW e \in Entrance
  PROVE  /\ entry[e].phase \in {"wait", "work", "served", "failed"} <=> entry[e] \in ControlRun
         /\ entry[e].phase \in {"authorize", "dispatch"} <=> entry[e] \in ToSpace
<1>1. entry[e] \in AtRest \cup ToSpace \cup ControlRun
  BY DEF EntryShape
<1> QED BY <1>1 DEF AtRest, ToSpace, ControlRun, Answers

LEMMA StatementNumbers ==
  /\ Statements \in Nat /\ 0 \in 0..Statements /\ 1 \in 0..Statements
  /\ \A n \in 0..Statements : n # Statements => n + 1 \in 0..Statements
BY EntryAssumption DEF EntryAssumption

LEMMA EnsuredPromises ==
  ASSUME NEW s \in Promises, NEW sampled \in BOOLEAN
  PROVE  /\ Ensured(s) \in Promises /\ Handled(s, sampled) \in Promises
         /\ Ensured(s).state = "done" <=> s.state = "done"
         /\ Handled(s, sampled).state = "done" <=> s.state = "done"
<1>1. Ensured(s) \in Promises /\ (Ensured(s).state = "done" <=> s.state = "done")
  <2>1. CASE s.state = "none"
    <3>1. Ensured(s) = [s EXCEPT !.state = "running", !.at = 1]
      BY <2>1 DEF Ensured
    <3>2. Ensured(s) \in Promises /\ Ensured(s).state = "running"
      BY <3>1, StatementNumbers DEF Promises
    <3> QED BY <2>1, <3>2
  <2>2. CASE s.state # "none"
    BY <2>2 DEF Ensured
  <2> QED BY <2>1, <2>2
<1>2. ASSUME NEW t \in Promises
      PROVE  [t EXCEPT !.handler = TRUE] \in Promises /\ [t EXCEPT !.handler = TRUE].state = t.state
  BY <1>2 DEF Promises
<1> QED BY <1>1, <1>2 DEF Handled

LEMMA EntersKeeps ==
  ASSUME EntryInv, NEW e \in Entrance, NEW i \in Isolate, NEW k \in {"admin", "mcp", "scheduled"},
         NEW s \in Promises, s.state = "done" <=> isolate[i].state = "done",
         Enters(e, i, k, s), tables' = tables
  PROVE  EntryInv'
<1> DEFINE r == [phase |-> Awaiting(s), in |-> i, kind |-> k, task |-> 1,
                 hurt |-> FALSE, whole |-> tables = Statements]
<1>1. Awaiting(s) \in {"work", "wait"} /\ (Awaiting(s) = "work" <=> s.state = "done")
  BY DEF Awaiting, Promises
<1>2. r \in ControlRun
  BY <1>1 DEF ControlRun
<1>3. isolate' = [isolate EXCEPT ![i] = s] /\ entry' = [entry EXCEPT ![e] = r]
  BY DEF Enters
<1>4. EntryShape'
  BY <1>2, <1>3 DEF EntryInv, EntryShape
<1>5. ResolvedIsWhole'
  BY <1>3 DEF EntryInv, EntryShape, ResolvedIsWhole
<1>6. WorksOnWholeSchema'
  <2>1. r.phase = "work" => r.whole
    BY <1>1 DEF EntryInv, ResolvedIsWhole
  <2>2. r.phase \notin {"served", "failed"}
    BY <1>1
  <2> QED BY <1>3, <2>1, <2>2 DEF EntryInv, EntryShape, WorksOnWholeSchema
<1> QED BY <1>4, <1>5, <1>6 DEF EntryInv

LEMMA KeepsEntryInv == EntryInv /\ [EntryNext]_entryVars => EntryInv'
<1> SUFFICES ASSUME EntryInv, [EntryNext]_entryVars PROVE EntryInv'
  OBVIOUS
<1>0. EntryShape /\ ResolvedIsWhole /\ WorksOnWholeSchema
  BY DEF EntryInv
<1>1. ASSUME NEW e \in Entrance, NEW i \in Isolate, Arrive(e, i) PROVE EntryInv'
  <2> PICK v \in Visit, sampled \in BOOLEAN :
        LET r == Routed(v) IN
          \/ /\ r \in Answers
             /\ entry' = [entry EXCEPT ![e] = [phase |-> r]]
             /\ UNCHANGED isolate
          \/ r = "admin" /\ Enters(e, i, "admin", Handled(isolate[i], sampled))
          \/ r = "mcp" /\ Enters(e, i, "mcp", Ensured(isolate[i]))
          \/ /\ r = "authorize"
             /\ entry' = [entry EXCEPT ![e] = [phase |-> "authorize", in |-> i, legacy |-> v.legacy]]
             /\ UNCHANGED isolate
    BY <1>1 DEF Arrive
  <2>a. isolate[i] \in Promises /\ tables' = tables
    BY <1>0, <1>1 DEF EntryShape, Arrive
  <2>1. ASSUME Routed(v) \in Answers, entry' = [entry EXCEPT ![e] = [phase |-> Routed(v)]],
               UNCHANGED isolate
        PROVE  EntryInv'
    <3>1. [phase |-> Routed(v)] \in AtRest
      BY <2>1 DEF AtRest
    <3>2. EntryShape' /\ ResolvedIsWhole'
      BY <1>0, <2>a, <2>1, <3>1 DEF EntryShape, ResolvedIsWhole
    <3>3. WorksOnWholeSchema'
      BY <1>0, <2>1 DEF EntryShape, WorksOnWholeSchema, Answers
    <3> QED BY <3>2, <3>3 DEF EntryInv
  <2>2. ASSUME Enters(e, i, "admin", Handled(isolate[i], sampled)) PROVE EntryInv'
    BY <2>a, <2>2, EnsuredPromises, EntersKeeps
  <2>3. ASSUME Enters(e, i, "mcp", Ensured(isolate[i])) PROVE EntryInv'
    BY <2>a, <2>3, EnsuredPromises, EntersKeeps
  <2>4. ASSUME entry' = [entry EXCEPT ![e] = [phase |-> "authorize", in |-> i, legacy |-> v.legacy]],
               UNCHANGED isolate
        PROVE  EntryInv'
    <3>1. [phase |-> "authorize", in |-> i, legacy |-> v.legacy] \in ToSpace
      BY DEF ToSpace
    <3>2. EntryShape' /\ ResolvedIsWhole'
      BY <1>0, <2>a, <2>4, <3>1 DEF EntryShape, ResolvedIsWhole
    <3>3. WorksOnWholeSchema'
      BY <1>0, <2>4 DEF EntryShape, WorksOnWholeSchema
    <3> QED BY <3>2, <3>3 DEF EntryInv
  <2> QED BY <2>1, <2>2, <2>3, <2>4
<1>2. ASSUME NEW e \in Entrance, NEW i \in Isolate, Scheduled(e, i) PROVE EntryInv'
  <2>1. isolate[i] \in Promises
    BY <1>0 DEF EntryShape
  <2> QED BY <1>2, <2>1, EnsuredPromises, EntersKeeps DEF Scheduled
<1>3. ASSUME NEW e \in Entrance, Authorize(e) \/ Dispatch(e) \/ Leave(e) PROVE EntryInv'
  <2>1. entry[e].phase \in {"authorize", "dispatch"} => entry[e] \in ToSpace
    BY <1>0, RunOfEntrance
  <2>2. PICK x \in AtRest \cup ToSpace :
          x.phase \notin {"work", "served", "failed"} /\ entry' = [entry EXCEPT ![e] = x]
    <3>1. CASE Authorize(e)
      <4>1. CASE Unauthorized(e)
        BY <4>1 DEF Unauthorized, AtRest
      <4>2. CASE entry' = [entry EXCEPT ![e].phase = "dispatch"]
        <5>1. [entry[e] EXCEPT !.phase = "dispatch"] \in ToSpace
          BY <2>1, <3>1 DEF Authorize, ToSpace
        <5> QED BY <4>2, <5>1 DEF ToSpace
      <4> QED BY <3>1, <4>1, <4>2 DEF Authorize
    <3>2. CASE Dispatch(e)
      <4>1. [phase |-> IF entry[e].legacy THEN "invalid" ELSE "actor"] \in AtRest
        BY DEF AtRest
      <4> QED BY <3>2, <4>1 DEF Dispatch
    <3>3. CASE Leave(e)
      BY <3>3 DEF Leave, Nobody, AtRest
    <3> QED BY <1>3, <3>1, <3>2, <3>3
  <2>3. UNCHANGED <<tables, isolate>>
    BY <1>3 DEF Authorize, Dispatch, Leave
  <2> QED BY <1>0, <2>2, <2>3 DEF EntryInv, EntryShape, ResolvedIsWhole, WorksOnWholeSchema
<1>4. ASSUME NEW e \in Entrance, Work(e) \/ TaskFails(e) PROVE EntryInv'
  <2>1. entry[e].phase = "work" /\ entry[e] \in ControlRun /\ entry[e].whole
    BY <1>0, <1>4, RunOfEntrance DEF Work, TaskFails, WorksOnWholeSchema
  <2>2. PICK x \in ControlRun : /\ entry' = [entry EXCEPT ![e] = x]
                                /\ x.phase \in {"work", "served"} => x.whole
                                /\ x.phase = "failed" => x.hurt
    <3>1. CASE Work(e)
      <4>1. CASE entry[e].kind = "scheduled" /\ entry[e].task < Tasks
        <5>0. entry[e].task + 1 \in Nat
          BY <2>1 DEF ControlRun
        <5>1. [entry[e] EXCEPT !.task = entry[e].task + 1] \in ControlRun
          BY <2>1, <5>0 DEF ControlRun
        <5>2. /\ [entry[e] EXCEPT !.task = entry[e].task + 1].phase = "work"
              /\ [entry[e] EXCEPT !.task = entry[e].task + 1].whole
          BY <2>1 DEF ControlRun
        <5> QED BY <1>0, <3>1, <4>1, <5>1, <5>2 DEF Work, EntryShape
      <4>2. CASE ~(entry[e].kind = "scheduled" /\ entry[e].task < Tasks)
        <5>1. [entry[e] EXCEPT !.phase = "served"] \in ControlRun
          BY <2>1 DEF ControlRun
        <5>2. [entry[e] EXCEPT !.phase = "served"].phase = "served" /\ [entry[e] EXCEPT !.phase = "served"].whole
          BY <2>1 DEF ControlRun
        <5> QED BY <1>0, <3>1, <4>2, <5>1, <5>2 DEF Work, EntryShape
      <4> QED BY <4>1, <4>2
    <3>2. CASE TaskFails(e)
      <4>1. entry' = [entry EXCEPT ![e] = [entry[e] EXCEPT !.phase = "failed", !.hurt = TRUE]]
        BY <3>2, <2>1, <1>0 DEF TaskFails, EntryShape
      <4>2. [entry[e] EXCEPT !.phase = "failed", !.hurt = TRUE] \in ControlRun
        BY <2>1 DEF ControlRun
      <4>3. /\ [entry[e] EXCEPT !.phase = "failed", !.hurt = TRUE].phase = "failed"
            /\ [entry[e] EXCEPT !.phase = "failed", !.hurt = TRUE].hurt
        BY <2>1 DEF ControlRun
      <4> QED BY <4>1, <4>2, <4>3
    <3> QED BY <1>4, <3>1, <3>2
  <2>3. UNCHANGED <<tables, isolate>>
    BY <1>4 DEF Work, TaskFails
  <2> QED BY <1>0, <2>2, <2>3 DEF EntryInv, EntryShape, ResolvedIsWhole, WorksOnWholeSchema
<1>5. ASSUME NEW i \in Isolate, RunStatement(i) PROVE EntryInv'
  <2> DEFINE s == isolate[i]  resolved == s.at = Statements
  <2>1. s \in Promises /\ s.state = "running"
    BY <1>0, <1>5 DEF EntryShape, RunStatement
  <2>2. tables' \in 0..Statements /\ tables' >= tables /\ (resolved => tables' = Statements)
    <3>1. tables' = Executed(s.at)
      BY <1>5 DEF RunStatement
    <3>2. s.at \in 0..Statements /\ tables \in 0..Statements
      BY <1>0, <2>1 DEF EntryShape, Promises
    <3> QED BY <3>1, <3>2, StatementNumbers DEF Executed
  <2>3. /\ isolate' \in [Isolate -> Promises]
        /\ isolate'[i].state = "done" => resolved
        /\ \A j \in Isolate \ {i} : isolate'[j] = isolate[j]
    <3> DEFINE t == IF resolved THEN [s EXCEPT !.state = "done"] ELSE [s EXCEPT !.at = s.at + 1]
    <3>1. isolate' = [isolate EXCEPT ![i] = t]
      BY <1>5 DEF RunStatement
    <3>2. resolved => t \in Promises
      BY <2>1 DEF Promises
    <3>3. ~resolved => t \in Promises /\ t.state = "running"
      <4>1. s.at \in 0..Statements
        BY <2>1 DEF Promises
      <4>2. ~resolved => s.at + 1 \in 0..Statements
        BY <4>1, StatementNumbers
      <4> QED BY <2>1, <4>2 DEF Promises
    <3> QED BY <1>0, <3>1, <3>2, <3>3 DEF EntryShape
  <2>4. ASSUME NEW e \in Entrance
        PROVE  \/ entry'[e] = entry[e]
               \/ /\ resolved /\ entry[e] \in ControlRun
                  /\ entry'[e] = [entry[e] EXCEPT !.phase = "work", !.whole = tables' = Statements]
    BY <1>0, <1>5, <2>4, RunOfEntrance DEF RunStatement, WaitingIn
  <2>5. ASSUME NEW e \in Entrance
        PROVE  /\ entry'[e] \in AtRest \cup ToSpace \cup ControlRun
               /\ entry'[e].phase \in {"work", "served"} => entry'[e].whole
               /\ entry'[e].phase = "failed" => entry'[e].hurt
    <3>1. CASE entry'[e] = entry[e]
      BY <1>0, <2>5, <3>1 DEF EntryShape, WorksOnWholeSchema
    <3>2. CASE entry'[e] # entry[e]
      BY <2>2, <2>4, <2>5, <3>2 DEF ControlRun
    <3> QED BY <3>1, <3>2
  <2>6. EntryShape'
    BY <1>5, <2>2, <2>3, <2>5 DEF EntryShape, RunStatement
  <2>7. ResolvedIsWhole'
    BY <1>0, <2>2, <2>3 DEF ResolvedIsWhole, EntryShape
  <2> QED BY <2>5, <2>6, <2>7 DEF EntryInv, WorksOnWholeSchema
<1>6. ASSUME NEW i \in Isolate, StatementFails(i) \/ Discard(i) PROVE EntryInv'
  <2>0. isolate[i] \in Promises /\ Fresh \in Promises /\ Fresh.state = "none"
    BY <1>0, EntryAssumption DEF EntryShape, Fresh, Promises, EntryAssumption
  <2>1. tables' \in 0..Statements /\ tables' >= tables
    <3>1. tables' \in {tables, Executed(isolate[i].at)}
      BY <1>6 DEF StatementFails, Discard
    <3>2. isolate[i].at \in 0..Statements /\ tables \in 0..Statements
      BY <1>0, <2>0 DEF EntryShape, Promises
    <3> QED BY <3>1, <3>2, StatementNumbers DEF Executed
  <2>2. isolate' = [isolate EXCEPT ![i] = Fresh]
    BY <1>6 DEF StatementFails, Discard, Rejected
  <2>3. ASSUME NEW e \in Entrance
        PROVE  \/ entry'[e] = entry[e]
               \/ entry'[e] = Nobody
               \/ /\ entry[e] \in ControlRun
                  /\ entry'[e] = [entry[e] EXCEPT !.phase = "failed", !.hurt = TRUE]
    BY <1>0, <1>6, <2>3, RunOfEntrance DEF StatementFails, Discard, WaitingIn
  <2>4. ASSUME NEW e \in Entrance
        PROVE  /\ entry'[e] \in AtRest \cup ToSpace \cup ControlRun
               /\ entry'[e].phase \in {"work", "served"} => entry'[e].whole
               /\ entry'[e].phase = "failed" => entry'[e].hurt
    <3>1. CASE entry'[e] = entry[e]
      BY <1>0, <2>4, <3>1 DEF EntryShape, WorksOnWholeSchema
    <3>2. CASE entry'[e] = Nobody
      BY <3>2 DEF Nobody, AtRest
    <3>3. CASE entry'[e] # entry[e] /\ entry'[e] # Nobody
      BY <2>3, <2>4, <3>3 DEF ControlRun
    <3> QED BY <3>1, <3>2, <3>3
  <2>5. EntryShape'
    BY <1>0, <1>6, <2>0, <2>1, <2>2, <2>4 DEF EntryShape, StatementFails, Discard
  <2>6. ResolvedIsWhole'
    BY <1>0, <2>0, <2>1, <2>2 DEF ResolvedIsWhole, EntryShape
  <2> QED BY <2>4, <2>5, <2>6 DEF EntryInv, WorksOnWholeSchema
<1>7. CASE UNCHANGED entryVars
  BY <1>7, <1>0 DEF entryVars, EntryInv, EntryShape, ResolvedIsWhole, WorksOnWholeSchema
<1> QED BY <1>1, <1>2, <1>3, <1>4, <1>5, <1>6, <1>7 DEF EntryNext

(* A step of the service is a step of one workload that leaves the others' state alone. *)
LEMMA ServiceStep ==
  [Next]_vars => /\ [EntryNext]_entryVars
                 /\ [CutoverNext]_cutoverVars
                 /\ [UsageNext]_usageVars
BY DEF Next, vars

(* WorksOnWholeSchema: however many isolates migrate the control database at once, and
   whichever statements fail, no handler works before the last statement took effect, and a
   failure reaches only those who waited on the attempt that failed. *)
THEOREM HandlersFindWholeSchema == Spec => []WorksOnWholeSchema
<1>1. Init => EntryInv
  <2> SUFFICES ASSUME Init PROVE EntryInv
    OBVIOUS
  <2>1. Nobody \in AtRest /\ Fresh \in Promises
    BY EntryAssumption DEF Nobody, AtRest, Fresh, Promises, EntryAssumption
  <2> QED BY <2>1 DEF Init, EntryInit, EntryInv, EntryShape, ResolvedIsWhole, WorksOnWholeSchema, Nobody, Fresh
<1>2. EntryInv /\ [Next]_vars => EntryInv'
  BY ServiceStep, KeepsEntryInv
<1>3. EntryInv => WorksOnWholeSchema
  BY DEF EntryInv
<1> QED BY <1>1, <1>2, <1>3, PTL DEF Spec

-----------------------------------------------------------------------------
(* The cut-over of the Root ledger. *)

LegacyLedger == [sum : Nat, revision : Nat, events : SUBSET Req, requests : SUBSET Req]
RootTables == [sum : Nat, revision : Nat, events : SUBSET Req, requests : SUBSET Req, checkpoint : Nat]
StageName == Stage \cup {"none", "inspect", "recover", "clear", "unfreeze", "unfence", "stopped"}
Outcome == {"none", "already", "forwardFix", "noMutation", "complete", "killed", "preserved", "restored"}
JobState ==
  [at : StageName, owner : Nat, empty : BOOLEAN, tried : BOOLEAN, outcome : Outcome, copied : Nat]

CutoverShape ==
  /\ roots \in Nat /\ old \in LegacyLedger /\ new \in RootTables
  /\ marker \in BOOLEAN /\ deployed \in BOOLEAN
  /\ guards \in [Guard -> Nat] /\ job \in JobState
  /\ jobs \in Nat /\ (job.at # "none" => jobs # 0)
  /\ applied \in [Req -> Nat]

\* Before the marker only the old version writes; a request that took effect twice shows in
\* the revision, which a plan compares with the number of events.
BeforeMarker ==
  ~marker =>
    /\ \A r \in Req : applied[r] # 0 <=> r \in old.events
    /\ old.revision >= Cardinality(old.events)
    /\ (\E r \in Req : applied[r] > 1) => old.revision > Cardinality(old.events)
    /\ new.events = {} /\ ~deployed /\ job.outcome \notin {"complete", "already"}

\* While the new tables are filled, and for ever after the marker, the fence is up.
Fenced == marker \/ ~NewEmpty => guards[Fence] # 0

\* After the marker every request that took effect is one the new tables know.
AfterMarker ==
  marker =>
    /\ CutOverReconciled
    /\ \A r \in Req : applied[r] # 0 => r \in new.requests

\* What the job has established at each of its stages.
StageKnows ==
  /\ job.at \in {"fence", "archive", "export", "schema", "populate"} => ~marker /\ NewEmpty
  /\ job.at \in {"archive", "export", "schema", "populate", "verify", "marker", "clear", "unfreeze", "unfence"} =>
       guards[Fence] # 0
  /\ job.at \in {"verify", "marker", "clear", "unfreeze", "unfence"} => ~marker
  /\ job.at \in {"schema", "populate", "verify", "marker"} =>
       old.requests = old.events /\ \A r \in Req : applied[r] <= 1
  /\ job.at = "marker" => new.sum = roots /\ new.requests = old.requests
  /\ job.at = "verified" => marker
  /\ job.at \in {"unfreeze", "unfence"} => NewEmpty

CutoverInv == CutoverShape /\ BeforeMarker /\ Fenced /\ AfterMarker /\ StageKnows

LEMMA JobMoves ==
  ASSUME CutoverShape
  PROVE  /\ \A s \in StageName : Goto(s) =>
              job' \in JobState /\ job'.at = s /\ job'.outcome = job.outcome
         /\ \A o \in Outcome : Stop(o) =>
              job' \in JobState /\ job'.at = "stopped" /\ job'.outcome = o
BY DEF CutoverShape, JobState, Goto, Stop, StageName, Outcome, Stage

(* Steps that leave the ledgers alone keep what is known of them, if they keep the fence
   wherever it is needed and report success only with a marker. *)
LEMMA KeepsLedgers ==
  ASSUME CutoverInv, UNCHANGED <<ledgers, marker, deployed>>,
         guards'[Fence] = 0 => guards[Fence] = 0 \/ (~marker /\ NewEmpty),
         job'.outcome \in {"complete", "already"} => marker
  PROVE  BeforeMarker' /\ Fenced' /\ AfterMarker'
<1>1. UNCHANGED <<roots, old, new, applied, marker, deployed>>
  BY DEF ledgers
<1>2. BeforeMarker'
  BY <1>1 DEF CutoverInv, BeforeMarker
<1>3. Fenced'
  BY <1>1 DEF CutoverInv, Fenced, NewEmpty
<1>4. AfterMarker'
  BY <1>1 DEF CutoverInv, AfterMarker, CutOverReconciled
<1> QED BY <1>2, <1>3, <1>4

LEMMA EmptyTables == Empty \in RootTables /\ Empty.events = {}
BY DEF Empty, RootTables

LEMMA OldWriteKeeps ==
  ASSUME CutoverInv, NEW r \in Req, OldWrite(r)
  PROVE  CutoverInv'
<1>0. CutoverShape /\ BeforeMarker /\ Fenced /\ AfterMarker /\ StageKnows
  BY DEF CutoverInv
<1>1. guards[Fence] = 0
  BY CutoverAssumption DEF OldWrite, Guarded, CutoverAssumption
<1>2. ~marker /\ NewEmpty
  BY <1>0, <1>1 DEF Fenced
<1>3. old' = [sum |-> old.sum + 1, revision |-> old.revision + 1,
              events |-> old.events \cup {r}, requests |-> old.requests \cup {r}]
  BY DEF OldWrite
<1>4. /\ UNCHANGED <<new, guards, marker, deployed, job, jobs>>
      /\ roots' = roots + 1 /\ applied' = [applied EXCEPT ![r] = @ + 1]
  BY DEF OldWrite, Applied
<1>5. CutoverShape'
  <2>1. old' \in LegacyLedger
    BY <1>0, <1>3 DEF CutoverShape, LegacyLedger
  <2>2. applied' \in [Req -> Nat] /\ roots' \in Nat
    BY <1>0, <1>4 DEF CutoverShape
  <2> QED BY <1>0, <1>4, <2>1, <2>2 DEF CutoverShape
<1>6. BeforeMarker'
  <2>0. IsFiniteSet(old.events) /\ old.events \subseteq Req
    BY <1>0, CutoverAssumption, FS_Subset DEF CutoverShape, LegacyLedger, CutoverAssumption
  <2>1. old'.events = old.events \cup {r} /\ old'.revision = old.revision + 1
    BY <1>3
  <2>2. /\ Cardinality(old.events) \in Nat
        /\ Cardinality(old'.events) = IF r \in old.events THEN Cardinality(old.events)
                                      ELSE Cardinality(old.events) + 1
    BY <2>0, <2>1, FS_CardinalityType, FS_AddElement
  <2>3. old.revision \in Nat /\ \A x \in Req : applied[x] \in Nat
    BY <1>0 DEF CutoverShape, LegacyLedger
  <2>4. \A x \in Req : applied'[x] = IF x = r THEN applied[x] + 1 ELSE applied[x]
    BY <1>0, <1>4 DEF CutoverShape
  <2>5. \A x \in Req : applied[x] # 0 <=> x \in old.events
    BY <1>0, <1>2 DEF BeforeMarker
  <2>6. \A x \in Req : applied'[x] # 0 <=> x \in old'.events
    BY <2>1, <2>3, <2>4, <2>5
  <2>7. old.revision >= Cardinality(old.events)
    BY <1>0, <1>2 DEF BeforeMarker
  <2>8. (\E x \in Req : applied'[x] > 1) => old'.revision > Cardinality(old'.events)
    <3> SUFFICES ASSUME NEW x \in Req, applied'[x] > 1 PROVE old'.revision > Cardinality(old'.events)
      OBVIOUS
    <3>1. CASE r \in old.events
      BY <2>1, <2>2, <2>3, <2>7, <3>1
    <3>2. CASE r \notin old.events
      <4>1. applied[r] = 0
        BY <2>5, <3>2
      <4>2. applied[x] > 1
        BY <2>3, <2>4, <4>1
      <4>3. old.revision > Cardinality(old.events)
        BY <1>0, <1>2, <4>2 DEF BeforeMarker
      <4> QED BY <2>1, <2>2, <2>3, <3>2, <4>3
    <3> QED BY <3>1, <3>2
  <2>9. old'.revision >= Cardinality(old'.events)
    BY <2>1, <2>2, <2>3, <2>7
  <2> QED BY <1>0, <1>2, <1>4, <2>6, <2>8, <2>9 DEF BeforeMarker
<1>7. Fenced' /\ AfterMarker'
  BY <1>2, <1>4 DEF Fenced, AfterMarker, NewEmpty
<1>8. StageKnows'
  BY <1>0, <1>1, <1>2, <1>4 DEF StageKnows, NewEmpty
<1> QED BY <1>5, <1>6, <1>7, <1>8 DEF CutoverInv

LEMMA NewWriteKeeps ==
  ASSUME CutoverInv, NEW r \in Req, NewWrite(r)
  PROVE  CutoverInv'
<1>0. CutoverShape /\ BeforeMarker /\ Fenced /\ AfterMarker /\ StageKnows
  BY DEF CutoverInv
<1>1. marker /\ deployed /\ r \notin new.requests
  BY <1>0 DEF NewWrite, BeforeMarker
<1>2. new' = [new EXCEPT !.sum = @ + 1, !.revision = @ + 1,
                         !.events = @ \cup {r}, !.requests = @ \cup {r}]
  BY DEF NewWrite
<1>3. /\ UNCHANGED <<old, guards, marker, deployed, job, jobs>>
      /\ roots' = roots + 1 /\ applied' = [applied EXCEPT ![r] = @ + 1]
  BY DEF NewWrite, Applied
<1>4. new' \in RootTables /\ new'.sum = new.sum + 1 /\ new'.requests = new.requests \cup {r}
  <2>1. new \in RootTables
    BY <1>0 DEF CutoverShape
  <2>2. new' = [sum |-> new.sum + 1, revision |-> new.revision + 1, events |-> new.events \cup {r},
                requests |-> new.requests \cup {r}, checkpoint |-> new.checkpoint]
    BY <1>2, <2>1 DEF RootTables
  <2> QED BY <2>1, <2>2 DEF RootTables
<1>5. CutoverShape'
  <2>1. applied' \in [Req -> Nat] /\ roots' \in Nat
    BY <1>0, <1>3 DEF CutoverShape
  <2> QED BY <1>0, <1>3, <1>4, <2>1 DEF CutoverShape
<1>6. AfterMarker'
  <2>1. /\ new.sum = roots /\ old.requests \subseteq new.requests
        /\ \A x \in Req : applied[x] <= 1 /\ (applied[x] # 0 => x \in new.requests)
    BY <1>0, <1>1 DEF AfterMarker, CutOverReconciled
  <2>2. \A x \in Req : applied'[x] = IF x = r THEN applied[x] + 1 ELSE applied[x]
    BY <1>0, <1>3 DEF CutoverShape
  <2>3. applied[r] = 0
    BY <1>1, <2>1
  <2>4. \A x \in Req : applied'[x] <= 1 /\ (applied'[x] # 0 => x \in new'.requests)
    BY <1>4, <2>1, <2>2, <2>3
  <2> QED BY <1>3, <1>4, <2>1, <2>4 DEF AfterMarker, CutOverReconciled
<1>7. Fenced' /\ BeforeMarker'
  BY <1>0, <1>1, <1>3 DEF Fenced, BeforeMarker
<1>8. StageKnows'
  BY <1>0, <1>1, <1>3 DEF StageKnows
<1> QED BY <1>5, <1>6, <1>7, <1>8 DEF CutoverInv

(* A plan is made only for a ledger in which every request took effect once. *)
LEMMA PlannableIsOnce ==
  ASSUME CutoverInv, ~marker, Plannable
  PROVE  old.requests = old.events /\ \A r \in Req : applied[r] <= 1
<1>1. IsFiniteSet(old.events)
  BY CutoverAssumption, FS_Subset DEF CutoverInv, CutoverShape, LegacyLedger, CutoverAssumption
<1>2. Cardinality(old.events) \in Nat
  BY <1>1, FS_CardinalityType
<1>3. ~(\E r \in Req : applied[r] > 1)
  BY <1>2 DEF CutoverInv, BeforeMarker, Plannable
<1>4. \A r \in Req : applied[r] \in Nat
  BY DEF CutoverInv, CutoverShape
<1> QED BY <1>3, <1>4 DEF Plannable

(* Steps of the job that leave the ledgers, the marker and the guards alone. *)
JobOnly ==
  \/ StartJob \/ Inspect \/ ExportAndValidate \/ CreateSchema \/ VerifyBeforeMarker
  \/ VerifyAfterMarker \/ InspectFails \/ CommandFails \/ Killed \/ RecoverInspect

LEMMA JobOnlyKeeps ==
  ASSUME CutoverInv, JobOnly
  PROVE  CutoverInv'
<1>0. CutoverShape /\ BeforeMarker /\ Fenced /\ AfterMarker /\ StageKnows
  BY DEF CutoverInv
<1>1. UNCHANGED <<roots, old, new, applied, marker, deployed, guards>>
  BY DEF JobOnly, StartJob, Inspect, ExportAndValidate, CreateSchema, VerifyBeforeMarker,
     VerifyAfterMarker, InspectFails, CommandFails, Killed, RecoverInspect, ledgers
<1> USE DEF StageName, Outcome, Stage
<1>2. ASSUME jobs' \in Nat, job' \in JobState, job'.at # "none" => jobs' # 0,
             job'.outcome \in {"complete", "already"} => marker, StageKnows'
      PROVE  CutoverInv'
  <2>1. CutoverShape'
    BY <1>0, <1>1, <1>2 DEF CutoverShape
  <2>2. BeforeMarker' /\ Fenced' /\ AfterMarker'
    BY <1>1, <1>2, KeepsLedgers DEF ledgers
  <2> QED BY <1>2, <2>1, <2>2 DEF CutoverInv
<1>3. job.outcome \in {"complete", "already"} => marker
  BY <1>0 DEF BeforeMarker
<1>a. jobs \in Nat /\ (job.at # "none" => jobs # 0)
  BY <1>0 DEF CutoverShape
(* A job that stops, or that is in a stage nothing is known of, is easy. *)
<1>4. ASSUME jobs' = jobs, job.at # "none", NEW o \in Outcome, Stop(o), o \in {"complete", "already"} => marker
      PROVE  CutoverInv'
  <2>1. job' \in JobState /\ job'.at = "stopped" /\ job'.outcome = o
    BY <1>0, <1>4, JobMoves
  <2>2. StageKnows'
    BY <2>1 DEF StageKnows
  <2> QED BY <1>2, <1>4, <1>a, <2>1, <2>2
<1>5. ASSUME jobs' = jobs, job.at # "none", NEW s \in StageName, Goto(s), StageKnows'
      PROVE  CutoverInv'
  <2>1. job' \in JobState /\ job'.at = s /\ job'.outcome = job.outcome
    BY <1>0, <1>5, JobMoves
  <2> QED BY <1>2, <1>3, <1>5, <1>a, <2>1
<1>6. ASSUME jobs' = jobs, job.at # "none", Caught PROVE CutoverInv'
  <2>1. job'.at = "recover"
    BY <1>0, <1>6, JobMoves DEF Caught
  <2>2. StageKnows'
    BY <2>1 DEF StageKnows
  <2> QED BY <1>5, <1>6, <2>2 DEF Caught
<1>7. CASE StartJob
  <2>1. job' = [NoJob EXCEPT !.at = "inspect"] /\ jobs' = jobs + 1
    BY <1>7 DEF StartJob
  <2>2. job' \in JobState /\ job'.at = "inspect" /\ job'.outcome = "none"
    BY <2>1 DEF NoJob, JobState
  <2>3. StageKnows'
    BY <2>2 DEF StageKnows
  <2> QED BY <1>2, <1>a, <2>1, <2>2, <2>3
<1>8. CASE Inspect
  <2>0. jobs' = jobs /\ job.at # "none"
    BY <1>8 DEF Inspect, At
  <2>1. CASE marker /\ Stop(IF AllGuards /\ Live THEN "already" ELSE "forwardFix")
    BY <1>4, <2>0, <2>1
  <2>2. CASE Stop("noMutation")
    BY <1>4, <2>0, <2>2
  <2>3. CASE ~marker /\ NewEmpty /\ job' = [job EXCEPT !.at = "fence", !.empty = TRUE]
    <3>1. job' \in JobState /\ job'.at = "fence" /\ job'.outcome = job.outcome
      BY <1>0, <2>3 DEF CutoverShape, JobState
    <3>2. StageKnows'
      BY <1>1, <2>3, <3>1 DEF StageKnows, NewEmpty
    <3> QED BY <1>2, <1>3, <1>a, <2>0, <3>1, <3>2
  <2> QED BY <1>8, <2>1, <2>2, <2>3 DEF Inspect
<1>9. CASE ExportAndValidate
  <2>0. jobs' = jobs /\ job.at = "export"
    BY <1>9 DEF ExportAndValidate, At
  <2>1. CASE CandidateApplies /\ job' = [job EXCEPT !.at = "schema", !.copied = Cardinality(old.requests)]
    <3>0. IsFiniteSet(old.requests)
      BY <1>0, CutoverAssumption, FS_Subset DEF CutoverShape, LegacyLedger, CutoverAssumption
    <3>1. Cardinality(old.requests) \in Nat
      BY <3>0, FS_CardinalityType
    <3>2. job' \in JobState /\ job'.at = "schema" /\ job'.outcome = job.outcome
      BY <1>0, <2>1, <3>1 DEF CutoverShape, JobState
    <3>3. ~marker /\ NewEmpty /\ guards[Fence] # 0
      BY <1>0, <2>0 DEF StageKnows
    <3>4. old.requests = old.events /\ \A r \in Req : applied[r] <= 1
      BY <2>1, <3>3, PlannableIsOnce DEF CandidateApplies
    <3>5. StageKnows'
      BY <1>1, <3>2, <3>3, <3>4 DEF StageKnows, NewEmpty
    <3> QED BY <1>2, <1>3, <1>a, <2>0, <3>2, <3>5
  <2> QED BY <1>6, <1>9, <2>0, <2>1 DEF ExportAndValidate
<1>10. CASE CreateSchema
  <2>0. jobs' = jobs /\ job.at = "schema"
    BY <1>10 DEF CreateSchema, At
  <2>1. CASE Goto("populate")
    <3>1. job'.at = "populate"
      BY <1>0, <2>1, JobMoves
    <3>2. StageKnows'
      BY <1>0, <1>1, <2>0, <3>1 DEF StageKnows, NewEmpty
    <3> QED BY <1>5, <2>0, <2>1, <3>2
  <2> QED BY <1>6, <1>10, <2>0, <2>1 DEF CreateSchema
<1>11. CASE VerifyBeforeMarker
  <2>0. jobs' = jobs /\ job.at = "verify"
    BY <1>11 DEF VerifyBeforeMarker, At
  <2>1. CASE Reconciled /\ Goto("marker")
    <3>1. job'.at = "marker"
      BY <1>0, <2>1, JobMoves
    <3>2. StageKnows'
      BY <1>0, <1>1, <2>0, <2>1, <3>1 DEF StageKnows, NewEmpty, Reconciled
    <3> QED BY <1>5, <2>0, <2>1, <3>2
  <2> QED BY <1>6, <1>11, <2>0, <2>1 DEF VerifyBeforeMarker
<1>12. CASE VerifyAfterMarker
  <2>0. jobs' = jobs /\ job.at = "verified" /\ marker
    BY <1>0, <1>12 DEF VerifyAfterMarker, At, StageKnows
  <2>1. CASE Stop("complete")
    BY <1>4, <2>0, <2>1
  <2> QED BY <1>6, <1>12, <2>0, <2>1 DEF VerifyAfterMarker
<1>13. CASE InspectFails
  <2>0. jobs' = jobs /\ job.at # "none"
    BY <1>13 DEF InspectFails, At
  <2>1. PICK o \in {"noMutation", "forwardFix"} : Stop(o)
    BY <1>13 DEF InspectFails
  <2> QED BY <1>4, <2>0, <2>1
<1>14. CASE CommandFails
  <2>1. jobs' = jobs /\ job.at # "none"
    BY <1>14 DEF CommandFails
  <2>2. job' \in JobState /\ job'.at = "recover" /\ job'.outcome = job.outcome
    BY <1>0, <1>14 DEF CommandFails, CutoverShape, JobState, At
  <2>3. StageKnows'
    BY <2>2 DEF StageKnows
  <2> QED BY <1>2, <1>3, <1>a, <2>1, <2>2, <2>3
<1>15. CASE Killed
  <2>1. jobs' = jobs /\ job.at # "none" /\ Stop("killed")
    BY <1>15 DEF Killed, Running
  <2> QED BY <1>4, <2>1
<1>16. CASE RecoverInspect
  <2>0. jobs' = jobs /\ job.at # "none"
    BY <1>16 DEF RecoverInspect, At
  <2>1. ASSUME NEW o \in {"forwardFix", "noMutation", "preserved"}, Stop(o) PROVE CutoverInv'
    BY <1>4, <2>0, <2>1
  <2>2. ASSUME ~Published, Owned(Fence), Goto("clear") PROVE CutoverInv'
    <3>1. job'.at = "clear"
      BY <1>0, <2>2, JobMoves
    <3>2. ~marker /\ guards[Fence] # 0
      BY <2>2 DEF Published, Owned
    <3>3. StageKnows'
      BY <1>1, <3>1, <3>2 DEF StageKnows
    <3> QED BY <1>5, <2>0, <2>2, <3>3
  <2> QED BY <1>16, <2>1, <2>2 DEF RecoverInspect
<1> QED BY <1>7, <1>8, <1>9, <1>10, <1>11, <1>12, <1>13, <1>14, <1>15, <1>16 DEF JobOnly

(* Steps that set or lift guards, and the deployment. *)
LEMMA GuardStepKeeps ==
  ASSUME CutoverInv, FenceWriters \/ Archive \/ ArchiveCut \/ RecoverUnfreeze \/ RecoverUnfence
  PROVE  CutoverInv'
<1>0. CutoverShape /\ BeforeMarker /\ Fenced /\ AfterMarker /\ StageKnows
  BY DEF CutoverInv
<1>1. UNCHANGED <<roots, old, new, applied, marker, deployed, jobs>>
  BY DEF FenceWriters, Archive, ArchiveCut, RecoverUnfreeze, RecoverUnfence, ledgers
<1>2. jobs \in Nat /\ jobs # 0
  BY <1>0 DEF CutoverShape, FenceWriters, Archive, ArchiveCut, RecoverUnfreeze, RecoverUnfence, At
<1>3. ASSUME guards' \in [Guard -> Nat], job' \in JobState,
             guards'[Fence] = 0 => guards[Fence] = 0 \/ (~marker /\ NewEmpty),
             job'.outcome \in {"complete", "already"} => marker, StageKnows'
      PROVE  CutoverInv'
  <2>1. CutoverShape'
    BY <1>0, <1>1, <1>2, <1>3 DEF CutoverShape
  <2>2. BeforeMarker' /\ Fenced' /\ AfterMarker'
    BY <1>1, <1>3, KeepsLedgers DEF ledgers
  <2> QED BY <1>3, <2>1, <2>2 DEF CutoverInv
<1>4. job.outcome \in {"complete", "already"} => marker
  BY <1>0 DEF BeforeMarker
<1>5. Fence \in Guard /\ guards \in [Guard -> Nat]
  BY <1>0, CutoverAssumption DEF CutoverShape, CutoverAssumption
<1> USE DEF StageName, Outcome, Stage
<1>6. CASE FenceWriters
  <2>1. job' \in JobState /\ job'.at = "archive" /\ job'.outcome = job.outcome
    BY <1>0, <1>2, <1>6 DEF FenceWriters, CutoverShape, JobState
  <2>2. guards' \in [Guard -> Nat] /\ guards'[Fence] # 0
    BY <1>2, <1>5, <1>6 DEF FenceWriters
  <2>3. StageKnows'
    BY <1>0, <1>1, <1>6, <2>1, <2>2 DEF StageKnows, FenceWriters, At, NewEmpty
  <2> QED BY <1>3, <1>4, <2>1, <2>2, <2>3
<1>7. CASE Archive
  <2>1. job' \in JobState /\ job'.at = "export" /\ job'.outcome = job.outcome
    BY <1>0, <1>7, JobMoves DEF Archive
  <2>2. guards' \in [Guard -> Nat] /\ guards'[Fence] # 0
    BY <1>2, <1>5, <1>7 DEF Archive
  <2>3. StageKnows'
    BY <1>0, <1>1, <1>7, <2>1, <2>2 DEF StageKnows, Archive, At, NewEmpty
  <2> QED BY <1>3, <1>4, <2>1, <2>2, <2>3
<1>8. CASE ArchiveCut
  <2>1. job' \in JobState /\ job'.at = "recover" /\ job'.outcome = job.outcome
    BY <1>0, <1>8, JobMoves DEF ArchiveCut
  <2>2. guards' \in [Guard -> Nat] /\ guards'[Fence] = guards[Fence]
    BY <1>2, <1>5, <1>8 DEF ArchiveCut
  <2>3. StageKnows'
    BY <2>1 DEF StageKnows
  <2> QED BY <1>3, <1>4, <2>1, <2>2, <2>3
<1>9. CASE RecoverUnfreeze
  <2>1. job' \in JobState /\ job'.at = "unfence" /\ job'.outcome = job.outcome
    BY <1>0, <1>9, JobMoves DEF RecoverUnfreeze
  <2>2. guards' \in [Guard -> Nat] /\ guards'[Fence] = guards[Fence]
    BY <1>5, <1>9 DEF RecoverUnfreeze
  <2>3. StageKnows'
    BY <1>0, <1>1, <1>9, <2>1, <2>2 DEF StageKnows, RecoverUnfreeze, At, NewEmpty
  <2> QED BY <1>3, <1>4, <2>1, <2>2, <2>3
<1>10. CASE RecoverUnfence
  <2>1. job' \in JobState /\ job'.at = "stopped" /\ job'.outcome = "restored"
    BY <1>0, <1>10, JobMoves DEF RecoverUnfence
  <2>2. guards' \in [Guard -> Nat]
    BY <1>5, <1>10 DEF RecoverUnfence
  <2>3. ~marker /\ NewEmpty
    BY <1>0, <1>10 DEF StageKnows, RecoverUnfence, At
  <2>4. StageKnows'
    BY <2>1 DEF StageKnows
  <2> QED BY <1>3, <2>1, <2>2, <2>3, <2>4
<1> QED BY <1>6, <1>7, <1>8, <1>9, <1>10

(* Before the marker the new tables hold nothing or what Populate copied. *)
LEMMA FilledTables ==
  ASSUME CutoverShape
  PROVE  Filled \in RootTables /\ Filled.events = {}
BY DEF CutoverShape, LegacyLedger, RootTables, Filled

LEMMA ClearedTables ==
  ASSUME CutoverInv, ~marker
  PROVE  Cleared = Empty
BY DEF CutoverInv, BeforeMarker, Cleared, Empty

(* Steps that change the new tables before the marker. *)
LEMMA TableStepKeeps ==
  ASSUME CutoverInv, ~marker, NEW t \in RootTables, t.events = {}, new' = t,
         UNCHANGED <<roots, old, applied, marker, deployed, jobs>>,
         guards' \in [Guard -> Nat], t # Empty => guards'[Fence] # 0,
         job' \in JobState, job.at # "none", job'.outcome \notin {"complete", "already"}, StageKnows'
  PROVE  CutoverInv'
<1>1. CutoverShape' /\ BeforeMarker'
  BY DEF CutoverInv, CutoverShape, BeforeMarker
<1>2. Fenced' /\ AfterMarker'
  BY DEF Fenced, AfterMarker, NewEmpty
<1> QED BY <1>1, <1>2 DEF CutoverInv

LEMMA PopulateKeeps ==
  ASSUME CutoverInv, Populate
  PROVE  CutoverInv'
<1>0. CutoverShape /\ BeforeMarker /\ Fenced /\ StageKnows
  BY DEF CutoverInv
<1>1. job.at = "populate" /\ ~marker /\ guards[Fence] # 0 /\ job.outcome \notin {"complete", "already"}
  BY <1>0 DEF Populate, At, StageKnows, BeforeMarker
<1>2. job' \in JobState /\ job'.at = "verify" /\ job'.outcome = job.outcome
  BY <1>0, JobMoves DEF Populate, StageName, Stage
<1>3. StageKnows'
  BY <1>0, <1>1, <1>2 DEF Populate, StageKnows
<1> QED BY <1>0, <1>1, <1>2, <1>3, FilledTables, TableStepKeeps DEF Populate, CutoverShape

LEMMA ClearKeeps ==
  ASSUME CutoverInv, RecoverClear
  PROVE  CutoverInv'
<1>0. CutoverShape /\ BeforeMarker /\ Fenced /\ StageKnows
  BY DEF CutoverInv
<1>1. job.at = "clear" /\ ~marker /\ guards[Fence] # 0 /\ job.outcome \notin {"complete", "already"}
  BY <1>0 DEF RecoverClear, At, StageKnows, BeforeMarker
<1>2. new' = Empty
  BY <1>1, ClearedTables DEF RecoverClear
<1>3. /\ job' \in JobState /\ job'.at \in {"unfreeze", "stopped"}
      /\ job'.outcome \notin {"complete", "already"}
  BY <1>0, <1>1, JobMoves DEF RecoverClear, StageName, Outcome
<1>4. StageKnows'
  BY <1>1, <1>2, <1>3 DEF RecoverClear, StageKnows, NewEmpty
<1> QED BY <1>0, <1>1, <1>2, <1>3, <1>4, EmptyTables, TableStepKeeps DEF RecoverClear, CutoverShape

LEMMA RecoveryFailsKeeps ==
  ASSUME CutoverInv, RecoveryFails
  PROVE  CutoverInv'
<1>0. CutoverShape /\ BeforeMarker /\ Fenced /\ AfterMarker /\ StageKnows
  BY DEF CutoverInv
<1>1. /\ job' \in JobState /\ job'.at = "stopped" /\ job'.outcome \in {"forwardFix", "preserved"}
  BY <1>0, JobMoves DEF RecoveryFails, Outcome
<1>2. StageKnows'
  BY <1>1 DEF StageKnows
<1>3. UNCHANGED <<roots, old, applied, marker, deployed, jobs>> /\ job.at # "none"
  BY DEF RecoveryFails
<1>4. Fence \in Guard /\ guards \in [Guard -> Nat]
  BY <1>0, CutoverAssumption DEF CutoverShape, CutoverAssumption
<1>5. guards' \in [Guard -> Nat] /\ (guards'[Fence] = guards[Fence] \/ job.at = "unfence")
  <2>1. CASE job.at = "unfreeze"
    <3> PICK s \in SUBSET (Guard \ {Fence}) : guards' = [g \in Guard |-> IF g \in s THEN 0 ELSE guards[g]]
      BY <2>1 DEF RecoveryFails, At
    <3> QED BY <1>4
  <2>2. CASE job.at = "unfence"
    BY <1>4, <2>2 DEF RecoveryFails, At
  <2>3. CASE job.at \notin {"unfreeze", "unfence"}
    BY <1>4, <2>3 DEF RecoveryFails, At
  <2> QED BY <2>1, <2>2, <2>3
<1>6. CASE marker
  <2>1. new' = new /\ guards'[Fence] = guards[Fence]
    BY <1>0, <1>5, <1>6 DEF RecoveryFails, At, StageKnows
  <2>2. BeforeMarker' /\ Fenced' /\ AfterMarker'
    BY <1>1, <1>3, <2>1, KeepsLedgers DEF ledgers
  <2>3. CutoverShape'
    BY <1>0, <1>1, <1>3, <1>5, <2>1 DEF CutoverShape
  <2> QED BY <1>2, <2>2, <2>3 DEF CutoverInv
<1>7. CASE ~marker
  <2>1. new' \in {new, Empty} /\ (job.at = "unfence" => new' = Empty)
    BY <1>0, <1>7, ClearedTables DEF RecoveryFails, At, StageKnows, NewEmpty
  <2>2. new' \in RootTables /\ new'.events = {}
    BY <1>0, <1>7, <2>1, EmptyTables DEF CutoverShape, BeforeMarker
  <2>3. new' # Empty => guards'[Fence] # 0
    BY <1>0, <1>5, <2>1 DEF Fenced, NewEmpty
  <2> QED BY <1>1, <1>2, <1>3, <1>5, <1>7, <2>2, <2>3, TableStepKeeps
<1> QED BY <1>6, <1>7

(* The marker is published over a reconciled copy of a ledger in which every request took
   effect once, and from then on the fence stays. *)
LEMMA MarkerKeeps ==
  ASSUME CutoverInv, job.at = "marker", marker' = TRUE,
         UNCHANGED <<roots, old, new, applied, guards, deployed, jobs>>,
         job' \in JobState, job'.at \in {"verified", "recover"}
  PROVE  CutoverInv'
<1>0. CutoverShape /\ BeforeMarker /\ StageKnows
  BY DEF CutoverInv
<1>1. /\ ~marker /\ guards[Fence] # 0 /\ new.sum = roots /\ new.requests = old.requests
      /\ old.requests = old.events /\ \A r \in Req : applied[r] <= 1
  BY <1>0 DEF StageKnows
<1>2. CutoverShape'
  BY <1>0 DEF CutoverShape
<1>3. AfterMarker'
  BY <1>0, <1>1 DEF AfterMarker, CutOverReconciled, BeforeMarker
<1>4. BeforeMarker' /\ Fenced' /\ StageKnows'
  BY <1>1 DEF BeforeMarker, Fenced, StageKnows
<1> QED BY <1>2, <1>3, <1>4 DEF CutoverInv

LEMMA AnswerLostKeeps ==
  ASSUME CutoverInv, AnswerLost
  PROVE  CutoverInv'
<1>0. CutoverShape /\ BeforeMarker /\ Fenced /\ AfterMarker /\ StageKnows
  BY DEF CutoverInv
<1>1. job' \in JobState /\ job'.at = "recover" /\ job'.outcome = job.outcome
  BY <1>0 DEF AnswerLost, CutoverShape, JobState, StageName, At
<1>2. UNCHANGED <<roots, old, applied, deployed, jobs>> /\ job.at # "none"
  BY DEF AnswerLost
<1>3. StageKnows'
  BY <1>1 DEF StageKnows
<1>4. CASE job.at = "marker"
  <2>1. marker' = TRUE /\ UNCHANGED <<new, guards>>
    BY <1>4 DEF AnswerLost, At
  <2> QED BY <1>1, <1>2, <1>4, <2>1, MarkerKeeps
<1>5. CASE job.at # "marker"
  <2>1. job.at \in {"fence", "schema", "populate"} /\ ~marker /\ marker' = marker
    BY <1>0, <1>5 DEF AnswerLost, At, StageKnows, CutoverShape
  <2>2. job.outcome \notin {"complete", "already"} /\ new \in RootTables /\ new.events = {}
    BY <1>0, <2>1 DEF BeforeMarker, CutoverShape
  <2>3. guards' \in [Guard -> Nat] /\ (job.at # "fence" => guards' = guards)
    BY <1>0, <1>2, CutoverAssumption DEF AnswerLost, At, CutoverShape, CutoverAssumption
  <2>4. new' \in RootTables /\ new'.events = {}
    BY <1>0, <2>2, FilledTables DEF AnswerLost, At
  <2>5. new' # Empty => guards'[Fence] # 0
    BY <1>0, <2>1, <2>3 DEF AnswerLost, At, StageKnows, NewEmpty
  <2> QED BY <1>1, <1>2, <1>3, <2>1, <2>2, <2>3, <2>4, <2>5, TableStepKeeps
<1> QED BY <1>4, <1>5

LEMMA KeepsCutoverInv == CutoverInv /\ [CutoverNext]_cutoverVars => CutoverInv'
<1> SUFFICES ASSUME CutoverInv, [CutoverNext]_cutoverVars PROVE CutoverInv'
  OBVIOUS
<1>0. CutoverShape /\ BeforeMarker /\ StageKnows
  BY DEF CutoverInv
<1>1. ASSUME NEW r \in Req, OldWrite(r) \/ NewWrite(r) PROVE CutoverInv'
  BY <1>1, OldWriteKeeps, NewWriteKeeps
<1>2. CASE PublishMarker
  <2>1. job' \in JobState /\ job'.at = "verified"
    BY <1>0, <1>2 DEF PublishMarker, CutoverShape, JobState, StageName, Stage
  <2> QED BY <1>2, <2>1, MarkerKeeps DEF PublishMarker, At, ledgers
<1>3. CASE Deploy
  <2>1. marker
    BY <1>0, <1>3 DEF Deploy, BeforeMarker
  <2>2. UNCHANGED <<roots, old, new, applied, guards, marker, job, jobs>> /\ deployed' \in BOOLEAN
    BY <1>3 DEF Deploy, ledgers
  <2>3. CutoverShape' /\ BeforeMarker'
    BY <1>0, <2>1, <2>2 DEF CutoverShape, BeforeMarker
  <2>4. Fenced' /\ AfterMarker' /\ StageKnows'
    BY <2>2 DEF CutoverInv, Fenced, AfterMarker, CutOverReconciled, StageKnows, NewEmpty
  <2> QED BY <2>3, <2>4 DEF CutoverInv
<1>4. CASE UNCHANGED cutoverVars
  <2>1. UNCHANGED <<roots, old, new, applied, guards, marker, deployed, job, jobs>>
    BY <1>4 DEF cutoverVars, ledgers
  <2> QED BY <2>1 DEF CutoverInv, CutoverShape, BeforeMarker, Fenced, AfterMarker,
           CutOverReconciled, StageKnows, NewEmpty
<1> QED BY <1>1, <1>2, <1>3, <1>4, JobOnlyKeeps, GuardStepKeeps, PopulateKeeps, ClearKeeps,
        RecoveryFailsKeeps, AnswerLostKeeps DEF CutoverNext, JobOnly

LEMMA CutoverStarts == CutoverInit => CutoverInv
<1> SUFFICES ASSUME CutoverInit PROVE CutoverInv
  OBVIOUS
<1>0. PICK s \in SUBSET Req, drift \in {0, 1}, lost \in SUBSET Req :
       /\ roots = Cardinality(s) + drift
       /\ old = [Ledger(Cardinality(s), s) EXCEPT !.requests = s \ lost]
       /\ applied = [r \in Req |-> IF r \in s THEN 1 ELSE 0]
  BY DEF CutoverInit
<1>1. new = Empty /\ marker = FALSE /\ deployed = FALSE /\ job = NoJob /\ jobs = 0
      /\ guards = [g \in Guard |-> 0]
  BY DEF CutoverInit
<1>2. IsFiniteSet(s)
  BY CutoverAssumption, FS_Subset DEF CutoverAssumption
<1>3. Cardinality(s) \in Nat
  BY <1>2, FS_CardinalityType
<1>4. old \in LegacyLedger /\ old.events = s /\ old.revision = Cardinality(s)
  <2>1. old = [sum |-> Cardinality(s), revision |-> Cardinality(s), events |-> s, requests |-> s \ lost]
    BY <1>0 DEF Ledger
  <2>2. s \in SUBSET Req /\ s \ lost \in SUBSET Req
    OBVIOUS
  <2> QED BY <1>3, <2>1, <2>2 DEF LegacyLedger
<1>5. NoJob \in JobState /\ NoJob.at = "none" /\ NoJob.outcome = "none"
  BY DEF NoJob, JobState, StageName, Outcome
<1>6. CutoverShape
  <2>1. roots \in Nat /\ applied \in [Req -> Nat] /\ guards \in [Guard -> Nat]
    BY <1>0, <1>1, <1>3
  <2>2. /\ new \in RootTables /\ marker \in BOOLEAN /\ deployed \in BOOLEAN
        /\ job \in JobState /\ jobs \in Nat /\ job.at = "none"
    BY <1>1, <1>5, EmptyTables
  <2> QED BY <1>4, <2>1, <2>2 DEF CutoverShape
<1>7. BeforeMarker
  BY <1>0, <1>1, <1>3, <1>4, <1>5, EmptyTables DEF BeforeMarker
<1>8. Fenced /\ AfterMarker /\ StageKnows
  BY <1>1, <1>5 DEF Fenced, AfterMarker, StageKnows, NewEmpty
<1> QED BY <1>6, <1>7, <1>8 DEF CutoverInv

(* CutoverSafe: with any number of jobs, writers and triggers, and with failures and kills
   anywhere, a published ledger is the old one with every request in it once, and the old
   writers never run beside a filled new ledger. *)
THEOREM CutoversAreSafe == Spec => []CutoverSafe
<1>1. Init => CutoverInv
  BY CutoverStarts DEF Init
<1>2. CutoverInv /\ [Next]_vars => CutoverInv'
  BY ServiceStep, KeepsCutoverInv
<1>3. CutoverInv => CutoverSafe
  <2> SUFFICES ASSUME CutoverInv PROVE CutoverSafe
    OBVIOUS
  <2>1. CutOverReconciled
    BY DEF CutoverInv, AfterMarker, CutOverReconciled
  <2>2. OldWritersAlone
    BY CutoverAssumption DEF CutoverInv, Fenced, OldWritersAlone, Guarded, CutoverAssumption
  <2> QED BY <2>1, <2>2 DEF CutoverSafe
<1> QED BY <1>1, <1>2, <1>3, PTL DEF Spec

-----------------------------------------------------------------------------
(* Usage accounting. *)

Database ==
  [rows : [Node -> NodeRow \cup {Null}], reserved : SUBSET Node,
   summary : [Space -> Counters \cup {Null}]]

Exact(db) == \A s \in Space : db.summary[s] = Recount(db, s)

(* Two finite sets that agree on everything but one element. *)
LEMMA OneApart ==
  ASSUME NEW A, NEW B, NEW x, IsFiniteSet(A), IsFiniteSet(B), \A y : y # x => (y \in A <=> y \in B)
  PROVE  /\ Cardinality(A) \in Nat /\ Cardinality(B) \in Nat
         /\ Cardinality(B) = Cardinality(A) + Unit(x \in B) - Unit(x \in A)
<1>1. Cardinality(A) \in Nat /\ Cardinality(B) \in Nat
  BY FS_CardinalityType
<1>2. CASE x \in A /\ x \notin B
  <2>1. B = A \ {x}
    BY <1>2
  <2>2. Cardinality(B) = Cardinality(A) - 1
    BY <1>2, <2>1, FS_RemoveElement
  <2> QED BY <1>1, <1>2, <2>2 DEF Unit
<1>3. CASE x \notin A /\ x \in B
  <2>1. B = A \cup {x}
    BY <1>3
  <2>2. Cardinality(B) = Cardinality(A) + 1
    BY <1>3, <2>1, FS_AddElement
  <2> QED BY <1>1, <1>3, <2>2 DEF Unit
<1>4. CASE x \in A <=> x \in B
  <2>1. A = B
    BY <1>4
  <2> QED BY <1>1, <2>1 DEF Unit
<1> QED BY <1>2, <1>3, <1>4

(* What a row, or the absence of one, adds to a column. *)
Part(row, f) == IF row = Null THEN 0 ELSE Unit(Counts(row, f))

LEMMA TallyNumbers ==
  ASSUME NEW db \in Database, NEW s
  PROVE  /\ Tally(db, s) \in [Field -> Nat]
         /\ Tally(db, s) \in Counters /\ Tally(db, s) # Null
         /\ Tally(db, s)["reserved"] = Cardinality(Holding(db, s))
         /\ \A f \in Field : f # "reserved" => Tally(db, s)[f] = Cardinality(Counting(db, s, f))
         /\ IsFiniteSet(Holding(db, s)) /\ \A f : IsFiniteSet(Counting(db, s, f))
<1>1. IsFiniteSet(Holding(db, s))
  <2>1. Holding(db, s) \subseteq Node
    BY DEF Holding, Database
  <2> QED BY <2>1, UsageAssumption, FS_Subset DEF UsageAssumption
<1>2. ASSUME NEW f PROVE IsFiniteSet(Counting(db, s, f))
  <2>1. Counting(db, s, f) \subseteq Node
    BY DEF Counting
  <2> QED BY <2>1, UsageAssumption, FS_Subset DEF UsageAssumption
<1>3. Cardinality(Holding(db, s)) \in Nat /\ \A f : Cardinality(Counting(db, s, f)) \in Nat
  BY <1>1, <1>2, FS_CardinalityType
<1>4. "reserved" \in Field
  BY DEF Field
<1>5. Tally(db, s) \in [Field -> Nat] /\ Tally(db, s)["reserved"] = Cardinality(Holding(db, s))
      /\ \A f \in Field : f # "reserved" => Tally(db, s)[f] = Cardinality(Counting(db, s, f))
  BY <1>3, <1>4 DEF Tally
<1>6. Tally(db, s) \in Counters
  BY <1>5 DEF Counters
<1> QED BY <1>1, <1>2, <1>5, <1>6, NullAssumption DEF NullAssumption

(* A Space without rows and reservations has a tally of zeros, and no other has. *)
LEMMA EmptyTally ==
  ASSUME NEW db \in Database, NEW s
  PROVE  /\ Tidy(Tally(db, s)) = Null => Tally(db, s) = Zero
         /\ Tidy(Tally(db, s)) # Null => Tidy(Tally(db, s)) = Tally(db, s)
<1>1. ASSUME Tidy(Tally(db, s)) = Null PROVE Tally(db, s) = Zero
  <2>1. Tally(db, s)["nodes"] = 0 /\ Tally(db, s)["reserved"] = 0
    BY <1>1, TallyNumbers DEF Tidy
  <2>2. Counting(db, s, "nodes") = {}
    <3>1. Tally(db, s)["nodes"] = Cardinality(Counting(db, s, "nodes"))
      BY TallyNumbers DEF Field
    <3> QED BY <2>1, <3>1, TallyNumbers, FS_EmptySet
  <2>3. \A f : Counting(db, s, f) \subseteq Counting(db, s, "nodes")
    BY DEF Counting, Counts
  <2>4. \A f \in Field : f # "reserved" => Tally(db, s)[f] = 0
    BY <2>2, <2>3, TallyNumbers, FS_EmptySet
  <2>5. \A f \in Field : Tally(db, s)[f] = 0
    BY <2>1, <2>4
  <2> QED BY <2>5, TallyNumbers DEF Zero
<1> QED BY <1>1 DEF Tidy

LEMMA TallyOfRow ==
  ASSUME NEW db \in Database, NEW e \in Database, NEW n \in Node, e.reserved = db.reserved,
         \A m \in Node : m # n => e.rows[m] = db.rows[m]
  PROVE  /\ \A s \in Space : s # n[1] => Tally(e, s) = Tally(db, s)
         /\ \A f \in Field : Tally(e, n[1])[f] = Tally(db, n[1])[f] + Part(e.rows[n], f) - Part(db.rows[n], f)
<1>1. \A s : Holding(e, s) = Holding(db, s)
  BY DEF Holding
<1>2. ASSUME NEW s \in Space, s # n[1] PROVE Tally(e, s) = Tally(db, s)
  <2>1. \A f : Counting(e, s, f) = Counting(db, s, f)
    BY <1>2 DEF Counting
  <2> QED BY <1>1, <2>1 DEF Tally
<1>3. ASSUME NEW f \in Field
      PROVE  Tally(e, n[1])[f] = Tally(db, n[1])[f] + Part(e.rows[n], f) - Part(db.rows[n], f)
  <2>1. CASE f = "reserved"
    <3>1. Part(e.rows[n], f) = 0 /\ Part(db.rows[n], f) = 0
      BY <2>1 DEF Part, Counts, Unit
    <3>2. Tally(e, n[1])[f] = Tally(db, n[1])[f] /\ Tally(db, n[1])[f] \in Nat
      BY <1>1, <2>1, TallyNumbers
    <3> QED BY <3>1, <3>2
  <2>2. CASE f # "reserved"
    <3> DEFINE A == Counting(db, n[1], f)
               B == Counting(e, n[1], f)
    <3>1. IsFiniteSet(A) /\ IsFiniteSet(B) /\ Tally(db, n[1])[f] = Cardinality(A) /\ Tally(e, n[1])[f] = Cardinality(B)
      BY <2>2, TallyNumbers
    <3>2. \A m : m # n => (m \in A <=> m \in B)
      BY DEF Counting
    <3>3. Unit(n \in A) = Part(db.rows[n], f) /\ Unit(n \in B) = Part(e.rows[n], f)
      BY DEF Counting, Part, Unit
    <3> HIDE DEF A, B
    <3> QED BY <3>1, <3>2, <3>3, OneApart
  <2> QED BY <2>1, <2>2
<1> QED BY <1>2, <1>3

LEMMA TallyOfReservation ==
  ASSUME NEW db \in Database, NEW e \in Database, NEW n \in Node, e.rows = db.rows,
         \A m \in Node : m # n => (m \in e.reserved <=> m \in db.reserved)
  PROVE  /\ \A s \in Space : s # n[1] => Tally(e, s) = Tally(db, s)
         /\ \A f \in Field : f # "reserved" => Tally(e, n[1])[f] = Tally(db, n[1])[f]
         /\ Tally(e, n[1])["reserved"]
              = Tally(db, n[1])["reserved"] + Unit(n \in e.reserved) - Unit(n \in db.reserved)
<1>1. \A s, f : Counting(e, s, f) = Counting(db, s, f)
  BY DEF Counting
<1>2. ASSUME NEW s \in Space, s # n[1] PROVE Tally(e, s) = Tally(db, s)
  <2>1. Holding(e, s) = Holding(db, s)
    BY <1>2 DEF Holding, Database
  <2> QED BY <1>1, <2>1 DEF Tally
<1>3. \A f \in Field : f # "reserved" => Tally(e, n[1])[f] = Tally(db, n[1])[f]
  BY <1>1, TallyNumbers
<1>4. Tally(e, n[1])["reserved"]
              = Tally(db, n[1])["reserved"] + Unit(n \in e.reserved) - Unit(n \in db.reserved)
  <2> DEFINE A == Holding(db, n[1])
             B == Holding(e, n[1])
  <2>1. IsFiniteSet(A) /\ IsFiniteSet(B) /\ Tally(db, n[1])["reserved"] = Cardinality(A)
        /\ Tally(e, n[1])["reserved"] = Cardinality(B)
    BY TallyNumbers
  <2>2. \A m : m # n => (m \in A <=> m \in B)
    BY DEF Holding, Database
  <2>3. Unit(n \in A) = Unit(n \in db.reserved) /\ Unit(n \in B) = Unit(n \in e.reserved)
    BY DEF Holding, Unit
  <2> HIDE DEF A, B
  <2> QED BY <2>1, <2>2, <2>3, OneApart
<1> QED BY <1>2, <1>3, <1>4

(* An exact summary counts what the tables hold, and a missing one counts nothing. *)
LEMMA ExactCounts ==
  ASSUME NEW db \in Database, Exact(db), NEW s \in Space
  PROVE  /\ Counted(db, s) = Tally(db, s)
         /\ HasSummary(db, s) => db.summary[s] = Tally(db, s)
BY EmptyTally DEF Exact, Recount, Counted, HasSummary

LEMMA NodeSpace == \A n \in Node : n[1] \in Space
BY UsageAssumption DEF UsageAssumption

LEMMA ShareIs ==
  ASSUME NEW row \in NodeRow
  PROVE  Share(row) \in [Field -> {0, 1}] /\ \A f \in Field : Share(row)[f] = Part(row, f)
BY NullAssumption DEF Share, Part, Unit, NullAssumption

LEMMA CounterSums ==
  ASSUME NEW u \in Counters, NEW v \in Counters
  PROVE  /\ Plus(u, v) \in Counters /\ Less(u, v) \in Counters /\ Zero \in Counters
         /\ \A f \in Field : Plus(u, v)[f] = u[f] + v[f] /\ Less(u, v)[f] = u[f] - v[f]
BY DEF Plus, Less, Counters, Zero

LEMMA SharesCount == \A row \in NodeRow : Share(row) \in Counters
BY ShareIs DEF Counters

(* Two sets of counters are equal when they agree on every column. *)
LEMMA SameCounters ==
  ASSUME NEW u \in Counters, NEW v \in Counters, \A f \in Field : u[f] = v[f]
  PROVE  u = v
BY DEF Counters

LEMMA CountedIs ==
  ASSUME NEW db \in Database, NEW s \in Space
  PROVE  Counted(db, s) \in Counters
<1>1. Zero \in Counters
  BY DEF Zero, Counters
<1> QED BY <1>1 DEF Counted, HasSummary, Database

(* A statement that replaces a row and the summary of its Space. *)
Rewrites(db, e, n, row, u) ==
  /\ e \in Database /\ e.reserved = db.reserved
  /\ e.rows[n] = row /\ e.summary[n[1]] = u
  /\ \A m \in Node : m # n => e.rows[m] = db.rows[m]
  /\ \A s \in Space : s # n[1] => e.summary[s] = db.summary[s]

LEMMA RowStatement ==
  ASSUME NEW db \in Database, NEW n \in Node, NEW row \in NodeRow \cup {Null},
         NEW u \in Counters \cup {Null}, NEW e, e = [db EXCEPT !.rows[n] = row, !.summary[n[1]] = u]
  PROVE  Rewrites(db, e, n, row, u)
<1>1. n[1] \in Space
  BY NodeSpace
<1>2. PICK rows, summary : rows = [db.rows EXCEPT ![n] = row] /\ summary = [db.summary EXCEPT ![n[1]] = u]
  OBVIOUS
<1>3. rows \in [Node -> NodeRow \cup {Null}] /\ rows[n] = row /\ \A m \in Node : m # n => rows[m] = db.rows[m]
  BY <1>2 DEF Database
<1>4. summary \in [Space -> Counters \cup {Null}] /\ summary[n[1]] = u
      /\ \A s \in Space : s # n[1] => summary[s] = db.summary[s]
  <2> HIDE DEF Counters
  <2> QED BY <1>1, <1>2 DEF Database
<1>5. e = [rows |-> rows, reserved |-> db.reserved, summary |-> summary]
  BY <1>2 DEF Database
<1>6. e.rows = rows /\ e.reserved = db.reserved /\ e.summary = summary
  <2>1. \A x, r : x = [rows |-> rows, reserved |-> r, summary |-> summary] =>
          x.rows = rows /\ x.reserved = r /\ x.summary = summary
    OBVIOUS
  <2> QED BY <1>5, <2>1, Zenon
<1>7. e \in Database
  BY <1>3, <1>4, <1>5 DEF Database
<1> QED BY <1>3, <1>4, <1>6, <1>7 DEF Rewrites

LEMMA RowStatementExact ==
  ASSUME NEW db \in Database, Exact(db), NEW n \in Node, NEW row \in NodeRow \cup {Null},
         NEW u \in Counters \cup {Null}, NEW e, e = [db EXCEPT !.rows[n] = row, !.summary[n[1]] = u],
         u = Tidy(Tally(e, n[1]))
  PROVE  Exact(e)
<1>1. e \in Database /\ e.reserved = db.reserved /\ e.summary[n[1]] = u
      /\ (\A m \in Node : m # n => e.rows[m] = db.rows[m])
      /\ \A s \in Space : s # n[1] => e.summary[s] = db.summary[s]
  <2>1. Rewrites(db, e, n, row, u)
    BY RowStatement
  <2> QED BY <2>1 DEF Rewrites
<1>2. \A s \in Space : s # n[1] => Tally(e, s) = Tally(db, s)
  BY <1>1, TallyOfRow
<1> QED BY <1>1, <1>2 DEF Exact, Recount

LEMMA InsertRowKeeps ==
  ASSUME NEW db \in Database, NEW n \in Node, db.rows[n] = Null, NEW row \in NodeRow
  PROVE  /\ InsertRow(db, n, row) \in Database
         /\ InsertRow(db, n, row).reserved = db.reserved
         /\ HasSummary(InsertRow(db, n, row), n[1])
         /\ Exact(db) => Exact(InsertRow(db, n, row))
<1> DEFINE u == Plus(Counted(db, n[1]), Share(row))
           e == InsertRow(db, n, row)
<1>1. n[1] \in Space /\ u \in Counters
      /\ \A f \in Field : u[f] = Counted(db, n[1])[f] + Share(row)[f]
  BY NodeSpace, CountedIs, SharesCount, CounterSums
<1>2. e = [db EXCEPT !.rows[n] = row, !.summary[n[1]] = u]
  BY DEF InsertRow
<1> HIDE DEF u, e
<1>3. e \in Database /\ e.reserved = db.reserved /\ e.rows[n] = row /\ e.summary[n[1]] = u
      /\ \A m \in Node : m # n => e.rows[m] = db.rows[m]
  <2>1. Rewrites(db, e, n, row, u)
    BY <1>1, <1>2, RowStatement
  <2> QED BY <2>1 DEF Rewrites
<1>4. HasSummary(e, n[1])
  BY <1>1, <1>3, NullAssumption DEF HasSummary, NullAssumption
<1>5. ASSUME Exact(db) PROVE Exact(e)
  <2>1. \A f \in Field : Tally(e, n[1])[f] = Tally(db, n[1])[f] + Part(row, f) - Part(db.rows[n], f)
    BY <1>3, TallyOfRow
  <2>2. \A f \in Field : Part(db.rows[n], f) = 0
    BY DEF Part
  <2>3. \A f \in Field : u[f] = Tally(db, n[1])[f] + Part(row, f)
    BY <1>1, <1>5, ExactCounts, ShareIs
  <2>4. Tally(e, n[1]) \in Counters /\ Tally(db, n[1]) \in [Field -> Nat]
    BY <1>3, TallyNumbers
  <2>5. \A f \in Field : Tally(db, n[1])[f] \in Nat /\ Part(row, f) \in Nat
    BY <2>4, ShareIs
  <2>6. \A f \in Field : u[f] = Tally(e, n[1])[f]
    BY <2>1, <2>2, <2>3, <2>5
  <2>7. u = Tally(e, n[1])
    BY <1>1, <2>4, <2>6, SameCounters
  <2>8. u["nodes"] # 0
    <3>1. "nodes" \in Field /\ Part(row, "nodes") = 1
      BY NullAssumption DEF Field, Part, Counts, Unit, NullAssumption
    <3> QED BY <2>3, <2>5, <3>1
  <2>9. u = Tidy(Tally(e, n[1]))
    BY <2>7, <2>8 DEF Tidy
  <2> QED BY <1>1, <1>2, <1>5, <2>9, RowStatementExact
<1> QED BY <1>3, <1>4, <1>5 DEF e

LEMMA UpdateRowKeeps ==
  ASSUME NEW db \in Database, NEW n \in Node, db.rows[n] # Null, HasSummary(db, n[1]), NEW row \in NodeRow
  PROVE  /\ UpdateRow(db, n, row) \in Database
         /\ UpdateRow(db, n, row).reserved = db.reserved
         /\ HasSummary(UpdateRow(db, n, row), n[1])
         /\ Exact(db) => Exact(UpdateRow(db, n, row))
<1> DEFINE was == db.rows[n]
           v == db.summary[n[1]]
           u == Less(Plus(v, Share(row)), Share(was))
           e == UpdateRow(db, n, row)
<1>0. n[1] \in Space /\ was \in NodeRow /\ v \in Counters
  BY NodeSpace DEF Database, HasSummary
<1>1. e = [db EXCEPT !.rows[n] = row, !.summary[n[1]] = u]
  BY <1>0 DEF UpdateRow, Database
<1> HIDE DEF v, was, e
<1>2. u \in Counters /\ \A f \in Field : u[f] = v[f] + Share(row)[f] - Share(was)[f]
  <2>1. Share(row) \in Counters /\ Share(was) \in Counters
    BY <1>0, SharesCount
  <2>2. PICK t \in Counters : t = Plus(v, Share(row)) /\ \A f \in Field : t[f] = v[f] + Share(row)[f]
    BY <1>0, <2>1, CounterSums
  <2>3. u \in Counters /\ \A f \in Field : u[f] = t[f] - Share(was)[f]
    BY <2>1, <2>2, CounterSums
  <2> HIDE DEF u
  <2>4. ASSUME NEW f \in Field PROVE u[f] = v[f] + Share(row)[f] - Share(was)[f]
    <3>1. u[f] = t[f] - Share(was)[f] /\ t[f] = v[f] + Share(row)[f]
      BY <2>2, <2>3
    <3>2. v[f] \in Int /\ Share(row)[f] \in Int /\ Share(was)[f] \in Int
      BY <1>0, <2>1 DEF Counters
    <3> QED BY <3>1, <3>2
  <2> QED BY <2>3, <2>4
<1> HIDE DEF u
<1>3. e \in Database /\ e.reserved = db.reserved /\ e.rows[n] = row /\ e.summary[n[1]] = u
      /\ \A m \in Node : m # n => e.rows[m] = db.rows[m]
  <2>1. Rewrites(db, e, n, row, u)
    BY <1>1, <1>2, RowStatement
  <2> QED BY <2>1 DEF Rewrites
<1>4. HasSummary(e, n[1])
  BY <1>2, <1>3, NullAssumption DEF HasSummary, NullAssumption
<1>5. ASSUME Exact(db) PROVE Exact(e)
  <2>1. \A f \in Field : Tally(e, n[1])[f] = Tally(db, n[1])[f] + Part(row, f) - Part(was, f)
    BY <1>3, TallyOfRow DEF was
  <2>2. v = Tally(db, n[1])
    BY <1>0, <1>5, ExactCounts DEF v
  <2>3. \A f \in Field : u[f] = Tally(e, n[1])[f]
    BY <1>0, <1>2, <2>1, <2>2, ShareIs
  <2>4. Tally(e, n[1]) \in Counters
    BY <1>3, TallyNumbers
  <2>5. u = Tally(e, n[1])
    BY <1>2, <2>3, <2>4, SameCounters
  <2>6. Tally(e, n[1])["nodes"] # 0
    <3>1. n \in Counting(e, n[1], "nodes")
      BY <1>3, NullAssumption DEF Counting, Counts, NullAssumption
    <3>2. "nodes" \in Field /\ IsFiniteSet(Counting(e, n[1], "nodes"))
          /\ Tally(e, n[1])["nodes"] = Cardinality(Counting(e, n[1], "nodes"))
      BY <1>3, TallyNumbers DEF Field
    <3> QED BY <3>1, <3>2, FS_EmptySet
  <2>7. u = Tidy(Tally(e, n[1]))
    BY <2>5, <2>6 DEF Tidy
  <2> QED BY <1>1, <1>2, <1>5, <2>7, RowStatementExact
<1> QED BY <1>3, <1>4, <1>5 DEF e

LEMMA TidyCounters ==
  ASSUME NEW u \in Counters
  PROVE  Tidy(u) \in Counters \cup {Null}
BY DEF Tidy

LEMMA DeleteRowKeeps ==
  ASSUME NEW db \in Database, NEW n \in Node, db.rows[n] # Null, HasSummary(db, n[1])
  PROVE  /\ DeleteRow(db, n) \in Database
         /\ Exact(db) => Exact(DeleteRow(db, n))
<1> DEFINE was == db.rows[n]
           v == db.summary[n[1]]
           w == Less(v, Share(was))
           e == DeleteRow(db, n)
<1>0. n[1] \in Space /\ was \in NodeRow /\ v \in Counters
  BY NodeSpace DEF Database, HasSummary
<1>1. e = [db EXCEPT !.rows[n] = Null, !.summary[n[1]] = Tidy(w)]
  BY <1>0 DEF DeleteRow, Database
<1> HIDE DEF v, was, e
<1>2. w \in Counters /\ \A f \in Field : w[f] = v[f] - Share(was)[f]
  BY <1>0, SharesCount, CounterSums
<1> HIDE DEF w
<1>2a. Tidy(w) \in Counters \cup {Null}
  BY <1>2, TidyCounters
<1>3. e \in Database /\ e.reserved = db.reserved /\ e.rows[n] = Null
      /\ \A m \in Node : m # n => e.rows[m] = db.rows[m]
  <2>1. Rewrites(db, e, n, Null, Tidy(w))
    BY <1>1, <1>2a, RowStatement
  <2> QED BY <2>1 DEF Rewrites
<1>5. ASSUME Exact(db) PROVE Exact(e)
  <2>1. \A f \in Field : Tally(e, n[1])[f] = Tally(db, n[1])[f] + Part(Null, f) - Part(was, f)
    BY <1>3, TallyOfRow DEF was
  <2>2. v = Tally(db, n[1])
    BY <1>0, <1>5, ExactCounts DEF v
  <2>3. \A f \in Field : w[f] = Tally(e, n[1])[f]
    <3>1. \A f \in Field : Part(Null, f) = 0 /\ v[f] \in Int
      BY <1>0 DEF Part, Counters
    <3> QED BY <1>0, <1>2, <2>1, <2>2, <3>1, ShareIs
  <2>4. Tally(e, n[1]) \in Counters
    BY <1>3, TallyNumbers
  <2>5. Tidy(w) = Tidy(Tally(e, n[1]))
    BY <1>2, <2>3, <2>4, SameCounters
  <2> QED BY <1>1, <1>2a, <1>5, <2>5, RowStatementExact
<1> QED BY <1>3, <1>5 DEF e

(* A statement that changes the reservation of a node and the summary of its Space. *)
Reserves(db, e, n, R, u) ==
  /\ e \in Database /\ e.rows = db.rows /\ e.reserved = R /\ e.summary[n[1]] = u
  /\ \A m \in Node : m # n => (m \in e.reserved <=> m \in db.reserved)
  /\ \A s \in Space : s # n[1] => e.summary[s] = db.summary[s]

LEMMA ReservationStatement ==
  ASSUME NEW db \in Database, NEW n \in Node, NEW R \in SUBSET Node,
         \A m \in Node : m # n => (m \in R <=> m \in db.reserved),
         NEW u \in Counters \cup {Null}, NEW e, e = [db EXCEPT !.reserved = R, !.summary[n[1]] = u]
  PROVE  Reserves(db, e, n, R, u)
<1>1. n[1] \in Space
  BY NodeSpace
<1>2. PICK summary : summary = [db.summary EXCEPT ![n[1]] = u]
  OBVIOUS
<1>4. summary \in [Space -> Counters \cup {Null}] /\ summary[n[1]] = u
      /\ \A s \in Space : s # n[1] => summary[s] = db.summary[s]
  BY <1>1, <1>2 DEF Database
<1>5. e = [rows |-> db.rows, reserved |-> R, summary |-> summary]
  BY <1>2 DEF Database
<1>6. e.rows = db.rows /\ e.reserved = R /\ e.summary = summary
  <2>1. \A x, r : x = [rows |-> r, reserved |-> R, summary |-> summary] =>
          x.rows = r /\ x.reserved = R /\ x.summary = summary
    OBVIOUS
  <2> QED BY <1>5, <2>1, Zenon
<1>7. e \in Database
  <2>1. db.rows \in [Node -> NodeRow \cup {Null}]
    BY DEF Database
  <2> QED BY <1>4, <1>5, <2>1 DEF Database
<1> QED BY <1>4, <1>6, <1>7 DEF Reserves

LEMMA ReservationExact ==
  ASSUME NEW db \in Database, Exact(db), NEW n \in Node, NEW R, NEW u, NEW e, Reserves(db, e, n, R, u),
         u = Tidy(Tally(e, n[1]))
  PROVE  Exact(e)
<1>1. e \in Database /\ e.rows = db.rows /\ e.summary[n[1]] = u
      /\ (\A m \in Node : m # n => (m \in e.reserved <=> m \in db.reserved))
      /\ \A s \in Space : s # n[1] => e.summary[s] = db.summary[s]
  BY DEF Reserves
<1>2. \A s \in Space : s # n[1] => Tally(e, s) = Tally(db, s)
  BY <1>1, TallyOfReservation
<1> QED BY <1>1, <1>2 DEF Exact, Recount

(* Counters of which the reserved column changes. *)
LEMMA ReservedColumn ==
  ASSUME NEW v \in Counters, NEW k \in Int
  PROVE  /\ [v EXCEPT !.reserved = k] \in Counters
         /\ [v EXCEPT !.reserved = k]["reserved"] = k
         /\ \A f \in Field : f # "reserved" => [v EXCEPT !.reserved = k][f] = v[f]
BY DEF Counters, Field

LEMMA InsertReservationKeeps ==
  ASSUME NEW db \in Database, NEW n \in Node
  PROVE  /\ InsertReservation(db, n) \in Database
         /\ Exact(db) => Exact(InsertReservation(db, n))
<1> DEFINE v == Counted(db, n[1])
           d == Unit(n \notin db.reserved)
           u == [v EXCEPT !.reserved = v["reserved"] + d]
           e == InsertReservation(db, n)
           R == db.reserved \cup {n}
<1>0. n[1] \in Space /\ v \in Counters /\ "reserved" \in Field /\ R \in SUBSET Node
  BY NodeSpace, CountedIs DEF Field, Database
<1>1. e = [db EXCEPT !.reserved = R, !.summary[n[1]] = u]
  BY DEF InsertReservation
<1>2. d \in {0, 1} /\ v["reserved"] \in Int /\ v["reserved"] + d \in Int
  <2>1. d \in {0, 1}
    BY DEF Unit
  <2>2. v["reserved"] \in Int
    BY <1>0 DEF Counters
  <2> QED BY <2>1, <2>2
<1> HIDE DEF v, e
<1>3. u \in Counters /\ u["reserved"] = v["reserved"] + d /\ \A f \in Field : f # "reserved" => u[f] = v[f]
  BY <1>0, <1>2, ReservedColumn
<1> HIDE DEF u
<1>4. Reserves(db, e, n, R, u)
  <2>1. \A m \in Node : m # n => (m \in R <=> m \in db.reserved)
    OBVIOUS
  <2> HIDE DEF R
  <2> QED BY <1>0, <1>1, <1>3, <2>1, ReservationStatement
<1>5. ASSUME Exact(db) PROVE Exact(e)
  <2>1. v = Tally(db, n[1])
    BY <1>0, <1>5, ExactCounts DEF v
  <2>2. e \in Database /\ e.rows = db.rows /\ \A m \in Node : m # n => (m \in e.reserved <=> m \in db.reserved)
    BY <1>4 DEF Reserves
  <2>3. /\ \A f \in Field : f # "reserved" => Tally(e, n[1])[f] = Tally(db, n[1])[f]
        /\ Tally(e, n[1])["reserved"]
             = Tally(db, n[1])["reserved"] + Unit(n \in e.reserved) - Unit(n \in db.reserved)
    BY <2>2, TallyOfReservation
  <2>4. Unit(n \in e.reserved) - Unit(n \in db.reserved) = d
        /\ Unit(n \in e.reserved) = 1 /\ Unit(n \in db.reserved) \in {0, 1}
    BY <1>4 DEF Unit, Reserves
  <2>5. Tally(e, n[1]) \in Counters /\ Tally(e, n[1])["reserved"] = v["reserved"] + d
    BY <1>2, <2>1, <2>2, <2>3, <2>4, TallyNumbers
  <2>6. u = Tally(e, n[1])
    <3>1. \A f \in Field : u[f] = Tally(e, n[1])[f]
      BY <1>3, <2>1, <2>3, <2>5
    <3> QED BY <1>3, <2>5, <3>1, SameCounters
  <2>7. Tally(e, n[1])["reserved"] # 0
    <3>1. n \in Holding(e, n[1])
      BY <1>4 DEF Holding, Reserves
    <3> QED BY <2>2, <3>1, TallyNumbers, FS_EmptySet
  <2>8. u = Tidy(Tally(e, n[1]))
    BY <2>6, <2>7 DEF Tidy
  <2> QED BY <1>4, <1>5, <2>8, ReservationExact
<1>6. e \in Database
  BY <1>4 DEF Reserves
<1> QED BY <1>5, <1>6 DEF e

LEMMA DeleteReservationKeeps ==
  ASSUME NEW db \in Database, NEW n \in Node, HasSummary(db, n[1])
  PROVE  /\ DeleteReservation(db, n) \in Database
         /\ Exact(db) => Exact(DeleteReservation(db, n))
<1>1. CASE n \notin db.reserved
  BY <1>1 DEF DeleteReservation
<1>2. CASE n \in db.reserved
  <2> DEFINE v == db.summary[n[1]]
             w == [v EXCEPT !.reserved = v["reserved"] - 1]
             e == DeleteReservation(db, n)
             R == db.reserved \ {n}
  <2>0. n[1] \in Space /\ v \in Counters /\ "reserved" \in Field /\ R \in SUBSET Node
    BY NodeSpace DEF Field, Database, HasSummary
  <2>1. e = [db EXCEPT !.reserved = R, !.summary[n[1]] = Tidy(w)]
    BY <1>2 DEF DeleteReservation
  <2>2. v["reserved"] \in Int /\ v["reserved"] - 1 \in Int
    BY <2>0 DEF Counters
  <2> HIDE DEF v, e
  <2>3. w \in Counters /\ w["reserved"] = v["reserved"] - 1 /\ \A f \in Field : f # "reserved" => w[f] = v[f]
    BY <2>0, <2>2, ReservedColumn
  <2> HIDE DEF w
  <2>4. Reserves(db, e, n, R, Tidy(w))
    <3>1. \A m \in Node : m # n => (m \in R <=> m \in db.reserved)
      OBVIOUS
    <3>2. Tidy(w) \in Counters \cup {Null}
      BY <2>3, TidyCounters
    <3> HIDE DEF R
    <3> QED BY <2>0, <2>1, <3>1, <3>2, ReservationStatement
  <2>5. ASSUME Exact(db) PROVE Exact(e)
    <3>1. v = Tally(db, n[1])
      BY <2>0, <2>5, ExactCounts DEF v
    <3>2. e \in Database /\ e.rows = db.rows /\ \A m \in Node : m # n => (m \in e.reserved <=> m \in db.reserved)
      BY <2>4 DEF Reserves
    <3>3. /\ \A f \in Field : f # "reserved" => Tally(e, n[1])[f] = Tally(db, n[1])[f]
          /\ Tally(e, n[1])["reserved"]
               = Tally(db, n[1])["reserved"] + Unit(n \in e.reserved) - Unit(n \in db.reserved)
      BY <3>2, TallyOfReservation
    <3>4. Unit(n \in e.reserved) = 0 /\ Unit(n \in db.reserved) = 1
      BY <1>2, <2>4 DEF Unit, Reserves
    <3>5. Tally(e, n[1]) \in Counters /\ Tally(e, n[1])["reserved"] = v["reserved"] - 1
      BY <2>2, <3>1, <3>2, <3>3, <3>4, TallyNumbers
    <3>6. w = Tally(e, n[1])
      <4>1. \A f \in Field : w[f] = Tally(e, n[1])[f]
        BY <2>3, <3>1, <3>3, <3>5
      <4> QED BY <2>3, <3>5, <4>1, SameCounters
    <3> QED BY <2>4, <2>5, <3>6, ReservationExact
  <2>6. e \in Database
    BY <2>4 DEF Reserves
  <2> QED BY <2>5, <2>6 DEF e
<1> QED BY <1>1, <1>2

LEMMA RepairedKeeps ==
  ASSUME NEW db \in Database, NEW s
  PROVE  /\ Repaired(db, s) \in Database
         /\ Exact(db) => Exact(Repaired(db, s))
<1> DEFINE u == Recount(db, s)
           summary == [db.summary EXCEPT ![s] = u]
           e == Repaired(db, s)
<1>1. u \in Counters \cup {Null}
  BY TallyNumbers, TidyCounters DEF Recount
<1> HIDE DEF u
<1>2. summary \in [Space -> Counters \cup {Null}]
  BY <1>1 DEF Database
<1>3. \A t \in Space : summary[t] = IF t = s THEN u ELSE db.summary[t]
  BY DEF Database
<1>4. e = [rows |-> db.rows, reserved |-> db.reserved, summary |-> summary]
  BY DEF Repaired, Database, u
<1> HIDE DEF summary, e
<1>5. e \in Database
  BY <1>2, <1>4 DEF Database
<1>6. e.rows = db.rows /\ e.reserved = db.reserved /\ e.summary = summary
  BY <1>4
<1>7. \A t : Recount(e, t) = Recount(db, t)
  BY <1>6 DEF Recount, Tally, Holding, Counting
<1>8. ASSUME Exact(db) PROVE Exact(e)
  BY <1>3, <1>6, <1>7, <1>8 DEF Exact, u
<1> QED BY <1>5, <1>8 DEF e

LEMMA BackfillExact ==
  ASSUME NEW db \in Database
  PROVE  LET e == [db EXCEPT !.summary = [s \in Space |-> Recount(db, s)]]
         IN e \in Database /\ Exact(e)
<1> DEFINE summary == [s \in Space |-> Recount(db, s)]
           e == [db EXCEPT !.summary = summary]
<1>1. \A s \in Space : Recount(db, s) \in Counters \cup {Null}
  BY TallyNumbers, TidyCounters DEF Recount
<1>2. summary \in [Space -> Counters \cup {Null}] /\ \A s \in Space : summary[s] = Recount(db, s)
  <2> HIDE DEF Recount
  <2> QED BY <1>1
<1> HIDE DEF summary
<1>4. e = [rows |-> db.rows, reserved |-> db.reserved, summary |-> summary]
  BY DEF Database
<1> HIDE DEF e
<1>5. e \in Database
  BY <1>2, <1>4 DEF Database
<1>6. e.rows = db.rows /\ e.reserved = db.reserved /\ e.summary = summary
  BY <1>4
<1>7. \A t : Recount(e, t) = Recount(db, t)
  BY <1>6 DEF Recount, Tally, Holding, Counting
<1>8. Exact(e)
  BY <1>2, <1>6, <1>7 DEF Exact
<1> QED BY <1>5, <1>8 DEF e, summary

(* The rows of a set of Spaces that count in a column. *)
CountingIn(db, S, f) == {n \in Node : n[1] \in S /\ db.rows[n] # Null /\ Counts(db.rows[n], f)}

LEMMA FiniteCounting ==
  ASSUME NEW db, NEW S, NEW f
  PROVE  IsFiniteSet(CountingIn(db, S, f)) /\ Cardinality(CountingIn(db, S, f)) \in Nat
<1>1. CountingIn(db, S, f) \subseteq Node
  BY DEF CountingIn
<1> QED BY <1>1, UsageAssumption, FS_Subset, FS_CardinalityType DEF UsageAssumption

LEMMA CountingOfSpace ==
  ASSUME NEW db \in Database, NEW f \in Field, f # "reserved", NEW S, NEW s \in S,
         NEW rest, rest = S \ {s}
  PROVE  Cardinality(CountingIn(db, S, f)) = Tally(db, s)[f] + Cardinality(CountingIn(db, rest, f))
<1> DEFINE A == Counting(db, s, f)
           B == CountingIn(db, rest, f)
<1>1. CountingIn(db, S, f) = A \cup B /\ A \cap B = {}
  BY DEF CountingIn, Counting
<1>2. IsFiniteSet(A) /\ Tally(db, s)[f] = Cardinality(A) /\ Cardinality(A) \in Nat
  BY TallyNumbers, FS_CardinalityType
<1>3. IsFiniteSet(B) /\ Cardinality(B) \in Nat
  BY FiniteCounting
<1> HIDE DEF A, B
<1>4. Cardinality(A \cup B) = Cardinality(A) + Cardinality(B) - Cardinality(A \cap B)
  BY <1>2, <1>3, FS_Union
<1>5. Cardinality(A \cap B) = 0
  BY <1>1, FS_EmptySet
<1>6. Cardinality(A \cup B) = Cardinality(A) + Cardinality(B)
  BY <1>2, <1>3, <1>4, <1>5
<1> QED BY <1>1, <1>2, <1>6 DEF B

(* The sum that a read of the usage of the App returns counts every row once. *)
LEMMA SummedCounts ==
  ASSUME d1 \in Database, Exact(d1), NEW f \in Field, f # "reserved"
  PROVE  Summed(f) = Cardinality(CountingIn(d1, Space, f))
<1> DEFINE Solves(t) == t = [S \in SUBSET Space |->
             IF S = {} THEN 0
             ELSE LET s == CHOOSE x \in S : TRUE IN Counted(d1, s)[f] + t[S \ {s}]]
           count == [S \in SUBSET Space |-> Cardinality(CountingIn(d1, S, f))]
           total == CHOOSE t : Solves(t)
<1>1. Summed(f) = total[Space]
  BY DEF Summed
<1>2. \A S \in SUBSET Space : S # {} =>
        LET s == CHOOSE x \in S : TRUE
        IN s \in S /\ count[S] = Counted(d1, s)[f] + count[S \ {s}]
  <2> SUFFICES ASSUME NEW S \in SUBSET Space, S # {}
               PROVE  LET s == CHOOSE x \in S : TRUE
                      IN s \in S /\ count[S] = Counted(d1, s)[f] + count[S \ {s}]
    OBVIOUS
  <2> DEFINE s == CHOOSE x \in S : TRUE
  <2>1. s \in S
    OBVIOUS
  <2> HIDE DEF s
  <2>2. s \in Space /\ S \ {s} \in SUBSET Space /\ Counted(d1, s) = Tally(d1, s)
    BY <2>1, ExactCounts
  <2>3. count[S] = Counted(d1, s)[f] + count[S \ {s}]
    <3>0. PICK rest : rest = S \ {s}
      OBVIOUS
    <3>1. count[S] = Cardinality(CountingIn(d1, S, f)) /\ count[rest] = Cardinality(CountingIn(d1, rest, f))
      BY <2>2, <3>0
    <3>2. Cardinality(CountingIn(d1, S, f)) = Tally(d1, s)[f] + Cardinality(CountingIn(d1, rest, f))
      BY <2>1, <3>0, CountingOfSpace
    <3> QED BY <2>2, <3>0, <3>1, <3>2
  <2> QED BY <2>1, <2>3 DEF s
<1>3. count[{}] = 0
  <2>1. CountingIn(d1, {}, f) = {}
    BY DEF CountingIn
  <2> QED BY <2>1, FS_EmptySet
<1>4. Solves(count)
  <2>1. \A S \in SUBSET Space : count[S] =
          IF S = {} THEN 0
          ELSE LET s == CHOOSE x \in S : TRUE IN Counted(d1, s)[f] + count[S \ {s}]
    BY <1>2, <1>3
  <2>2. DOMAIN count = SUBSET Space /\ count = [S \in DOMAIN count |-> count[S]]
    OBVIOUS
  <2> HIDE DEF count
  <2> QED BY <2>1, <2>2
<1>5. Solves(total)
  <2> HIDE DEF Solves, count
  <2> QED BY <1>4
<1>6. \A S \in SUBSET Space : total[S] =
        IF S = {} THEN 0
        ELSE LET s == CHOOSE x \in S : TRUE IN Counted(d1, s)[f] + total[S \ {s}]
  <2> HIDE DEF total
  <2> QED BY <1>5
<1> HIDE DEF total, count
(* A smallest set on which the two differ does not exist. *)
<1>7. total[Space] = count[Space]
  <2> DEFINE R == StrictSubsetOrdering(Space)
             D == {S \in SUBSET Space : total[S] # count[S]}
  <2>2. IsWellFoundedOn(R, SUBSET Space)
    BY UsageAssumption, FS_StrictSubsetOrderingWellFounded, FS_FiniteSubsetsOfFinite DEF UsageAssumption
  <2>3. ASSUME D # {} PROVE FALSE
    <3>1. PICK S \in D : \A T \in D : <<T, S>> \notin R
      BY <2>2, <2>3, WFMin
    <3> DEFINE s == CHOOSE x \in S : TRUE
    <3>2. S # {}
      BY <1>3, <1>6, <3>1
    <3>3. s \in S /\ count[S] = Counted(d1, s)[f] + count[S \ {s}]
          /\ total[S] = Counted(d1, s)[f] + total[S \ {s}]
      BY <1>2, <1>6, <3>1, <3>2
    <3> HIDE DEF s
    <3>4. S \ {s} \in D
      BY <3>1, <3>3
    <3>5. <<S \ {s}, S>> \in R
      BY <3>1, <3>3 DEF StrictSubsetOrdering
    <3> QED BY <3>1, <3>4, <3>5
  <2> QED BY <2>3
<1> QED BY <1>1, <1>7 DEF count

(* When every row was observed, the App's nodes are the stored and the missing ones. *)
LEMMA ObservedNodesAddUp ==
  ASSUME d1 \in Database, Exact(d1), ~UsageUnavailable
  PROVE  AppUsage.nodes = AppUsage.stored + AppUsage.missing
<1> DEFINE N(f) == CountingIn(d1, Space, f)
<1>1. ASSUME NEW f \in Field, f # "reserved"
      PROVE  AppUsage[f] = Cardinality(N(f)) /\ IsFiniteSet(N(f)) /\ Cardinality(N(f)) \in Nat
  BY <1>1, SummedCounts, FiniteCounting DEF AppUsage
<1>2. "nodes" \in Field /\ "stored" \in Field /\ "missing" \in Field /\ "unobserved" \in Field
  BY DEF Field
<1>3. N("unobserved") = {}
  <2>1. AppUsage.unobserved = Cardinality(N("unobserved")) /\ IsFiniteSet(N("unobserved"))
        /\ Cardinality(N("unobserved")) \in Nat
    BY <1>1, <1>2
  <2>2. Cardinality(N("unobserved")) = 0
    BY <2>1 DEF UsageUnavailable
  <2> QED BY <2>1, <2>2, FS_EmptySet
<1>4. N("nodes") = N("stored") \cup N("missing") /\ N("stored") \cap N("missing") = {}
  BY <1>3 DEF CountingIn, Counts
<1> HIDE DEF N
<1>5. Cardinality(N("stored") \cup N("missing"))
        = Cardinality(N("stored")) + Cardinality(N("missing")) - Cardinality(N("stored") \cap N("missing"))
  BY <1>1, <1>2, FS_Union
<1>6. Cardinality(N("stored") \cap N("missing")) = 0
  BY <1>4, FS_EmptySet
<1>7. /\ AppUsage["nodes"] = Cardinality(N("nodes"))
      /\ AppUsage["stored"] = Cardinality(N("stored")) /\ Cardinality(N("stored")) \in Nat
      /\ AppUsage["missing"] = Cardinality(N("missing")) /\ Cardinality(N("missing")) \in Nat
  BY <1>1, <1>2
<1>8. Cardinality(N("stored") \cup N("missing")) = Cardinality(N("stored")) + Cardinality(N("missing"))
  BY <1>5, <1>6, <1>7
<1>9. AppUsage["nodes"] = AppUsage["stored"] + AppUsage["missing"]
  BY <1>4, <1>7, <1>8
<1> QED BY <1>9

UsageInv == d1 \in Database /\ backfilled \in BOOLEAN /\ (backfilled => Exact(d1))

LEMMA CommitNodeKeeps ==
  ASSUME UsageInv, NEW n \in Node, CommitNode(n) PROVE UsageInv'
<1> DEFINE row == [leased |-> TRUE, stored |-> 1, seen |-> TRUE]
           db == IF HasRow(n) THEN UpdateRow(d1, n, row) ELSE InsertRow(d1, n, row)
<1>1. d1 \in Database /\ (HasRow(n) <=> d1.rows[n] # Null)
  BY DEF UsageInv, HasRow
<1>2. row \in NodeRow
  BY DEF NodeRow
<1>3. d1' = DeleteReservation(db, n) /\ backfilled' = backfilled /\ (HasRow(n) => HasSummary(d1, n[1]))
  BY DEF CommitNode, Change
<1> HIDE DEF row
<1>4. db \in Database /\ HasSummary(db, n[1]) /\ (Exact(d1) => Exact(db))
  <2>1. CASE HasRow(n)
    <3>1. db = UpdateRow(d1, n, row)
      BY <2>1
    <3> QED BY <1>1, <1>2, <1>3, <2>1, <3>1, UpdateRowKeeps
  <2>2. CASE ~HasRow(n)
    <3>1. db = InsertRow(d1, n, row)
      BY <2>2
    <3> QED BY <1>1, <1>2, <2>2, <3>1, InsertRowKeeps
  <2> QED BY <2>1, <2>2
<1> HIDE DEF db
<1>5. d1' \in Database /\ (Exact(db) => Exact(d1'))
  BY <1>3, <1>4, DeleteReservationKeeps
<1>6. Exact(d1)' <=> Exact(d1')
  BY DEF Exact, Recount, Tally, Holding, Counting
<1> QED BY <1>3, <1>4, <1>5, <1>6 DEF UsageInv

LEMMA KeepsUsageInv == UsageInv /\ [UsageNext]_usageVars => UsageInv'
<1> SUFFICES ASSUME UsageInv, [UsageNext]_usageVars PROVE UsageInv'
  OBVIOUS
<1>0. d1 \in Database
  BY DEF UsageInv
<1>1. ASSUME d1' \in Database, backfilled' = backfilled, Exact(d1) => Exact(d1')
      PROVE  UsageInv'
  BY <1>1 DEF UsageInv, Exact, Recount, Tally, Holding, Counting
<1>2. ASSUME UNCHANGED <<d1, backfilled>> PROVE UsageInv'
  BY <1>0, <1>1, <1>2
<1>3. ASSUME NEW n \in Node, Reserve(n) PROVE UsageInv'
  <2>1. d1' = InsertReservation(d1, n) /\ backfilled' = backfilled
    BY <1>3 DEF Reserve, Change
  <2> QED BY <1>0, <1>1, <2>1, InsertReservationKeeps
<1>4. ASSUME NEW n \in Node, ReleaseReservation(n) PROVE UsageInv'
  <2>1. d1' = DeleteReservation(d1, n) /\ backfilled' = backfilled /\ HasSummary(d1, n[1])
    BY <1>4 DEF ReleaseReservation, Change
  <2> QED BY <1>0, <1>1, <2>1, DeleteReservationKeeps
<1>5. ASSUME Backfill PROVE UsageInv'
  <2>1. d1' = [d1 EXCEPT !.summary = [s \in Space |-> Recount(d1, s)]] /\ backfilled' = TRUE
    BY <1>5 DEF Backfill, Change
  <2>2. d1' \in Database /\ Exact(d1')
    BY <1>0, <2>1, BackfillExact
  <2> QED BY <2>1, <2>2 DEF UsageInv, Exact, Recount, Tally, Holding, Counting
<1>6. ASSUME WriteNodeObservation PROVE UsageInv'
  <2>1. PICK n : /\ backfilled' = backfilled
                 /\ \/ d1' = d1
                    \/ HasRow(n) /\ Accepted(n) /\ d1' = UpdateRow(d1, n, Observation(n))
    BY <1>6 DEF WriteNodeObservation, Change
  <2>2. CASE HasRow(n) /\ Accepted(n) /\ d1' = UpdateRow(d1, n, Observation(n))
    <3>1. n \in Node /\ d1.rows[n] # Null /\ HasSummary(d1, n[1])
      BY <2>2 DEF HasRow, Accepted
    <3>2. d1.rows[n] \in NodeRow
      BY <1>0, <3>1 DEF Database
    <3>3. Observation(n) \in NodeRow
      BY <3>2 DEF Observation, NodeRow
    <3> QED BY <1>0, <1>1, <2>1, <2>2, <3>1, <3>3, UpdateRowKeeps
  <2> QED BY <1>0, <1>1, <2>1, <2>2
<1>7. ASSUME RepairForObservation PROVE UsageInv'
  <2>1. PICK s : d1' = Repaired(d1, s) /\ backfilled' = backfilled
    BY <1>7 DEF RepairForObservation, Change
  <2> QED BY <1>0, <1>1, <2>1, RepairedKeeps
<1>8. ASSUME RepairOldestSpaceUsageProjection PROVE UsageInv'
  <2>1. backfilled' = backfilled /\ (d1' = d1 \/ \E s : d1' = Repaired(d1, s))
    BY <1>8 DEF RepairOldestSpaceUsageProjection, Change
  <2>2. CASE d1' = d1
    BY <1>0, <1>1, <2>1, <2>2
  <2>3. CASE \E s : d1' = Repaired(d1, s)
    BY <1>0, <1>1, <2>1, <2>3, RepairedKeeps
  <2> QED BY <2>1, <2>2, <2>3
<1>9. ASSUME NEW n \in Node, CollectNodeOf(n[1], n) PROVE UsageInv'
  <2>1. /\ d1' = DeleteRow(d1, n) /\ backfilled' = backfilled
        /\ d1.rows[n] # Null /\ HasSummary(d1, n[1])
    BY <1>9 DEF CollectNodeOf, Change, HasRow
  <2> QED BY <1>0, <1>1, <2>1, DeleteRowKeeps
<1>10. ASSUME \/ \E n \in Node : StoreObject(n) \/ CollectionFails(n)
              \/ StartPass \/ HeadObject \/ HeadFails
              \/ StartSweep \/ ListPage \/ FinishPage \/ (\E s \in Space : FinishSpace(s))
              \/ UNCHANGED usageVars
       PROVE  UsageInv'
  BY <1>2, <1>10 DEF StoreObject, CollectionFails, StartPass, HeadObject, HeadFails, StartSweep,
     ListPage, FinishPage, FinishSpace, usageVars
<1> QED BY <1>3, <1>4, <1>5, <1>6, <1>7, <1>8, <1>9, <1>10, CommitNodeKeeps DEF UsageNext, PassWork

(* SummaryExact: whatever the Spaces, the nodes and the rows older than the summaries are,
   the triggers keep every summary equal to a recount once the backfill ran, and the App's
   usage adds up. *)
THEOREM SummariesAreExact == Spec => []SummaryExact
<1>1. Init => UsageInv
  <2> SUFFICES ASSUME UsageInit PROVE UsageInv
    BY DEF Init
  <2>1. PICK rows : rows = [n \in Node |-> IF n \in Legacy
                      THEN [leased |-> FALSE, stored |-> Null, seen |-> FALSE] ELSE Null]
    OBVIOUS
  <2>2. rows \in [Node -> NodeRow \cup {Null}]
    BY <2>1 DEF NodeRow
  <2>3. d1 = [rows |-> rows, reserved |-> {}, summary |-> [s \in Space |-> Null]] /\ backfilled = FALSE
    BY <2>1 DEF UsageInit
  <2> QED BY <2>2, <2>3 DEF UsageInv, Database
<1>2. UsageInv /\ [Next]_vars => UsageInv'
  BY ServiceStep, KeepsUsageInv
<1>3. UsageInv => SummaryExact
  BY ObservedNodesAddUp DEF UsageInv, SummaryExact, Exact
<1> QED BY <1>1, <1>2, <1>3, PTL DEF Spec

(* The pages of the App's garbage collection. *)

SweepShape ==
  /\ sweep \in [pc : {"idle", "list", "visit", "done"}, cursor : Nat, page : SUBSET Space,
                last : Nat, more : BOOLEAN]
  /\ steady \subseteq {s \in Space : Bearing(s)}

(* What is behind the cursor was visited.  In a page, what is behind its end was visited or
   is still to come; the last page leaves nothing behind itself. *)
SweepCovers ==
  /\ sweep.pc # "idle" => \A s \in steady : s <= sweep.cursor => s \in visited
  /\ sweep.pc = "visit" =>
       \A s \in steady : s <= sweep.last \/ ~sweep.more => s \in visited \cup sweep.page
  /\ sweep.pc = "done" => steady \subseteq visited

SweepInv == SweepShape /\ SweepCovers

(* A finite set of numbers has a greatest one. *)
LEMMA GreatestOf ==
  ASSUME NEW P \in SUBSET Nat, IsFiniteSet(P), P # {}
  PROVE  Max(P) \in P /\ \A t \in P : t <= Max(P)
<1> DEFINE R == StrictSubsetOrdering(P)
           D == {S \in SUBSET P : S # {} /\ \A m \in S : \E t \in S : ~(t <= m)}
<1>1. IsWellFoundedOn(R, SUBSET P)
  BY FS_StrictSubsetOrderingWellFounded, FS_FiniteSubsetsOfFinite
<1>2. ASSUME D # {} PROVE FALSE
  <2>1. PICK S \in D : \A T \in D : <<T, S>> \notin R
    BY <1>1, <1>2, WFMin
  <2>2. PICK x \in S : TRUE
    BY <2>1
  <2>3. S \ {x} # {}
    BY <2>1, <2>2
  <2>4. <<S \ {x}, S>> \in R
    BY <2>1, <2>2 DEF StrictSubsetOrdering
  <2>5. S \ {x} \notin D
    BY <2>1, <2>4
  <2>6. PICK m \in S \ {x} : \A t \in S \ {x} : t <= m
    BY <2>1, <2>3, <2>5
  <2>7. x \in Nat /\ m \in Nat /\ \A t \in S : t \in Nat
    BY <2>1, <2>2, <2>6
  <2>8. CASE x <= m
    BY <2>1, <2>6, <2>7, <2>8
  <2>9. CASE ~(x <= m)
    <3>1. \A t \in S : t <= x
      BY <2>6, <2>7, <2>9
    <3> QED BY <2>1, <2>2, <3>1
  <2> QED BY <2>8, <2>9
<1>3. \E m \in P : \A t \in P : t <= m
  BY <1>2
<1>4. \E m \in P : \A t \in P : m >= t
  BY <1>3
<1>5. Max(P) = CHOOSE m \in P : \A t \in P : m >= t
  BY DEF Max
<1> QED BY <1>4, <1>5

(* A page is the beginning of the list, it is empty only when the list is, and it is the
   whole list when no more than a page is left. *)
LEMMA PageOfList ==
  ASSUME NEW L \in SUBSET Space
  PROVE  /\ FirstOf(L) \subseteq L
         /\ \A s \in L, t \in FirstOf(L) : s <= t => s \in FirstOf(L)
         /\ L # {} => FirstOf(L) # {}
         /\ ~(Cardinality(L) > MaxSpaces) => FirstOf(L) = L
<1> DEFINE Before(t) == {u \in L : u < t}
<1>0. L \subseteq Nat /\ IsFiniteSet(L) /\ Cardinality(L) \in Nat /\ MaxSpaces \in Nat \ {0}
  BY UsageAssumption, FS_Subset, FS_CardinalityType DEF UsageAssumption
<1>1. \A t : IsFiniteSet(Before(t)) /\ Cardinality(Before(t)) \in Nat
  BY <1>0, FS_Subset, FS_CardinalityType
<1>2. ASSUME NEW s \in L, NEW t \in FirstOf(L), s <= t PROVE s \in FirstOf(L)
  <2>1. t \in Nat /\ s \in Nat
    BY <1>0, <1>2 DEF FirstOf
  <2>2. Before(s) \subseteq Before(t)
    <3> SUFFICES ASSUME NEW u \in L, u < s PROVE u < t
      OBVIOUS
    <3>1. u \in Nat
      BY <1>0
    <3> QED BY <1>2, <2>1, <3>1
  <2>3. Cardinality(Before(t)) < MaxSpaces
    BY DEF FirstOf
  <2>4. Cardinality(Before(s)) <= Cardinality(Before(t))
    BY <1>1, <2>2, FS_Subset
  <2>5. Cardinality(Before(s)) < MaxSpaces
    BY <1>0, <1>1, <2>3, <2>4
  <2> QED BY <2>5 DEF FirstOf
<1>3. ASSUME L # {} PROVE FirstOf(L) # {}
  <2> DEFINE R == StrictSubsetOrdering(L)
             D == {Before(t) : t \in L}
  <2>1. PICK m \in L : \A t \in L : <<Before(t), Before(m)>> \notin R
    <3>1. IsWellFoundedOn(R, SUBSET L)
      BY <1>0, FS_StrictSubsetOrderingWellFounded, FS_FiniteSubsetsOfFinite
    <3>2. D \subseteq SUBSET L /\ D # {}
      BY <1>3
    <3> HIDE DEF D, R
    <3>3. PICK S \in D : \A T \in D : <<T, S>> \notin R
      BY <3>1, <3>2, WFMin
    <3> QED BY <3>3 DEF D
  <2>2. Before(m) = {}
    <3> SUFFICES ASSUME NEW u \in L, u < m PROVE FALSE
      OBVIOUS
    <3>1. u \in Nat /\ m \in Nat /\ \A x \in L : x \in Nat
      BY <1>0
    <3>2. \A x \in L : x < u => x < m
      BY <3>1
    <3>3. u \in Before(m) /\ u \notin Before(u) /\ Before(u) \subseteq Before(m)
      <4>1. ~(u < u)
        BY <3>1
      <4> QED BY <3>2, <4>1
    <3>4. <<Before(u), Before(m)>> \in R
      BY <3>3 DEF StrictSubsetOrdering
    <3> QED BY <2>1, <3>4
  <2>3. Cardinality(Before(m)) = 0
    BY <2>2, FS_EmptySet
  <2>4. Cardinality(Before(m)) < MaxSpaces
    BY <1>0, <2>3
  <2> QED BY <2>1, <2>4 DEF FirstOf
<1>4. ASSUME ~(Cardinality(L) > MaxSpaces), NEW t \in L PROVE t \in FirstOf(L)
  <2>1. Before(t) \subseteq L \ {t} /\ IsFiniteSet(L \ {t})
    BY <1>0, FS_Subset
  <2>2. Cardinality(L \ {t}) = Cardinality(L) - 1
    BY <1>0, FS_RemoveElement
  <2>3. Cardinality(Before(t)) <= Cardinality(L \ {t})
    BY <2>1, FS_Subset
  <2>4. Cardinality(Before(t)) < MaxSpaces
    BY <1>0, <1>1, <1>4, <2>2, <2>3
  <2> QED BY <2>4 DEF FirstOf
<1> QED BY <1>2, <1>3, <1>4 DEF FirstOf

LEMMA ListPageKeeps == ASSUME SweepInv, ListPage PROVE SweepInv'
<1> DEFINE L == BearingAfter(sweep.cursor)
           P == FirstOf(L)
<1>0. sweep.cursor \in Nat /\ sweep.last \in Nat /\ L \in SUBSET Space /\ P \subseteq L
  BY PageOfList DEF SweepInv, SweepShape, BearingAfter
<1>1. sweep' = [sweep EXCEPT !.pc = "visit", !.page = P, !.more = Cardinality(L) > MaxSpaces,
                             !.last = IF P = {} THEN sweep.last ELSE Max(P)]
      /\ sweep.pc = "list" /\ UNCHANGED <<d1, steady, visited>>
  BY DEF ListPage
<1>2. \A s \in steady : s \in Nat /\ (s \in L \/ s <= sweep.cursor)
  BY <1>0, UsageAssumption DEF SweepInv, SweepShape, BearingAfter, UsageAssumption
<1>3. P # {} => Max(P) \in P /\ \A t \in P : t <= Max(P)
  <2>1. P \in SUBSET Nat /\ IsFiniteSet(P)
    BY <1>0, UsageAssumption, FS_Subset DEF UsageAssumption
  <2> QED BY <2>1, GreatestOf
<1>4. P # {} => Max(P) \in Nat
  BY <1>0, <1>3, UsageAssumption DEF UsageAssumption
<1>5. ASSUME NEW s \in steady,
             s <= (IF P = {} THEN sweep.last ELSE Max(P)) \/ ~(Cardinality(L) > MaxSpaces)
      PROVE  s \in visited \cup P
  <2>1. CASE s <= sweep.cursor
    BY <1>1, <2>1 DEF SweepInv, SweepCovers
  <2>2. CASE s \in L
    <3>1. P # {}
      BY <1>0, <2>2, PageOfList
    <3>2. CASE ~(Cardinality(L) > MaxSpaces)
      BY <1>0, <2>2, <3>2, PageOfList
    <3>3. CASE s <= Max(P)
      BY <1>0, <1>3, <2>2, <3>1, <3>3, PageOfList
    <3> QED BY <1>5, <3>1, <3>2, <3>3
  <2> QED BY <1>2, <2>1, <2>2
<1> HIDE DEF L, P
<1>6a. PICK more \in BOOLEAN : more <=> Cardinality(L) > MaxSpaces
  <2>1. CASE Cardinality(L) > MaxSpaces
    BY <2>1
  <2>2. CASE ~(Cardinality(L) > MaxSpaces)
    BY <2>2
  <2> QED BY <2>1, <2>2
<1>6b. PICK last \in Nat : last = IF P = {} THEN sweep.last ELSE Max(P)
  BY <1>0, <1>4
<1>7. sweep' = [sweep EXCEPT !.pc = "visit", !.page = P, !.more = more, !.last = last]
  <2> DEFINE b == Cardinality(L) > MaxSpaces
  <2>1. b \in BOOLEAN
    OBVIOUS
  <2>2. more <=> b
    BY <1>6a
  <2>3. sweep' = [sweep EXCEPT !.pc = "visit", !.page = P, !.more = b, !.last = last]
    BY <1>1, <1>6b
  <2> HIDE DEF b
  <2>4. more = b
    BY <2>1, <2>2
  <2> QED BY <2>3, <2>4
<1>8. /\ sweep' \in [pc : {"idle", "list", "visit", "done"}, cursor : Nat, page : SUBSET Space,
                     last : Nat, more : BOOLEAN]
      /\ sweep'.pc = "visit" /\ sweep'.page = P /\ sweep'.more = more /\ sweep'.last = last
      /\ sweep'.cursor = sweep.cursor
  BY <1>0, <1>7 DEF SweepInv, SweepShape
<1>9. SweepShape'
  BY <1>1, <1>8 DEF SweepInv, SweepShape, Bearing, BearingIn, HasSummary
<1>10. SweepCovers'
  BY <1>1, <1>5, <1>6a, <1>6b, <1>8 DEF SweepInv, SweepCovers
<1> QED BY <1>9, <1>10 DEF SweepInv

LEMMA KeepsSweepInv == SweepInv /\ [UsageNext]_usageVars => SweepInv'
<1> SUFFICES ASSUME SweepInv, [UsageNext]_usageVars PROVE SweepInv'
  OBVIOUS
<1>1. ASSUME UNCHANGED <<sweep, visited>>, steady' \subseteq steady, \A s \in steady' : BearingIn(d1', s)
      PROVE  SweepInv'
  <2>1. SweepShape'
    <3>1. \A s \in steady' : s \in Space /\ Bearing(s)'
      BY <1>1 DEF SweepInv, SweepShape, Bearing, BearingIn, HasSummary
    <3> QED BY <1>1, <3>1 DEF SweepInv, SweepShape
  <2> QED BY <1>1, <2>1 DEF SweepInv, SweepCovers
<1>2. ASSUME NEW db, Change(db), UNCHANGED <<sweep, visited>> PROVE SweepInv'
  BY <1>1, <1>2 DEF Change
<1>3. ASSUME UNCHANGED <<d1, steady, sweep, visited>> PROVE SweepInv'
  BY <1>1, <1>3 DEF SweepInv, SweepShape, Bearing
<1>4. ASSUME NEW n \in Node, Reserve(n) \/ StoreObject(n) \/ CommitNode(n) \/ ReleaseReservation(n)
      PROVE  SweepInv'
  BY <1>2, <1>3, <1>4 DEF Reserve, StoreObject, CommitNode, ReleaseReservation
<1>5. ASSUME Backfill PROVE SweepInv'
  BY <1>2, <1>5 DEF Backfill
<1>6. ASSUME WriteNodeObservation PROVE SweepInv'
  BY <1>2, <1>3, <1>6 DEF WriteNodeObservation
<1>7. ASSUME RepairForObservation PROVE SweepInv'
  BY <1>2, <1>7 DEF RepairForObservation
<1>8. ASSUME RepairOldestSpaceUsageProjection PROVE SweepInv'
  BY <1>2, <1>3, <1>8 DEF RepairOldestSpaceUsageProjection
<1>9. ASSUME StartPass \/ HeadObject \/ HeadFails \/ UNCHANGED usageVars PROVE SweepInv'
  BY <1>3, <1>9 DEF StartPass, HeadObject, HeadFails, usageVars
<1>10. ASSUME NEW n \in Node, CollectNodeOf(n[1], n) PROVE SweepInv'
  BY <1>2, <1>10 DEF CollectNodeOf
<1>11. ASSUME StartSweep PROVE SweepInv'
  <2>1. steady' = {s \in Space : Bearing(s)} /\ d1' = d1
        /\ sweep' = [pc |-> "list", cursor |-> 0, page |-> {}, last |-> 0, more |-> FALSE]
    BY <1>11 DEF StartSweep
  <2>2. SweepShape'
    BY <2>1 DEF SweepShape, Bearing, BearingIn, HasSummary
  <2>3. SweepCovers'
    <3>1. \A s \in steady' : ~(s <= 0)
      BY <2>1, UsageAssumption DEF UsageAssumption
    <3> QED BY <2>1, <3>1 DEF SweepCovers
  <2> QED BY <2>2, <2>3 DEF SweepInv
<1>12. ASSUME NEW s \in Space, FinishSpace(s) PROVE SweepInv'
  <2>1. /\ sweep' = [sweep EXCEPT !.page = sweep.page \ {s}] /\ visited' = visited \cup {s}
        /\ sweep.pc = "visit" /\ UNCHANGED <<d1, steady>>
    BY <1>12 DEF FinishSpace, Visited, AtSpace
  <2>2. SweepShape'
    BY <2>1 DEF SweepInv, SweepShape, Bearing, BearingIn, HasSummary
  <2>3. sweep'.pc = "visit" /\ sweep'.page = sweep.page \ {s} /\ sweep'.more = sweep.more
        /\ sweep'.last = sweep.last /\ sweep'.cursor = sweep.cursor
    BY <2>1 DEF SweepInv, SweepShape
  <2>4. SweepCovers'
    BY <2>1, <2>3 DEF SweepInv, SweepCovers
  <2> QED BY <2>2, <2>4 DEF SweepInv
<1>13. ASSUME NEW n \in Node, CollectionFails(n) PROVE SweepInv'
  <2>1. /\ sweep' = [sweep EXCEPT !.pc = "list", !.page = {}]
        /\ sweep.pc = "visit" /\ UNCHANGED <<d1, steady, visited>>
    BY <1>13 DEF CollectionFails, AtSpace
  <2>2. SweepShape'
    BY <2>1 DEF SweepInv, SweepShape, Bearing, BearingIn, HasSummary
  <2>3. sweep'.pc = "list" /\ sweep'.cursor = sweep.cursor
    BY <2>1 DEF SweepInv, SweepShape
  <2>4. SweepCovers'
    BY <2>1, <2>3 DEF SweepInv, SweepCovers
  <2> QED BY <2>2, <2>4 DEF SweepInv
<1>14. ASSUME FinishPage PROVE SweepInv'
  <2>1. /\ sweep' = [sweep EXCEPT !.pc = IF sweep.more THEN "list" ELSE "done", !.cursor = sweep.last]
        /\ sweep.pc = "visit" /\ sweep.page = {} /\ UNCHANGED <<d1, steady, visited>>
    BY <1>14 DEF FinishPage, NextCursor
  <2>2. SweepShape'
    BY <2>1 DEF SweepInv, SweepShape, Bearing, BearingIn, HasSummary
  <2>3. sweep'.pc = (IF sweep.more THEN "list" ELSE "done") /\ sweep'.cursor = sweep.last
    BY <2>1 DEF SweepInv, SweepShape
  <2>4. SweepCovers'
    BY <2>1, <2>3 DEF SweepInv, SweepCovers
  <2> QED BY <2>2, <2>4 DEF SweepInv
<1> QED BY <1>4, <1>5, <1>6, <1>7, <1>8, <1>9, <1>10, <1>11, <1>12, <1>13, <1>14, ListPageKeeps
        DEF UsageNext, PassWork

(* SweepVisitsSteady: with pages of any length, and while uploads, collections and failed
   pages change the list, a sweep that is over visited every Space that had usage all the
   while. *)
THEOREM SweepsVisitSteadySpaces == Spec => []SweepVisitsSteady
<1>1. Init => SweepInv
  BY DEF Init, UsageInit, SweepInv, SweepShape, SweepCovers
<1>2. SweepInv /\ [Next]_vars => SweepInv'
  BY ServiceStep, KeepsSweepInv
<1>3. SweepInv => SweepVisitsSteady
  BY DEF SweepInv, SweepCovers, SweepVisitsSteady
<1> QED BY <1>1, <1>2, <1>3, PTL DEF Spec

=============================================================================
