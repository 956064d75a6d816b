----------------------------- MODULE WorkerEntry -----------------------------
(***************************************************************************)
(* The worker's entry point.  Every isolate keeps, for its environment, the *)
(* promise of the control schema migration and the promise of the admin    *)
(* handler; requests and scheduled runs of the isolate wait on the same    *)
(* promises.  The migration is a list of idempotent statements that two    *)
(* isolates may execute at the same time on one control database.          *)
(***************************************************************************)
EXTENDS Naturals, FiniteSets

CONSTANTS
    Isolate,
    Entrance,          \* the requests and scheduled runs in flight at a time
    Visit,             \* the requests made: records of path, get, own, page, legacy
    Statements,        \* how many statements migrateControlSchema executes
    IssuerStatement,   \* the one that creates the issuer registry
    MaxTroubles        \* bound: failed statements, failed tasks, lost isolates

ASSUME EntryAssumption ==
    /\ Statements \in Nat \ {0} /\ IssuerStatement \in 1..Statements
    /\ MaxTroubles \in Nat

VARIABLES
    tables,      \* how many of the statements have taken effect
    isolate,     \* per isolate: the statement being executed, the two promises
    entry,       \* per entrance: what it is and how far it is
    troubles

entryVars == <<tables, isolate, entry, troubles>>

\* The scheduled run's tasks in order: challenges pruned, sessions pruned,
\* usage observed, one usage summary repaired.
Tasks == 4

Fresh == [state |-> "none", at |-> 0, handler |-> FALSE]

Nobody == [phase |-> "idle"]

------------------------------------------------------------------------------
(* Routing. *)

RouteOwner(path) ==
    CASE path \in {"root", "stacks", "appAdmin", "console"} -> "admin"
      [] path \in {"mcp", "metadata", "oauthBrowser", "oauthToken", "oauthOther"} -> "mcp"
      [] path \in {"health", "space", "wellKnown"} -> "cas"
      [] OTHER -> "nobody"

\* v.own: the URL's origin is the one configured for the owner of its path.
OffOrigin(v) == RouteOwner(v.path) # "nobody" /\ ~v.own

\* What handleFetch does with a request before it waits for anything: an
\* answer, or the work it goes on with.
Routed(v) ==
    IF OffOrigin(v) THEN "notFound"
    ELSE IF v.path = "root" /\ v.get THEN "redirect"
    ELSE IF v.path = "health" /\ v.get THEN "healthy"
    ELSE IF v.path = "stacks" THEN "notFound"
    ELSE IF v.path = "space" THEN "authorize"
    ELSE IF v.path \in {"appAdmin", "console"} THEN "admin"
    ELSE IF v.path = "mcp" THEN IF v.page = "foreign" THEN "forbidden" ELSE "mcp"
    ELSE IF v.path \in {"metadata", "oauthBrowser", "oauthToken"} THEN "mcp"
    ELSE "notFound"

Answers == {"notFound", "redirect", "healthy", "forbidden"}

------------------------------------------------------------------------------
(* The promises of an isolate. *)

\* ensureControlSchema: the promise that is there, or a new migration.
Ensured(s) == IF s.state = "none" THEN [s EXCEPT !.state = "running", !.at = 1] ELSE s

\* adminHandlerFor: an unsampled request takes the handler that is there; the
\* handler is built once the schema is, so both are waited for together.
Handled(s, sampled) == IF sampled THEN Ensured(s) ELSE [Ensured(s) EXCEPT !.handler = TRUE]

\* Mutant: a rejected migration stays in the map.
RejectedKept(s) == [s EXCEPT !.state = "rejected"]

\* A rejected migration is forgotten, and with it the handler built on it.
Rejected(s) == Fresh

\* Waiting on a promise: it may have settled already.
Awaiting(s) ==
    CASE s.state = "done" -> "work"
      [] s.state = "rejected" -> "failed"
      [] OTHER -> "wait"

\* The entrances of isolate i that wait for its migration.
WaitingIn(i) == {e \in Entrance : entry[e].phase = "wait" /\ entry[e].in = i}

\* An entrance of kind k begins to wait in isolate i, whose promises become s.
\* hurt: a statement of the migration it waits for failed.  whole: the schema
\* was complete when its work began.
Enters(e, i, k, s) ==
    /\ isolate' = [isolate EXCEPT ![i] = s]
    /\ entry' = [entry EXCEPT ![e] = [phase |-> Awaiting(s), in |-> i, kind |-> k, task |-> 1,
                                      hurt |-> FALSE, whole |-> tables = Statements]]

------------------------------------------------------------------------------
(* Requests. *)

Arrive(e, i) ==
    /\ entry[e].phase = "idle"
    /\ \E v \in Visit, sampled \in BOOLEAN :
          LET r == Routed(v) IN
          \/ /\ r \in Answers
             /\ entry' = [entry EXCEPT ![e] = [phase |-> r]]
             /\ UNCHANGED isolate
          \/ r = "admin" /\ Enters(e, i, "admin", Handled(isolate[i], sampled))
          \/ r = "mcp" /\ Enters(e, i, "mcp", Ensured(isolate[i]))
          \/ /\ r = "authorize"
             /\ entry' = [entry EXCEPT ![e] = [phase |-> "authorize", in |-> i, legacy |-> v.legacy]]
             /\ UNCHANGED isolate
    /\ UNCHANGED <<tables, troubles>>

\* A capability is verified against the issuer registry.
Verifiable == tables >= IssuerStatement

\* Any error of the verification, the missing registry included, is a refusal.
Unauthorized(e) == entry' = [entry EXCEPT ![e] = [phase |-> "unauthorized"]]

\* The capability of a Space request is verified without waiting for the schema.
Authorize(e) ==
    /\ entry[e].phase = "authorize"
    /\ \/ Unauthorized(e)
       \/ Verifiable /\ entry' = [entry EXCEPT ![e].phase = "dispatch"]
    /\ UNCHANGED <<tables, isolate, troubles>>

\* The request goes to the object of its Space, unless it leases with the
\* retired headers or without a JSON body.
Dispatch(e) ==
    /\ entry[e].phase = "dispatch"
    /\ entry' = [entry EXCEPT ![e] = [phase |-> IF entry[e].legacy THEN "invalid" ELSE "actor"]]
    /\ UNCHANGED <<tables, isolate, troubles>>

\* The scheduled trigger starts a run in some isolate.
Scheduled(e, i) ==
    /\ entry[e].phase = "idle"
    /\ Enters(e, i, "scheduled", Ensured(isolate[i]))
    /\ UNCHANGED <<tables, troubles>>

\* The admin or MCP handler does its work; a scheduled run does its next task.
Work(e) ==
    /\ entry[e].phase = "work"
    /\ entry' = [entry EXCEPT ![e] =
                    IF @.kind = "scheduled" /\ @.task < Tasks
                    THEN [entry[e] EXCEPT !.task = entry[e].task + 1]
                    ELSE [entry[e] EXCEPT !.phase = "served"]]
    /\ UNCHANGED <<tables, isolate, troubles>>

\* A task fails: the run ends, and the tasks after it wait for the next one.
TaskFails(e) ==
    /\ entry[e].phase = "work" /\ entry[e].kind = "scheduled"
    /\ troubles < MaxTroubles /\ troubles' = troubles + 1
    /\ entry' = [entry EXCEPT ![e].phase = "failed", ![e].hurt = TRUE]
    /\ UNCHANGED <<tables, isolate>>

\* The answer is delivered.
Leave(e) ==
    /\ entry[e].phase \notin {"idle", "wait", "work", "authorize", "dispatch"}
    /\ entry' = [entry EXCEPT ![e] = Nobody]
    /\ UNCHANGED <<tables, isolate, troubles>>

------------------------------------------------------------------------------
(* The migration. *)

\* IF NOT EXISTS: a statement that took effect before changes nothing.
Executed(n) == IF n > tables THEN n ELSE tables

\* The promise resolves after the last statement; whoever waits goes on.
RunStatement(i) ==
    LET s == isolate[i]
        resolved == s.at = Statements
    IN /\ s.state = "running"
       /\ tables' = Executed(s.at)
       /\ isolate' = [isolate EXCEPT ![i] = IF resolved THEN [s EXCEPT !.state = "done"]
                                            ELSE [s EXCEPT !.at = @ + 1]]
       /\ entry' = [e \in Entrance |->
                      IF resolved /\ e \in WaitingIn(i)
                      THEN [entry[e] EXCEPT !.phase = "work", !.whole = tables' = Statements]
                      ELSE entry[e]]
       /\ UNCHANGED troubles

\* A statement fails, with or without effect: whoever waits is refused.
StatementFails(i) ==
    /\ isolate[i].state = "running"
    /\ troubles < MaxTroubles /\ troubles' = troubles + 1
    /\ tables' \in {tables, Executed(isolate[i].at)}
    /\ isolate' = [isolate EXCEPT ![i] = Rejected(@)]
    /\ entry' = [e \in Entrance |->
                   IF e \in WaitingIn(i) THEN [entry[e] EXCEPT !.phase = "failed", !.hurt = TRUE]
                   ELSE entry[e]]

\* The isolate is discarded, its promises and its requests with it.
Discard(i) ==
    /\ troubles < MaxTroubles /\ troubles' = troubles + 1
    /\ isolate' = [isolate EXCEPT ![i] = Fresh]
    /\ entry' = [e \in Entrance |->
                   IF entry[e].phase \in {"wait", "work", "authorize", "dispatch"} /\ entry[e].in = i
                   THEN Nobody ELSE entry[e]]
    /\ UNCHANGED tables

EntryInit ==
    /\ tables \in 0..Statements
    /\ isolate = [i \in Isolate |-> Fresh]
    /\ entry = [e \in Entrance |-> Nobody]
    /\ troubles = 0

EntryNext ==
    \/ \E e \in Entrance, i \in Isolate : Arrive(e, i) \/ Scheduled(e, i)
    \/ \E e \in Entrance : Authorize(e) \/ Dispatch(e) \/ Work(e) \/ TaskFails(e) \/ Leave(e)
    \/ \E i \in Isolate : RunStatement(i) \/ StatementFails(i) \/ Discard(i)

------------------------------------------------------------------------------
\* The control plane never works on a database with part of its schema, and a
\* request that is refused for the migration waited on the attempt that failed
\* (worker.ts ensureControlSchema, adminHandlerFor): a failure of an earlier
\* attempt, of this isolate or of another, is not answered again.
WorksOnWholeSchema ==
    \A e \in Entrance :
       /\ entry[e].phase \in {"work", "served"} => entry[e].whole
       /\ entry[e].phase = "failed" => entry[e].hurt
=============================================================================
