------------------------------ MODULE RootRefs ------------------------------
(***************************************************************************)
(* The Root Ref protocol of one App: updates of several Spaces meet in the *)
(* App's domain object, whose attempts interleave at every storage call.   *)
(* An attempt looks for the request, reads the nodes' counts, the App      *)
(* revision and the Space's balances, each with a call of its own, and     *)
(* commits one D1 batch against the revision it read.  A batch or a call   *)
(* may fail, also after it took effect; the attempt is then repeated a     *)
(* bounded number of times.                                                *)
(*                                                                         *)
(* All nodes are ready here: how the protocol meets garbage collection is  *)
(* the subject of SpaceCas.                                                *)
(***************************************************************************)
EXTENDS Integers, Sequences

CONSTANTS
    Worker,      \* attempts that may run at the same time in the domain object
    Space, Hash, RequestId, Payloads, MaxCount,
    MaxAttempts, \* CAS_RETRY_MAX_ATTEMPTS
    GatedSpaces, \* the Spaces whose object holds its gate until the answer
    MaxRevision  \* bound: updates applied

ASSUME PayloadsAssumption == Payloads \subseteq [Hash -> Int]
ASSUME CountAssumption ==
    /\ MaxCount \in Nat /\ MaxAttempts \in Nat \ {0} /\ MaxRevision \in Nat
    /\ GatedSpaces \subseteq Space

VARIABLES
    revision,    \* cas_app_root_revisions.revision
    counts,      \* cas_nodes.root_ref_count, per Space and hash
    balances,    \* cas_app_root_refs.ref_count, 0 for no row
    events,      \* cas_app_root_events, by revision
    requests,    \* cas_app_root_requests: update and revision
    att          \* the attempts

db   == <<revision, counts, balances, events, requests>>
vars == <<db, att>>

Update  == [space: Space, id: RequestId, changes: Payloads]
Counts  == [Hash -> 0..MaxCount]
ReqRow  == [req: Update, revision: Nat]

NoAttempt == [pc |-> "idle"]

Attempt ==
    {NoAttempt}
    \cup [pc: {"find", "nodes"}, req: Update, tries: Nat]
    \cup [pc: {"revision"}, req: Update, tries: Nat, seen: Counts]
    \cup [pc: {"balances"}, req: Update, tries: Nat, seen: Counts, expected: Nat]
    \cup [pc: {"commit"}, req: Update, tries: Nat, expected: Nat, planned: Counts]
    \cup [pc: {"ok"}, req: Update, revision: Nat]
    \cup [pc: {"refused", "busy", "failed"}, req: Update]

TypeOK ==
    /\ revision \in Nat
    /\ counts \in [Space -> Counts]
    /\ balances \in [Space -> Counts]
    /\ events \in Seq(Update)
    /\ requests \subseteq ReqRow
    /\ att \in [Worker -> Attempt]

Init ==
    /\ revision = 0
    /\ counts = [s \in Space |-> [h \in Hash |-> 0]]
    /\ balances = [s \in Space |-> [h \in Hash |-> 0]]
    /\ events = <<>>
    /\ requests = {}
    /\ att = [w \in Worker |-> NoAttempt]

Finished == {"idle", "ok", "refused", "busy", "failed"}
Running(w) == att[w].pc \notin Finished

Step(w, a) == att' = [att EXCEPT ![w] = a]

\* An update arrives.  A Space that holds its gate has no other attempt.
Start(w, r) ==
    /\ ~Running(w)
    /\ r.space \in GatedSpaces => \A v \in Worker : Running(v) => att[v].req.space # r.space
    /\ Step(w, [pc |-> "find", req |-> r, tries |-> 1])
    /\ UNCHANGED db

\* Mutant of RowsOf: the request ID is looked up without its Space.
RowsOfAnySpace(r) == {q \in requests : q.req.id = r.id}

RowsOf(r) == {q \in requests : q.req.space = r.space /\ q.req.id = r.id}

\* findRequest: a replay is answered with the first revision, a request ID
\* with another payload is refused.
FindRequest(w) ==
    LET r == att[w].req IN
    /\ att[w].pc = "find"
    /\ \/ /\ RowsOf(r) = {}
          /\ Step(w, [att[w] EXCEPT !.pc = "nodes"])
       \/ \E q \in RowsOf(r) :
            Step(w, IF q.req.changes = r.changes
                    THEN [pc |-> "ok", req |-> r, revision |-> q.revision]
                    ELSE [pc |-> "refused", req |-> r])
    /\ UNCHANGED db

InRange(seen, r) == \A h \in Hash : seen[h] + r.changes[h] \in 0..MaxCount

\* readNodes: the aggregate counts; a result below zero or beyond the bound is
\* refused.
ReadNodes(w) ==
    LET r == att[w].req
        seen == counts[r.space] IN
    /\ att[w].pc = "nodes"
    /\ Step(w, IF InRange(seen, r)
               THEN [pc |-> "revision", req |-> r, tries |-> att[w].tries, seen |-> seen]
               ELSE [pc |-> "refused", req |-> r])
    /\ UNCHANGED db

\* readAppState, first query.
ReadRevision(w) ==
    /\ att[w].pc = "revision"
    /\ Step(w, [pc |-> "balances", req |-> att[w].req, tries |-> att[w].tries,
                seen |-> att[w].seen, expected |-> revision])
    /\ UNCHANGED db

Planned(w) ==
    LET r == att[w].req IN [h \in Hash |-> balances[r.space][h] + r.changes[h]]

\* readAppState, second query: balance and aggregate of a changed hash must agree.
BalancesAgree(w) ==
    LET r == att[w].req IN
    \A h \in Hash : r.changes[h] # 0 => balances[r.space][h] = att[w].seen[h]

ReadBalances(w) ==
    LET r == att[w].req IN
    /\ att[w].pc = "balances"
    /\ Step(w, IF BalancesAgree(w)
               THEN [pc |-> "commit", req |-> r, tries |-> att[w].tries,
                     expected |-> att[w].expected, planned |-> Planned(w)]
               ELSE [pc |-> "busy", req |-> r])
    /\ UNCHANGED db

\* Mutants of CanCommit: the revision is not compared; the request row is not
\* looked at.
CanCommitAnyRevision(w) ==
    LET r == att[w].req IN
    /\ RowsOf(r) = {}
    /\ \A h \in Hash : counts[r.space][h] + r.changes[h] >= 0
CanCommitTwice(w) ==
    LET r == att[w].req IN
    /\ revision = att[w].expected
    /\ \A h \in Hash : counts[r.space][h] + r.changes[h] >= 0

\* The batch commits only against the revision that was read, and only if the
\* request has no row yet (primary key) and no count turns negative (CHECK).
CanCommit(w) ==
    LET r == att[w].req IN
    /\ revision = att[w].expected
    /\ RowsOf(r) = {}
    /\ \A h \in Hash : counts[r.space][h] + r.changes[h] >= 0

Apply(w) ==
    LET r == att[w].req IN
    /\ att[w].pc = "commit" /\ CanCommit(w)
    /\ revision < MaxRevision
    /\ revision' = att[w].expected + 1
    /\ counts' = [counts EXCEPT ![r.space] =
                     [h \in Hash |-> counts[r.space][h] + r.changes[h]]]
    /\ balances' = [balances EXCEPT ![r.space] =
                     [h \in Hash |-> IF r.changes[h] # 0 THEN att[w].planned[h]
                                     ELSE balances[r.space][h]]]
    /\ events' = Append(events, r)
    /\ requests' = requests \cup {[req |-> r, revision |-> att[w].expected + 1]}

\* withRootRefsRetry
Retry(w) ==
    Step(w, IF att[w].tries < MaxAttempts
            THEN [pc |-> "find", req |-> att[w].req, tries |-> att[w].tries + 1]
            ELSE [pc |-> "failed", req |-> att[w].req])

Commit(w) ==
    /\ Apply(w)
    /\ Step(w, [pc |-> "ok", req |-> att[w].req, revision |-> att[w].expected + 1])

\* The batch takes effect and the answer to it is lost.
CommitUnseen(w) == Apply(w) /\ Retry(w)

CommitConflict(w) ==
    /\ att[w].pc = "commit" /\ ~CanCommit(w)
    /\ Retry(w)
    /\ UNCHANGED db

\* A storage call fails without effect.
CallFails(w) ==
    /\ Running(w)
    /\ Retry(w)
    /\ UNCHANGED db

\* The domain object is restarted, or nobody waits for the answer any more.
Die(w) ==
    /\ att[w] # NoAttempt
    /\ Step(w, NoAttempt)
    /\ UNCHANGED db

AttemptStep(w) ==
    \/ FindRequest(w) \/ ReadNodes(w) \/ ReadRevision(w) \/ ReadBalances(w)
    \/ Commit(w) \/ CommitUnseen(w) \/ CommitConflict(w)

Next ==
    \E w \in Worker :
        \/ \E r \in Update : Start(w, r)
        \/ AttemptStep(w) \/ CallFails(w) \/ Die(w)

Spec == Init /\ [][Next]_vars

-----------------------------------------------------------------------------

\* The audit stream is contiguous: the App revision is the number of events,
\* and every request row names the event that holds its update.
AuditContiguous ==
    /\ revision = Len(events)
    /\ \A q \in requests : q.revision \in DOMAIN events /\ events[q.revision] = q.req
    /\ \A i \in DOMAIN events : [req |-> events[i], revision |-> i] \in requests

\* An update is applied once, however often it is sent, retried or answered.
AppliedOnce ==
    \A i, j \in DOMAIN events :
        events[i].space = events[j].space /\ events[i].id = events[j].id => i = j

\* The nodes' aggregate counts and the App's projection agree.
CountsMatch == counts = balances

\* A success is durable: the revision of the answer holds exactly the update.
AnswerDurable ==
    \A w \in Worker : att[w].pc = "ok" =>
        att[w].revision \in DOMAIN events /\ events[att[w].revision] = att[w].req

\* However often a request is sent, retried or answered, the App's revision,
\* its events, its request rows and both counts tell the same story.
RequestsAccounted == AuditContiguous /\ AppliedOnce /\ CountsMatch /\ AnswerDurable

\* The protocol implements the atomic ledger, balances and log alike.
Ledger == INSTANCE RootLedger WITH log <- events, balance <- balances
LedgerSpec == Ledger!Spec

\* Behind the gate of its Space no update is turned away because another attempt of
\* the Space moved the balances between two of its reads.  Without the gate it is:
\* a replay that overlaps the first attempt may be told ROOT_REF_BUSY.
NeverBusy == \A w \in Worker : att[w].pc = "busy" => att[w].req.space \notin GatedSpaces

=============================================================================
