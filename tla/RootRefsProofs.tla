--------------------------- MODULE RootRefsProofs ---------------------------
(***************************************************************************)
(* Proofs about RootRefs, for any number of attempts, Spaces, hashes and   *)
(* request IDs and any change sets.                                        *)
(***************************************************************************)
EXTENDS RootRefs, TLAPS

\* A Space uses a request ID for one row.
RowsUnique ==
    \A q1, q2 \in requests :
        q1.req.space = q2.req.space /\ q1.req.id = q2.req.id => q1 = q2

\* What an attempt knows: its planned balances are those of the revision it
\* will commit against, as long as that revision is the current one.
Sound(a) ==
    /\ a.pc \in {"revision", "balances"} => InRange(a.seen, a.req)
    /\ a.pc \in {"balances", "commit"} => a.expected <= revision
    /\ a.pc = "commit" /\ a.expected = revision =>
         a.planned = [h \in Hash |-> balances[a.req.space][h] + a.req.changes[h]]
    /\ a.pc = "ok" => a.revision \in DOMAIN events /\ events[a.revision] = a.req

\* The inductive invariant.
Inv ==
    /\ TypeOK
    /\ AuditContiguous
    /\ CountsMatch
    /\ RowsUnique
    /\ \A w \in Worker : Sound(att[w])

\* Initially there is nothing to disagree about.
LEMMA InitInv == Init => Inv
<1> USE CountAssumption, PayloadsAssumption
<1> SUFFICES ASSUME Init PROVE Inv
    OBVIOUS
<1>1. TypeOK
    <2>1. NoAttempt \in Attempt
        BY DEF NoAttempt, Attempt
    <2>2. [h \in Hash |-> 0] \in Counts
        BY DEF Counts
    <2> QED BY <2>1, <2>2 DEF Init, TypeOK
<1>2. AuditContiguous
    BY DEF Init, AuditContiguous
<1>3. CountsMatch /\ RowsUnique
    BY DEF Init, CountsMatch, RowsUnique
<1>4. \A w \in Worker : Sound(att[w])
    BY DEF Init, Sound, NoAttempt
<1> QED BY <1>1, <1>2, <1>3, <1>4 DEF Inv

-----------------------------------------------------------------------------
(* Steps of one attempt *)

\* A step that only moves an attempt to a sound record keeps the invariant.
LEMMA MoveKeepsInv ==
    ASSUME Inv, NEW w \in Worker, NEW a \in Attempt, Sound(a),
           Step(w, a), UNCHANGED db
    PROVE  Inv'
<1>1. TypeOK'
    BY DEF Inv, TypeOK, Step, db
<1>2. AuditContiguous' /\ CountsMatch' /\ RowsUnique'
    BY DEF Inv, AuditContiguous, CountsMatch, RowsUnique, db
<1>3. \A v \in Worker : att'[v] = IF v = w THEN a ELSE att[v]
    BY DEF Inv, TypeOK, Step
<1>4. \A v \in Worker : Sound(att'[v])
    BY <1>3 DEF Inv
<1>5. (\A v \in Worker : Sound(att[v]))'
    BY <1>4 DEF Sound, InRange, db
<1> QED BY <1>1, <1>2, <1>5 DEF Inv

\* The record with which an attempt starts over, or gives up.
LEMMA RetryRecord ==
    ASSUME Inv, NEW w \in Worker, Running(w), Retry(w)
    PROVE  \E a \in Attempt : Step(w, a) /\ a.pc \in {"find", "failed"}
<1>1. att[w] \in Attempt
    BY DEF Inv, TypeOK
<1>2. att[w].req \in Update /\ att[w].tries \in Nat
    BY <1>1 DEF Attempt, Running, Finished, NoAttempt
<1>3. CASE att[w].tries < MaxAttempts
    <2> DEFINE a == [pc |-> "find", req |-> att[w].req, tries |-> att[w].tries + 1]
    <2>1. a \in Attempt
        BY <1>2 DEF Attempt
    <2> QED BY <1>3, <2>1 DEF Retry
<1>4. CASE ~(att[w].tries < MaxAttempts)
    <2> DEFINE a == [pc |-> "failed", req |-> att[w].req]
    <2>1. a \in Attempt
        BY <1>2 DEF Attempt
    <2> QED BY <1>4, <2>1 DEF Retry
<1> QED BY <1>3, <1>4

\* No attempt that starts over knows anything yet.
LEMMA FreshSound ==
    ASSUME NEW a, a.pc \in {"idle", "find", "nodes", "refused", "busy", "failed"}
    PROVE  Sound(a) /\ Sound(a)'
BY DEF Sound

\* Every step that writes nothing to the database.
LEMMA ReadStepInv ==
    ASSUME Inv, NEW w \in Worker, UNCHANGED db,
           \/ \E r \in Update : Start(w, r)
           \/ FindRequest(w) \/ ReadNodes(w) \/ ReadRevision(w) \/ ReadBalances(w)
           \/ CommitConflict(w) \/ CallFails(w) \/ Die(w)
    PROVE  Inv'
<1> USE CountAssumption, PayloadsAssumption
<1> SUFFICES \E a \in Attempt : Sound(a) /\ Step(w, a)
    BY MoveKeepsInv
<1>0. att[w] \in Attempt /\ Sound(att[w])
    BY DEF Inv, TypeOK
<1>1. ASSUME NEW r \in Update, Start(w, r) PROVE \E a \in Attempt : Sound(a) /\ Step(w, a)
    <2> DEFINE a == [pc |-> "find", req |-> r, tries |-> 1]
    <2>1. a \in Attempt
        BY DEF Attempt
    <2> QED BY <1>1, <2>1, FreshSound DEF Start
<1>2. CASE FindRequest(w)
    <2> DEFINE r == att[w].req
    <2>0. r \in Update /\ att[w].tries \in Nat /\ att[w] = [pc |-> "find", req |-> r, tries |-> att[w].tries]
        BY <1>0, <1>2 DEF FindRequest, Attempt, NoAttempt
    <2>1. CASE Step(w, [att[w] EXCEPT !.pc = "nodes"])
        <3> DEFINE a == [pc |-> "nodes", req |-> r, tries |-> att[w].tries]
        <3>1. a \in Attempt
            BY <2>0 DEF Attempt
        <3>2. a = [att[w] EXCEPT !.pc = "nodes"]
            BY <2>0
        <3> QED BY <2>1, <3>1, <3>2, FreshSound
    <2>2. ASSUME NEW q \in RowsOf(r), q.req.changes = r.changes,
                 Step(w, [pc |-> "ok", req |-> r, revision |-> q.revision])
          PROVE  \E a \in Attempt : Sound(a) /\ Step(w, a)
        <3> DEFINE a == [pc |-> "ok", req |-> r, revision |-> q.revision]
        <3>1. q \in ReqRow /\ q.req \in Update /\ q.revision \in Nat
            BY DEF Inv, TypeOK, RowsOf, ReqRow
        <3>2. q.req = r
            BY <2>0, <2>2, <3>1 DEF RowsOf, Update
        <3>3. a \in Attempt
            BY <2>0, <3>1 DEF Attempt
        <3>4. Sound(a)
            BY <3>2 DEF Inv, AuditContiguous, RowsOf, Sound
        <3> QED BY <2>2, <3>3, <3>4
    <2>3. CASE Step(w, [pc |-> "refused", req |-> r])
        <3> DEFINE a == [pc |-> "refused", req |-> r]
        <3>1. a \in Attempt
            BY <2>0 DEF Attempt
        <3> QED BY <2>3, <3>1, FreshSound
    <2> QED BY <1>2, <2>1, <2>2, <2>3 DEF FindRequest
<1>3. CASE ReadNodes(w)
    <2> DEFINE r == att[w].req
    <2>0. r \in Update /\ att[w].tries \in Nat
        BY <1>0, <1>3 DEF ReadNodes, Attempt, NoAttempt
    <2>1. CASE InRange(counts[r.space], r)
        <3> DEFINE a == [pc |-> "revision", req |-> r, tries |-> att[w].tries,
                         seen |-> counts[r.space]]
        <3>1. counts[r.space] \in Counts
            BY <2>0 DEF Inv, TypeOK, Update
        <3>2. a \in Attempt
            BY <2>0, <3>1 DEF Attempt
        <3>3. Sound(a)
            BY <2>1 DEF Sound
        <3> QED BY <1>3, <2>1, <3>2, <3>3 DEF ReadNodes
    <2>2. CASE ~InRange(counts[r.space], r)
        <3> DEFINE a == [pc |-> "refused", req |-> r]
        <3>1. a \in Attempt
            BY <2>0 DEF Attempt
        <3> QED BY <1>3, <2>2, <3>1, FreshSound DEF ReadNodes
    <2> QED BY <2>1, <2>2
<1>4. CASE ReadRevision(w)
    <2> DEFINE a == [pc |-> "balances", req |-> att[w].req, tries |-> att[w].tries,
                     seen |-> att[w].seen, expected |-> revision]
    <2>0. att[w].req \in Update /\ att[w].tries \in Nat /\ att[w].seen \in Counts
        BY <1>0, <1>4 DEF ReadRevision, Attempt, NoAttempt
    <2>1. a \in Attempt
        BY <2>0 DEF Attempt, Inv, TypeOK
    <2>2. Sound(a)
        BY <1>0, <1>4 DEF ReadRevision, Sound, Inv, TypeOK
    <2> QED BY <1>4, <2>1, <2>2 DEF ReadRevision
<1>5. CASE ReadBalances(w)
    <2> DEFINE r == att[w].req
    <2>0. /\ r \in Update /\ att[w].tries \in Nat /\ att[w].seen \in Counts
          /\ att[w].expected \in Nat
        BY <1>0, <1>5 DEF ReadBalances, Attempt, NoAttempt
    <2>1. CASE BalancesAgree(w)
        <3> DEFINE a == [pc |-> "commit", req |-> r, tries |-> att[w].tries,
                         expected |-> att[w].expected, planned |-> Planned(w)]
        <3>1. balances[r.space] \in [Hash -> 0..MaxCount] /\ r.changes \in [Hash -> Int]
            BY <2>0 DEF Inv, TypeOK, Update, Counts
        <3>2. InRange(att[w].seen, r)
            BY <1>0, <1>5 DEF Sound, ReadBalances
        <3>3. ASSUME NEW h \in Hash
              PROVE  balances[r.space][h] + r.changes[h] \in 0..MaxCount
            BY <2>1, <3>1, <3>2 DEF BalancesAgree, InRange
        <3>4. Planned(w) \in Counts
            BY <3>3 DEF Planned, Counts
        <3>5. a \in Attempt
            BY <2>0, <3>4 DEF Attempt
        <3>6. Sound(a)
            BY <1>0, <1>5 DEF Sound, Planned, ReadBalances
        <3> QED BY <1>5, <2>1, <3>5, <3>6 DEF ReadBalances
    <2>2. CASE ~BalancesAgree(w)
        <3> DEFINE a == [pc |-> "busy", req |-> r]
        <3>1. a \in Attempt
            BY <2>0 DEF Attempt
        <3> QED BY <1>5, <2>2, <3>1, FreshSound DEF ReadBalances
    <2> QED BY <2>1, <2>2
<1>6. CASE CommitConflict(w) \/ CallFails(w)
    <2>1. Running(w) /\ Retry(w)
        BY <1>6 DEF CommitConflict, CallFails, Running, Finished
    <2> QED BY <2>1, RetryRecord, FreshSound
<1>7. CASE Die(w)
    <2>1. NoAttempt \in Attempt /\ NoAttempt.pc = "idle"
        BY DEF Attempt, NoAttempt
    <2> QED BY <1>7, <2>1, FreshSound DEF Die
<1> QED BY <1>1, <1>2, <1>3, <1>4, <1>5, <1>6, <1>7

-----------------------------------------------------------------------------
(* The commit *)

\* What a commit does to the tables: the planned balances are the balances of
\* the current revision plus the changes, for changed and unchanged hashes.
LEMMA ApplyEffect ==
    ASSUME Inv, NEW w \in Worker, Apply(w)
    PROVE  LET r == att[w].req
               sum == [h \in Hash |-> balances[r.space][h] + r.changes[h]]
           IN  /\ r \in Update
               /\ sum \in Counts
               /\ balances' = [balances EXCEPT ![r.space] = sum]
               /\ counts' = balances'
               /\ revision' = revision + 1
               /\ events' = Append(events, r)
               /\ requests' = requests \cup {[req |-> r, revision |-> revision + 1]}
               /\ RowsOf(r) = {}
<1> USE CountAssumption, PayloadsAssumption
<1> DEFINE r == att[w].req
           sum == [h \in Hash |-> balances[r.space][h] + r.changes[h]]
<1>1. att[w] \in Attempt /\ Sound(att[w])
    BY DEF Inv, TypeOK
<1>2. r \in Update /\ att[w].planned \in Counts
    BY <1>1 DEF Apply, Attempt, NoAttempt
<1>3. att[w].planned = sum /\ att[w].expected = revision
    BY <1>1 DEF Apply, CanCommit, Sound
<1>4. sum \in Counts
    BY <1>2, <1>3
<1>5. balances[r.space] \in [Hash -> 0..MaxCount] /\ r.changes \in [Hash -> Int]
    BY <1>2 DEF Inv, TypeOK, Update, Counts
<1>6. [h \in Hash |-> IF r.changes[h] # 0 THEN att[w].planned[h]
                      ELSE balances[r.space][h]] = sum
    BY <1>3, <1>5
<1>7. balances' = [balances EXCEPT ![r.space] = sum]
    BY <1>6 DEF Apply
<1>8. counts' = balances'
    BY <1>7 DEF Apply, Inv, CountsMatch
<1> QED BY <1>2, <1>3, <1>4, <1>7, <1>8 DEF Apply, CanCommit

\* A commit, seen or unseen, keeps the invariant.  The attempts that planned
\* against the revision it replaces can no longer commit.
LEMMA ApplyInv ==
    ASSUME Inv, NEW w \in Worker, Apply(w), NEW a \in Attempt, Step(w, a), Sound(a)'
    PROVE  Inv'
<1> USE CountAssumption, PayloadsAssumption
<1> DEFINE r == att[w].req
           sum == [h \in Hash |-> balances[r.space][h] + r.changes[h]]
           row == [req |-> r, revision |-> revision + 1]
<1>0. /\ r \in Update /\ sum \in Counts
      /\ balances' = [balances EXCEPT ![r.space] = sum] /\ counts' = balances'
      /\ revision' = revision + 1 /\ events' = Append(events, r)
      /\ requests' = requests \cup {row} /\ RowsOf(r) = {}
    BY ApplyEffect
<1>t. /\ revision \in Nat /\ balances \in [Space -> Counts] /\ events \in Seq(Update)
      /\ requests \subseteq ReqRow /\ att \in [Worker -> Attempt]
      /\ revision = Len(events)
    BY DEF Inv, TypeOK, AuditContiguous
<1>1. TypeOK'
    <2>1. balances' \in [Space -> Counts]
        BY <1>0, <1>t DEF Update
    <2>2. events' \in Seq(Update)
        BY <1>0, <1>t
    <2>3. row \in ReqRow
        BY <1>0, <1>t DEF ReqRow
    <2>4. att' \in [Worker -> Attempt]
        BY <1>t DEF Step
    <2> QED BY <1>0, <1>t, <2>1, <2>2, <2>3, <2>4 DEF TypeOK
<1>2. /\ Len(events') = revision' /\ DOMAIN events' = 1..revision' /\ events'[revision'] = r
      /\ DOMAIN events = 1..revision
      /\ \A i \in 1..revision : events'[i] = events[i]
    BY <1>0, <1>t
<1>3. AuditContiguous'
    <2>1. \A q \in requests' : q.revision \in DOMAIN events' /\ events'[q.revision] = q.req
        BY <1>0, <1>t, <1>2 DEF Inv, AuditContiguous, ReqRow
    <2>2. \A i \in DOMAIN events' : [req |-> events'[i], revision |-> i] \in requests'
        BY <1>0, <1>t, <1>2 DEF Inv, AuditContiguous
    <2> QED BY <1>2, <2>1, <2>2 DEF AuditContiguous
<1>4. CountsMatch'
    BY <1>0 DEF CountsMatch
<1>5. RowsUnique'
    <2>1. \A q \in requests : ~(q.req.space = r.space /\ q.req.id = r.id)
        BY <1>0 DEF RowsOf
    <2> QED BY <1>0, <2>1 DEF Inv, RowsUnique
<1>6. (\A v \in Worker : Sound(att[v]))'
    <2> SUFFICES ASSUME NEW v \in Worker PROVE Sound(att[v])'
        OBVIOUS
    <2>1. CASE v = w
        <3>1. att'[v] = a
            BY <1>t, <2>1 DEF Step
        <3> QED BY <3>1 DEF Sound, InRange
    <2>2. CASE v # w
        <3>1. att'[v] = att[v] /\ Sound(att[v]) /\ att[v] \in Attempt
            BY <1>t, <2>2 DEF Step, Inv
        <3>2. att[v].pc \in {"balances", "commit"} => att[v].expected \in Nat
            BY <3>1 DEF Attempt, NoAttempt
        <3>3. att[v].pc \in {"balances", "commit"} =>
                att[v].expected <= revision' /\ att[v].expected # revision'
            BY <1>0, <1>t, <3>1, <3>2 DEF Sound
        <3>4. att[v].pc = "ok" =>
                att[v].revision \in DOMAIN events' /\ events'[att[v].revision] = att[v].req
            BY <1>0, <1>t, <1>2, <3>1 DEF Sound
        <3> QED BY <3>1, <3>3, <3>4 DEF Sound, InRange
    <2> QED BY <2>1, <2>2
<1> QED BY <1>1, <1>3, <1>4, <1>5, <1>6 DEF Inv

\* Every step keeps the invariant.
LEMMA NextInv == Inv /\ [Next]_vars => Inv'
<1> USE CountAssumption, PayloadsAssumption
<1> SUFFICES ASSUME Inv, [Next]_vars PROVE Inv'
    OBVIOUS
<1>1. CASE UNCHANGED vars
    BY <1>1 DEF vars, db, Inv, TypeOK, AuditContiguous, CountsMatch, RowsUnique, Sound, InRange
<1>2. ASSUME NEW w \in Worker, Commit(w) PROVE Inv'
    <2> DEFINE r == att[w].req
               a == [pc |-> "ok", req |-> r, revision |-> att[w].expected + 1]
    <2>1. Apply(w) /\ Step(w, a)
        BY <1>2 DEF Commit
    <2>2. /\ r \in Update /\ revision' = revision + 1 /\ events' = Append(events, r)
          /\ att[w].expected = revision
        BY <2>1, ApplyEffect DEF Apply, CanCommit
    <2>3. revision \in Nat /\ events \in Seq(Update) /\ revision = Len(events)
        BY DEF Inv, TypeOK, AuditContiguous
    <2>4. a \in Attempt
        BY <2>2, <2>3 DEF Attempt
    <2>5. PICK b \in Attempt : b = [pc |-> "ok", req |-> r, revision |-> revision + 1]
        BY <2>2, <2>4
    <2>6. Step(w, b)
        BY <2>1, <2>2, <2>5
    <2>7. revision + 1 \in DOMAIN events' /\ events'[revision + 1] = r
        BY <2>2, <2>3
    <2>8. Sound(b)'
        BY <2>5, <2>7 DEF Sound
    <2> QED BY <2>1, <2>6, <2>8, ApplyInv
<1>3. ASSUME NEW w \in Worker, CommitUnseen(w) PROVE Inv'
    <2>1. Apply(w) /\ Retry(w) /\ Running(w)
        BY <1>3 DEF CommitUnseen, Apply, Running, Finished
    <2>2. PICK a \in Attempt : Step(w, a) /\ a.pc \in {"find", "failed"}
        BY <2>1, RetryRecord
    <2>3. Sound(a)'
        BY <2>2, FreshSound
    <2> QED BY <2>1, <2>2, <2>3, ApplyInv
<1>4. ASSUME NEW w \in Worker,
             \/ \E r \in Update : Start(w, r)
             \/ FindRequest(w) \/ ReadNodes(w) \/ ReadRevision(w) \/ ReadBalances(w)
             \/ CommitConflict(w) \/ CallFails(w) \/ Die(w)
      PROVE  Inv'
    <2>1. UNCHANGED db
        BY <1>4 DEF Start, FindRequest, ReadNodes, ReadRevision, ReadBalances,
                    CommitConflict, CallFails, Die
    <2> QED BY <1>4, <2>1, ReadStepInv
<1> QED BY <1>1, <1>2, <1>3, <1>4 DEF Next, AttemptStep

-----------------------------------------------------------------------------
(* Theorems *)

\* The invariant holds in every reachable state.
THEOREM Invariance == Spec => []Inv
<1>1. Init => Inv
    BY InitInv
<1>2. Inv /\ [Next]_vars => Inv'
    BY NextInv
<1> QED BY <1>1, <1>2, PTL DEF Spec

\* Counts, balances, rows and attempts keep their types; in particular no
\* balance leaves 0..MaxCount whatever the attempts interleave.
THEOREM TypeCorrect == Spec => []TypeOK
<1>1. Inv => TypeOK
    BY DEF Inv
<1> QED BY <1>1, Invariance, PTL

\* The App revision counts the events, and request rows and events name each
\* other: a commit writes revision, event and request row in one batch.
THEOREM AuditIsContiguous == Spec => []AuditContiguous
<1>1. Inv => AuditContiguous
    BY DEF Inv
<1> QED BY <1>1, Invariance, PTL

\* The two copies of the counts agree, although an attempt writes one of them
\* from what it read before its commit.
THEOREM CountsAgree == Spec => []CountsMatch
<1>1. Inv => CountsMatch
    BY DEF Inv
<1> QED BY <1>1, Invariance, PTL

\* An update is applied at most once, whatever is repeated or lost.
THEOREM AppliedAtMostOnce == Spec => []AppliedOnce
<1>1. Inv => AppliedOnce
    <2> SUFFICES ASSUME Inv, NEW i \in DOMAIN events, NEW j \in DOMAIN events,
                        events[i].space = events[j].space, events[i].id = events[j].id
                 PROVE  i = j
        BY DEF AppliedOnce
    <2> DEFINE qi == [req |-> events[i], revision |-> i]
               qj == [req |-> events[j], revision |-> j]
    <2>1. qi \in requests /\ qj \in requests
        BY DEF Inv, AuditContiguous
    <2>2. qi = qj
        BY <2>1 DEF Inv, RowsUnique
    <2> QED BY <2>2
<1> QED BY <1>1, Invariance, PTL

\* A success names the revision at which exactly this update is recorded.
THEOREM AnswersAreDurable == Spec => []AnswerDurable
<1>1. Inv => AnswerDurable
    BY DEF Inv, Sound, AnswerDurable
<1> QED BY <1>1, Invariance, PTL

\* The protocol implements the atomic ledger: a commit is an Apply of the
\* ledger, every other step leaves log and balances alone.
THEOREM ImplementsLedger == Spec => LedgerSpec
<1>1. Init => Ledger!Init
    BY DEF Init, Ledger!Init
<1>2. Inv /\ [Next]_vars => [Ledger!Next]_<<events, balances>>
    <2> SUFFICES ASSUME Inv, [Next]_vars,
                        ~UNCHANGED <<events, balances>>
                 PROVE  Ledger!Next
        OBVIOUS
    <2>1. PICK w \in Worker : Apply(w)
        BY DEF Next, AttemptStep, Start, FindRequest, ReadNodes, ReadRevision, ReadBalances,
               Commit, CommitUnseen, CommitConflict, CallFails, Die, vars, db
    <2> DEFINE r == att[w].req
               sum == [h \in Hash |-> balances[r.space][h] + r.changes[h]]
    <2>2. /\ r \in Update /\ sum \in Counts /\ balances' = [balances EXCEPT ![r.space] = sum]
          /\ events' = Append(events, r) /\ RowsOf(r) = {}
        BY <2>1, ApplyEffect
    <2>3. ~Ledger!Applied(r)
        <3> SUFFICES ASSUME NEW i \in DOMAIN events,
                            events[i].space = r.space, events[i].id = r.id
                     PROVE  FALSE
            BY DEF Ledger!Applied, Ledger!SameRequest
        <3>1. [req |-> events[i], revision |-> i] \in requests
            BY DEF Inv, AuditContiguous
        <3> QED BY <2>2, <3>1 DEF RowsOf
    <2>4. \A h \in Hash : balances[r.space][h] + r.changes[h] \in 0..MaxCount
        BY <2>2 DEF Counts
    <2>5. Ledger!Apply(r)
        BY <2>2, <2>3, <2>4 DEF Ledger!Apply
    <2>6. r \in Ledger!Update
        BY <2>2 DEF Ledger!Update, Update
    <2> QED BY <2>5, <2>6 DEF Ledger!Next
<1> QED BY <1>1, <1>2, Invariance, PTL DEF Spec, LedgerSpec, Ledger!Spec

-----------------------------------------------------------------------------
(* Behind the gate *)

\* A gated Space has one attempt under way, and the counts it has seen are current.
GatedInv ==
    /\ \A v, w \in Worker :
         Running(v) /\ Running(w) /\ att[v].req.space = att[w].req.space
           /\ att[v].req.space \in GatedSpaces => v = w
    /\ \A w \in Worker :
         att[w].pc \in {"revision", "balances"} /\ att[w].req.space \in GatedSpaces =>
           att[w].seen = counts[att[w].req.space]
    /\ NeverBusy

\* A step that starts no attempt takes w to a finished record, or goes on with
\* the same update.
LEMMA StepRecord ==
    ASSUME Inv, NEW w \in Worker, AttemptStep(w) \/ CallFails(w) \/ Die(w)
    PROVE  /\ \A v \in Worker \ {w} : att'[v] = att[v]
           /\ Running(w)' => Running(w) /\ att'[w].req = att[w].req
<1>1. att \in [Worker -> Attempt] /\ att[w] \in Attempt
    BY DEF Inv, TypeOK
<1>2. CASE FindRequest(w)
    BY <1>1, <1>2 DEF FindRequest, Step, Running, Finished, Attempt, NoAttempt
<1>3. CASE ReadNodes(w) \/ ReadRevision(w) \/ ReadBalances(w)
    BY <1>1, <1>3 DEF ReadNodes, ReadRevision, ReadBalances, Step, Running, Finished
<1>4. CASE Commit(w) \/ Die(w)
    BY <1>1, <1>4 DEF Commit, Die, Step, Running, Finished, NoAttempt
<1>5. CASE CommitUnseen(w) \/ CommitConflict(w) \/ CallFails(w)
    BY <1>1, <1>5 DEF CommitUnseen, CommitConflict, CallFails, Apply, Retry, Step, Running,
       Finished
<1> QED BY <1>2, <1>3, <1>4, <1>5 DEF AttemptStep

\* At most one attempt of a gated Space is under way, and no other moves its balances.
LEMMA NextGated ==
    ASSUME Inv, GatedInv, [Next]_vars
    PROVE  GatedInv'
<1>t. /\ att \in [Worker -> Attempt] /\ counts = balances
      /\ counts \in [Space -> Counts]
    BY DEF Inv, TypeOK, CountsMatch
<1>1. CASE UNCHANGED vars
    BY <1>1 DEF vars, db, GatedInv, NeverBusy, Running
<1>2. ASSUME NEW w \in Worker, NEW r \in Update, Start(w, r) PROVE GatedInv'
    <2>1. /\ att'[w] = [pc |-> "find", req |-> r, tries |-> 1] /\ counts' = counts
          /\ \A v \in Worker \ {w} : att'[v] = att[v]
          /\ r.space \in GatedSpaces =>
               \A v \in Worker : Running(v) => att[v].req.space # r.space
        BY <1>2, <1>t DEF Start, Step, db
    <2> QED BY <2>1 DEF GatedInv, NeverBusy, Running, Finished
<1>3. ASSUME NEW w \in Worker, AttemptStep(w) \/ CallFails(w) \/ Die(w) PROVE GatedInv'
    <2>1. /\ \A v \in Worker \ {w} : att'[v] = att[v]
          /\ Running(w)' => Running(w) /\ att'[w].req = att[w].req
        BY <1>3, StepRecord
    <2>2. \A u, v \in Worker :
             (Running(u) /\ Running(v) /\ att[u].req.space = att[v].req.space
                /\ att[u].req.space \in GatedSpaces)' => u = v
        BY <2>1 DEF GatedInv, Running
    <2>3. \A v \in Worker \ {w} :
             att[v].pc \in {"revision", "balances"} /\ att[v].req.space \in GatedSpaces =>
               att[v].seen = counts'[att[v].req.space]
        <3>1. CASE UNCHANGED counts
            BY <3>1 DEF GatedInv
        <3>2. CASE Apply(w)
            <4>1. Running(w) /\ att[w].req \in Update
                BY <3>2, ApplyEffect DEF Apply, Running, Finished
            <4>2. \A s \in Space : s # att[w].req.space => counts'[s] = counts[s]
                BY <1>t, <3>2, <4>1 DEF Apply, Update
            <4>3. \A v \in Worker : att[v].pc \in {"revision", "balances"} =>
                     Running(v) /\ att[v].req.space \in Space
                BY <1>t DEF Attempt, NoAttempt, Update, Running, Finished
            <4> QED BY <4>1, <4>2, <4>3 DEF GatedInv
        <3> QED BY <1>3, <3>1, <3>2 DEF AttemptStep, FindRequest, ReadNodes, ReadRevision,
               ReadBalances, Commit, CommitUnseen, CommitConflict, CallFails, Die, db
    <2>4. /\ att'[w].pc \in {"revision", "balances"} /\ att'[w].req.space \in GatedSpaces =>
                att'[w].seen = counts'[att'[w].req.space]
          /\ att'[w].pc = "busy" => att'[w].req.space \notin GatedSpaces
        <3>0. att[w] \in Attempt
            BY <1>t
        <3>1. CASE FindRequest(w)
            <4>1. att'[w].pc \in {"nodes", "ok", "refused"}
                BY <1>t, <3>0, <3>1 DEF FindRequest, Step, Attempt, NoAttempt
            <4> QED BY <4>1
        <3>2. CASE ReadNodes(w)
            BY <1>t, <3>2 DEF ReadNodes, Step, db
        <3>3. CASE ReadRevision(w)
            BY <1>t, <3>3 DEF ReadRevision, Step, db, GatedInv
        <3>4. CASE ReadBalances(w)
            <4>1. att[w].req.space \in GatedSpaces => BalancesAgree(w)
                BY <1>t, <3>4 DEF ReadBalances, BalancesAgree, GatedInv
            <4> QED BY <1>t, <3>4, <4>1 DEF ReadBalances, Step
        <3>5. CASE \/ Commit(w) \/ CommitUnseen(w) \/ CommitConflict(w)
                   \/ CallFails(w) \/ Die(w)
            <4>1. att'[w].pc \in {"ok", "find", "failed", "idle"}
                BY <1>t, <3>5 DEF Commit, CommitUnseen, CommitConflict, CallFails, Die, Retry,
                   Step, NoAttempt
            <4> QED BY <4>1
        <3> QED BY <1>3, <3>1, <3>2, <3>3, <3>4, <3>5 DEF AttemptStep
    <2> QED BY <2>1, <2>2, <2>3, <2>4 DEF GatedInv, NeverBusy
<1> QED BY <1>1, <1>2, <1>3 DEF Next

\* A Space that holds its gate until the answer is never told that another
\* update of its own moved the balances between two reads, whatever other Spaces do.
THEOREM GateExcludesBusy == Spec => []NeverBusy
<1>1. Init => GatedInv
    BY DEF Init, GatedInv, NeverBusy, NoAttempt, Running, Finished
<1>2. Inv /\ GatedInv /\ [Next]_vars => GatedInv'
    BY NextGated
<1>3. GatedInv => NeverBusy
    BY DEF GatedInv
<1> QED BY <1>1, <1>2, <1>3, Invariance, PTL DEF Spec

\* RequestsAccounted: revision, events, request rows, both counts and the answers of the Root
\* Ref protocol agree, whatever is sent again, lost or restarted.
THEOREM RequestsAreAccounted == Spec => []RequestsAccounted
<1>1. AuditContiguous /\ AppliedOnce /\ CountsMatch /\ AnswerDurable => RequestsAccounted
    BY DEF RequestsAccounted
<1> QED BY <1>1, AuditIsContiguous, AppliedAtMostOnce, CountsAgree, AnswersAreDurable, PTL

=============================================================================
