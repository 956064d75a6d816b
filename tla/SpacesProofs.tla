----------------------------- MODULE SpacesProofs -----------------------------
(***************************************************************************)
(* Proofs about the Spaces application, for any number of invocations,     *)
(* smoke runs, login attempts and callbacks, any trees and any bounds on   *)
(* revisions and faults.                                                   *)
(***************************************************************************)
EXTENDS SpacesApp, FiniteSetTheorems, SequenceTheorems, TLAPS

-----------------------------------------------------------------------------
(* Sign-in *)

\* A callback holds the attempt it took, which is gone then; sessions were
\* opened by attempts that are gone; and no two of all these share one.
Redeeming == {"exchange", "resolve", "session"}

SessionRows == [number : Nat, attempt : Attempt, live : BOOLEAN]

LoginShape ==
    /\ attempts \in [Attempt -> {"none", "live", "expired", "gone"}]
    /\ answers = [c \in Callback |-> answers[c]]
    /\ \A c \in Callback : answers[c].pc \in Redeeming =>
          answers[c] \in [pc : Redeeming, attempt : Attempt] /\ attempts[answers[c].attempt] = "gone"
    /\ sessions \subseteq SessionRows
    /\ \A s \in sessions : attempts[s.attempt] = "gone"

LoginApart ==
    /\ \A c, b \in Callback : answers[c].pc \in Redeeming /\ answers[b].pc \in Redeeming
          /\ answers[c].attempt = answers[b].attempt => c = b
    /\ \A c \in Callback, s \in sessions : answers[c].pc \in Redeeming => answers[c].attempt # s.attempt

AttemptInv == LoginShape /\ LoginApart /\ OneSessionPerAttempt /\ IsFiniteSet(sessions)

\* Steps that neither take an attempt nor open a session: attempts that are
\* gone stay gone, and a callback goes on or ends.
LEMMA AttemptsFrame ==
    ASSUME AttemptInv, attempts' \in [Attempt -> {"none", "live", "expired", "gone"}],
           \A a \in Attempt : attempts[a] = "gone" => attempts'[a] = "gone",
           UNCHANGED <<answers, sessions>>
    PROVE  AttemptInv'
<1>1. LoginShape'
    BY DEF AttemptInv, LoginShape, SessionRows
<1> QED BY <1>1 DEF AttemptInv, LoginApart, OneSessionPerAttempt

LEMMA CallbackGoesOn ==
    ASSUME AttemptInv, NEW c \in Callback, answers[c].pc \in Redeeming,
           NEW pc \in Redeeming \cup {"done"},
           answers' = [answers EXCEPT ![c] = [answers[c] EXCEPT !.pc = pc]],
           UNCHANGED <<attempts, sessions>>
    PROVE  AttemptInv'
<1>1. LoginShape /\ LoginApart /\ answers[c] \in [pc : Redeeming, attempt : Attempt]
    BY DEF AttemptInv, LoginShape
<1>2. PICK x : x = [answers[c] EXCEPT !.pc = pc]
    OBVIOUS
<1>3. answers' = [answers EXCEPT ![c] = x]
    BY <1>2
<1>4. answers'[c] = x /\ (\A b \in Callback : b # c => answers'[b] = answers[b])
      /\ answers' = [b \in Callback |-> answers'[b]]
    BY <1>1, <1>3 DEF LoginShape
<1>5. x.pc = pc /\ x.attempt = answers[c].attempt /\ (x.pc \in Redeeming => x \in [pc : Redeeming, attempt : Attempt])
    BY <1>1, <1>2
<1>6. LoginShape'
    BY <1>1, <1>4, <1>5 DEF LoginShape
<1>7. LoginApart'
    BY <1>1, <1>4, <1>5 DEF LoginApart
<1> QED BY <1>6, <1>7 DEF AttemptInv, OneSessionPerAttempt

LEMMA ConsumeKeeps ==
    ASSUME AttemptInv, NEW c \in Callback, NEW a \in Attempt, ConsumeAttempt(c, a)
    PROVE  AttemptInv'
<1>1. LoginShape /\ LoginApart /\ attempts[a] = "live" /\ answers[c].pc \notin Redeeming
    BY DEF AttemptInv, ConsumeAttempt, Redeeming
<1>2. PICK x : x = [pc |-> "exchange", attempt |-> a]
    OBVIOUS
<1>3. answers' = [answers EXCEPT ![c] = x] /\ sessions' = sessions
      /\ attempts' = [attempts EXCEPT ![a] = "gone"]
    BY <1>2 DEF ConsumeAttempt, Answer, Consumed
<1>4. answers'[c] = x /\ (\A b \in Callback : b # c => answers'[b] = answers[b])
      /\ answers' = [b \in Callback |-> answers'[b]]
    BY <1>1, <1>3 DEF LoginShape
<1>5. x.pc = "exchange" /\ x.attempt = a /\ x \in [pc : Redeeming, attempt : Attempt]
    BY <1>2 DEF Redeeming
<1>6. attempts' \in [Attempt -> {"none", "live", "expired", "gone"}] /\ attempts'[a] = "gone"
      /\ \A b \in Attempt : attempts[b] = "gone" => attempts'[b] = "gone"
    BY <1>1, <1>3 DEF LoginShape
<1>7. LoginShape'
    BY <1>1, <1>3, <1>4, <1>5, <1>6 DEF LoginShape, SessionRows
<1>8. \A b \in Callback : answers[b].pc \in Redeeming => answers[b].attempt # a
    BY <1>1 DEF LoginShape
<1>9. \A s \in sessions : s.attempt # a
    BY <1>1 DEF LoginShape
<1>10. LoginApart'
    BY <1>1, <1>3, <1>4, <1>5, <1>8, <1>9 DEF LoginApart
<1> QED BY <1>3, <1>7, <1>10 DEF AttemptInv, OneSessionPerAttempt

LEMMA CreateSessionKeeps ==
    ASSUME AttemptInv, NEW c \in Callback, CreateSession(c)
    PROVE  AttemptInv'
<1>1. LoginShape /\ LoginApart /\ OneSessionPerAttempt /\ answers[c].pc \in Redeeming
    BY DEF AttemptInv, CreateSession, Redeeming
<1>2. Cardinality(sessions) \in Nat
    BY FS_CardinalityType DEF AttemptInv
<1>3. PICK s : s = [number |-> Cardinality(sessions) + 1, attempt |-> answers[c].attempt, live |-> TRUE]
    OBVIOUS
<1>4. s \in SessionRows /\ s.attempt = answers[c].attempt
    BY <1>1, <1>2, <1>3 DEF SessionRows, LoginShape
<1>5. PICK x : x = [pc |-> "done"]
    OBVIOUS
<1>6. x.pc \notin Redeeming
    BY <1>5 DEF Redeeming
<1>7. answers' = [answers EXCEPT ![c] = x] /\ sessions' = sessions \cup {s} /\ attempts' = attempts
    BY <1>3, <1>5 DEF CreateSession, Answer
<1>8. answers'[c] = x /\ (\A b \in Callback : b # c => answers'[b] = answers[b])
      /\ answers' = [b \in Callback |-> answers'[b]]
    BY <1>1, <1>7 DEF LoginShape
<1>9. LoginShape'
    BY <1>1, <1>4, <1>6, <1>7, <1>8 DEF LoginShape
<1>10. LoginApart'
    BY <1>1, <1>4, <1>6, <1>7, <1>8 DEF LoginApart
<1>11. \A t \in sessions : t.attempt # s.attempt
    BY <1>1, <1>4 DEF LoginApart
<1>12. OneSessionPerAttempt'
    BY <1>1, <1>7, <1>11 DEF OneSessionPerAttempt
<1>13. IsFiniteSet(sessions')
    BY <1>7, FS_AddElement DEF AttemptInv
<1> QED BY <1>9, <1>10, <1>12, <1>13 DEF AttemptInv

LEMMA EndSessionKeeps ==
    ASSUME AttemptInv, NEW s \in sessions, EndSession(s)
    PROVE  AttemptInv'
<1>1. LoginShape /\ LoginApart /\ OneSessionPerAttempt /\ s \in SessionRows
    BY DEF AttemptInv, LoginShape
<1>2. PICK t : t = [s EXCEPT !.live = FALSE]
    OBVIOUS
<1>3. t \in SessionRows /\ t.attempt = s.attempt
    BY <1>1, <1>2 DEF SessionRows
<1>4. sessions' = (sessions \ {s}) \cup {t} /\ UNCHANGED <<attempts, answers>>
    BY <1>2 DEF EndSession
<1>5. LoginShape'
    BY <1>1, <1>3, <1>4 DEF LoginShape
<1>6. LoginApart'
    BY <1>1, <1>3, <1>4 DEF LoginApart
<1>7. OneSessionPerAttempt'
    BY <1>1, <1>3, <1>4 DEF OneSessionPerAttempt
<1>8. IsFiniteSet(sessions')
    BY <1>4, FS_AddElement, FS_RemoveElement DEF AttemptInv
<1> QED BY <1>5, <1>6, <1>7, <1>8 DEF AttemptInv

LEMMA LoginKeeps == AttemptInv /\ [Next]_vars => AttemptInv'
<1> SUFFICES ASSUME AttemptInv, [Next]_vars PROVE AttemptInv'
    OBVIOUS
<1>0. LoginShape
    BY DEF AttemptInv
<1>1. CASE UNCHANGED loginVars
    <2>1. UNCHANGED <<attempts, answers, sessions>>
        BY <1>1 DEF loginVars
    <2> QED BY <1>0, <2>1, AttemptsFrame DEF LoginShape
<1>2. CASE Login
    <2>1. ASSUME NEW a \in Attempt, BeginLogin(a) PROVE AttemptInv'
        BY <1>0, <2>1, AttemptsFrame DEF BeginLogin, LoginShape
    <2>2. ASSUME NEW a \in Attempt, ExpireAttempt(a) PROVE AttemptInv'
        BY <1>0, <2>2, AttemptsFrame DEF ExpireAttempt, LoginShape
    <2>3. ASSUME NEW c \in Callback, NEW a \in Attempt, ConsumeAttempt(c, a) PROVE AttemptInv'
        BY <2>3, ConsumeKeeps
    <2>4. ASSUME NEW c \in Callback, ExchangeCode(c) PROVE AttemptInv'
        <3>1. answers[c].pc \in Redeeming
            BY <2>4 DEF ExchangeCode, Redeeming
        <3>2. PICK v \in BOOLEAN : Answer(c, [answers[c] EXCEPT !.pc = IF v THEN "resolve" ELSE "done"])
            BY <2>4 DEF ExchangeCode
        <3>3. PICK pc \in Redeeming \cup {"done"} : pc = IF v THEN "resolve" ELSE "done"
            BY DEF Redeeming
        <3> QED BY <2>4, <3>1, <3>2, <3>3, CallbackGoesOn DEF ExchangeCode, Answer
    <2>5. ASSUME NEW c \in Callback, ResolveIdentity(c) PROVE AttemptInv'
        <3>1. answers[c].pc \in Redeeming
            BY <2>5 DEF ResolveIdentity, Redeeming
        <3>2. PICK pc \in Redeeming \cup {"done"} : pc = IF principal = "active" THEN "session" ELSE "done"
            BY DEF Redeeming
        <3> QED BY <2>5, <3>1, <3>2, CallbackGoesOn DEF ResolveIdentity, Answer
    <2>6. ASSUME NEW c \in Callback, CreateSession(c) PROVE AttemptInv'
        BY <2>6, CreateSessionKeeps
    <2>7. ASSUME NEW s \in sessions, EndSession(s) PROVE AttemptInv'
        BY <2>7, EndSessionKeeps
    <2>8. ASSUME PruneExpired PROVE AttemptInv'
        BY <1>0, <2>8, AttemptsFrame DEF PruneExpired, LoginShape
    <2>9. ASSUME Suspend PROVE AttemptInv'
        BY <1>0, <2>9, AttemptsFrame DEF Suspend, LoginShape
    <2> QED BY <1>2, <2>1, <2>2, <2>3, <2>4, <2>5, <2>6, <2>7, <2>8, <2>9 DEF Login
<1> QED BY <1>1, <1>2 DEF Next, vars

LEMMA LoginStarts == Init => AttemptInv
<1> SUFFICES ASSUME Init PROVE AttemptInv
    OBVIOUS
<1>1. LoginInit
    BY DEF Init
<1>2. IsFiniteSet(sessions)
    BY <1>1, FS_EmptySet DEF LoginInit
<1> QED BY <1>1, <1>2 DEF LoginInit, AttemptInv, LoginShape, LoginApart, OneSessionPerAttempt, Redeeming

\* However often and however late the provider's redirect is delivered, to any
\* number of callbacks at once, a login attempt opens one session at most: the
\* attempt is taken by the DELETE that reads it.
THEOREM AttemptsOpenOneSession == Spec => []OneSessionPerAttempt
<1>1. AttemptInv => OneSessionPerAttempt
    BY DEF AttemptInv
<1> QED BY <1>1, LoginStarts, LoginKeeps, PTL DEF Spec

-----------------------------------------------------------------------------
(* Bags of references *)

Copies(t, b) == IF t \in DOMAIN b THEN b[t] ELSE 0

One(holds) == IF holds THEN 1 ELSE 0

LEMMA OneIs == \A p \in BOOLEAN : One(p) \in {0, 1} /\ (p => One(p) = 1) /\ (~p => One(p) = 0)
BY DEF One

LEMMA CopiesNumber ==
    ASSUME NEW b, IsABag(b), NEW t
    PROVE  Copies(t, b) \in Nat /\ (t \in DOMAIN b <=> Copies(t, b) > 0)
BY DEF IsABag, Copies

LEMMA AddOne ==
    ASSUME NEW b, IsABag(b), NEW x, NEW c, c = b (+) SetToBag({x})
    PROVE  IsABag(c) /\ \A t : Copies(t, c) = Copies(t, b) + One(t = x)
<1>1. SetToBag({x}) = [e \in {x} |-> 1]
    BY DEF SetToBag
<1>2. c = [e \in (DOMAIN b) \cup {x} |-> Copies(e, b) + One(e = x)]
    BY <1>1 DEF (+), Copies, One
<1>3. \A t : Copies(t, b) \in Nat /\ (t \in DOMAIN b <=> Copies(t, b) > 0)
    BY CopiesNumber
<1>4. \A t : One(t = x) \in {0, 1} /\ (t = x => One(t = x) = 1) /\ (t # x => One(t = x) = 0)
    BY DEF One
<1>5. IsABag(c)
    <2>1. \A e \in (DOMAIN b) \cup {x} : Copies(e, b) + One(e = x) \in {n \in Nat : n > 0}
        BY <1>3, <1>4
    <2> QED BY <1>2, <2>1 DEF IsABag
<1>6. ASSUME NEW t PROVE Copies(t, c) = Copies(t, b) + One(t = x)
    <2>1. CASE t \in (DOMAIN b) \cup {x}
        BY <1>2, <2>1 DEF Copies
    <2>2. CASE t \notin (DOMAIN b) \cup {x}
        BY <1>2, <1>4, <2>2 DEF Copies
    <2> QED BY <2>1, <2>2
<1> QED BY <1>5, <1>6

LEMMA AddNone ==
    ASSUME NEW b, IsABag(b), NEW c, c = b (+) EmptyBag
    PROVE  c = b
<1>1. DOMAIN EmptyBag = {}
    BY DEF EmptyBag, SetToBag
<1>2. c = [e \in DOMAIN b |-> b[e] + 0]
    BY <1>1 DEF (+)
<1>3. b = [e \in DOMAIN b |-> b[e]] /\ \A e \in DOMAIN b : b[e] \in Nat
    BY DEF IsABag
<1> QED BY <1>2, <1>3

LEMMA TakeOne ==
    ASSUME NEW b, IsABag(b), NEW x, x \in DOMAIN b, NEW c, c = b (-) SetToBag({x})
    PROVE  IsABag(c) /\ \A t : Copies(t, c) + One(t = x) = Copies(t, b)
<1> DEFINE f == [e \in DOMAIN b |-> IF e = x THEN b[e] - 1 ELSE b[e]]
           D == {d \in DOMAIN b : f[d] > 0}
<1>1. DOMAIN SetToBag({x}) = {x} /\ SetToBag({x})[x] = 1
    BY DEF SetToBag
<1>2. [e \in DOMAIN b |-> IF e \in DOMAIN SetToBag({x}) THEN b[e] - SetToBag({x})[e] ELSE b[e]] = f
    BY <1>1
<1>3. c = [e \in D |-> f[e]]
    BY <1>2 DEF (-)
<1>4. \A e \in DOMAIN b : b[e] \in Nat /\ b[e] > 0
    BY DEF IsABag
<1>5. \A e \in DOMAIN b : f[e] \in Nat /\ (e = x => f[e] = b[e] - 1) /\ (e # x => f[e] = b[e])
    BY <1>4
<1> HIDE DEF f
<1>6. \A e \in D : f[e] \in {n \in Nat : n > 0}
    BY <1>5
<1>7. IsABag(c)
    BY <1>3, <1>6 DEF IsABag
<1>8. ASSUME NEW t PROVE Copies(t, c) + One(t = x) = Copies(t, b)
    <2>0. One(t = x) \in {0, 1} /\ (t = x => One(t = x) = 1) /\ (t # x => One(t = x) = 0)
        BY DEF One
    <2>1. CASE t \notin DOMAIN b
        <3>1. Copies(t, c) = 0 /\ Copies(t, b) = 0 /\ t # x
            BY <1>3, <2>1 DEF Copies
        <3> QED BY <2>0, <3>1
    <2>2. CASE t \in DOMAIN b
        <3>1. Copies(t, b) = b[t] /\ Copies(t, c) = f[t]
            <4>1. CASE f[t] > 0
                BY <1>3, <2>2, <4>1 DEF Copies
            <4>2. CASE ~(f[t] > 0)
                <5>1. f[t] = 0
                    BY <1>5, <2>2, <4>2
                <5> QED BY <1>3, <2>2, <4>2, <5>1 DEF Copies
            <4> QED BY <4>1, <4>2
        <3> QED BY <1>4, <1>5, <2>0, <2>2, <3>1
    <2> QED BY <2>1, <2>2
<1> QED BY <1>7, <1>8

LEMMA BelowByCopies ==
    ASSUME NEW b, IsABag(b), NEW c, IsABag(c), \A t : Copies(t, b) <= Copies(t, c)
    PROVE  b \sqsubseteq c
<1>1. ASSUME NEW t \in DOMAIN b PROVE t \in DOMAIN c /\ b[t] <= c[t]
    <2>1. Copies(t, b) > 0 /\ Copies(t, b) \in Nat /\ Copies(t, c) \in Nat /\ Copies(t, b) <= Copies(t, c)
        BY CopiesNumber
    <2>2. t \in DOMAIN c
        BY <2>1, CopiesNumber
    <2> QED BY <2>1, <2>2 DEF Copies
<1> QED BY <1>1 DEF \sqsubseteq

-----------------------------------------------------------------------------
(* Trees *)

Trees == UNION {[D -> Entry] : D \in SUBSET Seq(STRING)}

LEMMA TreeIs ==
    ASSUME NEW t, t \in [DOMAIN t -> Entry], DOMAIN t \subseteq Seq(STRING)
    PROVE  t \in Trees
<1>1. [DOMAIN t -> Entry] \in {[D -> Entry] : D \in SUBSET Seq(STRING)}
    OBVIOUS
<1> QED BY <1>1 DEF Trees

LEMMA TreeHas ==
    ASSUME NEW t \in Trees
    PROVE  t \in [DOMAIN t -> Entry] /\ DOMAIN t \subseteq Seq(STRING)
<1>1. PICK D \in SUBSET Seq(STRING) : t \in [D -> Entry]
    BY DEF Trees
<1> QED BY <1>1

LEMMA EmptyTreeIs == EmptyTree \in Trees
<1>1. DOMAIN EmptyTree = {} /\ EmptyTree \in [{} -> Entry]
    BY DEF EmptyTree
<1> QED BY <1>1, TreeIs

LEMMA PutIs ==
    ASSUME NEW t \in Trees, NEW p \in Path, NEW e \in Entry
    PROVE  Put(t, p, e) \in Trees
<1>1. t \in [DOMAIN t -> Entry] /\ DOMAIN t \subseteq Seq(STRING) /\ p \in Seq(STRING)
    BY TreeHas, TreeAssumption
<1>2. PICK u : u = Put(t, p, e)
    OBVIOUS
<1>3. u \in [(DOMAIN t) \cup {p} -> Entry]
    BY <1>1, <1>2 DEF Put
<1>4. DOMAIN u = (DOMAIN t) \cup {p}
    BY <1>3
<1> QED BY <1>1, <1>2, <1>3, <1>4, TreeIs

LEMMA WithoutIs ==
    ASSUME NEW t \in Trees, NEW S
    PROVE  Without(t, S) \in Trees
<1>1. t \in [DOMAIN t -> Entry] /\ DOMAIN t \subseteq Seq(STRING)
    BY TreeHas
<1>2. PICK u : u = Without(t, S)
    OBVIOUS
<1>3. u \in [(DOMAIN t) \ S -> Entry]
    BY <1>1, <1>2 DEF Without
<1>4. DOMAIN u = (DOMAIN t) \ S
    BY <1>3
<1> QED BY <1>1, <1>2, <1>3, <1>4, TreeIs

LEMMA MoveIs ==
    ASSUME NEW t \in Trees, NEW p \in Path, NEW q \in Path
    PROVE  Move(t, p, q) \in Trees
<1> DEFINE from == {r \in DOMAIN t : r = p \/ Below(p, r)}
           to == {Moved(p, q, r) : r \in from}
<1>1. t \in [DOMAIN t -> Entry] /\ DOMAIN t \subseteq Seq(STRING) /\ p \in Seq(STRING) /\ q \in Seq(STRING)
    BY TreeHas, TreeAssumption
<1>2. PICK u : u = Move(t, p, q)
    OBVIOUS
<1>3. u = [r \in ((DOMAIN t) \ from) \cup to |->
             IF r \in to THEN t[CHOOSE o \in from : Moved(p, q, o) = r] ELSE t[r]]
    BY <1>2 DEF Move
<1>4. ASSUME NEW r \in from PROVE Moved(p, q, r) \in Seq(STRING)
    <2>1. r \in Seq(STRING) /\ Len(p) \in Nat /\ Len(r) \in Nat
        BY <1>1
    <2>2. SubSeq(r, Len(p) + 1, Len(r)) \in Seq(STRING)
        BY <2>1
    <2> QED BY <1>1, <2>2 DEF Moved
<1>5. ASSUME NEW r \in ((DOMAIN t) \ from) \cup to
      PROVE  /\ (IF r \in to THEN t[CHOOSE o \in from : Moved(p, q, o) = r] ELSE t[r]) \in Entry
             /\ r \in Seq(STRING)
    <2>1. CASE r \in to
        <3>1. PICK o \in from : Moved(p, q, o) = r
            BY <2>1
        <3>2. (CHOOSE x \in from : Moved(p, q, x) = r) \in from
            BY <3>1
        <3>3. (CHOOSE x \in from : Moved(p, q, x) = r) \in DOMAIN t
            BY <3>2
        <3> QED BY <1>1, <1>4, <2>1, <3>1, <3>3
    <2>2. CASE r \notin to
        BY <1>1, <2>2
    <2> QED BY <2>1, <2>2
<1> HIDE DEF from, to
<1>6. u \in [((DOMAIN t) \ from) \cup to -> Entry] /\ DOMAIN u \subseteq Seq(STRING)
    BY <1>3, <1>5
<1>7. u \in [DOMAIN u -> Entry]
    BY <1>6
<1> QED BY <1>2, <1>6, <1>7, TreeIs

\* What a request makes of a tree is a tree.
LEMMA ChangedIs ==
    ASSUME NEW t \in Trees, NEW r \in FileRequest, Applicable(t, r)
    PROVE  Changed(t, r) \in Trees
<1>1. r.path \in Path /\ (r.do = "uploadFile" => r.content \in Entry) /\ (r.do = "renameFile" => r.to \in Path)
      /\ Directory \in Entry
    BY FileRootsAssumption DEF FileRootsAssumption, Entry
<1>2. CASE r.do = "createFolder"
    BY <1>1, <1>2, PutIs DEF Changed
<1>3. CASE r.do = "uploadFile"
    BY <1>1, <1>3, PutIs DEF Changed
<1>4. CASE r.do = "renameFile"
    BY <1>1, <1>4, MoveIs DEF Changed
<1>5. CASE r.do = "deleteFile"
    BY <1>1, <1>5, WithoutIs DEF Changed, RemovePath
<1> QED BY <1>2, <1>3, <1>4, <1>5 DEF Applicable

-----------------------------------------------------------------------------
(* Files: types *)

Ids == Run \cup {Own, None, "session"}
Rows == [id : Ids, tree : Trees, revision : Nat]

Editing == {"retain", "check", "batch", "reread", "release"}
Reconciling == {"reconcile", "drop", "complete"}
Keeping == {"check", "batch", "undo", "create"}
Passive == {"idle", "assert", "list", "answered", "recover", "create run", "ensure", "hold", "prepare",
            "mark", "open", "roots", "release root", "delete", "finish", "fail"}

Jobs == [pc : Editing \cup Reconciling \cup Keeping \cup Passive,
         op : {"none", "edit", "cron", "paths", "remove"}, run : Run \cup {None},
         root : Rows, next : Trees, info : Rows, todo : SUBSET Rows, row : Rows]

SmokeRows == [state : {"none", "active", "pending", "failed", "complete"},
              expired : BOOLEAN, issued : BOOLEAN, paths : SUBSET Path]

Updates == [id : Ids \X Nat, tree : Trees]

JobShape == job \in [Worker -> Jobs]

StoreShape ==
    /\ catalog \in Rows /\ pending \subseteq Rows /\ IsFiniteSet(pending)
    /\ IsABag(counts) /\ IsABag(leaked)
    /\ applied \subseteq Updates
    /\ returned \in BOOLEAN

SmokeShape == smoke \in [Run -> SmokeRows]

FilesShape == JobShape /\ StoreShape /\ SmokeShape

LEMMA NoRootIs == NoRoot \in Rows /\ NoRoot.id = None /\ NoRoot.tree = EmptyTree /\ NoRoot.revision = 0
BY EmptyTreeIs DEF NoRoot, Rows, Ids

LEMMA IdleIs ==
    /\ Idle \in Jobs /\ Idle.pc = "idle" /\ Idle.op = "none" /\ Idle.run = None
    /\ Idle.next = EmptyTree /\ Idle.root = NoRoot /\ Idle.todo = {} /\ Idle.info = NoRoot
BY EmptyTreeIs, NoRootIs DEF Idle, Jobs, Passive

\* A step of a worker changes the worker's own job.
LEMMA JobMoves ==
    ASSUME JobShape, NEW w \in Worker, NEW k \in Jobs, job' = [job EXCEPT ![w] = k]
    PROVE  JobShape' /\ job'[w] = k /\ \A v \in Worker : v # w => job'[v] = job[v]
BY DEF JobShape

SamePlan(k, j) ==
    /\ k.op = j.op /\ k.run = j.run /\ k.root = j.root /\ k.next = j.next
    /\ k.info = j.info /\ k.todo = j.todo /\ k.row = j.row

LEMMA GotoIs ==
    ASSUME JobShape, NEW w \in Worker, NEW pc \in Editing \cup Reconciling \cup Keeping \cup Passive, Goto(w, pc)
    PROVE  \E k \in Jobs : job' = [job EXCEPT ![w] = k] /\ k.pc = pc /\ SamePlan(k, job[w])
<1>1. PICK k : k = [job[w] EXCEPT !.pc = pc]
    OBVIOUS
<1>2. job[w] \in Jobs
    BY DEF JobShape
<1>3. k \in Jobs /\ k.pc = pc /\ SamePlan(k, job[w])
    BY <1>1, <1>2 DEF Jobs, SamePlan
<1>4. job' = [job EXCEPT ![w] = k]
    BY <1>1 DEF Goto
<1> QED BY <1>3, <1>4

LEMMA DoneIs ==
    ASSUME NEW w, Done(w)
    PROVE  job' = [job EXCEPT ![w] = Idle]
BY DEF Done

LEMMA GiveUpIs ==
    ASSUME JobShape, NEW w \in Worker, Give_up(w)
    PROVE  \E k \in Jobs : /\ job' = [job EXCEPT ![w] = k] /\ k.pc \in {"idle", "fail"}
                           /\ k.pc = "fail" => SamePlan(k, job[w]) /\ job[w].run # None
                           /\ k.pc = "idle" => k = Idle
<1>1. CASE ForRun(w)
    <2>1. Goto(w, "fail") /\ "fail" \in Passive
        BY <1>1 DEF Give_up, Passive
    <2> QED BY <1>1, <2>1, GotoIs DEF ForRun
<1>2. CASE ~ForRun(w)
    BY <1>2, IdleIs DEF Give_up, Done
<1> QED BY <1>1, <1>2

-----------------------------------------------------------------------------
(* Files: the inductive invariant *)

\* The rows a job still has to release, and all the rows it works with.
QueuedBy(j) ==
    (IF j.pc \in Reconciling THEN j.todo ELSE {}) \cup (IF j.pc \in {"drop", "complete"} THEN {j.row} ELSE {})
Mentions(j) == QueuedBy(j) \cup (IF j.pc \in Editing THEN {j.root} ELSE {})

InQueue(x) == x \in pending \/ \E w \in Worker : x \in QueuedBy(job[w])
Known(x) == x \in pending \/ (\E w \in Worker : x \in Mentions(job[w])) \/ (catalog # NoRoot /\ x = catalog)

\* A root and a revision name one row, and none is newer than the cataloged
\* one; what is queued or released is older.
KnownInv ==
    /\ \A x : Known(x) => x \in Rows /\ x.id # None /\ (x.id = catalog.id => x.revision <= catalog.revision)
    /\ \A x, y : Known(x) /\ Known(y) /\ x.id = y.id /\ x.revision = y.revision => x = y
    /\ \A x : InQueue(x) /\ x.id = catalog.id => x.revision < catalog.revision
    /\ \A a \in applied : a.id[1] = catalog.id => a.id[2] < catalog.revision
    /\ catalog # NoRoot => catalog.id # None /\ catalog.tree \in past

\* What a job at a step has established.
JobSound(j) ==
    /\ j.pc \in {"retain", "check", "batch"} => j.next # j.root.tree
    /\ j.pc \in {"create run", "ensure", "hold", "create"} => j.next = EmptyTree
    /\ j.pc = "reread" => j.root.id = catalog.id
    /\ j.pc \in Editing \cup Reconciling \cup {"assert", "list"} => j.op # "none"

JobsSound == \A w \in Worker : JobSound(job[w])

\* References of a manifest that something answers for: commits under way, the
\* catalog, and releases that are queued and not yet sent.
Keeps(j, t) == j.pc \in Keeping /\ j.next = t
Holding(t) == {w \in Worker : Keeps(job[w], t)}
Rooted(t) == One(catalog # NoRoot /\ catalog.tree = t /\ ~RootLetGo)
Settling(r) == \E w \in Worker : job[w].pc = "complete" /\ job[w].row = r
Unpaid(t) == {r \in pending : r.tree = t /\ ~Replayed(ReleaseId(r), r.tree) /\ ~Settling(r)}

Upper ==
    ~returned => \A t : Copies(t, counts) <=
        Copies(t, leaked) + (Rooted(t) + (Cardinality(Holding(t)) + Cardinality(Unpaid(t))))

\* A manifest that is cataloged, that may be by a commit under way, or that
\* never was: nothing is about to release it.
MayCommit(j, t) == j.pc \in {"check", "batch"} /\ j.next = t /\ SameRow(j.root)
Live(t) ==
    \/ t \notin past
    \/ catalog # NoRoot /\ catalog.tree = t
    \/ \E w \in Worker : MayCommit(job[w], t)

Releases(j, t) ==
    \/ \E r \in QueuedBy(j) : r.tree = t
    \/ j.pc \in {"retain", "check", "batch"} /\ ~SameRow(j.root) /\ j.root.tree = t
    \/ j.pc \in {"reread", "release"} /\ j.root.tree = t

\* The root's own release was sent for this manifest.
LetGo(t) == \E a \in applied : a.id = RootReleaseId(catalog.id) /\ a.tree = t

Free(t) ==
    /\ \A r \in pending : r.tree # t
    /\ \A w \in Worker : ~Releases(job[w], t)
    /\ catalog.tree # t => ~LetGo(t)

Lower ==
    ~returned => \A t : Live(t) =>
        Free(t) /\ Copies(t, counts) >= Rooted(t) + Cardinality(Holding(t))

Core == FilesShape /\ KnownInv /\ JobsSound /\ Upper /\ Lower

(* Counting *)

LEMMA HoldingNumber ==
    ASSUME NEW t PROVE IsFiniteSet(Holding(t)) /\ Cardinality(Holding(t)) \in Nat
<1>1. Holding(t) \subseteq Worker /\ IsFiniteSet(Worker)
    BY FileRootsAssumption DEF Holding, FileRootsAssumption
<1> QED BY <1>1, FS_Subset, FS_CardinalityType

LEMMA HoldingMoves ==
    ASSUME JobShape, NEW w \in Worker, NEW k \in Jobs, job' = [job EXCEPT ![w] = k], NEW t
    PROVE  /\ Cardinality(Holding(t)') + One(Keeps(job[w], t)) = Cardinality(Holding(t)) + One(Keeps(k, t))
           /\ Cardinality(Holding(t)') \in Nat /\ Cardinality(Holding(t)) \in Nat
           /\ Cardinality(Holding(t)) >= One(Keeps(job[w], t))
<1>1. job'[w] = k /\ \A v \in Worker : v # w => job'[v] = job[v]
    BY JobMoves
<1>2. PICK B : B = Holding(t) \ {w}
    OBVIOUS
<1>3. IsFiniteSet(Holding(t)) /\ IsFiniteSet(B) /\ w \notin B /\ Cardinality(B) \in Nat
    BY <1>2, HoldingNumber, FS_RemoveElement, FS_CardinalityType
<1>4. Keeps(job[w], t) \in BOOLEAN /\ Keeps(k, t) \in BOOLEAN
    BY DEF Keeps
<1>5. Holding(t) = (IF Keeps(job[w], t) THEN B \cup {w} ELSE B)
    BY <1>2 DEF Holding
<1>6. Holding(t)' = (IF Keeps(k, t) THEN B \cup {w} ELSE B)
    BY <1>1, <1>2 DEF Holding, Keeps
<1>7. Cardinality(B \cup {w}) = Cardinality(B) + 1
    BY <1>3, FS_AddElement
<1>8. Cardinality(Holding(t)) = Cardinality(B) + One(Keeps(job[w], t))
    BY <1>3, <1>5, <1>7 DEF One
<1>9. Cardinality(Holding(t)') = Cardinality(B) + One(Keeps(k, t))
    BY <1>3, <1>6, <1>7 DEF One
<1>10. One(Keeps(job[w], t)) \in {0, 1} /\ One(Keeps(k, t)) \in {0, 1}
    BY DEF One
<1> QED BY <1>3, <1>8, <1>9, <1>10

LEMMA UnpaidNumber ==
    ASSUME StoreShape, NEW t PROVE IsFiniteSet(Unpaid(t)) /\ Cardinality(Unpaid(t)) \in Nat
<1>1. Unpaid(t) \subseteq pending /\ IsFiniteSet(pending)
    BY DEF Unpaid, StoreShape
<1> QED BY <1>1, FS_Subset, FS_CardinalityType

LEMMA UnpaidGrows ==
    ASSUME StoreShape, StoreShape', NEW t, Unpaid(t) \subseteq Unpaid(t)'
    PROVE  Cardinality(Unpaid(t)) <= Cardinality(Unpaid(t)')
<1>1. IsFiniteSet(Unpaid(t)') /\ Cardinality(Unpaid(t)') \in Nat
    <2>1. Unpaid(t)' \subseteq pending' /\ IsFiniteSet(pending')
        BY DEF Unpaid, StoreShape
    <2> QED BY <2>1, FS_Subset, FS_CardinalityType
<1> QED BY <1>1, FS_Subset

LEMMA UnpaidLosesOne ==
    ASSUME StoreShape, StoreShape', NEW t, NEW r, Unpaid(t) \subseteq Unpaid(t)' \cup {r}
    PROVE  Cardinality(Unpaid(t)) <= Cardinality(Unpaid(t)') + 1
<1>1. IsFiniteSet(Unpaid(t)') /\ Cardinality(Unpaid(t)') \in Nat
    <2>1. Unpaid(t)' \subseteq pending' /\ IsFiniteSet(pending')
        BY DEF Unpaid, StoreShape
    <2> QED BY <2>1, FS_Subset, FS_CardinalityType
<1>2. IsFiniteSet(Unpaid(t)' \cup {r}) /\ Cardinality(Unpaid(t)' \cup {r}) <= Cardinality(Unpaid(t)') + 1
      /\ Cardinality(Unpaid(t)' \cup {r}) \in Nat
    BY <1>1, FS_AddElement, FS_CardinalityType
<1>3. Cardinality(Unpaid(t)) <= Cardinality(Unpaid(t)' \cup {r}) /\ Cardinality(Unpaid(t)) \in Nat
    BY <1>2, FS_Subset, UnpaidNumber
<1> QED BY <1>1, <1>2, <1>3

LEMMA UnpaidGainsOne ==
    ASSUME StoreShape, StoreShape', NEW t, NEW r, r \notin Unpaid(t), Unpaid(t) \cup {r} \subseteq Unpaid(t)'
    PROVE  Cardinality(Unpaid(t)) + 1 <= Cardinality(Unpaid(t)')
<1>1. IsFiniteSet(Unpaid(t)') /\ Cardinality(Unpaid(t)') \in Nat
    <2>1. Unpaid(t)' \subseteq pending' /\ IsFiniteSet(pending')
        BY DEF Unpaid, StoreShape
    <2> QED BY <2>1, FS_Subset, FS_CardinalityType
<1>2. Cardinality(Unpaid(t) \cup {r}) = Cardinality(Unpaid(t)) + 1
    BY UnpaidNumber, FS_AddElement
<1>3. Cardinality(Unpaid(t) \cup {r}) <= Cardinality(Unpaid(t)')
    BY <1>1, FS_Subset
<1> QED BY <1>2, <1>3

\* The numbers that Upper and Lower compare.
LEMMA Numbers ==
    ASSUME StoreShape, NEW t
    PROVE  /\ Copies(t, counts) \in Nat /\ Copies(t, leaked) \in Nat /\ Rooted(t) \in {0, 1}
           /\ Cardinality(Holding(t)) \in Nat /\ Cardinality(Unpaid(t)) \in Nat
<1>1. Copies(t, counts) \in Nat /\ Copies(t, leaked) \in Nat
    BY CopiesNumber DEF StoreShape
<1>2. Rooted(t) \in {0, 1}
    BY DEF Rooted, One
<1> QED BY <1>1, <1>2, HoldingNumber, UnpaidNumber

LEMMA NumbersNext ==
    ASSUME StoreShape', NEW t
    PROVE  /\ Copies(t, counts') \in Nat /\ Copies(t, leaked') \in Nat /\ Rooted(t)' \in {0, 1}
           /\ Cardinality(Unpaid(t)') \in Nat
<1>1. Copies(t, counts') \in Nat /\ Copies(t, leaked') \in Nat
    BY CopiesNumber DEF StoreShape
<1>2. Rooted(t)' \in {0, 1}
    BY DEF Rooted, One
<1>3. Unpaid(t)' \subseteq pending' /\ IsFiniteSet(pending')
    BY DEF Unpaid, StoreShape
<1> QED BY <1>1, <1>2, <1>3, FS_Subset, FS_CardinalityType

LEMMA HeldIs ==
    ASSUME NEW t, IsABag(counts)
    PROVE  /\ Held(t) <=> t \in DOMAIN counts
           /\ Held(t) <=> Copies(t, counts) > 0
           /\ ~Held(t) => Copies(t, counts) = 0
<1>1. Held(t) <=> t \in DOMAIN counts
    BY DEF Held, BagIn, BagToSet
<1> QED BY <1>1, CopiesNumber DEF Copies

LEMMA DroppedIs ==
    ASSUME NEW x, IsABag(counts), counts' = Dropped(x)
    PROVE  /\ IsABag(counts')
           /\ \A t : Copies(t, counts') <= Copies(t, counts) /\ (t # x => Copies(t, counts') = Copies(t, counts))
           /\ Held(x) => Copies(x, counts') + 1 = Copies(x, counts)
           /\ ~Held(x) => Copies(x, counts') = 0
<1>0. \A t : Copies(t, counts) \in Nat
    BY CopiesNumber
<1>1. CASE Held(x)
    <2>1. counts' = counts (-) SetToBag({x}) /\ x \in DOMAIN counts
        BY <1>1, HeldIs DEF Dropped
    <2>2. IsABag(counts') /\ \A t : Copies(t, counts') + One(t = x) = Copies(t, counts)
        BY <2>1, TakeOne
    <2>3. \A t : Copies(t, counts') \in Nat
        BY <2>2, CopiesNumber
    <2>4. \A t : (t = x => One(t = x) = 1) /\ (t # x => One(t = x) = 0)
        BY DEF One
    <2> QED BY <1>0, <1>1, <2>2, <2>3, <2>4
<1>2. CASE ~Held(x)
    BY <1>0, <1>2, HeldIs DEF Dropped
<1> QED BY <1>1, <1>2

LEMMA TakenIs ==
    ASSUME NEW x, IsABag(counts), counts' = counts (+) SetToBag({x})
    PROVE  IsABag(counts') /\ \A t : Copies(t, counts') = Copies(t, counts) + One(t = x)
BY AddOne

LEMMA LeakedIs ==
    ASSUME NEW x, IsABag(leaked), leaked' = leaked (+) SetToBag({x})
    PROVE  IsABag(leaked') /\ \A t : Copies(t, leaked') = Copies(t, leaked) + One(t = x)
BY AddOne

\* Within what was leaked and one reference more.
WithinOne(x) == IsABag(counts) /\ \A t : Copies(t, counts) <= Copies(t, leaked) + One(t = x)

\* What was leaked, and one reference more.
OneMore(x) == leaked (+) SetToBag({x})

LEMMA OneMoreIs ==
    ASSUME NEW x, IsABag(leaked)
    PROVE  IsABag(OneMore(x)) /\ \A t : Copies(t, OneMore(x)) = Copies(t, leaked) + One(t = x)
<1>1. ASSUME NEW c, c = OneMore(x)
      PROVE  IsABag(c) /\ \A t : Copies(t, c) = Copies(t, leaked) + One(t = x)
    <2>1. c = leaked (+) SetToBag({x})
        BY <1>1 DEF OneMore
    <2> QED BY <2>1, AddOne
<1> QED BY <1>1

LEMMA WithinOneIs ==
    ASSUME NEW x, IsABag(leaked), WithinOne(x)
    PROVE  counts \sqsubseteq (leaked (+) SetToBag({x}))
<1>1. IsABag(OneMore(x)) /\ \A t : Copies(t, OneMore(x)) = Copies(t, leaked) + One(t = x)
    BY OneMoreIs
<1>2. IsABag(counts) /\ \A t : Copies(t, counts) <= Copies(t, OneMore(x))
    BY <1>1 DEF WithinOne
<1>3. counts \sqsubseteq OneMore(x)
    BY <1>1, <1>2, BelowByCopies
<1> QED BY <1>3 DEF OneMore

-----------------------------------------------------------------------------
(* Steps that leave the catalog alone *)

\* A row that may join the queue: it is known, older than the cataloged one,
\* and of a manifest that nobody counts on.
MayQueue(r) ==
    /\ Known(r)
    /\ r.id = catalog.id => r.revision < catalog.revision
    /\ ~returned => \A t : Live(t) => r.tree # t

\* What one worker's step may do to the references of a manifest.
UpperMoves(w, k, t) ==
    Copies(t, counts') + (Rooted(t) + (One(Keeps(job[w], t)) + (Cardinality(Unpaid(t)) + Copies(t, leaked))))
      <= Copies(t, counts) + (Rooted(t)' + (One(Keeps(k, t)) + (Cardinality(Unpaid(t)') + Copies(t, leaked'))))

LowerMoves(w, k, t) ==
    /\ Live(t) /\ ~Releases(k, t)' /\ (catalog.tree # t /\ LetGo(t)' => LetGo(t))
    /\ Copies(t, counts') + (Rooted(t) + One(Keeps(job[w], t)))
         >= Copies(t, counts) + (Rooted(t)' + One(Keeps(k, t)))

Fresh(t) == Free(t) /\ Copies(t, counts) >= Rooted(t) + Cardinality(Holding(t))

LEMMA SteadyStep ==
    ASSUME Core, NEW w \in Worker, NEW k \in Jobs, job' = [job EXCEPT ![w] = k],
           catalog' = catalog, past' = past, StoreShape', SmokeShape',
           JobSound(k)', returned => returned',
           \A a \in applied' : a.id[1] = catalog.id => a.id[2] < catalog.revision,
           \A r \in pending' : r \in pending \/ MayQueue(r),
           \A x \in Mentions(k) : Known(x),
           \A x \in QueuedBy(k) : InQueue(x),
           \A t : ~returned' => UpperMoves(w, k, t) \/ Copies(t, counts') = 0,
           \A t : ~returned' /\ Live(t)' => LowerMoves(w, k, t) \/ Fresh(t)'
    PROVE  Core'
<1>1. /\ FilesShape /\ KnownInv /\ JobsSound /\ Upper /\ Lower /\ JobShape /\ StoreShape
    BY DEF Core, FilesShape
<1>2. JobShape' /\ job'[w] = k /\ \A v \in Worker : v # w => job'[v] = job[v]
    BY <1>1, JobMoves
<1>3. FilesShape'
    BY <1>2 DEF FilesShape
<1>4. JobsSound'
    BY <1>1, <1>2 DEF JobsSound, JobSound
<1>5. ASSUME NEW x, Known(x)' PROVE Known(x)
    BY <1>2, <1>5 DEF Known, MayQueue
<1>6. ASSUME NEW x, InQueue(x)' PROVE InQueue(x) \/ MayQueue(x)
    BY <1>2, <1>6 DEF InQueue
<1>7. KnownInv'
    <2>1. /\ \A x : Known(x) => x \in Rows /\ x.id # None /\ (x.id = catalog.id => x.revision <= catalog.revision)
          /\ \A x, y : Known(x) /\ Known(y) /\ x.id = y.id /\ x.revision = y.revision => x = y
          /\ \A x : InQueue(x) /\ x.id = catalog.id => x.revision < catalog.revision
          /\ catalog # NoRoot => catalog.id # None /\ catalog.tree \in past
        BY <1>1 DEF KnownInv
    <2>2. \A x : InQueue(x)' /\ x.id = catalog.id => x.revision < catalog.revision
        BY <1>6, <2>1 DEF MayQueue
    <2>3. \A x : Known(x)' => x \in Rows /\ x.id # None /\ (x.id = catalog.id => x.revision <= catalog.revision)
        BY <1>5, <2>1
    <2>4. \A x, y : Known(x)' /\ Known(y)' /\ x.id = y.id /\ x.revision = y.revision => x = y
        BY <1>5, <2>1
    <2> QED BY <2>1, <2>2, <2>3, <2>4 DEF KnownInv
<1>8. Upper'
    <2> SUFFICES ASSUME ~returned', NEW t
                 PROVE  Copies(t, counts') <= Copies(t, leaked')
                          + (Rooted(t)' + (Cardinality(Holding(t)') + Cardinality(Unpaid(t)')))
        BY DEF Upper
    <2>1. Copies(t, counts) <= Copies(t, leaked) + (Rooted(t) + (Cardinality(Holding(t)) + Cardinality(Unpaid(t))))
        BY <1>1 DEF Upper
    <2>2. UpperMoves(w, k, t) \/ Copies(t, counts') = 0
        OBVIOUS
    <2>3. Cardinality(Holding(t)') + One(Keeps(job[w], t)) = Cardinality(Holding(t)) + One(Keeps(k, t))
          /\ Cardinality(Holding(t)') \in Nat /\ Cardinality(Holding(t)) \in Nat
        BY <1>1, HoldingMoves
    <2>4. One(Keeps(job[w], t)) \in {0, 1} /\ One(Keeps(k, t)) \in {0, 1}
        BY DEF One
    <2>5. Copies(t, counts) \in Nat /\ Copies(t, leaked) \in Nat /\ Rooted(t) \in {0, 1} /\ Cardinality(Unpaid(t)) \in Nat
        BY <1>1, Numbers
    <2>6. Copies(t, counts') \in Nat /\ Copies(t, leaked') \in Nat /\ Rooted(t)' \in {0, 1} /\ Cardinality(Unpaid(t)') \in Nat
        BY NumbersNext
    <2>7. CASE UpperMoves(w, k, t)
        BY <2>1, <2>3, <2>4, <2>5, <2>6, <2>7 DEF UpperMoves
    <2>8. CASE Copies(t, counts') = 0
        BY <2>3, <2>6, <2>8
    <2> QED BY <2>2, <2>7, <2>8
<1>9. Lower'
    <2> SUFFICES ASSUME ~returned', NEW t, Live(t)'
                 PROVE  Free(t)' /\ Copies(t, counts') >= Rooted(t)' + Cardinality(Holding(t)')
        BY DEF Lower
    <2>1. CASE Fresh(t)'
        BY <2>1 DEF Fresh
    <2>2. CASE LowerMoves(w, k, t)
        <3>1. Live(t) /\ ~Releases(k, t)' /\ Free(t) /\ Copies(t, counts) >= Rooted(t) + Cardinality(Holding(t))
            BY <1>1, <2>2 DEF LowerMoves, Lower
        <3>2. Free(t)'
            <4>1. \A r \in pending' : r.tree # t
                BY <3>1 DEF Free, MayQueue
            <4>2. ASSUME NEW v \in Worker PROVE ~Releases(job[v], t)'
                <5>1. CASE v = w
                    BY <1>2, <3>1, <5>1 DEF Releases, QueuedBy, SameRow
                <5>2. CASE v # w
                    BY <1>2, <3>1, <5>2 DEF Free, Releases, QueuedBy, SameRow
                <5> QED BY <5>1, <5>2
            <4>3. catalog'.tree # t => ~LetGo(t)'
                BY <2>2, <3>1 DEF Free, LowerMoves
            <4> QED BY <4>1, <4>2, <4>3 DEF Free
        <3>3. Cardinality(Holding(t)') + One(Keeps(job[w], t)) = Cardinality(Holding(t)) + One(Keeps(k, t))
              /\ Cardinality(Holding(t)') \in Nat /\ Cardinality(Holding(t)) \in Nat
            BY <1>1, HoldingMoves
        <3>4. One(Keeps(job[w], t)) \in {0, 1} /\ One(Keeps(k, t)) \in {0, 1}
            BY DEF One
        <3>5. Copies(t, counts) \in Nat /\ Rooted(t) \in {0, 1}
            BY <1>1, Numbers
        <3>6. Copies(t, counts') \in Nat /\ Rooted(t)' \in {0, 1}
            BY NumbersNext
        <3>7. Copies(t, counts') + (Rooted(t) + One(Keeps(job[w], t)))
                >= Copies(t, counts) + (Rooted(t)' + One(Keeps(k, t)))
            BY <2>2 DEF LowerMoves
        <3>8. Copies(t, counts') >= Rooted(t)' + Cardinality(Holding(t)')
            BY <3>1, <3>3, <3>4, <3>5, <3>6, <3>7
        <3> QED BY <3>2, <3>8
    <2> QED BY <2>1, <2>2
<1> QED BY <1>3, <1>4, <1>7, <1>8, <1>9 DEF Core

\* The catalog's share does not change when neither it nor the updates sent do.
LEMMA RootedSame ==
    ASSUME catalog' = catalog, applied' = applied, NEW t
    PROVE  Rooted(t)' = Rooted(t)
BY DEF Rooted, RootLetGo

LEMMA UnpaidSame ==
    ASSUME StoreShape, StoreShape', JobShape, NEW w \in Worker, NEW k \in Jobs, job' = [job EXCEPT ![w] = k],
           pending \subseteq pending', applied' = applied,
           k.pc = "complete" => Replayed(ReleaseId(k.row), k.row.tree), NEW t
    PROVE  Cardinality(Unpaid(t)) <= Cardinality(Unpaid(t)')
<1>1. job'[w] = k /\ \A v \in Worker : v # w => job'[v] = job[v]
    BY JobMoves
<1>2. ASSUME NEW r, Settling(r)' PROVE Settling(r) \/ Replayed(ReleaseId(r), r.tree)
    BY <1>1, <1>2 DEF Settling
<1>3. Unpaid(t) \subseteq Unpaid(t)'
    BY <1>2 DEF Unpaid, Replayed
<1> QED BY <1>3, UnpaidGrows

\* With the catalog as it was, a worker that may not commit makes nothing live.
LEMMA LiveBefore ==
    ASSUME JobShape, NEW w \in Worker, NEW k \in Jobs, job' = [job EXCEPT ![w] = k],
           catalog' = catalog, past' = past, NEW t, Live(t)', MayCommit(k, t) => MayCommit(job[w], t)
    PROVE  Live(t)
<1>1. job'[w] = k /\ \A v \in Worker : v # w => job'[v] = job[v]
    BY JobMoves
<1>2. CASE \E v \in Worker : MayCommit(job[v], t)'
    <2>1. PICK v \in Worker : MayCommit(job[v], t)'
        BY <1>2
    <2>2. MayCommit(job'[v], t)
        BY <2>1 DEF MayCommit, SameRow
    <2>3. MayCommit(job[v], t)
        BY <1>1, <2>2
    <2> QED BY <2>3 DEF Live
<1>3. CASE ~\E v \in Worker : MayCommit(job[v], t)'
    BY <1>3 DEF Live
<1> QED BY <1>2, <1>3

\* A worker at a step that neither holds nor releases a reference.
PassiveJob(k) ==
    /\ k.pc \in Passive
    /\ k.pc \in {"assert", "list"} => k.op # "none"
    /\ k.pc \in {"create run", "ensure", "hold"} => k.next = EmptyTree

LEMMA PassiveIs ==
    ASSUME NEW k, PassiveJob(k)
    PROVE  /\ Mentions(k) = {} /\ QueuedBy(k) = {} /\ k.pc # "complete" /\ JobSound(k)'
           /\ \A t : ~Keeps(k, t) /\ One(Keeps(k, t)) = 0 /\ ~MayCommit(k, t) /\ ~Releases(k, t)'
<1>1. Mentions(k) = {} /\ QueuedBy(k) = {} /\ (\A t : ~Keeps(k, t) /\ ~MayCommit(k, t) /\ ~Releases(k, t)')
      /\ k.pc # "complete"
    BY DEF PassiveJob, Mentions, QueuedBy, Keeps, MayCommit, Releases, Passive, Editing, Reconciling, Keeping
<1>2. JobSound(k)'
    BY DEF PassiveJob, JobSound, Passive, Editing, Reconciling
<1> QED BY <1>1, <1>2 DEF One

LEMMA PassiveStep ==
    ASSUME Core, NEW w \in Worker, NEW k \in Jobs, PassiveJob(k),
           job' = [job EXCEPT ![w] = k], UNCHANGED <<catalog, pending, counts, applied, past, returned>>,
           SmokeShape', IsABag(leaked'), \A t : Copies(t, leaked') = Copies(t, leaked) + One(Keeps(job[w], t))
    PROVE  Core'
<1>1. FilesShape /\ KnownInv /\ JobShape /\ StoreShape
    BY DEF Core, FilesShape
<1>2. StoreShape'
    BY <1>1 DEF StoreShape
<1>3. /\ Mentions(k) = {} /\ QueuedBy(k) = {} /\ k.pc # "complete" /\ JobSound(k)'
      /\ \A t : ~Keeps(k, t) /\ One(Keeps(k, t)) = 0 /\ ~MayCommit(k, t) /\ ~Releases(k, t)'
    BY PassiveIs
<1>5. ASSUME NEW t PROVE UpperMoves(w, k, t)
    <2>1. Rooted(t)' = Rooted(t) /\ Cardinality(Unpaid(t)) <= Cardinality(Unpaid(t)')
        BY <1>1, <1>2, <1>3, RootedSame, UnpaidSame
    <2>2. One(Keeps(job[w], t)) \in {0, 1} /\ One(Keeps(k, t)) = 0
        BY <1>3 DEF One
    <2>3. Copies(t, counts) \in Nat /\ Copies(t, leaked) \in Nat /\ Rooted(t) \in {0, 1} /\ Cardinality(Unpaid(t)) \in Nat
          /\ Cardinality(Unpaid(t)') \in Nat
        BY <1>1, <1>2, Numbers, NumbersNext
    <2>4. Copies(t, counts') = Copies(t, counts) /\ Copies(t, leaked') = Copies(t, leaked) + One(Keeps(job[w], t))
        OBVIOUS
    <2>5. PICK a, b, c, d, e, f : a = Copies(t, counts) /\ b = Copies(t, leaked) /\ c = Rooted(t)
              /\ d = Cardinality(Unpaid(t)) /\ e = Cardinality(Unpaid(t)') /\ f = One(Keeps(job[w], t))
        OBVIOUS
    <2>6. a + (c + (f + (d + b))) <= a + (c + (0 + (e + (b + f))))
        BY <2>1, <2>2, <2>3, <2>5
    <2> QED BY <2>1, <2>2, <2>4, <2>5, <2>6 DEF UpperMoves
<1>6. ASSUME NEW t, Live(t)' PROVE LowerMoves(w, k, t)
    <2>1. Live(t)
        BY <1>1, <1>3, <1>6, LiveBefore
    <2>2. Rooted(t)' = Rooted(t)
        BY RootedSame
    <2>3. One(Keeps(job[w], t)) \in {0, 1} /\ One(Keeps(k, t)) = 0
        BY <1>3 DEF One
    <2>4. Copies(t, counts) \in Nat /\ Rooted(t) \in {0, 1} /\ Copies(t, counts') = Copies(t, counts)
        BY <1>1, Numbers
    <2>5. LetGo(t)' => LetGo(t)
        BY DEF LetGo
    <2>6. Copies(t, counts') + (Rooted(t) + One(Keeps(job[w], t)))
            >= Copies(t, counts) + (Rooted(t)' + One(Keeps(k, t)))
        BY <2>2, <2>3, <2>4
    <2> QED BY <1>3, <2>1, <2>5, <2>6 DEF LowerMoves
<1>7. \A a \in applied' : a.id[1] = catalog.id => a.id[2] < catalog.revision
    BY <1>1 DEF KnownInv
<1>8. (\A r \in pending' : r \in pending) /\ (returned => returned')
    OBVIOUS
<1> QED BY <1>2, <1>3, <1>5, <1>6, <1>7, <1>8, SteadyStep

\* A step that leaves the store and the queue alone and holds what it held.
LEMMA QuietStep ==
    ASSUME Core, NEW w \in Worker, NEW k \in Jobs, job' = [job EXCEPT ![w] = k],
           UNCHANGED <<catalog, pending, counts, applied, past, returned, leaked>>, SmokeShape',
           k.pc = "complete" => Replayed(ReleaseId(k.row), k.row.tree), JobSound(k)',
           \A x \in Mentions(k) : Known(x), \A x \in QueuedBy(k) : InQueue(x),
           \A t : (Keeps(k, t) <=> Keeps(job[w], t)) /\ (MayCommit(k, t) => MayCommit(job[w], t)),
           \A t : Free(t) => ~Releases(k, t)'
    PROVE  Core'
<1>1. FilesShape /\ KnownInv /\ Lower /\ JobShape /\ StoreShape
    BY DEF Core, FilesShape
<1>2. StoreShape'
    BY <1>1 DEF StoreShape
<1>3. ASSUME NEW t PROVE UpperMoves(w, k, t)
    <2>1. Rooted(t)' = Rooted(t) /\ Cardinality(Unpaid(t)) <= Cardinality(Unpaid(t)')
        BY <1>1, <1>2, RootedSame, UnpaidSame
    <2>2. One(Keeps(job[w], t)) \in {0, 1} /\ One(Keeps(k, t)) = One(Keeps(job[w], t))
        BY DEF One
    <2>3. Copies(t, counts) \in Nat /\ Copies(t, leaked) \in Nat /\ Rooted(t) \in {0, 1} /\ Cardinality(Unpaid(t)) \in Nat
          /\ Cardinality(Unpaid(t)') \in Nat
        BY <1>1, <1>2, Numbers, NumbersNext
    <2>4. Copies(t, counts') = Copies(t, counts) /\ Copies(t, leaked') = Copies(t, leaked)
        OBVIOUS
    <2> QED BY <2>1, <2>2, <2>3, <2>4 DEF UpperMoves
<1>4. ASSUME NEW t, ~returned', Live(t)' PROVE LowerMoves(w, k, t)
    <2>1. Live(t)
        BY <1>1, <1>4, LiveBefore
    <2>2. Rooted(t)' = Rooted(t)
        BY RootedSame
    <2>3. One(Keeps(job[w], t)) \in {0, 1} /\ One(Keeps(k, t)) = One(Keeps(job[w], t))
        BY DEF One
    <2>4. Copies(t, counts) \in Nat /\ Rooted(t) \in {0, 1} /\ Copies(t, counts') = Copies(t, counts)
        BY <1>1, Numbers
    <2>5. (LetGo(t)' => LetGo(t)) /\ ~Releases(k, t)'
        BY <1>1, <1>4, <2>1 DEF LetGo, Lower
    <2>6. Copies(t, counts') + (Rooted(t) + One(Keeps(job[w], t)))
            >= Copies(t, counts) + (Rooted(t)' + One(Keeps(k, t)))
        BY <2>2, <2>3, <2>4
    <2> QED BY <2>1, <2>5, <2>6 DEF LowerMoves
<1>5. \A a \in applied' : a.id[1] = catalog.id => a.id[2] < catalog.revision
    BY <1>1 DEF KnownInv
<1>6. (\A r \in pending' : r \in pending) /\ (returned => returned')
    OBVIOUS
<1> QED BY <1>2, <1>3, <1>4, <1>5, <1>6, SteadyStep

-----------------------------------------------------------------------------
(* The steps of an invocation *)

\* A working copy is opened from the cataloged root.
LEMMA OpenKeeps ==
    ASSUME Core, NEW w \in Worker, catalog # NoRoot, NEW t \in Trees,
           NEW j \in Jobs, j.op # "none", job[w].pc \in Passive,
           job' = [job EXCEPT ![w] = Opened(j, catalog, t)],
           UNCHANGED <<catalog, pending, counts, applied, past, returned, leaked>>, SmokeShape'
    PROVE  Core'
<1>1. FilesShape /\ KnownInv /\ JobShape /\ StoreShape
    BY DEF Core, FilesShape
<1>2. PICK k : k = Opened(j, catalog, t)
    OBVIOUS
<1>3. /\ k \in Jobs /\ k.root = catalog /\ k.next = t /\ k.op = j.op
      /\ k.pc = IF t = catalog.tree THEN "assert" ELSE "retain"
    BY <1>1, <1>2 DEF Opened, Jobs, StoreShape, Editing, Passive
<1>4. job' = [job EXCEPT ![w] = k]
    BY <1>2
<1>5. \A u : ~Keeps(job[w], u)
    BY DEF Keeps, Keeping, Passive
<1>6. CASE t = catalog.tree
    <2>1. PassiveJob(k)
        BY <1>3, <1>6 DEF PassiveJob, Passive
    <2>2. IsABag(leaked') /\ \A u : Copies(u, leaked') = Copies(u, leaked) + One(Keeps(job[w], u))
        <3>1. IsABag(leaked) /\ \A u : Copies(u, leaked) \in Nat
            BY <1>1, CopiesNumber DEF StoreShape
        <3> QED BY <1>5, <3>1 DEF One
    <2> QED BY <1>3, <1>4, <2>1, <2>2, PassiveStep
<1>7. CASE t # catalog.tree
    <2>1. k.pc = "retain"
        BY <1>3, <1>7
    <2>2. Mentions(k) = {catalog} /\ QueuedBy(k) = {} /\ Known(catalog)
        BY <1>3, <2>1 DEF Mentions, QueuedBy, Editing, Reconciling, Known
    <2>3. JobSound(k)'
        BY <1>3, <1>7, <2>1 DEF JobSound
    <2>4. \A u : ~Keeps(k, u) /\ ~MayCommit(k, u) /\ ~Releases(k, u)'
        BY <1>3, <2>1, <2>2 DEF Keeps, Keeping, MayCommit, Releases, SameRow
    <2> QED BY <1>3, <1>4, <1>5, <2>1, <2>2, <2>3, <2>4, QuietStep
<1> QED BY <1>6, <1>7

LEMMA CheckRevisionKeeps ==
    ASSUME Core, NEW w \in Worker, CheckRevision(w)
    PROVE  Core'
<1>1. FilesShape /\ KnownInv /\ JobsSound /\ JobShape /\ SmokeShape
    BY DEF Core, FilesShape
<1>2. PICK pc \in {"batch", "undo"} : Goto(w, pc) /\ (pc = "batch" <=> SameRow(job[w].root))
    BY DEF CheckRevision
<1>3. job[w].pc = "check" /\ UNCHANGED <<catalog, pending, counts, applied, smoke, past, returned, leaked>>
    BY DEF CheckRevision, At, db, ghost
<1>4. PICK k \in Jobs : job' = [job EXCEPT ![w] = k] /\ k.pc = pc /\ SamePlan(k, job[w])
    BY <1>1, <1>2, GotoIs DEF Editing, Keeping
<1>5. JobSound(job[w])
    BY <1>1 DEF JobsSound
<1>6. JobSound(k)'
    BY <1>2, <1>3, <1>4, <1>5 DEF JobSound, SamePlan, Editing, Reconciling
<1>7. QueuedBy(k) = {} /\ \A x \in Mentions(k) : x \in Mentions(job[w])
    BY <1>2, <1>3, <1>4 DEF QueuedBy, Mentions, Editing, Reconciling, SamePlan
<1>8. \A t : (Keeps(k, t) <=> Keeps(job[w], t)) /\ (MayCommit(k, t) => MayCommit(job[w], t))
    BY <1>2, <1>3, <1>4 DEF Keeps, Keeping, MayCommit, SamePlan
<1>9. \A t : ~Releases(k, t)' \/ Releases(job[w], t)
    BY <1>2, <1>3, <1>4, <1>7 DEF Releases, SameRow, SamePlan
<1>10. SmokeShape' /\ (\A x \in Mentions(k) : Known(x)) /\ k.pc # "complete"
    BY <1>1, <1>2, <1>3, <1>4, <1>7 DEF SmokeShape, Known
<1>11. \A t : Free(t) => ~Releases(k, t)'
    BY <1>9 DEF Free
<1> QED BY <1>3, <1>4, <1>6, <1>7, <1>8, <1>10, <1>11, QuietStep

LEMMA RereadKeeps ==
    ASSUME Core, NEW w \in Worker, Reread(w)
    PROVE  Core'
<1>1. FilesShape /\ KnownInv /\ JobsSound /\ JobShape /\ SmokeShape /\ StoreShape
    BY DEF Core, FilesShape
<1>2. job[w].pc = "reread" /\ UNCHANGED <<catalog, pending, counts, applied, smoke, past, returned, leaked>>
    BY DEF Reread, At, db, ghost
<1>3. JobSound(job[w]) /\ catalog.id = job[w].root.id /\ job[w] \in Jobs /\ catalog \in Rows
    BY <1>1, <1>2 DEF JobsSound, JobSound, JobShape, StoreShape
<1>4. job' = [job EXCEPT ![w].info = catalog, ![w].pc = "release"]
    BY <1>3 DEF Reread
<1>5. PICK k : k = [job[w] EXCEPT !.info = catalog, !.pc = "release"]
    OBVIOUS
<1>6. k \in Jobs /\ k.pc = "release" /\ k.root = job[w].root /\ k.next = job[w].next /\ k.op = job[w].op
    BY <1>3, <1>5 DEF Jobs, Editing
<1>7. job' = [job EXCEPT ![w] = k]
    BY <1>1, <1>4, <1>5 DEF JobShape
<1>8. JobSound(k)'
    BY <1>2, <1>3, <1>6 DEF JobSound, Editing, Reconciling
<1>9. QueuedBy(k) = {} /\ \A x \in Mentions(k) : x \in Mentions(job[w])
    BY <1>2, <1>6 DEF QueuedBy, Mentions, Editing, Reconciling
<1>10. \A t : (Keeps(k, t) <=> Keeps(job[w], t)) /\ (MayCommit(k, t) => MayCommit(job[w], t))
    BY <1>2, <1>6 DEF Keeps, Keeping, MayCommit
<1>11. \A t : ~Releases(k, t)' \/ Releases(job[w], t)
    BY <1>2, <1>6, <1>9 DEF Releases
<1>12. SmokeShape' /\ (\A x \in Mentions(k) : Known(x)) /\ k.pc # "complete"
    BY <1>1, <1>2, <1>6, <1>9 DEF SmokeShape, Known
<1>13. \A t : Free(t) => ~Releases(k, t)'
    BY <1>11 DEF Free
<1> QED BY <1>2, <1>6, <1>7, <1>8, <1>9, <1>10, <1>12, <1>13, QuietStep

LEMMA ListPendingKeeps ==
    ASSUME Core, NEW w \in Worker, ListPending(w)
    PROVE  Core'
<1>1. FilesShape /\ KnownInv /\ JobsSound /\ JobShape /\ SmokeShape /\ StoreShape
    BY DEF Core, FilesShape
<1>2. job[w].pc = "list" /\ UNCHANGED <<catalog, pending, counts, applied, smoke, past, returned, leaked>>
    BY DEF ListPending, At, db, ghost
<1>3. JobSound(job[w]) /\ job[w] \in Jobs /\ pending \in SUBSET Rows
    BY <1>1 DEF JobsSound, JobShape, StoreShape
<1>4. job' = [job EXCEPT ![w].todo = pending, ![w].pc = "reconcile"]
    BY DEF ListPending
<1>5. PICK k : k = [job[w] EXCEPT !.todo = pending, !.pc = "reconcile"]
    OBVIOUS
<1>6. k \in Jobs /\ k.pc = "reconcile" /\ k.todo = pending /\ k.op = job[w].op
    BY <1>3, <1>5 DEF Jobs, Reconciling
<1>7. job' = [job EXCEPT ![w] = k]
    BY <1>1, <1>4, <1>5 DEF JobShape
<1>8. JobSound(k)'
    BY <1>2, <1>3, <1>6 DEF JobSound
<1>9. QueuedBy(k) = pending /\ Mentions(k) = pending
    BY <1>6 DEF QueuedBy, Mentions, Editing, Reconciling
<1>10. \A t : ~Keeps(k, t) /\ ~Keeps(job[w], t) /\ ~MayCommit(k, t)
    BY <1>2, <1>6 DEF Keeps, Keeping, MayCommit
<1>11. \A t : Free(t) => ~Releases(k, t)'
    BY <1>6, <1>9 DEF Free, Releases
<1>12. SmokeShape' /\ (\A x \in Mentions(k) : Known(x)) /\ (\A x \in QueuedBy(k) : InQueue(x)) /\ k.pc # "complete"
    BY <1>1, <1>2, <1>6, <1>9 DEF SmokeShape, Known, InQueue
<1> QED BY <1>2, <1>6, <1>7, <1>8, <1>10, <1>11, <1>12, QuietStep

\* Reading a count of zero settles the release: nothing is referenced.
LEMMA ReadCountKeeps ==
    ASSUME Core, NEW w \in Worker, ReadCount(w)
    PROVE  Core'
<1>1. FilesShape /\ KnownInv /\ JobsSound /\ JobShape /\ SmokeShape /\ StoreShape /\ Lower
    BY DEF Core, FilesShape
<1>2. job[w].pc = "reconcile" /\ UNCHANGED <<catalog, pending, counts, applied, smoke, past, returned, leaked>>
    BY DEF ReadCount, At, db, ghost
<1>3. JobSound(job[w]) /\ job[w] \in Jobs
    BY <1>1 DEF JobsSound, JobShape
<1>4. PICK r \in job[w].todo :
          job' = [job EXCEPT ![w].row = r, ![w].todo = @ \ {r},
                             ![w].pc = IF Held(r.tree) THEN "drop" ELSE "complete"]
    BY DEF ReadCount
<1>5. PICK k : k = [job[w] EXCEPT !.row = r, !.todo = @ \ {r}, !.pc = IF Held(r.tree) THEN "drop" ELSE "complete"]
    OBVIOUS
<1>6. k \in Jobs /\ k.pc = (IF Held(r.tree) THEN "drop" ELSE "complete")
      /\ k.todo = job[w].todo \ {r} /\ k.row = r /\ k.op = job[w].op
    BY <1>3, <1>5 DEF Jobs, Reconciling
<1>7. job' = [job EXCEPT ![w] = k]
    BY <1>1, <1>4, <1>5 DEF JobShape
<1>8. JobSound(k)'
    BY <1>2, <1>3, <1>6 DEF JobSound, Editing, Reconciling
<1>9. QueuedBy(k) = QueuedBy(job[w]) /\ Mentions(k) = Mentions(job[w])
    BY <1>2, <1>6 DEF QueuedBy, Mentions, Editing, Reconciling
<1>10. \A t : ~Keeps(k, t) /\ ~Keeps(job[w], t) /\ ~MayCommit(k, t)
    BY <1>2, <1>6 DEF Keeps, Keeping, MayCommit
<1>11. \A t : Free(t) => ~Releases(k, t)'
    BY <1>2, <1>6, <1>9 DEF Free, Releases
<1>12. SmokeShape' /\ (\A x \in Mentions(k) : Known(x)) /\ (\A x \in QueuedBy(k) : InQueue(x))
    BY <1>1, <1>2, <1>9 DEF SmokeShape, Known, InQueue
<1>13. CASE Held(r.tree)
    <2>1. k.pc # "complete"
        BY <1>6, <1>13
    <2> QED BY <1>2, <1>6, <1>7, <1>8, <1>10, <1>11, <1>12, <2>1, QuietStep
<1>14. CASE ~Held(r.tree)
    <2>1. k.pc = "complete" /\ Copies(r.tree, counts) = 0
        BY <1>1, <1>6, <1>14, HeldIs DEF StoreShape
    <2>2. StoreShape'
        BY <1>1, <1>2 DEF StoreShape
    <2>3. job'[w] = k /\ \A v \in Worker : v # w => job'[v] = job[v]
        BY <1>1, <1>6, <1>7, JobMoves
    <2>4. ASSUME NEW t PROVE UpperMoves(w, k, t) \/ Copies(t, counts') = 0
        <3>1. CASE t = r.tree
            BY <1>2, <2>1, <3>1
        <3>2. CASE t # r.tree
            <4>1. ASSUME NEW x, Settling(x)', x.tree = t PROVE Settling(x)
                BY <1>6, <2>3, <3>2, <4>1 DEF Settling
            <4>2. Unpaid(t) \subseteq Unpaid(t)'
                BY <1>2, <4>1 DEF Unpaid, Replayed
            <4>3. Rooted(t)' = Rooted(t) /\ Cardinality(Unpaid(t)) <= Cardinality(Unpaid(t)')
                BY <1>1, <1>2, <2>2, <4>2, RootedSame, UnpaidGrows
            <4>4. One(Keeps(job[w], t)) = 0 /\ One(Keeps(k, t)) = 0
                BY <1>10 DEF One
            <4>5. Copies(t, counts) \in Nat /\ Copies(t, leaked) \in Nat /\ Rooted(t) \in {0, 1}
                  /\ Cardinality(Unpaid(t)) \in Nat /\ Cardinality(Unpaid(t)') \in Nat
                BY <1>1, <2>2, Numbers, NumbersNext
            <4>6. Copies(t, counts') = Copies(t, counts) /\ Copies(t, leaked') = Copies(t, leaked)
                BY <1>2
            <4> QED BY <4>3, <4>4, <4>5, <4>6 DEF UpperMoves
        <3> QED BY <3>1, <3>2
    <2>5. ASSUME NEW t, ~returned', Live(t)' PROVE LowerMoves(w, k, t)
        <3>1. Live(t)
            BY <1>1, <1>2, <1>6, <1>7, <1>10, <2>5, LiveBefore
        <3>2. Rooted(t)' = Rooted(t)
            BY <1>2, RootedSame
        <3>3. One(Keeps(job[w], t)) = 0 /\ One(Keeps(k, t)) = 0
            BY <1>10 DEF One
        <3>4. Copies(t, counts) \in Nat /\ Rooted(t) \in {0, 1} /\ Copies(t, counts') = Copies(t, counts)
            BY <1>1, <1>2, Numbers
        <3>5. (LetGo(t)' => LetGo(t)) /\ ~Releases(k, t)'
            BY <1>1, <1>2, <1>11, <2>5, <3>1 DEF LetGo, Lower
        <3>6. Copies(t, counts') + (Rooted(t) + One(Keeps(job[w], t)))
                >= Copies(t, counts) + (Rooted(t)' + One(Keeps(k, t)))
            BY <3>2, <3>3, <3>4
        <3> QED BY <3>1, <3>5, <3>6 DEF LowerMoves
    <2>6. \A a \in applied' : a.id[1] = catalog.id => a.id[2] < catalog.revision
        BY <1>1, <1>2 DEF KnownInv
    <2>7. (\A x \in pending' : x \in pending) /\ (returned => returned') /\ catalog' = catalog /\ past' = past
        BY <1>2
    <2> QED BY <1>6, <1>7, <1>8, <1>12, <2>2, <2>4, <2>5, <2>6, <2>7, SteadyStep
<1> QED BY <1>13, <1>14

LEMMA CompleteReleaseKeeps ==
    ASSUME Core, NEW w \in Worker, CompleteRelease(w)
    PROVE  Core'
<1>1. FilesShape /\ KnownInv /\ JobsSound /\ JobShape /\ SmokeShape /\ StoreShape /\ Lower
    BY DEF Core, FilesShape
<1>2. /\ job[w].pc = "complete" /\ UNCHANGED <<catalog, counts, applied, smoke, past, returned, leaked>>
      /\ Goto(w, "reconcile") /\ pending' = {r \in pending : ReleaseId(r) # ReleaseId(job[w].row)}
    BY DEF CompleteRelease, At, ghost
<1>3. PICK k \in Jobs : job' = [job EXCEPT ![w] = k] /\ k.pc = "reconcile" /\ SamePlan(k, job[w])
    BY <1>1, <1>2, GotoIs DEF Reconciling
<1>4. job'[w] = k /\ \A v \in Worker : v # w => job'[v] = job[v]
    BY <1>1, <1>3, JobMoves
<1>5. JobSound(job[w])
    BY <1>1 DEF JobsSound
<1>6. JobSound(k)'
    BY <1>2, <1>3, <1>5 DEF JobSound, SamePlan, Editing, Reconciling
<1>7. (\A x \in Mentions(k) : x \in Mentions(job[w])) /\ (\A x \in QueuedBy(k) : x \in QueuedBy(job[w]))
    BY <1>2, <1>3 DEF QueuedBy, Mentions, Editing, Reconciling, SamePlan
<1>8. (\A x \in Mentions(k) : Known(x)) /\ (\A x \in QueuedBy(k) : InQueue(x)) /\ SmokeShape'
    BY <1>1, <1>2, <1>7 DEF SmokeShape, Known, InQueue
<1>9. \A t : ~Keeps(k, t) /\ ~Keeps(job[w], t) /\ ~MayCommit(k, t)
    BY <1>2, <1>3 DEF Keeps, Keeping, MayCommit
<1>10. StoreShape'
    <2>1. pending' \subseteq pending /\ IsFiniteSet(pending')
        BY <1>1, <1>2, FS_Subset DEF StoreShape
    <2> QED BY <1>1, <1>2, <2>1 DEF StoreShape
\* Only the row itself has its identity.
<1>11. \A r \in pending : r \notin pending' => r = job[w].row
    <2>1. job[w].row \in Mentions(job[w])
        BY <1>2 DEF Mentions, QueuedBy
    <2>2. Known(job[w].row) /\ \A r \in pending : Known(r)
        BY <2>1 DEF Known
    <2>3. \A r \in pending : r \notin pending' => r.id = job[w].row.id /\ r.revision = job[w].row.revision
        BY <1>2 DEF ReleaseId
    <2> QED BY <1>1, <2>2, <2>3 DEF KnownInv
<1>12. Settling(job[w].row)
    BY <1>2 DEF Settling
<1>13. ASSUME NEW t PROVE UpperMoves(w, k, t)
    <2>1. ASSUME NEW r, Settling(r)' PROVE Settling(r)
        BY <1>3, <1>4, <2>1 DEF Settling
    <2>2. Unpaid(t) \subseteq Unpaid(t)'
        BY <1>2, <1>11, <1>12, <2>1 DEF Unpaid, Replayed
    <2>3. Rooted(t)' = Rooted(t) /\ Cardinality(Unpaid(t)) <= Cardinality(Unpaid(t)')
        BY <1>1, <1>2, <1>10, <2>2, RootedSame, UnpaidGrows
    <2>4. One(Keeps(job[w], t)) = 0 /\ One(Keeps(k, t)) = 0
        BY <1>9 DEF One
    <2>5. Copies(t, counts) \in Nat /\ Copies(t, leaked) \in Nat /\ Rooted(t) \in {0, 1}
          /\ Cardinality(Unpaid(t)) \in Nat /\ Cardinality(Unpaid(t)') \in Nat
        BY <1>1, <1>10, Numbers, NumbersNext
    <2>6. Copies(t, counts') = Copies(t, counts) /\ Copies(t, leaked') = Copies(t, leaked)
        BY <1>2
    <2> QED BY <2>3, <2>4, <2>5, <2>6 DEF UpperMoves
<1>14. ASSUME NEW t, ~returned', Live(t)' PROVE LowerMoves(w, k, t)
    <2>1. Live(t)
        BY <1>1, <1>2, <1>3, <1>9, <1>14, LiveBefore
    <2>2. Rooted(t)' = Rooted(t)
        BY <1>2, RootedSame
    <2>3. One(Keeps(job[w], t)) = 0 /\ One(Keeps(k, t)) = 0
        BY <1>9 DEF One
    <2>4. Copies(t, counts) \in Nat /\ Rooted(t) \in {0, 1} /\ Copies(t, counts') = Copies(t, counts)
        BY <1>1, <1>2, Numbers
    <2>5. LetGo(t)' => LetGo(t)
        BY <1>2 DEF LetGo
    <2>6. ~Releases(job[w], t)
        BY <1>1, <1>2, <1>14, <2>1 DEF Lower, Free
    <2>7. ~Releases(k, t)'
        BY <1>3, <1>7, <2>6 DEF Releases
    <2>8. Copies(t, counts') + (Rooted(t) + One(Keeps(job[w], t)))
            >= Copies(t, counts) + (Rooted(t)' + One(Keeps(k, t)))
        BY <2>2, <2>3, <2>4
    <2> QED BY <2>1, <2>5, <2>7, <2>8 DEF LowerMoves
<1>15. \A a \in applied' : a.id[1] = catalog.id => a.id[2] < catalog.revision
    BY <1>1, <1>2 DEF KnownInv
<1>16. (\A x \in pending' : x \in pending) /\ (returned => returned') /\ catalog' = catalog /\ past' = past
    BY <1>2
<1> QED BY <1>3, <1>6, <1>8, <1>10, <1>13, <1>14, <1>15, <1>16, SteadyStep

\* A worker that ends at a passive step after giving back a reference of a
\* manifest nobody counts on.
LEMMA ReleasingStep ==
    ASSUME Core, NEW w \in Worker, NEW k \in Jobs, PassiveJob(k), job' = [job EXCEPT ![w] = k],
           NEW x, counts' = Dropped(x), ~returned => Releases(job[w], x), \A t : ~Keeps(job[w], t),
           UNCHANGED <<catalog, pending, applied, smoke, past, returned, leaked>>
    PROVE  Core'
<1>1. FilesShape /\ KnownInv /\ JobShape /\ SmokeShape /\ StoreShape /\ Lower
    BY DEF Core, FilesShape
<1>2. /\ Mentions(k) = {} /\ QueuedBy(k) = {} /\ k.pc # "complete" /\ JobSound(k)'
      /\ \A t : ~Keeps(k, t) /\ One(Keeps(k, t)) = 0 /\ ~MayCommit(k, t) /\ ~Releases(k, t)'
    BY PassiveIs
<1>3. IsABag(counts') /\ \A t : Copies(t, counts') <= Copies(t, counts) /\ (t # x => Copies(t, counts') = Copies(t, counts))
    BY <1>1, DroppedIs DEF StoreShape
<1>4. StoreShape' /\ SmokeShape'
    BY <1>1, <1>3 DEF StoreShape, SmokeShape
<1>5. ASSUME NEW t PROVE UpperMoves(w, k, t)
    <2>1. Rooted(t)' = Rooted(t) /\ Cardinality(Unpaid(t)) <= Cardinality(Unpaid(t)')
        BY <1>1, <1>2, <1>4, RootedSame, UnpaidSame
    <2>2. One(Keeps(job[w], t)) = 0 /\ One(Keeps(k, t)) = 0
        BY <1>2 DEF One
    <2>3. Copies(t, counts) \in Nat /\ Copies(t, leaked) \in Nat /\ Rooted(t) \in {0, 1}
          /\ Cardinality(Unpaid(t)) \in Nat /\ Cardinality(Unpaid(t)') \in Nat /\ Copies(t, counts') \in Nat
        BY <1>1, <1>4, Numbers, NumbersNext
    <2>4. Copies(t, counts') <= Copies(t, counts) /\ Copies(t, leaked') = Copies(t, leaked)
        BY <1>3
    <2> QED BY <2>1, <2>2, <2>3, <2>4 DEF UpperMoves
<1>6. ASSUME NEW t, ~returned', Live(t)' PROVE LowerMoves(w, k, t)
    <2>1. Live(t)
        BY <1>1, <1>2, <1>6, LiveBefore
    <2>2. t # x
        BY <1>1, <1>6, <2>1 DEF Lower, Free
    <2>3. Rooted(t)' = Rooted(t) /\ (LetGo(t)' => LetGo(t))
        BY RootedSame DEF LetGo
    <2>4. One(Keeps(job[w], t)) = 0 /\ One(Keeps(k, t)) = 0
        BY <1>2 DEF One
    <2>5. Copies(t, counts) \in Nat /\ Rooted(t) \in {0, 1} /\ Copies(t, counts') = Copies(t, counts)
        BY <1>1, <1>3, <2>2, Numbers
    <2>6. Copies(t, counts') + (Rooted(t) + One(Keeps(job[w], t)))
            >= Copies(t, counts) + (Rooted(t)' + One(Keeps(k, t)))
        BY <2>3, <2>4, <2>5
    <2> QED BY <1>2, <2>1, <2>3, <2>6 DEF LowerMoves
<1>7. \A a \in applied' : a.id[1] = catalog.id => a.id[2] < catalog.revision
    BY <1>1 DEF KnownInv
<1>8. (\A r \in pending' : r \in pending) /\ (returned => returned')
    OBVIOUS
<1> QED BY <1>2, <1>4, <1>5, <1>6, <1>7, <1>8, SteadyStep

LEMMA PlainStep ==
    ASSUME Core, NEW w \in Worker, NEW k \in Jobs, PassiveJob(k), job[w].pc \notin Keeping,
           job' = [job EXCEPT ![w] = k], UNCHANGED <<catalog, pending, counts, applied, past, returned, leaked>>,
           SmokeShape'
    PROVE  Core'
<1>1. IsABag(leaked) /\ \A t : Copies(t, leaked) \in Nat
    BY CopiesNumber DEF Core, FilesShape, StoreShape
<1>2. \A t : One(Keeps(job[w], t)) = 0
    BY DEF Keeps, One
<1>3. IsABag(leaked') /\ \A t : Copies(t, leaked') = Copies(t, leaked) + One(Keeps(job[w], t))
    BY <1>1, <1>2
<1> QED BY <1>3, PassiveStep

LEMMA GiveUpPassive ==
    ASSUME JobShape, NEW w \in Worker, Give_up(w)
    PROVE  \E k \in Jobs : job' = [job EXCEPT ![w] = k] /\ PassiveJob(k) /\ k.pc \in {"idle", "fail"}
<1>1. PICK k \in Jobs : job' = [job EXCEPT ![w] = k] /\ k.pc \in {"idle", "fail"}
    BY GiveUpIs
<1>2. PassiveJob(k)
    BY <1>1 DEF PassiveJob, Passive
<1> QED BY <1>1, <1>2

LEMMA ReleasePreviousKeeps ==
    ASSUME Core, NEW w \in Worker, ReleasePrevious(w)
    PROVE  Core'
<1>1. FilesShape /\ JobsSound /\ JobShape /\ SmokeShape /\ Lower
    BY DEF Core, FilesShape
<1>2. /\ job[w].pc = "release" /\ UNCHANGED <<catalog, pending, applied, smoke, past, returned, leaked>>
      /\ Goto(w, "assert") /\ (counts' = Dropped(job[w].root.tree) \/ counts' = counts)
    BY DEF ReleasePrevious, At, ghost
<1>3. PICK k \in Jobs : job' = [job EXCEPT ![w] = k] /\ k.pc = "assert" /\ SamePlan(k, job[w])
    BY <1>1, <1>2, GotoIs DEF Passive
<1>4. PassiveJob(k)
    BY <1>1, <1>2, <1>3 DEF JobsSound, JobSound, PassiveJob, SamePlan, Passive, Editing
<1>5. job[w].pc \notin Keeping /\ (\A t : ~Keeps(job[w], t)) /\ Releases(job[w], job[w].root.tree)
    BY <1>2 DEF Keeping, Keeps, Releases
<1>6. CASE counts' = counts
    BY <1>1, <1>2, <1>3, <1>4, <1>5, <1>6, PlainStep DEF SmokeShape
<1>7. CASE counts' = Dropped(job[w].root.tree)
    BY <1>2, <1>3, <1>4, <1>5, <1>7, ReleasingStep
<1> QED BY <1>2, <1>6, <1>7

\* A lost commit gives its own reference back, or forgets it.
LEMMA UndoKeeps ==
    ASSUME Core, NEW w \in Worker, Undo(w)
    PROVE  Core'
<1>0. PICK x : x = job[w].next
    OBVIOUS
<1>1. FilesShape /\ KnownInv /\ JobShape /\ SmokeShape /\ StoreShape /\ Lower
    BY DEF Core, FilesShape
<1>2. /\ job[w].pc = "undo" /\ UNCHANGED <<catalog, pending, applied, smoke, past, returned>> /\ Give_up(w)
      /\ \/ counts' = Dropped(x) /\ leaked' = leaked
         \/ leaked' = leaked (+) SetToBag({x}) /\ counts' = counts
    BY <1>0 DEF Undo, At
<1>3. PICK k \in Jobs : job' = [job EXCEPT ![w] = k] /\ PassiveJob(k)
    BY <1>1, <1>2, GiveUpPassive
<1>4. \A t : Keeps(job[w], t) <=> t = x
    BY <1>0, <1>2 DEF Keeps, Keeping
<1>5. \A t : One(Keeps(job[w], t)) = One(t = x) /\ One(t = x) \in {0, 1} /\ (t = x => One(t = x) = 1) /\ (t # x => One(t = x) = 0)
    BY <1>4 DEF One
<1>6. CASE leaked' = leaked (+) SetToBag({x}) /\ counts' = counts
    <2>1. IsABag(leaked') /\ \A t : Copies(t, leaked') = Copies(t, leaked) + One(t = x)
        <3>1. IsABag(leaked) /\ leaked' = leaked (+) SetToBag({x})
            BY <1>1, <1>6 DEF StoreShape
        <3> QED BY <3>1, LeakedIs
    <2>2. ASSUME NEW t PROVE Copies(t, leaked') = Copies(t, leaked) + One(Keeps(job[w], t))
        <3>1. One(Keeps(job[w], t)) = One(t = x)
            BY <1>5
        <3>2. Copies(t, leaked') = Copies(t, leaked) + One(t = x)
            BY <2>1
        <3> QED BY <3>1, <3>2
    <2>3. SmokeShape'
        BY <1>1, <1>2 DEF SmokeShape
    <2> QED BY <1>2, <1>3, <1>6, <2>1, <2>2, <2>3, PassiveStep
<1>7. CASE counts' = Dropped(x) /\ leaked' = leaked
    <2>1. /\ IsABag(counts')
          /\ \A t : Copies(t, counts') <= Copies(t, counts) /\ (t # x => Copies(t, counts') = Copies(t, counts))
          /\ Held(x) => Copies(x, counts') + 1 = Copies(x, counts)
          /\ ~Held(x) => Copies(x, counts') = 0
        BY <1>1, <1>7, DroppedIs DEF StoreShape
    <2>2. StoreShape' /\ SmokeShape'
        BY <1>1, <1>2, <1>7, <2>1 DEF StoreShape, SmokeShape
    <2>3. /\ Mentions(k) = {} /\ QueuedBy(k) = {} /\ k.pc # "complete" /\ JobSound(k)'
          /\ \A t : ~Keeps(k, t) /\ One(Keeps(k, t)) = 0 /\ ~MayCommit(k, t) /\ ~Releases(k, t)'
        BY <1>3, PassiveIs
    <2>4. ASSUME NEW t PROVE UpperMoves(w, k, t) \/ Copies(t, counts') = 0
        <3>1. Rooted(t)' = Rooted(t) /\ Cardinality(Unpaid(t)) <= Cardinality(Unpaid(t)')
            BY <1>1, <1>2, <1>3, <2>2, <2>3, RootedSame, UnpaidSame
        <3>2. Copies(t, counts) \in Nat /\ Copies(t, leaked) \in Nat /\ Rooted(t) \in {0, 1}
              /\ Cardinality(Unpaid(t)) \in Nat /\ Cardinality(Unpaid(t)') \in Nat /\ Copies(t, counts') \in Nat
            BY <1>1, <2>2, Numbers, NumbersNext
        <3>3. One(Keeps(k, t)) = 0 /\ One(Keeps(job[w], t)) = One(t = x) /\ leaked' = leaked
            BY <1>5, <1>7, <2>3
        <3>4. CASE t # x
            <4>1. One(t = x) = 0 /\ Copies(t, counts') = Copies(t, counts)
                BY <1>5, <2>1, <3>4
            <4> QED BY <3>1, <3>2, <3>3, <4>1 DEF UpperMoves
        <3>5. CASE t = x /\ ~Held(x)
            BY <2>1, <3>5
        <3>6. CASE t = x /\ Held(x)
            <4>1. One(t = x) = 1 /\ Copies(t, counts') + 1 = Copies(t, counts)
                BY <1>5, <2>1, <3>6
            <4> QED BY <3>1, <3>2, <3>3, <4>1 DEF UpperMoves
        <3> QED BY <3>4, <3>5, <3>6
    <2>5. ASSUME NEW t, ~returned', Live(t)' PROVE LowerMoves(w, k, t)
        <3>1. Live(t)
            BY <1>1, <1>2, <1>3, <2>3, <2>5, LiveBefore
        <3>2. Rooted(t)' = Rooted(t) /\ (LetGo(t)' => LetGo(t))
            BY <1>2, RootedSame DEF LetGo
        <3>3. Copies(t, counts) \in Nat /\ Rooted(t) \in {0, 1} /\ Copies(t, counts') \in Nat
            BY <1>1, <2>2, Numbers, NumbersNext
        <3>4. Copies(t, counts') + One(t = x) >= Copies(t, counts)
            <4>1. CASE t # x
                BY <1>5, <2>1, <3>3, <4>1
            <4>2. CASE t = x /\ Held(x)
                BY <1>5, <2>1, <3>3, <4>2
            <4>3. CASE t = x /\ ~Held(x)
                <5>1. Copies(t, counts) = 0
                    BY <1>1, <4>3, HeldIs DEF StoreShape
                <5> QED BY <1>5, <3>3, <5>1
            <4> QED BY <4>1, <4>2, <4>3
        <3>5. One(Keeps(k, t)) = 0 /\ One(Keeps(job[w], t)) = One(t = x) /\ One(t = x) \in {0, 1}
            BY <1>5, <2>3
        <3>6. Copies(t, counts') + (Rooted(t) + One(Keeps(job[w], t)))
                >= Copies(t, counts) + (Rooted(t)' + One(Keeps(k, t)))
            BY <3>2, <3>3, <3>4, <3>5
        <3> QED BY <2>3, <3>1, <3>2, <3>6 DEF LowerMoves
    <2>6. \A a \in applied' : a.id[1] = catalog.id => a.id[2] < catalog.revision
        BY <1>1, <1>2 DEF KnownInv
    <2>7. (\A r \in pending' : r \in pending) /\ (returned => returned') /\ catalog' = catalog /\ past' = past
        BY <1>2
    <2> QED BY <1>3, <2>2, <2>3, <2>4, <2>5, <2>6, <2>7, SteadyStep
<1> QED BY <1>2, <1>6, <1>7

\* A reference is taken.  A manifest that was cataloged before and that nobody
\* is about to release is as good as a new one.
LEMMA RetainKeeps ==
    ASSUME Core, NEW w \in Worker, Retain(w)
    PROVE  Core'
<1>0. PICK x : x = job[w].next
    OBVIOUS
<1>1. FilesShape /\ KnownInv /\ JobsSound /\ JobShape /\ SmokeShape /\ StoreShape /\ Lower
    BY DEF Core, FilesShape
<1>2. /\ job[w].pc = "retain" /\ UNCHANGED <<catalog, pending, applied, smoke, past>>
      /\ counts' = counts (+) SetToBag({x})
      /\ returned' = (returned \/ (x \in past /\ Owed(w, x)))
      /\ \/ Goto(w, "check") /\ leaked' = leaked
         \/ leaked' = leaked (+) SetToBag({x}) /\ Give_up(w)
    BY <1>0 DEF Retain, At
<1>3. IsABag(counts') /\ \A t : Copies(t, counts') = Copies(t, counts) + One(t = x)
    <2>1. IsABag(counts)
        BY <1>1 DEF StoreShape
    <2> QED BY <1>2, <2>1, TakenIs
<1>4. \A t : One(t = x) \in {0, 1} /\ (t = x => One(t = x) = 1) /\ (t # x => One(t = x) = 0)
    BY DEF One
<1>5. \A t : ~Keeps(job[w], t) /\ One(Keeps(job[w], t)) = 0
    BY <1>2 DEF Keeps, Keeping, One
<1>6. returned' \in BOOLEAN /\ (returned => returned') /\ SmokeShape' /\ catalog' = catalog /\ past' = past
      /\ (\A r \in pending' : r \in pending)
    BY <1>1, <1>2 DEF SmokeShape
<1>7. \A a \in applied' : a.id[1] = catalog.id => a.id[2] < catalog.revision
    BY <1>1, <1>2 DEF KnownInv
<1>8. CASE leaked' = leaked (+) SetToBag({x}) /\ Give_up(w)
    <2>1. IsABag(leaked') /\ \A t : Copies(t, leaked') = Copies(t, leaked) + One(t = x)
        <3>1. IsABag(leaked)
            BY <1>1 DEF StoreShape
        <3> QED BY <1>8, <3>1, LeakedIs
    <2>2. StoreShape'
        BY <1>1, <1>2, <1>3, <1>6, <2>1 DEF StoreShape
    <2>3. PICK k \in Jobs : job' = [job EXCEPT ![w] = k] /\ PassiveJob(k)
        BY <1>1, <1>8, GiveUpPassive
    <2>4. /\ Mentions(k) = {} /\ QueuedBy(k) = {} /\ k.pc # "complete" /\ JobSound(k)'
          /\ \A t : ~Keeps(k, t) /\ One(Keeps(k, t)) = 0 /\ ~MayCommit(k, t) /\ ~Releases(k, t)'
        BY <2>3, PassiveIs
    <2>5. ASSUME NEW t PROVE UpperMoves(w, k, t)
        <3>1. Rooted(t)' = Rooted(t) /\ Cardinality(Unpaid(t)) <= Cardinality(Unpaid(t)')
            BY <1>1, <1>2, <2>2, <2>3, <2>4, RootedSame, UnpaidSame
        <3>2. Copies(t, counts) \in Nat /\ Copies(t, leaked) \in Nat /\ Rooted(t) \in {0, 1}
              /\ Cardinality(Unpaid(t)) \in Nat /\ Cardinality(Unpaid(t)') \in Nat
            BY <1>1, <2>2, Numbers, NumbersNext
        <3>3. One(Keeps(k, t)) = 0 /\ One(Keeps(job[w], t)) = 0
            BY <1>5, <2>4
        <3>4. Copies(t, counts') = Copies(t, counts) + One(t = x) /\ Copies(t, leaked') = Copies(t, leaked) + One(t = x)
              /\ One(t = x) \in {0, 1}
            BY <1>3, <1>4, <2>1
        <3> QED BY <3>1, <3>2, <3>3, <3>4 DEF UpperMoves
    <2>6. ASSUME NEW t, ~returned', Live(t)' PROVE LowerMoves(w, k, t)
        <3>1. Live(t)
            BY <1>1, <1>6, <2>3, <2>4, <2>6, LiveBefore
        <3>2. Rooted(t)' = Rooted(t) /\ (LetGo(t)' => LetGo(t))
            BY <1>2, RootedSame DEF LetGo
        <3>3. Copies(t, counts) \in Nat /\ Rooted(t) \in {0, 1}
            BY <1>1, Numbers
        <3>4. One(Keeps(k, t)) = 0 /\ One(Keeps(job[w], t)) = 0
            BY <1>5, <2>4
        <3>5. Copies(t, counts') = Copies(t, counts) + One(t = x) /\ One(t = x) \in {0, 1}
            BY <1>3, <1>4
        <3>6. Copies(t, counts') + (Rooted(t) + One(Keeps(job[w], t)))
                >= Copies(t, counts) + (Rooted(t)' + One(Keeps(k, t)))
            BY <3>2, <3>3, <3>4, <3>5
        <3> QED BY <2>4, <3>1, <3>2, <3>6 DEF LowerMoves
    <2> QED BY <1>6, <1>7, <2>2, <2>3, <2>4, <2>5, <2>6, SteadyStep
<1>9. CASE Goto(w, "check") /\ leaked' = leaked
    <2>1. PICK k \in Jobs : job' = [job EXCEPT ![w] = k] /\ k.pc = "check" /\ SamePlan(k, job[w])
        BY <1>1, <1>9, GotoIs DEF Keeping
    <2>2. StoreShape'
        BY <1>1, <1>2, <1>3, <1>6, <1>9 DEF StoreShape
    <2>3. JobSound(job[w]) /\ job'[w] = k /\ \A v \in Worker : v # w => job'[v] = job[v]
        BY <1>1, <2>1, JobMoves DEF JobsSound
    <2>4. JobSound(k)' /\ k.next # k.root.tree
        BY <1>2, <2>1, <2>3 DEF JobSound, SamePlan, Editing, Reconciling
    <2>5. QueuedBy(k) = {} /\ QueuedBy(job[w]) = {} /\ Mentions(k) = {k.root} /\ Mentions(job[w]) = {k.root}
        BY <1>2, <2>1 DEF QueuedBy, Mentions, Editing, Reconciling, SamePlan
    <2>6. Known(k.root) /\ k.next = x
        BY <1>0, <2>1, <2>5 DEF Known, SamePlan
    <2>7. \A t : (Keeps(k, t) <=> t = x) /\ One(Keeps(k, t)) = One(t = x)
        BY <2>1, <2>6 DEF Keeps, Keeping, One
    <2>8. \A t : Free(t) => ~Releases(k, t)'
        BY <1>2, <2>1, <2>5 DEF Free, Releases, SameRow, SamePlan
    <2>9. ASSUME NEW t PROVE UpperMoves(w, k, t)
        <3>0. pending \subseteq pending' /\ applied' = applied /\ k.pc # "complete"
            BY <1>2, <2>1
        <3>1. Rooted(t)' = Rooted(t) /\ Cardinality(Unpaid(t)) <= Cardinality(Unpaid(t)')
            BY <1>1, <1>2, <2>1, <2>2, <3>0, RootedSame, UnpaidSame
        <3>2. Copies(t, counts) \in Nat /\ Copies(t, leaked) \in Nat /\ Rooted(t) \in {0, 1}
              /\ Cardinality(Unpaid(t)) \in Nat /\ Cardinality(Unpaid(t)') \in Nat
            BY <1>1, <2>2, Numbers, NumbersNext
        <3>3. One(Keeps(k, t)) = One(t = x) /\ One(Keeps(job[w], t)) = 0 /\ leaked' = leaked
            BY <1>5, <1>9, <2>7
        <3>4. Copies(t, counts') = Copies(t, counts) + One(t = x) /\ One(t = x) \in {0, 1}
            BY <1>3, <1>4
        <3> QED BY <3>1, <3>2, <3>3, <3>4 DEF UpperMoves
    <2>10. ASSUME NEW t, ~returned', Live(t)' PROVE LowerMoves(w, k, t) \/ Fresh(t)'
        <3>2. Rooted(t)' = Rooted(t) /\ (LetGo(t)' => LetGo(t))
            BY <1>2, RootedSame DEF LetGo
        <3>3. Copies(t, counts) \in Nat /\ Rooted(t) \in {0, 1}
            BY <1>1, Numbers
        <3>5. Copies(t, counts') = Copies(t, counts) + One(t = x) /\ One(t = x) \in {0, 1}
            BY <1>3, <1>4
        <3>7. CASE Live(t)
            <4>1. ~Releases(k, t)'
                BY <1>1, <1>6, <2>8, <2>10, <3>7 DEF Lower
            <4>2. One(Keeps(k, t)) = One(t = x) /\ One(Keeps(job[w], t)) = 0
                BY <1>5, <2>7
            <4>3. Copies(t, counts') + (Rooted(t) + One(Keeps(job[w], t)))
                    >= Copies(t, counts) + (Rooted(t)' + One(Keeps(k, t)))
                BY <3>2, <3>3, <3>5, <4>2
            <4> QED BY <3>2, <3>7, <4>1, <4>3 DEF LowerMoves
        \* The manifest came back, and nobody else works.
        <3>8. CASE ~Live(t)
            <4>1. ~(MayCommit(k, t) => MayCommit(job[w], t))
                BY <1>1, <1>6, <2>1, <2>10, <3>8, LiveBefore
            <4>2. t = x /\ SameRow(k.root) /\ x \in past /\ ~Owed(w, x)
                BY <1>2, <2>6, <2>10, <3>8, <4>1 DEF MayCommit, Live
            <4>3. /\ \A r \in pending : r.tree # x
                  /\ \A v \in Worker : v # w => job[v].pc = "idle"
                  /\ ~LetGo(x)
                BY <4>2 DEF Owed, At, LetGo
            <4>4. catalog # NoRoot /\ k.root = catalog
                <5>1. k.root.id # None /\ catalog.id = k.root.id
                    BY <1>1, <2>6, <4>2 DEF KnownInv, SameRow
                <5>2. catalog # NoRoot
                    BY <5>1, NoRootIs
                <5>3. Known(catalog)
                    BY <5>2 DEF Known
                <5> QED BY <1>1, <2>6, <4>2, <5>2, <5>3 DEF KnownInv, SameRow
            <4>5. catalog.tree # x
                BY <2>4, <2>6, <4>4
            <4>6. Rooted(t) = 0
                BY <4>2, <4>5 DEF Rooted, One
            <4>7. Free(t)'
                <5>1. ASSUME NEW v \in Worker PROVE ~Releases(job[v], t)'
                    <6>1. CASE v = w
                        BY <1>2, <2>1, <2>3, <2>5, <4>2, <6>1 DEF Releases, SameRow, QueuedBy
                    <6>2. CASE v # w
                        BY <2>3, <4>3, <6>2 DEF Releases, QueuedBy, Reconciling
                    <6> QED BY <6>1, <6>2
                <5> QED BY <1>2, <3>2, <4>2, <4>3, <5>1 DEF Free
            <4>8. Cardinality(Holding(t)') = 1
                <5>1. Holding(t)' = {w}
                    BY <2>3, <2>7, <4>2, <4>3 DEF Holding, Keeps, Keeping
                <5> QED BY <5>1, FS_Singleton
            <4>9. Copies(t, counts') >= Rooted(t)' + Cardinality(Holding(t)')
                BY <1>4, <3>2, <3>3, <3>5, <4>2, <4>6, <4>8
            <4> QED BY <4>7, <4>9 DEF Fresh
        <3> QED BY <3>7, <3>8
    <2>11. (\A y \in Mentions(k) : Known(y)) /\ (\A y \in QueuedBy(k) : InQueue(y))
        BY <2>5, <2>6
    <2> QED BY <1>6, <1>7, <2>1, <2>2, <2>4, <2>9, <2>10, <2>11, SteadyStep
<1> QED BY <1>2, <1>8, <1>9

\* A queued release is sent, once under its identity.
LEMMA DropQueuedKeeps ==
    ASSUME Core, NEW w \in Worker, DropQueued(w)
    PROVE  Core'
<1>0. PICK row : row = job[w].row
    OBVIOUS
<1>1. FilesShape /\ KnownInv /\ JobsSound /\ JobShape /\ SmokeShape /\ StoreShape /\ Lower
    BY DEF Core, FilesShape
<1>2. /\ job[w].pc = "drop" /\ UNCHANGED <<catalog, pending, smoke, past, returned, leaked>>
      /\ UpdateOnce(w, ReleaseId(row), row.tree, "complete")
    BY <1>0 DEF DropQueued, At, ghost
<1>3. row \in QueuedBy(job[w]) /\ row \in Mentions(job[w]) /\ job[w].pc \notin Keeping
      /\ \A t : ~Keeps(job[w], t) /\ One(Keeps(job[w], t)) = 0
    BY <1>0, <1>2 DEF QueuedBy, Mentions, Keeps, Keeping, One
<1>4. Known(row) /\ InQueue(row) /\ row \in Rows /\ (row.id = catalog.id => row.revision < catalog.revision)
    <2>1. Known(row) /\ InQueue(row)
        BY <1>3 DEF Known, InQueue
    <2> QED BY <1>1, <2>1 DEF KnownInv
<1>5. ASSUME ~returned, NEW t, Live(t) PROVE t # row.tree
    BY <1>1, <1>3, <1>5 DEF Lower, Free, Releases
<1>6. SmokeShape'
    BY <1>1, <1>2 DEF SmokeShape
<1>7. ASSUME Goto(w, "complete")
      PROVE  \E k \in Jobs : /\ job' = [job EXCEPT ![w] = k] /\ JobSound(k)' /\ k.pc = "complete" /\ k.row = row
                             /\ QueuedBy(k) = QueuedBy(job[w]) /\ Mentions(k) = Mentions(job[w])
                             /\ \A t : ~Keeps(k, t) /\ ~MayCommit(k, t) /\ (Free(t) => ~Releases(k, t)')
    <2>1. PICK k \in Jobs : job' = [job EXCEPT ![w] = k] /\ k.pc = "complete" /\ SamePlan(k, job[w])
        BY <1>1, <1>7, GotoIs DEF Reconciling
    <2>2. JobSound(job[w])
        BY <1>1 DEF JobsSound
    <2>3. JobSound(k)'
        BY <1>2, <2>1, <2>2 DEF JobSound, SamePlan, Editing, Reconciling
    <2>4. QueuedBy(k) = QueuedBy(job[w]) /\ Mentions(k) = Mentions(job[w]) /\ k.row = row
        BY <1>0, <1>2, <2>1 DEF QueuedBy, Mentions, Editing, Reconciling, SamePlan
    <2>5. \A t : ~Keeps(k, t) /\ ~MayCommit(k, t)
        BY <2>1 DEF Keeps, Keeping, MayCommit
    <2>6. \A t : Free(t) => ~Releases(k, t)'
        BY <2>1, <2>4 DEF Free, Releases
    <2> QED BY <2>1, <2>3, <2>4, <2>5, <2>6
<1>8. CASE Replayed(ReleaseId(row), row.tree)
    <2>1. Goto(w, "complete") /\ UNCHANGED <<counts, applied>>
        BY <1>2, <1>8 DEF UpdateOnce
    <2>2. PICK k \in Jobs : /\ job' = [job EXCEPT ![w] = k] /\ JobSound(k)' /\ k.pc = "complete" /\ k.row = row
                            /\ QueuedBy(k) = QueuedBy(job[w]) /\ Mentions(k) = Mentions(job[w])
                            /\ \A t : ~Keeps(k, t) /\ ~MayCommit(k, t) /\ (Free(t) => ~Releases(k, t)')
        BY <1>7, <2>1
    <2>3. (\A x \in Mentions(k) : Known(x)) /\ (\A x \in QueuedBy(k) : InQueue(x))
        BY <2>2 DEF Known, InQueue
    <2> QED BY <1>2, <1>3, <1>6, <1>8, <2>1, <2>2, <2>3, QuietStep
<1>9. CASE ~Replayed(ReleaseId(row), row.tree) /\ (Conflicting(ReleaseId(row), row.tree) \/ ~Held(row.tree))
    <2>1. Give_up(w) /\ UNCHANGED <<counts, applied>>
        BY <1>2, <1>9 DEF UpdateOnce
    <2>2. PICK k \in Jobs : job' = [job EXCEPT ![w] = k] /\ PassiveJob(k)
        BY <1>1, <2>1, GiveUpPassive
    <2> QED BY <1>2, <1>3, <1>6, <2>1, <2>2, PlainStep
<1>10. CASE ~Replayed(ReleaseId(row), row.tree) /\ ~Conflicting(ReleaseId(row), row.tree) /\ Held(row.tree)
    <2>1. /\ counts' = Dropped(row.tree) /\ applied' = applied \cup {[id |-> ReleaseId(row), tree |-> row.tree]}
          /\ Goto(w, "complete") \/ Give_up(w)
        BY <1>2, <1>10 DEF UpdateOnce
    <2>2. PICK k \in Jobs : /\ job' = [job EXCEPT ![w] = k] /\ JobSound(k)' /\ (k.pc = "complete" => k.row = row)
                            /\ \A x \in QueuedBy(k) : x \in QueuedBy(job[w])
                            /\ \A x \in Mentions(k) : x \in Mentions(job[w])
                            /\ \A t : ~Keeps(k, t) /\ ~MayCommit(k, t) /\ (Free(t) => ~Releases(k, t)')
        <3>1. CASE Goto(w, "complete")
            BY <1>7, <3>1
        <3>2. CASE Give_up(w)
            <4>1. PICK k \in Jobs : job' = [job EXCEPT ![w] = k] /\ PassiveJob(k)
                BY <1>1, <3>2, GiveUpPassive
            <4> QED BY <4>1, PassiveIs
        <3> QED BY <2>1, <3>1, <3>2
    <2>3. job'[w] = k /\ \A v \in Worker : v # w => job'[v] = job[v]
        BY <1>1, <2>2, JobMoves
    <2>4. (\A x \in Mentions(k) : Known(x)) /\ (\A x \in QueuedBy(k) : InQueue(x))
        BY <2>2 DEF Known, InQueue
    <2>5. /\ IsABag(counts')
          /\ \A t : Copies(t, counts') <= Copies(t, counts) /\ (t # row.tree => Copies(t, counts') = Copies(t, counts))
          /\ Copies(row.tree, counts') + 1 = Copies(row.tree, counts)
        <3>1. IsABag(counts) /\ counts' = Dropped(row.tree) /\ Held(row.tree)
            BY <1>1, <1>10, <2>1 DEF StoreShape
        <3> QED BY <3>1, DroppedIs
    <2>6. PICK u : u = [id |-> ReleaseId(row), tree |-> row.tree]
        OBVIOUS
    <2>7. u \in Updates /\ u.id[1] = row.id /\ u.id[2] = row.revision /\ u.tree = row.tree /\ applied' = applied \cup {u}
        BY <1>4, <2>1, <2>6 DEF Updates, Rows, ReleaseId
    <2>8. StoreShape'
        BY <1>1, <1>2, <2>5, <2>7 DEF StoreShape
    <2>9. \A a \in applied' : a.id[1] = catalog.id => a.id[2] < catalog.revision
        BY <1>1, <1>4, <2>7 DEF KnownInv
    <2>10. ASSUME NEW t, t # row.tree PROVE LetGo(t)' <=> LetGo(t)
        BY <1>2, <2>7, <2>10 DEF LetGo
    <2>11. ASSUME ~returned, NEW t PROVE Rooted(t)' = Rooted(t)
        <3>1. CASE catalog = NoRoot
            BY <1>2, <3>1 DEF Rooted
        <3>2. CASE catalog # NoRoot
            <4>1. catalog.tree # row.tree
                BY <1>5, <2>11, <3>2 DEF Live
            <4>2. RootLetGo' <=> RootLetGo
                BY <1>2, <2>7, <4>1 DEF RootLetGo
            <4> QED BY <1>2, <4>2 DEF Rooted
        <3> QED BY <3>1, <3>2
    <2>12. ASSUME NEW t, NEW r \in Unpaid(t), r # row PROVE r \in Unpaid(t)'
        <3>1. r \in pending /\ r.tree = t /\ ~Replayed(ReleaseId(r), r.tree) /\ ~Settling(r)
            BY <2>12 DEF Unpaid
        <3>2. Known(r)
            BY <3>1 DEF Known
        <3>3. ReleaseId(r) # ReleaseId(row)
            BY <1>1, <1>4, <2>12, <3>2 DEF KnownInv, ReleaseId
        <3>4. ~Replayed(ReleaseId(r), r.tree)'
            BY <2>6, <2>7, <3>1, <3>3 DEF Replayed
        <3>5. ~Settling(r)'
            BY <2>2, <2>3, <2>12, <3>1 DEF Settling
        <3> QED BY <1>2, <3>1, <3>4, <3>5 DEF Unpaid
    <2>13. ASSUME ~returned', NEW t PROVE UpperMoves(w, k, t)
        <3>1. Rooted(t)' = Rooted(t)
            BY <1>2, <2>11, <2>13
        <3>2. Copies(t, counts) \in Nat /\ Copies(t, leaked) \in Nat /\ Rooted(t) \in {0, 1}
              /\ Cardinality(Unpaid(t)) \in Nat /\ Cardinality(Unpaid(t)') \in Nat /\ Copies(t, counts') \in Nat
            BY <1>1, <2>8, Numbers, NumbersNext
        <3>3. One(Keeps(k, t)) = 0 /\ One(Keeps(job[w], t)) = 0 /\ leaked' = leaked
            BY <1>2, <1>3, <2>2 DEF One
        <3>4. CASE t = row.tree
            <4>1. Unpaid(t) \subseteq Unpaid(t)' \cup {row}
                BY <2>12
            <4>2. Cardinality(Unpaid(t)) <= Cardinality(Unpaid(t)') + 1
                BY <1>1, <2>8, <4>1, UnpaidLosesOne
            <4>3. Copies(t, counts') + 1 = Copies(t, counts)
                BY <2>5, <3>4
            <4> QED BY <3>1, <3>2, <3>3, <4>2, <4>3 DEF UpperMoves
        <3>5. CASE t # row.tree
            <4>1. Unpaid(t) \subseteq Unpaid(t)'
                BY <2>12, <3>5 DEF Unpaid
            <4>2. Cardinality(Unpaid(t)) <= Cardinality(Unpaid(t)')
                BY <1>1, <2>8, <4>1, UnpaidGrows
            <4>3. Copies(t, counts') = Copies(t, counts)
                BY <2>5, <3>5
            <4> QED BY <3>1, <3>2, <3>3, <4>2, <4>3 DEF UpperMoves
        <3> QED BY <3>4, <3>5
    <2>14. ASSUME NEW t, ~returned', Live(t)' PROVE LowerMoves(w, k, t)
        <3>1. Live(t)
            BY <1>1, <1>2, <2>2, <2>14, LiveBefore
        <3>2. t # row.tree /\ Rooted(t)' = Rooted(t) /\ (LetGo(t)' => LetGo(t))
            BY <1>2, <1>5, <2>10, <2>11, <2>14, <3>1
        <3>3. Copies(t, counts) \in Nat /\ Rooted(t) \in {0, 1} /\ Copies(t, counts') = Copies(t, counts)
            BY <1>1, <2>5, <3>2, Numbers
        <3>4. One(Keeps(k, t)) = 0 /\ One(Keeps(job[w], t)) = 0
            BY <1>3, <2>2 DEF One
        <3>5. ~Releases(k, t)'
            BY <1>1, <1>2, <2>2, <2>14, <3>1 DEF Lower
        <3>6. Copies(t, counts') + (Rooted(t) + One(Keeps(job[w], t)))
                >= Copies(t, counts) + (Rooted(t)' + One(Keeps(k, t)))
            BY <3>2, <3>3, <3>4
        <3> QED BY <3>1, <3>2, <3>5, <3>6 DEF LowerMoves
    <2>15. (\A r \in pending' : r \in pending) /\ (returned => returned') /\ catalog' = catalog /\ past' = past
        BY <1>2
    <2> QED BY <1>6, <2>2, <2>4, <2>8, <2>9, <2>13, <2>14, <2>15, SteadyStep
<1> QED BY <1>8, <1>9, <1>10

\* The row read is the cataloged one when its root and revision still match.
LEMMA SameRowIs ==
    ASSUME Core, NEW x, Known(x), SameRow(x)
    PROVE  catalog # NoRoot /\ x = catalog /\ Known(catalog) /\ catalog \in Rows
<1>1. KnownInv /\ catalog \in Rows
    BY DEF Core, FilesShape, StoreShape
<1>2. x.id # None /\ catalog.id = x.id /\ catalog.revision = x.revision
    BY <1>1 DEF KnownInv, SameRow
<1>3. catalog # NoRoot
    BY <1>2, NoRootIs
<1>4. Known(catalog)
    BY <1>3 DEF Known
<1> QED BY <1>1, <1>2, <1>3, <1>4 DEF KnownInv

LEMMA QueueIs ==
    ASSUME StoreShape, NEW x \in Rows, pending' = Queue(x)
    PROVE  /\ pending' \subseteq Rows /\ IsFiniteSet(pending') /\ pending \subseteq pending'
           /\ \A r \in pending' : r \in pending \/ r = x
           /\ (\A r \in pending : r.tree # x.tree) => x \in pending'
<1>1. pending \subseteq Rows /\ IsFiniteSet(pending)
    BY DEF StoreShape
<1>2. IsFiniteSet(pending \cup {x})
    BY <1>1, FS_AddElement
<1> QED BY <1>1, <1>2 DEF Queue

\* A commit that lost queues the manifest it read, which is no longer the
\* cataloged one.
LEMMA CommitLostKeeps ==
    ASSUME Core, NEW w \in Worker, CommitRoot(w), ~SameRow(job[w].root)
    PROVE  Core'
<1>0. PICK x : x = job[w].root
    OBVIOUS
<1>1. FilesShape /\ KnownInv /\ JobsSound /\ JobShape /\ SmokeShape /\ StoreShape /\ Lower
    BY DEF Core, FilesShape
<1>2. /\ job[w].pc = "batch" /\ UNCHANGED <<catalog, counts, applied, smoke, past, returned, leaked>>
      /\ pending' = Queue(x) /\ Goto(w, "undo")
    BY <1>0 DEF CommitRoot, At, MayUpdate
<1>3. PICK k \in Jobs : job' = [job EXCEPT ![w] = k] /\ k.pc = "undo" /\ SamePlan(k, job[w])
    BY <1>1, <1>2, GotoIs DEF Keeping
<1>4. Mentions(job[w]) = {x} /\ Mentions(k) = {} /\ QueuedBy(k) = {} /\ JobSound(k)'
    BY <1>0, <1>2, <1>3 DEF Mentions, QueuedBy, Editing, Reconciling, JobSound
<1>5. Known(x) /\ x \in Rows /\ x.id # None /\ (x.id = catalog.id => x.revision < catalog.revision)
    <2>1. Known(x)
        BY <1>4 DEF Known
    <2>2. x \in Rows /\ x.id # None /\ (x.id = catalog.id => x.revision <= catalog.revision)
        BY <1>1, <2>1 DEF KnownInv
    <2>3. x.revision \in Nat /\ catalog.revision \in Nat /\ (x.id = catalog.id => x.revision # catalog.revision)
        BY <1>0, <1>1, <2>2 DEF Rows, StoreShape, SameRow
    <2> QED BY <2>1, <2>2, <2>3
<1>6. pending' \subseteq Rows /\ IsFiniteSet(pending') /\ pending \subseteq pending'
      /\ \A r \in pending' : r \in pending \/ r = x
    BY <1>1, <1>2, <1>5, QueueIs
<1>7. StoreShape' /\ SmokeShape'
    BY <1>1, <1>2, <1>6 DEF StoreShape, SmokeShape
<1>8. MayQueue(x)
    <2>1. ASSUME ~returned, NEW t, Live(t) PROVE x.tree # t
        BY <1>0, <1>1, <1>2, <2>1 DEF Lower, Free, Releases
    <2> QED BY <1>5, <2>1 DEF MayQueue
<1>9. \A t : (Keeps(k, t) <=> Keeps(job[w], t)) /\ ~MayCommit(k, t) /\ ~Releases(k, t)' /\ k.pc # "complete"
    BY <1>2, <1>3, <1>4 DEF Keeps, Keeping, MayCommit, Releases, SamePlan
<1>10. ASSUME NEW t PROVE UpperMoves(w, k, t)
    <2>1. Rooted(t)' = Rooted(t) /\ Cardinality(Unpaid(t)) <= Cardinality(Unpaid(t)')
        BY <1>1, <1>2, <1>3, <1>6, <1>7, <1>9, RootedSame, UnpaidSame
    <2>2. One(Keeps(job[w], t)) \in {0, 1} /\ One(Keeps(k, t)) = One(Keeps(job[w], t))
        BY <1>9 DEF One
    <2>3. Copies(t, counts) \in Nat /\ Copies(t, leaked) \in Nat /\ Rooted(t) \in {0, 1} /\ Cardinality(Unpaid(t)) \in Nat
          /\ Cardinality(Unpaid(t)') \in Nat
        BY <1>1, <1>7, Numbers, NumbersNext
    <2>4. Copies(t, counts') = Copies(t, counts) /\ Copies(t, leaked') = Copies(t, leaked)
        BY <1>2
    <2> QED BY <2>1, <2>2, <2>3, <2>4 DEF UpperMoves
<1>11. ASSUME NEW t, ~returned', Live(t)' PROVE LowerMoves(w, k, t)
    <2>1. Live(t)
        BY <1>1, <1>2, <1>3, <1>9, <1>11, LiveBefore
    <2>2. Rooted(t)' = Rooted(t) /\ (LetGo(t)' => LetGo(t))
        BY <1>2, RootedSame DEF LetGo
    <2>3. One(Keeps(job[w], t)) \in {0, 1} /\ One(Keeps(k, t)) = One(Keeps(job[w], t))
        BY <1>9 DEF One
    <2>4. Copies(t, counts) \in Nat /\ Rooted(t) \in {0, 1} /\ Copies(t, counts') = Copies(t, counts)
        BY <1>1, <1>2, Numbers
    <2>5. Copies(t, counts') + (Rooted(t) + One(Keeps(job[w], t)))
            >= Copies(t, counts) + (Rooted(t)' + One(Keeps(k, t)))
        BY <2>2, <2>3, <2>4
    <2> QED BY <1>9, <2>1, <2>2, <2>5 DEF LowerMoves
<1>12. \A a \in applied' : a.id[1] = catalog.id => a.id[2] < catalog.revision
    BY <1>1, <1>2 DEF KnownInv
<1>13. (\A r \in pending' : r \in pending \/ MayQueue(r)) /\ (returned => returned') /\ catalog' = catalog /\ past' = past
    BY <1>2, <1>6, <1>8
<1> QED BY <1>3, <1>4, <1>7, <1>10, <1>11, <1>12, <1>13, SteadyStep

LEMMA MovedRowIs ==
    ASSUME NEW c \in Rows, NEW n \in Trees
    PROVE  LET d == [c EXCEPT !.tree = n, !.revision = @ + 1] IN
           d \in Rows /\ d.id = c.id /\ d.tree = n /\ d.revision = c.revision + 1
<1>1. c.revision \in Nat /\ c.revision + 1 \in Nat
    BY DEF Rows
<1>2. PICK m \in Nat : m = c.revision + 1
    BY <1>1
<1>3. PICK d : d = [c EXCEPT !.tree = n, !.revision = m]
    OBVIOUS
<1>4. d \in Rows /\ d.id = c.id /\ d.tree = n /\ d.revision = m
    BY <1>3 DEF Rows
<1> QED BY <1>2, <1>3, <1>4

\* A commit that won moves its reference to the catalog and leaves the one it
\* replaced to the queue.
LEMMA CommitWonKeeps ==
    ASSUME Core, NEW w \in Worker, CommitRoot(w), SameRow(job[w].root)
    PROVE  Core'
<1>0. PICK n : n = job[w].next
    OBVIOUS
<1>1. FilesShape /\ KnownInv /\ JobsSound /\ JobShape /\ SmokeShape /\ StoreShape /\ Lower /\ Upper
    BY DEF Core, FilesShape
<1>2. job[w].pc = "batch" /\ job[w] \in Jobs /\ JobSound(job[w])
    BY <1>1 DEF CommitRoot, At, JobShape, JobsSound
<1>3. Mentions(job[w]) = {job[w].root} /\ Known(job[w].root)
    BY <1>2 DEF Mentions, QueuedBy, Editing, Reconciling, Known
<1>4. catalog # NoRoot /\ job[w].root = catalog /\ Known(catalog) /\ catalog \in Rows /\ n \in Trees /\ n # catalog.tree
      /\ catalog.id # None /\ catalog.revision \in Nat /\ catalog.tree \in past
    <2>1. catalog # NoRoot /\ job[w].root = catalog /\ Known(catalog) /\ catalog \in Rows
        BY <1>3, SameRowIs
    <2> QED BY <1>0, <1>1, <1>2, <2>1 DEF JobSound, Jobs, KnownInv, Rows
<1>5. /\ pending' = Queue(catalog) /\ catalog' = [catalog EXCEPT !.tree = n, !.revision = @ + 1]
      /\ past' = past \cup {n} /\ Goto(w, "reread")
      /\ UNCHANGED <<counts, applied, smoke, returned, leaked>>
    <2>1. /\ pending' = Queue(job[w].root) /\ UNCHANGED <<counts, applied, smoke, returned, leaked>>
          /\ catalog' = [catalog EXCEPT !.tree = job[w].next, !.revision = @ + 1]
          /\ past' = past \cup {job[w].next} /\ Goto(w, "reread")
        BY DEF CommitRoot, MayUpdate
    <2>2. pending' = Queue(catalog)
        BY <1>4, <2>1
    <2>3. catalog' = [catalog EXCEPT !.tree = n, !.revision = @ + 1] /\ past' = past \cup {n}
        BY <1>0, <2>1
    <2> QED BY <2>1, <2>2, <2>3
<1>6. catalog' \in Rows /\ catalog'.id = catalog.id /\ catalog'.tree = n /\ catalog'.revision = catalog.revision + 1
    BY <1>4, <1>5, MovedRowIs
<1>7. catalog' # NoRoot
    BY <1>4, <1>6, NoRootIs
<1>8. PICK k \in Jobs : job' = [job EXCEPT ![w] = k] /\ k.pc = "reread" /\ SamePlan(k, job[w])
    BY <1>1, <1>5, GotoIs DEF Editing
<1>9. JobShape' /\ job'[w] = k /\ \A v \in Worker : v # w => job'[v] = job[v]
    BY <1>1, <1>8, JobMoves
<1>10. k.root = catalog /\ k.next = n /\ k.op = job[w].op /\ QueuedBy(k) = {} /\ Mentions(k) = {catalog}
    BY <1>0, <1>4, <1>8 DEF SamePlan, QueuedBy, Mentions, Editing, Reconciling
<1>11. pending' \subseteq Rows /\ IsFiniteSet(pending') /\ pending \subseteq pending'
       /\ (\A r \in pending' : r \in pending \/ r = catalog)
       /\ ((\A r \in pending : r.tree # catalog.tree) => catalog \in pending')
    BY <1>1, <1>4, <1>5, QueueIs
<1>12. StoreShape' /\ SmokeShape' /\ FilesShape'
    BY <1>1, <1>5, <1>6, <1>9, <1>11 DEF StoreShape, SmokeShape, FilesShape
<1>13. JobsSound'
    <2>1. JobSound(k)'
        BY <1>2, <1>6, <1>8, <1>10 DEF JobSound, Editing, Reconciling
    <2>2. \A v \in Worker : v # w => JobSound(job[v])'
        BY <1>1, <1>6, <1>9 DEF JobsSound, JobSound
    <2> QED BY <1>9, <2>1, <2>2 DEF JobsSound, JobSound
<1>14. \A x : Known(x)' => Known(x) \/ x = catalog'
    BY <1>4, <1>9, <1>10, <1>11 DEF Known
<1>15. \A x : InQueue(x)' => InQueue(x) \/ x = catalog
    BY <1>9, <1>10, <1>11 DEF InQueue
<1>16. \A x : Known(x) => x \in Rows /\ x.id # None /\ x.revision \in Nat /\ (x.id = catalog.id => x.revision <= catalog.revision)
    BY <1>1 DEF KnownInv, Rows
<1>17. ~InQueue(catalog) /\ (\A x : InQueue(x) => Known(x)) /\ \A x : InQueue(x) /\ x.id = catalog.id => x.revision < catalog.revision
    BY <1>1, <1>4 DEF KnownInv, InQueue, Known, Mentions
<1>18. KnownInv'
    <2>1. \A x : Known(x)' => x \in Rows /\ x.id # None /\ (x.id = catalog'.id => x.revision <= catalog'.revision)
        BY <1>4, <1>6, <1>14, <1>16
    <2>2. \A x, y : Known(x)' /\ Known(y)' /\ x.id = y.id /\ x.revision = y.revision => x = y
        <3> SUFFICES ASSUME NEW x, NEW y, Known(x)', Known(y)', x.id = y.id, x.revision = y.revision
                     PROVE  x = y
            OBVIOUS
        <3>1. \A z : Known(z) => ~(z.id = catalog'.id /\ z.revision = catalog'.revision)
            BY <1>4, <1>6, <1>16
        <3>2. CASE Known(x) /\ Known(y)
            BY <1>1, <3>2 DEF KnownInv
        <3> QED BY <1>14, <3>1, <3>2
    <2>3. \A x : InQueue(x)' /\ x.id = catalog'.id => x.revision < catalog'.revision
        BY <1>4, <1>6, <1>15, <1>16, <1>17
    <2>4. \A a \in applied' : a.id[1] = catalog'.id => a.id[2] < catalog'.revision
        <3>1. \A a \in applied : a.id[2] \in Nat /\ (a.id[1] = catalog.id => a.id[2] < catalog.revision)
            BY <1>1 DEF KnownInv, StoreShape, Updates
        <3> QED BY <1>4, <1>5, <1>6, <3>1
    <2>5. catalog' # NoRoot => catalog'.id # None /\ catalog'.tree \in past'
        BY <1>4, <1>5, <1>6
    <2> QED BY <2>1, <2>2, <2>3, <2>4, <2>5 DEF KnownInv
<1>19. \A t : (Keeps(job[w], t) <=> t = n) /\ ~Keeps(k, t)
    BY <1>0, <1>2, <1>8 DEF Keeps, Keeping
<1>20. ASSUME NEW t
       PROVE  /\ Cardinality(Holding(t)') + One(t = n) = Cardinality(Holding(t))
              /\ Cardinality(Holding(t)') \in Nat /\ Cardinality(Holding(t)) \in Nat
              /\ One(t = n) \in {0, 1} /\ (t = n => One(t = n) = 1) /\ (t # n => One(t = n) = 0)
    <2>1. Cardinality(Holding(t)') + One(Keeps(job[w], t)) = Cardinality(Holding(t)) + One(Keeps(k, t))
          /\ Cardinality(Holding(t)') \in Nat /\ Cardinality(Holding(t)) \in Nat
        BY <1>1, <1>8, HoldingMoves
    <2>2. One(Keeps(job[w], t)) = One(t = n) /\ One(Keeps(k, t)) = 0
        BY <1>19 DEF One
    <2>3. One(t = n) \in {0, 1} /\ (t = n => One(t = n) = 1) /\ (t # n => One(t = n) = 0)
        BY DEF One
    <2> QED BY <2>1, <2>2, <2>3
<1>21. \A t : (t # catalog.tree => Rooted(t) = 0) /\ (t # n => Rooted(t)' = 0)
    BY <1>6 DEF Rooted, One
<1>22. ASSUME ~returned
       PROVE  /\ Live(n) /\ Free(n) /\ Live(catalog.tree) /\ Free(catalog.tree) /\ Rooted(n)' = 1
              /\ catalog \in pending'
    <2>1. Live(n) /\ Live(catalog.tree)
        BY <1>0, <1>2, <1>4 DEF Live, MayCommit
    <2>2. Free(n) /\ Free(catalog.tree)
        BY <1>1, <1>22, <2>1 DEF Lower
    <2>3. ~RootLetGo'
        BY <1>4, <1>5, <1>6, <2>2 DEF Free, LetGo, RootLetGo
    <2> QED BY <1>6, <1>7, <1>11, <2>1, <2>2, <2>3 DEF Rooted, One, Free
<1>23. Upper'
    <2> SUFFICES ASSUME ~returned', NEW t
                 PROVE  Copies(t, counts') <= Copies(t, leaked')
                          + (Rooted(t)' + (Cardinality(Holding(t)') + Cardinality(Unpaid(t)')))
        BY DEF Upper
    <2>0. ~returned /\ counts' = counts /\ leaked' = leaked
        BY <1>5
    <2>1. Copies(t, counts) <= Copies(t, leaked) + (Rooted(t) + (Cardinality(Holding(t)) + Cardinality(Unpaid(t))))
        BY <1>1, <2>0 DEF Upper
    <2>2. Copies(t, counts) \in Nat /\ Copies(t, leaked) \in Nat /\ Rooted(t) \in {0, 1} /\ Rooted(t)' \in {0, 1}
          /\ Cardinality(Unpaid(t)) \in Nat /\ Cardinality(Unpaid(t)') \in Nat
        BY <1>1, <1>12, Numbers, NumbersNext
    <2>3. \A r : Settling(r)' => Settling(r)
        BY <1>8, <1>9 DEF Settling
    <2>4. Unpaid(t) \subseteq Unpaid(t)'
        BY <1>5, <1>11, <2>3 DEF Unpaid, Replayed
    <2>5. Cardinality(Unpaid(t)) <= Cardinality(Unpaid(t)')
        BY <1>1, <1>12, <2>4, UnpaidGrows
    <2>6. CASE t = n
        <3>1. Rooted(t) = 0 /\ Rooted(t)' = 1
            BY <1>4, <1>21, <1>22, <2>0, <2>6
        <3> QED BY <1>20, <2>0, <2>1, <2>2, <2>5, <2>6, <3>1
    <2>7. CASE t = catalog.tree
        <3>1. catalog \in pending' /\ catalog \notin pending
            BY <1>17, <1>22, <2>0 DEF InQueue
        <3>2. ~Settling(catalog)
            BY <1>17 DEF Settling, InQueue, QueuedBy
        <3>3. ~Replayed(ReleaseId(catalog), catalog.tree)
            <4>1. \A a \in applied : a.id[1] = catalog.id => a.id[2] < catalog.revision
                BY <1>1 DEF KnownInv
            <4>2. ASSUME Replayed(ReleaseId(catalog), catalog.tree) PROVE FALSE
                <5>1. PICK a \in applied : a.id = <<catalog.id, catalog.revision>>
                    BY <4>2 DEF Replayed, ReleaseId
                <5> QED BY <1>4, <4>1, <5>1
            <4> QED BY <4>2
        <3>4. catalog \in Unpaid(t)' /\ catalog \notin Unpaid(t)
            BY <1>5, <2>3, <2>7, <3>1, <3>2, <3>3 DEF Unpaid, Replayed
        <3>5. Cardinality(Unpaid(t)) + 1 <= Cardinality(Unpaid(t)')
            BY <1>1, <1>12, <2>4, <3>4, UnpaidGainsOne
        <3>6. t # n
            BY <1>4, <2>7
        <3>7. Cardinality(Holding(t)') = Cardinality(Holding(t)) /\ Cardinality(Holding(t)) \in Nat
            BY <1>20, <3>6
        <3> QED BY <2>0, <2>1, <2>2, <3>5, <3>7
    <2>8. CASE t # n /\ t # catalog.tree
        <3>1. Rooted(t) = 0 /\ Rooted(t)' = 0
            BY <1>21, <2>8
        <3>2. Cardinality(Holding(t)') = Cardinality(Holding(t)) /\ Cardinality(Holding(t)) \in Nat
            BY <1>20, <2>8
        <3> QED BY <2>0, <2>1, <2>2, <2>5, <3>1, <3>2
    <2> QED BY <2>6, <2>7, <2>8
<1>24. Lower'
    <2> SUFFICES ASSUME ~returned', NEW t, Live(t)'
                 PROVE  Free(t)' /\ Copies(t, counts') >= Rooted(t)' + Cardinality(Holding(t)')
        BY DEF Lower
    <2>0. ~returned /\ counts' = counts
        BY <1>5
    \* Nobody read the new revision yet.
    <2>1. ASSUME NEW v \in Worker PROVE ~MayCommit(job[v], t)'
        <3>1. CASE v = w
            BY <1>8, <1>9, <3>1 DEF MayCommit
        <3>2. CASE v # w
            <4>1. SUFFICES ASSUME MayCommit(job[v], t)' PROVE FALSE
                OBVIOUS
            <4>2. job[v].pc \in {"check", "batch"} /\ catalog'.id = job[v].root.id /\ catalog'.revision = job[v].root.revision
                BY <1>9, <3>2, <4>1 DEF MayCommit, SameRow
            <4>3. Known(job[v].root)
                BY <4>2 DEF Known, Mentions, Editing
            <4> QED BY <1>4, <1>6, <1>16, <4>2, <4>3
        <3> QED BY <3>1, <3>2
    <2>2. Live(t) /\ t # catalog.tree
        <3>1. t \notin past' \/ t = n
            BY <1>6, <2>1 DEF Live
        <3> QED BY <1>4, <1>5, <1>22, <2>0, <3>1 DEF Live
    <2>3. Free(t) /\ Copies(t, counts) >= Rooted(t) + Cardinality(Holding(t))
        BY <1>1, <2>0, <2>2 DEF Lower
    <2>4. ASSUME NEW v \in Worker PROVE ~Releases(job[v], t)'
        <3>1. CASE v = w
            BY <1>8, <1>9, <1>10, <2>2, <3>1 DEF Releases, QueuedBy
        <3>2. CASE v # w
            <4>1. job'[v] = job[v] /\ ~Releases(job[v], t)
                BY <1>9, <2>3, <3>2 DEF Free
            <4>2. CASE job[v].pc \in {"retain", "check", "batch"} /\ SameRow(job[v].root)
                <5>1. Known(job[v].root)
                    BY <4>2 DEF Known, Mentions, Editing
                <5>2. job[v].root = catalog
                    BY <4>2, <5>1, SameRowIs
                <5> QED BY <2>2, <4>1, <4>2, <5>2 DEF Releases, QueuedBy
            <4>3. CASE ~(job[v].pc \in {"retain", "check", "batch"} /\ SameRow(job[v].root))
                BY <4>1, <4>3 DEF Releases, QueuedBy
            <4> QED BY <4>2, <4>3
        <3> QED BY <3>1, <3>2
    <2>5. ~LetGo(t)'
        BY <1>5, <1>6, <2>2, <2>3 DEF Free, LetGo
    <2>6. Free(t)'
        BY <1>11, <2>2, <2>3, <2>4, <2>5 DEF Free
    <2>7. Rooted(t) = 0 /\ Rooted(t)' \in {0, 1} /\ (t # n => Rooted(t)' = 0) /\ Copies(t, counts) \in Nat
        BY <1>1, <1>12, <1>21, <2>2, Numbers, NumbersNext
    <2>8. Copies(t, counts') >= Rooted(t)' + Cardinality(Holding(t)')
        <3>1. CASE t = n
            BY <1>20, <2>0, <2>3, <2>7, <3>1
        <3>2. CASE t # n
            BY <1>20, <2>0, <2>3, <2>7, <3>2
        <3> QED BY <3>1, <3>2
    <2> QED BY <2>6, <2>8
<1> QED BY <1>12, <1>13, <1>18, <1>23, <1>24 DEF Core

LEMMA HoldEmptyKeeps ==
    ASSUME Core, NEW w \in Worker, HoldEmpty(w)
    PROVE  Core'
<1>0. PICK x : x = EmptyTree
    OBVIOUS
<1>1. FilesShape /\ KnownInv /\ JobsSound /\ JobShape /\ SmokeShape /\ StoreShape /\ Lower
    BY DEF Core, FilesShape
<1>2. /\ job[w].pc = "hold" /\ UNCHANGED <<catalog, pending, applied, smoke, past, returned>>
      /\ counts' = counts (+) SetToBag({x})
      /\ \/ Goto(w, "create") /\ leaked' = leaked
         \/ leaked' = leaked (+) SetToBag({x}) /\ Goto(w, "fail")
    BY <1>0 DEF HoldEmpty, At
<1>3. IsABag(counts') /\ \A t : Copies(t, counts') = Copies(t, counts) + One(t = x)
    <2>1. IsABag(counts)
        BY <1>1 DEF StoreShape
    <2> QED BY <1>2, <2>1, TakenIs
<1>4. \A t : One(t = x) \in {0, 1}
    BY DEF One
<1>5. \A t : ~Keeps(job[w], t) /\ One(Keeps(job[w], t)) = 0
    BY <1>2 DEF Keeps, Keeping, One
<1>6. job[w].next = EmptyTree
    BY <1>1, <1>2 DEF JobsSound, JobSound
<1>7. PICK k \in Jobs :
          /\ job' = [job EXCEPT ![w] = k] /\ IsABag(leaked') /\ JobSound(k)'
          /\ Mentions(k) = {} /\ QueuedBy(k) = {} /\ k.pc # "complete"
          /\ \A t : /\ ~MayCommit(k, t) /\ ~Releases(k, t)'
                    /\ Copies(t, leaked') + One(Keeps(k, t)) = Copies(t, leaked) + One(t = x)
                    /\ One(Keeps(k, t)) <= One(t = x) /\ One(Keeps(k, t)) \in {0, 1}
    <2>0. IsABag(leaked) /\ \A t : Copies(t, leaked) \in Nat
        BY <1>1, CopiesNumber DEF StoreShape
    <2>1. CASE Goto(w, "create") /\ leaked' = leaked
        <3>1. PICK k \in Jobs : job' = [job EXCEPT ![w] = k] /\ k.pc = "create" /\ SamePlan(k, job[w])
            BY <1>1, <2>1, GotoIs DEF Keeping
        <3>2. JobSound(k)' /\ k.next = EmptyTree
            BY <1>6, <3>1 DEF JobSound, SamePlan, Editing, Reconciling
        <3>3. Mentions(k) = {} /\ QueuedBy(k) = {} /\ \A t : ~MayCommit(k, t) /\ ~Releases(k, t)'
            BY <3>1 DEF Mentions, QueuedBy, Editing, Reconciling, MayCommit, Releases
        <3>4. \A t : One(Keeps(k, t)) = One(t = x)
            BY <1>0, <3>1, <3>2 DEF Keeps, Keeping, One
        <3>5. ASSUME NEW t
              PROVE  /\ Copies(t, leaked') + One(Keeps(k, t)) = Copies(t, leaked) + One(t = x)
                     /\ One(Keeps(k, t)) <= One(t = x) /\ One(Keeps(k, t)) \in {0, 1}
            <4>1. One(t = x) \in {0, 1} /\ One(Keeps(k, t)) = One(t = x) /\ leaked' = leaked
                BY <1>4, <2>1, <3>4
            <4> QED BY <4>1
        <3> QED BY <2>0, <2>1, <3>1, <3>2, <3>3, <3>5
    <2>2. CASE leaked' = leaked (+) SetToBag({x}) /\ Goto(w, "fail")
        <3>1. PICK k \in Jobs : job' = [job EXCEPT ![w] = k] /\ k.pc = "fail"
            BY <1>1, <2>2, GotoIs DEF Passive
        <3>2. PassiveJob(k)
            BY <3>1 DEF PassiveJob, Passive
        <3>3. /\ Mentions(k) = {} /\ QueuedBy(k) = {} /\ k.pc # "complete" /\ JobSound(k)'
              /\ \A t : ~Keeps(k, t) /\ One(Keeps(k, t)) = 0 /\ ~MayCommit(k, t) /\ ~Releases(k, t)'
            BY <3>2, PassiveIs
        <3>4. IsABag(leaked') /\ \A t : Copies(t, leaked') = Copies(t, leaked) + One(t = x)
            BY <2>0, <2>2, LeakedIs
        <3>5. \A t : Copies(t, leaked') + One(Keeps(k, t)) = Copies(t, leaked) + One(t = x)
                     /\ One(Keeps(k, t)) <= One(t = x) /\ One(Keeps(k, t)) \in {0, 1}
            BY <1>4, <2>0, <3>3, <3>4
        <3> QED BY <3>1, <3>3, <3>4, <3>5
    <2> QED BY <1>2, <2>1, <2>2
<1>8. StoreShape' /\ SmokeShape'
    BY <1>1, <1>2, <1>3, <1>7 DEF StoreShape, SmokeShape
<1>9. ASSUME NEW t PROVE UpperMoves(w, k, t)
    <2>1. Rooted(t)' = Rooted(t) /\ Cardinality(Unpaid(t)) <= Cardinality(Unpaid(t)')
        BY <1>1, <1>2, <1>7, <1>8, RootedSame, UnpaidSame
    <2>2. Copies(t, counts) \in Nat /\ Copies(t, leaked) \in Nat /\ Rooted(t) \in {0, 1} /\ Copies(t, leaked') \in Nat
          /\ Cardinality(Unpaid(t)) \in Nat /\ Cardinality(Unpaid(t)') \in Nat
        BY <1>1, <1>8, Numbers, NumbersNext
    <2>3. One(Keeps(job[w], t)) = 0 /\ One(Keeps(k, t)) \in {0, 1} /\ One(t = x) \in {0, 1}
          /\ Copies(t, leaked') + One(Keeps(k, t)) = Copies(t, leaked) + One(t = x)
        BY <1>4, <1>5, <1>7
    <2>4. Copies(t, counts') = Copies(t, counts) + One(t = x)
        BY <1>3
    <2> QED BY <2>1, <2>2, <2>3, <2>4 DEF UpperMoves
<1>10. ASSUME NEW t, ~returned', Live(t)' PROVE LowerMoves(w, k, t)
    <2>1. Live(t)
        BY <1>1, <1>2, <1>7, <1>10, LiveBefore
    <2>2. Rooted(t)' = Rooted(t) /\ (LetGo(t)' => LetGo(t))
        BY <1>2, RootedSame DEF LetGo
    <2>3. Copies(t, counts) \in Nat /\ Rooted(t) \in {0, 1}
        BY <1>1, Numbers
    <2>4. One(Keeps(job[w], t)) = 0 /\ One(Keeps(k, t)) \in {0, 1} /\ One(t = x) \in {0, 1} /\ One(Keeps(k, t)) <= One(t = x)
        BY <1>4, <1>5, <1>7
    <2>5. Copies(t, counts') = Copies(t, counts) + One(t = x)
        BY <1>3
    <2>6. Copies(t, counts') + (Rooted(t) + One(Keeps(job[w], t)))
            >= Copies(t, counts) + (Rooted(t)' + One(Keeps(k, t)))
        BY <2>2, <2>3, <2>4, <2>5
    <2> QED BY <1>7, <2>1, <2>2, <2>6 DEF LowerMoves
<1>11. \A a \in applied' : a.id[1] = catalog.id => a.id[2] < catalog.revision
    BY <1>1, <1>2 DEF KnownInv
<1>12. (\A r \in pending' : r \in pending) /\ (returned => returned') /\ catalog' = catalog /\ past' = past
    BY <1>2
<1> QED BY <1>7, <1>8, <1>9, <1>10, <1>11, <1>12, SteadyStep

\* The reference of the cataloged manifest is released when nothing is queued.
LEMMA ReleaseRootKeeps ==
    ASSUME Core, NEW w \in Worker, ReleaseRoot(w), pending = {},
           job[w].root = catalog, catalog # NoRoot, job[w].run = catalog.id, catalog.revision > 0
    PROVE  Core'
<1>0. PICK x, id : x = catalog.tree /\ id = RootReleaseId(catalog.id)
    OBVIOUS
<1>1. FilesShape /\ KnownInv /\ JobsSound /\ JobShape /\ SmokeShape /\ StoreShape /\ Lower
    BY DEF Core, FilesShape
<1>2. /\ job[w].pc = "release root" /\ UNCHANGED <<catalog, pending, smoke, past, returned, leaked>>
      /\ UpdateOnce(w, id, x, "delete")
    BY <1>0 DEF ReleaseRoot, At, ghost
<1>3. job[w].pc \notin Keeping /\ \A t : ~Keeps(job[w], t) /\ One(Keeps(job[w], t)) = 0
    BY <1>2 DEF Keeps, Keeping, One
<1>4. SmokeShape' /\ catalog \in Rows
    BY <1>1, <1>2 DEF SmokeShape, StoreShape
<1>5. PICK k \in Jobs : job' = [job EXCEPT ![w] = k] /\ PassiveJob(k)
    <2>1. CASE Goto(w, "delete")
        <3>1. PICK k \in Jobs : job' = [job EXCEPT ![w] = k] /\ k.pc = "delete"
            BY <1>1, <2>1, GotoIs DEF Passive
        <3>2. PassiveJob(k)
            BY <3>1 DEF PassiveJob, Passive
        <3> QED BY <3>1, <3>2
    <2>2. CASE Give_up(w)
        BY <1>1, <2>2, GiveUpPassive
    <2> QED BY <1>2, <2>1, <2>2 DEF UpdateOnce
<1>6. CASE UNCHANGED <<counts, applied>>
    BY <1>2, <1>3, <1>4, <1>5, <1>6, PlainStep
<1>7. CASE ~UNCHANGED <<counts, applied>>
    <2>1. ~Replayed(id, x) /\ Held(x) /\ counts' = Dropped(x) /\ applied' = applied \cup {[id |-> id, tree |-> x]}
        BY <1>2, <1>7 DEF UpdateOnce
    <2>2. /\ IsABag(counts')
          /\ \A t : Copies(t, counts') <= Copies(t, counts) /\ (t # x => Copies(t, counts') = Copies(t, counts))
          /\ Copies(x, counts') + 1 = Copies(x, counts)
        <3>1. IsABag(counts)
            BY <1>1 DEF StoreShape
        <3> QED BY <2>1, <3>1, DroppedIs
    <2>3. PICK u : u = [id |-> id, tree |-> x]
        OBVIOUS
    <2>4. u \in Updates /\ u.id = id /\ u.id[2] = 0 /\ u.tree = x /\ applied' = applied \cup {u}
        BY <1>0, <1>4, <2>1, <2>3 DEF Updates, Rows, RootReleaseId
    <2>5. StoreShape'
        BY <1>1, <1>2, <2>2, <2>4 DEF StoreShape
    <2>6. \A a \in applied' : a.id[1] = catalog.id => a.id[2] < catalog.revision
        <3>1. catalog.revision \in Nat
            BY <1>4 DEF Rows
        <3> QED BY <1>1, <2>4, <3>1 DEF KnownInv
    <2>7. ASSUME NEW t PROVE /\ Rooted(t) = One(t = x) /\ Rooted(t)' = 0
                             /\ One(t = x) \in {0, 1} /\ (t = x => One(t = x) = 1) /\ (t # x => One(t = x) = 0)
        <3>1. RootLetGo'
            BY <1>0, <1>2, <2>4 DEF RootLetGo
        <3>2. ~RootLetGo
            <4>1. ASSUME RootLetGo PROVE FALSE
                <5>1. PICK a \in applied : a.id = id /\ a.tree = x
                    BY <1>0, <4>1 DEF RootLetGo
                <5>2. a \in Updates
                    BY <1>1, <5>1 DEF StoreShape
                <5>3. a = [id |-> id, tree |-> x]
                    BY <5>1, <5>2 DEF Updates
                <5> QED BY <2>1, <5>1, <5>3 DEF Replayed
            <4> QED BY <4>1
        <3> QED BY <1>0, <3>1, <3>2 DEF Rooted, One
    <2>8. /\ Mentions(k) = {} /\ QueuedBy(k) = {} /\ k.pc # "complete" /\ JobSound(k)'
          /\ \A t : ~Keeps(k, t) /\ One(Keeps(k, t)) = 0 /\ ~MayCommit(k, t) /\ ~Releases(k, t)'
        BY <1>5, PassiveIs
    <2>9. ASSUME NEW t PROVE UpperMoves(w, k, t)
        <3>1. Unpaid(t) = {} /\ Unpaid(t)' = {}
            BY <1>2 DEF Unpaid
        <3>2. Cardinality(Unpaid(t)) = 0 /\ Cardinality(Unpaid(t)') = 0
            BY <3>1, FS_EmptySet
        <3>3. Copies(t, counts) \in Nat /\ Copies(t, leaked) \in Nat /\ Copies(t, counts') \in Nat
            BY <1>1, <2>5, Numbers, NumbersNext
        <3>4. One(Keeps(k, t)) = 0 /\ One(Keeps(job[w], t)) = 0 /\ leaked' = leaked
            BY <1>2, <1>3, <2>8
        <3>5. Copies(t, counts') + One(t = x) = Copies(t, counts)
            BY <2>2, <2>7, <3>3
        <3> QED BY <2>7, <3>2, <3>3, <3>4, <3>5 DEF UpperMoves
    <2>10. ASSUME NEW t, ~returned', Live(t)' PROVE LowerMoves(w, k, t)
        <3>1. Live(t)
            BY <1>1, <1>2, <1>5, <2>8, <2>10, LiveBefore
        <3>2. catalog.tree # t /\ LetGo(t)' => LetGo(t)
            BY <1>0, <1>2, <2>4 DEF LetGo
        <3>3. Copies(t, counts) \in Nat /\ Copies(t, counts') \in Nat
            BY <1>1, <2>5, Numbers, NumbersNext
        <3>4. One(Keeps(k, t)) = 0 /\ One(Keeps(job[w], t)) = 0
            BY <1>3, <2>8
        <3>5. Copies(t, counts') + One(t = x) = Copies(t, counts)
            BY <2>2, <2>7, <3>3
        <3>6. Copies(t, counts') + (Rooted(t) + One(Keeps(job[w], t)))
                >= Copies(t, counts) + (Rooted(t)' + One(Keeps(k, t)))
            BY <2>7, <3>3, <3>4, <3>5
        <3> QED BY <2>8, <3>1, <3>2, <3>6 DEF LowerMoves
    <2>11. (\A r \in pending' : r \in pending) /\ (returned => returned') /\ catalog' = catalog /\ past' = past
        BY <1>2
    <2> QED BY <1>4, <1>5, <2>5, <2>6, <2>8, <2>9, <2>10, <2>11, SteadyStep
<1> QED BY <1>6, <1>7

-----------------------------------------------------------------------------
(* Steps that create or delete the root, with nobody else at work *)

LEMMA CatalogAlone ==
    ASSUME Core, NEW w \in Worker, NEW k \in Jobs, PassiveJob(k), job' = [job EXCEPT ![w] = k],
           \A v \in Worker : v # w => job[v].pc = "idle",
           pending = {}, UNCHANGED <<pending, counts, applied, returned, leaked>>, SmokeShape',
           catalog' \in Rows, catalog' # NoRoot => catalog'.id # None /\ catalog'.tree \in past',
           \A a \in applied : a.id[1] # catalog'.id,
           ~returned => \A t : Copies(t, counts) <= Copies(t, leaked) + Rooted(t)',
           ~returned => \A t : Copies(t, counts) >= Rooted(t)'
    PROVE  Core'
<1>1. FilesShape /\ KnownInv /\ JobsSound /\ JobShape /\ StoreShape
    BY DEF Core, FilesShape
<1>2. JobShape' /\ job'[w] = k /\ \A v \in Worker : v # w => job'[v] = job[v]
    BY <1>1, JobMoves
<1>3. StoreShape' /\ FilesShape'
    BY <1>1, <1>2 DEF StoreShape, FilesShape
<1>4. \A v \in Worker : PassiveJob(job'[v])
    <2>1. ASSUME NEW v \in Worker, v # w PROVE PassiveJob(job'[v])
        BY <1>2, <2>1 DEF PassiveJob, Passive
    <2> QED BY <1>2, <2>1
<1>5. /\ \A v \in Worker : Mentions(job'[v]) = {} /\ QueuedBy(job'[v]) = {} /\ job'[v].pc # "complete"
      /\ \A v \in Worker : \A t : ~Keeps(job'[v], t)
    <2>1. ASSUME NEW v \in Worker
          PROVE  Mentions(job'[v]) = {} /\ QueuedBy(job'[v]) = {} /\ job'[v].pc # "complete" /\ \A t : ~Keeps(job'[v], t)
        BY <1>4 DEF PassiveJob, Mentions, QueuedBy, Keeps, Passive, Editing, Reconciling, Keeping
    <2> QED BY <2>1
<1>6. JobsSound'
    <2> SUFFICES ASSUME NEW v \in Worker PROVE JobSound(job[v])'
        BY DEF JobsSound
    <2>1. PICK j : j = job'[v]
        OBVIOUS
    <2>2. JobSound(j)'
        BY <1>4, <2>1, PassiveIs
    <2> QED BY <2>1, <2>2 DEF JobSound
<1>7. KnownInv'
    <2>1. \A x : Known(x)' => catalog' # NoRoot /\ x = catalog'
        BY <1>5 DEF Known
    <2>2. \A x : ~InQueue(x)'
        BY <1>5 DEF InQueue
    <2>3. catalog'.revision \in Nat
        BY DEF Rows
    <2> QED BY <2>1, <2>2, <2>3 DEF KnownInv
<1>8. ASSUME NEW t PROVE Cardinality(Holding(t)') = 0 /\ Cardinality(Unpaid(t)') = 0
    <2>1. Holding(t)' = {} /\ Unpaid(t)' = {}
        BY <1>5 DEF Holding, Keeps, Unpaid
    <2> QED BY <2>1, FS_EmptySet
<1>9. \A t : Copies(t, counts) \in Nat /\ Copies(t, leaked) \in Nat /\ Rooted(t)' \in {0, 1}
    BY <1>1, <1>3, Numbers, NumbersNext
<1>10. Upper'
    <2> SUFFICES ASSUME ~returned', NEW t
                 PROVE  Copies(t, counts') <= Copies(t, leaked')
                          + (Rooted(t)' + (Cardinality(Holding(t)') + Cardinality(Unpaid(t)')))
        BY DEF Upper
    <2>1. Copies(t, counts) <= Copies(t, leaked) + Rooted(t)' /\ counts' = counts /\ leaked' = leaked
        OBVIOUS
    <2> QED BY <1>8, <1>9, <2>1
<1>11. Lower'
    <2> SUFFICES ASSUME ~returned', NEW t
                 PROVE  Free(t)' /\ Copies(t, counts') >= Rooted(t)' + Cardinality(Holding(t)')
        BY DEF Lower
    <2>1. Copies(t, counts) >= Rooted(t)' /\ counts' = counts
        OBVIOUS
    <2>2. \A v \in Worker : ~Releases(job[v], t)'
        BY <1>4, <1>5 DEF PassiveJob, Passive, Releases, QueuedBy
    <2>3. ~LetGo(t)'
        BY DEF LetGo, RootReleaseId
    <2>4. Free(t)'
        BY <2>2, <2>3 DEF Free
    <2> QED BY <1>8, <1>9, <2>1, <2>4
<1> QED BY <1>3, <1>6, <1>7, <1>10, <1>11 DEF Core

LEMMA CreateRootKeeps ==
    ASSUME Core, NEW w \in Worker, CreateRoot(w), job[w].run \in Run, catalog = NoRoot, pending = {},
           \A v \in Worker : v # w => job[v].pc = "idle",
           \A a \in applied : a.id[1] # job[w].run, Copies(EmptyTree, counts) >= 1
    PROVE  Core'
<1>1. FilesShape /\ KnownInv /\ JobsSound /\ JobShape /\ SmokeShape /\ StoreShape /\ Upper
    BY DEF Core, FilesShape
<1>2. /\ job[w].pc = "create" /\ UNCHANGED <<pending, counts, applied, returned, leaked>>
      /\ catalog' = [id |-> job[w].run, tree |-> EmptyTree, revision |-> 1]
      /\ past' = past \cup {EmptyTree} /\ smoke' = [smoke EXCEPT ![job[w].run].issued = TRUE] /\ Done(w)
    BY DEF CreateRoot, At
<1>3. job' = [job EXCEPT ![w] = Idle] /\ Idle \in Jobs /\ PassiveJob(Idle)
    BY <1>2, DoneIs, IdleIs DEF PassiveJob, Passive
<1>4. catalog' \in Rows /\ catalog'.id = job[w].run /\ catalog'.tree = EmptyTree /\ job[w].run # None
    BY <1>2, EmptyTreeIs, FileRootsAssumption DEF Rows, Ids, FileRootsAssumption
<1>5. catalog' # NoRoot
    BY <1>4, NoRootIs
<1>6. SmokeShape'
    BY <1>1, <1>2 DEF SmokeShape, SmokeRows
<1>7. \A t : Rooted(t)' = One(t = EmptyTree) /\ One(t = EmptyTree) \in {0, 1} /\ (t # EmptyTree => One(t = EmptyTree) = 0)
             /\ (t = EmptyTree => One(t = EmptyTree) = 1)
    <2>1. ~RootLetGo'
        BY <1>2, <1>4 DEF RootLetGo, RootReleaseId
    <2> QED BY <1>4, <1>5, <2>1 DEF Rooted, One
<1>8. job[w].next = EmptyTree
    BY <1>1, <1>2 DEF JobsSound, JobSound
<1>9. ASSUME ~returned, NEW t PROVE Copies(t, counts) <= Copies(t, leaked) + Rooted(t)'
    <2>1. Copies(t, counts) <= Copies(t, leaked) + (Rooted(t) + (Cardinality(Holding(t)) + Cardinality(Unpaid(t))))
        BY <1>1, <1>9 DEF Upper
    <2>2. Rooted(t) = 0 /\ Unpaid(t) = {}
        BY DEF Rooted, One, Unpaid
    <2>3. Cardinality(Unpaid(t)) = 0
        BY <2>2, FS_EmptySet
    <2>4. Cardinality(Holding(t)) = One(t = EmptyTree)
        <3>1. CASE t = EmptyTree
            <4>1. Holding(t) = {w}
                BY <1>2, <1>8, <3>1 DEF Holding, Keeps, Keeping
            <4> QED BY <1>7, <3>1, <4>1, FS_Singleton
        <3>2. CASE t # EmptyTree
            <4>1. Holding(t) = {}
                BY <1>2, <1>8, <3>2 DEF Holding, Keeps, Keeping
            <4> QED BY <1>7, <3>2, <4>1, FS_EmptySet
        <3> QED BY <3>1, <3>2
    <2>5. Copies(t, counts) \in Nat /\ Copies(t, leaked) \in Nat
        BY <1>1, Numbers
    <2> QED BY <1>7, <2>1, <2>2, <2>3, <2>4, <2>5
<1>10. ASSUME NEW t PROVE Copies(t, counts) >= Rooted(t)'
    <2>1. Copies(t, counts) \in Nat
        BY <1>1, Numbers
    <2> QED BY <1>7, <2>1
<1>11. \A a \in applied : a.id[1] # catalog'.id
    BY <1>4
<1>12. catalog' # NoRoot => catalog'.id # None /\ catalog'.tree \in past'
    BY <1>2, <1>4
<1> QED BY <1>2, <1>3, <1>4, <1>6, <1>9, <1>10, <1>11, <1>12, CatalogAlone

LEMMA DeleteRootKeeps ==
    ASSUME Core, NEW w \in Worker, DeleteRoot(w), pending = {}, job[w].root = catalog, catalog # NoRoot,
           \A v \in Worker : v # w => job[v].pc = "idle",
           \A a \in applied : a.id[1] # None, Replayed(RootReleaseId(catalog.id), catalog.tree)
    PROVE  Core'
<1>1. FilesShape /\ KnownInv /\ JobsSound /\ JobShape /\ SmokeShape /\ StoreShape /\ Upper
    BY DEF Core, FilesShape
<1>2. SameRow(job[w].root)
    BY DEF SameRow
<1>3. /\ job[w].pc = "delete" /\ UNCHANGED <<pending, counts, applied, past, returned, leaked>>
      /\ catalog' = NoRoot /\ smoke' = [r \in Run |-> [smoke[r] EXCEPT !.paths = {}]] /\ Goto(w, "finish")
    BY <1>2 DEF DeleteRoot, At, ghost
<1>4. PICK k \in Jobs : job' = [job EXCEPT ![w] = k] /\ k.pc = "finish"
    <2>1. "finish" \in Passive
        BY DEF Passive
    <2> QED BY <1>1, <1>3, <2>1, GotoIs
<1>5. PassiveJob(k)
    BY <1>4 DEF PassiveJob, Passive
<1>6. SmokeShape'
    BY <1>1, <1>3 DEF SmokeShape, SmokeRows
<1>7. RootLetGo
    BY DEF Replayed, RootLetGo
<1>8. \A t : Rooted(t) = 0 /\ Rooted(t)' = 0
    BY <1>3, <1>7 DEF Rooted, One
<1>9. ASSUME ~returned, NEW t PROVE Copies(t, counts) <= Copies(t, leaked) + Rooted(t)'
    <2>1. Copies(t, counts) <= Copies(t, leaked) + (Rooted(t) + (Cardinality(Holding(t)) + Cardinality(Unpaid(t))))
        BY <1>1, <1>9 DEF Upper
    <2>2. Holding(t) = {} /\ Unpaid(t) = {}
        BY <1>3 DEF Holding, Keeps, Keeping, Unpaid
    <2>3. Cardinality(Holding(t)) = 0 /\ Cardinality(Unpaid(t)) = 0
        BY <2>2, FS_EmptySet
    <2>4. Copies(t, counts) \in Nat /\ Copies(t, leaked) \in Nat
        BY <1>1, Numbers
    <2> QED BY <1>8, <2>1, <2>3, <2>4
<1>10. ASSUME NEW t PROVE Copies(t, counts) >= Rooted(t)'
    <2>1. Copies(t, counts) \in Nat
        BY <1>1, Numbers
    <2> QED BY <1>8, <2>1
<1>11. catalog' \in Rows /\ \A a \in applied : a.id[1] # catalog'.id
    BY <1>3, NoRootIs
<1> QED BY <1>3, <1>4, <1>5, <1>6, <1>9, <1>10, <1>11, CatalogAlone

-----------------------------------------------------------------------------
(* Smoke runs *)

\* One invocation at a time.
Alone(w) == \A v \in Worker : v # w => job[v].pc = "idle"
Solo == \A w \in Worker : job[w].pc # "idle" => Alone(w)

\* What an invocation may rely on when no other is under way.
SmokeTrue(j) ==
    /\ j.pc \in {"ensure", "hold", "create"} =>
          j.run \in Run /\ smoke[j.run].state = "active" /\ \A a \in applied : a.id[1] # j.run
    /\ j.pc \in {"hold", "create", "finish"} => catalog = NoRoot
    /\ j.pc = "create" => Copies(EmptyTree, counts) >= 1
    /\ j.pc \in {"prepare", "mark", "open", "finish", "fail"} => j.run \in Run
    /\ j.pc \in {"mark", "retain", "check", "batch", "release root", "delete"} => j.root = catalog
    /\ j.pc \in {"retain", "check", "batch"} => catalog # NoRoot
    /\ j.pc = "open" \/ (j.op \in {"paths", "remove"} /\ j.pc \notin {"idle", "fail", "finish"}) =>
          j.run \in Run /\ catalog.id = j.run
    /\ j.pc = "reconcile" => pending \subseteq j.todo
    /\ j.pc \in {"drop", "complete"} => pending \subseteq j.todo \cup {j.row}
    /\ j.pc \in {"roots", "release root", "delete"} => pending = {} /\ j.op = "remove"
    /\ j.pc = "delete" => Replayed(RootReleaseId(j.run), j.root.tree)

\* A root belongs to an open run, and what is queued or released to a run that
\* was started.
Started(r) == r \in Run /\ smoke[r].state # "none"

RunsKnown ==
    /\ catalog = NoRoot => pending = {}
    /\ catalog # NoRoot => catalog.id \in Run /\ Open(smoke[catalog.id]) /\ catalog.revision > 0
    /\ \A a \in applied : Started(a.id[1])
    /\ \A x : Known(x) => Started(x.id)

SmokeInv == Solo /\ (\A w \in Worker : SmokeTrue(job[w])) /\ RunsKnown

LEMMA SoloStep ==
    ASSUME JobShape, SmokeInv, NEW w \in Worker, NEW k \in Jobs, job' = [job EXCEPT ![w] = k], Alone(w),
           SmokeTrue(k)', RunsKnown'
    PROVE  SmokeInv'
<1>1. job'[w] = k /\ \A v \in Worker : v # w => job'[v] = job[v] /\ job'[v].pc = "idle"
    BY JobMoves DEF Alone
<1>2. Solo'
    BY <1>1 DEF Solo, Alone
<1>3. ASSUME NEW v \in Worker PROVE SmokeTrue(job[v])'
    <2>1. CASE v = w
        BY <1>1, <2>1 DEF SmokeTrue, Replayed
    <2>2. CASE v # w
        BY <1>1, <2>2 DEF SmokeTrue
    <2> QED BY <2>1, <2>2
<1> QED BY <1>2, <1>3 DEF SmokeInv

\* Steps that leave the row alone and queue nothing.
LEMMA SmokeStep ==
    ASSUME JobShape, SmokeInv, NEW w \in Worker, NEW k \in Jobs, job' = [job EXCEPT ![w] = k], Alone(w),
           SmokeTrue(k)', catalog' = catalog, pending' \subseteq pending,
           \A a \in applied' : a \in applied \/ Started(a.id[1]),
           \A x \in Mentions(k) : Known(x),
           \A r \in Run : Started(r) => Started(r)',
           catalog # NoRoot /\ Open(smoke[catalog.id]) => Open(smoke'[catalog.id])
    PROVE  SmokeInv'
<1>1. job'[w] = k /\ \A v \in Worker : v # w => job'[v] = job[v]
    BY JobMoves
<1>2. \A x : Known(x)' => Known(x)
    BY <1>1 DEF Known
<1>3. RunsKnown
    BY DEF SmokeInv
<1>4. catalog' = NoRoot => pending' = {}
    BY <1>3 DEF RunsKnown
<1>5. catalog' # NoRoot => catalog'.id \in Run /\ Open(smoke'[catalog'.id]) /\ catalog'.revision > 0
    BY <1>3 DEF RunsKnown
<1>6. \A r : Started(r) => Started(r)'
    BY DEF Started
<1>7. (\A a \in applied' : Started(a.id[1])') /\ (\A x : Known(x)' => Started(x.id)')
    BY <1>2, <1>3, <1>6 DEF RunsKnown
<1>8. RunsKnown'
    BY <1>4, <1>5, <1>7 DEF RunsKnown, Open
<1> QED BY <1>8, SoloStep

LEMMA SmokeStill ==
    ASSUME JobShape, SmokeInv, NEW w \in Worker, NEW k \in Jobs, job' = [job EXCEPT ![w] = k], Alone(w),
           SmokeTrue(k)', UNCHANGED <<catalog, pending, applied, smoke>>, \A x \in Mentions(k) : Known(x)
    PROVE  SmokeInv'
<1>1. \A r \in Run : Started(r) => Started(r)'
    BY DEF Started
<1>2. pending' \subseteq pending /\ \A a \in applied' : a \in applied \/ Started(a.id[1])
    OBVIOUS
<1>3. catalog # NoRoot /\ Open(smoke[catalog.id]) => Open(smoke'[catalog.id])
    OBVIOUS
<1> QED BY <1>1, <1>2, <1>3, SmokeStep

\* An invocation that is over, or about to mark its run as failed.
Finishes(k) == k.pc = "idle" \/ (k.pc = "fail" /\ k.run \in Run)

LEMMA EndsTrue ==
    ASSUME NEW k, Finishes(k)
    PROVE  SmokeTrue(k)' /\ Mentions(k) = {}
BY DEF Finishes, SmokeTrue, Mentions, QueuedBy, Editing, Reconciling

LEMMA GiveUpEnds ==
    ASSUME JobShape, NEW w \in Worker, Give_up(w)
    PROVE  \E k \in Jobs : job' = [job EXCEPT ![w] = k] /\ Finishes(k)
<1>1. PICK k \in Jobs : /\ job' = [job EXCEPT ![w] = k] /\ k.pc \in {"idle", "fail"}
                        /\ k.pc = "fail" => SamePlan(k, job[w]) /\ job[w].run # None
    BY GiveUpIs
<1>2. k.pc = "fail" => k.run \in Run
    BY <1>1 DEF SamePlan, Jobs
<1> QED BY <1>1, <1>2 DEF Finishes

LEMMA AtWork ==
    ASSUME Core, SmokeInv, NEW w \in Worker, job[w].pc # "idle"
    PROVE  JobShape /\ Alone(w) /\ SmokeTrue(job[w]) /\ job[w] \in Jobs /\ RunsKnown
           /\ \A x \in Mentions(job[w]) : Known(x)
BY DEF Core, FilesShape, JobShape, SmokeInv, Solo, Known

\* The run of an invocation and its root do not change on the way.
Plain == {"undo", "reread", "release", "assert", "list", "answered"}

LEMMA PlainTrue ==
    ASSUME NEW j, NEW k, SmokeTrue(j), j.pc \notin {"idle", "fail", "finish"},
           k.pc \in Plain, k.op = j.op, k.run = j.run, catalog'.id = catalog.id
    PROVE  SmokeTrue(k)'
BY DEF Plain, SmokeTrue

LEMMA CommitStepsSmoke ==
    ASSUME Core, SmokeInv, NEW w \in Worker,
           Retain(w) \/ CheckRevision(w) \/ Reread(w) \/ ReleasePrevious(w) \/ Undo(w) \/ AssertRetained(w)
    PROVE  SmokeInv'
<1>0. JobShape
    BY DEF Core, FilesShape
<1>1. ASSUME NEW k \in Jobs, job' = [job EXCEPT ![w] = k], Finishes(k), job[w].pc # "idle",
             UNCHANGED <<catalog, pending, applied, smoke>>
      PROVE  SmokeInv'
    BY <1>0, <1>1, AtWork, EndsTrue, SmokeStill
<1>2. ASSUME Give_up(w), job[w].pc # "idle", UNCHANGED <<catalog, pending, applied, smoke>>
      PROVE  SmokeInv'
    BY <1>0, <1>1, <1>2, GiveUpEnds
<1>3. ASSUME NEW pc \in Plain, Goto(w, pc), job[w].pc \notin {"idle", "fail", "finish"},
             pc \in Editing => job[w].pc \in Editing,
             UNCHANGED <<catalog, pending, applied, smoke>>
      PROVE  SmokeInv'
    <2>1. PICK k \in Jobs : job' = [job EXCEPT ![w] = k] /\ k.pc = pc /\ SamePlan(k, job[w])
        BY <1>0, <1>3, GotoIs DEF Plain, Editing, Keeping, Passive
    <2>2. Alone(w) /\ SmokeTrue(job[w]) /\ \A x \in Mentions(job[w]) : Known(x)
        BY <1>3, AtWork
    <2>3. SmokeTrue(k)'
        BY <1>3, <2>1, <2>2, PlainTrue DEF SamePlan
    <2>4. \A x \in Mentions(k) : x \in Mentions(job[w])
        BY <1>3, <2>1 DEF Mentions, QueuedBy, Plain, Editing, Reconciling, SamePlan
    <2> QED BY <1>0, <1>3, <2>1, <2>2, <2>3, <2>4, SmokeStill
\* The next step still works on the row it read.
<1>4. ASSUME NEW pc \in {"check", "batch"}, Goto(w, pc), job[w].pc \in {"retain", "check"},
             UNCHANGED <<catalog, pending, applied, smoke>>
      PROVE  SmokeInv'
    <2>1. PICK k \in Jobs : job' = [job EXCEPT ![w] = k] /\ k.pc = pc /\ SamePlan(k, job[w])
        BY <1>0, <1>4, GotoIs DEF Keeping
    <2>2. Alone(w) /\ SmokeTrue(job[w]) /\ \A x \in Mentions(job[w]) : Known(x)
        BY <1>4, AtWork
    <2>3. SmokeTrue(k)'
        BY <1>4, <2>1, <2>2 DEF SamePlan, SmokeTrue
    <2>4. \A x \in Mentions(k) : x \in Mentions(job[w])
        BY <1>4, <2>1 DEF Mentions, QueuedBy, Editing, Reconciling, SamePlan
    <2> QED BY <1>0, <1>4, <2>1, <2>2, <2>3, <2>4, SmokeStill
<1>5. CASE Retain(w)
    <2>1. job[w].pc = "retain" /\ UNCHANGED <<catalog, pending, applied, smoke>> /\ (Goto(w, "check") \/ Give_up(w))
        BY <1>5 DEF Retain, At
    <2> QED BY <1>2, <1>4, <2>1
<1>6. CASE CheckRevision(w)
    <2>1. job[w].pc = "check" /\ UNCHANGED <<catalog, pending, applied, smoke>> /\ (Goto(w, "batch") \/ Goto(w, "undo"))
        BY <1>6 DEF CheckRevision, At, db
    <2> QED BY <1>3, <1>4, <2>1 DEF Plain, Editing
<1>7. CASE Reread(w)
    <2>1. job[w].pc = "reread" /\ UNCHANGED <<catalog, pending, applied, smoke>>
        BY <1>7 DEF Reread, At, db
    <2>2. Alone(w) /\ SmokeTrue(job[w]) /\ job[w] \in Jobs /\ \A x \in Mentions(job[w]) : Known(x)
        BY <2>1, AtWork
    <2>3. CASE Goto(w, "undo")
        BY <1>3, <2>1, <2>3 DEF Plain, Editing
    <2>4. CASE job' = [job EXCEPT ![w].info = catalog, ![w].pc = "release"]
        <3>1. PICK k : k = [job[w] EXCEPT !.info = catalog, !.pc = "release"]
            OBVIOUS
        <3>2. catalog \in Rows
            BY DEF Core, FilesShape, StoreShape
        <3>3. k \in Jobs /\ k.pc = "release" /\ k.root = job[w].root /\ k.op = job[w].op /\ k.run = job[w].run
            BY <2>2, <3>1, <3>2 DEF Jobs, Editing
        <3>4. job' = [job EXCEPT ![w] = k]
            BY <1>0, <2>4, <3>1 DEF JobShape
        <3>5. SmokeTrue(k)'
            BY <2>1, <2>2, <3>3, PlainTrue DEF Plain
        <3>6. \A x \in Mentions(k) : x \in Mentions(job[w])
            BY <2>1, <3>3 DEF Mentions, QueuedBy, Editing, Reconciling
        <3> QED BY <1>0, <2>1, <2>2, <3>3, <3>4, <3>5, <3>6, SmokeStill
    <2> QED BY <1>7, <2>3, <2>4 DEF Reread
<1>8. CASE ReleasePrevious(w)
    <2>1. job[w].pc = "release" /\ UNCHANGED <<catalog, pending, applied, smoke>> /\ Goto(w, "assert")
        BY <1>8 DEF ReleasePrevious, At
    <2> QED BY <1>3, <2>1 DEF Plain, Editing
<1>9. CASE Undo(w)
    <2>1. job[w].pc = "undo" /\ UNCHANGED <<catalog, pending, applied, smoke>> /\ Give_up(w)
        BY <1>9 DEF Undo, At
    <2> QED BY <1>2, <2>1
<1>10. CASE AssertRetained(w)
    <2>1. job[w].pc = "assert" /\ UNCHANGED <<catalog, pending, applied, smoke>> /\ (Goto(w, "list") \/ Give_up(w))
        BY <1>10 DEF AssertRetained, At, db
    <2> QED BY <1>2, <1>3, <2>1 DEF Plain, Editing
<1> QED BY <1>5, <1>6, <1>7, <1>8, <1>9, <1>10

LEMMA CommitRootSmoke ==
    ASSUME Core, SmokeInv, NEW w \in Worker, CommitRoot(w)
    PROVE  SmokeInv'
<1>1. job[w].pc = "batch"
    BY DEF CommitRoot, At
<1>2. JobShape /\ StoreShape /\ Alone(w) /\ SmokeTrue(job[w]) /\ job[w] \in Jobs /\ RunsKnown /\ \A x \in Mentions(job[w]) : Known(x)
    BY <1>1, AtWork DEF Core, FilesShape
<1>3. job[w].root = catalog /\ catalog # NoRoot /\ catalog \in Rows /\ job[w].next \in Trees
    BY <1>1, <1>2 DEF SmokeTrue, StoreShape, Jobs
<1>4. SameRow(job[w].root)
    BY <1>3 DEF SameRow
<1>5. /\ pending' = Queue(job[w].root) /\ UNCHANGED <<applied, smoke>> /\ Goto(w, "reread")
      /\ catalog' = [catalog EXCEPT !.tree = job[w].next, !.revision = @ + 1]
    BY <1>4 DEF CommitRoot, MayUpdate
<1>6. catalog' \in Rows /\ catalog'.id = catalog.id /\ catalog'.revision = catalog.revision + 1 /\ catalog.revision \in Nat
    BY <1>3, <1>5, MovedRowIs DEF Rows
<1>7. catalog.id \in Run /\ Open(smoke[catalog.id]) /\ Started(catalog.id)
    BY <1>2, <1>3 DEF RunsKnown, Open, Started
<1>8. catalog' # NoRoot
    BY <1>6, <1>7, NoRootIs, FileRootsAssumption DEF FileRootsAssumption
<1>9. PICK k \in Jobs : job' = [job EXCEPT ![w] = k] /\ k.pc = "reread" /\ SamePlan(k, job[w])
    BY <1>2, <1>5, GotoIs DEF Editing
<1>10. SmokeTrue(k)'
    BY <1>1, <1>2, <1>6, <1>9, PlainTrue DEF Plain, SamePlan
<1>11. job'[w] = k /\ \A v \in Worker : v # w => job'[v] = job[v]
    BY <1>2, <1>9, JobMoves
<1>12. Mentions(k) = {catalog} /\ \A r \in pending' : r \in pending \/ r = catalog
    BY <1>3, <1>5, <1>9 DEF Mentions, QueuedBy, Editing, Reconciling, SamePlan, Queue
<1>13. \A x : Known(x)' => Known(x) \/ x = catalog \/ x = catalog'
    BY <1>11, <1>12 DEF Known
<1>14. \A r : Started(r)' <=> Started(r)
    BY <1>5 DEF Started
<1>15. (\A a \in applied' : Started(a.id[1])') /\ (\A x : Known(x)' => Started(x.id)')
    BY <1>2, <1>5, <1>6, <1>7, <1>13, <1>14 DEF RunsKnown
<1>16. catalog'.id \in Run /\ Open(smoke'[catalog'.id]) /\ catalog'.revision > 0
    BY <1>5, <1>6, <1>7
<1>17. RunsKnown'
    BY <1>8, <1>15, <1>16 DEF RunsKnown, Open
<1> QED BY <1>2, <1>9, <1>10, <1>17, SoloStep

LEMMA ReconcileStepsSmoke ==
    ASSUME Core, SmokeInv, NEW w \in Worker,
           ListPending(w) \/ ReadCount(w) \/ DropQueued(w) \/ CompleteRelease(w)
    PROVE  SmokeInv'
<1>0. JobShape /\ StoreShape /\ KnownInv
    BY DEF Core, FilesShape
<1>1. job[w].pc \in {"list", "reconcile", "drop", "complete"}
    BY DEF ListPending, ReadCount, DropQueued, CompleteRelease, At
<1>2. Alone(w) /\ SmokeTrue(job[w]) /\ job[w] \in Jobs /\ RunsKnown /\ \A x \in Mentions(job[w]) : Known(x)
    BY <1>1, AtWork
<1>3. CASE ListPending(w)
    <2>1. job[w].pc = "list" /\ UNCHANGED <<catalog, pending, applied, smoke>>
          /\ job' = [job EXCEPT ![w].todo = pending, ![w].pc = "reconcile"]
        BY <1>3 DEF ListPending, At, db
    <2>2. PICK k : k = [job[w] EXCEPT !.todo = pending, !.pc = "reconcile"]
        OBVIOUS
    <2>3. pending \in SUBSET Rows
        BY <1>0 DEF StoreShape
    <2>4. k \in Jobs /\ k.pc = "reconcile" /\ k.todo = pending /\ k.op = job[w].op /\ k.run = job[w].run
        BY <1>2, <2>2, <2>3 DEF Jobs, Reconciling
    <2>5. job' = [job EXCEPT ![w] = k]
        BY <1>0, <2>1, <2>2 DEF JobShape
    <2>6. SmokeTrue(k)'
        BY <1>2, <2>1, <2>4 DEF SmokeTrue
    <2>7. \A x \in Mentions(k) : Known(x)
        BY <2>4 DEF Mentions, QueuedBy, Editing, Reconciling, Known
    <2> QED BY <1>0, <1>2, <2>1, <2>4, <2>5, <2>6, <2>7, SmokeStill
<1>4. CASE ReadCount(w)
    <2>1. job[w].pc = "reconcile" /\ UNCHANGED <<catalog, pending, applied, smoke>>
        BY <1>4 DEF ReadCount, At, db
    <2>2. PICK r \in job[w].todo :
              job' = [job EXCEPT ![w].row = r, ![w].todo = @ \ {r},
                                 ![w].pc = IF Held(r.tree) THEN "drop" ELSE "complete"]
        BY <1>4 DEF ReadCount
    <2>3. PICK k : k = [job[w] EXCEPT !.row = r, !.todo = @ \ {r}, !.pc = IF Held(r.tree) THEN "drop" ELSE "complete"]
        OBVIOUS
    <2>4. k \in Jobs /\ k.pc \in {"drop", "complete"}
          /\ k.todo = job[w].todo \ {r} /\ k.row = r /\ k.op = job[w].op /\ k.run = job[w].run
        BY <1>2, <2>3 DEF Jobs, Reconciling
    <2>5. job' = [job EXCEPT ![w] = k]
        BY <1>0, <2>2, <2>3 DEF JobShape
    <2>6. pending \subseteq k.todo \cup {k.row}
        BY <1>2, <2>1, <2>4 DEF SmokeTrue
    <2>7. SmokeTrue(k)'
        BY <1>2, <2>1, <2>4, <2>6 DEF SmokeTrue
    <2>8. \A x \in Mentions(k) : x \in Mentions(job[w])
        BY <2>1, <2>4 DEF Mentions, QueuedBy, Editing, Reconciling
    <2> QED BY <1>0, <1>2, <2>1, <2>4, <2>5, <2>7, <2>8, SmokeStill
<1>5. CASE DropQueued(w)
    <2>1. job[w].pc = "drop" /\ UNCHANGED <<catalog, pending, smoke>>
          /\ UpdateOnce(w, ReleaseId(job[w].row), job[w].row.tree, "complete")
        BY <1>5 DEF DropQueued, At
    <2>2. (Goto(w, "complete") \/ Give_up(w))
          /\ \A a \in applied' : a \in applied \/ a = [id |-> ReleaseId(job[w].row), tree |-> job[w].row.tree]
        BY <2>1 DEF UpdateOnce
    <2>3. Started(job[w].row.id)
        BY <1>2, <2>1 DEF Mentions, QueuedBy, RunsKnown
    <2>4. \A a \in applied' : a \in applied \/ Started(a.id[1])
        BY <2>2, <2>3 DEF ReleaseId
    <2>5. PICK k \in Jobs : job' = [job EXCEPT ![w] = k] /\ SmokeTrue(k)' /\ \A x \in Mentions(k) : x \in Mentions(job[w])
        <3>1. CASE Goto(w, "complete")
            <4>1. PICK k \in Jobs : job' = [job EXCEPT ![w] = k] /\ k.pc = "complete" /\ SamePlan(k, job[w])
                BY <1>0, <3>1, GotoIs DEF Reconciling
            <4>2. SmokeTrue(k)'
                BY <1>2, <2>1, <4>1 DEF SmokeTrue, SamePlan
            <4>3. \A x \in Mentions(k) : x \in Mentions(job[w])
                BY <2>1, <4>1 DEF Mentions, QueuedBy, Editing, Reconciling, SamePlan
            <4> QED BY <4>1, <4>2, <4>3
        <3>2. CASE Give_up(w)
            <4>1. PICK k \in Jobs : job' = [job EXCEPT ![w] = k] /\ Finishes(k)
                BY <1>0, <3>2, GiveUpEnds
            <4> QED BY <4>1, EndsTrue
        <3> QED BY <2>2, <3>1, <3>2
    <2>6. (\A r \in Run : Started(r) => Started(r)') /\ pending' \subseteq pending
        BY <2>1 DEF Started
    <2>7. catalog # NoRoot /\ Open(smoke[catalog.id]) => Open(smoke'[catalog.id])
        BY <2>1
    <2> QED BY <1>0, <1>2, <2>1, <2>4, <2>5, <2>6, <2>7, SmokeStep
<1>6. CASE CompleteRelease(w)
    <2>1. /\ job[w].pc = "complete" /\ UNCHANGED <<catalog, applied, smoke>> /\ Goto(w, "reconcile")
          /\ pending' = {r \in pending : ReleaseId(r) # ReleaseId(job[w].row)}
        BY <1>6 DEF CompleteRelease, At
    <2>2. PICK k \in Jobs : job' = [job EXCEPT ![w] = k] /\ k.pc = "reconcile" /\ SamePlan(k, job[w])
        BY <1>0, <2>1, GotoIs DEF Reconciling
    <2>3. pending' \subseteq k.todo /\ pending' \subseteq pending
        BY <1>2, <2>1, <2>2 DEF SmokeTrue, SamePlan
    <2>4. SmokeTrue(k)'
        BY <1>2, <2>1, <2>2, <2>3 DEF SmokeTrue, SamePlan
    <2>5. \A x \in Mentions(k) : x \in Mentions(job[w])
        BY <2>1, <2>2 DEF Mentions, QueuedBy, Editing, Reconciling, SamePlan
    <2>6. (\A r \in Run : Started(r) => Started(r)') /\ \A a \in applied' : a \in applied
        BY <2>1 DEF Started
    <2>7. catalog # NoRoot /\ Open(smoke[catalog.id]) => Open(smoke'[catalog.id])
        BY <2>1
    <2> QED BY <1>0, <1>2, <2>1, <2>2, <2>3, <2>4, <2>5, <2>6, <2>7, SmokeStep
<1> QED BY <1>3, <1>4, <1>5, <1>6

-----------------------------------------------------------------------------
(* Steps between the effects *)

LEMMA AssertRetainedKeeps ==
    ASSUME Core, NEW w \in Worker, AssertRetained(w)
    PROVE  Core'
<1>1. FilesShape /\ JobsSound /\ JobShape /\ SmokeShape
    BY DEF Core, FilesShape
<1>2. /\ job[w].pc = "assert" /\ UNCHANGED <<catalog, pending, counts, applied, smoke, past, returned, leaked>>
      /\ Goto(w, "list") \/ Give_up(w)
    BY DEF AssertRetained, At, db, ghost
<1>3. PICK k \in Jobs : job' = [job EXCEPT ![w] = k] /\ PassiveJob(k)
    <2>1. CASE Goto(w, "list")
        <3>1. PICK k \in Jobs : job' = [job EXCEPT ![w] = k] /\ k.pc = "list" /\ SamePlan(k, job[w])
            BY <1>1, <2>1, GotoIs DEF Passive
        <3>2. PassiveJob(k)
            BY <1>1, <1>2, <3>1 DEF JobsSound, JobSound, PassiveJob, SamePlan, Passive
        <3> QED BY <3>1, <3>2
    <2>2. CASE Give_up(w)
        BY <1>1, <2>2, GiveUpPassive
    <2> QED BY <1>2, <2>1, <2>2
<1>4. job[w].pc \notin Keeping /\ SmokeShape'
    BY <1>1, <1>2 DEF Keeping, SmokeShape
<1> QED BY <1>2, <1>3, <1>4, PlainStep

LEMMA ReconciledIs ==
    ASSUME Core, NEW w \in Worker, Reconciled(w)
    PROVE  \E k \in Jobs :
              /\ job' = [job EXCEPT ![w] = k] /\ k.run \in {job[w].run, None}
              /\ \/ k.pc = "answered" /\ k.op = "edit"
                 \/ k = Idle
                 \/ k.pc = "list" /\ k.op = "remove" /\ job[w].op = "paths" /\ k.run = job[w].run
                 \/ k.pc = "roots" /\ k.op = "remove" /\ job[w].op = "remove" /\ k.run = job[w].run
<1>1. JobsSound /\ JobShape /\ job[w].pc = "reconcile"
    BY DEF Core, FilesShape, Reconciled, At
<1>2. job[w] \in Jobs /\ job[w].op \in {"edit", "cron", "paths", "remove"}
    BY <1>1 DEF JobsSound, JobSound, JobShape, Jobs, Reconciling
<1>3. job' = [job EXCEPT ![w] =
          CASE job[w].op = "edit"   -> [job[w] EXCEPT !.pc = "answered"]
            [] job[w].op = "cron"   -> Idle
            [] job[w].op = "paths"  -> [job[w] EXCEPT !.op = "remove", !.pc = "list"]
            [] job[w].op = "remove" -> [job[w] EXCEPT !.pc = "roots"]]
    BY <1>1 DEF Reconciled, JobShape
<1>4. CASE job[w].op = "edit"
    <2>1. PICK k : k = [job[w] EXCEPT !.pc = "answered"]
        OBVIOUS
    <2>2. k \in Jobs /\ k.pc = "answered" /\ k.op = "edit" /\ k.run = job[w].run
        BY <1>2, <1>4, <2>1 DEF Jobs, Passive
    <2> QED BY <1>3, <1>4, <2>1, <2>2
<1>5. CASE job[w].op = "cron"
    BY <1>3, <1>5, IdleIs
<1>6. CASE job[w].op = "paths"
    <2>1. PICK k : k = [job[w] EXCEPT !.op = "remove", !.pc = "list"]
        OBVIOUS
    <2>2. k \in Jobs /\ k.pc = "list" /\ k.op = "remove" /\ k.run = job[w].run
        BY <1>2, <1>6, <2>1 DEF Jobs, Passive
    <2> QED BY <1>3, <1>6, <2>1, <2>2
<1>7. CASE job[w].op = "remove"
    <2>1. PICK k : k = [job[w] EXCEPT !.pc = "roots"]
        OBVIOUS
    <2>2. k \in Jobs /\ k.pc = "roots" /\ k.op = "remove" /\ k.run = job[w].run
        BY <1>2, <1>7, <2>1 DEF Jobs, Passive
    <2> QED BY <1>3, <1>7, <2>1, <2>2
<1> QED BY <1>2, <1>4, <1>5, <1>6, <1>7

LEMMA ReconciledKeeps ==
    ASSUME Core, NEW w \in Worker, Reconciled(w)
    PROVE  Core' /\ (SmokeInv => SmokeInv')
<1>1. JobShape /\ SmokeShape
    BY DEF Core, FilesShape
<1>2. /\ job[w].pc = "reconcile" /\ job[w].todo = {}
      /\ UNCHANGED <<catalog, pending, counts, applied, smoke, past, returned, leaked>>
    BY DEF Reconciled, At, db, ghost
<1>3. PICK k \in Jobs :
          /\ job' = [job EXCEPT ![w] = k]
          /\ \/ k.pc = "answered" /\ k.op = "edit"
             \/ k = Idle
             \/ k.pc = "list" /\ k.op = "remove" /\ job[w].op = "paths" /\ k.run = job[w].run
             \/ k.pc = "roots" /\ k.op = "remove" /\ job[w].op = "remove" /\ k.run = job[w].run
    BY ReconciledIs
<1>4. PassiveJob(k)
    BY <1>3, IdleIs DEF PassiveJob, Passive
<1>5. job[w].pc \notin Keeping /\ SmokeShape'
    BY <1>1, <1>2 DEF Keeping, SmokeShape
<1>6. Core'
    BY <1>2, <1>3, <1>4, <1>5, PlainStep
<1>7. ASSUME SmokeInv PROVE SmokeInv'
    <2>1. Alone(w) /\ SmokeTrue(job[w])
        BY <1>2, <1>7, AtWork
    <2>2. pending = {}
        BY <1>2, <2>1 DEF SmokeTrue
    <2>3. Mentions(k) = {}
        BY <1>4, PassiveIs
    <2>4. CASE k = Idle
        BY <1>1, <1>2, <1>3, <1>7, <2>1, <2>4, IdleIs, EndsTrue, SmokeStill DEF Finishes
    <2>5. CASE k # Idle
        <3>1. SmokeTrue(k)'
            BY <1>2, <1>3, <2>1, <2>2, <2>5 DEF SmokeTrue
        <3> QED BY <1>1, <1>2, <1>3, <1>7, <2>1, <2>3, <3>1, SmokeStill
    <2> QED BY <2>4, <2>5
<1> QED BY <1>6, <1>7

\* An invocation ends with nothing in hand.
LEMMA EndKeeps ==
    ASSUME Core, NEW w \in Worker, Done(w), job[w].pc \notin Keeping \cup {"idle"},
           UNCHANGED <<db, past, returned, leaked>>
    PROVE  Core' /\ (SmokeInv => SmokeInv')
<1>1. JobShape /\ SmokeShape
    BY DEF Core, FilesShape
<1>2. UNCHANGED <<catalog, pending, counts, applied, smoke, past, returned, leaked>>
    BY DEF db
<1>3. job' = [job EXCEPT ![w] = Idle] /\ Idle \in Jobs /\ PassiveJob(Idle) /\ Finishes(Idle)
    BY DoneIs, IdleIs DEF PassiveJob, Passive, Finishes
<1>4. Core'
    BY <1>1, <1>2, <1>3, PlainStep DEF SmokeShape
<1>5. ASSUME SmokeInv PROVE SmokeInv'
    <2>1. Alone(w)
        BY <1>5, AtWork
    <2> QED BY <1>1, <1>2, <1>3, <1>5, <2>1, EndsTrue, SmokeStill
<1> QED BY <1>4, <1>5

\* An invocation stops: what it had taken is counted as leaked.
LEMMA StopKeeps ==
    ASSUME Core, NEW w \in Worker, Stop(w)
    PROVE  Core' /\ (SmokeInv => SmokeInv')
<1>1. JobShape /\ SmokeShape /\ StoreShape /\ JobsSound
    BY DEF Core, FilesShape
<1>2. /\ job[w].pc # "idle" /\ UNCHANGED <<catalog, pending, counts, applied, smoke, past, returned>>
      /\ leaked' = leaked (+) Orphaned(job[w])
    BY DEF Stop, At, db
<1>3. job' = [job EXCEPT ![w] = Idle] /\ Idle \in Jobs /\ PassiveJob(Idle) /\ Finishes(Idle)
    BY DoneIs, IdleIs DEF Stop, PassiveJob, Passive, Finishes
<1>4. IsABag(leaked') /\ \A t : Copies(t, leaked') = Copies(t, leaked) + One(Keeps(job[w], t))
    <2>0. IsABag(leaked) /\ \A t : Copies(t, leaked) \in Nat
        BY <1>1, CopiesNumber DEF StoreShape
    <2>1. CASE job[w].pc \in Keeping
        <3>1. PICK x : x = job[w].next
            OBVIOUS
        <3>2. job[w].pc = "create" => x = EmptyTree
            BY <1>1, <3>1 DEF JobsSound, JobSound
        <3>3. Orphaned(job[w]) = SetToBag({x})
            BY <2>1, <3>1, <3>2 DEF Orphaned, Keeping
        <3>4. IsABag(leaked') /\ \A t : Copies(t, leaked') = Copies(t, leaked) + One(t = x)
            BY <1>2, <2>0, <3>3, LeakedIs
        <3>5. \A t : One(Keeps(job[w], t)) = One(t = x)
            BY <2>1, <3>1 DEF Keeps, One
        <3>6. ASSUME NEW t PROVE Copies(t, leaked') = Copies(t, leaked) + One(Keeps(job[w], t))
            <4>1. One(Keeps(job[w], t)) = One(t = x) /\ Copies(t, leaked') = Copies(t, leaked) + One(t = x)
                BY <3>4, <3>5
            <4> QED BY <4>1
        <3> QED BY <3>4, <3>6
    <2>2. CASE job[w].pc \notin Keeping
        <3>1. Orphaned(job[w]) = EmptyBag
            BY <2>2 DEF Orphaned, Keeping
        <3>2. leaked' = leaked
            BY <1>2, <2>0, <3>1, AddNone
        <3>3. \A t : One(Keeps(job[w], t)) = 0
            BY <2>2 DEF Keeps, One
        <3> QED BY <2>0, <3>2, <3>3
    <2> QED BY <2>1, <2>2
<1>5. Core'
    BY <1>1, <1>2, <1>3, <1>4, PassiveStep DEF SmokeShape
<1>6. ASSUME SmokeInv PROVE SmokeInv'
    <2>1. Alone(w)
        BY <1>2, <1>6, AtWork
    <2> QED BY <1>1, <1>2, <1>3, <1>6, <2>1, EndsTrue, SmokeStill
<1> QED BY <1>5, <1>6

-----------------------------------------------------------------------------
(* Steps of the smoke client and of cleanup *)

LEMMA PassiveSmoke ==
    ASSUME Core, SmokeInv, NEW w \in Worker, Alone(w), job[w].pc \notin Keeping,
           NEW k \in Jobs, PassiveJob(k), job' = [job EXCEPT ![w] = k], SmokeTrue(k)',
           UNCHANGED <<catalog, pending, counts, applied, past, returned, leaked>>, SmokeShape',
           \A r \in Run : Started(r) => Started(r)',
           catalog # NoRoot /\ Open(smoke[catalog.id]) => Open(smoke'[catalog.id])
    PROVE  Core' /\ SmokeInv'
<1>1. JobShape
    BY DEF Core, FilesShape
<1>2. Core'
    BY PlainStep
<1>3. Mentions(k) = {}
    BY PassiveIs
<1>4. pending' \subseteq pending /\ \A a \in applied' : a \in applied
    OBVIOUS
<1> QED BY <1>1, <1>2, <1>3, <1>4, SmokeStep

LEMMA PassiveStill ==
    ASSUME Core, SmokeInv, NEW w \in Worker, Alone(w), job[w].pc \notin Keeping,
           NEW k \in Jobs, PassiveJob(k), job' = [job EXCEPT ![w] = k], SmokeTrue(k)',
           UNCHANGED <<db, past, returned, leaked>>
    PROVE  Core' /\ SmokeInv'
<1>1. UNCHANGED <<catalog, pending, counts, applied, smoke, past, returned, leaked>>
    BY DEF db
<1>2. SmokeShape'
    BY <1>1 DEF Core, FilesShape, SmokeShape
<1>3. \A r \in Run : Started(r) => Started(r)'
    BY <1>1 DEF Started
<1>4. catalog # NoRoot /\ Open(smoke[catalog.id]) => Open(smoke'[catalog.id])
    BY <1>1
<1> QED BY <1>1, <1>2, <1>3, <1>4, PassiveSmoke

\* A working copy opened by a request, or by a cleanup of the root's own run.
LEMMA OpenSmoke ==
    ASSUME Core, SmokeInv, NEW w \in Worker, Alone(w), catalog # NoRoot, NEW t \in Trees,
           NEW j \in Jobs, j.op = "edit" \/ (j.op = "paths" /\ j.run \in Run /\ catalog.id = j.run),
           job' = [job EXCEPT ![w] = Opened(j, catalog, t)], UNCHANGED <<catalog, pending, applied>>,
           \A r \in Run : smoke'[r].state = smoke[r].state
    PROVE  SmokeInv'
<1>1. JobShape /\ StoreShape /\ RunsKnown
    BY DEF Core, FilesShape, SmokeInv
<1>2. PICK k : k = Opened(j, catalog, t)
    OBVIOUS
<1>3. /\ k \in Jobs /\ k.root = catalog /\ k.op = j.op /\ k.run = j.run /\ k.pc \in {"assert", "retain"}
    BY <1>1, <1>2 DEF Opened, Jobs, StoreShape, Editing, Passive
<1>4. SmokeTrue(k)'
    BY <1>3 DEF SmokeTrue
<1>5. \A x \in Mentions(k) : Known(x)
    BY <1>3 DEF Mentions, QueuedBy, Editing, Reconciling, Known
<1>6. (\A r \in Run : Started(r) => Started(r)') /\ job' = [job EXCEPT ![w] = k]
    BY <1>2 DEF Started
<1>7. catalog # NoRoot /\ Open(smoke[catalog.id]) => Open(smoke'[catalog.id])
    BY <1>1 DEF RunsKnown, Open
<1>8. pending' \subseteq pending /\ \A a \in applied' : a \in applied
    OBVIOUS
<1> QED BY <1>1, <1>3, <1>4, <1>5, <1>6, <1>7, <1>8, SmokeStep

LEMMA StartEditKeeps ==
    ASSUME Core, NEW w \in Worker, NEW r \in FileRequest, StartEdit(w, r)
    PROVE  /\ Core' /\ (SmokeInv /\ Alone(w) => SmokeInv')
           /\ (\A q \in Run : smoke[q].state = "none") => (\A q \in Run : smoke'[q].state = "none")
<1>1. FilesShape /\ JobShape /\ StoreShape /\ SmokeShape /\ catalog \in Rows
    BY DEF Core, FilesShape, StoreShape
<1>2. /\ job[w].pc = "idle" /\ catalog # NoRoot /\ Applicable(catalog.tree, r) /\ Track(catalog.id, r)
      /\ job' = [job EXCEPT ![w] = Opened([Idle EXCEPT !.op = "edit"], catalog, Changed(catalog.tree, r))]
      /\ UNCHANGED <<catalog, pending, counts, applied, past, returned, leaked>>
    BY DEF StartEdit, At, ghost
<1>3. Changed(catalog.tree, r) \in Trees
    <2>1. catalog.tree \in Trees
        BY <1>1 DEF Rows
    <2> QED BY <1>2, <2>1, ChangedIs
<1>4. PICK j : j = [Idle EXCEPT !.op = "edit"]
    OBVIOUS
<1>5. j \in Jobs /\ j.op = "edit" /\ j.op # "none"
    BY <1>4, IdleIs DEF Jobs
<1>6. SmokeShape' /\ \A q \in Run : smoke'[q].state = smoke[q].state
    <2>1. CASE smoke' = smoke
        BY <1>1, <2>1 DEF SmokeShape
    <2>2. CASE catalog.id \in Run /\ smoke' = [smoke EXCEPT ![catalog.id].paths = @ \cup {r.path}]
        <3>1. r.path \in Path
            BY FileRootsAssumption DEF FileRootsAssumption
        <3>2. PICK q : q = catalog.id
            OBVIOUS
        <3>3. q \in Run /\ smoke[q] \in SmokeRows /\ smoke[q].paths \cup {r.path} \in SUBSET Path
            BY <1>1, <2>2, <3>1, <3>2 DEF SmokeShape, SmokeRows
        <3>4. PICK s : s = [smoke[q] EXCEPT !.paths = @ \cup {r.path}]
            OBVIOUS
        <3>5. s \in SmokeRows /\ s.state = smoke[q].state
            BY <3>3, <3>4 DEF SmokeRows
        <3>6. smoke' = [smoke EXCEPT ![q] = s]
            BY <1>1, <2>2, <3>2, <3>3, <3>4 DEF SmokeShape
        <3> QED BY <1>1, <3>3, <3>5, <3>6 DEF SmokeShape
    <2> QED BY <1>2, <2>1, <2>2 DEF Track
<1>7. job' = [job EXCEPT ![w] = Opened(j, catalog, Changed(catalog.tree, r))] /\ job[w].pc \in Passive
    BY <1>2, <1>4 DEF Passive
<1>8. Core'
    BY <1>2, <1>3, <1>5, <1>6, <1>7, OpenKeeps
<1>9. SmokeInv /\ Alone(w) => SmokeInv'
    BY <1>2, <1>3, <1>5, <1>6, <1>7, OpenSmoke
<1> QED BY <1>6, <1>8, <1>9

\* An invocation begins, with nothing in hand.
LEMMA BeginKeeps ==
    ASSUME Core, NEW w \in Worker, At(w, "idle"), NEW k \in Jobs, job' = [job EXCEPT ![w] = k],
           k.pc \in {"list", "recover", "prepare"}, k.pc = "list" => k.op = "cron", k.pc # "list" => k.op = "none",
           k.pc = "prepare" => k.run \in Run, UNCHANGED <<db, past, returned, leaked>>
    PROVE  Core' /\ (SmokeInv /\ Alone(w) => SmokeInv')
<1>1. UNCHANGED <<catalog, pending, counts, applied, smoke, past, returned, leaked>>
    BY DEF db
<1>2. SmokeShape' /\ job[w].pc \notin Keeping
    BY <1>1 DEF Core, FilesShape, SmokeShape, At, Keeping
<1>3. PassiveJob(k)
    BY DEF PassiveJob, Passive
<1>4. SmokeTrue(k)'
    BY DEF SmokeTrue
<1>5. Core'
    BY <1>1, <1>2, <1>3, PlainStep
<1>6. SmokeInv /\ Alone(w) => SmokeInv'
    BY <1>2, <1>3, <1>4, PassiveStill
<1> QED BY <1>5, <1>6

LEMMA FinishedIs ==
    ASSUME NEW j
    PROVE  Finished(j) \in Jobs /\ PassiveJob(Finished(j)) /\ SmokeTrue(Finished(j))'
<1>1. PICK k : k = Finished(j)
    OBVIOUS
<1>2. k = Idle \/ k = [Idle EXCEPT !.pc = "recover"]
    BY <1>1 DEF Finished
<1>3. k \in Jobs /\ k.pc \in {"idle", "recover"} /\ k.op = "none"
    BY <1>2, IdleIs DEF Jobs, Passive
<1>4. PassiveJob(k) /\ SmokeTrue(k)'
    BY <1>3 DEF PassiveJob, Passive, SmokeTrue
<1> QED BY <1>1, <1>3, <1>4 DEF SmokeTrue, Replayed

LEMMA RecoverKeeps ==
    ASSUME Core, SmokeInv, NEW w \in Worker, Recover(w)
    PROVE  Core' /\ SmokeInv'
<1>1. job[w].pc = "recover" /\ UNCHANGED <<db, past, returned, leaked>>
    BY DEF Recover, At, ghost
<1>2. Alone(w) /\ job[w].pc \notin Keeping
    BY <1>1, AtWork DEF Keeping
<1>3. PICK k : job' = [job EXCEPT ![w] = k]
              /\ k = (IF \E r \in Run : Recoverable(smoke[r])
                      THEN [Idle EXCEPT !.pc = "prepare", !.info.id = "session",
                                        !.run = CHOOSE r \in Run : Recoverable(smoke[r])]
                      ELSE IF \E r \in Run : Open(smoke[r]) THEN Idle
                      ELSE [Idle EXCEPT !.pc = "create run"])
    BY DEF Recover
<1>4. k \in Jobs /\ PassiveJob(k) /\ SmokeTrue(k)'
    <2>1. CASE k = Idle
        <3>1. Finishes(Idle) /\ PassiveJob(Idle) /\ Idle \in Jobs
            BY IdleIs DEF Finishes, PassiveJob, Passive
        <3> QED BY <2>1, <3>1, EndsTrue
    <2>2. CASE k = [Idle EXCEPT !.pc = "create run"]
        <3>1. k \in Jobs /\ k.pc = "create run" /\ k.op = "none" /\ k.next = EmptyTree
            BY <2>2, IdleIs DEF Jobs, Passive
        <3> QED BY <3>1 DEF PassiveJob, Passive, SmokeTrue
    <2>3. CASE \E r \in Run : Recoverable(smoke[r])
        <3>1. PICK q : q = CHOOSE r \in Run : Recoverable(smoke[r])
            OBVIOUS
        <3>2. q \in Run
            BY <2>3, <3>1
        <3>3. PICK i : i = [NoRoot EXCEPT !.id = "session"]
            OBVIOUS
        <3>4. i \in Rows
            BY <3>3, NoRootIs DEF Rows, Ids
        <3>5. k = [Idle EXCEPT !.pc = "prepare", !.info = i, !.run = q]
            BY <1>3, <2>3, <3>1, <3>3, IdleIs DEF Idle
        <3>6. k \in Jobs /\ k.pc = "prepare" /\ k.op = "none" /\ k.run = q
            BY <3>2, <3>4, <3>5, IdleIs DEF Jobs, Passive
        <3> QED BY <3>2, <3>6 DEF PassiveJob, Passive, SmokeTrue
    <2> QED BY <1>3, <2>1, <2>2, <2>3
<1> QED BY <1>1, <1>2, <1>3, <1>4, PassiveStill

\* A run is new: nothing was released under its name.
LEMMA CreateRunKeeps ==
    ASSUME Core, SmokeInv, NEW w \in Worker, CreateRun(w)
    PROVE  Core' /\ SmokeInv'
<1>1. job[w].pc = "create run" /\ UNCHANGED <<catalog, pending, counts, applied, past, returned, leaked>>
    BY DEF CreateRun, At, ghost
<1>2. Alone(w) /\ JobShape /\ SmokeShape /\ JobSound(job[w]) /\ job[w] \in Jobs /\ RunsKnown /\ SmokeTrue(job[w])
    BY <1>1, AtWork DEF Core, FilesShape, JobsSound
<1>3. CASE Done(w) /\ UNCHANGED smoke
    <2>1. job[w].pc \notin Keeping \cup {"idle"} /\ UNCHANGED <<db, past, returned, leaked>>
        BY <1>1, <1>3 DEF Keeping, db
    <2> QED BY <1>3, <2>1, EndKeeps
<1>4. CASE NoOpenRun /\ ~(Done(w) /\ UNCHANGED smoke)
    <2>1. PICK r \in Run :
                /\ smoke[r].state = "none"
                /\ smoke' = [smoke EXCEPT ![r].state = "active"]
                /\ job' = [job EXCEPT ![w].run = r, ![w].pc = "ensure"]
        BY <1>4 DEF CreateRun
    <2>2. PICK k : k = [job[w] EXCEPT !.run = r, !.pc = "ensure"]
        OBVIOUS
    <2>3. k \in Jobs /\ k.pc = "ensure" /\ k.run = r /\ k.next = EmptyTree /\ k.op = job[w].op
        BY <1>1, <1>2, <2>2 DEF Jobs, Passive, JobSound
    <2>4. job' = [job EXCEPT ![w] = k]
        BY <1>2, <2>1, <2>2 DEF JobShape
    <2>5. SmokeShape' /\ smoke'[r].state = "active" /\ \A q \in Run : q # r => smoke'[q] = smoke[q]
        BY <1>2, <2>1 DEF SmokeShape, SmokeRows
    <2>6. \A a \in applied : a.id[1] # r
        BY <1>2, <2>1 DEF RunsKnown, Started
    <2>7. PassiveJob(k) /\ job[w].pc \notin Keeping
        BY <1>1, <2>3 DEF PassiveJob, Passive, Keeping
    <2>8. ~(job[w].op \in {"paths", "remove"})
        <3>1. SUFFICES ASSUME job[w].op \in {"paths", "remove"} PROVE FALSE
            OBVIOUS
        <3>2. job[w].run \in Run /\ catalog.id = job[w].run
            BY <1>1, <1>2, <3>1 DEF SmokeTrue
        <3>3. catalog # NoRoot
            BY <3>2, NoRootIs, FileRootsAssumption DEF FileRootsAssumption
        <3> QED BY <1>2, <1>4, <3>3 DEF RunsKnown, NoOpenRun
    <2>9. SmokeTrue(k)'
        BY <1>1, <2>3, <2>5, <2>6, <2>8 DEF SmokeTrue
    <2>10. (\A q \in Run : Started(q) => Started(q)')
           /\ (catalog # NoRoot /\ Open(smoke[catalog.id]) => Open(smoke'[catalog.id]))
        BY <1>2, <2>1, <2>5 DEF Started, Open, RunsKnown
    <2> QED BY <1>1, <1>2, <2>3, <2>4, <2>5, <2>7, <2>9, <2>10, PassiveSmoke
<1> QED BY <1>3, <1>4 DEF CreateRun

LEMMA EnsureRootKeeps ==
    ASSUME Core, SmokeInv, NEW w \in Worker, EnsureRoot(w)
    PROVE  Core' /\ SmokeInv'
<1>1. /\ job[w].pc = "ensure" /\ UNCHANGED <<db, past, returned, leaked>>
      /\ Goto(w, IF catalog = NoRoot THEN "hold" ELSE "fail")
    BY DEF EnsureRoot, At, ghost
<1>2. Alone(w) /\ JobShape /\ JobSound(job[w]) /\ SmokeTrue(job[w]) /\ job[w].pc \notin Keeping
    BY <1>1, AtWork DEF Core, FilesShape, JobsSound, Keeping
<1>3. PICK pc \in {"hold", "fail"} : Goto(w, pc) /\ (pc = "hold" => catalog = NoRoot)
    BY <1>1
<1>4. PICK k \in Jobs : job' = [job EXCEPT ![w] = k] /\ k.pc = pc /\ SamePlan(k, job[w])
    BY <1>2, <1>3, GotoIs DEF Passive
<1>5. PassiveJob(k)
    BY <1>1, <1>2, <1>3, <1>4 DEF PassiveJob, Passive, JobSound, SamePlan
<1>6. UNCHANGED <<catalog, pending, counts, applied, smoke>>
    BY <1>1 DEF db
<1>7. SmokeTrue(k)'
    BY <1>1, <1>2, <1>3, <1>4, <1>6 DEF SmokeTrue, SamePlan
<1> QED BY <1>1, <1>2, <1>4, <1>5, <1>7, PassiveStill

LEMMA HoldEmptySmoke ==
    ASSUME Core, SmokeInv, NEW w \in Worker, HoldEmpty(w)
    PROVE  SmokeInv'
<1>0. PICK x : x = EmptyTree
    OBVIOUS
<1>1. /\ job[w].pc = "hold" /\ UNCHANGED <<catalog, pending, applied, smoke>>
      /\ counts' = counts (+) SetToBag({x}) /\ (Goto(w, "create") \/ Goto(w, "fail"))
    BY <1>0 DEF HoldEmpty, At
<1>2. Alone(w) /\ JobShape /\ StoreShape /\ SmokeTrue(job[w])
    BY <1>1, AtWork DEF Core, FilesShape
<1>3. PICK pc \in {"create", "fail"} : Goto(w, pc)
    BY <1>1
<1>4. PICK k \in Jobs : job' = [job EXCEPT ![w] = k] /\ k.pc = pc /\ SamePlan(k, job[w])
    BY <1>2, <1>3, GotoIs DEF Passive, Keeping
<1>5. Copies(EmptyTree, counts') >= 1
    <2>1. IsABag(counts)
        BY <1>2 DEF StoreShape
    <2>2. Copies(x, counts') = Copies(x, counts) + One(x = x) /\ Copies(x, counts) \in Nat
        BY <1>1, <2>1, TakenIs, CopiesNumber
    <2>3. One(x = x) = 1
        BY DEF One
    <2> QED BY <1>0, <2>2, <2>3
<1>6. SmokeTrue(k)'
    BY <1>1, <1>2, <1>3, <1>4, <1>5 DEF SmokeTrue, SamePlan
<1>7. Mentions(k) = {}
    BY <1>3, <1>4 DEF Mentions, QueuedBy, Editing, Reconciling
<1> QED BY <1>1, <1>2, <1>4, <1>6, <1>7, SmokeStill

LEMMA CreateRootSmoke ==
    ASSUME Core, SmokeInv, NEW w \in Worker, CreateRoot(w)
    PROVE  Core' /\ SmokeInv'
<1>1. job[w].pc = "create"
    BY DEF CreateRoot, At
<1>2. Alone(w) /\ JobShape /\ SmokeShape /\ SmokeTrue(job[w]) /\ RunsKnown
    BY <1>1, AtWork DEF Core, FilesShape
<1>3. /\ job[w].run \in Run /\ smoke[job[w].run].state = "active" /\ catalog = NoRoot /\ pending = {}
      /\ \A a \in applied : a.id[1] # job[w].run
    BY <1>1, <1>2 DEF SmokeTrue, RunsKnown
<1>4. Copies(EmptyTree, counts) >= 1
    BY <1>1, <1>2 DEF SmokeTrue
<1>5. Core'
    BY <1>2, <1>3, <1>4, CreateRootKeeps DEF Alone
<1>6. /\ UNCHANGED <<pending, counts, applied>> /\ Done(w)
      /\ catalog' = [id |-> job[w].run, tree |-> EmptyTree, revision |-> 1]
      /\ smoke' = [smoke EXCEPT ![job[w].run].issued = TRUE]
    BY <1>3 DEF CreateRoot
<1>7. job' = [job EXCEPT ![w] = Idle] /\ Idle \in Jobs /\ Finishes(Idle)
    BY <1>6, DoneIs, IdleIs DEF Finishes
<1>8. job'[w] = Idle /\ Idle.pc = "idle" /\ \A v \in Worker : v # w => job'[v].pc = "idle"
    BY <1>2, <1>7, JobMoves, IdleIs DEF Alone
<1>9. \A x : Known(x)' => x = catalog'
    BY <1>3, <1>6, <1>8 DEF Known, Mentions, QueuedBy, Editing, Reconciling
<1>10. \A q \in Run : smoke'[q].state = smoke[q].state
    <2>1. PICK r : r = job[w].run
        OBVIOUS
    <2>2. r \in Run /\ smoke' = [smoke EXCEPT ![r].issued = TRUE]
        BY <1>3, <1>6, <2>1
    <2> QED BY <1>2, <2>2 DEF SmokeShape, SmokeRows
<1>11. PICK r \in Run : r = job[w].run
    BY <1>3
<1>12. catalog'.id = r /\ catalog'.revision = 1 /\ catalog' # NoRoot
    BY <1>6, <1>11, NoRootIs, FileRootsAssumption DEF FileRootsAssumption
<1>13. Open(smoke'[r]) /\ Started(r)'
    BY <1>3, <1>10, <1>11 DEF Open, Started
<1>14. \A q : Started(q) => Started(q)'
    BY <1>10 DEF Started
<1>15. (\A a \in applied' : Started(a.id[1])') /\ (\A x : Known(x)' => Started(x.id)')
    <2>1. \A a \in applied' : Started(a.id[1])'
        BY <1>2, <1>6, <1>14 DEF RunsKnown
    <2>2. ASSUME NEW x, Known(x)' PROVE Started(x.id)'
        BY <1>9, <1>12, <1>13, <2>2
    <2> QED BY <2>1, <2>2
<1>16. RunsKnown'
    BY <1>12, <1>13, <1>15 DEF RunsKnown, Open
<1>17. SmokeInv'
    BY <1>2, <1>7, <1>16, EndsTrue, SoloStep
<1> QED BY <1>5, <1>17

LEMMA PrepareCleanupKeeps ==
    ASSUME Core, SmokeInv, NEW w \in Worker, PrepareCleanup(w)
    PROVE  Core' /\ SmokeInv'
<1>1. /\ job[w].pc = "prepare" /\ UNCHANGED <<db, past, returned, leaked>>
    BY DEF PrepareCleanup, At, ghost
<1>2. Alone(w) /\ JobShape /\ StoreShape /\ SmokeTrue(job[w]) /\ job[w] \in Jobs /\ job[w].pc \notin Keeping
    BY <1>1, AtWork DEF Core, FilesShape, Keeping
<1>3. PICK k : job' = [job EXCEPT ![w] = k]
              /\ (k = Finished(job[w]) \/ k = [job[w] EXCEPT !.root = catalog, !.pc = "mark"])
    BY <1>2 DEF PrepareCleanup, JobShape
<1>4. CASE k = Finished(job[w])
    <2>1. k \in Jobs /\ PassiveJob(k) /\ SmokeTrue(k)'
        BY <1>4, FinishedIs DEF SmokeTrue, Replayed
    <2> QED BY <1>1, <1>2, <1>3, <2>1, PassiveStill
<1>5. CASE k = [job[w] EXCEPT !.root = catalog, !.pc = "mark"]
    <2>1. UNCHANGED <<catalog, pending, counts, applied, smoke>> /\ catalog \in Rows
        BY <1>1, <1>2 DEF db, StoreShape
    <2>2. k \in Jobs /\ k.pc = "mark" /\ k.root = catalog /\ k.run = job[w].run /\ k.op = job[w].op
        BY <1>2, <1>5, <2>1 DEF Jobs, Passive
    <2>3. PassiveJob(k)
        BY <2>2 DEF PassiveJob, Passive
    <2>4. SmokeTrue(k)'
        BY <1>1, <1>2, <2>1, <2>2 DEF SmokeTrue
    <2> QED BY <1>1, <1>2, <1>3, <2>2, <2>3, <2>4, PassiveStill
<1> QED BY <1>3, <1>4, <1>5

\* Only the open run may be marked, and a root belongs to it.
LEMMA MarkPendingKeeps ==
    ASSUME Core, SmokeInv, NEW w \in Worker, MarkPending(w)
    PROVE  Core' /\ SmokeInv'
<1>0. PICK r : r = job[w].run
    OBVIOUS
<1>1. job[w].pc = "mark" /\ UNCHANGED <<catalog, pending, counts, applied, past, returned, leaked>>
    BY DEF MarkPending, At, ghost
<1>2. Alone(w) /\ JobShape /\ SmokeShape /\ SmokeTrue(job[w]) /\ job[w] \in Jobs /\ RunsKnown /\ job[w].pc \notin Keeping
    BY <1>1, AtWork DEF Core, FilesShape, Keeping
<1>3. r \in Run /\ job[w].root = catalog
    BY <1>0, <1>1, <1>2 DEF SmokeTrue
<1>4. CASE Done(w) /\ UNCHANGED smoke
    <2>1. job[w].pc \notin Keeping \cup {"idle"} /\ UNCHANGED <<db, past, returned, leaked>>
        BY <1>1, <1>4 DEF Keeping, db
    <2> QED BY <1>4, <2>1, EndKeeps
<1>5. CASE ~(\E q \in Run \ {r} : Open(smoke[q])) /\ ~(Done(w) /\ UNCHANGED smoke)
    <2>1. smoke' = [smoke EXCEPT ![r].state = "pending"]
          /\ Goto(w, IF catalog = NoRoot THEN "finish" ELSE "open")
        BY <1>0, <1>3, <1>5 DEF MarkPending
    <2>2. PICK pc \in {"finish", "open"} : Goto(w, pc) /\ (pc = "finish" <=> catalog = NoRoot)
        BY <2>1
    <2>3. PICK k \in Jobs : job' = [job EXCEPT ![w] = k] /\ k.pc = pc /\ SamePlan(k, job[w])
        BY <1>2, <2>2, GotoIs DEF Passive
    <2>4. PassiveJob(k)
        BY <2>2, <2>3 DEF PassiveJob, Passive
    <2>5. SmokeShape' /\ smoke'[r].state = "pending" /\ \A q \in Run : q # r => smoke'[q] = smoke[q]
        BY <1>2, <1>3, <2>1 DEF SmokeShape, SmokeRows
    <2>6. catalog # NoRoot => catalog.id = r
        BY <1>2, <1>5 DEF RunsKnown
    <2>7. SmokeTrue(k)'
        BY <1>0, <1>1, <1>2, <1>3, <2>2, <2>3, <2>6 DEF SmokeTrue, SamePlan
    <2>8. (\A q \in Run : Started(q) => Started(q)')
          /\ (catalog # NoRoot /\ Open(smoke[catalog.id]) => Open(smoke'[catalog.id]))
        BY <2>5, <2>6 DEF Started, Open
    <2> QED BY <1>1, <1>2, <2>3, <2>4, <2>5, <2>7, <2>8, PassiveSmoke
<1> QED BY <1>0, <1>4, <1>5 DEF MarkPending

LEMMA CleanupPathsKeeps ==
    ASSUME Core, SmokeInv, NEW w \in Worker, CleanupPaths(w)
    PROVE  Core' /\ SmokeInv'
<1>1. job[w].pc = "open" /\ UNCHANGED <<db, past, returned, leaked>>
    BY DEF CleanupPaths, At, ghost
<1>2. Alone(w) /\ JobShape /\ StoreShape /\ SmokeShape /\ SmokeTrue(job[w]) /\ job[w] \in Jobs
    BY <1>1, AtWork DEF Core, FilesShape
<1>3. job[w].run \in Run /\ catalog.id = job[w].run
    BY <1>1, <1>2 DEF SmokeTrue
<1>4. catalog # NoRoot
    BY <1>3, NoRootIs, FileRootsAssumption DEF FileRootsAssumption
<1>5. PICK t : t = RemoveAll(catalog.tree, smoke[job[w].run].paths)
    OBVIOUS
<1>6. t \in Trees
    <2>1. catalog.tree \in Trees
        BY <1>2 DEF StoreShape, Rows
    <2> QED BY <1>5, <2>1, WithoutIs DEF RemoveAll
<1>7. PICK j : j = [job[w] EXCEPT !.op = "paths"]
    OBVIOUS
<1>8. j \in Jobs /\ j.op = "paths" /\ j.run = job[w].run
    BY <1>2, <1>7 DEF Jobs
<1>9. job' = [job EXCEPT ![w] = Opened(j, catalog, t)] /\ job[w].pc \in Passive
    BY <1>1, <1>2, <1>4, <1>5, <1>7 DEF CleanupPaths, JobShape, Passive
<1>10. UNCHANGED <<catalog, pending, counts, applied, smoke, past, returned, leaked>>
    BY <1>1 DEF db
<1>11. SmokeShape' /\ (\A r \in Run : smoke'[r].state = smoke[r].state) /\ j.op # "none"
    BY <1>2, <1>8, <1>10 DEF SmokeShape
<1>12. Core'
    BY <1>4, <1>6, <1>8, <1>9, <1>10, <1>11, OpenKeeps
<1>13. SmokeInv'
    BY <1>2, <1>3, <1>4, <1>6, <1>8, <1>9, <1>10, <1>11, OpenSmoke
<1> QED BY <1>12, <1>13

LEMMA ListRootsKeeps ==
    ASSUME Core, SmokeInv, NEW w \in Worker, ListRoots(w)
    PROVE  Core' /\ SmokeInv'
<1>1. /\ job[w].pc = "roots" /\ UNCHANGED <<db, past, returned, leaked>>
      /\ job' = [job EXCEPT ![w].root = catalog, ![w].pc = IF catalog = NoRoot THEN "finish" ELSE "release root"]
    BY DEF ListRoots, At, ghost
<1>2. Alone(w) /\ JobShape /\ StoreShape /\ SmokeTrue(job[w]) /\ job[w] \in Jobs /\ job[w].pc \notin Keeping
    BY <1>1, AtWork DEF Core, FilesShape, Keeping
<1>3. UNCHANGED <<catalog, pending, counts, applied, smoke>> /\ catalog \in Rows
    BY <1>1, <1>2 DEF db, StoreShape
<1>4. PICK k : k = [job[w] EXCEPT !.root = catalog, !.pc = IF catalog = NoRoot THEN "finish" ELSE "release root"]
    OBVIOUS
<1>5. k \in Jobs /\ k.pc = (IF catalog = NoRoot THEN "finish" ELSE "release root")
      /\ k.root = catalog /\ k.run = job[w].run /\ k.op = job[w].op
    BY <1>2, <1>3, <1>4 DEF Jobs, Passive
<1>6. job' = [job EXCEPT ![w] = k]
    BY <1>1, <1>2, <1>4 DEF JobShape
<1>7. PassiveJob(k)
    BY <1>5 DEF PassiveJob, Passive
<1>8. SmokeTrue(k)'
    BY <1>1, <1>2, <1>3, <1>5 DEF SmokeTrue
<1> QED BY <1>1, <1>2, <1>5, <1>6, <1>7, <1>8, PassiveStill

\* The root's own release, sent under its stable identity.
LEMMA ReleaseRootSmoke ==
    ASSUME Core, SmokeInv, NEW w \in Worker, ReleaseRoot(w)
    PROVE  Core' /\ SmokeInv'
<1>1. /\ job[w].pc = "release root" /\ UNCHANGED <<catalog, pending, smoke, past, returned, leaked>>
      /\ UpdateOnce(w, RootReleaseId(job[w].run), job[w].root.tree, "delete")
    BY DEF ReleaseRoot, At, ghost
<1>2. Alone(w) /\ JobShape /\ SmokeTrue(job[w]) /\ job[w] \in Jobs /\ RunsKnown
    BY <1>1, AtWork
<1>3. pending = {} /\ job[w].op = "remove" /\ job[w].root = catalog /\ job[w].run \in Run /\ catalog.id = job[w].run
    BY <1>1, <1>2 DEF SmokeTrue
<1>4. catalog # NoRoot
    BY <1>3, NoRootIs, FileRootsAssumption DEF FileRootsAssumption
<1>5. catalog.revision > 0 /\ Started(catalog.id)
    BY <1>2, <1>4 DEF RunsKnown, Started, Open
<1>6. Core'
    BY <1>3, <1>4, <1>5, ReleaseRootKeeps
<1>7. PICK r, t : r = job[w].run /\ t = job[w].root.tree
    OBVIOUS
<1>8. \A a \in applied' : a \in applied \/ a = [id |-> RootReleaseId(r), tree |-> t]
    BY <1>1, <1>7 DEF UpdateOnce
<1>9. RootReleaseId(r)[1] = r /\ Started(r)
    BY <1>3, <1>5, <1>7 DEF RootReleaseId
<1>10. \A a \in applied' : a \in applied \/ Started(a.id[1])
    BY <1>8, <1>9
<1>11. PICK k \in Jobs : job' = [job EXCEPT ![w] = k] /\ SmokeTrue(k)' /\ Mentions(k) = {}
    <2>1. CASE Give_up(w)
        <3>1. PICK k \in Jobs : job' = [job EXCEPT ![w] = k] /\ Finishes(k)
            BY <1>2, <2>1, GiveUpEnds
        <3> QED BY <3>1, EndsTrue
    <2>2. CASE Goto(w, "delete") /\ ~Give_up(w)
        <3>1. PICK k \in Jobs : job' = [job EXCEPT ![w] = k] /\ k.pc = "delete" /\ SamePlan(k, job[w])
            BY <1>2, <2>2, GotoIs DEF Passive
        <3>2. [id |-> RootReleaseId(r), tree |-> t] \in applied'
            BY <1>1, <1>7, <2>2 DEF UpdateOnce, Replayed
        <3>3. k.run = r /\ k.root.tree = t /\ k.root = catalog /\ k.op = "remove"
            BY <1>3, <1>7, <3>1 DEF SamePlan
        <3>4. Replayed(RootReleaseId(k.run), k.root.tree)'
            BY <3>2, <3>3 DEF Replayed, RootReleaseId
        <3>5. SmokeTrue(k)'
            BY <1>1, <1>3, <1>7, <3>1, <3>3, <3>4 DEF SmokeTrue
        <3>6. Mentions(k) = {}
            BY <3>1 DEF Mentions, QueuedBy, Editing, Reconciling
        <3> QED BY <3>1, <3>5, <3>6
    <2> QED BY <1>1, <2>1, <2>2 DEF UpdateOnce
<1>12. (\A q \in Run : Started(q) => Started(q)') /\ pending' \subseteq pending
    BY <1>1 DEF Started
<1>13. catalog # NoRoot /\ Open(smoke[catalog.id]) => Open(smoke'[catalog.id])
    BY <1>1
<1>14. \A x \in Mentions(k) : Known(x)
    BY <1>11
<1>15. SmokeInv'
    BY <1>1, <1>2, <1>10, <1>11, <1>12, <1>13, <1>14, SmokeStep
<1> QED BY <1>6, <1>15

LEMMA DeleteRootSmoke ==
    ASSUME Core, SmokeInv, NEW w \in Worker, DeleteRoot(w)
    PROVE  Core' /\ SmokeInv'
<1>1. job[w].pc = "delete" /\ UNCHANGED <<pending, counts, applied>>
    BY DEF DeleteRoot, At
<1>2. Alone(w) /\ JobShape /\ SmokeShape /\ SmokeTrue(job[w]) /\ job[w] \in Jobs /\ RunsKnown
    BY <1>1, AtWork DEF Core, FilesShape
<1>3. pending = {} /\ job[w].op = "remove" /\ job[w].root = catalog /\ job[w].run \in Run /\ catalog.id = job[w].run
      /\ Replayed(RootReleaseId(job[w].run), job[w].root.tree)
    BY <1>1, <1>2 DEF SmokeTrue
<1>4. catalog # NoRoot
    BY <1>3, NoRootIs, FileRootsAssumption DEF FileRootsAssumption
<1>5. \A a \in applied : a.id[1] # None
    BY <1>2, FileRootsAssumption DEF RunsKnown, Started, FileRootsAssumption
<1>6. Replayed(RootReleaseId(catalog.id), catalog.tree)
    BY <1>3
<1>7. Core'
    BY <1>2, <1>3, <1>4, <1>5, <1>6, DeleteRootKeeps DEF Alone
<1>8. catalog' = NoRoot /\ smoke' = [r \in Run |-> [smoke[r] EXCEPT !.paths = {}]] /\ Goto(w, "finish")
    BY <1>3 DEF DeleteRoot, SameRow
<1>9. PICK k \in Jobs : job' = [job EXCEPT ![w] = k] /\ k.pc = "finish" /\ SamePlan(k, job[w])
    BY <1>2, <1>8, GotoIs DEF Passive
<1>10. job'[w] = k /\ \A v \in Worker : v # w => job'[v].pc = "idle"
    BY <1>2, <1>9, JobMoves DEF Alone
<1>11. \A v \in Worker : Mentions(job'[v]) = {}
    BY <1>9, <1>10 DEF Mentions, QueuedBy, Editing, Reconciling
<1>12. \A x : ~Known(x)'
    BY <1>1, <1>3, <1>8, <1>11 DEF Known
<1>13. \A q \in Run : smoke'[q].state = smoke[q].state
    BY <1>2, <1>8 DEF SmokeShape, SmokeRows
<1>14. \A q : Started(q) => Started(q)'
    BY <1>13 DEF Started
<1>15. \A a \in applied' : Started(a.id[1])'
    BY <1>1, <1>2, <1>14 DEF RunsKnown
<1>16. RunsKnown'
    BY <1>1, <1>3, <1>8, <1>12, <1>15 DEF RunsKnown
<1>17. SmokeTrue(k)'
    BY <1>3, <1>8, <1>9 DEF SmokeTrue, SamePlan
<1>18. SmokeInv'
    BY <1>2, <1>9, <1>16, <1>17, SoloStep
<1> QED BY <1>7, <1>18

LEMMA FinishRunKeeps ==
    ASSUME Core, SmokeInv, NEW w \in Worker, FinishRun(w)
    PROVE  Core' /\ SmokeInv'
<1>0. PICK r : r = job[w].run
    OBVIOUS
<1>1. job[w].pc = "finish" /\ UNCHANGED <<catalog, pending, counts, applied, past, returned, leaked>>
    BY DEF FinishRun, At, ghost
<1>2. Alone(w) /\ JobShape /\ SmokeShape /\ SmokeTrue(job[w]) /\ job[w].pc \notin Keeping
    BY <1>1, AtWork DEF Core, FilesShape, Keeping
<1>3. r \in Run /\ catalog = NoRoot
    BY <1>0, <1>1, <1>2 DEF SmokeTrue
<1>4. smoke' = [smoke EXCEPT ![r].state = "complete", ![r].paths = {}]
    BY <1>0 DEF FinishRun
<1>5. SmokeShape' /\ smoke'[r].state = "complete" /\ \A q \in Run : q # r => smoke'[q] = smoke[q]
    BY <1>2, <1>3, <1>4 DEF SmokeShape, SmokeRows
<1>6. PICK k : k = Finished(job[w])
    OBVIOUS
<1>7. job' = [job EXCEPT ![w] = k]
    BY <1>2, <1>6 DEF FinishRun, JobShape
<1>8. k \in Jobs /\ PassiveJob(k) /\ SmokeTrue(k)'
    BY <1>6, FinishedIs DEF SmokeTrue, Replayed
<1>9. \A q \in Run : Started(q) => Started(q)'
    BY <1>5 DEF Started
<1> QED BY <1>1, <1>2, <1>3, <1>5, <1>7, <1>8, <1>9, PassiveSmoke

LEMMA FailRunKeeps ==
    ASSUME Core, SmokeInv, NEW w \in Worker, FailRun(w)
    PROVE  Core' /\ SmokeInv'
<1>0. PICK r : r = job[w].run
    OBVIOUS
<1>1. job[w].pc = "fail" /\ UNCHANGED <<catalog, pending, counts, applied, past, returned, leaked>>
      /\ job' = [job EXCEPT ![w] = Idle]
    BY DEF FailRun, At, ghost, Done
<1>2. Alone(w) /\ JobShape /\ SmokeShape /\ SmokeTrue(job[w]) /\ job[w].pc \notin Keeping
    BY <1>1, AtWork DEF Core, FilesShape, Keeping
<1>3. r \in Run
    BY <1>0, <1>1, <1>2 DEF SmokeTrue
<1>4. smoke' = [smoke EXCEPT ![r].state = IF @ = "complete" THEN @ ELSE "failed"]
    BY <1>0 DEF FailRun
<1>5. SmokeShape' /\ smoke'[r].state = (IF smoke[r].state = "complete" THEN "complete" ELSE "failed")
      /\ \A q \in Run : q # r => smoke'[q] = smoke[q]
    BY <1>2, <1>3, <1>4 DEF SmokeShape, SmokeRows
<1>6. Idle \in Jobs /\ PassiveJob(Idle) /\ Finishes(Idle)
    BY IdleIs DEF PassiveJob, Passive, Finishes
<1>7. SmokeTrue(Idle)'
    BY <1>6, EndsTrue
<1>8. \A q \in Run : Started(q) => Started(q)'
    BY <1>5 DEF Started
<1>9. catalog # NoRoot => catalog.id \in Run
    BY DEF SmokeInv, RunsKnown
<1>10. catalog # NoRoot /\ Open(smoke[catalog.id]) => Open(smoke'[catalog.id])
    BY <1>5, <1>9 DEF Open
<1> QED BY <1>1, <1>2, <1>5, <1>6, <1>7, <1>8, <1>10, PassiveSmoke

LEMMA ExpireRunKeeps ==
    ASSUME Core, SmokeInv, NEW r \in Run, ExpireRun(r)
    PROVE  Core' /\ SmokeInv'
<1>1. UNCHANGED <<catalog, pending, counts, applied, job, past, returned, leaked>>
      /\ smoke' = [smoke EXCEPT ![r].expired = TRUE]
    BY DEF ExpireRun, ghost
<1>2. SmokeShape' /\ \A q \in Run : smoke'[q].state = smoke[q].state
    BY <1>1 DEF Core, FilesShape, SmokeShape, SmokeRows
<1>3. FilesShape'
    BY <1>1, <1>2 DEF Core, FilesShape, JobShape, StoreShape
<1>4. KnownInv' /\ JobsSound'
    BY <1>1 DEF Core, KnownInv, Known, InQueue, JobsSound, JobSound
<1>5. Upper'
    BY <1>1 DEF Core, Upper, Rooted, RootLetGo, Holding, Unpaid, Settling, Replayed
<1>6. Lower'
    BY <1>1 DEF Core, Lower, Live, MayCommit, SameRow, Free, Releases, LetGo, Rooted, RootLetGo, Holding
<1>7. Solo'
    BY <1>1 DEF SmokeInv, Solo, Alone
<1>8. ASSUME NEW w \in Worker PROVE SmokeTrue(job[w])'
    <2>1. SmokeTrue(job[w])
        BY DEF SmokeInv
    <2> QED BY <1>1, <1>2, <2>1 DEF SmokeTrue, Replayed
<1>9. RunsKnown'
    <2>1. RunsKnown
        BY DEF SmokeInv
    <2>2. \A q : Started(q) => Started(q)'
        BY <1>2 DEF Started
    <2>3. \A x : Known(x)' => Known(x)
        BY <1>1 DEF Known
    <2>4. catalog # NoRoot => catalog.id \in Run /\ Open(smoke'[catalog.id]) /\ catalog.revision > 0
        BY <1>2, <2>1 DEF RunsKnown, Open
    <2>5. (\A a \in applied' : Started(a.id[1])') /\ (\A x : Known(x)' => Started(x.id)')
        BY <1>1, <2>1, <2>2, <2>3 DEF RunsKnown
    <2> QED BY <1>1, <2>1, <2>4, <2>5 DEF RunsKnown, Open
<1> QED BY <1>3, <1>4, <1>5, <1>6, <1>7, <1>8, <1>9 DEF Core, SmokeInv

\* Invocations that begin: the session request, a cleanup, the trigger.
LEMMA BeginsKeep ==
    ASSUME Core, NEW w \in Worker,
           StartSession(w) \/ CronReconcile(w) \/ \E r \in Run : StartCleanup(w, r) \/ CronCleanup(w, r)
    PROVE  Core' /\ (SmokeInv /\ Alone(w) => SmokeInv')
<1>1. CASE StartSession(w)
    <2>1. PICK k : k = [Idle EXCEPT !.pc = "recover"]
        OBVIOUS
    <2>2. k \in Jobs /\ k.pc = "recover" /\ k.op = "none"
        BY <2>1, IdleIs DEF Jobs, Passive
    <2>3. At(w, "idle") /\ job' = [job EXCEPT ![w] = k] /\ UNCHANGED <<db, past, returned, leaked>>
        BY <1>1, <2>1 DEF StartSession, ghost
    <2> QED BY <2>2, <2>3, BeginKeeps
<1>2. CASE CronReconcile(w)
    <2>1. PICK k : k = [Idle EXCEPT !.op = "cron", !.pc = "list"]
        OBVIOUS
    <2>2. k \in Jobs /\ k.pc = "list" /\ k.op = "cron"
        BY <2>1, IdleIs DEF Jobs, Passive
    <2>3. At(w, "idle") /\ job' = [job EXCEPT ![w] = k] /\ UNCHANGED <<db, past, returned, leaked>>
        BY <1>2, <2>1 DEF CronReconcile, ghost
    <2> QED BY <2>2, <2>3, BeginKeeps
<1>3. ASSUME NEW r \in Run, StartCleanup(w, r) \/ CronCleanup(w, r)
      PROVE  Core' /\ (SmokeInv /\ Alone(w) => SmokeInv')
    <2>1. PICK k : k = [Idle EXCEPT !.pc = "prepare", !.run = r]
        OBVIOUS
    <2>2. k \in Jobs /\ k.pc = "prepare" /\ k.op = "none" /\ k.run = r
        BY <2>1, IdleIs DEF Jobs, Passive
    <2>3. At(w, "idle") /\ job' = [job EXCEPT ![w] = k] /\ UNCHANGED <<db, past, returned, leaked>>
        BY <1>3, <2>1 DEF StartCleanup, CronCleanup, BeginCleanup, ghost
    <2> QED BY <2>2, <2>3, BeginKeeps
<1> QED BY <1>1, <1>2, <1>3

-----------------------------------------------------------------------------
(* Files: the specification *)

\* A Principal with smoke runs has one invocation at a time; any other has no
\* smoke run.
Regime == IF Uses("smoke") THEN SmokeInv ELSE \A r \in Run : smoke[r].state = "none"

LEMMA WorkKeeps ==
    ASSUME Core, NEW w \in Worker, Work(w)
    PROVE  Core' /\ (SmokeInv => SmokeInv') /\ smoke' = smoke
<1>1. CASE Retain(w) \/ CheckRevision(w) \/ Reread(w) \/ ReleasePrevious(w) \/ Undo(w) \/ AssertRetained(w)
    <2>1. Core'
        BY <1>1, RetainKeeps, CheckRevisionKeeps, RereadKeeps, ReleasePreviousKeeps, UndoKeeps, AssertRetainedKeeps
    <2>2. smoke' = smoke
        BY <1>1 DEF Retain, CheckRevision, Reread, ReleasePrevious, Undo, AssertRetained, db
    <2> QED BY <1>1, <2>1, <2>2, CommitStepsSmoke
<1>2. CASE CommitRoot(w)
    <2>1. Core'
        BY <1>2, CommitLostKeeps, CommitWonKeeps
    <2>2. smoke' = smoke
        BY <1>2 DEF CommitRoot
    <2> QED BY <1>2, <2>1, <2>2, CommitRootSmoke
<1>3. CASE ListPending(w) \/ ReadCount(w) \/ DropQueued(w) \/ CompleteRelease(w)
    <2>1. Core'
        BY <1>3, ListPendingKeeps, ReadCountKeeps, DropQueuedKeeps, CompleteReleaseKeeps
    <2>2. smoke' = smoke
        BY <1>3 DEF ListPending, ReadCount, DropQueued, CompleteRelease, db
    <2> QED BY <1>3, <2>1, <2>2, ReconcileStepsSmoke
<1>4. CASE Reconciled(w)
    BY <1>4, ReconciledKeeps DEF Reconciled, db
<1>5. CASE AnswerEdit(w)
    <2>1. Done(w) /\ job[w].pc \notin Keeping \cup {"idle"} /\ UNCHANGED <<db, past, returned, leaked>>
        BY <1>5 DEF AnswerEdit, At, Keeping, ghost
    <2> QED BY <2>1, EndKeeps DEF db
<1> QED BY <1>1, <1>2, <1>3, <1>4, <1>5 DEF Work

LEMMA SmokeWorkKeeps ==
    ASSUME Core, SmokeInv, NEW w \in Worker, SmokeWork(w)
    PROVE  Core' /\ SmokeInv'
BY RecoverKeeps, CreateRunKeeps, EnsureRootKeeps, HoldEmptyKeeps, HoldEmptySmoke, CreateRootSmoke, PrepareCleanupKeeps,
   MarkPendingKeeps, CleanupPathsKeeps, ListRootsKeeps, ReleaseRootSmoke, DeleteRootSmoke, FinishRunKeeps, FailRunKeeps
   DEF SmokeWork

LEMMA FilesFrame ==
    ASSUME Core, UNCHANGED fileVars
    PROVE  Core' /\ (SmokeInv => SmokeInv') /\ smoke' = smoke
<1>1. UNCHANGED <<catalog, pending, counts, applied, smoke, job, past, returned, leaked>>
    BY DEF fileVars, db, ghost
<1>2. FilesShape'
    BY <1>1 DEF Core, FilesShape, JobShape, StoreShape, SmokeShape
<1>3. KnownInv' /\ JobsSound'
    BY <1>1 DEF Core, KnownInv, Known, InQueue, JobsSound, JobSound
<1>4. Upper'
    BY <1>1 DEF Core, Upper, Rooted, RootLetGo, Holding, Unpaid, Settling, Replayed
<1>5. Lower'
    BY <1>1 DEF Core, Lower, Live, MayCommit, SameRow, Free, Releases, LetGo, Rooted, RootLetGo, Holding
<1>6. SmokeInv => Solo' /\ \A w \in Worker : SmokeTrue(job[w])'
    BY <1>1 DEF SmokeInv, Solo, Alone, SmokeTrue, Replayed
<1>7. SmokeInv => RunsKnown'
    BY <1>1 DEF SmokeInv, RunsKnown, Known, Started
<1> QED BY <1>1, <1>2, <1>3, <1>4, <1>5, <1>6, <1>7 DEF Core, SmokeInv

LEMMA FilesKeep ==
    ASSUME Core, Regime, Files, UNCHANGED workload
    PROVE  Core' /\ Regime'
<1>1. Uses("smoke")' <=> Uses("smoke")
    BY DEF Uses
<1>2. ASSUME Core', SmokeInv => SmokeInv', smoke' = smoke PROVE Core' /\ Regime'
    BY <1>1, <1>2 DEF Regime
<1>3. ASSUME MayStart, Uses("smoke"), NEW w \in Worker PROVE SmokeInv /\ Alone(w)
    BY <1>3 DEF MayStart, Alone, At, Regime
<1>4. ASSUME NEW w \in Worker, Work(w) PROVE Core' /\ Regime'
    BY <1>2, <1>4, WorkKeeps
<1>5. ASSUME NEW w \in Worker, Stop(w) PROVE Core' /\ Regime'
    BY <1>2, <1>5, StopKeeps DEF Stop, db
<1>6. ASSUME NEW w \in Worker, MayStart, Edit(w) PROVE Core' /\ Regime'
    <2>1. PICK r \in FileRequest : StartEdit(w, r)
        BY <1>6 DEF Edit
    <2>2. /\ Core' /\ (SmokeInv /\ Alone(w) => SmokeInv')
          /\ (\A q \in Run : smoke[q].state = "none") => (\A q \in Run : smoke'[q].state = "none")
        BY <2>1, StartEditKeeps
    <2>3. CASE Uses("smoke")
        BY <1>1, <1>3, <1>6, <2>2, <2>3 DEF Regime
    <2>4. CASE ~Uses("smoke")
        BY <1>1, <2>2, <2>4 DEF Regime
    <2> QED BY <2>3, <2>4
<1>7. ASSUME NEW w \in Worker, MayStart, CronReconcile(w) PROVE Core' /\ Regime'
    <2>1. Core' /\ (SmokeInv /\ Alone(w) => SmokeInv') /\ smoke' = smoke
        BY <1>7, BeginsKeep DEF CronReconcile, db
    <2>2. CASE Uses("smoke")
        BY <1>1, <1>3, <1>7, <2>1, <2>2 DEF Regime
    <2>3. CASE ~Uses("smoke")
        BY <1>1, <2>1, <2>3 DEF Regime
    <2> QED BY <2>2, <2>3
<1>8. ASSUME Uses("smoke"), NEW w \in Worker, Smoke(w) PROVE Core' /\ Regime'
    <2>1. SmokeInv
        BY <1>8 DEF Regime
    <2>2. CASE SmokeWork(w)
        BY <1>1, <1>8, <2>1, <2>2, SmokeWorkKeeps DEF Regime
    <2>3. CASE ~SmokeWork(w)
        <3>1. MayStart /\ (StartSession(w) \/ \E r \in Run : StartCleanup(w, r) \/ CronCleanup(w, r))
            BY <1>8, <2>3 DEF Smoke
        <3> QED BY <1>1, <1>3, <1>8, <3>1, BeginsKeep DEF Regime
    <2> QED BY <2>2, <2>3
<1>9. ASSUME Uses("smoke"), NEW r \in Run, ExpireRun(r) PROVE Core' /\ Regime'
    BY <1>1, <1>9, ExpireRunKeeps DEF Regime
<1> QED BY <1>4, <1>5, <1>6, <1>7, <1>8, <1>9 DEF Files

LEMMA RootsKeep == Core /\ Regime /\ [Next]_vars => Core' /\ Regime'
<1> SUFFICES ASSUME Core, Regime, [Next]_vars PROVE Core' /\ Regime'
    OBVIOUS
<1>1. UNCHANGED workload
    BY DEF Next, vars
<1>2. CASE UNCHANGED fileVars
    <2>1. Core' /\ (SmokeInv => SmokeInv') /\ smoke' = smoke
        BY <1>2, FilesFrame
    <2> QED BY <1>1, <2>1 DEF Regime, Uses
<1>3. CASE Files
    BY <1>1, <1>3, FilesKeep
<1> QED BY <1>2, <1>3 DEF Next, vars

LEMMA RootsStart == Init => Core /\ Regime
<1> SUFFICES ASSUME Init PROVE Core /\ Regime
    OBVIOUS
<1>1. FilesInit
    BY DEF Init
<1>2. StartTree \in Trees
    <2>1. DOMAIN StartTree \subseteq Seq(STRING)
        BY StartAssumption, TreeAssumption DEF StartAssumption, TreeAssumption
    <2> QED BY <2>1, StartAssumption, TreeIs DEF StartAssumption
<1>3. PICK x, y : x = catalog /\ y = [id |-> Own, tree |-> StartTree, revision |-> 1]
    OBVIOUS
<1>4. x = NoRoot \/ x = y
    BY <1>1, <1>3 DEF FilesInit
<1>5. y \in Rows /\ y.id = Own /\ y.tree = StartTree /\ y.revision = 1
    BY <1>2, <1>3 DEF Rows, Ids
<1>6. x \in Rows /\ (x # NoRoot => x.id = Own /\ x.tree = StartTree /\ x.revision = 1 /\ ~Uses("smoke"))
      /\ (Uses("smoke") => x = NoRoot)
    BY <1>1, <1>3, <1>4, <1>5, NoRootIs DEF FilesInit
<1>7. /\ pending = {} /\ applied = {} /\ job = [w \in Worker |-> Idle] /\ past = {x.tree} /\ returned = FALSE
      /\ smoke = [r \in Run |-> [state |-> "none", expired |-> FALSE, issued |-> FALSE, paths |-> {}]]
      /\ leaked = EmptyBag
    BY <1>1, <1>3 DEF FilesInit
<1>8. IsABag(leaked) /\ \A t : Copies(t, leaked) = 0
    BY <1>7 DEF EmptyBag, SetToBag, IsABag, Copies
<1>9. IsABag(counts) /\ \A t : Copies(t, counts) = One(x # NoRoot /\ t = StartTree)
    <2>1. CASE Uses("smoke")
        <3>1. counts = EmptyBag /\ x = NoRoot
            BY <1>1, <1>6, <2>1 DEF FilesInit
        <3> QED BY <3>1 DEF EmptyBag, SetToBag, IsABag, Copies, One
    <2>2. CASE ~Uses("smoke")
        <3>1. counts = SetToBag({StartTree}) /\ x = y
            BY <1>1, <1>3, <2>2 DEF FilesInit
        <3>2. x # NoRoot
            BY <1>5, <3>1, NoRootIs
        <3>3. counts = [e \in {StartTree} |-> 1]
            BY <3>1 DEF SetToBag
        <3> QED BY <3>2, <3>3 DEF IsABag, Copies, One
    <2> QED BY <2>1, <2>2
<1>10. FilesShape
    <2>1. JobShape
        BY <1>7, IdleIs DEF JobShape
    <2>2. StoreShape
        BY <1>3, <1>6, <1>7, <1>8, <1>9, FS_EmptySet DEF StoreShape
    <2>3. SmokeShape
        BY <1>7 DEF SmokeShape, SmokeRows
    <2> QED BY <2>1, <2>2, <2>3 DEF FilesShape
<1>11. \A w \in Worker : job[w] = Idle /\ job[w].pc = "idle"
    BY <1>7, IdleIs
<1>12. \A w \in Worker : QueuedBy(job[w]) = {} /\ Mentions(job[w]) = {}
    BY <1>11 DEF QueuedBy, Mentions, Editing, Reconciling
<1>13. (\A z : Known(z) => catalog # NoRoot /\ z = catalog) /\ (\A z : ~InQueue(z))
    BY <1>7, <1>12 DEF Known, InQueue
<1>14. KnownInv
    <2>1. catalog # NoRoot => catalog.id # None /\ catalog.tree \in past
        BY <1>3, <1>6, <1>7, FileRootsAssumption DEF FileRootsAssumption
    <2>2. \A z : Known(z) => z \in Rows /\ z.id # None /\ (z.id = catalog.id => z.revision <= catalog.revision)
        BY <1>3, <1>6, <1>13, <2>1 DEF Rows
    <2> QED BY <1>7, <1>13, <2>1, <2>2 DEF KnownInv
<1>15. JobsSound
    BY <1>11 DEF JobsSound, JobSound, Editing, Reconciling
<1>16. ASSUME NEW t PROVE Cardinality(Holding(t)) = 0 /\ Cardinality(Unpaid(t)) = 0
    <2>1. Holding(t) = {} /\ Unpaid(t) = {}
        BY <1>7, <1>11 DEF Holding, Keeps, Keeping, Unpaid
    <2> QED BY <2>1, FS_EmptySet
<1>17. ASSUME NEW t PROVE Rooted(t) = Copies(t, counts) /\ Copies(t, counts) \in Nat
    <2>1. ~RootLetGo
        BY <1>7 DEF RootLetGo
    <2>2. (catalog # NoRoot /\ catalog.tree = t /\ ~RootLetGo) <=> (x # NoRoot /\ t = StartTree)
        BY <1>3, <1>6, <2>1
    <2>3. Rooted(t) = One(x # NoRoot /\ t = StartTree)
        BY <2>2 DEF Rooted, One
    <2> QED BY <1>9, <2>3, CopiesNumber
<1>18. Upper
    <2>1. ASSUME NEW t
          PROVE  Copies(t, counts) <= Copies(t, leaked) + (Rooted(t) + (Cardinality(Holding(t)) + Cardinality(Unpaid(t))))
        BY <1>8, <1>16, <1>17
    <2> QED BY <2>1 DEF Upper
<1>19. Lower
    <2>1. ASSUME NEW t PROVE Copies(t, counts) >= Rooted(t) + Cardinality(Holding(t))
        BY <1>16, <1>17
    <2>2. ASSUME NEW t PROVE Free(t)
        BY <1>7, <1>11, <1>12 DEF Free, Releases, LetGo
    <2> QED BY <2>1, <2>2 DEF Lower
<1>20. Core
    BY <1>10, <1>14, <1>15, <1>18, <1>19 DEF Core
<1>21. \A r \in Run : smoke[r].state = "none"
    BY <1>7
<1>22. ASSUME Uses("smoke") PROVE SmokeInv
    <2>1. catalog = NoRoot
        BY <1>3, <1>6, <1>22
    <2>2. Solo /\ \A w \in Worker : SmokeTrue(job[w])
        BY <1>11, IdleIs DEF Solo, SmokeTrue
    <2>3. RunsKnown
        BY <1>7, <1>13, <2>1 DEF RunsKnown
    <2> QED BY <2>2, <2>3 DEF SmokeInv
<1> QED BY <1>20, <1>21, <1>22 DEF Regime

-----------------------------------------------------------------------------
(* Files: what the invariant gives *)

LEMMA RootHeld == Core => CatalogedRootHeld
<1> SUFFICES ASSUME Core, catalog # NoRoot, ~returned, ~RootLetGo PROVE Held(catalog.tree)
    BY DEF CatalogedRootHeld
<1>1. PICK t : t = catalog.tree
    OBVIOUS
<1>2. StoreShape /\ Live(t) /\ Lower
    BY <1>1 DEF Core, FilesShape, Live
<1>3. Copies(t, counts) >= Rooted(t) + Cardinality(Holding(t)) /\ Rooted(t) = 1
    BY <1>1, <1>2 DEF Lower, Rooted, One
<1>4. Copies(t, counts) > 0 /\ IsABag(counts)
    BY <1>2, <1>3, HoldingNumber, CopiesNumber DEF StoreShape
<1>5. Held(t)
    BY <1>4, HeldIs
<1> QED BY <1>1, <1>5

\* With every invocation over and nothing queued, a manifest has as many
\* references as leaked, and one more if it is the cataloged one.
LEMMA AtRest ==
    ASSUME Core, \A w \in Worker : At(w, "idle"), pending = {}, ~returned, NEW t
    PROVE  Copies(t, counts) <= Copies(t, leaked) + One(catalog # NoRoot /\ t = catalog.tree)
<1>1. StoreShape /\ Upper
    BY DEF Core, FilesShape
<1>2. Holding(t) = {} /\ Unpaid(t) = {}
    BY DEF Holding, Keeps, Keeping, Unpaid, At
<1>3. Cardinality(Holding(t)) = 0 /\ Cardinality(Unpaid(t)) = 0
    BY <1>2, FS_EmptySet
<1>4. Copies(t, counts) <= Copies(t, leaked) + (Rooted(t) + (Cardinality(Holding(t)) + Cardinality(Unpaid(t))))
    BY <1>1 DEF Upper
<1>5. PICK a, b, c, d : a = Copies(t, counts) /\ b = Copies(t, leaked) /\ c = Rooted(t)
          /\ d = One(catalog # NoRoot /\ t = catalog.tree)
    OBVIOUS
<1>6. c \in {0, 1} /\ d \in {0, 1} /\ (c = 1 => d = 1)
    BY <1>5 DEF Rooted, One
<1>7. a \in Nat /\ b \in Nat
    BY <1>1, <1>5, CopiesNumber DEF StoreShape
<1>8. a <= b + (c + (0 + 0))
    BY <1>3, <1>4, <1>5
<1>9. a <= b + d
    BY <1>6, <1>7, <1>8
<1> QED BY <1>5, <1>9

LEMMA NothingElseReferenced == Core => OnlyRootReferenced
<1> SUFFICES ASSUME Core, \A w \in Worker : At(w, "idle"), pending = {}, ~returned
             PROVE  counts \sqsubseteq
                      (leaked (+) IF catalog = NoRoot THEN EmptyBag ELSE SetToBag({catalog.tree}))
    BY DEF OnlyRootReferenced
<1>1. IsABag(counts) /\ IsABag(leaked)
    BY DEF Core, FilesShape, StoreShape
<1>2. \A t : Copies(t, counts) <= Copies(t, leaked) + One(catalog # NoRoot /\ t = catalog.tree)
    BY AtRest
<1>3. CASE catalog = NoRoot
    <2>1. PICK c : c = leaked (+) EmptyBag
        OBVIOUS
    <2>2. c = leaked
        BY <1>1, <2>1, AddNone
    <2>3. ASSUME NEW t PROVE Copies(t, counts) <= Copies(t, c)
        <3>1. One(catalog # NoRoot /\ t = catalog.tree) = 0 /\ Copies(t, leaked) \in Nat
            BY <1>1, <1>3, CopiesNumber DEF One
        <3> QED BY <1>2, <2>2, <3>1
    <2>4. counts \sqsubseteq c
        BY <1>1, <2>2, <2>3, BelowByCopies
    <2> QED BY <1>3, <2>1, <2>4
<1>4. CASE catalog # NoRoot
    <2>1. PICK x : x = catalog.tree
        OBVIOUS
    <2>2. ASSUME NEW t PROVE Copies(t, counts) <= Copies(t, leaked) + One(t = x)
        <3>1. One(catalog # NoRoot /\ t = catalog.tree) = One(t = x)
            BY <1>4, <2>1 DEF One
        <3> QED BY <1>2, <3>1
    <2>3. WithinOne(x)
        BY <1>1, <2>2 DEF WithinOne
    <2>4. counts \sqsubseteq (leaked (+) SetToBag({x}))
        BY <1>1, <2>3, WithinOneIs
    <2> QED BY <1>4, <2>1, <2>4
<1> QED BY <1>3, <1>4

LEMMA CompleteRunGone == Core /\ Regime => CompleteRunLeavesNothing
<1> SUFFICES ASSUME Core, Regime, NEW r \in Run, smoke[r].state = "complete"
             PROVE  /\ catalog.id # r
                    /\ (\A w \in Worker : At(w, "idle")) /\ pending = {} /\ catalog = NoRoot /\ ~returned
                          => counts \sqsubseteq leaked
    BY DEF CompleteRunLeavesNothing
<1>1. SmokeInv
    BY DEF Regime
<1>2. catalog.id # r
    <2>1. CASE catalog = NoRoot
        BY <2>1, NoRootIs, FileRootsAssumption DEF FileRootsAssumption
    <2>2. CASE catalog # NoRoot
        BY <1>1, <2>2 DEF SmokeInv, RunsKnown, Open
    <2> QED BY <2>1, <2>2
<1>3. ASSUME \A w \in Worker : At(w, "idle"), pending = {}, catalog = NoRoot, ~returned
      PROVE  counts \sqsubseteq leaked
    <2>1. IsABag(leaked)
        BY DEF Core, FilesShape, StoreShape
    <2>2. PICK c : c = leaked (+) EmptyBag
        OBVIOUS
    <2>3. c = leaked
        BY <2>1, <2>2, AddNone
    <2>4. counts \sqsubseteq c
        BY <1>3, <2>2, NothingElseReferenced DEF OnlyRootReferenced
    <2> QED BY <2>3, <2>4
<1> QED BY <1>2, <1>3

\* Whatever the interleaving of requests, the scheduled trigger and failures,
\* the store's references are the ones the application answers for: the
\* cataloged manifest is held at every moment, at rest nothing else is except
\* what stopped commits had taken, and a complete smoke run leaves no root.
THEOREM ReferencesAreAccounted == Spec => []RootsAccounted
<1>1. Core /\ Regime => RootsAccounted
    BY RootHeld, NothingElseReferenced, CompleteRunGone DEF RootsAccounted
<1> QED BY <1>1, RootsStart, RootsKeep, PTL DEF Spec

-----------------------------------------------------------------------------
(* Files: no edit is overwritten *)

\* An invocation moves from the batch to reading the row again only by winning.
LEMMA OnlyCommitsMove ==
    ASSUME JobShape, Files, NEW w \in Worker, job[w].pc = "batch", job'[w].pc = "reread"
    PROVE  CommitRoot(w) /\ SameRow(job[w].root)
<1>0. job \in [Worker -> Jobs] /\ job[w] \in Jobs /\ job'[w] # job[w]
    BY DEF JobShape
<1>1. PICK v \in Worker : (Edit(v) \/ CronReconcile(v) \/ Work(v) \/ Stop(v) \/ Smoke(v))
    <2>1. ASSUME NEW r \in Run, ExpireRun(r) PROVE FALSE
        BY <1>0, <2>1 DEF ExpireRun
    <2> QED BY <2>1 DEF Files
<1>2. ~At(w, "idle") /\ At(w, "batch")
    BY DEF At
<1>3. ASSUME Done(v) PROVE FALSE
    BY <1>0, <1>3, IdleIs DEF Done
<1>4. ASSUME NEW k, job' = [job EXCEPT ![v] = k] PROVE v = w /\ k.pc = "reread"
    BY <1>0, <1>4
<1>5. ASSUME NEW pc, Goto(v, pc) PROVE v = w /\ pc = "reread"
    <2>1. v = w
        BY <1>0, <1>5 DEF Goto
    <2>2. job'[w] = [job[w] EXCEPT !.pc = pc]
        BY <1>0, <1>5, <2>1 DEF Goto
    <2> QED BY <1>0, <2>1, <2>2 DEF Jobs
<1>6. ASSUME NEW pc, At(v, pc), pc # "batch", v = w PROVE FALSE
    BY <1>2, <1>6 DEF At
<1>7. ~Give_up(v)
    BY <1>3, <1>5 DEF Give_up
<1>8. v = w
    <2>1. CASE Edit(v)
        BY <1>4, <2>1 DEF Edit, StartEdit
    <2>2. CASE CronReconcile(v) \/ Stop(v)
        BY <1>3, <1>4, <2>2 DEF CronReconcile, Stop
    <2>3. CASE Retain(v) \/ CheckRevision(v) \/ CommitRoot(v) \/ ReleasePrevious(v) \/ Undo(v) \/ AssertRetained(v)
        BY <1>5, <1>7, <2>3 DEF Retain, CheckRevision, CommitRoot, ReleasePrevious, Undo, AssertRetained
    <2>4. CASE Reread(v) \/ ListPending(v)
        BY <1>0, <1>5, <2>4 DEF Reread, ListPending
    <2>5. CASE ReadCount(v)
        BY <1>0, <2>5 DEF ReadCount
    <2>6. CASE DropQueued(v) \/ CompleteRelease(v)
        BY <1>5, <1>7, <2>6 DEF DropQueued, CompleteRelease, UpdateOnce
    <2>7. CASE Reconciled(v) \/ AnswerEdit(v)
        BY <1>0, <1>3, <2>7 DEF Reconciled, AnswerEdit
    <2>8. CASE StartSession(v) \/ \E r \in Run : StartCleanup(v, r) \/ CronCleanup(v, r)
        BY <1>4, <2>8 DEF StartSession, StartCleanup, CronCleanup, BeginCleanup
    <2>9. CASE Recover(v) \/ CreateRun(v) \/ EnsureRoot(v) \/ HoldEmpty(v) \/ CreateRoot(v)
        BY <1>0, <1>3, <1>5, <2>9 DEF Recover, CreateRun, EnsureRoot, HoldEmpty, CreateRoot
    <2>10. CASE PrepareCleanup(v) \/ MarkPending(v) \/ CleanupPaths(v) \/ ListRoots(v)
        BY <1>0, <1>3, <1>5, <2>10 DEF PrepareCleanup, MarkPending, CleanupPaths, ListRoots
    <2>11. CASE ReleaseRoot(v) \/ DeleteRoot(v) \/ FinishRun(v) \/ FailRun(v)
        BY <1>0, <1>3, <1>5, <1>7, <2>11 DEF ReleaseRoot, UpdateOnce, DeleteRoot, FinishRun, FailRun
    <2> QED BY <1>1, <2>1, <2>2, <2>3, <2>4, <2>5, <2>6, <2>7, <2>8, <2>9, <2>10, <2>11 DEF Work, Smoke, SmokeWork
<1>9. CommitRoot(w)
    <2>1. ~Edit(w) /\ ~CronReconcile(w) /\ ~Stop(w)
        BY <1>2, <1>3, <1>8 DEF Edit, StartEdit, CronReconcile, Stop
    <2>2. ~(Retain(w) \/ CheckRevision(w) \/ Reread(w) \/ ReleasePrevious(w) \/ Undo(w) \/ AssertRetained(w))
        BY DEF Retain, CheckRevision, Reread, ReleasePrevious, Undo, AssertRetained, At
    <2>3. ~(ListPending(w) \/ ReadCount(w) \/ DropQueued(w) \/ CompleteRelease(w) \/ Reconciled(w) \/ AnswerEdit(w))
        BY DEF ListPending, ReadCount, DropQueued, CompleteRelease, Reconciled, AnswerEdit, At
    <2>4. ~(Recover(w) \/ CreateRun(w) \/ EnsureRoot(w) \/ HoldEmpty(w) \/ CreateRoot(w) \/ PrepareCleanup(w)
            \/ MarkPending(w) \/ CleanupPaths(w) \/ ListRoots(w))
        BY DEF Recover, CreateRun, EnsureRoot, HoldEmpty, CreateRoot, PrepareCleanup, MarkPending, CleanupPaths, ListRoots, At
    <2>5. ~(ReleaseRoot(w) \/ DeleteRoot(w) \/ FinishRun(w) \/ FailRun(w))
        BY DEF ReleaseRoot, DeleteRoot, FinishRun, FailRun, At
    <2>6. ~StartSession(w) /\ ~\E r \in Run : StartCleanup(w, r) \/ CronCleanup(w, r)
        BY <1>2 DEF StartSession, StartCleanup, CronCleanup, BeginCleanup
    <2> QED BY <1>1, <1>8, <2>1, <2>2, <2>3, <2>4, <2>5, <2>6 DEF Work, Smoke, SmokeWork
<1>10. SameRow(job[w].root)
    <2>1. ~Goto(w, "undo")
        BY <1>5, <1>8
    <2> QED BY <1>9, <2>1 DEF CommitRoot, MayUpdate
<1> QED BY <1>9, <1>10

\* An edit is never lost to another: the row moves only from the very manifest
\* the request opened, so of two edits of the same revision one is refused.
THEOREM EditsAreNeverOverwritten == Spec => EditsBuildOnLatest
<1>1. ASSUME Core, [Next]_vars, NEW w \in Worker, job[w].pc = "batch", job'[w].pc = "reread"
      PROVE  job[w].root = catalog
    <2>1. JobShape
        BY <1>1 DEF Core, FilesShape
    <2>2. Files
        <3>1. ~UNCHANGED fileVars
            BY <1>1 DEF fileVars
        <3> QED BY <1>1, <3>1 DEF Next, vars
    <2>3. SameRow(job[w].root)
        BY <1>1, <2>1, <2>2, OnlyCommitsMove
    <2>4. Known(job[w].root)
        BY <1>1 DEF Known, Mentions, Editing
    <2> QED BY <1>1, <2>3, <2>4, SameRowIs
<1>2. Core /\ [Next]_vars
        => [\A w \in Worker : job[w].pc = "batch" /\ job'[w].pc = "reread" => job[w].root = catalog]_vars
    BY <1>1
<1> QED BY <1>2, RootsStart, RootsKeep, PTL DEF Spec, EditsBuildOnLatest

-----------------------------------------------------------------------------
(* Blobs *)


LEMMA LeastMember ==
  ASSUME NEW S \in SUBSET Nat, S # {}
  PROVE  \E x \in S : \A y \in S : x <= y
<1>1. \E x \in S : \A y \in S : ~(<<y, x>> \in OpToRel(<, Nat))
  BY NatLessThanWellFounded, WFMin
<1>2. PICK x \in S : \A y \in S : ~(<<y, x>> \in OpToRel(<, Nat))
  BY <1>1
<1>3. ASSUME NEW y \in S PROVE x <= y
  <2>1. x \in Nat /\ y \in Nat
    OBVIOUS
  <2>2. ~(y < x)
    BY <1>2, <2>1 DEF OpToRel
  <2> QED BY <2>1, <2>2
<1> QED BY <1>3

\* e adds up the sizes of the nodes q.
Adds(e, q, n) ==
  /\ e \in [0..n -> Nat] /\ e[0] = 0
  /\ \A i \in 1..n : e[i] = e[i - 1] + q[i].size

LEMMA SumsExist ==
  ASSUME NEW q, NEW n \in Nat, \A i \in 1..n : q[i].size \in Nat
  PROVE  \E e : Adds(e, q, n)
<1> DEFINE S == {k \in 0..n : ~\E e : Adds(e, q, k)}
<1>1. SUFFICES ASSUME S # {} PROVE FALSE
  OBVIOUS
<1>2. PICK k \in S : \A y \in S : k <= y
  <2>1. S \in SUBSET Nat
    OBVIOUS
  <2> HIDE DEF S
  <2> QED BY <1>1, <2>1, LeastMember
<1>3. k \in 0..n /\ ~\E e : Adds(e, q, k)
  BY <1>2
<1>4. k # 0
  <2>1. Adds([i \in 0..0 |-> 0], q, 0)
    BY DEF Adds
  <2> QED BY <2>1, <1>3
<1>5. k - 1 \in 0..n /\ k - 1 \notin S
  BY <1>2, <1>3, <1>4
<1>6. PICK e : Adds(e, q, k - 1)
  BY <1>5
<1> DEFINE d == [i \in 0..k |-> IF i = k THEN e[k - 1] + q[k].size ELSE e[i]]
<1>7. q[k].size \in Nat /\ e[k - 1] \in Nat
  BY <1>3, <1>4, <1>6 DEF Adds
<1>8. Adds(d, q, k)
  <2>1. d \in [0..k -> Nat]
    BY <1>3, <1>4, <1>6, <1>7 DEF Adds
  <2>2. d[0] = 0
    BY <1>3, <1>4, <1>6 DEF Adds
  <2>3. ASSUME NEW i \in 1..k PROVE d[i] = d[i - 1] + q[i].size
    <3>1. CASE i = k
      BY <3>1, <1>3, <1>4
    <3>2. CASE i # k
      BY <3>2, <1>3, <1>4, <1>6 DEF Adds
    <3> QED BY <3>1, <3>2
  <2> HIDE DEF d
  <2> QED BY <2>1, <2>2, <2>3 DEF Adds
<1> QED BY <1>3, <1>8

LEMMA EndsAdd ==
  ASSUME NEW q, Len(q) \in Nat, \A i \in 1..Len(q) : q[i].size \in Nat
  PROVE  Adds(Ends(q), q, Len(q))
<1>1. PICK e : Adds(e, q, Len(q))
  BY SumsExist
<1> DEFINE Step(f) == [i \in 0..Len(q) |-> IF i = 0 THEN 0 ELSE f[i - 1] + q[i].size]
<1>2. e = Step(e)
  BY <1>1 DEF Adds
<1>3. Ends(q) = CHOOSE f : f = Step(f)
  BY DEF Ends
<1>4. Ends(q) = Step(Ends(q))
  <2> HIDE DEF Step
  <2> QED BY <1>2, <1>3
<1>5. PICK d : d = Ends(q)
  OBVIOUS
<1>6. d = Step(d)
  BY <1>4, <1>5
<1>7. DOMAIN d = 0..Len(q) /\ d[0] = 0 /\ \A i \in 1..Len(q) : d[i] = d[i - 1] + q[i].size
  BY <1>6
<1>8. \A i \in 0..Len(q) : d[i] = e[i]
  <2> DEFINE S == {i \in 0..Len(q) : d[i] # e[i]}
  <2>1. SUFFICES ASSUME S # {} PROVE FALSE
    OBVIOUS
  <2>2. PICK i \in S : \A y \in S : i <= y
    <3>1. S \in SUBSET Nat
      OBVIOUS
    <3> HIDE DEF S
    <3> QED BY <2>1, <3>1, LeastMember
  <2>3. i \in 0..Len(q) /\ d[i] # e[i]
    BY <2>2
  <2>4. i # 0
    BY <2>3, <1>7, <1>1 DEF Adds
  <2>5. i - 1 \in 0..Len(q) /\ i - 1 \notin S
    BY <2>2, <2>3, <2>4
  <2>6. d[i - 1] = e[i - 1]
    BY <2>5
  <2>7. i \in 1..Len(q)
    BY <2>3, <2>4
  <2>8. d[i] = d[i - 1] + q[i].size
    BY <2>7, <1>7
  <2>9. e[i] = e[i - 1] + q[i].size
    BY <2>7, <1>1 DEF Adds
  <2> QED BY <2>3, <2>6, <2>8, <2>9
<1>9. d \in [0..Len(q) -> Nat]
  <2>1. d = [i \in 0..Len(q) |-> d[i]]
    BY <1>6
  <2>2. \A i \in 0..Len(q) : d[i] \in Nat
    BY <1>8, <1>1 DEF Adds
  <2> QED BY <2>1, <2>2
<1> QED BY <1>5, <1>7, <1>9 DEF Adds

LEMMA AddsGrow ==
  ASSUME NEW q, NEW n \in Nat, NEW e, Adds(e, q, n), \A i \in 1..n : q[i].size \in Nat,
         NEW i \in 0..n, NEW j \in 0..n, i <= j
  PROVE  e[i] <= e[j]
<1> DEFINE S == {k \in i..n : ~(e[i] <= e[k])}
<1>1. SUFFICES ASSUME S # {} PROVE FALSE
  OBVIOUS
<1>2. PICK k \in S : \A y \in S : k <= y
  <2>1. S \in SUBSET Nat
    OBVIOUS
  <2> HIDE DEF S
  <2> QED BY <1>1, <2>1, LeastMember
<1>3. k \in i..n /\ ~(e[i] <= e[k])
  BY <1>2
<1>4. k # i
  BY <1>3 DEF Adds
<1>5. k - 1 \in i..n /\ k - 1 \notin S
  BY <1>2, <1>3, <1>4
<1>6. e[i] <= e[k - 1]
  BY <1>5
<1>7. e[k] = e[k - 1] + q[k].size /\ q[k].size \in Nat
  BY <1>3, <1>4 DEF Adds
<1> QED BY <1>3, <1>4, <1>6, <1>7 DEF Adds


\* The bytes of s after the first a, up to the b-th.
Part(s, a, b) == SubSeq(s, a + 1, b)

LEMMA PartOfSeq ==
  ASSUME NEW s \in Seq(Nat), NEW a \in Nat, NEW b \in a..Len(s)
  PROVE  /\ Part(s, a, b) \in Seq(Nat) /\ Len(Part(s, a, b)) = b - a
         /\ \A i \in 1..b - a : Part(s, a, b)[i] = s[a + i]
<1>1. Len(s) \in Nat /\ b \in Int /\ a + 1 \in Int
  BY LenProperties
<1>2. \A i \in a + 1..b : s[i] \in Nat
  BY <1>1, ElementOfSeq
<1>3. /\ SubSeq(s, a + 1, b) \in Seq(Nat)
      /\ Len(SubSeq(s, a + 1, b)) = IF a + 1 <= b THEN b - (a + 1) + 1 ELSE 0
      /\ \A i \in 1..b - (a + 1) + 1 : SubSeq(s, a + 1, b)[i] = s[(a + 1) + i - 1]
  BY <1>1, <1>2, SubSeqProperties
<1>4. b - (a + 1) + 1 = b - a /\ \A i \in Int : (a + 1) + i - 1 = a + i
  BY <1>1
<1> QED BY <1>1, <1>3, <1>4 DEF Part

LEMMA EqualSeqs ==
  ASSUME NEW s \in Seq(Nat), NEW t \in Seq(Nat), Len(s) = Len(t), \A i \in 1..Len(s) : s[i] = t[i]
  PROVE  s = t
BY SeqEqual

LEMMA PartOfPart ==
  ASSUME NEW s \in Seq(Nat), NEW a \in Nat, NEW b \in a..Len(s), NEW x \in Nat, NEW y \in x..b - a
  PROVE  Part(Part(s, a, b), x, y) = Part(s, a + x, a + y)
<1>0. PICK n \in Nat : n = Len(s) /\ a + x \in Nat /\ a + y \in (a + x)..n /\ b \in a..n /\ y \in Nat
  BY LenProperties
<1>1. PICK t : t = Part(s, a, b)
  OBVIOUS
<1>2. t \in Seq(Nat) /\ Len(t) = b - a /\ \A i \in 1..b - a : t[i] = s[a + i]
  BY <1>1, PartOfSeq
<1>3. PICK u : u = Part(t, x, y)
  OBVIOUS
<1>4. u \in Seq(Nat) /\ Len(u) = y - x /\ \A i \in 1..y - x : u[i] = t[x + i]
  <2>1. y \in x..Len(t)
    BY <1>2
  <2> QED BY <2>1, <1>2, <1>3, PartOfSeq
<1>5. PICK v : v = Part(s, a + x, a + y)
  OBVIOUS
<1>6. v \in Seq(Nat) /\ Len(v) = y - x /\ \A i \in 1..y - x : v[i] = s[(a + x) + i]
  <2>1. v \in Seq(Nat) /\ Len(v) = (a + y) - (a + x) /\ \A i \in 1..(a + y) - (a + x) : v[i] = s[(a + x) + i]
    BY <1>0, <1>5, PartOfSeq
  <2>2. (a + y) - (a + x) = y - x
    BY <1>0
  <2> QED BY <2>1, <2>2
<1>7. ASSUME NEW i \in 1..Len(u) PROVE u[i] = v[i]
  <2>1. u[i] = t[x + i] /\ x + i \in 1..b - a /\ i \in 1..y - x /\ i \in Nat
    BY <1>0, <1>4
  <2>2. u[i] = s[a + (x + i)]
    BY <2>1, <1>2
  <2>3. v[i] = s[(a + x) + i]
    BY <2>1, <1>6
  <2>4. a + (x + i) = (a + x) + i
    BY <2>1
  <2> QED BY <2>2, <2>3, <2>4
<1>9. u = v
  BY <1>4, <1>6, <1>7, EqualSeqs
<1> QED BY <1>1, <1>3, <1>5, <1>9

LEMMA PartsJoin ==
  ASSUME NEW s \in Seq(Nat), NEW a \in Nat, NEW b \in a..Len(s), NEW c \in b..Len(s)
  PROVE  Part(s, a, b) \o Part(s, b, c) = Part(s, a, c)
<1>1. Len(s) \in Nat
  BY LenProperties
<1>2. a + 1 \in 1..Len(s) + 1 /\ b \in (a + 1) - 1..Len(s)
  BY <1>1
<1>3. SubSeq(s, a + 1, b) \o SubSeq(s, b + 1, c) = SubSeq(s, a + 1, c)
  BY <1>2, ConcatAdjacentSubSeq
<1> QED BY <1>3 DEF Part

LEMMA PartIsAll ==
  ASSUME NEW s \in Seq(Nat)
  PROVE  Part(s, 0, Len(s)) = s
BY SubSeqFull DEF Part

LEMMA PartIsNone ==
  ASSUME NEW s, NEW a \in Nat
  PROVE  Part(s, a, a) = <<>>
BY SubSeqEmpty DEF Part

\* FlattenSeq puts the adjacent parts of a sequence together again.
LEMMA FlattenParts ==
  ASSUME NEW c \in Seq(Nat), NEW n \in Nat \ {0}, NEW p \in [0..n -> 0..Len(c)],
         \A i \in 1..n : p[i - 1] <= p[i],
         NEW q, Len(q) = n, \A i \in 1..n : q[i] = Part(c, p[i - 1], p[i])
  PROVE  FlattenSeq(q) = Part(c, p[0], p[n])
<1> DEFINE Step(f) == [i \in 1..Len(q) |-> IF i = 1 THEN q[i] ELSE f[i - 1] \o q[i]]
<1> DEFINE G == [i \in 1..Len(q) |-> Part(c, p[0], p[i])]
<1>0. Len(c) \in Nat
  BY LenProperties
<1>1. \A i \in 0..n : p[0] <= p[i]
  <2> DEFINE S == {i \in 0..n : ~(p[0] <= p[i])}
  <2>1. SUFFICES ASSUME S # {} PROVE FALSE
    OBVIOUS
  <2>2. PICK i \in S : \A y \in S : i <= y
    <3>1. S \in SUBSET Nat
      OBVIOUS
    <3> HIDE DEF S
    <3> QED BY <2>1, <3>1, LeastMember
  <2>3. i \in 0..n /\ ~(p[0] <= p[i]) /\ i # 0
    BY <2>2, <1>0
  <2>5. i - 1 \in 0..n /\ i - 1 \notin S
    BY <2>2, <2>3
  <2>6. p[0] <= p[i - 1] /\ p[i - 1] <= p[i]
    BY <2>5, <2>3
  <2> QED BY <2>3, <2>5, <2>6, <1>0
<1>2. ASSUME NEW i \in 2..n PROVE Part(c, p[0], p[i - 1]) \o q[i] = Part(c, p[0], p[i])
  <2>0. i - 1 \in 0..n /\ i \in 0..n /\ i \in 1..n
    OBVIOUS
  <2>1. p[0] \in Nat /\ p[i - 1] \in p[0]..Len(c) /\ p[i] \in p[i - 1]..Len(c)
    <3>2. p[0] \in 0..Len(c) /\ p[i - 1] \in 0..Len(c) /\ p[i] \in 0..Len(c)
      BY <2>0
    <3> QED BY <2>0, <3>2, <1>1, <1>0
  <2>2. q[i] = Part(c, p[i - 1], p[i])
    BY <2>0
  <2>3. PICK x, y, z : x = p[0] /\ y = p[i - 1] /\ z = p[i]
    OBVIOUS
  <2>4. Part(c, x, y) \o Part(c, y, z) = Part(c, x, z)
    BY <2>1, <2>3, PartsJoin
  <2> QED BY <2>2, <2>3, <2>4
<1>3. ASSUME NEW i \in 1..n PROVE G[i] = IF i = 1 THEN q[i] ELSE G[i - 1] \o q[i]
  <2>1. CASE i = 1
    <3>1. q[1] = Part(c, p[1 - 1], p[1])
      <4>1. 1 \in 1..n
        OBVIOUS
      <4> QED BY <4>1
    <3>2. 1 - 1 = 0
      OBVIOUS
    <3> QED BY <2>1, <3>1, <3>2
  <2>2. CASE i # 1
    <3>1. i \in 2..n /\ i - 1 \in 1..n
      BY <2>2
    <3>2. Part(c, p[0], p[i - 1]) \o q[i] = Part(c, p[0], p[i])
      BY <3>1, <1>2
    <3>3. G[i] = Part(c, p[0], p[i]) /\ G[i - 1] = Part(c, p[0], p[i - 1])
      BY <3>1
    <3> HIDE DEF G
    <3> QED BY <2>2, <3>2, <3>3
  <2> QED BY <2>1, <2>2
<1>4. G = Step(G)
  <2>1. G = [i \in 1..n |-> G[i]]
    OBVIOUS
  <2>2. Step(G) = [i \in 1..n |-> IF i = 1 THEN q[i] ELSE G[i - 1] \o q[i]]
    OBVIOUS
  <2> HIDE DEF G, Step
  <2> QED BY <1>3, <2>1, <2>2
<1> DEFINE F == CHOOSE f : f = Step(f)
<1>5. FlattenSeq(q) = F[Len(q)]
  BY DEF FlattenSeq
<1>6. F = Step(F)
  <2> HIDE DEF Step
  <2> QED BY <1>4
<1> HIDE DEF F
<1>7. \A i \in 1..n : F[i] = IF i = 1 THEN q[i] ELSE F[i - 1] \o q[i]
  BY <1>6
<1>8. \A i \in 1..n : F[i] = G[i]
  <2> DEFINE S == {i \in 1..n : F[i] # G[i]}
  <2> HIDE DEF G
  <2>1. SUFFICES ASSUME S # {} PROVE FALSE
    OBVIOUS
  <2>2. PICK i \in S : \A y \in S : i <= y
    <3>1. S \in SUBSET Nat
      OBVIOUS
    <3> HIDE DEF S
    <3> QED BY <2>1, <3>1, LeastMember
  <2>3. i \in 1..n /\ F[i] # G[i]
    BY <2>2
  <2>4. i # 1
    BY <2>3, <1>3, <1>7
  <2>5. i - 1 \in 1..n /\ i - 1 \notin S
    BY <2>2, <2>3, <2>4
  <2>6. F[i - 1] = G[i - 1]
    BY <2>5
  <2>7. F[i] = F[i - 1] \o q[i]
    BY <2>3, <2>4, <1>7
  <2>8. G[i] = G[i - 1] \o q[i]
    BY <2>3, <2>4, <1>3
  <2> QED BY <2>3, <2>6, <2>7, <2>8
<1>9. F[n] = G[n] /\ G[n] = Part(c, p[0], p[n])
  <2>1. n \in 1..n
    OBVIOUS
  <2> QED BY <1>8, <2>1
<1> HIDE DEF G
<1> QED BY <1>5, <1>9


\* The bytes of s from a to b are those of the nodes q, one after the other;
\* f gives the bytes of a node.
Covers(f, q, a, b, s) ==
  /\ q \in Seq(DOMAIN f)
  /\ b = a + Total(q) /\ b <= Len(s)
  /\ \A i \in 1..Len(q) : f[q[i]] = Part(s, a + Ends(q)[i - 1], a + Ends(q)[i])

\* f gives every node it knows the bytes stored under it.
Telling(f) ==
  \A m \in DOMAIN f :
    /\ m.level \in Int /\ m.level >= -1
    /\ f[m] \in Seq(Nat) /\ m.size = Len(f[m])
    /\ IF m.kids = <<>> THEN f[m] = m.bytes
       ELSE /\ Covers(f, m.kids, 0, m.size, f[m])
            /\ \A i \in 1..Len(m.kids) : m.kids[i].level < m.level

\* What is ready has its children ready.
Complete == \A p \in ready : \A i \in DOMAIN p.kids : p.kids[i] \in ready

Calls == [node : ready, offset : Nat, length : Nat]

\* The body of readRangeNode, where h answers the calls it makes.
ReadStep(h, c) ==
  IF c.node.kids = <<>> THEN SubSeq(c.node.bytes, c.offset + 1, c.offset + c.length)
  ELSE LET kids     == c.node.kids
           start(i) == Ends(kids)[i - 1]
           from(i)  == IF c.offset > start(i) THEN c.offset ELSE start(i)
           to(i)    == Least(c.offset + c.length, Ends(kids)[i])
           part(i)  == IF from(i) >= to(i) THEN <<>>
                       ELSE IF kids[i] \notin ready THEN <<Missing>>
                       ELSE h[[node |-> kids[i], offset |-> from(i) - start(i),
                               length |-> to(i) - from(i)]] IN
       FlattenSeq([i \in 1..Len(kids) |-> part(i)])

Reply(f, c) ==
  IF c.node.kids = <<>> THEN Part(f[c.node], c.offset, c.offset + c.length)
  ELSE Part(f[c.node], Least(c.offset, c.node.size), Least(c.offset + c.length, c.node.size))

LEMMA CoveredSizes ==
  ASSUME NEW f, Telling(f), NEW q \in Seq(DOMAIN f)
  PROVE  /\ Len(q) \in Nat /\ \A i \in 1..Len(q) : q[i] \in DOMAIN f /\ q[i].size \in Nat
         /\ Adds(Ends(q), q, Len(q)) /\ Total(q) \in Nat
<1>1. Len(q) \in Nat /\ \A i \in 1..Len(q) : q[i] \in DOMAIN f
  BY LenProperties, ElementOfSeq
<1>2. \A m \in DOMAIN f : m.size \in Nat
  <2> SUFFICES ASSUME NEW m \in DOMAIN f PROVE m.size \in Nat
    OBVIOUS
  <2>1. PICK s : s = f[m]
    OBVIOUS
  <2>2. s \in Seq(Nat) /\ m.size = Len(s)
    BY <2>1 DEF Telling
  <2> QED BY <2>2, LenProperties
<1>3. Adds(Ends(q), q, Len(q))
  BY <1>1, <1>2, EndsAdd
<1>4. Total(q) \in Nat
  <2>1. Len(q) \in 0..Len(q)
    BY <1>1
  <2> QED BY <2>1, <1>3 DEF Adds, Total
<1> QED BY <1>1, <1>2, <1>3, <1>4

\* What a node with children is made of.
MadeOf(f, m, n, e, s) ==
  /\ s = f[m] /\ s \in Seq(Nat) /\ m.size = Len(s)
  /\ n = Len(m.kids) /\ n \in Nat \ {0}
  /\ e = Ends(m.kids) /\ e \in [0..n -> 0..Len(s)] /\ e[0] = 0 /\ e[n] = Len(s)
  /\ \A i \in 1..n : e[i - 1] <= e[i]
  /\ \A i \in 1..n : m.kids[i] \in DOMAIN f /\ m.kids[i].level < m.level
                     /\ m.kids[i].size = e[i] - e[i - 1]
                     /\ f[m.kids[i]] = Part(s, e[i - 1], e[i])

LEMMA IndexMadeOf ==
  ASSUME NEW f, Telling(f), NEW m \in DOMAIN f, m.kids # <<>>
  PROVE  \E n, e, s : MadeOf(f, m, n, e, s)
<1>1. PICK s : s = f[m]
  OBVIOUS
<1>2. PICK k : k = m.kids
  OBVIOUS
<1>3. s \in Seq(Nat) /\ m.size = Len(s) /\ Covers(f, k, 0, m.size, s) /\ k # <<>>
      /\ \A i \in 1..Len(k) : k[i].level < m.level
  BY <1>1, <1>2 DEF Telling
<1>4. k \in Seq(DOMAIN f) /\ m.size = 0 + Total(k)
      /\ \A i \in 1..Len(k) : f[k[i]] = Part(s, 0 + Ends(k)[i - 1], 0 + Ends(k)[i])
  BY <1>3 DEF Covers
<1>5. PICK e : e = Ends(k)
  OBVIOUS
<1>6. PICK n : n = Len(k)
  OBVIOUS
<1>7. n \in Nat /\ Adds(e, k, n) /\ Total(k) = e[n] /\ e[n] \in Nat /\ \A i \in 1..n : k[i] \in DOMAIN f /\ k[i].size \in Nat
  BY <1>4, <1>5, <1>6, CoveredSizes DEF Total
<1>8. n # 0
  BY <1>3, <1>4, <1>6, EmptySeq
<1>9. e[n] = Len(s) /\ Len(s) \in Nat
  BY <1>3, <1>4, <1>7
<1>10. e \in [0..n -> 0..Len(s)]
  <2>1. ASSUME NEW i \in 0..n PROVE e[i] \in Nat /\ e[i] <= e[n]
    <3>1. n \in 0..n /\ i <= n
      BY <1>7
    <3>2. e[i] \in Nat
      BY <1>7 DEF Adds
    <3> QED BY <1>7, <3>1, <3>2, AddsGrow
  <2>2. e \in [0..n -> Nat]
    BY <1>7 DEF Adds
  <2> QED BY <2>1, <2>2, <1>9
<1>11. ASSUME NEW i \in 1..n
       PROVE  e[i - 1] <= e[i] /\ k[i].size = e[i] - e[i - 1] /\ f[k[i]] = Part(s, e[i - 1], e[i])
  <2>1. i - 1 \in 0..n /\ i \in 0..n
    BY <1>7
  <2>2. e[i - 1] \in Nat /\ e[i] \in Nat /\ e[i] = e[i - 1] + k[i].size /\ k[i].size \in Nat
    BY <2>1, <1>7 DEF Adds
  <2>3. f[k[i]] = Part(s, 0 + e[i - 1], 0 + e[i])
    BY <1>4, <1>5, <1>6
  <2> QED BY <2>2, <2>3
<1>12. e[0] = 0
  BY <1>7 DEF Adds
<1>13. MadeOf(f, m, n, e, s)
  BY <1>1, <1>2, <1>3, <1>5, <1>6, <1>7, <1>8, <1>9, <1>10, <1>11, <1>12 DEF MadeOf
<1> QED BY <1>13


Clip(lo, hi, z) == IF z < lo THEN lo ELSE IF z > hi THEN hi ELSE z

\* The part from lo to hi of a node, met with a child that goes from x to y.
Meets(size, x, y, lo, hi, from, to) ==
  /\ Clip(lo, hi, x) \in 0..size /\ Clip(lo, hi, y) \in 0..size /\ Clip(lo, hi, x) <= Clip(lo, hi, y)
  /\ from \in Nat /\ to \in Nat
  /\ from >= to => Clip(lo, hi, x) = Clip(lo, hi, y)
  /\ ~(from >= to) => /\ Clip(lo, hi, x) = from /\ Clip(lo, hi, y) = to
                      /\ from - x \in Nat /\ to - from \in Nat
                      /\ (from - x) + (to - from) = to - x /\ to - x \in (from - x)..(y - x)
                      /\ x + (from - x) = from /\ x + (to - x) = to

LEMMA RangeMeets ==
  ASSUME NEW o \in Nat, NEW l \in Nat, NEW size \in Nat, NEW x \in 0..size, NEW y \in x..size,
         NEW lo, lo = Least(o, size), NEW hi, hi = Least(o + l, size),
         NEW from, from = IF o > x THEN o ELSE x, NEW to, to = Least(o + l, y)
  PROVE  Meets(size, x, y, lo, hi, from, to)
BY DEF Clip, Least, Meets

LEMMA InsideAnswer ==
  ASSUME NEW f, Telling(f), NEW m \in DOMAIN f, NEW o \in Nat, NEW l \in Nat, o + l <= m.size
  PROVE  Reply(f, [node |-> m, offset |-> o, length |-> l]) = Part(f[m], o, o + l)
<1>1. PICK s : s = f[m]
  OBVIOUS
<1>2. s \in Seq(Nat) /\ m.size = Len(s)
  BY <1>1 DEF Telling
<1>3. m.size \in Nat
  BY <1>2, LenProperties
<1>4. Least(o, m.size) = o /\ Least(o + l, m.size) = o + l
  BY <1>3 DEF Least
<1> QED BY <1>4 DEF Reply

LEMMA StepAnswers ==
  ASSUME NEW f, Telling(f), ready \subseteq DOMAIN f, Complete, NEW c \in Calls, NEW h,
         \A d \in Calls : d.node.level < c.node.level => h[d] = Reply(f, d)
  PROVE  ReadStep(h, c) = Reply(f, c)
<1>1. PICK m \in ready, o \in Nat, l \in Nat : m = c.node /\ o = c.offset /\ l = c.length
  BY DEF Calls
<1>2. m \in DOMAIN f
  OBVIOUS
<1>3. CASE m.kids = <<>>
  <2>1. f[m] = m.bytes
    BY <1>2, <1>3 DEF Telling
  <2>2. ReadStep(h, c) = SubSeq(m.bytes, o + 1, o + l)
    BY <1>1, <1>3 DEF ReadStep
  <2>3. Reply(f, c) = Part(f[m], o, o + l)
    BY <1>1, <1>3 DEF Reply
  <2> QED BY <2>1, <2>2, <2>3 DEF Part
<1>4. CASE m.kids # <<>>
  <2>1. PICK n, e, s : MadeOf(f, m, n, e, s)
    BY <1>2, <1>4, IndexMadeOf
  <2>2. PICK k : k = m.kids
    OBVIOUS
  <2> DEFINE from(i) == IF o > e[i - 1] THEN o ELSE e[i - 1]
             to(i) == Least(o + l, e[i])
             part(i) == IF from(i) >= to(i) THEN <<>>
                        ELSE IF k[i] \notin ready THEN <<Missing>>
                        ELSE h[[node |-> k[i], offset |-> from(i) - e[i - 1], length |-> to(i) - from(i)]]
             Q == [i \in 1..n |-> part(i)]
  <2>3. n = Len(k) /\ e = Ends(k) /\ k # <<>> /\ k = c.node.kids
    BY <1>1, <1>4, <2>1, <2>2 DEF MadeOf
  <2>4. ReadStep(h, c) = FlattenSeq(Q)
    BY <1>1, <2>3 DEF ReadStep
  <2>5. PICK size : size = Len(s)
    OBVIOUS
  <2>6. size \in Nat /\ m.size = size /\ s \in Seq(Nat) /\ s = f[m]
    BY <2>1, <2>5, LenProperties DEF MadeOf
  <2>7. PICK lo, hi : lo = Least(o, size) /\ hi = Least(o + l, size)
    OBVIOUS
  <2>8. Reply(f, c) = Part(s, lo, hi)
    BY <1>1, <1>4, <2>6, <2>7 DEF Reply
  <2> DEFINE P == [i \in 0..n |-> Clip(lo, hi, e[i])]
  <2>9. n \in Nat \ {0} /\ e \in [0..n -> 0..size] /\ e[0] = 0 /\ e[n] = size /\ \A i \in 1..n : e[i - 1] <= e[i]
    BY <2>1, <2>5 DEF MadeOf
  <2>10. ASSUME NEW i \in 1..n
         PROVE  P[i - 1] \in 0..size /\ P[i] \in 0..size /\ P[i - 1] <= P[i] /\ Q[i] = Part(s, P[i - 1], P[i])
    <3>1. i - 1 \in 0..n /\ i \in 0..n
      BY <2>9
    <3>2. PICK x, y : x = e[i - 1] /\ y = e[i]
      OBVIOUS
    <3>3. x \in 0..size /\ y \in 0..size /\ x <= y
      BY <2>9, <3>1, <3>2
    <3>4. y \in x..size
      BY <3>3
    <3>5. PICK a, b : a = from(i) /\ b = to(i)
      OBVIOUS
    <3>6. a = (IF o > x THEN o ELSE x) /\ b = Least(o + l, y)
      BY <3>2, <3>5
    <3>7. /\ Clip(lo, hi, x) \in 0..size /\ Clip(lo, hi, y) \in 0..size /\ Clip(lo, hi, x) <= Clip(lo, hi, y)
          /\ a \in Nat /\ b \in Nat
          /\ a >= b => Clip(lo, hi, x) = Clip(lo, hi, y)
          /\ ~(a >= b) => /\ Clip(lo, hi, x) = a /\ Clip(lo, hi, y) = b
                          /\ a - x \in Nat /\ b - a \in Nat
                          /\ (a - x) + (b - a) = b - x /\ b - x \in (a - x)..(y - x)
                          /\ x + (a - x) = a /\ x + (b - x) = b
      <4>1. Meets(size, x, y, lo, hi, a, b)
        BY <2>6, <2>7, <3>3, <3>4, <3>6, RangeMeets
      <4> QED BY <4>1 DEF Meets
    <3>8. P[i - 1] = Clip(lo, hi, x) /\ P[i] = Clip(lo, hi, y)
      BY <3>1, <3>2
    <3>9. Q[i] = IF a >= b THEN <<>>
                 ELSE IF k[i] \notin ready THEN <<Missing>>
                 ELSE h[[node |-> k[i], offset |-> a - x, length |-> b - a]]
      <4> HIDE DEF from, to
      <4>1. part(i) = IF a >= b THEN <<>>
                      ELSE IF k[i] \notin ready THEN <<Missing>>
                      ELSE h[[node |-> k[i], offset |-> a - x, length |-> b - a]]
        BY <3>2, <3>5
      <4> HIDE DEF part
      <4>2. Q[i] = part(i)
        OBVIOUS
      <4> QED BY <4>1, <4>2
    <3> HIDE DEF P, Q, from, to, part
    <3>10. CASE a >= b
      <4>1. Q[i] = <<>>
        BY <3>9, <3>10
      <4>2. PICK z : z = Clip(lo, hi, x)
        OBVIOUS
      <4>3. z \in Nat /\ Clip(lo, hi, y) = z
        <5>1. Clip(lo, hi, x) = Clip(lo, hi, y)
          BY <3>7, <3>10
        <5>2. z \in 0..size
          BY <3>7, <4>2
        <5> QED BY <5>1, <5>2, <4>2, <2>6
      <4>4. Part(s, z, z) = <<>>
        BY <4>3, PartIsNone
      <4> QED BY <4>1, <4>2, <4>3, <4>4, <3>7, <3>8
    <3>11. CASE ~(a >= b)
      <4>1. k[i] \in ready /\ k[i] \in DOMAIN f /\ k[i].level < m.level /\ k[i].size = y - x /\ f[k[i]] = Part(s, x, y)
        <5>1. k[i] \in DOMAIN f /\ k[i].level < m.level /\ k[i].size = y - x /\ f[k[i]] = Part(s, x, y)
          BY <2>1, <2>2, <3>2 DEF MadeOf
        <5>2. m.kids \in Seq(DOMAIN f)
          BY <1>2, <1>4 DEF Telling, Covers
        <5>3. DOMAIN k = 1..n
          BY <5>2, <2>2, <2>3, LenProperties
        <5>4. k[i] \in ready
          BY <5>3, <2>2 DEF Complete
        <5> QED BY <5>1, <5>4
      <4>2. PICK d : d = [node |-> k[i], offset |-> a - x, length |-> b - a]
        OBVIOUS
      <4>3. d \in Calls /\ d.node = k[i]
        BY <4>1, <4>2, <3>7, <3>11 DEF Calls
      <4>4. Q[i] = h[d]
        BY <3>9, <3>11, <4>1, <4>2
      <4>5. h[d] = Reply(f, d)
        BY <4>1, <4>3, <1>1
      <4>6. Reply(f, d) = Part(f[k[i]], a - x, b - x)
        <5>1. (a - x) + (b - a) = b - x /\ b - x <= k[i].size /\ a - x \in Nat /\ b - a \in Nat
          BY <3>3, <3>7, <3>11, <4>1
        <5>2. PICK u, v : u = a - x /\ v = b - a
          OBVIOUS
        <5>3. Reply(f, [node |-> k[i], offset |-> u, length |-> v]) = Part(f[k[i]], u, u + v)
          BY <5>1, <5>2, <4>1, InsideAnswer
        <5> QED BY <5>1, <5>2, <5>3, <4>2
      <4>7. Part(Part(s, x, y), a - x, b - x) = Part(s, x + (a - x), x + (b - x))
        <5>1. PICK u, v : u = a - x /\ v = b - x
          OBVIOUS
        <5>2. u \in Nat /\ v \in u..(y - x) /\ x \in Nat /\ y \in x..Len(s)
          BY <5>1, <3>3, <3>4, <3>7, <3>11, <2>5
        <5>3. Part(Part(s, x, y), u, v) = Part(s, x + u, x + v)
          BY <5>2, <2>6, PartOfPart
        <5> QED BY <5>1, <5>3
      <4>8. x + (a - x) = a /\ x + (b - x) = b
        BY <3>7, <3>11
      <4>9. Q[i] = Part(s, a, b)
        BY <4>1, <4>4, <4>5, <4>6, <4>7, <4>8
      <4> QED BY <4>9, <3>7, <3>8, <3>11
    <3> QED BY <3>10, <3>11
  <2>11. P \in [0..n -> 0..Len(s)]
    <3>1. ASSUME NEW j \in 0..n PROVE P[j] \in 0..size
      <4>1. CASE j = 0
        <5>1. 1 \in 1..n /\ 1 - 1 = 0
          BY <2>9
        <5>2. P[1 - 1] \in 0..size
          BY <5>1, <2>10
        <5> HIDE DEF P
        <5> QED BY <4>1, <5>1, <5>2
      <4>2. CASE j # 0
        <5>1. j \in 1..n
          BY <4>2
        <5> HIDE DEF P
        <5> QED BY <5>1, <2>10
      <4> QED BY <4>1, <4>2
    <3>2. P = [j \in 0..n |-> P[j]]
      OBVIOUS
    <3> HIDE DEF P
    <3> QED BY <3>1, <3>2, <2>5
  <2>12. Len(Q) = n
    <3> HIDE DEF part
    <3> QED BY <2>9
  <2>13. P[0] = lo /\ P[n] = hi
    <3>1. P[0] = Clip(lo, hi, 0) /\ P[n] = Clip(lo, hi, size)
      BY <2>9
    <3>2. size \in Nat
      BY <2>6
    <3> HIDE DEF P
    <3>3. Clip(lo, hi, 0) = lo /\ Clip(lo, hi, size) = hi
      BY <3>2, <2>7 DEF Clip, Least
    <3> QED BY <3>1, <3>3
  <2>14. FlattenSeq(Q) = Part(s, P[0], P[n])
    <3> HIDE DEF P, Q
    <3> QED BY <2>6, <2>9, <2>10, <2>11, <2>12, FlattenParts
  <2> HIDE DEF P, Q
  <2> QED BY <2>4, <2>8, <2>13, <2>14
<1> QED BY <1>3, <1>4


\* What readRangeNode answers, however deep the tree.
LEMMA RangeRead ==
  ASSUME NEW f, Telling(f), ready \subseteq DOMAIN f, Complete,
         NEW m \in ready, NEW o \in Nat, NEW l \in Nat, o + l <= m.size
  PROVE  ReadRange(m, o, l) = Part(f[m], o, o + l)
<1> DEFINE Step(h) == [c \in Calls |-> ReadStep(h, c)]
           H == CHOOSE h : h = Step(h)
           G == [c \in Calls |-> Reply(f, c)]
<1>1. G = Step(G)
  <2>1. ASSUME NEW c \in Calls PROVE ReadStep(G, c) = Reply(f, c)
    <3>1. \A d \in Calls : d.node.level < c.node.level => G[d] = Reply(f, d)
      OBVIOUS
    <3> HIDE DEF G
    <3> QED BY <3>1, StepAnswers
  <2>2. \A c \in Calls : G[c] = Reply(f, c)
    OBVIOUS
  <2>3. G = [c \in Calls |-> G[c]]
    OBVIOUS
  <2> HIDE DEF G
  <2> QED BY <2>1, <2>2, <2>3
<1>2. H = Step(H)
  <2> HIDE DEF Step, G
  <2> QED BY <1>1
<1>3. ReadRange(m, o, l) = H[[node |-> m, offset |-> o, length |-> l]]
  BY DEF ReadRange, ReadStep, Calls
<1> HIDE DEF H
<1>4. \A c \in Calls : H[c] = ReadStep(H, c)
  BY <1>2
<1>5. \A c \in Calls : c.node.level \in Int /\ c.node.level >= -1
  <2>1. \A c \in Calls : c.node \in DOMAIN f
    BY DEF Calls
  <2> QED BY <2>1 DEF Telling
<1>6. \A c \in Calls : H[c] = Reply(f, c)
  <2> DEFINE S == {n \in Nat : \E c \in Calls : n = c.node.level + 1 /\ H[c] # Reply(f, c)}
  <2>1. SUFFICES ASSUME NEW c \in Calls, H[c] # Reply(f, c) PROVE FALSE
    OBVIOUS
  <2>2. c.node.level + 1 \in S
    BY <2>1, <1>5
  <2>3. PICK n \in S : \A y \in S : n <= y
    <3>1. S \in SUBSET Nat /\ S # {}
      BY <2>2
    <3> HIDE DEF S
    <3> QED BY <3>1, LeastMember
  <2>4. PICK d \in Calls : n = d.node.level + 1 /\ H[d] # Reply(f, d)
    BY <2>3
  <2>5. ASSUME NEW b \in Calls, b.node.level < d.node.level PROVE H[b] = Reply(f, b)
    <3>1. SUFFICES ASSUME H[b] # Reply(f, b) PROVE FALSE
      OBVIOUS
    <3>2. b.node.level + 1 \in S
      BY <3>1, <1>5
    <3>3. n <= b.node.level + 1
      BY <2>3, <3>2
    <3> QED BY <2>4, <2>5, <3>3, <1>5
  <2>6. ReadStep(H, d) = Reply(f, d)
    BY <2>5, StepAnswers
  <2> QED BY <2>4, <2>6, <1>4
<1>7. [node |-> m, offset |-> o, length |-> l] \in Calls
  BY DEF Calls
<1>8. Reply(f, [node |-> m, offset |-> o, length |-> l]) = Part(f[m], o, o + l)
  BY InsideAnswer
<1> QED BY <1>3, <1>6, <1>7, <1>8


Begins(q, r, n) == \A i \in 1..n : q[i] = r[i]

LEMMA SameSums ==
  ASSUME NEW q, NEW r, NEW n \in Nat, NEW k \in Nat, n <= k, NEW d, NEW e, Adds(d, q, n), Adds(e, r, k),
         Begins(q, r, n)
  PROVE  \A i \in 0..n : d[i] = e[i]
<1> DEFINE S == {i \in 0..n : d[i] # e[i]}
<1>1. SUFFICES ASSUME S # {} PROVE FALSE
  OBVIOUS
<1>2. PICK i \in S : \A y \in S : i <= y
  <2>1. S \in SUBSET Nat
    OBVIOUS
  <2> HIDE DEF S
  <2> QED BY <1>1, <2>1, LeastMember
<1>3. i \in 0..n /\ d[i] # e[i]
  BY <1>2
<1>4. i # 0
  BY <1>3 DEF Adds
<1>5. i - 1 \in 0..n /\ i - 1 \notin S
  BY <1>2, <1>3, <1>4
<1>6. d[i - 1] = e[i - 1]
  BY <1>5
<1>7. i \in 1..n /\ i \in 1..k
  BY <1>3, <1>4
<1> QED BY <1>3, <1>6, <1>7 DEF Adds, Begins

LEMMA CoversNone ==
  ASSUME NEW f, NEW a \in Nat, NEW b, NEW s
  PROVE  Covers(f, <<>>, a, b, s) <=> b = a /\ b <= Len(s)
<1>1. <<>> \in Seq(DOMAIN f) /\ Len(<<>>) = 0
  BY EmptySeq
<1>2. \A i \in 1..Len(<<>>) : FALSE
  BY <1>1
<1>3. Adds(Ends(<<>>), <<>>, Len(<<>>))
  BY <1>1, <1>2, EndsAdd
<1>4. Total(<<>>) = 0
  <2>1. Ends(<<>>)[0] = 0
    BY <1>3 DEF Adds
  <2> QED BY <1>1, <2>1 DEF Total
<1> QED BY <1>1, <1>2, <1>4 DEF Covers

LEMMA CoversAppend ==
  ASSUME NEW f, Telling(f), NEW s \in Seq(Nat), NEW a \in Nat, NEW b \in Nat, NEW q, Covers(f, q, a, b, s),
         NEW m \in DOMAIN f, NEW c \in Nat, c = b + m.size, c <= Len(s), f[m] = Part(s, b, c)
  PROVE  Covers(f, Append(q, m), a, c, s)
<1>1. q \in Seq(DOMAIN f) /\ b = a + Total(q)
      /\ \A i \in 1..Len(q) : f[q[i]] = Part(s, a + Ends(q)[i - 1], a + Ends(q)[i])
  BY DEF Covers
<1>2. PICK r : r = Append(q, m)
  OBVIOUS
<1>3. PICK n : n = Len(q)
  OBVIOUS
<1>4. /\ r \in Seq(DOMAIN f) /\ Len(r) = n + 1 /\ n \in Nat
      /\ \A i \in 1..n : r[i] = q[i]
      /\ r[n + 1] = m
  BY <1>1, <1>2, <1>3, AppendProperties, LenProperties
<1>5. PICK d, e : d = Ends(q) /\ e = Ends(r)
  OBVIOUS
<1>6. Adds(d, q, n) /\ Total(q) = d[n]
  BY <1>1, <1>3, <1>5, CoveredSizes DEF Total
<1>7. Adds(e, r, n + 1) /\ Total(r) = e[n + 1]
  BY <1>4, <1>5, CoveredSizes DEF Total
<1>8. \A i \in 0..n : d[i] = e[i]
  <2>1. PICK k : k = n + 1
    OBVIOUS
  <2>2. k \in Nat /\ n <= k /\ n \in Nat /\ Begins(q, r, n)
    BY <1>4, <2>1 DEF Begins
  <2>3. Adds(e, r, k)
    BY <1>7, <2>1
  <2> QED BY <2>2, <2>3, <1>6, SameSums
<1>9. m.size \in Nat
  <2>1. PICK t : t = f[m]
    OBVIOUS
  <2>2. t \in Seq(Nat) /\ m.size = Len(t)
    BY <2>1 DEF Telling
  <2> QED BY <2>2, LenProperties
<1>10. e[n + 1] = e[n] + m.size /\ e[n] = d[n] /\ d[n] \in Nat /\ e[n + 1] \in Nat
  <2>0. n \in Nat
    BY <1>4
  <2>1. n + 1 \in 1..n + 1 /\ n \in 0..n /\ (n + 1) - 1 = n /\ n + 1 \in 0..n + 1
    BY <2>0
  <2>2. e[n + 1] = e[(n + 1) - 1] + r[n + 1].size
    BY <1>7, <2>1 DEF Adds
  <2>3. d[n] \in Nat /\ e[n + 1] \in Nat
    BY <1>6, <1>7, <2>1 DEF Adds
  <2> QED BY <2>1, <2>2, <2>3, <1>4, <1>8
<1>11. c = a + Total(r) /\ b = a + e[n] /\ c = a + e[n + 1]
  BY <1>1, <1>6, <1>7, <1>9, <1>10
<1>12. ASSUME NEW i \in 1..Len(r) PROVE f[r[i]] = Part(s, a + e[i - 1], a + e[i])
  <2>1. CASE i \in 1..n
    <3>1. r[i] = q[i] /\ f[q[i]] = Part(s, a + d[i - 1], a + d[i])
      BY <2>1, <1>1, <1>3, <1>4, <1>5
    <3>2. d[i - 1] = e[i - 1] /\ d[i] = e[i]
      <4>1. i - 1 \in 0..n /\ i \in 0..n
        BY <2>1, <1>4
      <4> QED BY <4>1, <1>8
    <3> QED BY <3>1, <3>2
  <2>2. CASE i \notin 1..n
    <3>1. i = n + 1 /\ i - 1 = n
      BY <2>2, <1>4
    <3> QED BY <3>1, <1>4, <1>11
  <2> QED BY <2>1, <2>2
<1> QED BY <1>2, <1>4, <1>5, <1>11, <1>12 DEF Covers

\* The bytes that nodes cover are the ones they are put together from.
LEMMA CoveredBytes ==
  ASSUME NEW f, Telling(f), NEW s \in Seq(Nat), NEW t \in Seq(Nat), NEW a \in Nat, NEW b \in Nat, NEW q,
         q # <<>>, Covers(f, q, a, b, s), Covers(f, q, 0, Len(t), t)
  PROVE  t = Part(s, a, b)
<1>1. q \in Seq(DOMAIN f) /\ b = a + Total(q) /\ b <= Len(s)
      /\ \A i \in 1..Len(q) : f[q[i]] = Part(s, a + Ends(q)[i - 1], a + Ends(q)[i])
  BY DEF Covers
<1>2. Len(t) = 0 + Total(q) /\ \A i \in 1..Len(q) : f[q[i]] = Part(t, 0 + Ends(q)[i - 1], 0 + Ends(q)[i])
  BY DEF Covers
<1>3. PICK n, e : n = Len(q) /\ e = Ends(q)
  OBVIOUS
<1>4. n \in Nat /\ Adds(e, q, n) /\ Total(q) = e[n] /\ \A i \in 1..n : q[i].size \in Nat
  BY <1>1, <1>3, CoveredSizes DEF Total
<1>5. n # 0
  BY <1>1, <1>3, EmptySeq
<1>6. ASSUME NEW i \in 0..n PROVE e[i] \in Nat /\ e[i] <= e[n]
  <2>1. n \in 0..n /\ i <= n
    BY <1>4
  <2>2. e[i] \in Nat
    BY <1>4 DEF Adds
  <2> QED BY <1>4, <2>1, <2>2, AddsGrow
<1>7. ASSUME NEW i \in 1..n PROVE e[i - 1] <= e[i]
  <2>1. i - 1 \in 0..n /\ i \in 0..n /\ i - 1 <= i
    BY <1>4
  <2> QED BY <1>4, <2>1, AddsGrow
<1>8. Len(t) = e[n] /\ b = a + e[n] /\ Len(t) \in Nat /\ Len(s) \in Nat /\ e[n] \in Nat /\ e[0] = 0
  BY <1>1, <1>2, <1>4, <1>6, LenProperties DEF Adds
<1> DEFINE Q == [i \in 1..n |-> f[q[i]]]
           P == [i \in 0..n |-> a + e[i]]
<1>9. Len(Q) = n
  BY <1>4
<1>10. FlattenSeq(Q) = Part(t, e[0], e[n])
  <2>1. e \in [0..n -> 0..Len(t)]
    BY <1>4, <1>6, <1>8 DEF Adds
  <2>2. ASSUME NEW i \in 1..n PROVE Q[i] = Part(t, e[i - 1], e[i])
    <3>1. i - 1 \in 0..n /\ i \in 0..n
      BY <1>4
    <3>2. 0 + e[i - 1] = e[i - 1] /\ 0 + e[i] = e[i]
      BY <3>1, <1>6
    <3> QED BY <3>2, <1>2, <1>3
  <2> HIDE DEF Q
  <2> QED BY <2>1, <2>2, <1>4, <1>5, <1>7, <1>9, FlattenParts
<1>11. FlattenSeq(Q) = Part(s, P[0], P[n])
  <2>1. P \in [0..n -> 0..Len(s)]
    <3>1. ASSUME NEW i \in 0..n PROVE a + e[i] \in 0..Len(s)
      BY <1>1, <1>6, <1>8
    <3> QED BY <3>1
  <2>2. ASSUME NEW i \in 1..n PROVE P[i - 1] <= P[i] /\ Q[i] = Part(s, P[i - 1], P[i])
    <3>1. i - 1 \in 0..n /\ i \in 0..n
      BY <1>4
    <3>2. P[i - 1] = a + e[i - 1] /\ P[i] = a + e[i]
      BY <3>1
    <3>3. e[i - 1] \in Nat /\ e[i] \in Nat /\ e[i - 1] <= e[i]
      BY <3>1, <1>6, <1>7
    <3>4. Q[i] = Part(s, a + e[i - 1], a + e[i])
      BY <1>1, <1>3
    <3> HIDE DEF P, Q
    <3> QED BY <3>2, <3>3, <3>4
  <2> HIDE DEF P, Q
  <2> QED BY <2>1, <2>2, <1>4, <1>5, <1>9, FlattenParts
<1>12. P[0] = a /\ P[n] = b
  BY <1>4, <1>8
<1>13. Part(t, e[0], e[n]) = t
  BY <1>8, PartIsAll
<1> HIDE DEF P, Q
<1> QED BY <1>10, <1>11, <1>12, <1>13


\* f, and s for the node m if f does not know it.
Grown(f, m, s) == [x \in DOMAIN f \cup {m} |-> IF x \in DOMAIN f THEN f[x] ELSE s]

LEMMA CoversGrown ==
  ASSUME NEW f, NEW m, NEW t, NEW q, NEW a, NEW b, NEW s, Covers(f, q, a, b, s)
  PROVE  Covers(Grown(f, m, t), q, a, b, s)
<1>1. PICK g : g = Grown(f, m, t)
  OBVIOUS
<1>2. DOMAIN f \subseteq DOMAIN g /\ \A x \in DOMAIN f : g[x] = f[x]
  BY <1>1 DEF Grown
<1>3. q \in Seq(DOMAIN f)
  BY DEF Covers
<1>4. q \in Seq(DOMAIN g) /\ \A i \in 1..Len(q) : q[i] \in DOMAIN f
  BY <1>2, <1>3, SeqMonotonic, ElementOfSeq
<1> QED BY <1>1, <1>2, <1>4 DEF Covers

LEMMA TellingGrown ==
  ASSUME NEW f, Telling(f), NEW m, NEW s, m \notin DOMAIN f,
         m.level \in Int, m.level >= -1, s \in Seq(Nat), m.size = Len(s),
         IF m.kids = <<>> THEN s = m.bytes
         ELSE /\ Covers(f, m.kids, 0, m.size, s)
              /\ \A i \in 1..Len(m.kids) : m.kids[i].level < m.level
  PROVE  Telling(Grown(f, m, s))
<1>1. PICK g : g = Grown(f, m, s)
  OBVIOUS
<1>2. DOMAIN g = DOMAIN f \cup {m} /\ g[m] = s /\ \A x \in DOMAIN f : g[x] = f[x]
  BY <1>1 DEF Grown
<1>3. ASSUME NEW x \in DOMAIN g
      PROVE  /\ x.level \in Int /\ x.level >= -1
             /\ g[x] \in Seq(Nat) /\ x.size = Len(g[x])
             /\ IF x.kids = <<>> THEN g[x] = x.bytes
                ELSE /\ Covers(g, x.kids, 0, x.size, g[x])
                     /\ \A i \in 1..Len(x.kids) : x.kids[i].level < x.level
  <2>1. CASE x = m
    <3>1. m.kids # <<>> => Covers(g, m.kids, 0, m.size, s)
      BY <1>1, CoversGrown
    <3> QED BY <2>1, <3>1, <1>2
  <2>2. CASE x \in DOMAIN f
    <3>1. PICK t : t = f[x]
      OBVIOUS
    <3>2. /\ x.level \in Int /\ x.level >= -1
          /\ t \in Seq(Nat) /\ x.size = Len(t)
          /\ IF x.kids = <<>> THEN t = x.bytes
             ELSE /\ Covers(f, x.kids, 0, x.size, t)
                  /\ \A i \in 1..Len(x.kids) : x.kids[i].level < x.level
      BY <2>2, <3>1 DEF Telling
    <3>3. x.kids # <<>> => Covers(g, x.kids, 0, x.size, t)
      BY <3>2, <1>1, CoversGrown
    <3>4. g[x] = t
      BY <2>2, <3>1, <1>2
    <3> QED BY <3>2, <3>3, <3>4
  <2> QED BY <2>1, <2>2, <1>2
<1>4. Telling(g)
  BY <1>3 DEF Telling
<1> QED BY <1>1, <1>4

\* g knows what f does, and that the bytes of m are s.
Learns(f, g, m, s) ==
  /\ Telling(g) /\ DOMAIN f \subseteq DOMAIN g
  /\ m \in DOMAIN g /\ g[m] = s /\ m.size = Len(s)
  /\ \A q, a, b, t : Covers(f, q, a, b, t) => Covers(g, q, a, b, t)

LEMMA GrownLearns ==
  ASSUME NEW f, NEW m, NEW s, m \in DOMAIN f => f[m] = s, Telling(Grown(f, m, s)), m.size = Len(s)
  PROVE  Learns(f, Grown(f, m, s), m, s)
<1>1. \A q, a, b, t : Covers(f, q, a, b, t) => Covers(Grown(f, m, s), q, a, b, t)
  BY CoversGrown
<1>2. DOMAIN f \subseteq DOMAIN Grown(f, m, s) /\ m \in DOMAIN Grown(f, m, s) /\ Grown(f, m, s)[m] = s
  BY DEF Grown
<1> QED BY <1>1, <1>2 DEF Learns

LEMMA KnownLearns ==
  ASSUME NEW f, Telling(f), NEW m \in DOMAIN f, NEW s, f[m] = s
  PROVE  Learns(f, f, m, s)
BY DEF Learns, Telling

LEMMA LeafLearnt ==
  ASSUME NEW f, Telling(f), NEW s \in Seq(Nat)
  PROVE  (\E g : Learns(f, g, Leaf(s), s)) /\ Leaf(s).level = -1
<1>1. PICK m : m = Leaf(s)
  OBVIOUS
<1>2. m.level = -1 /\ m.size = Len(s) /\ m.bytes = s /\ m.kids = <<>>
  BY <1>1 DEF Leaf
<1>3. CASE m \in DOMAIN f
  <2>1. f[m] = s
    BY <1>2, <1>3 DEF Telling
  <2> QED BY <2>1, <1>1, <1>2, <1>3, KnownLearns
<1>4. CASE m \notin DOMAIN f
  <2>1. m.level \in Int /\ m.level >= -1
    BY <1>2
  <2>2. Telling(Grown(f, m, s))
    BY <1>2, <1>4, <2>1, TellingGrown
  <2> QED BY <2>2, <1>1, <1>2, <1>4, GrownLearns
<1> QED BY <1>3, <1>4

OfLevel(q, v) == \A i \in 1..Len(q) : q[i].level = v

Indexed(f, q, s, a, b, v) == (\E g : Learns(f, g, Index(q), Part(s, a, b))) /\ Index(q).level = v + 1

LEMMA IndexLearnt ==
  ASSUME NEW f, Telling(f), NEW s \in Seq(Nat), NEW a \in Nat, NEW b \in Nat, NEW q, q # <<>>,
         Covers(f, q, a, b, s), NEW v \in Int, v >= -1, OfLevel(q, v)
  PROVE  Indexed(f, q, s, a, b, v)
<1>1. PICK m : m = Index(q)
  OBVIOUS
<1>2. q \in Seq(DOMAIN f) /\ b = a + Total(q) /\ b <= Len(s)
      /\ \A i \in 1..Len(q) : f[q[i]] = Part(s, a + Ends(q)[i - 1], a + Ends(q)[i])
  BY DEF Covers
<1>3. PICK n, e : n = Len(q) /\ e = Ends(q)
  OBVIOUS
<1>4. n \in Nat /\ Adds(e, q, n) /\ Total(q) = e[n] /\ Total(q) \in Nat /\ \A i \in 1..n : q[i].size \in Nat
  BY <1>2, <1>3, CoveredSizes DEF Total
<1>5. n # 0
  BY <1>2, <1>3, EmptySeq
<1>6. m.level = v + 1 /\ m.size = Total(q) /\ m.kids = q
  <2>1. 1 \in 1..n
    BY <1>4, <1>5
  <2>2. q[1].level = v
    BY <2>1, <1>3 DEF OfLevel
  <2> QED BY <2>2, <1>1 DEF Index
<1>7. PICK t : t = Part(s, a, b)
  OBVIOUS
<1>8. t \in Seq(Nat) /\ Len(t) = b - a /\ Len(s) \in Nat
  <2>1. Len(s) \in Nat
    BY LenProperties
  <2>2. b \in a..Len(s)
    BY <1>2, <1>4, <2>1
  <2> QED BY <1>7, <2>1, <2>2, PartOfSeq
<1>9. Len(t) = m.size
  BY <1>2, <1>4, <1>6, <1>8
<1>10. CASE m \in DOMAIN f
  <2>1. PICK u : u = f[m]
    OBVIOUS
  <2>2. u \in Seq(Nat) /\ m.size = Len(u) /\ Covers(f, q, 0, m.size, u)
    BY <1>6, <1>10, <2>1 DEF Telling
  <2>3. u = t
    BY <2>2, <1>7, CoveredBytes
  <2> QED BY <2>1, <2>3, <1>1, <1>6, <1>7, <1>10, KnownLearns DEF Indexed
<1>11. CASE m \notin DOMAIN f
  <2>1. ASSUME NEW i \in 1..n PROVE f[q[i]] = Part(t, 0 + e[i - 1], 0 + e[i])
    <3>1. i - 1 \in 0..n /\ i \in 0..n /\ n \in 0..n /\ i - 1 <= i /\ i <= n
      BY <1>4
    <3>2. e[i - 1] \in Nat /\ e[i] \in Nat /\ e[n] \in Nat
      BY <1>4, <3>1 DEF Adds
    <3>3. e[i - 1] <= e[i] /\ e[i] <= e[n]
      BY <1>4, <3>1, AddsGrow
    <3>4. PICK x, y : x = e[i - 1] /\ y = e[i]
      OBVIOUS
    <3>5. x \in Nat /\ y \in x..b - a /\ b \in a..Len(s)
      <4>1. PICK w : w = e[n]
        OBVIOUS
      <4>2. x \in Nat /\ y \in Nat /\ x <= y /\ y <= w /\ w \in Nat
        BY <3>2, <3>3, <3>4, <4>1
      <4>3. b = a + w /\ b <= Len(s) /\ Len(s) \in Nat
        BY <1>2, <1>4, <1>8, <4>1
      <4> QED BY <4>2, <4>3
    <3>6. Part(Part(s, a, b), x, y) = Part(s, a + x, a + y)
      BY <3>5, PartOfPart
    <3>7. f[q[i]] = Part(s, a + x, a + y)
      BY <1>2, <1>3, <3>4
    <3>8. 0 + e[i - 1] = x /\ 0 + e[i] = y
      BY <3>2, <3>4
    <3> QED BY <3>6, <3>7, <3>8, <1>7
  <2>2. Covers(f, m.kids, 0, m.size, t)
    <3>1. m.size = 0 + Total(q) /\ m.size <= Len(t)
      BY <1>4, <1>6, <1>8, <1>9
    <3> QED BY <3>1, <2>1, <1>2, <1>3, <1>6 DEF Covers
  <2>3. \A i \in 1..Len(m.kids) : m.kids[i].level < m.level
    BY <1>6 DEF OfLevel
  <2>4. Telling(Grown(f, m, t))
    <3>1. m.level \in Int /\ m.level >= -1 /\ m.kids # <<>>
      BY <1>6
    <3> QED BY <3>1, <2>2, <2>3, <1>8, <1>9, <1>11, TellingGrown
  <2> QED BY <2>4, <1>1, <1>6, <1>7, <1>9, <1>11, GrownLearns DEF Indexed
<1> QED BY <1>10, <1>11


\* The groups cover the source from its start: group g the bytes from
\* e[g + 1] to e[g], the highest group first.
Tiled(gs, s, f, e) ==
  /\ e \in [1..Len(gs) + 1 -> Nat] /\ e[Len(gs) + 1] = 0
  /\ gs \in Seq(Seq(DOMAIN f))
  /\ \A g \in 1..Len(gs) : Covers(f, gs[g], e[g + 1], e[g], s)
  /\ \A g \in 1..Len(gs) : \A i \in 1..Len(gs[g]) : gs[g][i].level = g - 2

LEMMA TiledLearns ==
  ASSUME NEW gs, NEW s, NEW f, NEW e, Tiled(gs, s, f, e), NEW g, NEW m, NEW t, Learns(f, g, m, t)
  PROVE  Tiled(gs, s, g, e)
<1>1. DOMAIN f \subseteq DOMAIN g /\ \A q, a, b, u : Covers(f, q, a, b, u) => Covers(g, q, a, b, u)
  BY DEF Learns
<1>2. Seq(DOMAIN f) \subseteq Seq(DOMAIN g)
  BY <1>1, SeqMonotonic
<1>3. gs \in Seq(Seq(DOMAIN g))
  BY <1>2, SeqMonotonic DEF Tiled
<1>4. \A h \in 1..Len(gs) : Covers(g, gs[h], e[h + 1], e[h], s)
  BY <1>1 DEF Tiled
<1> QED BY <1>3, <1>4 DEF Tiled

Blank(gs, x, y) == \A h \in x..y - 1 : gs[h] = <<>>

\* Empty groups take no bytes.
EmptyRun(gs, s, f, e, n, x, y) ==
  Tiled(gs, s, f, e) /\ n = Len(gs) /\ x \in 1..n + 1 /\ y \in x..n + 1 /\ Blank(gs, x, y)

LEMMA EmptyGroups ==
  ASSUME NEW gs, NEW s, NEW f, NEW e, NEW n, NEW x, NEW y, EmptyRun(gs, s, f, e, n, x, y)
  PROVE  e[x] = e[y]
<1>0. n \in Nat /\ n = Len(gs) /\ x \in 1..n + 1 /\ y \in x..n + 1 /\ Tiled(gs, s, f, e) /\ Blank(gs, x, y)
  BY LenProperties DEF Tiled, EmptyRun
<1>1. ASSUME NEW h \in x..y - 1 PROVE e[h + 1] = e[h]
  <2>1. h \in 1..n /\ h + 1 \in 1..n + 1
    BY <1>0
  <2>2. Covers(f, gs[h], e[h + 1], e[h], s) /\ e[h + 1] \in Nat /\ gs[h] = <<>>
    BY <2>1, <1>0 DEF Tiled, Blank
  <2> QED BY <2>2, CoversNone
<1> DEFINE S == {h \in x..y : e[h] # e[x]}
<1>2. SUFFICES ASSUME S # {} PROVE FALSE
  BY <1>0
<1>3. PICK h \in S : \A z \in S : h <= z
  <2>1. S \in SUBSET Nat
    BY <1>0
  <2> HIDE DEF S
  <2> QED BY <1>2, <2>1, LeastMember
<1>4. h \in x..y /\ e[h] # e[x] /\ h # x
  BY <1>3
<1>5. h - 1 \in x..y - 1 /\ h - 1 \notin S /\ h - 1 \in x..y /\ (h - 1) + 1 = h
  BY <1>0, <1>3, <1>4
<1>6. e[h - 1] = e[x]
  BY <1>5
<1>7. e[(h - 1) + 1] = e[h - 1]
  BY <1>1, <1>5
<1> QED BY <1>4, <1>5, <1>6, <1>7

\* The group L, with the ones below it empty, has the bytes up to the end.
LEMMA LowestCovers ==
  ASSUME NEW gs, NEW s, NEW f, NEW e, Tiled(gs, s, f, e), NEW L \in 1..Len(gs),
         Blank(gs, 1, L)
  PROVE  Covers(f, gs[L], e[L + 1], e[1], s) /\ e[L] = e[1] /\ e[L + 1] \in Nat /\ e[1] \in Nat
<1>0. PICK n \in Nat : n = Len(gs)
  BY LenProperties DEF Tiled
<1>1. 1 \in 1..n + 1 /\ L \in 1..n + 1 /\ L + 1 \in 1..n + 1
  BY <1>0
<1>2. e[1] = e[L]
  <2>1. EmptyRun(gs, s, f, e, n, 1, L)
    BY <1>0, <1>1 DEF EmptyRun
  <2> QED BY <2>1, EmptyGroups
<1>3. Covers(f, gs[L], e[L + 1], e[L], s)
  BY <1>0 DEF Tiled
<1>4. e[L + 1] \in Nat /\ e[1] \in Nat
  BY <1>0, <1>1 DEF Tiled
<1> QED BY <1>2, <1>3, <1>4

\* Clearing that group gives its bytes back.
Cleared(gs, L, s, f, e) == \E d : Tiled([gs EXCEPT ![L] = <<>>], s, f, d) /\ d[1] = e[L + 1]

LEMMA TiledClear ==
  ASSUME NEW gs, NEW s, NEW f, NEW e, Tiled(gs, s, f, e), NEW L \in 1..Len(gs),
         Blank(gs, 1, L), e[L + 1] <= Len(s)
  PROVE  Cleared(gs, L, s, f, e)
<1>0. PICK n \in Nat : n = Len(gs)
  BY LenProperties DEF Tiled
<1>1. PICK r : r = [gs EXCEPT ![L] = <<>>]
  OBVIOUS
<1>2. gs \in Seq(Seq(DOMAIN f)) /\ <<>> \in Seq(DOMAIN f)
  BY EmptySeq DEF Tiled
<1>3. r \in Seq(Seq(DOMAIN f)) /\ Len(r) = n /\ r[L] = <<>> /\ \A h \in 1..n : h # L => r[h] = gs[h]
  BY <1>0, <1>1, <1>2, ExceptSeq
<1> DEFINE d == [h \in 1..n + 1 |-> IF h <= L THEN e[L + 1] ELSE e[h]]
<1>4. e \in [1..n + 1 -> Nat] /\ e[n + 1] = 0 /\ L + 1 \in 1..n + 1 /\ L \in 1..n
  BY <1>0 DEF Tiled
<1>5. d \in [1..n + 1 -> Nat] /\ d[n + 1] = 0 /\ d[1] = e[L + 1]
  BY <1>4
<1>6. ASSUME NEW g \in 1..n
      PROVE  Covers(f, r[g], d[g + 1], d[g], s) /\ \A i \in 1..Len(r[g]) : r[g][i].level = g - 2
  <2>1. CASE g <= L
    <3>1. r[g] = <<>>
      <4>1. CASE g = L
        BY <4>1, <1>3
      <4>2. CASE g # L
        <5>1. g \in 1..L - 1
          BY <2>1, <4>2, <1>4
        <5>2. r[g] = gs[g]
          BY <4>2, <1>3
        <5> QED BY <5>1, <5>2 DEF Blank
      <4> QED BY <4>1, <4>2
    <3>2. d[g] = e[L + 1] /\ d[g + 1] = e[L + 1] /\ e[L + 1] \in Nat
      BY <2>1, <1>4
    <3>3. Covers(f, <<>>, e[L + 1], e[L + 1], s)
      BY <3>2, CoversNone
    <3>4. Len(<<>>) = 0
      BY EmptySeq
    <3> HIDE DEF d
    <3> QED BY <3>1, <3>2, <3>3, <3>4
  <2>2. CASE ~(g <= L)
    <3>0. g # L
      BY <2>2, <1>4
    <3>1. r[g] = gs[g]
      BY <3>0, <1>3
    <3>2. d[g] = e[g] /\ d[g + 1] = e[g + 1]
      BY <2>2, <1>4
    <3> HIDE DEF d
    <3> QED BY <3>1, <3>2, <1>0 DEF Tiled
  <2> QED BY <2>1, <2>2
<1> HIDE DEF d
<1>7. Tiled(r, s, f, d)
  BY <1>3, <1>5, <1>6 DEF Tiled
<1> QED BY <1>1, <1>5, <1>7 DEF Cleared

\* What appending a node to its group gives.
Longer(gs, m, L, r) ==
  IF L \in DOMAIN gs THEN r = [gs EXCEPT ![L] = Append(@, m)] ELSE r = Append(gs, <<m>>)

LongerBy(gs, m, n, L, r, D) ==
  /\ r \in Seq(Seq(D)) /\ L \in 1..Len(r) /\ r[L] # <<>>
  /\ Len(r) = IF L \in 1..n THEN n ELSE n + 1
  /\ \A h \in 1..n : h # L => r[h] = gs[h]
  /\ r[L] = IF L \in 1..n THEN Append(gs[L], m) ELSE Append(<<>>, m)

LEMMA LongerIs ==
  ASSUME NEW D, NEW gs \in Seq(Seq(D)), NEW m \in D, NEW n, n = Len(gs), NEW L \in 1..n + 1, NEW r,
         Longer(gs, m, L, r)
  PROVE  LongerBy(gs, m, n, L, r, D)
<1>0. n \in Nat /\ n = Len(gs)
  BY LenProperties
<1>1. DOMAIN gs = 1..n
  BY <1>0, LenProperties
<1>2. CASE L \in 1..n
  <2>1. r = [gs EXCEPT ![L] = Append(gs[L], m)]
    BY <1>1, <1>2 DEF Longer
  <2>2. gs[L] \in Seq(D)
    BY <1>0, <1>2, ElementOfSeq
  <2>3. Append(gs[L], m) \in Seq(D) /\ Append(gs[L], m) # <<>>
    <3>1. \A q \in Seq(D) : Append(q, m) \in Seq(D) /\ Append(q, m) # <<>>
      BY AppendProperties
    <3> QED BY <2>2, <3>1
  <2>4. r \in Seq(Seq(D)) /\ Len(r) = n /\ r[L] = Append(gs[L], m) /\ \A h \in 1..n : h # L => r[h] = gs[h]
    BY <1>0, <1>2, <2>1, <2>3, ExceptSeq
  <2> QED BY <1>0, <1>2, <2>3, <2>4 DEF LongerBy
<1>3. CASE L \notin 1..n
  <2>1. L = n + 1
    BY <1>0, <1>3
  <2>2. r = Append(gs, <<m>>)
    BY <1>1, <1>3 DEF Longer
  <2>3. <<m>> \in Seq(D) /\ <<m>> # <<>> /\ Append(<<>>, m) = <<m>>
    OBVIOUS
  <2>4. r \in Seq(Seq(D)) /\ Len(r) = n + 1 /\ (\A h \in 1..n : r[h] = gs[h]) /\ r[n + 1] = <<m>>
    BY <1>0, <2>2, <2>3, AppendProperties
  <2> QED BY <1>0, <1>3, <2>1, <2>3, <2>4 DEF LongerBy
<1> QED BY <1>2, <1>3

LEMMA TiledAppend ==
  ASSUME NEW gs, NEW s \in Seq(Nat), NEW f, Telling(f), NEW e, Tiled(gs, s, f, e), NEW m \in DOMAIN f,
         NEW L \in 1..Len(gs) + 1, L = m.level + 2, Blank(gs, 1, L),
         NEW c \in Nat, c = e[1] + m.size, c <= Len(s), f[m] = Part(s, e[1], c),
         NEW r, Longer(gs, m, L, r)
  PROVE  \E d : Tiled(r, s, f, d) /\ d[1] = c
<1>0. PICK n \in Nat : n = Len(gs)
  BY LenProperties DEF Tiled
<1>1. gs \in Seq(Seq(DOMAIN f)) /\ e \in [1..n + 1 -> Nat] /\ e[n + 1] = 0 /\ L \in 1..n + 1 /\ m.level \in Int
  BY <1>0 DEF Tiled, Telling
<1>2. PICK k : k = Len(r)
  OBVIOUS
<1>3. /\ r \in Seq(Seq(DOMAIN f)) /\ L \in 1..k
      /\ k = IF L \in 1..n THEN n ELSE n + 1
      /\ \A h \in 1..n : h # L => r[h] = gs[h]
      /\ r[L] = IF L \in 1..n THEN Append(gs[L], m) ELSE Append(<<>>, m)
  <2>1. PICK D : D = DOMAIN f
    OBVIOUS
  <2>2. gs \in Seq(Seq(D)) /\ m \in D
    BY <2>1, <1>1
  <2>3. /\ r \in Seq(Seq(D)) /\ L \in 1..Len(r)
        /\ Len(r) = IF L \in 1..n THEN n ELSE n + 1
        /\ \A h \in 1..n : h # L => r[h] = gs[h]
        /\ r[L] = IF L \in 1..n THEN Append(gs[L], m) ELSE Append(<<>>, m)
    <3>1. L \in 1..n + 1
      BY <1>0
    <3>2. LongerBy(gs, m, n, L, r, D)
      BY <3>1, <2>2, <1>0, LongerIs
    <3> QED BY <3>2 DEF LongerBy
  <2> QED BY <2>1, <2>3, <1>0, <1>2
<1>11. L \in 1..n + 1 /\ k = IF L \in 1..n THEN n ELSE n + 1
  BY <1>1, <1>3
<1>12. (k = n /\ L \in 1..n) \/ (k = n + 1 /\ L = n + 1)
  BY <1>11
<1>13. e \in [1..n + 1 -> Nat] /\ e[n + 1] = 0
  BY <1>1
<1> DEFINE d == [h \in 1..k + 1 |-> IF h <= L THEN c ELSE IF h = n + 2 THEN 0 ELSE e[h]]
<1>4. d \in [1..k + 1 -> Nat] /\ d[k + 1] = 0 /\ d[1] = c
  <2>1. k \in {n, n + 1} /\ L <= k /\ L \in Nat \ {0} /\ (k = n => n + 1 > L) /\ (k = n + 1 => L = n + 1)
    BY <1>12
  <2>2. ASSUME NEW h \in 1..k + 1 PROVE d[h] \in Nat
    BY <2>1, <1>13
  <2>3. d[k + 1] = 0
    BY <2>1, <1>13
  <2>4. d[1] = c
    BY <2>1
  <2>5. d = [h \in 1..k + 1 |-> d[h]]
    OBVIOUS
  <2> HIDE DEF d
  <2> QED BY <2>2, <2>3, <2>4, <2>5
<1>5. e[1] = e[L] /\ e[1] \in Nat
  <2>1. L \in 1..n + 1
    BY <1>11
  <2>2. 1 \in 1..n + 1 /\ L \in 1..n + 1
    BY <2>1
  <2> HIDE DEF d
  <2>3. EmptyRun(gs, s, f, e, n, 1, L)
    BY <2>2, <1>0 DEF EmptyRun
  <2>4. e[1] = e[L]
    BY <2>3, EmptyGroups
  <2>5. e[1] \in Nat
    BY <2>2, <1>13
  <2> QED BY <2>4, <2>5
<1>6. ASSUME NEW g \in 1..k PROVE Covers(f, r[g], d[g + 1], d[g], s)
  <2>1. CASE g < L
    <3>0. g \in 1..L - 1 /\ g \in 1..n /\ g # L
      BY <2>1, <1>12
    <3>1. r[g] = <<>> /\ d[g] = c /\ d[g + 1] = c
      <4>1. r[g] = gs[g] /\ gs[g] = <<>>
        BY <3>0, <1>3 DEF Blank
      <4>2. d[g] = c /\ d[g + 1] = c
        <5>1. g \in 1..k + 1 /\ g + 1 \in 1..k + 1 /\ g <= L /\ g + 1 <= L
          <6>1. k \in Nat /\ L \in Nat /\ L <= k
            BY <1>12
          <6>2. g \in Nat /\ 1 <= g /\ g < L
            BY <2>1, <3>0
          <6> QED BY <6>1, <6>2
        <5> QED BY <5>1
      <4> QED BY <4>1, <4>2
    <3>2. Covers(f, <<>>, c, c, s)
      BY CoversNone
    <3> HIDE DEF d
    <3> QED BY <3>1, <3>2
  <2>2. CASE g = L /\ L \in 1..n
    <3>1. r[g] = Append(gs[L], m) /\ d[g] = c /\ d[g + 1] = e[L + 1] /\ e[L + 1] \in Nat
      <4>1. r[g] = Append(gs[L], m) /\ k = n
        BY <2>2, <1>3
      <4>2. d[g] = c /\ d[g + 1] = e[L + 1] /\ e[L + 1] \in Nat
        <5>1. k = n
          BY <4>1
        <5>2. g \in 1..k + 1 /\ g + 1 \in 1..k + 1 /\ g <= L /\ ~(g + 1 <= L) /\ g + 1 # n + 2 /\ L + 1 \in 1..n + 1
          BY <2>2, <5>1
        <5>3. d[g] = c /\ d[g + 1] = e[g + 1]
          BY <5>2
        <5> HIDE DEF d
        <5> QED BY <5>2, <5>3, <2>2, <1>13
      <4> QED BY <4>1, <4>2
    <3>2. Covers(f, gs[L], e[L + 1], e[1], s)
      BY <2>2, <1>0, <1>5 DEF Tiled
    <3>3. Covers(f, Append(gs[L], m), e[L + 1], c, s)
      BY <3>1, <3>2, <1>5, CoversAppend
    <3> HIDE DEF d
    <3> QED BY <3>1, <3>3
  <2>3. CASE g = L /\ L \notin 1..n
    <3>1. L = n + 1 /\ r[g] = Append(<<>>, m) /\ d[g] = c /\ d[g + 1] = 0 /\ e[1] = 0
      <4>1. r[g] = Append(<<>>, m) /\ k = n + 1 /\ L = n + 1
        <5>1. k = n + 1 /\ L = n + 1
          BY <2>3, <1>12
        <5>2. r[g] = Append(<<>>, m)
          BY <2>3, <1>3
        <5> QED BY <5>1, <5>2
      <4>2. d[g] = c /\ d[g + 1] = 0
        BY <2>3, <4>1
      <4> HIDE DEF d
      <4> QED BY <4>1, <4>2, <1>1, <1>5
    <3>2. Len(s) \in Nat
      BY LenProperties
    <3>3. Covers(f, <<>>, 0, 0, s)
      BY <3>2, CoversNone
    <3>4. c = 0 + m.size /\ f[m] = Part(s, 0, c)
      BY <3>1
    <3>5. Covers(f, Append(<<>>, m), 0, c, s)
      BY <3>3, <3>4, CoversAppend
    <3> HIDE DEF d
    <3> QED BY <3>1, <3>5
  <2>4. CASE g > L
    <3>1. g \in 1..n /\ g # L
      BY <2>4, <1>12
    <3>2. r[g] = gs[g] /\ d[g] = e[g] /\ d[g + 1] = e[g + 1]
      <4>1. r[g] = gs[g] /\ k \in {n, n + 1}
        BY <3>1, <1>3
      <4>2. d[g] = e[g] /\ d[g + 1] = e[g + 1]
        BY <2>4, <3>1, <4>1, <1>12
      <4> HIDE DEF d
      <4> QED BY <4>1, <4>2
    <3> HIDE DEF d
    <3> QED BY <3>1, <3>2, <1>0 DEF Tiled
  <2> QED BY <2>1, <2>2, <2>3, <2>4, <1>3
<1>7. ASSUME NEW g \in 1..k, NEW i \in 1..Len(r[g]) PROVE r[g][i].level = g - 2
  <2>1. CASE g \in 1..n /\ g # L
    BY <2>1, <1>0, <1>3 DEF Tiled
  <2>2. CASE g = L
    <3>1. PICK q : q = IF L \in 1..n THEN gs[L] ELSE <<>>
      OBVIOUS
    <3>2. q \in Seq(DOMAIN f) /\ r[g] = Append(q, m)
      BY <2>2, <3>1, <1>0, <1>1, <1>3, ElementOfSeq, EmptySeq
    <3>3. \A j \in 1..Len(q) : q[j].level = L - 2
      <4>1. CASE L \in 1..n
        BY <4>1, <3>1, <1>0 DEF Tiled
      <4>2. CASE L \notin 1..n
        BY <4>2, <3>1, EmptySeq
      <4> QED BY <4>1, <4>2
    <3>4. PICK z : z = Len(q)
      OBVIOUS
    <3>5. Len(r[g]) = z + 1 /\ z \in Nat /\ (\A j \in 1..z : r[g][j] = q[j]) /\ r[g][z + 1] = m
      BY <3>2, <3>4, AppendProperties, LenProperties
    <3>6. m.level = L - 2
      BY <1>1
    <3>7. i \in 1..z \/ i = z + 1
      BY <3>5
    <3> QED BY <2>2, <3>3, <3>4, <3>5, <3>6, <3>7
  <2>3. (g \in 1..n /\ g # L) \/ g = L
    BY <1>12
  <2> QED BY <2>1, <2>2, <2>3
<1> HIDE DEF d
<1>8. Tiled(r, s, f, d)
  BY <1>2, <1>3, <1>4, <1>6, <1>7 DEF Tiled
<1> QED BY <1>4, <1>8


BlobShape ==
  /\ up = [pc |-> up.pc, source |-> up.source, cut |-> up.cut, hand |-> up.hand, groups |-> up.groups]
  /\ up.source \in Seq(Nat) /\ up.cut \in 0..Len(up.source)

\* The node in hand is the next one after those in the groups.
HandKept(f, e) ==
  /\ up.pc \in {"cut", "finish"} => e[1] = up.cut
  /\ up.pc = "finish" => up.cut = Len(up.source) /\ Populated # {}
  /\ up.pc = "store" =>
       /\ up.hand \in DOMAIN f /\ up.hand.level + 2 \in 1..Len(up.groups) + 1
       /\ Blank(up.groups, 1, up.hand.level + 2)
       /\ up.cut = e[1] + up.hand.size
       /\ f[up.hand] = Part(up.source, e[1], up.cut)
  /\ up.pc = "stored" => up.hand \in DOMAIN f /\ f[up.hand] = up.source

Stored(f, e) ==
  ready \subseteq DOMAIN f /\ Telling(f) /\ Tiled(up.groups, up.source, f, e) /\ HandKept(f, e)

BlobInv == BlobShape /\ leased \subseteq ready /\ Complete /\ \E f, e : Stored(f, e)

LEMMA BlobInitial == BlobInit => BlobInv
<1> SUFFICES ASSUME BlobInit PROVE BlobInv
  OBVIOUS
<1>1. PICK s \in Sources : up = [pc |-> "cut", source |-> s, cut |-> 0, hand |-> NoNode, groups |-> <<>>]
  BY DEF BlobInit
<1>2. s \in Seq(Nat) /\ Len(s) \in Nat
  BY BlobAssumption, LenProperties DEF BlobAssumption
<1>3. BlobShape
  BY <1>1, <1>2 DEF BlobShape
<1> DEFINE f == [x \in {} |-> <<>>]
           e == [x \in 1..1 |-> 0]
<1>4. ready = {} /\ leased = {} /\ Complete
  BY DEF BlobInit, Complete
<1>5. Telling(f) /\ DOMAIN f = {}
  BY DEF Telling
<1>6. Len(<<>>) = 0 /\ <<>> \in Seq(Seq(DOMAIN f))
  BY EmptySeq
<1>7. e \in [1..0 + 1 -> Nat] /\ e[0 + 1] = 0 /\ e[1] = 0
  OBVIOUS
<1> HIDE DEF f, e
<1>8. Tiled(<<>>, s, f, e)
  <2>1. \A g \in 1..0 : FALSE
    OBVIOUS
  <2> QED BY <1>6, <1>7, <2>1 DEF Tiled
<1>9. HandKept(f, e)
  BY <1>1, <1>7 DEF HandKept
<1>10. Stored(f, e)
  BY <1>1, <1>4, <1>8, <1>9, <1>5 DEF Stored
<1> QED BY <1>3, <1>4, <1>10 DEF BlobInv

LEMMA NextChunkKeeps ==
  ASSUME BlobInv, NextChunk
  PROVE  BlobInv'
<1>1. PICK f, e : Stored(f, e)
  BY DEF BlobInv
<1>2. PICK s, c, end : s = up.source /\ c = up.cut /\ end = Least(c + chunkBytes, Len(s))
  OBVIOUS
<1>3. up.pc = "cut" /\ up' = [up EXCEPT !.cut = end, !.pc = "store", !.hand = Leaf(Part(s, c, end))]
      /\ ready' = ready /\ leased' = leased
  BY <1>2 DEF NextChunk, Part
<1>4. s \in Seq(Nat) /\ c \in 0..Len(s) /\ Len(s) \in Nat
  BY <1>2, LenProperties DEF BlobInv, BlobShape
<1>5. end \in c..Len(s) /\ c \in Nat
  BY <1>2, <1>4, BlobAssumption DEF Least, BlobAssumption
<1>6. PICK t : t = Part(s, c, end)
  OBVIOUS
<1>7. t \in Seq(Nat) /\ Len(t) = end - c
  BY <1>4, <1>5, <1>6, PartOfSeq
<1>8. /\ up'.pc = "store" /\ up'.source = s /\ up'.cut = end /\ up'.hand = Leaf(t) /\ up'.groups = up.groups
      /\ up' = [pc |-> up'.pc, source |-> up'.source, cut |-> up'.cut, hand |-> up'.hand, groups |-> up'.groups]
  BY <1>2, <1>3, <1>6 DEF BlobInv, BlobShape
<1>9. BlobShape'
  BY <1>4, <1>5, <1>8 DEF BlobShape
<1>10. Telling(f) /\ Tiled(up.groups, s, f, e) /\ ready \subseteq DOMAIN f /\ e[1] = c
  BY <1>1, <1>2, <1>3 DEF Stored, HandKept
<1>11. PICK g : Learns(f, g, Leaf(t), t)
  BY <1>7, <1>10, LeafLearnt
<1>12. Leaf(t).level = -1
  BY <1>7, <1>10, LeafLearnt
<1>13. Tiled(up.groups, s, g, e)
  BY <1>10, <1>11, TiledLearns
<1>14. Telling(g) /\ Leaf(t) \in DOMAIN g /\ g[Leaf(t)] = t /\ Leaf(t).size = Len(t) /\ ready \subseteq DOMAIN g
  BY <1>10, <1>11 DEF Learns
<1>15. Leaf(t).level + 2 = 1 /\ Len(up.groups) \in Nat
  BY <1>12, <1>10, LenProperties DEF Tiled
<1>16. Blank(up.groups, 1, 1)
  BY DEF Blank
<1>17. end = c + Leaf(t).size
  BY <1>4, <1>5, <1>7, <1>14
<1>18. HandKept(g, e)'
  <2>1. 1 \in 1..Len(up.groups) + 1
    BY <1>15
  <2> QED BY <2>1, <1>6, <1>8, <1>10, <1>14, <1>15, <1>16, <1>17 DEF HandKept
<1>19. Stored(g, e)'
  BY <1>3, <1>8, <1>13, <1>14, <1>18 DEF Stored
<1>20. Complete'
  BY <1>3 DEF BlobInv, Complete
<1> QED BY <1>3, <1>9, <1>19, <1>20 DEF BlobInv

\* The group L of gs, as an index node, is the next one after the rest r.
NextIndex(gs, L, r, s, f, g, d, e) ==
  /\ Tiled(r, s, g, d) /\ Learns(f, g, Index(gs[L]), Part(s, d[1], e[1]))
  /\ Index(gs[L]).level + 2 = L + 1
  /\ e[1] = d[1] + Index(gs[L]).size
  /\ Blank(r, 1, L + 1) /\ Len(r) = Len(gs) /\ Len(gs) \in Nat

LEMMA IndexInHand ==
  ASSUME NEW gs, NEW s \in Seq(Nat), NEW f, Telling(f), NEW e, Tiled(gs, s, f, e), NEW n, n = Len(gs), NEW L \in 1..n,
         Blank(gs, 1, L), gs[L] # <<>>, NEW r, r = [gs EXCEPT ![L] = <<>>]
  PROVE  \E g, d : NextIndex(gs, L, r, s, f, g, d, e)
<1>0. n \in Nat /\ gs \in Seq(Seq(DOMAIN f)) /\ L \in 1..Len(gs)
  BY LenProperties DEF Tiled
<1>1. Covers(f, gs[L], e[L + 1], e[1], s) /\ e[L + 1] \in Nat /\ e[1] \in Nat
  BY <1>0, LowestCovers
<1>2. PICK q, a, b : q = gs[L] /\ a = e[L + 1] /\ b = e[1]
  OBVIOUS
<1>3. Covers(f, q, a, b, s) /\ a \in Nat /\ b \in Nat /\ q # <<>>
  BY <1>1, <1>2
<1>4. q \in Seq(DOMAIN f) /\ b = a + Total(q) /\ b <= Len(s)
  BY <1>3 DEF Covers
<1>5. Total(q) \in Nat /\ Len(s) \in Nat
  BY <1>4, CoveredSizes, LenProperties
<1>6. a <= Len(s)
  BY <1>3, <1>4, <1>5
<1>7. r = [gs EXCEPT ![L] = <<>>]
  OBVIOUS
<1>8. PICK d : Tiled(r, s, f, d) /\ d[1] = a
  <2>1. e[L + 1] <= Len(s) /\ L \in 1..Len(gs)
    BY <1>0, <1>2, <1>6
  <2>2. Cleared(gs, L, s, f, e)
    BY <2>1, TiledClear
  <2> QED BY <2>2, <1>2, <1>7 DEF Cleared
<1>9. PICK v : v = L - 2
  OBVIOUS
<1>10. v \in Int /\ v >= -1 /\ v + 1 + 2 = L + 1
  BY <1>0, <1>9
<1>11. OfLevel(q, v)
  BY <1>0, <1>2, <1>9 DEF Tiled, OfLevel
<1>18. Indexed(f, q, s, a, b, v)
  BY <1>3, <1>10, <1>11, IndexLearnt
<1>12. PICK g : Learns(f, g, Index(q), Part(s, a, b))
  BY <1>18 DEF Indexed
<1>13. Index(q).level = v + 1
  BY <1>18 DEF Indexed
<1>14. Tiled(r, s, g, d)
  BY <1>8, <1>12, TiledLearns
<1>15. Index(q).size = Total(q)
  BY DEF Index
<1>16. r[L] = <<>> /\ Len(r) = n /\ \A h \in 1..n : h # L => r[h] = gs[h]
  <2>1. <<>> \in Seq(DOMAIN f)
    BY EmptySeq
  <2> QED BY <2>1, <1>0, <1>7, ExceptSeq
<1>17. Blank(r, 1, L + 1)
  <2>1. ASSUME NEW h \in 1..(L + 1) - 1 PROVE r[h] = <<>>
    <3>1. h = L \/ (h \in 1..L - 1 /\ h \in 1..n /\ h # L)
      BY <1>0
    <3> QED BY <3>1, <1>16 DEF Blank
  <2> QED BY <2>1 DEF Blank
<1>19. NextIndex(gs, L, r, s, f, g, d, e)
  BY <1>0, <1>2, <1>4, <1>8, <1>10, <1>12, <1>13, <1>14, <1>15, <1>16, <1>17 DEF NextIndex
<1> QED BY <1>19


\* A step that takes an index over a group in hand.
IndexStep(f, gs, e, L) ==
  /\ BlobShape' /\ Telling(f) /\ Tiled(gs, up.source, f, e) /\ L \in 1..Len(gs) /\ Blank(gs, 1, L) /\ gs[L] # <<>>
  /\ up'.pc = "store" /\ up'.source = up.source /\ up.source \in Seq(Nat) /\ up'.cut = e[1]
  /\ up'.groups = [gs EXCEPT ![L] = <<>>] /\ up'.hand = Index(gs[L])
  /\ ready' \subseteq DOMAIN f /\ leased' \subseteq ready' /\ Complete'

LEMMA IndexKeeps ==
  ASSUME NEW f, NEW gs, NEW e, NEW L, IndexStep(f, gs, e, L)
  PROVE  BlobInv'
<1>1. PICK s, r, n : s = up.source /\ r = up'.groups /\ n = Len(gs)
  OBVIOUS
<1>2. \E g, d : NextIndex(gs, L, r, s, f, g, d, e)
  BY <1>1, IndexInHand DEF IndexStep
<1>3. PICK g, d : NextIndex(gs, L, r, s, f, g, d, e)
  BY <1>2
<1>4. PICK m : m = Index(gs[L])
  OBVIOUS
<1>5. Tiled(r, s, g, d) /\ Learns(f, g, m, Part(s, d[1], e[1])) /\ m.level + 2 = L + 1 /\ e[1] = d[1] + m.size
      /\ Blank(r, 1, L + 1) /\ Len(r) = n /\ n \in Nat
  BY <1>1, <1>3, <1>4 DEF NextIndex
<1>6. Telling(g) /\ DOMAIN f \subseteq DOMAIN g /\ m \in DOMAIN g /\ g[m] = Part(s, d[1], e[1])
  BY <1>5 DEF Learns
<1>7. L + 1 \in 1..Len(r) + 1
  BY <1>1, <1>5 DEF IndexStep
<1>8. HandKept(g, d)'
  BY <1>1, <1>4, <1>5, <1>6, <1>7 DEF HandKept, IndexStep
<1>9. Stored(g, d)'
  BY <1>1, <1>5, <1>6, <1>8 DEF Stored, IndexStep
<1> QED BY <1>9 DEF BlobInv, IndexStep

LEMMA StoreNodeKeeps ==
  ASSUME BlobInv, StoreNode
  PROVE  BlobInv'
<1>1. PICK f, e : Stored(f, e)
  BY DEF BlobInv
<1>2. PICK s, c, m, gs : s = up.source /\ c = up.cut /\ m = up.hand /\ gs = up.groups
  OBVIOUS
<1>3. PICK L : L = m.level + 2
  OBVIOUS
<1>4. up.pc = "store"
  BY DEF StoreNode
<1>5. /\ Telling(f) /\ Tiled(gs, s, f, e) /\ ready \subseteq DOMAIN f
      /\ m \in DOMAIN f /\ L \in 1..Len(gs) + 1 /\ Blank(gs, 1, L) /\ c = e[1] + m.size /\ f[m] = Part(s, e[1], c)
  BY <1>1, <1>2, <1>3, <1>4 DEF Stored, HandKept
<1>6. s \in Seq(Nat) /\ c \in 0..Len(s) /\ Len(s) \in Nat /\ c \in Nat /\ c <= Len(s)
  <2>1. s \in Seq(Nat) /\ c \in 0..Len(s)
    BY <1>2 DEF BlobInv, BlobShape
  <2>2. Len(s) \in Nat
    BY <2>1, LenProperties
  <2> QED BY <2>1, <2>2
<1>7. CASE ~CanStore(m)
  <2>1. up' = [up EXCEPT !.pc = "failed"] /\ ready' = ready /\ leased' = leased
    BY <1>2, <1>7 DEF StoreNode
  <2>2. /\ up'.pc = "failed" /\ up'.source = s /\ up'.cut = c /\ up'.hand = m /\ up'.groups = gs
        /\ up' = [pc |-> up'.pc, source |-> up'.source, cut |-> up'.cut, hand |-> up'.hand, groups |-> up'.groups]
    BY <1>2, <2>1 DEF BlobInv, BlobShape
  <2>3. BlobShape'
    BY <1>6, <2>2 DEF BlobShape
  <2>4. Stored(f, e)'
    BY <1>5, <2>1, <2>2 DEF Stored, HandKept
  <2>5. Complete' /\ leased' \subseteq ready'
    BY <2>1 DEF BlobInv, Complete
  <2> QED BY <2>3, <2>4, <2>5 DEF BlobInv
<1>8. CASE CanStore(m)
  <2>1. PICK r : r = Appended(m)
    OBVIOUS
  <2>2. Longer(gs, m, L, r)
    BY <1>2, <1>3, <2>1 DEF Appended, Longer
  <2>3. /\ ready' = ready \cup {m} /\ leased' = leased \cup {m}
        /\ up' = IF Len(r[L]) = indexFanout
                 THEN [up EXCEPT !.groups = [r EXCEPT ![L] = <<>>], !.hand = Index(r[L])]
                 ELSE [up EXCEPT !.groups = r, !.hand = NoNode,
                                 !.pc = IF up.cut < Len(up.source) THEN "cut" ELSE "finish"]
    BY <1>2, <1>3, <1>8, <2>1 DEF StoreNode
  <2>4. leased' \subseteq ready' /\ ready' \subseteq DOMAIN f
    BY <2>3, <1>5 DEF BlobInv
  <2>5. Complete'
    BY <2>3, <1>8 DEF BlobInv, Complete, CanStore
  <2>6. PICK n : n = Len(gs)
    OBVIOUS
  <2>7. n \in Nat /\ gs \in Seq(Seq(DOMAIN f)) /\ L \in 1..n + 1
    BY <1>5, <2>6, LenProperties DEF Tiled
  <2>8. LongerBy(gs, m, n, L, r, DOMAIN f)
    <3>1. PICK D : D = DOMAIN f
      OBVIOUS
    <3>2. LongerBy(gs, m, n, L, r, D)
      BY <3>1, <2>2, <2>6, <2>7, <1>5, LongerIs
    <3> QED BY <3>1, <3>2
  <2>9. \E d : Tiled(r, s, f, d) /\ d[1] = c
    BY <1>3, <1>5, <1>6, <2>2, TiledAppend
  <2>10. PICK d : Tiled(r, s, f, d) /\ d[1] = c
    BY <2>9
  <2>11. L \in 1..Len(r) /\ r[L] # <<>> /\ r \in Seq(Seq(DOMAIN f)) /\ \A h \in 1..n : h # L => r[h] = gs[h]
    BY <2>8 DEF LongerBy
  <2>12. Blank(r, 1, L)
    <3>1. ASSUME NEW h \in 1..L - 1 PROVE r[h] = <<>>
      <4>1. h \in 1..n /\ h # L
        BY <2>7
      <4> QED BY <4>1, <2>11, <1>5 DEF Blank
    <3> QED BY <3>1 DEF Blank
  <2>13. CASE Len(r[L]) = indexFanout
    <3>1. up' = [up EXCEPT !.groups = [r EXCEPT ![L] = <<>>], !.hand = Index(r[L])]
      BY <2>3, <2>13
    <3>2. /\ up'.pc = "store" /\ up'.source = s /\ up'.cut = c /\ up'.hand = Index(r[L]) /\ up'.groups = [r EXCEPT ![L] = <<>>]
          /\ up' = [pc |-> up'.pc, source |-> up'.source, cut |-> up'.cut, hand |-> up'.hand, groups |-> up'.groups]
      BY <1>2, <1>4, <3>1 DEF BlobInv, BlobShape
    <3>3. BlobShape'
      BY <1>6, <3>2 DEF BlobShape
    <3>4. up.source \in Seq(Nat) /\ Tiled(r, up.source, f, d) /\ up'.source = up.source /\ up'.cut = d[1]
      BY <1>2, <1>6, <2>10, <3>2
    <3>5. IndexStep(f, r, d, L)
      BY <1>5, <2>4, <2>5, <2>11, <2>12, <3>2, <3>3, <3>4 DEF IndexStep
    <3> QED BY <3>5, IndexKeeps
  <2>14. CASE Len(r[L]) # indexFanout
    <3>1. up' = [up EXCEPT !.groups = r, !.hand = NoNode,
                           !.pc = IF c < Len(s) THEN "cut" ELSE "finish"]
      BY <1>2, <2>3, <2>14
    <3>2. /\ up'.pc = (IF c < Len(s) THEN "cut" ELSE "finish") /\ up'.source = s /\ up'.cut = c /\ up'.groups = r
          /\ up' = [pc |-> up'.pc, source |-> up'.source, cut |-> up'.cut, hand |-> up'.hand, groups |-> up'.groups]
      BY <1>2, <3>1 DEF BlobInv, BlobShape
    <3>3. BlobShape'
      BY <1>6, <3>2 DEF BlobShape
    <3>4. Populated' # {}
      <4>1. DOMAIN r = 1..Len(r)
        BY <2>11, LenProperties
      <4>2. L \in Populated'
        BY <4>1, <2>11, <3>2 DEF Populated
      <4> QED BY <4>2
    <3>5. up'.pc = "finish" => c = Len(s)
      BY <1>6, <3>2
    <3>6. HandKept(f, d)'
      BY <2>10, <3>2, <3>4, <3>5 DEF HandKept
    <3>7. Stored(f, d)'
      BY <1>5, <2>4, <2>10, <3>2, <3>6 DEF Stored
    <3> QED BY <2>4, <2>5, <3>3, <3>7 DEF BlobInv
  <2> QED BY <2>13, <2>14
<1> QED BY <1>7, <1>8


LEMMA LowestIs ==
  ASSUME BlobShape, NEW D, up.groups \in Seq(Seq(D)), Populated # {}
  PROVE  /\ LowestGroup \in 1..Len(up.groups) /\ up.groups[LowestGroup] # <<>>
         /\ Blank(up.groups, 1, LowestGroup)
<1>1. DOMAIN up.groups = 1..Len(up.groups) /\ Len(up.groups) \in Nat
  BY LenProperties
<1>2. Populated \in SUBSET Nat
  BY <1>1 DEF Populated
<1>3. \E g \in Populated : \A h \in Populated : g <= h
  BY <1>2, LeastMember
<1>4. PICK g : g = LowestGroup
  OBVIOUS
<1>5. g \in Populated /\ \A h \in Populated : g <= h
  BY <1>3, <1>4 DEF LowestGroup
<1>6. g \in 1..Len(up.groups) /\ up.groups[g] # <<>>
  BY <1>1, <1>5 DEF Populated
<1>7. ASSUME NEW h \in 1..g - 1 PROVE up.groups[h] = <<>>
  <2>1. h \in 1..Len(up.groups) /\ ~(g <= h)
    BY <1>1, <1>6
  <2>2. h \notin Populated
    BY <2>1, <1>5
  <2> QED BY <2>1, <2>2, <1>1 DEF Populated
<1> QED BY <1>4, <1>6, <1>7 DEF Blank

LEMMA FinishTreeKeeps ==
  ASSUME BlobInv, FinishTree
  PROVE  BlobInv'
<1>1. PICK f, e : Stored(f, e)
  BY DEF BlobInv
<1>2. PICK s, c, gs : s = up.source /\ c = up.cut /\ gs = up.groups
  OBVIOUS
<1>3. PICK L : L = LowestGroup
  OBVIOUS
<1>4. up.pc = "finish" /\ ready' = ready /\ leased' = leased
      /\ up' = IF Cardinality(Populated) = 1 /\ Len(gs[L]) = 1
               THEN [up EXCEPT !.pc = "stored", !.hand = gs[L][1]]
               ELSE [up EXCEPT !.pc = "store", !.hand = Index(gs[L]), !.groups = [gs EXCEPT ![L] = <<>>]]
  BY <1>2, <1>3 DEF FinishTree
<1>5. Telling(f) /\ Tiled(gs, s, f, e) /\ ready \subseteq DOMAIN f /\ e[1] = c /\ c = Len(s) /\ Populated # {}
  BY <1>1, <1>2, <1>4 DEF Stored, HandKept
<1>6. s \in Seq(Nat) /\ c \in 0..Len(s) /\ Len(s) \in Nat /\ c \in Nat
  <2>1. s \in Seq(Nat) /\ c \in 0..Len(s)
    BY <1>2 DEF BlobInv, BlobShape
  <2>2. Len(s) \in Nat
    BY <2>1, LenProperties
  <2> QED BY <2>1, <2>2
<1>7. gs \in Seq(Seq(DOMAIN f))
  BY <1>5 DEF Tiled
<1>8. L \in 1..Len(gs) /\ gs[L] # <<>> /\ Blank(gs, 1, L)
  <2>1. PICK D : D = DOMAIN f
    OBVIOUS
  <2>2. up.groups \in Seq(Seq(D)) /\ BlobShape
    BY <1>2, <1>7, <2>1 DEF BlobInv
  <2> QED BY <1>2, <1>3, <1>5, <2>2, LowestIs
<1>9. Complete' /\ leased' \subseteq ready' /\ ready' \subseteq DOMAIN f
  BY <1>4, <1>5 DEF BlobInv, Complete
<1>10. CASE Cardinality(Populated) = 1 /\ Len(gs[L]) = 1
  <2>1. up' = [up EXCEPT !.pc = "stored", !.hand = gs[L][1]]
    BY <1>4, <1>10
  <2>2. /\ up'.pc = "stored" /\ up'.source = s /\ up'.cut = c /\ up'.groups = gs /\ up'.hand = gs[L][1]
        /\ up' = [pc |-> up'.pc, source |-> up'.source, cut |-> up'.cut, hand |-> up'.hand, groups |-> up'.groups]
    BY <1>2, <2>1 DEF BlobInv, BlobShape
  <2>3. BlobShape'
    BY <1>6, <2>2 DEF BlobShape
  <2>4. PICK n : n = Len(gs)
    OBVIOUS
  <2>5. n \in Nat /\ DOMAIN gs = 1..n /\ L \in 1..n
    BY <1>7, <1>8, <2>4, LenProperties
  <2>6. \A h \in 1..n : h # L => gs[h] = <<>>
    <3>1. IsFiniteSet(Populated)
      <4>1. IsFiniteSet(1..n)
        <5>1. 1 \in Int /\ n \in Int
          BY <2>5
        <5> QED BY <5>1, FS_Interval
      <4>2. Populated \subseteq 1..n
        BY <1>2, <2>5 DEF Populated
      <4> QED BY <4>1, <4>2, FS_Subset
    <3>2. PICK x : Populated = {x}
      BY <3>1, <1>10, FS_Singleton
    <3>3. L \in Populated
      BY <1>2, <1>8, <2>5 DEF Populated
    <3>4. ASSUME NEW h \in 1..n, h # L PROVE gs[h] = <<>>
      <4>1. h \notin Populated
        BY <3>2, <3>3, <3>4
      <4> QED BY <4>1, <1>2, <2>5 DEF Populated
    <3> QED BY <3>4
  <2>7. e[L + 1] = 0
    <3>1. PICK x, y : x = L + 1 /\ y = n + 1
      OBVIOUS
    <3>2. x \in 1..n + 1 /\ y \in x..n + 1
      BY <3>1, <2>5
    <3>3. Blank(gs, x, y)
      <4>1. ASSUME NEW h \in x..y - 1 PROVE gs[h] = <<>>
        <5>1. h \in 1..n /\ h # L
          BY <3>1, <2>5
        <5> QED BY <5>1, <2>6
      <4> QED BY <4>1 DEF Blank
    <3>6. EmptyRun(gs, s, f, e, n, x, y)
      BY <3>2, <3>3, <2>4, <1>5 DEF EmptyRun
    <3>4. e[x] = e[y]
      BY <3>6, EmptyGroups
    <3>5. e[n + 1] = 0
      BY <1>5, <2>4 DEF Tiled
    <3> QED BY <3>1, <3>4, <3>5
  <2>8. Covers(f, gs[L], e[L + 1], e[1], s)
    BY <1>5, <1>8, LowestCovers
  <2>9. PICK q, m : q = gs[L] /\ m = gs[L][1]
    OBVIOUS
  <2>10. Covers(f, q, 0, c, s) /\ Len(q) = 1 /\ m = q[1]
    BY <1>5, <1>10, <2>7, <2>8, <2>9
  <2>11. PICK d : d = Ends(q)
    OBVIOUS
  <2>12. /\ q \in Seq(DOMAIN f) /\ c = 0 + d[1]
         /\ \A i \in 1..1 : f[q[i]] = Part(s, 0 + d[i - 1], 0 + d[i])
    BY <2>10, <2>11 DEF Covers, Total
  <2>13. m \in DOMAIN f /\ d[0] = 0 /\ d[1] \in Nat
    <3>1. Len(q) = 1 /\ Adds(d, q, Len(q)) /\ \A i \in 1..Len(q) : q[i] \in DOMAIN f
      BY <1>5, <2>10, <2>11, <2>12, CoveredSizes
    <3>2. Adds(d, q, 1) /\ 1 \in 1..1
      BY <3>1
    <3> QED BY <3>1, <3>2, <2>10 DEF Adds
  <2>14. f[m] = Part(s, 0, c)
    <3>1. f[q[1]] = Part(s, 0 + d[1 - 1], 0 + d[1])
      BY <2>12
    <3>2. 0 + d[1 - 1] = 0 /\ 0 + d[1] = c
      BY <2>12, <2>13
    <3> QED BY <3>1, <3>2, <2>10
  <2>15. f[m] = s
    BY <2>14, <1>5, <1>6, PartIsAll
  <2>16. HandKept(f, e)'
    BY <2>2, <2>9, <2>13, <2>15 DEF HandKept
  <2>17. Stored(f, e)'
    BY <1>5, <1>9, <2>2, <2>16 DEF Stored
  <2> QED BY <1>9, <2>3, <2>17 DEF BlobInv
<1>11. CASE ~(Cardinality(Populated) = 1 /\ Len(gs[L]) = 1)
  <2>1. up' = [up EXCEPT !.pc = "store", !.hand = Index(gs[L]), !.groups = [gs EXCEPT ![L] = <<>>]]
    BY <1>4, <1>11
  <2>2. /\ up'.pc = "store" /\ up'.source = s /\ up'.cut = c /\ up'.groups = [gs EXCEPT ![L] = <<>>] /\ up'.hand = Index(gs[L])
        /\ up' = [pc |-> up'.pc, source |-> up'.source, cut |-> up'.cut, hand |-> up'.hand, groups |-> up'.groups]
    BY <1>2, <2>1 DEF BlobInv, BlobShape
  <2>3. BlobShape'
    BY <1>6, <2>2 DEF BlobShape
  <2>4. IndexStep(f, gs, e, L)
    BY <1>2, <1>5, <1>6, <1>8, <1>9, <2>2, <2>3 DEF IndexStep
  <2> QED BY <2>4, IndexKeeps
<1> QED BY <1>10, <1>11

\* The store may drop leases and nodes that no ready node has for a child.
LEMMA StoreKeeps ==
  ASSUME BlobInv, UNCHANGED up, ready' \subseteq ready, leased' \subseteq ready', Complete'
  PROVE  BlobInv'
<1>1. PICK f, e : Stored(f, e)
  BY DEF BlobInv
<1>2. BlobShape'
  BY DEF BlobInv, BlobShape
<1>3. HandKept(f, e)'
  BY <1>1 DEF Stored, HandKept, Populated
<1>4. Stored(f, e)'
  BY <1>1, <1>3 DEF Stored
<1> QED BY <1>2, <1>4 DEF BlobInv

LEMMA ExpireLeaseKeeps ==
  ASSUME BlobInv, NEW n, ExpireLease(n)
  PROVE  BlobInv'
<1>1. up' = up /\ ready' = ready /\ leased' \subseteq leased
  BY DEF ExpireLease
<1>2. Complete' /\ leased' \subseteq ready'
  BY <1>1 DEF BlobInv, Complete
<1> QED BY <1>1, <1>2, StoreKeeps

LEMMA CollectNodeKeeps ==
  ASSUME BlobInv, NEW n, CollectNode(n)
  PROVE  BlobInv'
<1>1. up' = up /\ ready' = ready \ {n} /\ leased' = leased /\ n \notin leased
      /\ \A p \in ready : ~\E i \in DOMAIN p.kids : p.kids[i] = n
  BY DEF CollectNode
<1>2. Complete' /\ leased' \subseteq ready' /\ ready' \subseteq ready
  BY <1>1 DEF BlobInv, Complete
<1> QED BY <1>1, <1>2, StoreKeeps

LEMMA BlobUnchanged ==
  ASSUME BlobInv, UNCHANGED blobVars
  PROVE  BlobInv'
<1>1. up' = up /\ ready' = ready /\ leased' = leased
  BY DEF blobVars
<1>2. Complete' /\ leased' \subseteq ready'
  BY <1>1 DEF BlobInv, Complete
<1> QED BY <1>1, <1>2, StoreKeeps

LEMMA StoredBlobReads ==
  ASSUME BlobInv
  PROVE  BlobReadsBack
<1> SUFFICES ASSUME up.pc = "stored", up.hand \in leased, NEW o \in 0..Len(up.source), NEW l \in 0..(Len(up.source) - o)
             PROVE  ReadRange(up.hand, o, l) = SubSeq(up.source, o + 1, o + l)
  BY DEF BlobReadsBack
<1>1. PICK f, e : Stored(f, e)
  BY DEF BlobInv
<1>2. PICK m, s : m = up.hand /\ s = up.source
  OBVIOUS
<1>3. m \in ready /\ Telling(f) /\ ready \subseteq DOMAIN f /\ Complete /\ f[m] = s /\ s \in Seq(Nat)
  BY <1>1, <1>2 DEF BlobInv, BlobShape, Stored, HandKept
<1>4. m.size = Len(s) /\ Len(s) \in Nat
  <2>1. m \in DOMAIN f
    BY <1>3
  <2>2. m.size = Len(f[m])
    BY <1>3, <2>1 DEF Telling
  <2> QED BY <1>3, <2>2, LenProperties
<1>5. o \in Nat /\ l \in Nat /\ o + l <= m.size
  BY <1>2, <1>4
<1>6. ReadRange(m, o, l) = Part(f[m], o, o + l)
  BY <1>3, <1>5, RangeRead
<1> QED BY <1>2, <1>3, <1>6 DEF Part

LEMMA UploadKeeps ==
  ASSUME BlobInv, [Next]_vars
  PROVE  BlobInv'
<1>1. CASE UNCHANGED blobVars
  BY <1>1, BlobUnchanged
<1>2. CASE Upload
  BY <1>2, NextChunkKeeps, StoreNodeKeeps, FinishTreeKeeps, ExpireLeaseKeeps, CollectNodeKeeps DEF Upload
<1> QED BY <1>1, <1>2 DEF Next, vars

\* A blob reads back as it was written: the nodes under its root hold the
\* source piece by piece, stay ready as long as the root is leased, and
\* readRangeNode puts any range of them together, for any source, chunk size
\* and fan-out.
THEOREM BlobsReadBack == Spec => []BlobReadsBack
<1>1. Init => BlobInv
  BY BlobInitial DEF Init
<1>2. BlobInv /\ [Next]_vars => BlobInv'
  BY UploadKeeps
<1>3. BlobInv => BlobReadsBack
  BY StoredBlobReads
<1> QED BY <1>1, <1>2, <1>3, PTL DEF Spec

=============================================================================
