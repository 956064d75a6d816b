------------------------ MODULE EmailChallengeProofs ------------------------
(* Theorems about EmailChallenge, for any number of requests, challenges and sends. *)
EXTENDS EmailChallenge, FiniteSetTheorems, WellFoundedInduction, TLAPS

(* Ids are given out in order, so a row that was deleted never comes back. *)
FreshIds == \A c \in Ids : c > issued => challenges[c] = NoRow

(* The code of a row is the one of its latest send. *)
CodeIsSend == \A c \in Ids : Live(c) => challenges[c].code = challenges[c].sends

(* What a request read of a row still admitted the write that follows. *)
SeenAdmits ==
  \A r \in Requests :
    /\ req[r].pc = "verifyWrite" => req[r].seen.attempts < MaxAttempts
    /\ req[r].pc = "resendWrite" => /\ req[r].seen.code = req[r].seen.sends
                                    /\ req[r].seen.sends < MaxSends

(* Evidence exists only of a challenge that is verified, or gone for good. *)
Spent(c) == c <= issued /\ (Live(c) => challenges[c].verifiedBy # WrongCode)

EvidenceSpent ==
  /\ \A r \in Requests : req[r].pc = "authorize" => Spent(req[r].ch)
  /\ \A e \in evidence : Spent(e.ch)

IInv ==
  /\ TypeOK /\ VerifiedByLatestCode /\ EvidenceOnce /\ ConsumedWithInvitation
  /\ FreshIds /\ CodeIsSend /\ SeenAdmits /\ EvidenceSpent

----------------------------------------------------------------------------

(* A request that has reached a call holds the record of that call. *)
LEMMA RequestShape ==
  ASSUME NEW q \in RequestState
  PROVE  /\ q.pc = "create" => q \in [pc : {"create"}, now : Nat]
         /\ q.pc \in {"store", "send", "invalidate"} =>
              q \in [pc : {"store", "send", "invalidate"}, ch : Ids,
                     secret : 1 .. MaxSends, old : SUBSET Session]
         /\ q.pc = "verifyRead" =>
              q \in [pc : {"verifyRead"}, ch : Ids, now : Nat, session : Session,
                     hash : 0 .. MaxSends]
         /\ q.pc = "verifyWrite" =>
              q \in [pc : {"verifyWrite"}, ch : Ids, now : Nat, session : Session,
                     hash : 0 .. MaxSends, seen : Row]
         /\ q.pc = "authorize" =>
              q \in [pc : {"authorize"}, ch : Ids, session : Session, exp : Nat]
         /\ q.pc = "resendRead" =>
              q \in [pc : {"resendRead"}, ch : Ids, now : Nat, session : Session]
         /\ q.pc = "resendWrite" =>
              q \in [pc : {"resendWrite"}, ch : Ids, now : Nat, session : Session,
                     seen : Row]
         /\ q.pc = "accept" => q \in [pc : {"accept"}, evidence : Evidence, now : Nat]
BY DEF RequestState, Idle

(* A row in the table has all its columns. *)
LEMMA LiveRow ==
  ASSUME TypeOK, NEW c \in Ids, Live(c)
  PROVE  challenges[c] \in Row
BY DEF TypeOK, Live

(* Evidence names challenges of the model. *)
LEMMA EvidenceIds ==
  ASSUME TypeOK
  PROVE  /\ \A e \in evidence : e.ch \in Ids
         /\ \A t \in Requests : req[t].pc = "authorize" => req[t].ch \in Ids
BY RequestShape DEF TypeOK, Evidence

(* Rows and the missing row are told apart by the code. *)
LEMMA RowNotMissing == \A row \in Row : row # NoRow
BY DEF Row, NoRow

THEOREM InitIInv == Init => IInv
BY BoundsAssumption DEF Init, IInv, TypeOK, VerifiedByLatestCode, EvidenceOnce,
   ConsumedWithInvitation, FreshIds, CodeIsSend, SeenAdmits, EvidenceSpent, Live, NoRow,
   Idle, RequestState, Ids

(* A step that only moves a request to a state without evidence and without a view of
   a row, and perhaps drops or adds sessions, preserves the invariant. *)
LEMMA QuietStep ==
  ASSUME IInv, NEW r \in Requests, NEW q \in RequestState,
         q.pc \notin {"authorize", "verifyWrite", "resendWrite"},
         req' = [req EXCEPT ![r] = q],
         UNCHANGED <<clock, issued, challenges, evidence, invitation>>,
         sessions' \subseteq Session
  PROVE  IInv'
<1>1. TypeOK'
  BY DEF IInv, TypeOK
<1>2. \A t \in Requests : req'[t] = IF t = r THEN q ELSE req[t]
  BY DEF IInv, TypeOK
<1>3. VerifiedByLatestCode' /\ ConsumedWithInvitation' /\ FreshIds' /\ CodeIsSend'
  BY DEF IInv, VerifiedByLatestCode, ConsumedWithInvitation, FreshIds, CodeIsSend, Live
<1>4. EvidenceOnce'
  BY <1>2 DEF IInv, EvidenceOnce
<1>5. SeenAdmits'
  BY <1>2 DEF IInv, SeenAdmits
<1>6. EvidenceSpent'
  BY <1>2 DEF IInv, EvidenceSpent, Spent, Live
<1> QED BY <1>1, <1>3, <1>4, <1>5, <1>6 DEF IInv

(* A step that leaves the requests and the evidence alone preserves the invariant when
   it only deletes rows, revokes the invitation, drops sessions or lets time pass. *)
LEMMA BackgroundStep ==
  ASSUME IInv,
         UNCHANGED <<issued, evidence, req>>,
         clock' \in Nat, sessions' \subseteq Session,
         challenges' \in [Ids -> Row \cup {NoRow}],
         \A c \in Ids : challenges'[c] \in {challenges[c], NoRow},
         invitation' \in {"pending", "accepted", "revoked"},
         invitation = "accepted" => invitation' = "accepted"
  PROVE  IInv'
<1>1. TypeOK'
  BY DEF IInv, TypeOK
<1>2. VerifiedByLatestCode' /\ ConsumedWithInvitation' /\ FreshIds' /\ CodeIsSend'
  BY DEF IInv, VerifiedByLatestCode, ConsumedWithInvitation, FreshIds, CodeIsSend, Live
<1>3. EvidenceOnce' /\ SeenAdmits'
  BY DEF IInv, EvidenceOnce, SeenAdmits
<1>4. EvidenceSpent'
  <2>1. \A c \in Ids : Spent(c) => Spent(c)'
    BY DEF Spent, Live
  <2> QED BY <2>1, EvidenceIds DEF IInv, EvidenceSpent
<1> QED BY <1>1, <1>2, <1>3, <1>4 DEF IInv

(* The batch of create adds a row under an id never used before. *)
LEMMA CreateStep ==
  ASSUME IInv, NEW r \in Requests, Create(r)
  PROVE  IInv'
<1> DEFINE now == req[r].now
           kept == [c \in Ids |-> IF Live(c) /\ challenges[c].exp <= now - Retention
                                  THEN NoRow ELSE challenges[c]]
           new == [code |-> 1, exp |-> now + Ttl, attempts |-> 0, sends |-> 1, last |-> now,
                   verifiedBy |-> WrongCode, consumed |-> FALSE, invalidated |-> FALSE]
           store == [pc |-> "store", ch |-> issued + 1, secret |-> 1, old |-> {}]
<1> USE BoundsAssumption
<1>1. /\ req[r] \in [pc : {"create"}, now : Nat]
      /\ req \in [Requests -> RequestState] /\ issued \in Nat
      /\ issued + 1 \in Ids
  BY RequestShape DEF Create, IInv, TypeOK, Ids
<1>2. kept \in [Ids -> Row \cup {NoRow}]
  BY DEF IInv, TypeOK
<1>3. new \in Row /\ new # NoRow
  BY <1>1 DEF Row, NoRow, WrongCode
<1>4. store \in RequestState /\ Idle \in RequestState
  <2>1. store \in [pc : {"store", "send", "invalidate"}, ch : Ids, secret : 1 .. MaxSends,
                    old : SUBSET Session]
    BY <1>1
  <2> QED BY <2>1 DEF RequestState
<1> HIDE DEF new, store
<1>5. CASE challenges' = kept /\ Become(r, Idle) /\ UNCHANGED <<issued, sent>>
  <2>1. UNCHANGED <<clock, sessions, evidence, invitation>>
    BY DEF Create
  <2>2. \A t \in Requests : req'[t] = IF t = r THEN Idle ELSE req[t]
    BY <1>1, <1>5 DEF Become
  <2>3. TypeOK'
    BY <1>2, <1>4, <1>5, <2>1 DEF Become, IInv, TypeOK
  <2>4. VerifiedByLatestCode' /\ ConsumedWithInvitation' /\ FreshIds' /\ CodeIsSend'
    BY <1>5, <2>1 DEF IInv, VerifiedByLatestCode, ConsumedWithInvitation, FreshIds,
       CodeIsSend, Live
  <2>5. EvidenceOnce' /\ SeenAdmits'
    BY <2>1, <2>2 DEF Idle, IInv, EvidenceOnce, SeenAdmits
  <2>6. EvidenceSpent'
    <3>1. \A c \in Ids : Spent(c) => Spent(c)'
      BY <1>5 DEF Spent, Live
    <3> QED BY <2>1, <2>2, <3>1, EvidenceIds DEF Idle, IInv, EvidenceSpent
  <2> QED BY <2>3, <2>4, <2>5, <2>6 DEF IInv
<1>6. CASE /\ issued' = issued + 1
           /\ challenges' = [kept EXCEPT ![issued + 1] = new]
           /\ Become(r, store)
  <2>1. UNCHANGED <<clock, sessions, evidence, invitation>> /\ issued < MaxChallenges
    BY DEF Create
  <2>2. \A t \in Requests : req'[t] = IF t = r THEN store ELSE req[t]
    BY <1>1, <1>6 DEF Become
  <2>3. TypeOK'
    BY <1>1, <1>2, <1>3, <1>4, <1>6, <2>1 DEF Become, IInv, TypeOK
  <2>4. \A c \in Ids : challenges'[c] = IF c = issued + 1 THEN new ELSE kept[c]
    BY <1>1, <1>2, <1>6
  <2>5. challenges[issued + 1] = NoRow
    BY <1>1 DEF IInv, FreshIds
  <2>6. /\ VerifiedByLatestCode' /\ ConsumedWithInvitation' /\ FreshIds' /\ CodeIsSend'
    <3>1. new.code = 1 /\ new.sends = 1 /\ new.verifiedBy = WrongCode /\ ~new.consumed
      BY DEF new
    <3>2. VerifiedByLatestCode' /\ ConsumedWithInvitation' /\ CodeIsSend'
      BY <2>1, <2>4, <3>1 DEF IInv, VerifiedByLatestCode, ConsumedWithInvitation,
         CodeIsSend, Live
    <3>3. FreshIds'
      BY <1>1, <1>6, <2>4 DEF IInv, FreshIds, Ids
    <3> QED BY <3>2, <3>3
  <2>7. EvidenceOnce' /\ SeenAdmits'
    BY <2>1, <2>2 DEF store, IInv, EvidenceOnce, SeenAdmits
  <2>8. EvidenceSpent'
    <3>1. \A c \in Ids : Spent(c) => Spent(c)'
      BY <1>1, <1>6, <2>4 DEF Spent, Live, Ids
    <3> QED BY <2>1, <2>2, <3>1, EvidenceIds DEF store, IInv, EvidenceSpent
  <2> QED BY <2>3, <2>6, <2>7, <2>8 DEF IInv
<1> QED BY <1>5, <1>6 DEF Create, new, store

(* Invalidation changes no column the invariant is about. *)
LEMMA InvalidateStep ==
  ASSUME IInv, NEW r \in Requests, Invalidate(r)
  PROVE  IInv'
<1>1. /\ req[r].ch \in Ids /\ req \in [Requests -> RequestState]
      /\ challenges \in [Ids -> Row \cup {NoRow}]
  BY RequestShape DEF Invalidate, IInv, TypeOK
<1>2. Idle \in RequestState
  BY DEF RequestState
<1>3. \A t \in Requests : req'[t] = IF t = r THEN Idle ELSE req[t]
  BY <1>1 DEF Invalidate, Become
<1>4. UNCHANGED <<clock, issued, evidence, invitation>>
  BY DEF Invalidate
<1>5. \A c \in Ids :
        \/ challenges'[c] = challenges[c]
        \/ /\ challenges[c] \in Row
           /\ challenges'[c] = [challenges[c] EXCEPT !.invalidated = TRUE]
  BY <1>1 DEF Invalidate, Live
<1>6. \A row \in Row : LET d == [row EXCEPT !.invalidated = TRUE]
                       IN /\ d \in Row /\ d.code = row.code /\ d.sends = row.sends
                          /\ d.verifiedBy = row.verifiedBy /\ d.consumed = row.consumed
  BY DEF Row
<1>7. /\ challenges' \in [Ids -> Row \cup {NoRow}]
      /\ \A c \in Ids : /\ Live(c)' <=> Live(c)
                        /\ Live(c) => /\ challenges'[c].code = challenges[c].code
                                      /\ challenges'[c].sends = challenges[c].sends
                                      /\ challenges'[c].verifiedBy = challenges[c].verifiedBy
                                      /\ challenges'[c].consumed = challenges[c].consumed
  <2>1. \A c \in Ids : challenges'[c] \in Row \cup {NoRow}
    BY <1>1, <1>5, <1>6
  <2>2. challenges' \in [Ids -> Row \cup {NoRow}]
    BY <1>1, <2>1 DEF Invalidate
  <2> QED BY <1>5, <1>6, <2>2, RowNotMissing DEF Live
<1>8. TypeOK'
  BY <1>2, <1>4, <1>7 DEF Invalidate, Become, IInv, TypeOK
<1>9. VerifiedByLatestCode' /\ ConsumedWithInvitation' /\ FreshIds' /\ CodeIsSend'
  BY <1>4, <1>7 DEF IInv, VerifiedByLatestCode, ConsumedWithInvitation, FreshIds, CodeIsSend,
     Live
<1>10. EvidenceOnce' /\ SeenAdmits'
  BY <1>3, <1>4 DEF Idle, IInv, EvidenceOnce, SeenAdmits
<1>11. EvidenceSpent'
  <2>1. \A c \in Ids : Spent(c) => Spent(c)'
    BY <1>4, <1>7 DEF Spent
  <2> QED BY <1>3, <1>4, <2>1, EvidenceIds DEF Idle, IInv, EvidenceSpent
<1> QED BY <1>8, <1>9, <1>10, <1>11 DEF IInv

(* The read of a verification keeps a row that admits the write. *)
LEMMA VerifyReadStep ==
  ASSUME IInv, NEW r \in Requests, VerifyRead(r)
  PROVE  IInv'
<1> DEFINE c == req[r].ch
           q == [pc |-> "verifyWrite", ch |-> c, now |-> req[r].now,
                 session |-> req[r].session, hash |-> req[r].hash, seen |-> challenges[c]]
<1>1. /\ req[r] \in [pc : {"verifyRead"}, ch : Ids, now : Nat, session : Session,
                      hash : 0 .. MaxSends]
      /\ req \in [Requests -> RequestState]
  BY RequestShape DEF VerifyRead, IInv, TypeOK
<1>2. UNCHANGED <<clock, issued, challenges, evidence, invitation, sessions>>
  BY DEF VerifyRead
<1>3. CASE ~Answerable(c, req[r].now)
  <2>1. Idle \in RequestState /\ Idle.pc = "idle" /\ req' = [req EXCEPT ![r] = Idle]
    BY <1>3 DEF RequestState, Idle, VerifyRead, Become
  <2> QED BY <1>2, <2>1, QuietStep DEF IInv, TypeOK
<1>4. CASE Answerable(c, req[r].now)
  <2>1. challenges[c] \in Row /\ challenges[c].attempts < MaxAttempts
    BY <1>1, <1>4, LiveRow DEF Answerable, IInv
  <2>2. q \in RequestState
    <3>1. q \in [pc : {"verifyWrite"}, ch : Ids, now : Nat, session : Session,
                  hash : 0 .. MaxSends, seen : Row]
      BY <1>1, <2>1
    <3> QED BY <3>1 DEF RequestState
  <2>3. req' = [req EXCEPT ![r] = q]
    BY <1>4 DEF VerifyRead, Become
  <2>4. \A t \in Requests : req'[t] = IF t = r THEN q ELSE req[t]
    BY <1>1, <2>3
  <2>5. TypeOK'
    BY <1>2, <2>2, <2>3 DEF IInv, TypeOK
  <2>6. VerifiedByLatestCode' /\ ConsumedWithInvitation' /\ FreshIds' /\ CodeIsSend'
    BY <1>2 DEF IInv, VerifiedByLatestCode, ConsumedWithInvitation, FreshIds, CodeIsSend, Live
  <2>7. EvidenceOnce' /\ SeenAdmits'
    BY <1>2, <2>1, <2>4 DEF IInv, EvidenceOnce, SeenAdmits
  <2>8. EvidenceSpent'
    BY <1>2, <2>4 DEF IInv, EvidenceSpent, Spent, Live
  <2> QED BY <2>5, <2>6, <2>7, <2>8 DEF IInv
<1> QED BY <1>3, <1>4

(* The read of a resend keeps a row that admits the write. *)
LEMMA ResendReadStep ==
  ASSUME IInv, NEW r \in Requests, ResendRead(r)
  PROVE  IInv'
<1> DEFINE c == req[r].ch
           row == challenges[c]
           ok == /\ Answerable(c, req[r].now)
                 /\ row.sends < MaxSends /\ row.last + MinInterval <= req[r].now
           q == [pc |-> "resendWrite", ch |-> c, now |-> req[r].now,
                 session |-> req[r].session, seen |-> row]
<1>1. /\ req[r] \in [pc : {"resendRead"}, ch : Ids, now : Nat, session : Session]
      /\ req \in [Requests -> RequestState]
  BY RequestShape DEF ResendRead, IInv, TypeOK
<1>2. UNCHANGED <<clock, issued, challenges, evidence, invitation, sessions>>
  BY DEF ResendRead
<1>3. CASE ~ok
  <2>1. Idle \in RequestState /\ Idle.pc = "idle" /\ req' = [req EXCEPT ![r] = Idle]
    BY <1>3 DEF RequestState, Idle, ResendRead, Become
  <2> QED BY <1>2, <2>1, QuietStep DEF IInv, TypeOK
<1>4. CASE ok
  <2>1. row \in Row /\ row.sends < MaxSends /\ row.code = row.sends
    BY <1>1, <1>4, LiveRow DEF Answerable, IInv, CodeIsSend
  <2>2. q \in RequestState
    <3>1. q \in [pc : {"resendWrite"}, ch : Ids, now : Nat, session : Session, seen : Row]
      BY <1>1, <2>1
    <3> QED BY <3>1 DEF RequestState
  <2>3. req' = [req EXCEPT ![r] = q]
    BY <1>4 DEF ResendRead, Become
  <2>4. \A t \in Requests : req'[t] = IF t = r THEN q ELSE req[t]
    BY <1>1, <2>3
  <2>5. TypeOK'
    BY <1>2, <2>2, <2>3 DEF IInv, TypeOK
  <2>6. VerifiedByLatestCode' /\ ConsumedWithInvitation' /\ FreshIds' /\ CodeIsSend'
    BY <1>2 DEF IInv, VerifiedByLatestCode, ConsumedWithInvitation, FreshIds, CodeIsSend, Live
  <2>7. EvidenceOnce' /\ SeenAdmits'
    BY <1>2, <2>1, <2>4 DEF IInv, EvidenceOnce, SeenAdmits
  <2>8. EvidenceSpent'
    BY <1>2, <2>4 DEF IInv, EvidenceSpent, Spent, Live
  <2> QED BY <2>5, <2>6, <2>7, <2>8 DEF IInv
<1> QED BY <1>3, <1>4

(* The conditional update of a verification: the fences give the attempt its place
   under the limit, the code its currency and the evidence its uniqueness. *)
LEMMA VerifyWriteStep ==
  ASSUME IInv, NEW r \in Requests, VerifyWrite(r)
  PROVE  IInv'
<1> DEFINE q == req[r]
           row == challenges[q.ch]
           matches == q.hash = q.seen.code
           by == IF matches THEN q.hash ELSE WrongCode
           fence == VerifyFence(row, q.seen, q.now)
           auth == [pc |-> "authorize", ch |-> q.ch, session |-> q.session, exp |-> q.seen.exp]
           next == IF fence /\ matches THEN auth ELSE Idle
<1>1. /\ q \in [pc : {"verifyWrite"}, ch : Ids, now : Nat, session : Session,
                 hash : 0 .. MaxSends, seen : Row]
      /\ req \in [Requests -> RequestState] /\ q.seen.attempts < MaxAttempts
      /\ challenges \in [Ids -> Row \cup {NoRow}]
  BY RequestShape DEF VerifyWrite, IInv, TypeOK, SeenAdmits
<1>2. UNCHANGED <<clock, issued, evidence, invitation, sessions>>
      /\ req' = [req EXCEPT ![r] = next]
  BY DEF VerifyWrite, Become
<1>3. Idle \in RequestState /\ Idle.pc = "idle"
  BY DEF RequestState, Idle
<1>4. CASE ~fence
  <2>1. challenges' = challenges /\ next = Idle
    BY <1>4 DEF VerifyWrite
  <2> HIDE DEF next
  <2> QED BY <1>2, <1>3, <2>1, QuietStep DEF IInv, TypeOK
<1>5. CASE fence
  <2> DEFINE new == [row EXCEPT !.attempts = @ + 1, !.verifiedBy = by]
  <2>1. /\ row \in Row /\ row # NoRow /\ row.verifiedBy = WrongCode /\ ~row.consumed
        /\ row.attempts = q.seen.attempts /\ row.code = q.seen.code
    BY <1>1, <1>5 DEF VerifyFence, Open
  <2>2. challenges' = [challenges EXCEPT ![q.ch] = new]
    BY <1>1, <1>5, <2>1 DEF VerifyWrite
  <2>3. /\ new \in Row /\ new # NoRow /\ new.code = row.code /\ new.sends = row.sends
        /\ new.verifiedBy = by /\ new.consumed = row.consumed
    <3>1. by \in 0 .. MaxSends /\ row.attempts + 1 \in 0 .. MaxAttempts
      BY <1>1, <2>1, BoundsAssumption DEF Row, WrongCode
    <3> HIDE DEF by, row
    <3>2. new \in Row /\ new.code = row.code /\ new.sends = row.sends
          /\ new.verifiedBy = by /\ new.consumed = row.consumed
      BY <2>1, <3>1 DEF Row
    <3> QED BY <3>2, RowNotMissing
  <2>4. by \in {WrongCode, row.code} /\ (matches => by # WrongCode)
    BY <1>1, <2>1 DEF Row, WrongCode
  <2>5. next \in RequestState
    <3>1. auth \in [pc : {"authorize"}, ch : Ids, session : Session, exp : Nat]
      BY <1>1 DEF Row
    <3> QED BY <1>3, <3>1 DEF RequestState
  <2> HIDE DEF new, by
  <2>6. /\ \A c \in Ids : challenges'[c] = IF c = q.ch THEN new ELSE challenges[c]
        /\ \A t \in Requests : req'[t] = IF t = r THEN next ELSE req[t]
    BY <1>1, <1>2, <2>2
  <2>7. TypeOK'
    BY <1>1, <1>2, <2>2, <2>3, <2>5 DEF IInv, TypeOK
  <2>8. VerifiedByLatestCode' /\ ConsumedWithInvitation' /\ CodeIsSend'
    BY <1>1, <1>2, <2>1, <2>3, <2>4, <2>6 DEF IInv, VerifiedByLatestCode,
       ConsumedWithInvitation, CodeIsSend, Live
  <2>9. FreshIds'
    BY <1>1, <1>2, <2>1, <2>6 DEF IInv, FreshIds
  <2>10. ~Spent(q.ch) /\ q.ch <= issued
    BY <1>1, <2>1 DEF Spent, Live, IInv, FreshIds, TypeOK, Ids
  <2>11. next = auth \/ next = Idle
    OBVIOUS
  <2>12. next = auth => matches
    BY DEF Idle
  <2>13. auth.pc = "authorize" /\ auth.ch = q.ch
    OBVIOUS
  <2> HIDE DEF auth, next
  <2>14. EvidenceOnce'
    BY <1>2, <1>3, <2>6, <2>10, <2>11, <2>13 DEF IInv, EvidenceOnce, EvidenceSpent
  <2>15. SeenAdmits'
    BY <1>3, <2>6, <2>11, <2>13 DEF IInv, SeenAdmits
  <2>16. EvidenceSpent'
    <3>1. \A c \in Ids : Spent(c) => Spent(c)'
      BY <1>2, <2>6, <2>10 DEF Spent, Live
    <3>2. \A c \in Ids : c = q.ch /\ matches => Spent(c)'
      BY <1>1, <1>2, <2>3, <2>4, <2>6, <2>10 DEF Spent, Live
    <3> QED BY <1>1, <1>2, <1>3, <2>6, <2>11, <2>12, <2>13, <3>1, <3>2, EvidenceIds
            DEF IInv, EvidenceSpent
  <2> QED BY <2>7, <2>8, <2>9, <2>14, <2>15, <2>16 DEF IInv
<1> QED BY <1>4, <1>5

(* The login turns the evidence a request holds into the evidence of one session. *)
LEMMA AuthorizeStep ==
  ASSUME IInv, NEW r \in Requests, Authorize(r)
  PROVE  IInv'
<1> DEFINE q == req[r]
           e == [ch |-> q.ch, exp |-> q.exp]
<1>1. /\ q \in [pc : {"authorize"}, ch : Ids, session : Session, exp : Nat]
      /\ req \in [Requests -> RequestState]
  BY RequestShape DEF Authorize, IInv, TypeOK
<1>2. UNCHANGED <<clock, issued, challenges, invitation>> /\ req' = [req EXCEPT ![r] = Idle]
  BY DEF Authorize, Become
<1>3. Idle \in RequestState /\ Idle.pc = "idle"
  BY DEF RequestState, Idle
<1>4. CASE UNCHANGED <<evidence, sessions>>
  BY <1>2, <1>3, <1>4, QuietStep DEF IInv, TypeOK
<1>5. CASE evidence' = evidence \cup {e} /\ sessions' = sessions \ {q.session}
  <2>1. e \in Evidence /\ e.ch = q.ch
    BY <1>1 DEF Evidence
  <2> HIDE DEF e
  <2>2. \A t \in Requests : req'[t] = IF t = r THEN Idle ELSE req[t]
    BY <1>1, <1>2
  <2>3. TypeOK'
    BY <1>2, <1>3, <1>5, <2>1 DEF IInv, TypeOK
  <2>4. VerifiedByLatestCode' /\ ConsumedWithInvitation' /\ FreshIds' /\ CodeIsSend'
    BY <1>2 DEF IInv, VerifiedByLatestCode, ConsumedWithInvitation, FreshIds, CodeIsSend, Live
  <2>5. SeenAdmits'
    BY <1>3, <2>2 DEF IInv, SeenAdmits
  <2>6. EvidenceOnce'
    BY <1>1, <1>3, <1>5, <2>1, <2>2 DEF IInv, EvidenceOnce
  <2>7. EvidenceSpent'
    BY <1>1, <1>2, <1>3, <1>5, <2>1, <2>2 DEF IInv, EvidenceSpent, Spent, Live
  <2> QED BY <2>3, <2>4, <2>5, <2>6, <2>7 DEF IInv
<1> QED BY <1>4, <1>5 DEF Authorize

(* The conditional update of a resend: the code moves on only while nobody has
   verified the old one. *)
LEMMA ResendWriteStep ==
  ASSUME IInv, NEW r \in Requests, ResendWrite(r)
  PROVE  IInv'
<1> DEFINE q == req[r]
           row == challenges[q.ch]
           ok == ResendFence(row, q.seen, q.now) /\ MaySend(challenges, q.now)
           store == [pc |-> "store", ch |-> q.ch, secret |-> q.seen.code + 1,
                     old |-> {q.session}]
<1>1. /\ q \in [pc : {"resendWrite"}, ch : Ids, now : Nat, session : Session, seen : Row]
      /\ req \in [Requests -> RequestState]
      /\ q.seen.code = q.seen.sends /\ q.seen.sends < MaxSends
      /\ challenges \in [Ids -> Row \cup {NoRow}]
  BY RequestShape DEF ResendWrite, IInv, TypeOK, SeenAdmits
<1>2. UNCHANGED <<clock, issued, evidence, invitation, sessions>>
  BY DEF ResendWrite
<1>3. Idle \in RequestState /\ Idle.pc = "idle"
  BY DEF RequestState, Idle
<1>4. CASE ~ok
  <2>1. challenges' = challenges /\ req' = [req EXCEPT ![r] = Idle]
    BY <1>4 DEF ResendWrite, Become
  <2> QED BY <1>2, <1>3, <2>1, QuietStep DEF IInv, TypeOK
<1>5. CASE ok
  <2> DEFINE code == q.seen.code + 1
             new == [row EXCEPT !.code = code, !.sends = @ + 1, !.last = q.now]
  <2>1. /\ row \in Row /\ row # NoRow /\ row.verifiedBy = WrongCode /\ ~row.consumed
        /\ row.sends = q.seen.sends
    BY <1>1, <1>5 DEF ResendFence, Open
  <2>2. /\ challenges' = [challenges EXCEPT ![q.ch] = new]
        /\ req' = [req EXCEPT ![r] = store]
    BY <1>1, <1>5, <2>1 DEF ResendWrite, Become
  <2>3. code \in 1 .. MaxSends /\ code = row.sends + 1 /\ q.now \in Nat
    BY <1>1, <2>1, BoundsAssumption DEF Row
  <2>4. store \in RequestState /\ store.pc = "store"
    <3>1. store \in [pc : {"store", "send", "invalidate"}, ch : Ids,
                      secret : 1 .. MaxSends, old : SUBSET Session]
      BY <1>1, <2>3
    <3> QED BY <3>1 DEF RequestState
  <2>5. /\ new \in Row /\ new # NoRow /\ new.code = new.sends
        /\ new.verifiedBy = WrongCode /\ ~new.consumed
    <3> HIDE DEF code, row
    <3>1. /\ new \in Row /\ new.code = new.sends
          /\ new.verifiedBy = WrongCode /\ ~new.consumed
      BY <2>1, <2>3 DEF Row
    <3> QED BY <3>1, RowNotMissing
  <2> HIDE DEF new, code, store
  <2>6. /\ \A c \in Ids : challenges'[c] = IF c = q.ch THEN new ELSE challenges[c]
        /\ \A t \in Requests : req'[t] = IF t = r THEN store ELSE req[t]
    BY <1>1, <2>2
  <2>7. TypeOK'
    BY <1>1, <1>2, <2>2, <2>4, <2>5 DEF IInv, TypeOK
  <2>8. VerifiedByLatestCode' /\ ConsumedWithInvitation' /\ CodeIsSend'
    BY <1>1, <1>2, <2>5, <2>6 DEF IInv, VerifiedByLatestCode, ConsumedWithInvitation,
       CodeIsSend, Live
  <2>9. FreshIds'
    BY <1>1, <1>2, <2>1, <2>6 DEF IInv, FreshIds
  <2>10. EvidenceOnce' /\ SeenAdmits'
    BY <1>2, <2>4, <2>6 DEF IInv, EvidenceOnce, SeenAdmits
  <2>11. EvidenceSpent'
    <3>1. \A c \in Ids : Spent(c) => Spent(c)'
      BY <1>2, <2>1, <2>6 DEF Spent, Live
    <3> QED BY <1>2, <2>4, <2>6, <3>1, EvidenceIds DEF IInv, EvidenceSpent
  <2> QED BY <2>7, <2>8, <2>9, <2>10, <2>11 DEF IInv
<1> QED BY <1>4, <1>5

(* The acceptance batch consumes a challenge only while the invitation is pending. *)
LEMMA CommitAcceptStep ==
  ASSUME IInv, NEW r \in Requests, CommitAccept(r)
  PROVE  IInv'
<1> DEFINE e == req[r].evidence
           c0 == e.ch
<1>1. /\ e \in Evidence /\ c0 \in Ids /\ req \in [Requests -> RequestState]
      /\ challenges \in [Ids -> Row \cup {NoRow}]
  BY RequestShape DEF CommitAccept, IInv, TypeOK, Evidence
<1>2. UNCHANGED <<clock, issued, sessions>> /\ req' = [req EXCEPT ![r] = Idle]
  BY DEF CommitAccept, Become
<1>3. Idle \in RequestState /\ Idle.pc = "idle"
  BY DEF RequestState, Idle
<1>4. CASE UNCHANGED <<challenges, invitation, evidence>>
  BY <1>2, <1>3, <1>4, QuietStep DEF IInv, TypeOK
<1>5. CASE /\ Live(c0) /\ invitation = "pending"
           /\ challenges' = [challenges EXCEPT ![c0].consumed = TRUE]
           /\ invitation' = "accepted" /\ evidence' = evidence \ {e}
  <2> DEFINE row == challenges[c0]
             new == [row EXCEPT !.consumed = TRUE]
  <2>1. row \in Row
    BY <1>1, <1>5, LiveRow DEF IInv
  <2>2. challenges' = [challenges EXCEPT ![c0] = new]
    BY <1>1, <1>5, <2>1
  <2>3. /\ new \in Row /\ new # NoRow /\ new.code = row.code /\ new.sends = row.sends
        /\ new.verifiedBy = row.verifiedBy
    <3> HIDE DEF row
    <3>1. /\ new \in Row /\ new.code = row.code /\ new.sends = row.sends
          /\ new.verifiedBy = row.verifiedBy
      BY <2>1 DEF Row
    <3> QED BY <3>1, RowNotMissing
  <2> HIDE DEF new
  <2>4. /\ \A c \in Ids : challenges'[c] = IF c = c0 THEN new ELSE challenges[c]
        /\ \A t \in Requests : req'[t] = IF t = r THEN Idle ELSE req[t]
    BY <1>1, <1>2, <2>2
  <2>5. TypeOK'
    BY <1>1, <1>2, <1>3, <1>5, <2>2, <2>3 DEF IInv, TypeOK
  <2>6. VerifiedByLatestCode' /\ CodeIsSend' /\ FreshIds'
    BY <1>1, <1>2, <1>5, <2>3, <2>4 DEF IInv, VerifiedByLatestCode, CodeIsSend, FreshIds, Live
  <2>7. ConsumedWithInvitation'
    BY <1>1, <1>5, <2>4 DEF IInv, ConsumedWithInvitation, Live
  <2>8. EvidenceOnce' /\ SeenAdmits'
    BY <1>3, <1>5, <2>4 DEF IInv, EvidenceOnce, SeenAdmits
  <2>9. EvidenceSpent'
    <3>1. \A c \in Ids : Spent(c) => Spent(c)'
      BY <1>1, <1>2, <1>5, <2>3, <2>4 DEF Spent, Live
    <3> QED BY <1>3, <1>5, <2>4, <3>1, EvidenceIds DEF IInv, EvidenceSpent
  <2> QED BY <2>5, <2>6, <2>7, <2>8, <2>9 DEF IInv
<1> QED BY <1>4, <1>5 DEF CommitAccept, MayConsume, MayClaim

----------------------------------------------------------------------------

(* Every step of a request that is not covered above is quiet. *)
LEMMA RequestStep ==
  ASSUME IInv, NEW r \in Requests,
         IssueStep(r) \/ VerifyStep(r) \/ ResendStep(r) \/ AcceptStep(r) \/ RequestDies(r)
  PROVE  IInv'
<1>1. /\ req \in [Requests -> RequestState] /\ req[r] \in RequestState
      /\ clock \in Nat /\ sessions \subseteq Session /\ evidence \subseteq Evidence
  BY DEF IInv, TypeOK
<1>2. Idle \in RequestState /\ Idle.pc = "idle"
  BY DEF RequestState, Idle
<1>3. CASE StartCreate(r)
  <2> DEFINE q == [pc |-> "create", now |-> clock]
  <2>1. q \in RequestState /\ q.pc = "create"
    BY <1>1 DEF RequestState
  <2> QED BY <1>1, <1>3, <2>1, QuietStep DEF StartCreate, Become
<1>4. CASE StoreSession(r)
  <2> DEFINE q == [req[r] EXCEPT !.pc = "send"]
  <2>1. req[r] \in [pc : {"store", "send", "invalidate"}, ch : Ids, secret : 1 .. MaxSends,
                     old : SUBSET Session]
    BY <1>1, <1>4, RequestShape DEF StoreSession
  <2>2. q \in [pc : {"store", "send", "invalidate"}, ch : Ids, secret : 1 .. MaxSends,
                old : SUBSET Session] /\ q.pc = "send"
    BY <2>1
  <2>3. q \in RequestState
    BY <2>2 DEF RequestState
  <2>4. [ch |-> req[r].ch, secret |-> req[r].secret] \in Session
    BY <2>1 DEF Session
  <2>5. sessions' \subseteq Session
    BY <1>1, <1>4, <2>4 DEF StoreSession
  <2>6. /\ UNCHANGED <<clock, issued, challenges, evidence, invitation>>
        /\ req' = [req EXCEPT ![r] = q]
    BY <1>4 DEF StoreSession, Become
  <2> HIDE DEF q
  <2> QED BY <2>2, <2>3, <2>5, <2>6, QuietStep
<1>5. CASE Send(r)
  BY <1>1, <1>2, <1>5, QuietStep DEF Send, Become
<1>6. CASE DeliveryFails(r)
  <2> DEFINE q == [req[r] EXCEPT !.pc = "invalidate"]
  <2>1. req[r] \in [pc : {"store", "send", "invalidate"}, ch : Ids, secret : 1 .. MaxSends,
                     old : SUBSET Session]
    BY <1>1, <1>6, RequestShape DEF DeliveryFails
  <2>2. q \in [pc : {"store", "send", "invalidate"}, ch : Ids, secret : 1 .. MaxSends,
                old : SUBSET Session] /\ q.pc = "invalidate"
    BY <2>1
  <2>3. q \in RequestState
    BY <2>2 DEF RequestState
  <2>4. /\ UNCHANGED <<clock, issued, challenges, evidence, invitation, sessions>>
        /\ req' = [req EXCEPT ![r] = q]
    BY <1>6 DEF DeliveryFails, Become
  <2> HIDE DEF q
  <2> QED BY <1>1, <2>2, <2>3, <2>4, QuietStep
<1>7. ASSUME NEW s \in sessions, NEW right \in BOOLEAN, StartVerify(r, s, right)
      PROVE  IInv'
  <2> DEFINE q == [pc |-> "verifyRead", ch |-> s.ch, now |-> clock, session |-> s,
                   hash |-> IF right THEN s.secret ELSE WrongCode]
  <2>1. q \in [pc : {"verifyRead"}, ch : Ids, now : Nat, session : Session,
                hash : 0 .. MaxSends] /\ q.pc = "verifyRead"
    BY <1>1, BoundsAssumption DEF Session, WrongCode
  <2>2. q \in RequestState
    BY <2>1 DEF RequestState
  <2>3. /\ UNCHANGED <<clock, issued, challenges, evidence, invitation, sessions>>
        /\ req' = [req EXCEPT ![r] = q]
    BY <1>7 DEF StartVerify, Become
  <2> HIDE DEF q
  <2> QED BY <1>1, <2>1, <2>2, <2>3, QuietStep
<1>8. ASSUME NEW s \in sessions, StartResend(r, s)
      PROVE  IInv'
  <2> DEFINE q == [pc |-> "resendRead", ch |-> s.ch, now |-> clock, session |-> s]
  <2>1. q \in [pc : {"resendRead"}, ch : Ids, now : Nat, session : Session]
        /\ q.pc = "resendRead"
    BY <1>1 DEF Session
  <2>2. q \in RequestState
    BY <2>1 DEF RequestState
  <2>3. /\ UNCHANGED <<clock, issued, challenges, evidence, invitation, sessions>>
        /\ req' = [req EXCEPT ![r] = q]
    BY <1>8 DEF StartResend, Become
  <2> HIDE DEF q
  <2> QED BY <1>1, <2>1, <2>2, <2>3, QuietStep
<1>9. ASSUME NEW e \in evidence, StartAccept(r, e)
      PROVE  IInv'
  <2> DEFINE q == [pc |-> "accept", evidence |-> e, now |-> clock]
  <2>1. q \in [pc : {"accept"}, evidence : Evidence, now : Nat] /\ q.pc = "accept"
    BY <1>1
  <2>2. q \in RequestState
    BY <2>1 DEF RequestState
  <2>3. /\ UNCHANGED <<clock, issued, challenges, evidence, invitation, sessions>>
        /\ req' = [req EXCEPT ![r] = q]
    BY <1>9 DEF StartAccept, Become
  <2> HIDE DEF q
  <2> QED BY <1>1, <2>1, <2>2, <2>3, QuietStep
<1>10. CASE RequestDies(r)
  BY <1>1, <1>2, <1>10, QuietStep DEF RequestDies, Become
<1> QED BY <1>3, <1>4, <1>5, <1>6, <1>7, <1>8, <1>9, <1>10, CreateStep, InvalidateStep,
           VerifyReadStep, VerifyWriteStep, AuthorizeStep, ResendReadStep, ResendWriteStep,
           CommitAcceptStep
        DEF IssueStep, VerifyStep, ResendStep, AcceptStep

(* The invariant is inductive. *)
LEMMA NextIInv == IInv /\ [Next]_vars => IInv'
<1> SUFFICES ASSUME IInv, [Next]_vars PROVE IInv'
  OBVIOUS
<1>1. /\ clock \in Nat /\ sessions \subseteq Session
      /\ challenges \in [Ids -> Row \cup {NoRow}]
      /\ invitation \in {"pending", "accepted", "revoked"}
  BY DEF IInv, TypeOK
<1>2. CASE \E r \in Requests : IssueStep(r) \/ VerifyStep(r) \/ ResendStep(r)
                                 \/ AcceptStep(r) \/ RequestDies(r)
  BY <1>2, RequestStep
<1>3. CASE ShowPage
  <2>1. sessions' \subseteq Session /\ UNCHANGED <<clock, issued, challenges, evidence, invitation, req>>
    BY <1>1, <1>3 DEF ShowPage
  <2> QED BY <1>1, <2>1, BackgroundStep
<1>4. CASE PruneExpired
  <2>1. /\ challenges' \in [Ids -> Row \cup {NoRow}]
        /\ \A c \in Ids : challenges'[c] \in {challenges[c], NoRow}
    BY <1>1, <1>4 DEF PruneExpired
  <2> QED BY <1>1, <1>4, <2>1, BackgroundStep DEF PruneExpired
<1>5. CASE Revoke
  BY <1>1, <1>5, BackgroundStep DEF Revoke
<1>6. CASE Tick
  BY <1>1, <1>6, BackgroundStep DEF Tick
<1>7. CASE UNCHANGED vars
  BY <1>1, <1>7, BackgroundStep DEF vars
<1> QED BY <1>2, <1>3, <1>4, <1>5, <1>6, <1>7 DEF Next

(* The inductive invariant holds in every reachable state. *)
LEMMA SpecIInv == Spec => []IInv
BY InitIInv, NextIInv, PTL DEF Spec

(* No counter of a row passes its limit: at most EMAIL_CHALLENGE_MAX_ATTEMPTS answers are
   compared with a code and at most EMAIL_CHALLENGE_MAX_SENDS codes leave per row. *)
THEOREM ChallengeTypes == Spec => []TypeOK
<1>1. IInv => TypeOK
  BY DEF IInv
<1> QED BY <1>1, SpecIInv, PTL

(* The write of repository.verify is fenced by the code it compared with, the write of
   repository.resend by the absence of a verification: only the latest code verifies. *)
THEOREM LatestCodeVerifies == Spec => []VerifiedByLatestCode
<1>1. IInv => VerifiedByLatestCode
  BY DEF IInv
<1> QED BY <1>1, SpecIInv, PTL

(* Concurrent correct answers give out the evidence of a challenge once. *)
THEOREM EvidenceIsUnique == Spec => []EvidenceOnce
<1>1. IInv => EvidenceOnce
  BY DEF IInv
<1> QED BY <1>1, SpecIInv, PTL

(* One transaction consumes the challenge and claims the invitation. *)
THEOREM ConsumedTogether == Spec => []ConsumedWithInvitation
<1>1. IInv => ConsumedWithInvitation
  BY DEF IInv
<1> QED BY <1>1, SpecIInv, PTL

(* No write under way revives a challenge whose delivery failed. *)
THEOREM InvalidatedIsFinal == Spec => InvalidatedStaysDead
<1> DEFINE Dead(c) == Live(c) /\ challenges[c].invalidated
           Kept == \A c \in Ids : Dead(c) => challenges'[c] \in {challenges[c], NoRow}
<1>1. ASSUME IInv, [Next]_vars PROVE Kept
  <2>1. /\ challenges \in [Ids -> Row \cup {NoRow}] /\ issued \in 0 .. MaxChallenges
        /\ req \in [Requests -> RequestState] /\ evidence \subseteq Evidence
    BY <1>1 DEF IInv, TypeOK
  <2>2. ASSUME NEW r \in Requests, Create(r) PROVE Kept
    <3>1. issued + 1 \in Ids /\ challenges[issued + 1] = NoRow
      BY <1>1, <2>1, <2>2, BoundsAssumption DEF Create, IInv, FreshIds, Ids
    <3> QED BY <2>1, <2>2, <3>1 DEF Create, Live
  <2>3. ASSUME NEW r \in Requests, Invalidate(r) PROVE Kept
    <3>1. req[r].ch \in Ids
      BY <2>1, <2>3, RequestShape DEF Invalidate
    <3>2. ASSUME NEW c \in Ids, Dead(c) PROVE challenges'[c] = challenges[c]
      <4>1. challenges[c] \in Row /\ challenges[c].invalidated = TRUE
        BY <2>1, <3>2 DEF Live, Row
      <4>2. [challenges[c] EXCEPT !.invalidated = TRUE] = challenges[c]
        BY <4>1 DEF Row
      <4> QED BY <2>1, <2>3, <3>1, <4>2 DEF Invalidate
    <3> QED BY <3>2
  <2>4. ASSUME NEW r \in Requests, VerifyWrite(r) PROVE Kept
    <3>1. req[r].ch \in Ids
      BY <2>1, <2>4, RequestShape DEF VerifyWrite
    <3> QED BY <2>1, <2>4, <3>1 DEF VerifyWrite, VerifyFence, Open, Live
  <2>5. ASSUME NEW r \in Requests, ResendWrite(r) PROVE Kept
    <3>1. req[r].ch \in Ids
      BY <2>1, <2>5, RequestShape DEF ResendWrite
    <3> QED BY <2>1, <2>5, <3>1 DEF ResendWrite, ResendFence, Open, Live
  <2>6. ASSUME NEW r \in Requests, CommitAccept(r) PROVE Kept
    <3>1. req[r].evidence.ch \in Ids
      BY <2>1, <2>6, RequestShape DEF CommitAccept, Evidence
    <3> QED BY <2>1, <2>6, <3>1 DEF CommitAccept, MayConsume, Live
  <2>7. CASE PruneExpired
    BY <2>1, <2>7 DEF PruneExpired
  <2>8. CASE UNCHANGED challenges
    BY <2>8
  <2> QED BY <1>1, <2>2, <2>3, <2>4, <2>5, <2>6, <2>7, <2>8
          DEF Next, vars, IssueStep, VerifyStep, ResendStep, AcceptStep, RequestDies, ShowPage,
              Revoke, Tick, StartCreate, StoreSession, Send, DeliveryFails, StartVerify,
              VerifyRead, Authorize, StartResend, ResendRead, StartAccept
<1>2. IInv /\ [Next]_vars => [Kept]_vars
  BY <1>1
<1> QED BY <1>2, SpecIInv, PTL DEF Spec, InvalidatedStaysDead

(* EvidenceAccounted: a challenge is answered within its attempts, its evidence is held once
   and is consumed with its invitation. *)
THEOREM EvidenceIsAccounted == Spec => []EvidenceAccounted
<1>1. TypeOK => AttemptsLimited
  BY BoundsAssumption DEF TypeOK, AttemptsLimited, Live, Row
<1>2. AttemptsLimited /\ EvidenceOnce /\ ConsumedWithInvitation => EvidenceAccounted
  BY DEF EvidenceAccounted
<1> QED BY <1>1, <1>2, ChallengeTypes, EvidenceIsUnique, ConsumedTogether, PTL

----------------------------------------------------------------------------
(* The send limits. *)

(* The rows whose sends count at a time, and the sends that they count: one pair for each. *)
Window(rows, now) == {c \in Ids : rows[c] # NoRow /\ rows[c].last > now - Ttl}
Slots(rows, S) == {p \in Ids \X (1 .. MaxSends) : p[1] \in S /\ p[2] <= rows[p[1]].sends}

Rows == [Ids -> Row \cup {NoRow}]

LEMMA FiniteSlots ==
  ASSUME NEW rows, NEW S
  PROVE  IsFiniteSet(Slots(rows, S)) /\ Cardinality(Slots(rows, S)) \in Nat
<1>1. IsFiniteSet(Ids) /\ IsFiniteSet(1 .. MaxSends)
  BY BoundsAssumption, FS_Interval DEF BoundsAssumption, Ids
<1>2. IsFiniteSet(Ids \X (1 .. MaxSends))
  BY <1>1, FS_Product
<1> QED BY <1>2, FS_Subset, FS_CardinalityType DEF Slots

(* Taking a row out takes its sends out. *)
LEMMA SlotsOfRow ==
  ASSUME NEW rows \in Rows, NEW S \in SUBSET Ids, NEW c \in S, rows[c] \in Row
  PROVE  Cardinality(Slots(rows, S)) = rows[c].sends + Cardinality(Slots(rows, S \ {c}))
<1> DEFINE A == Slots(rows, S \ {c})
           B == {p \in Ids \X (1 .. MaxSends) : p[1] = c /\ p[2] <= rows[c].sends}
<1>1. Slots(rows, S) = A \cup B /\ A \cap B = {}
  BY DEF Slots
<1>2. IsFiniteSet(A) /\ IsFiniteSet(B)
  <2>1. B = Slots(rows, {c})
    BY DEF Slots
  <2> QED BY <2>1, FiniteSlots
<1>3. Cardinality(A \cup B) = Cardinality(A) + Cardinality(B) - Cardinality(A \cap B)
  BY <1>2, FS_Union
<1>4. Cardinality(B) = rows[c].sends
  <2> DEFINE n == rows[c].sends
             f == [k \in 1 .. n |-> <<c, k>>]
  <2>1. n \in 1 .. MaxSends
    BY DEF Row
  <2>2. f \in Bijection(1 .. n, B)
    <3> HIDE DEF n
    <3>0. MaxSends \in Nat /\ B = {p \in Ids \X (1 .. MaxSends) : p[1] = c /\ p[2] <= n}
      BY BoundsAssumption DEF BoundsAssumption, n
    <3>1. \A k \in 1 .. n : <<c, k>> \in B
      BY <2>1, <3>0
    <3>2. \A p \in B : p = <<c, p[2]>> /\ p[2] \in 1 .. n
      BY <2>1, <3>0
    <3> HIDE DEF B
    <3>3. f \in Injection(1 .. n, B)
      BY <3>1 DEF Injection, IsInjective
    <3>4. f \in Surjection(1 .. n, B)
      BY <3>1, <3>2 DEF Surjection
    <3> QED BY <3>3, <3>4 DEF Bijection
  <2>3. IsFiniteSet(1 .. n) /\ Cardinality(1 .. n) = n
    <3>1. n \in Nat /\ n >= 1
      BY <2>1
    <3> HIDE DEF n
    <3>2. IsFiniteSet(1 .. n) /\ Cardinality(1 .. n) = n - 1 + 1
      BY <3>1, FS_Interval
    <3> QED BY <3>1, <3>2
  <2>4. ExistsBijection(1 .. n, B)
    BY <2>2 DEF ExistsBijection
  <2> QED BY <2>3, <2>4, <1>2, FS_Bijection
<1>5. Cardinality(A) \in Nat /\ rows[c].sends \in Nat
  BY FiniteSlots DEF Row
<1>6. Cardinality(A \cap B) = 0
  BY <1>1, FS_EmptySet
<1>7. Cardinality(Slots(rows, S)) = Cardinality(A \cup B)
  BY <1>1
<1> QED BY <1>3, <1>4, <1>5, <1>6, <1>7

(* The recursive sum of SendsInWindow is that count. *)
LEMMA SendsCounted ==
  ASSUME NEW rows \in Rows, NEW now \in Int
  PROVE  SendsInWindow(rows, now) = Cardinality(Slots(rows, Window(rows, now)))
<1> DEFINE recent == {c \in Ids : rows[c] # NoRow /\ rows[c].last > now - Ttl}
           Solves(t) == t = [S \in SUBSET recent |->
             IF S = {} THEN 0
             ELSE LET c == CHOOSE x \in S : TRUE IN rows[c].sends + t[S \ {c}]]
           count == [S \in SUBSET recent |-> Cardinality(Slots(rows, S))]
           total == CHOOSE t : Solves(t)
<1>1. SendsInWindow(rows, now) = total[recent]
  BY DEF SendsInWindow
<1>2. \A S \in SUBSET recent : S # {} =>
        LET c == CHOOSE x \in S : TRUE
        IN c \in S /\ count[S] = rows[c].sends + count[S \ {c}]
  <2> SUFFICES ASSUME NEW S \in SUBSET recent, S # {}
               PROVE  LET c == CHOOSE x \in S : TRUE
                      IN c \in S /\ count[S] = rows[c].sends + count[S \ {c}]
    OBVIOUS
  <2> DEFINE c == CHOOSE x \in S : TRUE
  <2>1. c \in S
    OBVIOUS
  <2> HIDE DEF c
  <2>2. rows[c] \in Row /\ S \in SUBSET Ids /\ S \ {c} \in SUBSET recent
    BY <2>1 DEF Rows
  <2>3. count[S] = rows[c].sends + count[S \ {c}]
    BY <2>1, <2>2, SlotsOfRow
  <2> QED BY <2>1, <2>3 DEF c
<1>3. count[{}] = 0
  <2>1. Slots(rows, {}) = {}
    BY DEF Slots
  <2> QED BY <2>1, FS_EmptySet
<1>4. Solves(count)
  <2> HIDE DEF recent
  <2>1. \A S \in SUBSET recent : count[S] =
          IF S = {} THEN 0
          ELSE LET c == CHOOSE x \in S : TRUE IN rows[c].sends + count[S \ {c}]
    BY <1>2, <1>3
  <2>2. DOMAIN count = SUBSET recent /\ count = [S \in DOMAIN count |-> count[S]]
    OBVIOUS
  <2> HIDE DEF count
  <2> QED BY <2>1, <2>2
<1>5. Solves(total)
  <2> HIDE DEF Solves, count
  <2> QED BY <1>4
<1>6. \A S \in SUBSET recent : total[S] =
        IF S = {} THEN 0
        ELSE LET c == CHOOSE x \in S : TRUE IN rows[c].sends + total[S \ {c}]
  <2> HIDE DEF total, recent
  <2> QED BY <1>5
<1> HIDE DEF total, count
(* A smallest set on which the two differ does not exist. *)
<1>7. total[recent] = count[recent]
  <2> DEFINE R == StrictSubsetOrdering(recent)
             D == {S \in SUBSET recent : total[S] # count[S]}
  <2>1. IsFiniteSet(recent)
    <3>1. IsFiniteSet(Ids)
      BY BoundsAssumption, FS_Interval DEF BoundsAssumption, Ids
    <3> QED BY <3>1, FS_Subset
  <2> HIDE DEF recent
  <2>2. IsWellFoundedOn(R, SUBSET recent)
    BY <2>1, FS_StrictSubsetOrderingWellFounded, FS_FiniteSubsetsOfFinite
  <2>3. ASSUME D # {} PROVE FALSE
    <3>1. PICK S \in D : \A T \in D : <<T, S>> \notin R
      BY <2>2, <2>3, WFMin
    <3> DEFINE c == CHOOSE x \in S : TRUE
    <3>2. S # {}
      BY <1>3, <1>6, <3>1
    <3>3. c \in S /\ count[S] = rows[c].sends + count[S \ {c}]
          /\ total[S] = rows[c].sends + total[S \ {c}]
      BY <1>2, <1>6, <3>1, <3>2
    <3> HIDE DEF c
    <3>4. S \ {c} \in D
      BY <3>1, <3>3
    <3>5. <<S \ {c}, S>> \in R
      BY <3>1, <3>3 DEF StrictSubsetOrdering
    <3> QED BY <3>1, <3>4, <3>5
  <2> QED BY <2>3
<1> QED BY <1>1, <1>7 DEF count, Window

(* What the limits look at in two versions of the table. *)
SameSends(a, b) ==
  \A c \in Ids :
    /\ a[c] = NoRow <=> b[c] = NoRow
    /\ a[c] # NoRow => a[c].last = b[c].last /\ a[c].sends = b[c].sends /\ a[c].exp = b[c].exp

LEMMA SameSendsSameLimits ==
  ASSUME NEW a \in Rows, NEW b \in Rows, SameSends(a, b), NEW n \in Int
  PROVE  /\ SendsInWindow(a, n) = SendsInWindow(b, n)
         /\ MaySend(a, n) <=> MaySend(b, n)
<1>1. Window(a, n) = Window(b, n)
  BY DEF Window, SameSends
<1>2. Slots(a, Window(a, n)) = Slots(b, Window(b, n))
  <2>1. \A c \in Window(a, n) : a[c].sends = b[c].sends
    BY DEF Window, SameSends
  <2> HIDE DEF Window
  <2> QED BY <1>1, <2>1 DEF Slots
<1>3. SendsInWindow(a, n) = SendsInWindow(b, n)
  BY <1>2, SendsCounted
<1> QED BY <1>3 DEF MaySend, SameSends

(* Later, fewer sends count. *)
LEMMA WindowShrinks ==
  ASSUME NEW rows \in Rows, NEW m \in Int, NEW n \in Int, m <= n
  PROVE  /\ SendsInWindow(rows, n) <= SendsInWindow(rows, m)
         /\ SendsInWindow(rows, n) \in Nat /\ SendsInWindow(rows, m) \in Nat
         /\ MaySend(rows, m) => MaySend(rows, n)
<1>0. /\ Ttl \in Nat /\ MinInterval \in Nat /\ MaxSends \in Nat
      /\ \A c \in Ids : rows[c] # NoRow => rows[c].last \in Nat
  BY BoundsAssumption DEF BoundsAssumption, Rows, Row
<1>1. Window(rows, n) \subseteq Window(rows, m)
  BY <1>0 DEF Window
<1>2. Slots(rows, Window(rows, n)) \subseteq Slots(rows, Window(rows, m))
  BY <1>1 DEF Slots
<1>3. /\ SendsInWindow(rows, n) <= SendsInWindow(rows, m)
      /\ SendsInWindow(rows, n) \in Nat /\ SendsInWindow(rows, m) \in Nat
  BY <1>2, SendsCounted, FiniteSlots, FS_Subset
<1> QED BY <1>0, <1>3 DEF MaySend

(* Rows that expired long before do not count. *)
LEMMA ForgottenRows ==
  ASSUME NEW rows \in Rows, NEW kept \in Rows, NEW n \in Int,
         \A c \in Ids : kept[c] # rows[c] =>
           kept[c] = NoRow /\ rows[c] # NoRow /\ rows[c].last < n - Retention
  PROVE  /\ SendsInWindow(kept, n) = SendsInWindow(rows, n)
         /\ MaySend(kept, n) <=> MaySend(rows, n)
<1>0. /\ Ttl \in Nat /\ MinInterval \in Nat /\ Retention \in Nat
      /\ Retention >= Ttl /\ Retention >= MinInterval
      /\ \A c \in Ids : rows[c] # NoRow => rows[c].last \in Nat
  BY BoundsAssumption DEF BoundsAssumption, Rows, Row
<1>1. \A c \in Ids : kept[c] # rows[c] => /\ kept[c] = NoRow /\ ~(rows[c].last > n - Ttl)
                                          /\ rows[c].last <= n - MinInterval
  BY <1>0
<1>2. Window(kept, n) = Window(rows, n)
  BY <1>1 DEF Window
<1>3. Slots(kept, Window(kept, n)) = Slots(rows, Window(rows, n))
  <2>1. \A c \in Window(kept, n) : kept[c] = rows[c]
    BY <1>1 DEF Window
  <2> HIDE DEF Window
  <2> QED BY <1>2, <2>1 DEF Slots
<1>4. SendsInWindow(kept, n) = SendsInWindow(rows, n)
  BY <1>3, SendsCounted
<1> QED BY <1>1, <1>4 DEF MaySend

(* A send that the table counts in addition. *)
LEMMA OneMoreCounted ==
  ASSUME NEW a \in Rows, NEW b \in Rows, NEW n \in Int, NEW p,
         Slots(a, Window(a, n)) \cup {p} \subseteq Slots(b, Window(b, n)),
         p \notin Slots(a, Window(a, n))
  PROVE  SendsInWindow(b, n) >= SendsInWindow(a, n) + 1
<1> DEFINE A == Slots(a, Window(a, n))
           B == Slots(b, Window(b, n))
<1>1. /\ IsFiniteSet(A) /\ Cardinality(A) \in Nat
      /\ IsFiniteSet(B) /\ Cardinality(B) \in Nat
  BY FiniteSlots
<1>2. SendsInWindow(a, n) = Cardinality(A) /\ SendsInWindow(b, n) = Cardinality(B)
  BY SendsCounted
<1> HIDE DEF A, B
<1>3. Cardinality(A \cup {p}) = Cardinality(A) + 1
  BY <1>1, FS_AddElement DEF A
<1>4. Cardinality(A \cup {p}) <= Cardinality(B) /\ IsFiniteSet(A \cup {p})
  BY <1>1, FS_Subset DEF A, B
<1> QED BY <1>1, <1>2, <1>3, <1>4, FS_CardinalityType

(* Sends since the last clean-up, and those of them that a window holds. *)
Recent == {i \in DOMAIN sent : sent[i] > cleanedAt}
RecentSince(t) == {i \in Recent : sent[i] > t}

(* No clock in use is ahead, and no row was sent to after it had expired. *)
SendShape ==
  /\ sent \in Seq(Nat) /\ cleanedAt \in Nat /\ cleanedAt <= clock
  /\ \A i \in DOMAIN sent : sent[i] <= clock
  /\ \A r \in Requests :
       req[r].pc \in {"create", "resendRead", "resendWrite"} => req[r].now <= clock
  /\ \A c \in Ids : Live(c) => challenges[c].last < challenges[c].exp

(* Some row in the table is as late as any recent send: the interval is measured from it. *)
LatestCovered == \A i \in Recent : \E c \in Ids : Live(c) /\ sent[i] <= challenges[c].last

(* At every time at which the limits would admit a send, by a clock however stale, the
   rows that are left count all recent sends of the window. *)
WindowCounted ==
  \A n \in Nat : MaySend(challenges, n) =>
    Cardinality(RecentSince(n - Ttl)) <= SendsInWindow(challenges, n)

SendInv == SendShape /\ LatestCovered /\ WindowCounted /\ SendsLimitedBetweenCleanups

LEMMA FiniteRecent ==
  ASSUME SendShape, NEW T \in SUBSET DOMAIN sent
  PROVE  IsFiniteSet(T) /\ Cardinality(T) \in Nat
<1>1. DOMAIN sent = 1 .. Len(sent) /\ Len(sent) \in Nat
  BY DEF SendShape
<1>2. IsFiniteSet(DOMAIN sent)
  BY <1>1, FS_Interval
<1> QED BY <1>2, FS_Subset, FS_CardinalityType

(* The send that a step appends. *)
LEMMA RecentAdded ==
  ASSUME SendShape, NEW m \in Nat, sent' = Append(sent, m), UNCHANGED cleanedAt
  PROVE  LET k == Len(sent) + 1 IN
         /\ k \notin DOMAIN sent /\ DOMAIN sent' = DOMAIN sent \cup {k}
         /\ sent'[k] = m /\ \A i \in DOMAIN sent : sent'[i] = sent[i]
         /\ Recent' = Recent \cup (IF m > cleanedAt THEN {k} ELSE {})
<1> DEFINE k == Len(sent) + 1
<1>1. sent \in Seq(Nat)
  BY DEF SendShape
<1>2. k \notin DOMAIN sent /\ DOMAIN sent' = DOMAIN sent \cup {k} /\ sent'[k] = m
  BY <1>1
<1>3. \A i \in DOMAIN sent : sent'[i] = sent[i]
  BY <1>1
<1>4. Recent' = {i \in DOMAIN sent' : sent'[i] > cleanedAt}
  BY DEF Recent
<1> HIDE DEF k
<1>5. Recent' = Recent \cup (IF m > cleanedAt THEN {k} ELSE {})
  <2>1. ASSUME NEW i \in Recent' PROVE i \in Recent \cup (IF m > cleanedAt THEN {k} ELSE {})
    BY <1>2, <1>3, <1>4, <2>1 DEF Recent
  <2>2. ASSUME NEW i \in Recent PROVE i \in Recent'
    BY <1>2, <1>3, <1>4, <2>2 DEF Recent
  <2>3. m > cleanedAt => k \in Recent'
    BY <1>2, <1>4
  <2> QED BY <2>1, <2>2, <2>3
<1> QED BY <1>2, <1>3, <1>5 DEF k

(* A send at m that keeps its distance from the recent ones and finds room in the window
   keeps the limits. *)
LEMMA SendWithinLimits ==
  ASSUME SendShape, SendsLimitedBetweenCleanups, NEW m \in Nat,
         sent' = Append(sent, m), UNCHANGED cleanedAt,
         \A i \in Recent : sent[i] <= m - MinInterval,
         Cardinality(RecentSince(m - Ttl)) < MaxSends
  PROVE  SendsLimitedBetweenCleanups'
<1> DEFINE k == Len(sent) + 1
           Win(i) == {j \in Recent : sent[j] \in sent[i] .. sent[i] + Ttl - 1}
<1>0. /\ Ttl \in Nat \ {0} /\ MinInterval \in Nat \ {0} /\ MaxSends \in Nat \ {0}
      /\ k \in Nat /\ DOMAIN sent \subseteq Nat /\ \A i \in DOMAIN sent : i < k
  BY BoundsAssumption DEF BoundsAssumption, SendShape
<1>1. /\ k \notin DOMAIN sent /\ DOMAIN sent' = DOMAIN sent \cup {k}
      /\ sent'[k] = m /\ \A i \in DOMAIN sent : sent'[i] = sent[i]
      /\ Recent' = Recent \cup (IF m > cleanedAt THEN {k} ELSE {})
  BY RecentAdded
<1>2. /\ \A i \in DOMAIN sent : sent[i] \in Nat
      /\ Recent \subseteq DOMAIN sent
  BY DEF SendShape, Recent
<1> HIDE DEF k
<1>3. /\ \A i, j \in Recent : i < j => sent[j] - sent[i] >= MinInterval
      /\ \A i \in Recent : Cardinality(Win(i)) <= MaxSends
  BY DEF SendsLimitedBetweenCleanups, Recent
<1>4. \A i, j \in Recent' : i < j => sent'[j] - sent'[i] >= MinInterval
  <2> SUFFICES ASSUME NEW i \in Recent', NEW j \in Recent', i < j
               PROVE  sent'[j] - sent'[i] >= MinInterval
    OBVIOUS
  <2>1. CASE j = k
    <3>1. i \in Recent
      BY <1>0, <1>1, <2>1
    <3>2. sent'[i] = sent[i] /\ sent[i] <= m - MinInterval /\ sent[i] \in Nat /\ sent'[j] = m
      BY <1>1, <1>2, <2>1, <3>1
    <3> QED BY <1>0, <3>2
  <2>2. CASE j # k
    <3>1. j \in Recent
      BY <1>1, <2>2
    <3>2. i \in Recent
      <4>1. i # k
        BY <1>0, <1>2, <3>1
      <4> QED BY <1>1, <4>1
    <3> QED BY <1>1, <1>2, <1>3, <3>1, <3>2
  <2> QED BY <2>1, <2>2
<1>5. ASSUME NEW i \in Recent'
      PROVE  Cardinality({j \in Recent' : sent'[j] \in sent'[i] .. sent'[i] + Ttl - 1}) <= MaxSends
  <2> DEFINE W == {j \in Recent' : sent'[j] \in sent'[i] .. sent'[i] + Ttl - 1}
  <2>1. CASE k \notin W
    <3>1. i \in Recent
      <4>1. i # k
        BY <1>0, <1>1, <1>5, <2>1
      <4> QED BY <1>1, <4>1, <1>5
    <3>2. W = Win(i)
      <4>1. \A j \in W : j \in Recent
        BY <1>1, <2>1
      <4>2. \A j \in Recent : sent'[j] = sent[j]
        BY <1>1, <1>2
      <4> QED BY <1>1, <3>1, <4>1, <4>2
    <3> QED BY <1>3, <3>1, <3>2
  <2>2. CASE k \in W
    <3>1. sent'[i] \in Nat /\ m <= sent'[i] + Ttl - 1 /\ sent'[i] <= m
      BY <1>0, <1>1, <1>2, <1>5, <2>2
    <3>2. W \subseteq RecentSince(m - Ttl) \cup {k}
      <4> SUFFICES ASSUME NEW j \in W, j # k PROVE j \in RecentSince(m - Ttl)
        OBVIOUS
      <4>1. j \in Recent /\ sent'[j] = sent[j] /\ sent[j] \in Nat
        BY <1>1, <1>2
      <4>2. sent'[j] \in sent'[i] .. sent'[i] + Ttl - 1
        OBVIOUS
      <4>3. \A x, y \in Nat : x \in y .. y + Ttl - 1 /\ m <= y + Ttl - 1 => x > m - Ttl
        BY <1>0
      <4> HIDE DEF W
      <4>4. sent[j] > m - Ttl
        BY <3>1, <4>1, <4>2, <4>3
      <4> QED BY <4>1, <4>4 DEF RecentSince
    <3>3. IsFiniteSet(RecentSince(m - Ttl)) /\ Cardinality(RecentSince(m - Ttl)) \in Nat
          /\ k \notin RecentSince(m - Ttl)
      BY <1>1, <1>2, FiniteRecent DEF RecentSince
    <3>4. /\ IsFiniteSet(RecentSince(m - Ttl) \cup {k})
          /\ Cardinality(RecentSince(m - Ttl) \cup {k}) = Cardinality(RecentSince(m - Ttl)) + 1
      BY <3>3, FS_AddElement
    <3>5. IsFiniteSet(W) /\ Cardinality(W) <= Cardinality(RecentSince(m - Ttl) \cup {k})
      BY <3>2, <3>4, FS_Subset
    <3>6. Cardinality(W) \in Nat
      BY <3>5, FS_CardinalityType
    <3> HIDE DEF W
    <3>7. Cardinality(W) <= MaxSends
      BY <1>0, <3>3, <3>4, <3>5, <3>6
    <3> QED BY <3>7 DEF W
  <2> QED BY <2>1, <2>2
<1> QED BY <1>4, <1>5 DEF SendsLimitedBetweenCleanups, Recent

(* The table after a send at m counts it as long as a window holds it. *)
LEMMA SendKeepsCount ==
  ASSUME SendShape, NEW m \in Nat, sent' = Append(sent, m), UNCHANGED cleanedAt,
         NEW rows \in Rows, challenges' \in Rows, MaySend(rows, m),
         \A n \in Nat : MaySend(rows, n) /\ m <= n =>
           Cardinality(RecentSince(n - Ttl)) <= SendsInWindow(rows, n),
         NEW c \in Ids, challenges'[c] \in Row, challenges'[c].last = m,
         \A n \in Nat : m <= n =>
           IF m > n - Ttl THEN SendsInWindow(challenges', n) >= SendsInWindow(rows, n) + 1
                          ELSE SendsInWindow(challenges', n) >= SendsInWindow(rows, n)
  PROVE  WindowCounted'
<1> SUFFICES ASSUME NEW n \in Nat, MaySend(challenges', n)
             PROVE  Cardinality(RecentSince(n - Ttl)') <= SendsInWindow(challenges', n)
  BY DEF WindowCounted, MaySend, SendsInWindow
<1> DEFINE k == Len(sent) + 1
           old == RecentSince(n - Ttl)
           new == RecentSince(n - Ttl)'
<1>0. Ttl \in Nat /\ MinInterval \in Nat
  BY BoundsAssumption DEF BoundsAssumption
<1>1. m <= n
  <2>1. challenges'[c] # NoRow
    BY RowNotMissing
  <2>2. m <= n - MinInterval
    BY <2>1 DEF MaySend
  <2> QED BY <1>0, <2>2
<1>2. MaySend(rows, n) /\ SendsInWindow(rows, n) \in Nat /\ SendsInWindow(challenges', n) \in Nat
  BY <1>1, WindowShrinks
<1>3. Cardinality(old) <= SendsInWindow(rows, n)
  BY <1>1, <1>2
<1>4. new \subseteq old \cup (IF m > n - Ttl THEN {k} ELSE {})
  <2>1. new = {i \in Recent' : sent'[i] > n - Ttl}
    BY DEF RecentSince
  <2>2. Recent \subseteq DOMAIN sent
    BY DEF Recent
  <2> HIDE DEF k
  <2>3. /\ sent'[k] = m /\ \A i \in DOMAIN sent : sent'[i] = sent[i]
        /\ Recent' \subseteq Recent \cup {k}
    BY RecentAdded DEF k
  <2> HIDE DEF new
  <2> QED BY <2>1, <2>2, <2>3 DEF RecentSince
<1>5. IsFiniteSet(old) /\ Cardinality(old) \in Nat /\ k \notin old
  BY FiniteRecent, RecentAdded DEF RecentSince, Recent
<1> HIDE DEF old, new, k
<1>6. CASE m > n - Ttl
  <2>1. Cardinality(old \cup {k}) = Cardinality(old) + 1 /\ IsFiniteSet(old \cup {k})
    BY <1>5, FS_AddElement
  <2>2. IsFiniteSet(new) /\ Cardinality(new) <= Cardinality(old \cup {k})
    BY <1>4, <1>6, <2>1, FS_Subset
  <2>3. Cardinality(new) \in Nat
    BY <2>2, FS_CardinalityType
  <2>4. SendsInWindow(challenges', n) >= SendsInWindow(rows, n) + 1
    BY <1>1, <1>6
  <2>5. Cardinality(new) <= SendsInWindow(challenges', n)
    BY <1>2, <1>3, <1>5, <2>1, <2>2, <2>3, <2>4
  <2> QED BY <2>5 DEF new
<1>7. CASE ~(m > n - Ttl)
  <2>2. IsFiniteSet(new) /\ Cardinality(new) <= Cardinality(old)
    BY <1>4, <1>5, <1>7, FS_Subset
  <2>3. Cardinality(new) \in Nat
    BY <2>2, FS_CardinalityType
  <2>4. SendsInWindow(challenges', n) >= SendsInWindow(rows, n)
    BY <1>1, <1>7
  <2>5. Cardinality(new) <= SendsInWindow(challenges', n)
    BY <1>2, <1>3, <1>5, <2>2, <2>3, <2>4
  <2> QED BY <2>5 DEF new
<1> QED BY <1>6, <1>7

(* A send leaves a row that is as late as it. *)
LEMMA SendCovered ==
  ASSUME SendShape, NEW m \in Nat, sent' = Append(sent, m), UNCHANGED cleanedAt,
         NEW c \in Ids, challenges'[c] # NoRow, challenges'[c].last = m,
         \A i \in Recent : sent[i] <= m
  PROVE  LatestCovered'
<1> SUFFICES ASSUME NEW i \in Recent' PROVE sent'[i] <= m
  BY DEF LatestCovered, Live
<1>1. Recent \subseteq DOMAIN sent
  BY DEF Recent
<1> QED BY <1>1, RecentAdded

LEMMA SendShapeAfter ==
  ASSUME SendShape, NEW m \in Nat, m <= clock, sent' = Append(sent, m),
         UNCHANGED <<cleanedAt, clock>>,
         \A r \in Requests :
           req'[r] = req[r] \/ req'[r].pc \notin {"create", "resendRead", "resendWrite"},
         \A c \in Ids : challenges'[c] # NoRow =>
           \/ challenges'[c] = challenges[c]
           \/ challenges'[c].last < challenges'[c].exp
  PROVE  SendShape'
<1>1. sent' \in Seq(Nat)
  BY DEF SendShape
<1>2. \A i \in DOMAIN sent' : sent'[i] <= clock
  BY RecentAdded DEF SendShape
<1> QED BY <1>1, <1>2 DEF SendShape, Live

(* Create: deleting the old rows changes no decision that the limits can still take. *)
LEMMA CreateSends ==
  ASSUME IInv, SendInv, NEW r \in Requests, Create(r), IInv'
  PROVE  SendInv'
<1> DEFINE now == req[r].now
           kept == [c \in Ids |-> IF Live(c) /\ challenges[c].exp <= now - Retention
                                  THEN NoRow ELSE challenges[c]]
           new == [code |-> 1, exp |-> now + Ttl, attempts |-> 0, sends |-> 1, last |-> now,
                   verifiedBy |-> WrongCode, consumed |-> FALSE, invalidated |-> FALSE]
           store == [pc |-> "store", ch |-> issued + 1, secret |-> 1, old |-> {}]
<1>0. /\ Ttl \in Nat \ {0} /\ MinInterval \in Nat \ {0} /\ MaxSends \in Nat \ {0}
      /\ Retention \in Nat /\ Retention >= Ttl /\ Retention >= MinInterval
  BY BoundsAssumption DEF BoundsAssumption
<1>1. /\ req[r].pc = "create" /\ now \in Nat /\ now <= clock /\ issued + 1 \in Ids
      /\ req \in [Requests -> RequestState]
      /\ UNCHANGED <<clock, cleanedAt>>
  <2>1. req[r].pc = "create" /\ issued < MaxChallenges /\ UNCHANGED <<clock, cleanedAt>>
    BY DEF Create
  <2>2. now \in Nat /\ req \in [Requests -> RequestState] /\ issued \in 0 .. MaxChallenges
    BY <2>1, RequestShape DEF IInv, TypeOK
  <2>3. now <= clock
    BY <2>1 DEF SendInv, SendShape
  <2>4. issued + 1 \in Ids
    BY <2>1, <2>2, BoundsAssumption DEF BoundsAssumption, Ids
  <2> QED BY <2>1, <2>2, <2>3, <2>4
<1>2. challenges \in Rows /\ kept \in Rows /\ challenges' \in Rows
  BY DEF IInv, TypeOK, Rows
<1>3. \A c \in Ids : challenges[c] # NoRow =>
        challenges[c].last \in Nat /\ challenges[c].exp \in Nat
        /\ challenges[c].last < challenges[c].exp
  BY <1>2 DEF SendInv, SendShape, Live, Rows, Row
<1>4. \A c \in Ids : kept[c] # challenges[c] =>
        /\ kept[c] = NoRow /\ challenges[c] # NoRow
        /\ challenges[c].last < now - Retention
  BY <1>0, <1>1, <1>3 DEF Live
<1>5. /\ SendsInWindow(kept, now) = SendsInWindow(challenges, now)
      /\ MaySend(kept, now) <=> MaySend(challenges, now)
  BY <1>1, <1>2, <1>4, ForgottenRows
<1>6. ASSUME NEW n \in Nat, now <= n
      PROVE  /\ SendsInWindow(kept, n) = SendsInWindow(challenges, n)
             /\ MaySend(kept, n) <=> MaySend(challenges, n)
  <2>1. \A c \in Ids : kept[c] # challenges[c] =>
          /\ kept[c] = NoRow /\ challenges[c] # NoRow
          /\ challenges[c].last < n - Retention
    <3> HIDE DEF kept
    <3> QED BY <1>0, <1>1, <1>3, <1>4, <1>6
  <2> QED BY <1>2, <2>1, ForgottenRows
<1>7. Idle.pc \notin {"create", "resendRead", "resendWrite"}
      /\ store.pc \notin {"create", "resendRead", "resendWrite"}
  BY DEF Idle
<1>8. CASE /\ ~MaySend(kept, now) /\ challenges' = kept
           /\ Become(r, Idle) /\ UNCHANGED <<issued, sent>>
  <2> HIDE DEF kept
  <2>0. Recent' = Recent /\ \A t : RecentSince(t)' = RecentSince(t)
    BY <1>1, <1>8 DEF Recent, RecentSince
  <2>1. SendShape'
    <3>1. \A t \in Requests : req'[t] = req[t] \/ req'[t] = Idle
      BY <1>1, <1>8 DEF Become
    <3>2. \A c \in Ids : Live(c)' => Live(c) /\ challenges'[c] = challenges[c]
      BY <1>4, <1>8 DEF Live
    <3> QED BY <1>1, <1>7, <1>8, <3>1, <3>2 DEF SendInv, SendShape
  (* A row that blocks a send now is later than the rows that were deleted. *)
  <2>2. ASSUME NEW c \in Ids, kept[c] # challenges[c]
        PROVE  \E d \in Ids : kept[d] # NoRow /\ challenges[c].last <= kept[d].last
    <3>0. challenges[c].last < now - Retention /\ challenges[c].last \in Nat
      BY <1>3, <1>4, <2>2
    <3>a. \A d \in Ids : kept[d] # NoRow => kept[d].last \in Nat
      BY <1>2 DEF Rows, Row
    <3>1. CASE \E d \in Ids : kept[d] # NoRow /\ ~(kept[d].last <= now - MinInterval)
      BY <1>0, <1>1, <3>0, <3>a, <3>1
    <3>2. CASE ~(SendsInWindow(kept, now) < MaxSends)
      <4>1. SendsInWindow(kept, now) # 0
        BY <1>0, <3>2
      <4>2. Window(kept, now) # {}
        <5>1. Slots(kept, {}) = {}
          BY DEF Slots
        <5>2. SendsInWindow(kept, now) = Cardinality(Slots(kept, Window(kept, now)))
          BY <1>1, <1>2, SendsCounted
        <5> HIDE DEF Window
        <5> QED BY <4>1, <5>1, <5>2, FS_EmptySet
      <4>3. PICK d \in Ids : kept[d] # NoRow /\ kept[d].last > now - Ttl
        BY <4>2 DEF Window
      <4> QED BY <1>0, <1>1, <3>0, <3>a, <4>3
    <3> QED BY <1>8, <3>1, <3>2 DEF MaySend
  <2>3. LatestCovered'
    <3> SUFFICES ASSUME NEW i \in Recent
                 PROVE  \E d \in Ids : kept[d] # NoRow /\ sent[i] <= kept[d].last
      BY <1>8, <2>0 DEF LatestCovered, Live
    <3>1. PICK c \in Ids : challenges[c] # NoRow /\ sent[i] <= challenges[c].last
      BY DEF SendInv, LatestCovered, Live
    <3>2. CASE kept[c] = challenges[c]
      BY <3>1, <3>2
    <3>3. CASE kept[c] # challenges[c]
      <4>1. PICK d \in Ids : kept[d] # NoRow /\ challenges[c].last <= kept[d].last
        BY <2>2, <3>3
      <4>2. sent[i] \in Nat /\ challenges[c].last \in Nat /\ kept[d].last \in Nat
        <5>1. \A row \in Row : row.last \in Nat
          BY DEF Row
        <5>2. challenges[c] \in Row /\ kept[d] \in Row
          BY <1>2, <1>3, <3>1, <4>1 DEF Rows
        <5>3. sent[i] \in Nat
          BY DEF SendInv, SendShape, Recent
        <5> QED BY <5>1, <5>2, <5>3
      <4> QED BY <3>1, <4>1, <4>2
    <3> QED BY <3>2, <3>3
  <2>4. WindowCounted'
    <3> SUFFICES ASSUME NEW n \in Nat, MaySend(kept, n)
                 PROVE  Cardinality(RecentSince(n - Ttl)) <= SendsInWindow(kept, n)
      <4>1. WindowCounted' <=> \A n \in Nat : MaySend(challenges', n) =>
              Cardinality(RecentSince(n - Ttl)') <= SendsInWindow(challenges', n)
        BY DEF WindowCounted, MaySend, SendsInWindow
      <4> QED BY <1>8, <2>0, <4>1
    <3>1. now <= n
      <4>1. ~(n <= now)
        BY <1>1, <1>2, <1>8, WindowShrinks
      <4> QED BY <1>1, <4>1
    <3>2. MaySend(challenges, n) /\ SendsInWindow(kept, n) = SendsInWindow(challenges, n)
      BY <1>6, <3>1
    <3> QED BY <3>2 DEF SendInv, WindowCounted
  <2>5. SendsLimitedBetweenCleanups'
    BY <1>1, <1>8 DEF SendInv, SendsLimitedBetweenCleanups
  <2> QED BY <2>1, <2>3, <2>4, <2>5 DEF SendInv
<1>9. CASE /\ MaySend(kept, now) /\ issued' = issued + 1
           /\ challenges' = [kept EXCEPT ![issued + 1] = new]
           /\ sent' = Append(sent, now) /\ Become(r, store)
  <2> DEFINE c == issued + 1
  <2>1. new \in Row /\ new.last = now /\ new.exp = now + Ttl /\ new.sends = 1
    BY <1>0, <1>1, BoundsAssumption DEF BoundsAssumption, Row, WrongCode
  <2>2. challenges[c] = NoRow
    BY <1>1 DEF IInv, FreshIds, TypeOK
  <2>3. kept[c] = NoRow
    BY <1>1, <1>4, <2>2
  <2> HIDE DEF new, kept, store
  <2>4. /\ challenges'[c] = new /\ c \in Ids
        /\ \A d \in Ids : d # c => challenges'[d] = kept[d]
    BY <1>1, <1>2, <1>9 DEF Rows
  <2>5. SendShape'
    <3>1. \A t \in Requests : req'[t] = req[t] \/ req'[t] = store
      BY <1>1, <1>9 DEF Become
    <3>2. \A d \in Ids : challenges'[d] # NoRow =>
            challenges'[d] = challenges[d] \/ challenges'[d].last < challenges'[d].exp
      BY <1>0, <1>1, <1>4, <2>1, <2>4
    <3> QED BY <1>1, <1>7, <1>9, <3>1, <3>2, SendShapeAfter DEF SendInv
  <2>6. \A i \in Recent : sent[i] \in Nat /\ sent[i] <= now - MinInterval
    <3> SUFFICES ASSUME NEW i \in Recent PROVE sent[i] \in Nat /\ sent[i] <= now - MinInterval
      OBVIOUS
    <3>1. PICK d \in Ids : challenges[d] # NoRow /\ sent[i] <= challenges[d].last
      BY DEF SendInv, LatestCovered, Live
    <3>2. challenges[d].last <= now - MinInterval
      BY <1>5, <1>9, <3>1 DEF MaySend
    <3>3. sent[i] \in Nat /\ challenges[d].last \in Nat
      BY <1>3, <3>1 DEF SendInv, SendShape, Recent
    <3> QED BY <1>0, <1>1, <3>1, <3>2, <3>3
  <2>7. LatestCovered'
    <3>1. \A i \in Recent : sent[i] <= now
      BY <1>0, <1>1, <2>6
    <3>2. challenges'[c] # NoRow /\ challenges'[c].last = now
      BY <2>1, <2>4, RowNotMissing
    <3> QED BY <1>1, <1>9, <2>4, <3>1, <3>2, SendCovered DEF SendInv
  <2>8. SendsLimitedBetweenCleanups'
    <3>1. Cardinality(RecentSince(now - Ttl)) <= SendsInWindow(challenges, now)
      BY <1>1, <1>5, <1>9 DEF SendInv, WindowCounted
    <3>2. SendsInWindow(challenges, now) < MaxSends /\ SendsInWindow(challenges, now) \in Nat
      BY <1>1, <1>2, <1>5, <1>9, WindowShrinks DEF MaySend
    <3>3. Cardinality(RecentSince(now - Ttl)) \in Nat
      BY FiniteRecent DEF SendInv, RecentSince, Recent
    <3>4. Cardinality(RecentSince(now - Ttl)) < MaxSends
      BY <1>0, <3>1, <3>2, <3>3
    <3> QED BY <1>1, <1>9, <2>6, <3>4, SendWithinLimits DEF SendInv
  <2>9. WindowCounted'
    <3>1. ASSUME NEW n \in Nat, MaySend(kept, n), now <= n
          PROVE  Cardinality(RecentSince(n - Ttl)) <= SendsInWindow(kept, n)
      BY <1>6, <3>1 DEF SendInv, WindowCounted
    <3>2. ASSUME NEW n \in Nat, now <= n
          PROVE  IF now > n - Ttl
                 THEN SendsInWindow(challenges', n) >= SendsInWindow(kept, n) + 1
                 ELSE SendsInWindow(challenges', n) >= SendsInWindow(kept, n)
      <4> DEFINE A == Slots(kept, Window(kept, n))
                 B == Slots(challenges', Window(challenges', n))
      <4>1. A \subseteq B
        <5>1. \A d \in Window(kept, n) : d # c /\ d \in Window(challenges', n)
                                         /\ challenges'[d] = kept[d]
          BY <2>3, <2>4 DEF Window
        <5> HIDE DEF Window
        <5> QED BY <5>1 DEF Slots
      <4>2. CASE now > n - Ttl
        <5>1. <<c, 1>> \in B
          <6>1. c \in Window(challenges', n)
            BY <2>1, <2>4, <4>2, RowNotMissing DEF Window
          <6> HIDE DEF Window
          <6> QED BY <1>0, <2>1, <2>4, <6>1 DEF Slots
        <5>2. <<c, 1>> \notin A
          BY <2>3 DEF Slots, Window
        <5>3. SendsInWindow(challenges', n) >= SendsInWindow(kept, n) + 1
          BY <1>2, <4>1, <5>1, <5>2, OneMoreCounted
        <5> QED BY <4>2, <5>3
      <4>3. CASE ~(now > n - Ttl)
        <5>1. SendsInWindow(challenges', n) >= SendsInWindow(kept, n)
          BY <1>2, <4>1, SendsCounted, FiniteSlots, FS_Subset
        <5> QED BY <4>3, <5>1
      <4> QED BY <4>2, <4>3
    <3>3. challenges'[c] \in Row /\ challenges'[c].last = now
      BY <2>1, <2>4
    <3> QED BY <1>1, <1>2, <1>9, <2>4, <3>1, <3>2, <3>3, SendKeepsCount DEF SendInv
  <2> QED BY <2>5, <2>7, <2>8, <2>9 DEF SendInv
<1> QED BY <1>8, <1>9 DEF Create

(* ResendWrite: the row counts the new send, and is the latest. *)
LEMMA ResendSends ==
  ASSUME IInv, SendInv, NEW r \in Requests, ResendWrite(r), IInv',
         ResendFence(challenges[req[r].ch], req[r].seen, req[r].now),
         MaySend(challenges, req[r].now)
  PROVE  SendInv'
<1> DEFINE q == req[r]
           c == q.ch
           now == q.now
           row == challenges[c]
           new == [row EXCEPT !.code = q.seen.code + 1, !.sends = @ + 1, !.last = now]
           store == [pc |-> "store", ch |-> c, secret |-> q.seen.code + 1, old |-> {q.session}]
<1>0. /\ Ttl \in Nat \ {0} /\ MinInterval \in Nat \ {0} /\ MaxSends \in Nat \ {0}
  BY BoundsAssumption DEF BoundsAssumption
<1>1. /\ q \in [pc : {"resendWrite"}, ch : Ids, now : Nat, session : Session, seen : Row]
      /\ req \in [Requests -> RequestState] /\ UNCHANGED <<clock, cleanedAt>>
      /\ q.seen.sends < MaxSends
  BY RequestShape DEF ResendWrite, IInv, TypeOK, SeenAdmits
<1>2. challenges \in Rows /\ challenges' \in Rows
  BY DEF IInv, TypeOK, Rows
<1>3. c \in Ids /\ now \in Nat /\ now <= clock
  BY <1>1 DEF SendInv, SendShape
<1>4. row \in Row /\ row # NoRow /\ row.sends = q.seen.sends /\ row.exp > now
  BY <1>2, <1>3 DEF ResendFence, Rows
<1>5. /\ challenges' = [challenges EXCEPT ![c] = new] /\ sent' = Append(sent, now)
      /\ req' = [req EXCEPT ![r] = store]
  BY <1>1, <1>2, <1>3, <1>4 DEF ResendWrite, Become, Rows
<1>6. /\ new.last = now /\ new.exp = row.exp /\ new.sends = row.sends + 1
      /\ row.sends \in Nat /\ row.last \in Nat /\ row.sends + 1 \in 1 .. MaxSends
  <2>1. row.sends \in 1 .. MaxSends /\ row.last \in Nat /\ row.sends < MaxSends
    BY <1>1, <1>4 DEF Row
  <2>2. row.sends + 1 \in 1 .. MaxSends
    BY <1>0, <2>1
  <2>3. new.last = now /\ new.exp = row.exp /\ new.sends = row.sends + 1
    BY <1>4 DEF Row
  <2> QED BY <2>1, <2>2, <2>3
<1>7. store.pc \notin {"create", "resendRead", "resendWrite"}
  OBVIOUS
<1> HIDE DEF new, store
<1>8. challenges'[c] = new /\ \A d \in Ids : d # c => challenges'[d] = challenges[d]
  BY <1>2, <1>3, <1>5 DEF Rows
<1>9. challenges'[c] \in Row /\ challenges'[c] # NoRow
  <2>1. challenges'[c] # NoRow
    <3>1. "last" \in DOMAIN new /\ "last" \notin DOMAIN NoRow
      BY <1>4 DEF new, Row, NoRow
    <3> QED BY <1>8, <3>1
  <2> QED BY <1>2, <1>3, <2>1 DEF Rows
<1>10. SendShape'
  <2>1. \A t \in Requests : req'[t] = req[t] \/ req'[t] = store
    BY <1>1, <1>5
  <2>2. \A d \in Ids : challenges'[d] # NoRow =>
          challenges'[d] = challenges[d] \/ challenges'[d].last < challenges'[d].exp
    BY <1>3, <1>4, <1>6, <1>8
  <2> QED BY <1>1, <1>3, <1>5, <1>7, <2>1, <2>2, SendShapeAfter DEF SendInv
<1>11. \A i \in Recent : sent[i] \in Nat /\ sent[i] <= now - MinInterval
  <2> SUFFICES ASSUME NEW i \in Recent PROVE sent[i] \in Nat /\ sent[i] <= now - MinInterval
    OBVIOUS
  <2>1. PICK d \in Ids : challenges[d] # NoRow /\ sent[i] <= challenges[d].last
    BY DEF SendInv, LatestCovered, Live
  <2>2. challenges[d].last <= now - MinInterval
    BY <2>1 DEF MaySend
  <2>3. sent[i] \in Nat /\ challenges[d].last \in Nat
    BY <1>2, <2>1 DEF SendInv, SendShape, Recent, Rows, Row
  <2> QED BY <1>0, <1>3, <2>1, <2>2, <2>3
<1>12. LatestCovered'
  <2>1. \A i \in Recent : sent[i] <= now
    BY <1>0, <1>3, <1>11
  <2> QED BY <1>1, <1>3, <1>5, <1>6, <1>8, <1>9, <2>1, SendCovered DEF SendInv
<1>13. SendsLimitedBetweenCleanups'
  <2>1. Cardinality(RecentSince(now - Ttl)) <= SendsInWindow(challenges, now)
    BY <1>3 DEF SendInv, WindowCounted
  <2>2. SendsInWindow(challenges, now) < MaxSends /\ SendsInWindow(challenges, now) \in Nat
    BY <1>2, <1>3, WindowShrinks DEF MaySend
  <2>3. Cardinality(RecentSince(now - Ttl)) \in Nat
    BY FiniteRecent DEF SendInv, RecentSince, Recent
  <2>4. Cardinality(RecentSince(now - Ttl)) < MaxSends
    BY <1>0, <2>1, <2>2, <2>3
  <2> QED BY <1>1, <1>3, <1>5, <1>11, <2>4, SendWithinLimits DEF SendInv
<1>14. WindowCounted'
  <2>1. ASSUME NEW n \in Nat, now <= n
        PROVE  IF now > n - Ttl
               THEN SendsInWindow(challenges', n) >= SendsInWindow(challenges, n) + 1
               ELSE SendsInWindow(challenges', n) >= SendsInWindow(challenges, n)
    <3> DEFINE A == Slots(challenges, Window(challenges, n))
               B == Slots(challenges', Window(challenges', n))
               p == <<c, row.sends + 1>>
    <3>0. row.last <= now - MinInterval
      BY <1>3, <1>4 DEF MaySend
    <3>1. CASE now > n - Ttl
      <4>1. c \in Window(challenges', n)
        BY <1>3, <1>6, <1>8, <1>9, <3>1 DEF Window
      <4>2. \A d \in Window(challenges, n) : d # c => d \in Window(challenges', n)
        BY <1>8 DEF Window
      <4>3. A \subseteq B
        <5> SUFFICES ASSUME NEW x \in A PROVE x \in B
          OBVIOUS
        <5>1. /\ x \in Ids \X (1 .. MaxSends) /\ x[1] \in Window(challenges, n)
              /\ x[2] <= challenges[x[1]].sends
          BY DEF Slots
        <5> HIDE DEF Window, A
        <5>2. CASE x[1] = c
          <6>1. x[2] <= row.sends + 1
            BY <1>6, <5>1, <5>2
          <6> QED BY <1>6, <1>8, <4>1, <5>1, <5>2, <6>1 DEF Slots
        <5>3. CASE x[1] # c
          BY <1>8, <4>2, <5>1, <5>3 DEF Slots
        <5> QED BY <5>2, <5>3
      <4>4. p \in B
        <5> HIDE DEF Window
        <5> QED BY <1>3, <1>6, <1>8, <4>1 DEF Slots
      <4>5. p \notin A
        BY <1>6 DEF Slots
      <4>6. SendsInWindow(challenges', n) >= SendsInWindow(challenges, n) + 1
        BY <1>2, <4>3, <4>4, <4>5, OneMoreCounted
      <4> QED BY <3>1, <4>6
    <3>2. CASE ~(now > n - Ttl)
      <4>1. c \notin Window(challenges, n)
        <5>1. ~(row.last > n - Ttl)
          BY <1>0, <1>3, <1>6, <3>0, <3>2
        <5> QED BY <5>1 DEF Window
      <4>2. \A d \in Window(challenges, n) :
              d \in Window(challenges', n) /\ challenges'[d] = challenges[d]
        BY <1>8, <4>1 DEF Window
      <4>3. A \subseteq B
        <5> HIDE DEF Window
        <5> QED BY <4>2 DEF Slots
      <4>4. SendsInWindow(challenges', n) >= SendsInWindow(challenges, n)
        BY <1>2, <4>3, SendsCounted, FiniteSlots, FS_Subset
      <4> QED BY <3>2, <4>4
    <3> QED BY <3>1, <3>2
  <2>2. \A n \in Nat : MaySend(challenges, n) /\ now <= n =>
          Cardinality(RecentSince(n - Ttl)) <= SendsInWindow(challenges, n)
    BY DEF SendInv, WindowCounted
  <2>3. challenges'[c].last = now
    BY <1>6, <1>8
  <2> QED BY <1>1, <1>2, <1>3, <1>5, <1>9, <2>1, <2>2, <2>3, SendKeepsCount DEF SendInv
<1> QED BY <1>10, <1>12, <1>13, <1>14 DEF SendInv

(* After a clean-up no send is recent. *)
LEMMA PruneSends ==
  ASSUME IInv, SendInv, PruneExpired
  PROVE  SendInv'
<1>1. UNCHANGED <<clock, req, sent>> /\ cleanedAt' = clock /\ clock \in Nat
      /\ challenges \in Rows
  BY DEF PruneExpired, IInv, TypeOK, Rows
<1>2. \A c \in Ids : challenges'[c] = challenges[c] \/ challenges'[c] = NoRow
  BY DEF PruneExpired
<1>3. Recent' = {}
  <2>1. \A i \in DOMAIN sent : sent[i] \in Nat /\ sent[i] <= clock
    BY DEF SendInv, SendShape
  <2>2. \A i \in DOMAIN sent : ~(sent[i] > clock)
    BY <1>1, <2>1
  <2> QED BY <1>1, <2>2 DEF Recent
<1>4. SendShape' /\ LatestCovered'
  BY <1>1, <1>2, <1>3 DEF SendInv, SendShape, LatestCovered, Live
<1>5. SendsLimitedBetweenCleanups'
  BY <1>3 DEF SendsLimitedBetweenCleanups, Recent
<1>6. WindowCounted'
  <2> SUFFICES ASSUME NEW n \in Nat
               PROVE  Cardinality(RecentSince(n - Ttl)') <= SendsInWindow(challenges', n)
    BY DEF WindowCounted, SendsInWindow
  <2>1. RecentSince(n - Ttl)' = {}
    BY <1>3 DEF RecentSince
  <2>2. challenges' \in Rows
    BY <1>1 DEF PruneExpired, Rows
  <2>3. SendsInWindow(challenges', n) \in Nat
    BY <2>2, WindowShrinks
  <2> QED BY <2>1, <2>3, FS_EmptySet
<1> QED BY <1>4, <1>5, <1>6 DEF SendInv

(* Steps that send nothing and delete nothing. *)
LEMMA QuietSends ==
  ASSUME IInv, SendInv, IInv', UNCHANGED <<sent, cleanedAt>>, clock <= clock',
         SameSends(challenges', challenges),
         \A t \in Requests :
           \/ req'[t] = req[t]
           \/ req'[t].pc \in {"create", "resendRead", "resendWrite"} => req'[t].now <= clock
  PROVE  SendInv'
<1>1. clock \in Nat /\ clock' \in Nat /\ challenges \in Rows /\ challenges' \in Rows
  BY DEF IInv, TypeOK, Rows
<1>2. Recent' = Recent /\ \A t : RecentSince(t)' = RecentSince(t)
  BY DEF Recent, RecentSince
<1>3. SendShape'
  <2>1. sent' \in Seq(Nat) /\ cleanedAt' \in Nat /\ cleanedAt' <= clock'
    BY <1>1 DEF SendInv, SendShape
  <2>2. \A i \in DOMAIN sent' : sent'[i] <= clock'
    <3>1. \A i \in DOMAIN sent : sent[i] \in Nat /\ sent[i] <= clock
      BY DEF SendInv, SendShape
    <3> QED BY <1>1, <3>1
  <2>3. ASSUME NEW t \in Requests, req'[t].pc \in {"create", "resendRead", "resendWrite"}
        PROVE  req'[t].now <= clock'
    <3>1. req'[t].now <= clock
      BY <2>3 DEF SendInv, SendShape
    <3>2. req'[t].now \in Nat
      BY <2>3, RequestShape DEF IInv, TypeOK
    <3> QED BY <1>1, <3>1, <3>2
  <2>4. \A c \in Ids : challenges'[c] # NoRow => challenges'[c].last < challenges'[c].exp
    BY DEF SendInv, SendShape, Live, SameSends
  <2> QED BY <2>1, <2>2, <2>3, <2>4 DEF SendShape, Live
<1>4. LatestCovered'
  BY <1>2 DEF SendInv, LatestCovered, Live, SameSends
<1>5. WindowCounted'
  <2> SUFFICES ASSUME NEW n \in Nat, MaySend(challenges', n)
               PROVE  Cardinality(RecentSince(n - Ttl)') <= SendsInWindow(challenges', n)
    BY DEF WindowCounted, MaySend, SendsInWindow
  <2>1. SendsInWindow(challenges', n) = SendsInWindow(challenges, n) /\ MaySend(challenges, n)
    BY <1>1, SameSendsSameLimits
  <2> QED BY <1>2, <2>1 DEF SendInv, WindowCounted
<1>6. SendsLimitedBetweenCleanups'
  BY DEF SendInv, SendsLimitedBetweenCleanups
<1> QED BY <1>3, <1>4, <1>5, <1>6 DEF SendInv

(* A request step that leaves the rows alone. *)
LEMMA QuietRequest ==
  ASSUME IInv, SendInv, IInv', NEW r \in Requests, NEW q, req' = [req EXCEPT ![r] = q],
         UNCHANGED <<sent, cleanedAt, clock, challenges>>,
         q.pc \in {"create", "resendRead", "resendWrite"} => q.now <= clock
  PROVE  SendInv'
<1>1. \A t \in Requests : req'[t] = req[t] \/ req'[t] = q
  BY DEF IInv, TypeOK
<1>2. SameSends(challenges', challenges)
  BY DEF SameSends
<1>3. clock <= clock'
  BY DEF IInv, TypeOK
<1> QED BY <1>1, <1>2, <1>3, QuietSends

(* A request step that changes one row in other columns. *)
LEMMA TouchRow ==
  ASSUME IInv, SendInv, IInv', NEW r \in Requests, NEW q, req' = [req EXCEPT ![r] = q],
         UNCHANGED <<sent, cleanedAt, clock>>,
         q.pc \notin {"create", "resendRead", "resendWrite"},
         NEW c \in Ids, challenges[c] \in Row, NEW e,
         challenges' = [challenges EXCEPT ![c] = e],
         e.last = challenges[c].last, e.sends = challenges[c].sends,
         e.exp = challenges[c].exp, e # NoRow
  PROVE  SendInv'
<1>1. \A t \in Requests : req'[t] = req[t] \/ req'[t] = q
  BY DEF IInv, TypeOK
<1>2. challenges'[c] = e /\ \A d \in Ids : d # c => challenges'[d] = challenges[d]
  BY DEF IInv, TypeOK
<1>3. SameSends(challenges', challenges)
  BY <1>2, RowNotMissing DEF SameSends
<1>4. clock <= clock'
  BY DEF IInv, TypeOK
<1> QED BY <1>1, <1>3, <1>4, QuietSends

LEMMA RequestSends ==
  ASSUME IInv, SendInv, IInv', NEW r \in Requests,
         IssueStep(r) \/ VerifyStep(r) \/ ResendStep(r) \/ AcceptStep(r) \/ RequestDies(r)
  PROVE  SendInv'
<1> DEFINE q == req[r]
<1>0. /\ clock \in Nat /\ req \in [Requests -> RequestState] /\ challenges \in Rows
      /\ q.pc \in {"create", "resendRead", "resendWrite"} => q.now <= clock
      /\ Idle.pc = "idle"
  BY DEF IInv, TypeOK, Rows, SendInv, SendShape, Idle
<1>1. CASE StartCreate(r)
  <2>1. clock <= clock /\ [pc |-> "create", now |-> clock].now = clock
    BY <1>0
  <2> QED BY <1>1, <2>1, QuietRequest DEF StartCreate, Become
<1>2. CASE Create(r)
  BY <1>2, CreateSends
<1>3. CASE StoreSession(r)
  <2>1. [q EXCEPT !.pc = "send"].pc = "send"
    BY <1>0, <1>3, RequestShape DEF StoreSession
  <2>2. /\ req' = [req EXCEPT ![r] = [q EXCEPT !.pc = "send"]]
        /\ UNCHANGED <<sent, cleanedAt, clock, challenges>>
    BY <1>3 DEF StoreSession, Become
  <2> QED BY <2>1, <2>2, QuietRequest
<1>4. CASE Send(r) \/ RequestDies(r) \/ Authorize(r)
  BY <1>0, <1>4, QuietRequest DEF Send, RequestDies, Authorize, Become
<1>5. CASE DeliveryFails(r)
  <2>1. [q EXCEPT !.pc = "invalidate"].pc = "invalidate"
    BY <1>0, <1>5, RequestShape DEF DeliveryFails
  <2>2. /\ req' = [req EXCEPT ![r] = [q EXCEPT !.pc = "invalidate"]]
        /\ UNCHANGED <<sent, cleanedAt, clock, challenges>>
    BY <1>5 DEF DeliveryFails, Become
  <2> QED BY <2>1, <2>2, QuietRequest
<1>6. CASE Invalidate(r)
  <2> DEFINE c == q.ch
             e == [challenges[c] EXCEPT !.invalidated = TRUE]
  <2>1. c \in Ids /\ UNCHANGED <<sent, cleanedAt, clock>> /\ req' = [req EXCEPT ![r] = Idle]
    BY <1>0, <1>6, RequestShape DEF Invalidate, Become
  <2>2. CASE Live(c) /\ ~challenges[c].consumed
    <3>1. challenges[c] \in Row
      BY <1>0, <2>1, <2>2 DEF Live, Rows
    <3>2. challenges' = [challenges EXCEPT ![c] = e]
      BY <1>6, <2>2 DEF Invalidate
    <3>3. e.last = challenges[c].last /\ e.sends = challenges[c].sends
          /\ e.exp = challenges[c].exp
      BY <3>1 DEF Row
    <3>4. "last" \in DOMAIN e /\ "last" \notin DOMAIN NoRow
      BY <3>1 DEF Row, NoRow
    <3> HIDE DEF e
    <3>5. e # NoRow
      BY <3>4
    <3> QED BY <1>0, <2>1, <3>1, <3>2, <3>3, <3>5, TouchRow
  <2>3. CASE ~(Live(c) /\ ~challenges[c].consumed)
    BY <1>0, <1>6, <2>1, <2>3, QuietRequest DEF Invalidate
  <2> QED BY <2>2, <2>3
<1>7. ASSUME NEW s \in sessions, NEW right \in BOOLEAN, StartVerify(r, s, right)
      PROVE  SendInv'
  BY <1>7, QuietRequest DEF StartVerify, Become
<1>8. CASE VerifyRead(r)
  <2>1. \E p : /\ p.pc \in {"verifyWrite", "idle"} /\ req' = [req EXCEPT ![r] = p]
               /\ UNCHANGED <<sent, cleanedAt, clock, challenges>>
    BY <1>0, <1>8 DEF VerifyRead, Become
  <2> QED BY <2>1, QuietRequest
<1>9. CASE VerifyWrite(r)
  <2> DEFINE c == q.ch
             ok == VerifyFence(challenges[c], q.seen, q.now)
             by == IF q.hash = q.seen.code THEN q.hash ELSE WrongCode
             e == [challenges[c] EXCEPT !.attempts = @ + 1, !.verifiedBy = by]
  <2>1. c \in Ids /\ UNCHANGED <<sent, cleanedAt, clock>>
    BY <1>0, <1>9, RequestShape DEF VerifyWrite
  <2>2. PICK p : p.pc \in {"authorize", "idle"} /\ req' = [req EXCEPT ![r] = p]
    <3> DEFINE a == [pc |-> "authorize", ch |-> c, session |-> q.session, exp |-> q.seen.exp]
    <3>1. a.pc = "authorize"
      OBVIOUS
    <3>2. \/ req' = [req EXCEPT ![r] = a]
          \/ req' = [req EXCEPT ![r] = Idle]
      BY <1>9 DEF VerifyWrite, Become
    <3> HIDE DEF a
    <3> QED BY <1>0, <3>1, <3>2
  <2>3. CASE ok
    <3>1. challenges[c] \in Row
      BY <1>0, <2>1, <2>3 DEF VerifyFence, Rows
    <3>2. challenges' = [challenges EXCEPT ![c] = e]
      BY <1>0, <1>9, <2>1, <2>3, <3>1 DEF VerifyWrite, Rows
    <3> HIDE DEF by
    <3>3. e.last = challenges[c].last /\ e.sends = challenges[c].sends
          /\ e.exp = challenges[c].exp
      BY <3>1 DEF Row
    <3>4. "last" \in DOMAIN e /\ "last" \notin DOMAIN NoRow
      BY <3>1 DEF Row, NoRow
    <3> HIDE DEF e
    <3>5. e # NoRow
      BY <3>4
    <3> QED BY <2>1, <2>2, <3>1, <3>2, <3>3, <3>5, TouchRow
  <2>4. CASE ~ok
    <3>1. UNCHANGED challenges
      BY <1>9, <2>4 DEF VerifyWrite
    <3> QED BY <2>1, <2>2, <3>1, QuietRequest
  <2> QED BY <2>3, <2>4
<1>10. ASSUME NEW s \in sessions, StartResend(r, s) PROVE SendInv'
  <2> DEFINE p == [pc |-> "resendRead", ch |-> s.ch, now |-> clock, session |-> s]
  <2>1. p.now = clock /\ clock <= clock
    BY <1>0
  <2>2. req' = [req EXCEPT ![r] = p] /\ UNCHANGED <<sent, cleanedAt, clock, challenges>>
    BY <1>10 DEF StartResend, Become
  <2> HIDE DEF p
  <2> QED BY <2>1, <2>2, QuietRequest
<1>11. CASE ResendRead(r)
  <2>1. \E p : /\ p.pc = "idle" \/ (p.pc = "resendWrite" /\ p.now = q.now)
               /\ req' = [req EXCEPT ![r] = p]
               /\ UNCHANGED <<sent, cleanedAt, clock, challenges>>
    BY <1>0, <1>11 DEF ResendRead, Become
  <2>2. q.now <= clock
    BY <1>0, <1>11 DEF ResendRead
  <2> QED BY <2>1, <2>2, QuietRequest
<1>12. CASE ResendWrite(r)
  <2>1. CASE ResendFence(challenges[q.ch], q.seen, q.now) /\ MaySend(challenges, q.now)
    BY <1>12, <2>1, ResendSends
  <2>2. CASE ~(ResendFence(challenges[q.ch], q.seen, q.now) /\ MaySend(challenges, q.now))
    <3>1. req' = [req EXCEPT ![r] = Idle] /\ UNCHANGED <<sent, cleanedAt, clock, challenges>>
      BY <1>12, <2>2 DEF ResendWrite, Become
    <3> QED BY <1>0, <3>1, QuietRequest
  <2> QED BY <2>1, <2>2
<1>13. ASSUME NEW e \in evidence, StartAccept(r, e) PROVE SendInv'
  BY <1>13, QuietRequest DEF StartAccept, Become
<1>14. CASE CommitAccept(r)
  <2> DEFINE c == q.evidence.ch
             e == [challenges[c] EXCEPT !.consumed = TRUE]
  <2>1. c \in Ids /\ UNCHANGED <<sent, cleanedAt, clock>> /\ req' = [req EXCEPT ![r] = Idle]
    BY <1>0, <1>14, RequestShape DEF CommitAccept, Become, Evidence
  <2>2. CASE UNCHANGED challenges
    BY <1>0, <2>1, <2>2, QuietRequest
  <2>3. CASE challenges[c] # NoRow /\ challenges' = [challenges EXCEPT ![c].consumed = TRUE]
    <3>1. challenges[c] \in Row
      BY <1>0, <2>1, <2>3 DEF Rows
    <3>2. challenges' = [challenges EXCEPT ![c] = e]
      BY <2>3
    <3>3. e.last = challenges[c].last /\ e.sends = challenges[c].sends
          /\ e.exp = challenges[c].exp
      BY <3>1 DEF Row
    <3>4. "last" \in DOMAIN e /\ "last" \notin DOMAIN NoRow
      BY <3>1 DEF Row, NoRow
    <3> HIDE DEF e
    <3>5. e # NoRow
      BY <3>4
    <3> QED BY <1>0, <2>1, <3>1, <3>2, <3>3, <3>5, TouchRow
  <2> QED BY <1>14, <2>2, <2>3 DEF CommitAccept, MayConsume, Live
<1> QED BY <1>1, <1>2, <1>3, <1>4, <1>5, <1>6, <1>7, <1>8, <1>9, <1>10, <1>11, <1>12, <1>13,
          <1>14 DEF IssueStep, VerifyStep, ResendStep, AcceptStep

LEMMA NextSends == IInv /\ SendInv /\ [Next]_vars /\ IInv' => SendInv'
<1> SUFFICES ASSUME IInv, SendInv, [Next]_vars, IInv' PROVE SendInv'
  OBVIOUS
<1>1. CASE PruneExpired
  BY <1>1, PruneSends
<1>2. CASE ShowPage \/ Revoke \/ Tick \/ UNCHANGED vars
  <2>1. UNCHANGED <<sent, cleanedAt, challenges, req>>
    BY <1>2 DEF ShowPage, Revoke, Tick, vars
  <2>2. clock <= clock'
    BY <1>2 DEF ShowPage, Revoke, Tick, vars, IInv, TypeOK
  <2>3. SameSends(challenges', challenges)
    BY <2>1 DEF SameSends
  <2> QED BY <2>1, <2>2, <2>3, QuietSends
<1> QED BY <1>1, <1>2, RequestSends DEF Next

(* SendsLimitedBetweenCleanups: between two runs of the hourly clean-up no request, however
   stale its clock, sends closer than the interval or more often than the window allows,
   for any interval, window, retention and number of requests.  The sums of the window are
   taken over rows that creations delete; what the deletion forgets no later decision
   could count. *)
THEOREM SendsStayLimited == Spec => []SendsLimitedBetweenCleanups
<1>1. Init => SendInv
  <2> SUFFICES ASSUME Init PROVE SendInv
    OBVIOUS
  <2>1. sent = <<>> /\ clock = 1 /\ cleanedAt = 0 /\ challenges \in Rows
        /\ \A c \in Ids : challenges[c] = NoRow
    BY DEF Init, Rows
  <2>2. SendShape
    BY <2>1 DEF Init, SendShape, Live, Idle
  <2>3. Recent = {} /\ \A t : RecentSince(t) = {}
    BY <2>1 DEF Recent, RecentSince
  <2>4. WindowCounted
    <3> SUFFICES ASSUME NEW n \in Nat
                 PROVE  Cardinality(RecentSince(n - Ttl)) <= SendsInWindow(challenges, n)
      BY DEF WindowCounted
    <3>1. SendsInWindow(challenges, n) \in Nat
      BY <2>1, WindowShrinks
    <3> QED BY <2>3, <3>1, FS_EmptySet
  <2>5. LatestCovered /\ SendsLimitedBetweenCleanups
    BY <2>3 DEF LatestCovered, SendsLimitedBetweenCleanups, Recent
  <2> QED BY <2>2, <2>4, <2>5 DEF SendInv
<1>2. SendInv => SendsLimitedBetweenCleanups
  BY DEF SendInv
<1> QED BY <1>1, <1>2, SpecIInv, NextSends, PTL DEF Spec

=============================================================================
