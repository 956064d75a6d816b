--------------------------- MODULE EmailChallenge ---------------------------
(***************************************************************************)
(* E-mail challenges of one invitation, one external identity and one      *)
(* destination address: the callback that issues a challenge, the page,    *)
(* the verification and the resend of the admin login, the acceptance that *)
(* consumes the evidence, and the hourly clean-up.                         *)
(*                                                                         *)
(* A request is a sequence of steps; each database call is one step, and   *)
(* requests interleave between them.  A request reads the clock once, when *)
(* it starts, and uses that value in all later calls.                      *)
(***************************************************************************)
EXTENDS Integers, FiniteSets, Sequences

CONSTANTS
  Requests,      \* slots of concurrent HTTP requests
  MaxChallenges, \* bound: rows ever created
  MaxClock,      \* bound: last time of the model
  Ttl,           \* EMAIL_CHALLENGE_TTL_MS, also the window of the send limit
  MaxAttempts,   \* EMAIL_CHALLENGE_MAX_ATTEMPTS
  MinInterval,   \* EMAIL_CHALLENGE_RESEND_INTERVAL_MS
  MaxSends,      \* EMAIL_CHALLENGE_MAX_SENDS
  Retention      \* the 24 hours after which create deletes an expired row

ASSUME BoundsAssumption ==
  /\ MaxChallenges \in Nat /\ MaxClock \in Nat
  /\ Ttl \in Nat \ {0} /\ MaxAttempts \in Nat \ {0}
  /\ MinInterval \in Nat \ {0} /\ MaxSends \in Nat \ {0}
  /\ Retention \in Nat /\ Retention >= Ttl /\ Retention >= MinInterval

VARIABLES
  clock,      \* wall clock
  issued,     \* number of challenge ids given out
  challenges, \* cas_email_challenges, by id
  sessions,   \* pending login sessions: which challenge, the secret of which code
  evidence,   \* authenticated sessions that hold verified-email evidence
  invitation, \* status of the invitation
  req,        \* the requests in flight
  sent,       \* history: last_sent_at of every code sent, in order
  cleanedAt   \* history: the last run of the hourly clean-up

vars == <<clock, issued, challenges, sessions, evidence, invitation, req,
          sent, cleanedAt>>

Ids == 1 .. MaxChallenges

NoRow == [code |-> 0]

(* The hash of a wrong code, equal to no stored hash. *)
WrongCode == 0

(* A row.  The code is its generation: the first code, the first resend... The
   hash covers the secret too, which is generated with the code. *)
Row == [code : 1 .. MaxSends, exp : Nat, attempts : 0 .. MaxAttempts,
        sends : 1 .. MaxSends, last : Nat, verifiedBy : 0 .. MaxSends,
        consumed : BOOLEAN, invalidated : BOOLEAN]

Idle == [pc |-> "idle"]

Session == [ch : Ids, secret : 1 .. MaxSends]
Evidence == [ch : Ids, exp : Nat]

(* What a request holds between two of its calls. *)
RequestState ==
  {Idle}
    \cup [pc : {"create"}, now : Nat]
    \cup [pc : {"store", "send", "invalidate"}, ch : Ids, secret : 1 .. MaxSends,
          old : SUBSET Session]
    \cup [pc : {"verifyRead"}, ch : Ids, now : Nat, session : Session, hash : 0 .. MaxSends]
    \cup [pc : {"verifyWrite"}, ch : Ids, now : Nat, session : Session, hash : 0 .. MaxSends,
          seen : Row]
    \cup [pc : {"authorize"}, ch : Ids, session : Session, exp : Nat]
    \cup [pc : {"resendRead"}, ch : Ids, now : Nat, session : Session]
    \cup [pc : {"resendWrite"}, ch : Ids, now : Nat, session : Session, seen : Row]
    \cup [pc : {"accept"}, evidence : Evidence, now : Nat]

Init ==
  /\ clock = 1 /\ issued = 0
  /\ challenges = [c \in Ids |-> NoRow]
  /\ sessions = {} /\ evidence = {}
  /\ invitation = "pending"
  /\ req = [r \in Requests |-> Idle]
  /\ sent = <<>> /\ cleanedAt = 0

Live(c) == challenges[c] # NoRow

Become(r, record) == req' = [req EXCEPT ![r] = record]

(* verified_at IS NULL AND consumed_at IS NULL AND invalidated_at IS NULL. *)
Open(row) == row.verifiedBy = WrongCode /\ ~row.consumed /\ ~row.invalidated

----------------------------------------------------------------------------
(* The send limits, over the rows that are still in the table. *)

SendsInWindow(rows, now) ==
  LET recent == {c \in Ids : rows[c] # NoRow /\ rows[c].last > now - Ttl}
      Total[S \in SUBSET recent] ==
        IF S = {} THEN 0
        ELSE LET c == CHOOSE x \in S : TRUE IN rows[c].sends + Total[S \ {c}]
  IN Total[recent]

MaySendIntervalOnly(rows, now) ==
  \A c \in Ids : rows[c] # NoRow => rows[c].last <= now - MinInterval

MaySend(rows, now) ==
  /\ \A c \in Ids : rows[c] # NoRow => rows[c].last <= now - MinInterval
  /\ SendsInWindow(rows, now) < MaxSends

----------------------------------------------------------------------------
(* The provider callback: beginEmailChallenge, EmailChallengeService.create. *)

StartCreate(r) ==
  /\ req[r] = Idle /\ invitation = "pending"
  /\ Become(r, [pc |-> "create", now |-> clock])
  /\ UNCHANGED <<clock, issued, challenges, sessions, evidence, invitation, sent, cleanedAt>>

(* The batch of repository.create: old rows are deleted, whether or not the
   limits then admit the new one.  Ids are random, so none is taken twice. *)
Create(r) ==
  LET now == req[r].now
      kept == [c \in Ids |-> IF Live(c) /\ challenges[c].exp <= now - Retention
                             THEN NoRow ELSE challenges[c]]
      new == [code |-> 1, exp |-> now + Ttl, attempts |-> 0, sends |-> 1, last |-> now,
              verifiedBy |-> WrongCode, consumed |-> FALSE, invalidated |-> FALSE]
  IN /\ req[r].pc = "create" /\ issued < MaxChallenges
     /\ IF MaySend(kept, now)
        THEN /\ issued' = issued + 1
             /\ challenges' = [kept EXCEPT ![issued + 1] = new]
             /\ sent' = Append(sent, now)
             /\ Become(r, [pc |-> "store", ch |-> issued + 1, secret |-> 1, old |-> {}])
        ELSE /\ challenges' = kept
             /\ Become(r, Idle)
             /\ UNCHANGED <<issued, sent>>
     /\ UNCHANGED <<clock, sessions, evidence, invitation, cleanedAt>>

(* The new session is stored and the previous one deleted. *)
StoreSession(r) ==
  /\ req[r].pc = "store"
  /\ sessions' = (sessions \ req[r].old)
                   \cup {[ch |-> req[r].ch, secret |-> req[r].secret]}
  /\ Become(r, [req[r] EXCEPT !.pc = "send"])
  /\ UNCHANGED <<clock, issued, challenges, evidence, invitation, sent, cleanedAt>>

Send(r) ==
  /\ req[r].pc = "send"
  /\ Become(r, Idle)
  /\ UNCHANGED <<clock, issued, challenges, sessions, evidence, invitation, sent, cleanedAt>>

(* Storing or sending failed; the message may have left all the same. *)
DeliveryFails(r) ==
  /\ req[r].pc \in {"store", "send"}
  /\ Become(r, [req[r] EXCEPT !.pc = "invalidate"])
  /\ UNCHANGED <<clock, issued, challenges, sessions, evidence, invitation, sent, cleanedAt>>

(* repository.invalidate, then both sessions are deleted. *)
Invalidate(r) ==
  LET c == req[r].ch
  IN /\ req[r].pc = "invalidate"
     /\ challenges' = IF Live(c) /\ ~challenges[c].consumed
                      THEN [challenges EXCEPT ![c].invalidated = TRUE] ELSE challenges
     /\ sessions' = sessions \ (req[r].old \cup {[ch |-> c, secret |-> req[r].secret]})
     /\ Become(r, Idle)
     /\ UNCHANGED <<clock, issued, evidence, invitation, sent, cleanedAt>>

----------------------------------------------------------------------------
(* handleEmailChallengePage: describe, which drops the session of a challenge
   that can no longer be answered. *)

Describable(c) ==
  /\ Live(c) /\ ~challenges[c].consumed /\ ~challenges[c].invalidated
  /\ challenges[c].exp > clock /\ challenges[c].attempts < MaxAttempts

ShowPage ==
  \E s \in sessions :
    /\ ~Describable(s.ch)
    /\ sessions' = sessions \ {s}
    /\ UNCHANGED <<clock, issued, challenges, evidence, invitation, req, sent, cleanedAt>>

----------------------------------------------------------------------------
(* handleEmailChallengeVerification. *)

(* The session is read and the code hashed with its secret. *)
StartVerify(r, s, right) ==
  /\ req[r] = Idle
  /\ Become(r, [pc |-> "verifyRead", ch |-> s.ch, now |-> clock, session |-> s,
                hash |-> IF right THEN s.secret ELSE WrongCode])
  /\ UNCHANGED <<clock, issued, challenges, sessions, evidence, invitation, sent, cleanedAt>>

(* What the first read of verify and resend demands of the row. *)
Answerable(c, now) ==
  /\ Live(c) /\ Open(challenges[c])
  /\ challenges[c].exp > now /\ challenges[c].attempts < MaxAttempts

VerifyRead(r) ==
  LET c == req[r].ch
  IN /\ req[r].pc = "verifyRead"
     /\ Become(r, IF Answerable(c, req[r].now)
                  THEN [pc |-> "verifyWrite", ch |-> c, now |-> req[r].now,
                        session |-> req[r].session, hash |-> req[r].hash,
                        seen |-> challenges[c]]
                  ELSE Idle)
     /\ UNCHANGED <<clock, issued, challenges, sessions, evidence, invitation, sent, cleanedAt>>

VerifyFenceAnyAttempt(row, seen, now) ==
  row # NoRow /\ Open(row) /\ row.code = seen.code /\ row.exp > now

VerifyFenceAnyCode(row, seen, now) ==
  row # NoRow /\ Open(row) /\ row.attempts = seen.attempts /\ row.exp > now

VerifyFenceUnfenced(row, seen, now) ==
  row # NoRow /\ ~row.consumed /\ ~row.invalidated /\ row.exp > now

(* The WHERE clause of the conditional update. *)
VerifyFence(row, seen, now) ==
  /\ row # NoRow /\ Open(row)
  /\ row.attempts = seen.attempts /\ row.code = seen.code
  /\ row.exp > now

VerifyWrite(r) ==
  LET q == req[r]
      matches == q.hash = q.seen.code
  IN /\ q.pc = "verifyWrite"
     /\ IF VerifyFence(challenges[q.ch], q.seen, q.now)
        THEN challenges' = [challenges EXCEPT
               ![q.ch].attempts = @ + 1,
               ![q.ch].verifiedBy = IF matches THEN q.hash ELSE WrongCode]
        ELSE challenges' = challenges
     /\ Become(r, IF VerifyFence(challenges[q.ch], q.seen, q.now) /\ matches
                  THEN [pc |-> "authorize", ch |-> q.ch, session |-> q.session,
                        exp |-> q.seen.exp]
                  ELSE Idle)
     /\ UNCHANGED <<clock, issued, sessions, evidence, invitation, sent, cleanedAt>>

(* authorizeAccountLogin with the fresh evidence, then the authenticated session
   replaces the pending one. *)
Authorize(r) ==
  LET q == req[r]
  IN /\ q.pc = "authorize"
     /\ IF invitation = "pending" /\ q.exp > clock
        THEN /\ evidence' = evidence \cup {[ch |-> q.ch, exp |-> q.exp]}
             /\ sessions' = sessions \ {q.session}
        ELSE UNCHANGED <<evidence, sessions>>
     /\ Become(r, Idle)
     /\ UNCHANGED <<clock, issued, challenges, invitation, sent, cleanedAt>>

----------------------------------------------------------------------------
(* handleEmailChallengeResend. *)

StartResend(r, s) ==
  /\ req[r] = Idle
  /\ Become(r, [pc |-> "resendRead", ch |-> s.ch, now |-> clock, session |-> s])
  /\ UNCHANGED <<clock, issued, challenges, sessions, evidence, invitation, sent, cleanedAt>>

ResendRead(r) ==
  LET q == req[r]
      row == challenges[q.ch]
      ok == /\ Answerable(q.ch, q.now)
            /\ row.sends < MaxSends /\ row.last + MinInterval <= q.now
  IN /\ q.pc = "resendRead"
     /\ Become(r, IF ok THEN [pc |-> "resendWrite", ch |-> q.ch, now |-> q.now,
                              session |-> q.session, seen |-> row]
                  ELSE Idle)
     /\ UNCHANGED <<clock, issued, challenges, sessions, evidence, invitation, sent, cleanedAt>>

ResendFence(row, seen, now) ==
  /\ row # NoRow /\ Open(row)
  /\ row.sends = seen.sends /\ row.last = seen.last
  /\ row.exp > now /\ row.attempts < MaxAttempts

ResendWrite(r) ==
  LET q == req[r]
  IN /\ q.pc = "resendWrite"
     /\ IF ResendFence(challenges[q.ch], q.seen, q.now) /\ MaySend(challenges, q.now)
        THEN /\ challenges' = [challenges EXCEPT
                  ![q.ch].code = q.seen.code + 1,
                  ![q.ch].sends = @ + 1,
                  ![q.ch].last = q.now]
             /\ sent' = Append(sent, q.now)
             /\ Become(r, [pc |-> "store", ch |-> q.ch, secret |-> q.seen.code + 1,
                           old |-> {q.session}])
        ELSE /\ Become(r, Idle)
             /\ UNCHANGED <<challenges, sent>>
     /\ UNCHANGED <<clock, issued, sessions, evidence, invitation, cleanedAt>>

----------------------------------------------------------------------------
(* Acceptance of the invitation with challenge evidence. *)

(* resolve, requireInvitationEmailEvidence. *)
StartAccept(r, e) ==
  /\ req[r] = Idle
  /\ invitation = "pending" /\ e.exp > clock
  /\ Become(r, [pc |-> "accept", evidence |-> e, now |-> clock])
  /\ UNCHANGED <<clock, issued, challenges, sessions, evidence, invitation, sent, cleanedAt>>

(* Mutant: the invitation is not looked at. *)
MayClaimUnchecked == TRUE

(* The guards of the batch: the challenge must be consumable and the invitation
   claimable, or nothing of it happens. *)
MayConsume(c, now) ==
  /\ Live(c) /\ challenges[c].verifiedBy # WrongCode
  /\ ~challenges[c].consumed /\ ~challenges[c].invalidated
  /\ challenges[c].exp > now

MayClaim == invitation = "pending"

(* An App acceptance keeps the time of its first read, a platform acceptance reads
   the clock again.  On success the session is replaced by one without evidence. *)
CommitAccept(r) ==
  /\ req[r].pc = "accept"
  /\ \E now \in req[r].now .. clock :
       LET c == req[r].evidence.ch
       IN IF MayConsume(c, now) /\ MayClaim
          THEN /\ challenges' = [challenges EXCEPT ![c].consumed = TRUE]
               /\ invitation' = "accepted"
               /\ evidence' = evidence \ {req[r].evidence}
          ELSE UNCHANGED <<challenges, invitation, evidence>>
  /\ Become(r, Idle)
  /\ UNCHANGED <<clock, issued, sessions, sent, cleanedAt>>

----------------------------------------------------------------------------
(* The hourly clean-up, the end of a request at any call, an administrator who
   revokes the invitation, and time. *)

PruneExpired ==
  /\ \E c \in Ids : Live(c) /\ challenges[c].exp <= clock
  /\ challenges' = [c \in Ids |-> IF Live(c) /\ challenges[c].exp <= clock
                                  THEN NoRow ELSE challenges[c]]
  /\ cleanedAt' = clock
  /\ UNCHANGED <<clock, issued, sessions, evidence, invitation, req, sent>>

RequestDies(r) ==
  /\ req[r] # Idle
  /\ Become(r, Idle)
  /\ UNCHANGED <<clock, issued, challenges, sessions, evidence, invitation, sent, cleanedAt>>

Revoke ==
  /\ invitation = "pending"
  /\ invitation' = "revoked"
  /\ UNCHANGED <<clock, issued, challenges, sessions, evidence, req, sent, cleanedAt>>

Tick ==
  /\ clock < MaxClock
  /\ clock' = clock + 1
  /\ UNCHANGED <<issued, challenges, sessions, evidence, invitation, req, sent, cleanedAt>>

IssueStep(r) == StartCreate(r) \/ Create(r) \/ StoreSession(r) \/ Send(r)
                  \/ DeliveryFails(r) \/ Invalidate(r)

VerifyStep(r) ==
  \/ \E s \in sessions, right \in BOOLEAN : StartVerify(r, s, right)
  \/ VerifyRead(r) \/ VerifyWrite(r) \/ Authorize(r)

ResendStep(r) ==
  \/ \E s \in sessions : StartResend(r, s)
  \/ ResendRead(r) \/ ResendWrite(r)

AcceptStep(r) ==
  \/ \E e \in evidence : StartAccept(r, e)
  \/ CommitAccept(r)

Next ==
  \/ \E r \in Requests :
       IssueStep(r) \/ VerifyStep(r) \/ ResendStep(r) \/ AcceptStep(r) \/ RequestDies(r)
  \/ ShowPage \/ PruneExpired \/ Revoke \/ Tick

Spec == Init /\ [][Next]_vars

----------------------------------------------------------------------------
(* The type invariant.  A request that wrote with a stale view of a row could push
   a counter past its limit: attempt_count past EMAIL_CHALLENGE_MAX_ATTEMPTS is what
   makes a six-digit code guessable. *)
TypeOK ==
  /\ clock \in Nat /\ issued \in 0 .. MaxChallenges
  /\ challenges \in [Ids -> Row \cup {NoRow}]
  /\ sessions \subseteq Session /\ evidence \subseteq Evidence
  /\ invitation \in {"pending", "accepted", "revoked"}
  /\ req \in [Requests -> RequestState]

(* A challenge is verified only by the code of the latest message, also when a
   resend replaces the code between the read and the write of a verification. *)
VerifiedByLatestCode ==
  \A c \in Ids : Live(c) /\ challenges[c].verifiedBy # WrongCode
                   => challenges[c].verifiedBy = challenges[c].code

(* One verification gives out evidence once: no two requests, no request beside a
   session and no two sessions hold the evidence of one challenge. *)
EvidenceOnce ==
  LET holders(c) == {r \in Requests : req[r].pc = "authorize" /\ req[r].ch = c}
      stored(c) == {e \in evidence : e.ch = c}
  IN \A c \in Ids :
       /\ \A r, t \in holders(c) : r = t
       /\ \A e, f \in stored(c) : e = f
       /\ holders(c) = {} \/ stored(c) = {}

(* Acceptance consumes the challenge and the invitation together: a consumed
   challenge means an accepted invitation, and there is one such challenge. *)
ConsumedWithInvitation ==
  LET consumed == {c \in Ids : Live(c) /\ challenges[c].consumed}
  IN /\ \A c, d \in consumed : c = d
     /\ consumed # {} => invitation = "accepted"

(* Guesses in parallel get no more attempts than guesses in turn: attempt_count stays
   within EMAIL_CHALLENGE_MAX_ATTEMPTS whatever the requests had read. *)
AttemptsLimited == \A c \in Ids : Live(c) => challenges[c].attempts <= MaxAttempts

(* What a verification hands out was earned within the attempts and is spent once: its
   evidence is held once, and it is consumed together with the one invitation it was
   given for. *)
EvidenceAccounted == AttemptsLimited /\ EvidenceOnce /\ ConsumedWithInvitation

(* A challenge whose message could not be delivered is dead: after invalidated_at is
   set it is neither verified nor consumed, whatever request was under way. *)
InvalidatedStaysDead ==
  [][\A c \in Ids :
       Live(c) /\ challenges[c].invalidated =>
         challenges'[c] \in {challenges[c], NoRow}]_vars

(* As long as the clean-up has not run, the send limits hold across callbacks,
   resends and concurrent requests whose clocks are stale when they write: two
   messages are MinInterval apart, and a window of Ttl holds at most MaxSends. *)
SendsLimitedBetweenCleanups ==
  LET recent == {i \in DOMAIN sent : sent[i] > cleanedAt}
  IN /\ \A i, j \in recent : i < j => sent[j] - sent[i] >= MinInterval
     /\ \A i \in recent :
          Cardinality({j \in recent : sent[j] \in sent[i] .. sent[i] + Ttl - 1}) <= MaxSends
=============================================================================
