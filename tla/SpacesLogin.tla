----------------------------- MODULE SpacesLogin -----------------------------
(***************************************************************************)
(* Sign-in to the Spaces application: OAuth attempts, the callback that    *)
(* redeems one, and the sessions it opens.                                 *)
(***************************************************************************)
EXTENDS Integers, FiniteSets

CONSTANTS
    Attempt,     \* login attempts (state, nonce and verifier)
    Callback,    \* deliveries of the provider's redirect
    MaxSessions  \* bound on the sessions opened

VARIABLES
    attempts,    \* spaces_oauth_attempts: "none", "live", "expired" or "gone"
    answers,     \* callbacks in progress
    sessions,    \* spaces_sessions: opened by which attempt, and still valid?
    principal    \* the Principal the provider subject maps to

loginVars == <<attempts, answers, sessions, principal>>

LoginTypeOK ==
    /\ attempts \in [Attempt -> {"none", "live", "expired", "gone"}]
    /\ \A c \in Callback : answers[c].pc \in {"idle", "exchange", "resolve", "session", "done"}
    /\ principal \in {"absent", "active", "suspended"}

LoginInit ==
    /\ attempts = [a \in Attempt |-> "none"]
    /\ answers = [c \in Callback |-> [pc |-> "idle"]]
    /\ sessions = {}
    /\ principal \in {"absent", "active"}

\* begin: the attempt is stored before the provider is asked for anything, so
\* a failed discovery leaves it behind.
BeginLogin(a) ==
    /\ attempts[a] = "none"
    /\ attempts' = [attempts EXCEPT ![a] = "live"]
    /\ UNCHANGED <<answers, sessions, principal>>

Answer(c, v) == answers' = [answers EXCEPT ![c] = v]

\* Mutant: the attempt is read and stays.
Redeemed(a) == attempts

\* DELETE ... RETURNING: one callback gets the attempt.
Consumed(a) == [attempts EXCEPT ![a] = "gone"]

\* complete: the state must be the one of the browser's cookie; an attempt that
\* is unknown, used or expired ends the login.
ConsumeAttempt(c, a) ==
    /\ answers[c].pc = "idle"
    /\ attempts[a] = "live"
    /\ attempts' = Consumed(a)
    /\ Answer(c, [pc |-> "exchange", attempt |-> a])
    /\ UNCHANGED <<sessions, principal>>

\* The code is exchanged and the token verified: with the keys fetched, and
\* once more after fetching them again.  Any failure ends the login.
ExchangeCode(c) ==
    /\ answers[c].pc = "exchange"
    /\ \E verified \in BOOLEAN :
          Answer(c, [answers[c] EXCEPT !.pc = IF verified THEN "resolve" ELSE "done"])
    /\ UNCHANGED <<attempts, sessions, principal>>

ResolveIdentity(c) ==
    /\ answers[c].pc = "resolve"
    /\ Answer(c, [answers[c] EXCEPT !.pc = IF principal = "active" THEN "session" ELSE "done"])
    /\ UNCHANGED <<attempts, sessions, principal>>

CreateSession(c) ==
    /\ answers[c].pc = "session"
    /\ Cardinality(sessions) < MaxSessions
    /\ sessions' = sessions \cup
          {[number |-> Cardinality(sessions) + 1, attempt |-> answers[c].attempt, live |-> TRUE]}
    /\ Answer(c, [pc |-> "done"])
    /\ UNCHANGED <<attempts, principal>>

\* Expiry, deletion by logout or by a read of an expired row, and the scheduled
\* pruning: the session serves no request after it.
EndSession(s) ==
    /\ s \in sessions /\ s.live
    /\ sessions' = (sessions \ {s}) \cup {[s EXCEPT !.live = FALSE]}
    /\ UNCHANGED <<attempts, answers, principal>>

ExpireAttempt(a) ==
    /\ attempts[a] = "live"
    /\ attempts' = [attempts EXCEPT ![a] = "expired"]
    /\ UNCHANGED <<answers, sessions, principal>>

PruneExpired ==
    /\ \E a \in Attempt : attempts[a] = "expired"
    /\ attempts' = [a \in Attempt |-> IF attempts[a] = "expired" THEN "gone" ELSE attempts[a]]
    /\ UNCHANGED <<answers, sessions, principal>>

Suspend ==
    /\ principal = "active"
    /\ principal' = "suspended"
    /\ UNCHANGED <<attempts, answers, sessions>>

\* requireSession: a session that is live, of a Principal that is active.
SignedIn == principal = "active" /\ \E s \in sessions : s.live

\* One login attempt opens at most one session, however often its redirect is
\* delivered.
OneSessionPerAttempt ==
    \A s, t \in sessions : s.attempt = t.attempt => s = t

=============================================================================
