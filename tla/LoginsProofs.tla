---------------------------- MODULE LoginsProofs ----------------------------
(* Proofs about the accounts, the sessions of the admin back end and the   *)
(* grants of the MCP server: one inductive invariant over the three.       *)
EXTENDS McpOAuth, FiniteSetTheorems, TLAPS

Pcs ==
  {"idle", "begin", "persist", "rotate", "answer", "login", "cli", "invite", "create", "linkCurrent", "linkTarget",
   "commitLink", "unlink", "commitUnlink", "resolve", "exchange", "read", "control", "access", "profile",
   "writeProfile", "accept", "provider", "consent", "authority", "actor", "act"}
Requests ==
  [pc : Pcs, sid : 0..MaxSession, row : Payload, login : Login \cup {None}, audit : BOOLEAN,
   grant : Grant \cup {None}]
Grants ==
  [login : Login \cup {None}, account : Account \cup {None}, identity : Identity \cup {None}, version : Nat,
   scopes : SUBSET Scope, refreshUntil : Nat, tokenScopes : SUBSET Scope, tokenUntil : Nat,
   consent : 0..MaxSession]
Rows == Payload \cup {Unused, Gone}

(* Accounts: an account that exists has a login, a login is linked once, and who is admitted
   has joined and stays. *)
AccountsGood(aa, ii) ==
  /\ aa \in [Account -> AccountRecord] /\ ii \in [Identity -> IdentityRecord]
  /\ \A a \in Account : (aa[a].admitted => aa[a].joined) /\ (aa[a].joined => aa[a].version > 0)
  /\ \A i \in Identity : ii[i].linked => ii[i].account \in Account /\ ii[i].login \in Login
  /\ \A i, j \in Identity : ii[i].linked /\ ii[j].linked /\ ii[i].login = ii[j].login => i = j
  /\ \A a \in Account : aa[a].version > 0 => \E i \in Identity : ii[i].linked /\ ii[i].account = a

AccountsFollow(aa, bb, jj) ==
  AccountsGood(bb, jj) /\ \A a \in Account : aa[a].joined => bb[a].joined

(* What a payload claims was proven in its flow: a session and a code their login, and so the
   second half of a link. *)
Claims(p) == p.kind \in {"session", "code"} \/ (p.kind = "prelogin" /\ p.purpose = "linkTarget")
RowSound(p) == Claims(p) => p.login \in p.proofs

SessionsGood(ss) ==
  /\ ss \in [SessionId -> Rows]
  /\ \A s \in SessionId : ss[s] \in Payload =>
       RowSound(ss[s]) /\ (ss[s].given /\ ss[s].parent > 0 => ss[ss[s].parent] = Gone)

(* An id is used once: a row that is gone does not come back, and keeps the row it follows. *)
SessionsFollow(ss, tt) ==
  /\ SessionsGood(tt)
  /\ \A s \in SessionId :
       /\ ss[s] # Unused => tt[s] # Unused
       /\ ss[s] = Gone => tt[s] = Gone
       /\ ss[s] \in Payload /\ tt[s] \in Payload => tt[s].parent = ss[s].parent

(* Requests between two awaits. *)
Proving == {"login", "cli", "invite", "create", "linkCurrent", "linkTarget", "commitLink", "unlink",
            "commitUnlink", "resolve"}
Proven == {"linkTarget", "commitLink", "commitUnlink", "resolve"}
Calling == {"read", "control", "access", "profile", "writeProfile"}

ReqSound(q, ss, aa) ==
  /\ RowSound(q.row)
  /\ q.sid > 0 => ss[q.sid] # Unused
  /\ q.pc \in Proving => q.row.kind = "prelogin" /\ q.login \in q.row.proofs
  /\ q.pc \in Proven => q.row.login \in q.row.proofs
  /\ q.pc \in {"commitLink", "commitUnlink"} => q.row.account \in Account
  /\ q.pc \in {"rotate", "answer"} =>
       /\ q.row.parent > 0 /\ ss[q.row.parent] # Unused
       /\ ss[q.row.parent] # Gone => ss[q.row.parent].parent = q.sid
  /\ q.pc = "answer" /\ q.sid > 0 => ss[q.sid] = Gone
  /\ q.pc = "consent" => q.sid > 0 /\ ss[q.sid] = Gone
  /\ q.pc \in Calling => q.row.account \in Account /\ aa[q.row.account].joined

(* A consent that was taken is with one request, or became one grant. *)
ConsentsOnce(qq, gg, ss) ==
  /\ \A r, u \in Request : qq[r].pc = "consent" /\ qq[u].pc = "consent" /\ qq[r].sid = qq[u].sid => r = u
  /\ \A g \in Grant : gg[g] # NoGrant =>
       /\ gg[g].consent > 0 /\ ss[gg[g].consent] = Gone
       /\ \A r \in Request : qq[r].pc = "consent" => qq[r].sid # gg[g].consent
  /\ \A g, h \in Grant : gg[g] # NoGrant /\ gg[h] # NoGrant /\ gg[g].consent = gg[h].consent => g = h

LoginInv ==
  /\ clock \in Nat
  /\ AccountsGood(accounts, identities)
  /\ SessionsGood(sessions)
  /\ req \in [Request -> Requests] /\ \A r \in Request : ReqSound(req[r], sessions, accounts)
  /\ grants \in [Grant -> Grants]
  /\ ConsentsOnce(req, grants, sessions)

LEMMA PayloadsAreRows == Unused # Gone /\ Unused \notin Payload /\ Gone \notin Payload
<1>1. Unused.kind = "unused" /\ Gone.kind = "gone"
  BY DEF Unused, Gone
<1>2. \A p \in Payload : p.kind \notin {"unused", "gone"}
  BY DEF Payload
<1> QED BY <1>1, <1>2

LEMMA NumbersAreSound ==
  /\ MaxSession \in Nat /\ MaxSession > 0 /\ SessionTtl \in Nat /\ CodeTtl \in Nat /\ FlowTtl \in Nat
  /\ 0 \in 0..MaxSession /\ ~(0 > 0) /\ \A s : s \in SessionId <=> s \in 0..MaxSession /\ s > 0
  /\ None \notin Account /\ None \notin Login /\ None \notin Identity
<1>1. MaxSession \in Nat /\ MaxSession > 0 /\ SessionTtl \in Nat /\ CodeTtl \in Nat /\ FlowTtl \in Nat
  BY SessionAssumption
<1>2. 0 \in 0..MaxSession /\ ~(0 > 0) /\ \A s : s \in SessionId <=> s \in 0..MaxSession /\ s > 0
  BY <1>1 DEF SessionId
<1>3. None \notin Account /\ None \notin Login /\ None \notin Identity
  BY SessionAssumption
<1> QED BY <1>1, <1>2, <1>3

LEMMA BlankRows ==
  /\ NoPayload \in Payload /\ NoPayload.kind = "prelogin" /\ NoPayload.purpose = "login" /\ RowSound(NoPayload)
  /\ NoPayload.parent = 0
  /\ Idle \in Requests /\ Idle.pc = "idle" /\ Idle.sid = 0 /\ Idle.row = NoPayload
  /\ NoGrant \in Grants
<1>1. NoPayload \in Payload
  BY NumbersAreSound DEF NoPayload, Payload, Source
<1>2. NoPayload.kind = "prelogin" /\ NoPayload.purpose = "login" /\ NoPayload.parent = 0
  BY DEF NoPayload
<1>3. RowSound(NoPayload)
  BY <1>2 DEF RowSound, Claims
<1>4. Idle \in Requests /\ Idle.pc = "idle" /\ Idle.sid = 0 /\ Idle.row = NoPayload
  BY <1>1, NumbersAreSound DEF Idle, Requests, Pcs
<1>5. NoGrant \in Grants
  BY NumbersAreSound DEF NoGrant, Grants
<1> QED BY <1>1, <1>2, <1>3, <1>4, <1>5

LEMMA RowFacts ==
  ASSUME LoginInv, NEW s \in SessionId
  PROVE  /\ sessions[s] \in Rows /\ (IsRow(s) <=> sessions[s] \in Payload)
         /\ IsRow(s) => RowSound(sessions[s]) /\ sessions[s] # Unused /\ sessions[s] # Gone
         /\ s \in 0..MaxSession /\ s > 0
<1>1. sessions[s] \in Rows
  BY DEF LoginInv, SessionsGood
<1>2. IsRow(s) <=> sessions[s] \in Payload
  BY <1>1, PayloadsAreRows DEF IsRow, Rows
<1> QED BY <1>1, <1>2, PayloadsAreRows, NumbersAreSound DEF LoginInv, SessionsGood

(* The ways the table of sessions changes. *)
LEMMA SessionsStay ==
  ASSUME LoginInv PROVE SessionsFollow(sessions, sessions)
BY DEF LoginInv, SessionsFollow

LEMMA SessionDeleted ==
  ASSUME LoginInv, NEW s \in 0..MaxSession
  PROVE  /\ SessionsFollow(sessions, Deleted(s))
         /\ s > 0 => Deleted(s)[s] = Gone
<1>1. CASE s = 0
  BY <1>1, SessionsStay DEF Deleted
<1>2. CASE s # 0
  <2>1. s \in SessionId
    BY <1>2, NumbersAreSound
  <2>2. PICK tt : tt = [sessions EXCEPT ![s] = Gone]
    OBVIOUS
  <2>3. tt \in [SessionId -> Rows] /\ tt[s] = Gone /\ \A t \in SessionId \ {s} : tt[t] = sessions[t]
    BY <2>1, <2>2 DEF LoginInv, SessionsGood, Rows
  <2>4. SessionsGood(tt)
    <3> SUFFICES ASSUME NEW t \in SessionId, tt[t] \in Payload
                 PROVE  RowSound(tt[t]) /\ (tt[t].given /\ tt[t].parent > 0 => tt[tt[t].parent] = Gone)
      BY <2>3 DEF SessionsGood
    <3>1. t # s /\ tt[t] = sessions[t]
      BY <2>3, PayloadsAreRows
    <3>2. RowSound(sessions[t]) /\ (sessions[t].given /\ sessions[t].parent > 0 => sessions[sessions[t].parent] = Gone)
      BY <3>1 DEF LoginInv, SessionsGood
    <3>3. sessions[t].parent \in 0..MaxSession
      BY <3>1 DEF Payload
    <3>4. sessions[t].parent > 0 => sessions[t].parent \in SessionId
      BY <3>3, NumbersAreSound
    <3> QED BY <2>3, <3>1, <3>2, <3>4
  <2>5. SessionsFollow(sessions, tt)
    BY <2>3, <2>4, PayloadsAreRows DEF SessionsFollow
  <2> QED BY <1>2, <2>2, <2>3, <2>5 DEF Deleted
<1> QED BY <1>1, <1>2

LEMMA RowIs ==
  ASSUME LoginInv, NEW p \in Payload, RowSound(p), NEW u \in 0..MaxSession
  PROVE  /\ \E w \in Payload : w = Row(p, u, TRUE) /\ RowSound(w) /\ w.parent = u
         /\ \E w \in Payload : w = Row(p, u, FALSE) /\ RowSound(w) /\ w.parent = u /\ ~w.given
<1>1. clock \in Nat /\ Ttl(p) \in Nat
  BY NumbersAreSound DEF LoginInv, Ttl
<1>2. PICK e \in Nat : e = clock + Ttl(p)
  BY <1>1
<1>3. ASSUME NEW b \in BOOLEAN, NEW w, w = [p EXCEPT !.expiresAt = e, !.parent = u, !.given = b]
      PROVE  w \in Payload /\ RowSound(w) /\ w.parent = u /\ w.given = b
  <2>1. w \in Payload
    BY <1>3 DEF Payload
  <2>2. w.kind = p.kind /\ w.purpose = p.purpose /\ w.login = p.login /\ w.proofs = p.proofs /\ w.parent = u /\ w.given = b
    BY <1>3 DEF Payload
  <2>3. RowSound(w)
    BY <2>2 DEF RowSound, Claims
  <2> QED BY <2>1, <2>2, <2>3
<1>4. \E w \in Payload : w = Row(p, u, TRUE) /\ RowSound(w) /\ w.parent = u
  <2>1. PICK w : w = [p EXCEPT !.expiresAt = e, !.parent = u, !.given = TRUE]
    OBVIOUS
  <2>2. w = Row(p, u, TRUE)
    BY <1>2, <2>1 DEF Row
  <2>3. w \in Payload /\ RowSound(w) /\ w.parent = u
    BY <1>3, <2>1
  <2> QED BY <2>2, <2>3
<1>5. \E w \in Payload : w = Row(p, u, FALSE) /\ RowSound(w) /\ w.parent = u /\ ~w.given
  <2>1. PICK w : w = [p EXCEPT !.expiresAt = e, !.parent = u, !.given = FALSE]
    OBVIOUS
  <2>2. w = Row(p, u, FALSE)
    BY <1>2, <2>1 DEF Row
  <2>3. w \in Payload /\ RowSound(w) /\ w.parent = u /\ w.given = FALSE
    BY <1>3, <2>1
  <2> QED BY <2>2, <2>3
<1> QED BY <1>4, <1>5

(* A row is made under an unused id: answered at once it follows none. *)
LEMMA SessionMade ==
  ASSUME LoginInv, NEW s \in SessionId, Fresh(s), NEW w \in Payload, RowSound(w), w.given => w.parent = 0
  PROVE  SessionsFollow(sessions, [sessions EXCEPT ![s] = w])
<1>0. sessions[s] = Unused
  BY DEF Fresh
<1>1. PICK tt : tt = [sessions EXCEPT ![s] = w]
  OBVIOUS
<1>2. tt \in [SessionId -> Rows] /\ tt[s] = w /\ \A t \in SessionId \ {s} : tt[t] = sessions[t]
  BY <1>1 DEF LoginInv, SessionsGood, Rows
<1>3. SessionsGood(tt)
  <2> SUFFICES ASSUME NEW t \in SessionId, tt[t] \in Payload
               PROVE  RowSound(tt[t]) /\ (tt[t].given /\ tt[t].parent > 0 => tt[tt[t].parent] = Gone)
    BY <1>2 DEF SessionsGood
  <2>1. CASE t = s
    BY <1>2, <2>1
  <2>2. CASE t # s
    <3>1. tt[t] = sessions[t] /\ sessions[t] \in Payload
      BY <1>2, <2>2
    <3>2. RowSound(sessions[t]) /\ (sessions[t].given /\ sessions[t].parent > 0 => sessions[sessions[t].parent] = Gone)
      BY <3>1 DEF LoginInv, SessionsGood
    <3>3. sessions[t].parent \in 0..MaxSession
      BY <3>1 DEF Payload
    <3>4. sessions[t].parent > 0 => sessions[t].parent \in SessionId
      BY <3>3, NumbersAreSound
    <3>5. sessions[t].given /\ sessions[t].parent > 0 => sessions[t].parent # s
      BY <1>0, <3>2, PayloadsAreRows
    <3> QED BY <1>2, <3>1, <3>2, <3>4, <3>5
  <2> QED BY <2>1, <2>2
<1>4. SessionsFollow(sessions, tt)
  BY <1>0, <1>2, <1>3, PayloadsAreRows DEF SessionsFollow
<1> QED BY <1>1, <1>4

(* A row is touched, or its id is answered once the row it follows is gone. *)
LEMMA SessionKept ==
  ASSUME LoginInv, NEW s \in SessionId, sessions[s] \in Payload, NEW w \in Payload, RowSound(w),
         w.parent = sessions[s].parent, w.given /\ w.parent > 0 => sessions[s].given \/ sessions[w.parent] = Gone
  PROVE  SessionsFollow(sessions, [sessions EXCEPT ![s] = w])
<1>1. PICK tt : tt = [sessions EXCEPT ![s] = w]
  OBVIOUS
<1>2. tt \in [SessionId -> Rows] /\ tt[s] = w /\ \A t \in SessionId \ {s} : tt[t] = sessions[t]
  BY <1>1 DEF LoginInv, SessionsGood, Rows
<1>3. \A t \in SessionId : sessions[t] \in Payload =>
         /\ RowSound(sessions[t]) /\ (sessions[t].given /\ sessions[t].parent > 0 => sessions[sessions[t].parent] = Gone)
         /\ sessions[t].parent \in 0..MaxSession
  <2>1. \A t \in SessionId : sessions[t] \in Payload => sessions[t].parent \in 0..MaxSession
    BY DEF Payload
  <2> QED BY <2>1 DEF LoginInv, SessionsGood
<1>4. SessionsGood(tt)
  <2> SUFFICES ASSUME NEW t \in SessionId, tt[t] \in Payload
               PROVE  RowSound(tt[t]) /\ (tt[t].given /\ tt[t].parent > 0 => tt[tt[t].parent] = Gone)
    BY <1>2 DEF SessionsGood
  <2>1. CASE t = s
    <3>1. w.given /\ w.parent > 0 => sessions[w.parent] = Gone /\ w.parent \in SessionId /\ w.parent # s
      BY <1>3, NumbersAreSound, PayloadsAreRows
    <3> QED BY <1>2, <2>1, <3>1
  <2>2. CASE t # s
    <3>1. tt[t] = sessions[t] /\ sessions[t] \in Payload
      BY <1>2, <2>2
    <3>2. sessions[t].given /\ sessions[t].parent > 0 =>
            sessions[sessions[t].parent] = Gone /\ sessions[t].parent \in SessionId /\ sessions[t].parent # s
      BY <1>3, <3>1, NumbersAreSound, PayloadsAreRows
    <3> QED BY <1>2, <1>3, <3>1, <3>2
  <2> QED BY <2>1, <2>2
<1>5. SessionsFollow(sessions, tt)
  BY <1>2, <1>4, PayloadsAreRows DEF SessionsFollow
<1> QED BY <1>1, <1>5

LEMMA SessionTouched ==
  ASSUME LoginInv, NEW s \in SessionId PROVE SessionsFollow(sessions, Touched(s))
<1>1. CASE ~IsRow(s)
  BY <1>1, SessionsStay DEF Touched
<1>2. CASE IsRow(s)
  <2>1. sessions[s] \in Payload /\ RowSound(sessions[s])
    BY <1>2, RowFacts
  <2>2. PICK e \in Nat : e = clock + SessionTtl
    BY NumbersAreSound DEF LoginInv
  <2>3. PICK w : w = [sessions[s] EXCEPT !.expiresAt = e]
    OBVIOUS
  <2>4. w \in Payload
    BY <2>1, <2>3 DEF Payload
  <2>5. /\ w.kind = sessions[s].kind /\ w.purpose = sessions[s].purpose /\ w.login = sessions[s].login
        /\ w.proofs = sessions[s].proofs /\ w.parent = sessions[s].parent /\ w.given = sessions[s].given
    BY <2>1, <2>3 DEF Payload
  <2>6. RowSound(w)
    BY <2>1, <2>5 DEF RowSound, Claims
  <2>7. Touched(s) = [sessions EXCEPT ![s] = w]
    BY <1>2, <2>2, <2>3 DEF Touched
  <2> QED BY <2>1, <2>4, <2>5, <2>6, <2>7, SessionKept
<1> QED BY <1>1, <1>2

(* The ways the tables of accounts change. *)
LEMMA AccountsStay ==
  ASSUME LoginInv PROVE AccountsFollow(accounts, accounts, identities)
BY DEF LoginInv, AccountsFollow

LEMMA AccountFacts ==
  ASSUME LoginInv
  PROVE  /\ accounts \in [Account -> AccountRecord] /\ identities \in [Identity -> IdentityRecord]
         /\ \A a \in Account : /\ accounts[a] \in AccountRecord /\ accounts[a].version \in Nat
                               /\ accounts[a].admitted => accounts[a].joined
                               /\ accounts[a].joined => accounts[a].version > 0
         /\ \A i \in Identity : identities[i].linked => identities[i].account \in Account /\ identities[i].login \in Login
         /\ \A a, i : i \in LinkedTo(a) => a \in Account /\ i \in Identity
<1>1. accounts \in [Account -> AccountRecord] /\ identities \in [Identity -> IdentityRecord]
  BY DEF LoginInv, AccountsGood
<1>2. \A a \in Account : accounts[a] \in AccountRecord /\ accounts[a].version \in Nat
  BY <1>1 DEF AccountRecord
<1>3. \A i \in Identity : identities[i].linked => identities[i].account \in Account /\ identities[i].login \in Login
  BY DEF LoginInv, AccountsGood
<1>4. \A a, i : i \in LinkedTo(a) => a \in Account /\ i \in Identity
  BY <1>3 DEF LinkedTo
<1> QED BY <1>1, <1>2, <1>3, <1>4 DEF LoginInv, AccountsGood

(* An account changes and keeps what it has: its login, and that it joined. *)
LEMMA AccountChanges ==
  ASSUME LoginInv, NEW a \in Account, accounts[a].version > 0, NEW n \in AccountRecord,
         accounts' = [accounts EXCEPT ![a] = n], identities' = identities,
         n.version > 0, n.admitted => n.joined, accounts[a].joined => n.joined
  PROVE  AccountsFollow(accounts, accounts', identities')
<1>1. accounts' \in [Account -> AccountRecord] /\ accounts'[a] = n /\ \A b \in Account \ {a} : accounts'[b] = accounts[b]
  BY AccountFacts
<1>2. \A b \in Account : (accounts'[b].admitted => accounts'[b].joined) /\ (accounts'[b].joined => accounts'[b].version > 0)
  BY <1>1, AccountFacts
<1>3. \A b \in Account : accounts[b].joined => accounts'[b].joined
  BY <1>1
<1>4. \A b \in Account : accounts'[b].version > 0 => accounts[b].version > 0
  BY <1>1
<1>5. AccountsGood(accounts', identities')
  BY <1>1, <1>2, <1>4 DEF LoginInv, AccountsGood
<1> QED BY <1>3, <1>5 DEF AccountsFollow

LEMMA SetAccessKeeps ==
  ASSUME LoginInv, NEW a \in Account, NEW b \in BOOLEAN, NEW m \in BOOLEAN, SetAccess(a, b, m)
  PROVE  AccountsFollow(accounts, accounts', identities')
<1>1. accounts[a] \in AccountRecord /\ accounts[a].version \in Nat /\ accounts[a].version > 0 /\ accounts[a].joined \in BOOLEAN
  BY AccountFacts DEF SetAccess, Exists, AccountRecord
<1>2. PICK j \in BOOLEAN : j = (accounts[a].joined \/ m)
  OBVIOUS
<1>3. PICK v : v = IF b /\ ~accounts[a].blocked THEN accounts[a].version + 1 ELSE accounts[a].version
  OBVIOUS
<1>4. v \in Nat /\ v > 0
  BY <1>1, <1>3
<1>5. PICK n : n = [accounts[a] EXCEPT !.blocked = b, !.admitted = m, !.joined = j, !.version = v]
  OBVIOUS
<1>6. n \in AccountRecord /\ n.version = v /\ n.admitted = m /\ n.joined = j
  BY <1>1, <1>4, <1>5 DEF AccountRecord
<1>7. accounts' = [accounts EXCEPT ![a] = n] /\ identities' = identities
  <2>1. accounts' = [accounts EXCEPT ![a].blocked = b, ![a].admitted = m, ![a].joined = (accounts[a].joined \/ m), ![a].version = v]
    BY <1>3, AccountFacts DEF SetAccess, AccountRecord
  <2> QED BY <1>2, <1>5, <2>1, AccountFacts DEF SetAccess, AccountRecord
<1>8. (n.admitted => n.joined) /\ (accounts[a].joined => n.joined)
  BY <1>2, <1>6
<1> QED BY <1>1, <1>4, <1>6, <1>7, <1>8, AccountChanges

LEMMA AdmissionKeeps ==
  ASSUME LoginInv, NEW a \in Account, accounts[a].version > 0, identities' = identities,
         accounts' = [accounts EXCEPT ![a].admitted = TRUE, ![a].joined = TRUE]
  PROVE  AccountsFollow(accounts, accounts', identities')
<1>1. PICK n : n = [accounts[a] EXCEPT !.admitted = TRUE, !.joined = TRUE]
  OBVIOUS
<1>2. n \in AccountRecord /\ n.version = accounts[a].version /\ n.joined
  BY <1>1, AccountFacts DEF AccountRecord
<1>3. accounts' = [accounts EXCEPT ![a] = n]
  BY <1>1, AccountFacts DEF AccountRecord
<1> QED BY <1>2, <1>3, AccountChanges

LEMMA NextVersionIs ==
  ASSUME LoginInv, NEW a \in Account
  PROVE  \E n \in AccountRecord :
           /\ NextVersion(a) = [accounts EXCEPT ![a] = n]
           /\ n.version > 0 /\ (n.joined <=> accounts[a].joined) /\ (n.admitted <=> accounts[a].admitted)
<1>1. accounts[a] \in AccountRecord /\ accounts[a].version \in Nat
  BY AccountFacts
<1>2. PICK v \in Nat : v = accounts[a].version + 1
  BY <1>1
<1>3. PICK n : n = [accounts[a] EXCEPT !.version = v]
  OBVIOUS
<1>4. n \in AccountRecord /\ n.version = v /\ n.joined = accounts[a].joined /\ n.admitted = accounts[a].admitted
  BY <1>1, <1>3 DEF AccountRecord
<1>5. NextVersion(a) = [accounts EXCEPT ![a] = n]
  BY <1>2, <1>3 DEF NextVersion
<1>6. n.version > 0
  BY <1>1, <1>2, <1>4
<1> QED BY <1>4, <1>5, <1>6

(* A login that was not linked is linked to an account, which is made or gets a version. *)
LEMMA LinkKeeps ==
  ASSUME LoginInv, NEW a \in Account, NEW i \in Identity, NEW l \in Login, NEW n \in AccountRecord,
         FreshIdentity(i), Unlinked(l), accounts' = [accounts EXCEPT ![a] = n],
         identities' = [identities EXCEPT ![i] = [account |-> a, login |-> l, linked |-> TRUE]],
         n.version > 0, n.admitted => n.joined, accounts[a].joined => n.joined
  PROVE  AccountsFollow(accounts, accounts', identities')
<1>1. accounts' \in [Account -> AccountRecord] /\ accounts'[a] = n /\ \A b \in Account \ {a} : accounts'[b] = accounts[b]
  BY AccountFacts
<1>2. PICK d : d = [account |-> a, login |-> l, linked |-> TRUE]
  OBVIOUS
<1>3. d \in IdentityRecord /\ d.account = a /\ d.login = l /\ d.linked = TRUE
  BY <1>2 DEF IdentityRecord
<1>4. identities' \in [Identity -> IdentityRecord] /\ identities'[i] = d /\ \A j \in Identity \ {i} : identities'[j] = identities[j]
  BY <1>2, <1>3, AccountFacts
<1>5. ~identities[i].linked
  BY DEF FreshIdentity, NoIdentity
<1>6. \A j \in Identity : identities[j].linked => identities[j].login # l
  BY DEF Unlinked, ActiveIdentities
<1>7. \A j \in Identity : identities[j].linked => identities'[j] = identities[j] /\ j # i
  BY <1>4, <1>5
<1>8. \A b \in Account : (accounts'[b].admitted => accounts'[b].joined) /\ (accounts'[b].joined => accounts'[b].version > 0)
  BY <1>1, AccountFacts
<1>9. \A j \in Identity : identities'[j].linked => identities'[j].account \in Account /\ identities'[j].login \in Login
  BY <1>3, <1>4, AccountFacts
<1>10. \A j, k \in Identity : identities'[j].linked /\ identities'[k].linked /\ identities'[j].login = identities'[k].login => j = k
  BY <1>3, <1>4, <1>6 DEF LoginInv, AccountsGood
<1>11. \A b \in Account : accounts'[b].version > 0 => \E j \in Identity : identities'[j].linked /\ identities'[j].account = b
  <2> SUFFICES ASSUME NEW b \in Account, accounts'[b].version > 0
               PROVE  \E j \in Identity : identities'[j].linked /\ identities'[j].account = b
    OBVIOUS
  <2>1. CASE b = a
    BY <1>3, <1>4, <2>1
  <2>2. CASE b # a
    <3>1. PICK j \in Identity : identities[j].linked /\ identities[j].account = b
      BY <1>1, <2>2 DEF LoginInv, AccountsGood
    <3> QED BY <1>7, <3>1
  <2> QED BY <2>1, <2>2
<1>12. AccountsGood(accounts', identities')
  BY <1>1, <1>4, <1>8, <1>9, <1>10, <1>11 DEF AccountsGood
<1> QED BY <1>1, <1>12 DEF AccountsFollow

LEMMA CreateAccountKeeps ==
  ASSUME LoginInv, NEW a \in Account, NEW i \in Identity, NEW l \in Login, CreateAccount(a, i, l)
  PROVE  AccountsFollow(accounts, accounts', identities')
<1>1. PICK n : n = [NoAccount EXCEPT !.version = 1]
  OBVIOUS
<1>2. n \in AccountRecord /\ n.version = 1 /\ ~n.admitted
  BY <1>1 DEF NoAccount, AccountRecord
<1>3. ~accounts[a].joined
  BY AccountFacts DEF CreateAccount, Exists
<1>4. n.version > 0
  BY <1>2
<1> QED BY <1>1, <1>2, <1>3, <1>4, LinkKeeps DEF CreateAccount

LEMMA CommitLinkKeeps ==
  ASSUME LoginInv, NEW a \in Account, NEW v, NEW i \in Identity, NEW l \in Login, CommitLinkIdentity(a, v, i, l)
  PROVE  AccountsFollow(accounts, accounts', identities')
<1>1. PICK n \in AccountRecord :
        /\ NextVersion(a) = [accounts EXCEPT ![a] = n]
        /\ n.version > 0 /\ (n.joined <=> accounts[a].joined) /\ (n.admitted <=> accounts[a].admitted)
  BY NextVersionIs
<1>2. n.admitted => n.joined
  BY <1>1, AccountFacts
<1> QED BY <1>1, <1>2, LinkKeeps DEF CommitLinkIdentity

LEMMA CommitUnlinkKeeps ==
  ASSUME LoginInv, NEW a \in Account, NEW v, NEW target, NEW remaining, CommitUnlinkIdentity(a, v, target, remaining)
  PROVE  AccountsFollow(accounts, accounts', identities')
<1>1. PICK n \in AccountRecord :
        /\ NextVersion(a) = [accounts EXCEPT ![a] = n]
        /\ n.version > 0 /\ (n.joined <=> accounts[a].joined) /\ (n.admitted <=> accounts[a].admitted)
  BY NextVersionIs
<1>2. accounts' = [accounts EXCEPT ![a] = n] /\ accounts[a].version > 0
  BY <1>1 DEF CommitUnlinkIdentity, VersionCurrent, Usable, Exists
<1>3. accounts' \in [Account -> AccountRecord] /\ accounts'[a] = n /\ \A b \in Account \ {a} : accounts'[b] = accounts[b]
  BY <1>2, AccountFacts
<1>4. /\ target \in Identity /\ remaining \in Identity /\ target # remaining
      /\ identities[target].linked /\ identities[target].account = a
      /\ identities[remaining].linked /\ identities[remaining].account = a
  BY DEF CommitUnlinkIdentity, RemainingLinked, LinkedTo
<1>5. PICK d : d = [identities[target] EXCEPT !.linked = FALSE]
  OBVIOUS
<1>6. d \in IdentityRecord /\ ~d.linked
  BY <1>4, <1>5, AccountFacts DEF IdentityRecord
<1>7. identities' = [identities EXCEPT ![target] = d]
  BY <1>5 DEF CommitUnlinkIdentity
<1>8. identities' \in [Identity -> IdentityRecord] /\ identities'[target] = d
      /\ \A j \in Identity \ {target} : identities'[j] = identities[j]
  BY <1>4, <1>6, <1>7, AccountFacts
<1>9. \A j \in Identity : identities'[j].linked => identities'[j] = identities[j] /\ identities[j].linked
  BY <1>6, <1>8
<1>10. \A b \in Account : (accounts'[b].admitted => accounts'[b].joined) /\ (accounts'[b].joined => accounts'[b].version > 0)
  BY <1>1, <1>3, AccountFacts
<1>11. \A b \in Account : accounts'[b].version > 0 => \E j \in Identity : identities'[j].linked /\ identities'[j].account = b
  <2> SUFFICES ASSUME NEW b \in Account, accounts'[b].version > 0
               PROVE  \E j \in Identity : identities'[j].linked /\ identities'[j].account = b
    OBVIOUS
  <2>1. CASE b = a
    BY <1>4, <1>8, <2>1
  <2>2. CASE b # a
    <3>1. PICK j \in Identity : identities[j].linked /\ identities[j].account = b
      BY <1>3, <2>2 DEF LoginInv, AccountsGood
    <3> QED BY <1>4, <1>8, <2>2, <3>1
  <2> QED BY <2>1, <2>2
<1>12. \A j \in Identity : identities'[j].linked => identities'[j].account \in Account /\ identities'[j].login \in Login
  BY <1>9, AccountFacts
<1>13. \A j, k \in Identity : identities'[j].linked /\ identities'[k].linked /\ identities'[j].login = identities'[k].login => j = k
  BY <1>9 DEF LoginInv, AccountsGood
<1>14. AccountsGood(accounts', identities')
  BY <1>3, <1>8, <1>10, <1>11, <1>12, <1>13 DEF AccountsGood
<1>15. \A b \in Account : accounts[b].joined => accounts'[b].joined
  BY <1>1, <1>3
<1> QED BY <1>14, <1>15 DEF AccountsFollow

(* A request goes on, the tables change as above. *)
LEMMA ReqStays ==
  ASSUME LoginInv, NEW q \in Requests, NEW tt, NEW bb, NEW jj, ReqSound(q, sessions, accounts),
         SessionsFollow(sessions, tt), AccountsFollow(accounts, bb, jj)
  PROVE  ReqSound(q, tt, bb)
<1>1. q.sid \in 0..MaxSession /\ q.row \in Payload /\ q.row.parent \in 0..MaxSession
  BY DEF Requests, Payload
<1>2. (q.sid > 0 => q.sid \in SessionId) /\ (q.row.parent > 0 => q.row.parent \in SessionId)
  BY <1>1, NumbersAreSound
<1>3. \A s \in SessionId : sessions[s] \in Rows /\ tt[s] \in Rows
  BY DEF LoginInv, SessionsFollow, SessionsGood
<1>4. \A s \in SessionId : /\ sessions[s] # Unused => tt[s] # Unused
                           /\ sessions[s] = Gone => tt[s] = Gone
                           /\ sessions[s] \in Payload /\ tt[s] \in Payload => tt[s].parent = sessions[s].parent
  BY DEF SessionsFollow
<1>5. q.pc \in {"rotate", "answer"} =>
        /\ q.row.parent > 0 /\ tt[q.row.parent] # Unused
        /\ tt[q.row.parent] # Gone => tt[q.row.parent].parent = q.sid
  BY <1>2, <1>3, <1>4, PayloadsAreRows DEF ReqSound, Rows
<1>6. q.pc \in Calling => q.row.account \in Account /\ bb[q.row.account].joined
  BY DEF ReqSound, AccountsFollow
<1>7. q.sid > 0 => tt[q.sid] # Unused
  BY <1>2, <1>4 DEF ReqSound
<1>8. (q.pc = "answer" /\ q.sid > 0 => tt[q.sid] = Gone) /\ (q.pc = "consent" => q.sid > 0 /\ tt[q.sid] = Gone)
  BY <1>2, <1>4 DEF ReqSound
<1> QED BY <1>5, <1>6, <1>7, <1>8 DEF ReqSound

LEMMA LoginStays ==
  ASSUME LoginInv, req' = req, clock' \in Nat, SessionsFollow(sessions, sessions'),
         AccountsFollow(accounts, accounts', identities'), grants' = grants
  PROVE  LoginInv'
<1>1. \A r \in Request : req[r] \in Requests /\ ReqSound(req[r], sessions, accounts)
  BY DEF LoginInv
<1>2. \A r \in Request : ReqSound(req'[r], sessions', accounts')
  BY <1>1, ReqStays
<1>3. \A g \in Grant : grants[g] # NoGrant => grants[g].consent \in SessionId
  <2>1. \A g \in Grant : grants[g].consent \in 0..MaxSession
    BY DEF LoginInv, Grants
  <2> QED BY <2>1, NumbersAreSound DEF LoginInv, ConsentsOnce
<1>4. \A s \in SessionId : sessions[s] = Gone => sessions'[s] = Gone
  BY DEF SessionsFollow
<1>5. ConsentsOnce(req', grants', sessions')
  BY <1>3, <1>4 DEF LoginInv, ConsentsOnce
<1> QED BY <1>2, <1>5 DEF LoginInv, SessionsFollow, AccountsFollow

LEMMA LoginMoves ==
  ASSUME LoginInv, NEW r \in Request, NEW n \in Requests, req' = [req EXCEPT ![r] = n], clock' \in Nat,
         SessionsFollow(sessions, sessions'), AccountsFollow(accounts, accounts', identities'), grants' = grants,
         ReqSound(n, sessions', accounts'), n.pc = "consent" => sessions[n.sid] # Gone
  PROVE  LoginInv'
<1>1. \A u \in Request : req[u] \in Requests /\ ReqSound(req[u], sessions, accounts)
  BY DEF LoginInv
<1>2. req' \in [Request -> Requests] /\ req'[r] = n /\ \A u \in Request \ {r} : req'[u] = req[u]
  BY DEF LoginInv
<1>3. \A u \in Request : ReqSound(req'[u], sessions', accounts')
  BY <1>1, <1>2, ReqStays
<1>4. \A g \in Grant : grants[g] # NoGrant => grants[g].consent \in SessionId /\ sessions[grants[g].consent] = Gone
  <2>1. \A g \in Grant : grants[g].consent \in 0..MaxSession
    BY DEF LoginInv, Grants
  <2> QED BY <2>1, NumbersAreSound DEF LoginInv, ConsentsOnce
<1>5. \A s \in SessionId : sessions[s] = Gone => sessions'[s] = Gone
  BY DEF SessionsFollow
<1>6. \A u \in Request : req[u].pc = "consent" => sessions[req[u].sid] = Gone
  BY <1>1 DEF ReqSound
<1>7. ConsentsOnce(req', grants', sessions')
  <2>1. \A u, w \in Request : req'[u].pc = "consent" /\ req'[w].pc = "consent" /\ req'[u].sid = req'[w].sid => u = w
    BY <1>2, <1>6 DEF LoginInv, ConsentsOnce
  <2>2. \A g \in Grant : grants'[g] # NoGrant =>
          /\ grants'[g].consent > 0 /\ sessions'[grants'[g].consent] = Gone
          /\ \A u \in Request : req'[u].pc = "consent" => req'[u].sid # grants'[g].consent
    BY <1>2, <1>4, <1>5 DEF LoginInv, ConsentsOnce
  <2> QED BY <2>1, <2>2 DEF LoginInv, ConsentsOnce
<1> QED BY <1>2, <1>3, <1>7 DEF LoginInv, SessionsFollow, AccountsFollow

LEMMA ReqFacts ==
  ASSUME LoginInv, NEW r \in Request
  PROVE  /\ req[r] \in Requests /\ ReqSound(req[r], sessions, accounts)
         /\ req[r].sid \in 0..MaxSession /\ req[r].row \in Payload /\ RowSound(req[r].row)
         /\ req[r].row.parent \in 0..MaxSession
<1>1. req[r] \in Requests /\ ReqSound(req[r], sessions, accounts)
  BY DEF LoginInv
<1>2. req[r].sid \in 0..MaxSession /\ req[r].row \in Payload
  BY <1>1 DEF Requests
<1> QED BY <1>1, <1>2 DEF ReqSound, Payload

LEMMA IdleKeeps ==
  ASSUME LoginInv, NEW r \in Request, req' = [req EXCEPT ![r] = Idle], clock' \in Nat,
         SessionsFollow(sessions, sessions'), AccountsFollow(accounts, accounts', identities'), grants' = grants
  PROVE  LoginInv'
<1>1. ReqSound(Idle, sessions', accounts')
  BY BlankRows DEF ReqSound, Proving, Proven, Calling
<1> QED BY <1>1, BlankRows, LoginMoves

(* A request that waits for nothing but its next step, with a payload and a row it came from. *)
LEMMA WaitingKeeps ==
  ASSUME LoginInv, NEW r \in Request, NEW n \in Requests, req' = [req EXCEPT ![r] = n],
         n.pc \in {"begin", "persist", "exchange", "accept", "provider", "authority", "actor", "act"},
         RowSound(n.row), n.sid > 0 => sessions[n.sid] # Unused, clock' \in Nat,
         SessionsFollow(sessions, sessions'), AccountsFollow(accounts, accounts', identities'), grants' = grants
  PROVE  LoginInv'
<1>1. n.sid \in 0..MaxSession
  BY DEF Requests
<1>2. n.sid > 0 => n.sid \in SessionId
  BY <1>1, NumbersAreSound
<1>3. n.sid > 0 => sessions'[n.sid] # Unused
  BY <1>2 DEF SessionsFollow
<1>4. ReqSound(n, sessions', accounts') /\ n.pc # "consent"
  BY <1>3 DEF ReqSound, Proving, Proven, Calling
<1> QED BY <1>4, LoginMoves

LEMMA HandOverKeeps ==
  ASSUME LoginInv, NEW r \in Request, NEW s \in 0..MaxSession, NEW p \in Payload, NEW b \in BOOLEAN,
         HandOver(r, s, p, b), RowSound(p), s > 0 => sessions[s] # Unused, clock' \in Nat,
         SessionsFollow(sessions, sessions'), AccountsFollow(accounts, accounts', identities'), grants' = grants
  PROVE  LoginInv'
<1>1. PICK n : n = [Idle EXCEPT !.pc = "persist", !.sid = s, !.row = p, !.audit = b]
  OBVIOUS
<1>2. n \in Requests /\ n.pc = "persist" /\ n.row = p /\ n.sid = s
  BY <1>1, BlankRows DEF Requests, Pcs
<1>3. req' = [req EXCEPT ![r] = n]
  BY <1>1 DEF HandOver
<1> QED BY <1>2, <1>3, WaitingKeeps

(* The request is at its next step with all it has. *)
LEMMA NextPc ==
  ASSUME LoginInv, NEW r \in Request, NEW x \in Pcs, req' = [req EXCEPT ![r].pc = x]
  PROVE  \E n \in Requests : /\ req' = [req EXCEPT ![r] = n] /\ n.pc = x
                             /\ n.sid = req[r].sid /\ n.row = req[r].row /\ n.login = req[r].login
<1>1. PICK n : n = [req[r] EXCEPT !.pc = x]
  OBVIOUS
<1>2. n \in Requests /\ n.pc = x /\ n.sid = req[r].sid /\ n.row = req[r].row /\ n.login = req[r].login
  BY <1>1, ReqFacts DEF Requests
<1> QED BY <1>1, <1>2

LEMMA SidStays ==
  ASSUME LoginInv, NEW r \in Request, SessionsFollow(sessions, sessions')
  PROVE  req[r].sid > 0 => sessions[req[r].sid] # Unused /\ sessions'[req[r].sid] # Unused
<1>1. req[r].sid > 0 => req[r].sid \in SessionId
  BY ReqFacts, NumbersAreSound
<1> QED BY <1>1, ReqFacts DEF ReqSound, SessionsFollow

-----------------------------------------------------------------------------
(* Flows begin. *)
LEMMA StartFlowKeeps ==
  ASSUME LoginInv, NEW p \in Payload, RowSound(p), StartFlow(p), UNCHANGED grants PROVE LoginInv'
<1>1. PICK s \in SessionId : Fresh(s) /\ sessions' = [sessions EXCEPT ![s] = Row(p, 0, TRUE)]
                            /\ Keep /\ UNCHANGED <<req, accountVars>>
  BY DEF StartFlow
<1>2. 0 \in 0..MaxSession
  BY NumbersAreSound
<1>3. PICK w \in Payload : w = Row(p, 0, TRUE) /\ RowSound(w) /\ w.parent = 0
  BY <1>2, RowIs
<1>4. SessionsFollow(sessions, sessions')
  BY <1>1, <1>3, SessionMade
<1>5. clock' \in Nat /\ AccountsFollow(accounts, accounts', identities') /\ req' = req
  BY <1>1, AccountsStay DEF Keep, accountVars, LoginInv
<1> QED BY <1>4, <1>5, LoginStays

LEMMA StartsKeep ==
  ASSUME LoginInv, StartLogin \/ StartCli \/ OpenInvitation, UNCHANGED grants PROVE LoginInv'
<1>1. ASSUME NEW v \in Provider, NEW x \in {"login", "cli"}, NEW i \in Invitation \cup {None}, NEW y \in {x, "invite"}
      PROVE  /\ [NoPayload EXCEPT !.provider = v, !.purpose = y, !.invitation = i] \in Payload
             /\ RowSound([NoPayload EXCEPT !.provider = v, !.purpose = y, !.invitation = i])
  <2>1. PICK p : p = [NoPayload EXCEPT !.provider = v, !.purpose = y, !.invitation = i]
    OBVIOUS
  <2>2. p \in Payload /\ p.kind = "prelogin" /\ p.purpose = y
    BY <2>1, BlankRows DEF Payload
  <2> QED BY <2>1, <2>2 DEF RowSound, Claims
<1>2. ASSUME NEW v \in Provider, StartFlow([NoPayload EXCEPT !.provider = v]) PROVE LoginInv'
  <2>1. PICK p : p = [NoPayload EXCEPT !.provider = v]
    OBVIOUS
  <2>2. p \in Payload /\ p.kind = "prelogin" /\ p.purpose = "login"
    BY <2>1, BlankRows DEF Payload
  <2>3. RowSound(p)
    BY <2>2 DEF RowSound, Claims
  <2> QED BY <1>2, <2>1, <2>2, <2>3, StartFlowKeeps
<1>3. ASSUME NEW v \in Provider, StartFlow([NoPayload EXCEPT !.provider = v, !.purpose = "cli"]) PROVE LoginInv'
  <2>1. PICK p : p = [NoPayload EXCEPT !.provider = v, !.purpose = "cli"]
    OBVIOUS
  <2>2. p \in Payload /\ p.kind = "prelogin" /\ p.purpose = "cli"
    BY <2>1, BlankRows DEF Payload
  <2>3. RowSound(p)
    BY <2>2 DEF RowSound, Claims
  <2> QED BY <1>3, <2>1, <2>2, <2>3, StartFlowKeeps
<1>4. ASSUME NEW v \in Provider, NEW i \in AppInvitation,
             StartFlow([NoPayload EXCEPT !.provider = v, !.purpose = "invite", !.invitation = i])
      PROVE  LoginInv'
  <2>0. i \in Invitation \cup {None}
    BY DEF Invitation
  <2> QED BY <1>1, <1>4, <2>0, StartFlowKeeps
<1> QED BY <1>2, <1>3, <1>4 DEF StartLogin, StartCli, OpenInvitation

LEMMA OpenPlatformInvitationKeeps ==
  ASSUME LoginInv, NEW r \in Request, OpenPlatformInvitation(r), UNCHANGED grants PROVE LoginInv'
<1>1. PICK s \in {0} \cup {t \in SessionId : Presented(t)}, v \in Provider, i \in PlatformInvitation \cap pending :
        /\ sessions' = Deleted(s)
        /\ req' = [req EXCEPT ![r] = [Idle EXCEPT !.pc = "begin",
             !.row = [NoPayload EXCEPT !.provider = v, !.purpose = "invite", !.invitation = i]]]
  BY DEF OpenPlatformInvitation
<1>2. SessionsFollow(sessions, sessions')
  BY <1>1, SessionDeleted, NumbersAreSound
<1>3. clock' \in Nat /\ AccountsFollow(accounts, accounts', identities')
  BY AccountsStay DEF OpenPlatformInvitation, Keep, accountVars, LoginInv
<1>4. PICK p : p = [NoPayload EXCEPT !.provider = v, !.purpose = "invite", !.invitation = i]
  OBVIOUS
<1>5. p \in Payload /\ p.kind = "prelogin" /\ p.purpose = "invite"
  BY <1>1, <1>4, BlankRows DEF Payload, Invitation
<1>6. RowSound(p)
  BY <1>5 DEF RowSound, Claims
<1>7. PICK n : n = [Idle EXCEPT !.pc = "begin", !.row = p]
  OBVIOUS
<1>8. n \in Requests /\ n.pc = "begin" /\ n.row = p /\ n.sid = 0
  BY <1>5, <1>7, BlankRows DEF Requests, Pcs
<1>9. req' = [req EXCEPT ![r] = n]
  BY <1>1, <1>4, <1>7
<1>10. ~(n.sid > 0)
  BY <1>8
<1> QED BY <1>2, <1>3, <1>6, <1>8, <1>9, <1>10, WaitingKeeps

LEMMA BeginFlowKeeps ==
  ASSUME LoginInv, NEW r \in Request, BeginFlow(r), UNCHANGED grants PROVE LoginInv'
<1>1. PICK s \in SessionId : Fresh(s) /\ sessions' = [sessions EXCEPT ![s] = Row(req[r].row, 0, TRUE)]
  BY DEF BeginFlow
<1>2. PICK p : p = req[r].row
  OBVIOUS
<1>3. p \in Payload /\ RowSound(p)
  BY <1>2, ReqFacts
<1>4. 0 \in 0..MaxSession
  BY NumbersAreSound
<1>5. PICK w \in Payload : w = Row(p, 0, TRUE) /\ RowSound(w) /\ w.parent = 0
  BY <1>3, <1>4, RowIs
<1>6. SessionsFollow(sessions, sessions')
  BY <1>1, <1>2, <1>5, SessionMade
<1>7. clock' \in Nat /\ AccountsFollow(accounts, accounts', identities') /\ req' = [req EXCEPT ![r] = Idle]
  BY AccountsStay DEF BeginFlow, Keep, accountVars, LoginInv
<1> QED BY <1>6, <1>7, IdleKeeps

LEMMA FullSessionFacts ==
  ASSUME LoginInv, NEW s \in SessionId, FullSession(s)
  PROVE  /\ sessions[s] \in Payload /\ RowSound(sessions[s]) /\ sessions[s] # Unused /\ sessions[s].kind = "session"
         /\ sessions[s].account \in Account /\ accounts[sessions[s].account].joined
<1>1. IsRow(s) /\ Readable(s) /\ sessions[s].kind = "session" /\ sessions[s].invitation = None
  BY DEF FullSession, Presented
<1>2. Credential(sessions[s].account, sessions[s].identity, sessions[s].version) /\ Admitted(sessions[s].account)
  BY <1>1 DEF Readable
<1>3. sessions[s].account \in Account
  BY <1>2, AccountFacts DEF Credential
<1>4. accounts[sessions[s].account].joined
  BY <1>2, <1>3, AccountFacts DEF Admitted
<1> QED BY <1>1, <1>3, <1>4, RowFacts

LEMMA StartLinkKeeps ==
  ASSUME LoginInv, NEW r \in Request, StartLink(r), UNCHANGED grants PROVE LoginInv'
<1>1. PICK s \in SessionId, v \in Provider :
        /\ FullSession(s) /\ sessions' = Touched(s)
        /\ HandOver(r, s, [sessions[s] EXCEPT !.kind = "prelogin", !.purpose = "linkCurrent",
             !.next = v, !.at = 0, !.proofs = {}], FALSE)
  BY DEF StartLink
<1>2. sessions[s] \in Payload /\ sessions[s] # Unused
  BY <1>1, FullSessionFacts
<1>3. PICK p : p = [sessions[s] EXCEPT !.kind = "prelogin", !.purpose = "linkCurrent", !.next = v, !.at = 0, !.proofs = {}]
  OBVIOUS
<1>4. p \in Payload /\ p.kind = "prelogin" /\ p.purpose = "linkCurrent"
  BY <1>2, <1>3 DEF Payload
<1>5. RowSound(p)
  BY <1>4 DEF RowSound, Claims
<1>6. SessionsFollow(sessions, sessions')
  BY <1>1, SessionTouched
<1>7. clock' \in Nat /\ AccountsFollow(accounts, accounts', identities')
  BY AccountsStay DEF StartLink, Keep, accountVars, LoginInv
<1>8. s \in 0..MaxSession
  BY NumbersAreSound
<1> QED BY <1>1, <1>2, <1>3, <1>4, <1>5, <1>6, <1>7, <1>8, HandOverKeeps

LEMMA StartUnlinkKeeps ==
  ASSUME LoginInv, NEW r \in Request, StartUnlink(r), UNCHANGED grants PROVE LoginInv'
<1>1. PICK s \in SessionId, target \in Identity, remaining \in Identity :
        /\ FullSession(s) /\ sessions' = Touched(s)
        /\ remaining \in LinkedTo(sessions[s].account)
        /\ HandOver(r, s, [sessions[s] EXCEPT !.kind = "prelogin", !.purpose = "unlink",
             !.provider = ProviderOf[identities[remaining].login], !.at = 0, !.proofs = {},
             !.login = identities[remaining].login, !.identity = remaining, !.target = target], FALSE)
  BY DEF StartUnlink
<1>2. sessions[s] \in Payload /\ sessions[s] # Unused
  BY <1>1, FullSessionFacts
<1>3. PICK l \in Login : l = identities[remaining].login
  BY <1>1, AccountFacts DEF LinkedTo
<1>4. ProviderOf[l] \in Provider /\ target \in Source
  BY DEF Provider, Source
<1>5. PICK p : p = [sessions[s] EXCEPT !.kind = "prelogin", !.purpose = "unlink", !.provider = ProviderOf[l], !.at = 0,
                      !.proofs = {}, !.login = l, !.identity = remaining, !.target = target]
  OBVIOUS
<1>6. p \in Payload /\ p.kind = "prelogin" /\ p.purpose = "unlink"
  BY <1>2, <1>4, <1>5 DEF Payload
<1>7. RowSound(p)
  BY <1>6 DEF RowSound, Claims
<1>8. SessionsFollow(sessions, sessions')
  BY <1>1, SessionTouched
<1>9. clock' \in Nat /\ AccountsFollow(accounts, accounts', identities')
  BY AccountsStay DEF StartUnlink, Keep, accountVars, LoginInv
<1>10. s \in 0..MaxSession /\ HandOver(r, s, p, FALSE)
  BY <1>1, <1>3, <1>5, NumbersAreSound
<1> QED BY <1>2, <1>6, <1>7, <1>8, <1>9, <1>10, HandOverKeeps

(* Callbacks. *)
LEMMA BeginCallbackKeeps ==
  ASSUME LoginInv, NEW r \in Request, BeginCallback(r), UNCHANGED grants PROVE LoginInv'
<1>1. PICK s \in SessionId, l \in Login :
        /\ Presented(s) /\ sessions[s].kind = "prelogin"
        /\ req' = [req EXCEPT ![r] =
             [Idle EXCEPT !.pc = sessions[s].purpose, !.sid = s, !.login = l,
                !.row = [sessions[s] EXCEPT !.proofs = sessions[s].proofs \cup {l}]]]
  BY DEF BeginCallback
<1>2. sessions[s] \in Payload /\ RowSound(sessions[s]) /\ sessions[s] # Unused
  BY <1>1, RowFacts DEF Presented
<1>3. sessions' = sessions /\ clock' \in Nat /\ AccountsFollow(accounts, accounts', identities')
  BY AccountsStay DEF BeginCallback, Keep, accountVars, LoginInv
<1>4. PICK p : p = [sessions[s] EXCEPT !.proofs = sessions[s].proofs \cup {l}]
  OBVIOUS
<1>5. sessions[s].proofs \cup {l} \in SUBSET Login
  BY <1>2 DEF Payload
<1>6. p \in Payload
  BY <1>2, <1>4, <1>5 DEF Payload
<1>7. p.kind = "prelogin" /\ p.purpose = sessions[s].purpose /\ p.login = sessions[s].login /\ p.proofs = sessions[s].proofs \cup {l}
  BY <1>1, <1>2, <1>4 DEF Payload
<1>8. PICK x \in {"login", "cli", "invite", "linkCurrent", "linkTarget", "unlink"} : x = sessions[s].purpose
  BY <1>2 DEF Payload
<1>9. PICK n : n = [Idle EXCEPT !.pc = x, !.sid = s, !.login = l, !.row = p]
  OBVIOUS
<1>10. s \in 0..MaxSession
  BY NumbersAreSound
<1>11. n \in Requests /\ n.pc = x /\ n.sid = s /\ n.login = l /\ n.row = p
  BY <1>6, <1>9, <1>10, BlankRows DEF Requests, Pcs
<1>12. RowSound(p) /\ (x = "linkTarget" => p.login \in p.proofs)
  BY <1>1, <1>2, <1>7, <1>8 DEF RowSound, Claims
<1>13. ReqSound(n, sessions, accounts') /\ n.pc # "consent"
  BY <1>2, <1>7, <1>11, <1>12 DEF ReqSound, Proven, Proving, Calling
<1>14. req' = [req EXCEPT ![r] = n]
  BY <1>1, <1>4, <1>8, <1>9
<1> QED BY <1>3, <1>11, <1>13, <1>14, SessionsStay, LoginMoves

LEMMA DroppedKeeps ==
  ASSUME LoginInv, FailCallback \/ Logout \/ Drop, UNCHANGED grants PROVE LoginInv'
<1>1. PICK s \in SessionId : sessions' = Deleted(s)
  BY DEF FailCallback, Logout, Drop
<1>2. SessionsFollow(sessions, sessions')
  BY <1>1, SessionDeleted, NumbersAreSound
<1>3. clock' \in Nat /\ AccountsFollow(accounts, accounts', identities') /\ req' = req
  BY AccountsStay DEF FailCallback, Logout, Drop, Keep, accountVars, LoginInv
<1> QED BY <1>2, <1>3, LoginStays

LEMMA LoginPayloadIs ==
  ASSUME LoginInv, NEW r \in Request, req[r].pc \in Proving, NEW i \in ActiveIdentities(req[r].login), NEW a,
         a = identities[i].account
  PROVE  LoginPayload(req[r], a, i) \in Payload /\ RowSound(LoginPayload(req[r], a, i))
<1>1. i \in Identity /\ a \in Account /\ accounts[a].version \in Nat
  BY AccountFacts DEF ActiveIdentities
<1>2. req[r].login \in req[r].row.proofs /\ req[r].row \in Payload
  BY ReqFacts DEF ReqSound
<1>3. PICK l \in Login : l = req[r].login
  BY <1>2 DEF Payload
<1>4. ProviderOf[l] \in Provider /\ clock \in Nat
  BY DEF Provider, LoginInv
<1>5. PICK k \in {"code", "session"} : k = IF req[r].row.purpose = "cli" THEN "code" ELSE "session"
  OBVIOUS
<1>6. PICK x \in {"cli", "login"} : x = IF req[r].row.purpose = "cli" THEN "cli" ELSE "login"
  OBVIOUS
<1>7. PICK o \in Invitation \cup {None} : o = req[r].row.invitation
  BY <1>2 DEF Payload
<1>8. PICK f \in SUBSET Login : f = req[r].row.proofs
  BY <1>2 DEF Payload
<1>9. PICK w \in Provider : w = ProviderOf[l]
  BY <1>4
<1>10. PICK v \in Nat : v = accounts[a].version
  BY <1>1
<1>11. PICK t \in Nat : t = clock
  BY <1>4
<1>12. PICK p : p = [NoPayload EXCEPT !.kind = k, !.purpose = x, !.provider = w, !.login = l, !.account = a,
                      !.identity = i, !.version = v, !.invitation = o, !.at = t, !.proofs = f]
  OBVIOUS
<1>13. PICK p0 \in Payload : p0 = [NoPayload EXCEPT !.kind = k, !.purpose = x, !.provider = w, !.login = l, !.account = a]
  BY <1>1, BlankRows DEF Payload
<1>14. PICK p1 \in Payload : p1 = [p0 EXCEPT !.identity = i, !.version = v]
  BY <1>1 DEF Payload
<1>15. p = [p1 EXCEPT !.invitation = o, !.at = t, !.proofs = f]
  BY <1>12, <1>13, <1>14
<1>16. p \in Payload /\ p.proofs = f
  BY <1>15 DEF Payload
<1>17. p.login = l
  BY <1>12, BlankRows DEF Payload
<1>18. p \in Payload /\ p.login = l /\ p.proofs = f
  BY <1>16, <1>17
<1>19. RowSound(p)
  BY <1>2, <1>3, <1>8, <1>18 DEF RowSound
<1>20. p = LoginPayload(req[r], a, i)
  BY <1>3, <1>5, <1>6, <1>7, <1>8, <1>9, <1>10, <1>11, <1>12 DEF LoginPayload
<1> QED BY <1>18, <1>19, <1>20

LEMMA AuthorizeLoginKeeps ==
  ASSUME LoginInv, NEW r \in Request, AuthorizeLogin(r), UNCHANGED grants PROVE LoginInv'
<1>1. PICK i \in ActiveIdentities(req[r].login) :
        HandOver(r, req[r].sid, LoginPayload(req[r], identities[i].account, i), req[r].pc = "login")
  BY DEF AuthorizeLogin
<1>2. req[r].pc \in Proving
  BY DEF AuthorizeLogin, Proving
<1>3. PICK p : p = LoginPayload(req[r], identities[i].account, i)
  OBVIOUS
<1>4. p \in Payload /\ RowSound(p)
  BY <1>2, <1>3, LoginPayloadIs
<1>5. PICK b \in BOOLEAN : b = (req[r].pc = "login")
  OBVIOUS
<1>6. PICK s \in 0..MaxSession : s = req[r].sid
  BY ReqFacts
<1>7. HandOver(r, s, p, b)
  BY <1>1, <1>3, <1>5, <1>6
<1>8. sessions' = sessions /\ clock' \in Nat /\ AccountsFollow(accounts, accounts', identities')
  BY AccountsStay DEF AuthorizeLogin, Keep, accountVars, LoginInv
<1>9. s > 0 => sessions[s] # Unused
  BY <1>6, ReqFacts DEF ReqSound
<1> QED BY <1>4, <1>7, <1>8, <1>9, SessionsStay, HandOverKeeps

LEMMA AuthorizeInvitedKeeps ==
  ASSUME LoginInv, NEW r \in Request, AuthorizeInvited(r), UNCHANGED grants PROVE LoginInv'
<1>0. req[r].pc = "invite" /\ req[r].pc \in Proving
  BY DEF AuthorizeInvited, Proving
<1>1. sessions' = sessions /\ clock' \in Nat /\ AccountsFollow(accounts, accounts', identities')
  BY AccountsStay DEF AuthorizeInvited, Keep, accountVars, LoginInv
<1>2. CASE req' = [req EXCEPT ![r].pc = "create"]
  <2>1. PICK n \in Requests : /\ req' = [req EXCEPT ![r] = n] /\ n.pc = "create"
                              /\ n.sid = req[r].sid /\ n.row = req[r].row /\ n.login = req[r].login
    BY <1>2, NextPc DEF Pcs
  <2>2. ReqSound(n, sessions, accounts') /\ n.pc # "consent"
    BY <1>0, <2>1, ReqFacts DEF ReqSound, Proving, Proven, Calling
  <2> QED BY <1>1, <2>1, <2>2, SessionsStay, LoginMoves
<1>3. CASE \E i \in ActiveIdentities(req[r].login) : HandOver(r, req[r].sid, LoginPayload(req[r], identities[i].account, i), TRUE)
  <2>1. PICK i \in ActiveIdentities(req[r].login) : HandOver(r, req[r].sid, LoginPayload(req[r], identities[i].account, i), TRUE)
    BY <1>3
  <2>2. PICK p : p = LoginPayload(req[r], identities[i].account, i)
    OBVIOUS
  <2>3. p \in Payload /\ RowSound(p)
    BY <1>0, <2>2, LoginPayloadIs
  <2>4. PICK s \in 0..MaxSession : s = req[r].sid
    BY ReqFacts
  <2>5. HandOver(r, s, p, TRUE)
    BY <2>1, <2>2, <2>4
  <2>6. s > 0 => sessions[s] # Unused
    BY <2>4, ReqFacts DEF ReqSound
  <2> QED BY <1>1, <2>3, <2>5, <2>6, SessionsStay, HandOverKeeps
<1> QED BY <1>2, <1>3 DEF AuthorizeInvited

LEMMA CreateInvitedKeeps ==
  ASSUME LoginInv, NEW r \in Request, CreateInvited(r), UNCHANGED grants PROVE LoginInv'
<1>0. req[r].pc = "create" /\ req[r].pc \in Proving
  BY DEF CreateInvited, Proving
<1>1. PICK a \in Account, i \in Identity : CreateAccount(a, i, req[r].login)
  BY DEF CreateInvited
<1>2. PICK l \in Login : l = req[r].login
  BY <1>0, ReqFacts DEF ReqSound, Payload
<1>3. AccountsFollow(accounts, accounts', identities')
  BY <1>1, <1>2, CreateAccountKeeps
<1>4. sessions' = sessions /\ clock' \in Nat /\ req' = [req EXCEPT ![r].pc = "invite"]
  BY DEF CreateInvited, Keep, LoginInv
<1>5. PICK n \in Requests : /\ req' = [req EXCEPT ![r] = n] /\ n.pc = "invite"
                            /\ n.sid = req[r].sid /\ n.row = req[r].row /\ n.login = req[r].login
  BY <1>4, NextPc DEF Pcs
<1>6. ReqSound(n, sessions, accounts') /\ n.pc # "consent"
  BY <1>0, <1>5, ReqFacts DEF ReqSound, Proving, Proven, Calling
<1> QED BY <1>3, <1>4, <1>5, <1>6, SessionsStay, LoginMoves

(* A flow that is refused, and a code that is refused: the row goes. *)
LEMMA RefusedKeeps ==
  ASSUME LoginInv, NEW r \in Request, RefuseLogin(r) \/ RefuseMutation(r) \/ RefuseCode(r), UNCHANGED grants
  PROVE  LoginInv'
<1>1. sessions' = Deleted(req[r].sid) /\ req' = [req EXCEPT ![r] = Idle]
  BY DEF RefuseLogin, RefuseMutation, RefuseCode
<1>2. clock' \in Nat /\ AccountsFollow(accounts, accounts', identities')
  BY AccountsStay DEF RefuseLogin, RefuseMutation, RefuseCode, Keep, accountVars, LoginInv
<1>3. SessionsFollow(sessions, sessions')
  BY <1>1, ReqFacts, SessionDeleted
<1> QED BY <1>1, <1>2, <1>3, IdleKeeps

-----------------------------------------------------------------------------
(* Links and unlinks. *)
LEMMA ProveCurrentKeeps ==
  ASSUME LoginInv, NEW r \in Request, ProveCurrent(r), UNCHANGED grants PROVE LoginInv'
<1>0. req[r].pc = "linkCurrent" /\ req[r].login = req[r].row.login /\ req[r].row \in Payload
  BY ReqFacts DEF ProveCurrent, SameLogin
<1>1. req[r].row.login \in req[r].row.proofs
  BY <1>0, ReqFacts DEF ReqSound, Proving
<1>2. PICK p : p = [req[r].row EXCEPT !.purpose = "linkTarget", !.provider = req[r].row.next, !.at = clock]
  OBVIOUS
<1>3. p \in Payload /\ p.login = req[r].row.login /\ p.proofs = req[r].row.proofs
  BY <1>0, <1>2 DEF Payload, LoginInv
<1>4. RowSound(p)
  BY <1>1, <1>3 DEF RowSound
<1>5. PICK s \in 0..MaxSession : s = req[r].sid
  BY ReqFacts
<1>6. HandOver(r, s, p, FALSE)
  BY <1>2, <1>5 DEF ProveCurrent
<1>7. sessions' = sessions /\ clock' \in Nat /\ AccountsFollow(accounts, accounts', identities')
  BY AccountsStay DEF ProveCurrent, Keep, accountVars, LoginInv
<1>8. s > 0 => sessions[s] # Unused
  BY <1>5, ReqFacts DEF ReqSound
<1> QED BY <1>3, <1>4, <1>6, <1>7, <1>8, SessionsStay, HandOverKeeps

(* The session that a mutation ends with is for the login that was proven. *)
LEMMA SessionAfterKeeps ==
  ASSUME LoginInv, NEW r \in Request, req[r].pc \in Proven, NEW a \in Account \cup {None}, NEW v \in Nat,
         HandOver(r, req[r].sid, SessionAfter(req[r], a, v), TRUE),
         UNCHANGED <<sessions, accountVars, grants>>, Keep
  PROVE  LoginInv'
<1>1. req[r].row.login \in req[r].row.proofs /\ req[r].row \in Payload /\ clock \in Nat
  BY ReqFacts DEF ReqSound, LoginInv
<1>2. req[r].row.login \in Login /\ req[r].row.at \in Nat
  BY <1>1 DEF Payload
<1>3. PICK t \in Nat : t = IF req[r].row.at = 0 THEN clock ELSE req[r].row.at
  BY <1>1, <1>2
<1>4. PICK w \in Provider : w = ProviderOf[req[r].row.login]
  BY <1>2 DEF Provider
<1>5. PICK p : p = [req[r].row EXCEPT !.kind = "session", !.purpose = "login", !.account = a, !.version = v,
                      !.provider = w, !.next = None, !.target = None, !.at = t]
  OBVIOUS
<1>6. p \in Payload /\ p.login = req[r].row.login /\ p.proofs = req[r].row.proofs
  BY <1>1, <1>5 DEF Payload, Source
<1>7. RowSound(p)
  BY <1>1, <1>6 DEF RowSound
<1>8. PICK s \in 0..MaxSession : s = req[r].sid
  BY ReqFacts
<1>9. HandOver(r, s, p, TRUE)
  BY <1>3, <1>4, <1>5, <1>8 DEF SessionAfter
<1>10. clock' \in Nat /\ AccountsFollow(accounts, accounts', identities')
  BY AccountsStay DEF Keep, accountVars, LoginInv
<1>11. s > 0 => sessions[s] # Unused
  BY <1>8, ReqFacts DEF ReqSound
<1> QED BY <1>6, <1>7, <1>9, <1>10, <1>11, SessionsStay, HandOverKeeps

LEMMA CheckLinkKeeps ==
  ASSUME LoginInv, NEW r \in Request, CheckLink(r) \/ LinkConflict(r), UNCHANGED grants PROVE LoginInv'
<1>0. /\ req[r].pc \in Proven /\ req[r].row.account \in Account \cup {None} /\ req[r].row.version \in Nat
      /\ UNCHANGED <<sessions, accountVars>> /\ Keep
  BY ReqFacts DEF CheckLink, LinkConflict, Proven, Payload
<1>1. CASE HandOver(r, req[r].sid, SessionAfter(req[r], req[r].row.account, req[r].row.version), TRUE)
  BY <1>0, <1>1, SessionAfterKeeps
<1>2. CASE CheckLink(r) /\ req' = [req EXCEPT ![r].pc = "commitLink"]
  <2>1. req[r].pc = "linkTarget" /\ req[r].row.account \in Account
    BY <1>2, AccountFacts DEF CheckLink, LinkAllowed, Credential
  <2>2. PICK n \in Requests : /\ req' = [req EXCEPT ![r] = n] /\ n.pc = "commitLink"
                              /\ n.sid = req[r].sid /\ n.row = req[r].row /\ n.login = req[r].login
    BY <1>2, NextPc DEF Pcs
  <2>3. ReqSound(n, sessions, accounts) /\ n.pc # "consent"
    BY <2>1, <2>2, ReqFacts DEF ReqSound, Proving, Proven, Calling
  <2>4. sessions' = sessions /\ accounts' = accounts /\ clock' \in Nat /\ AccountsFollow(accounts, accounts', identities')
    BY <1>0, AccountsStay DEF Keep, accountVars, LoginInv
  <2> QED BY <2>2, <2>3, <2>4, SessionsStay, LoginMoves
<1> QED BY <1>1, <1>2 DEF CheckLink, LinkConflict

LEMMA CheckUnlinkKeeps ==
  ASSUME LoginInv, NEW r \in Request, CheckUnlink(r), UNCHANGED grants PROVE LoginInv'
<1>1. req[r].pc = "unlink" /\ req[r].login = req[r].row.login /\ req[r].row.account \in Account
  BY AccountFacts DEF CheckUnlink, SameLogin
<1>2. PICK n \in Requests : /\ req' = [req EXCEPT ![r] = n] /\ n.pc = "commitUnlink"
                            /\ n.sid = req[r].sid /\ n.row = req[r].row /\ n.login = req[r].login
  BY NextPc DEF Pcs, CheckUnlink
<1>3. ReqSound(n, sessions, accounts) /\ n.pc # "consent"
  BY <1>1, <1>2, ReqFacts DEF ReqSound, Proving, Proven, Calling
<1>4. sessions' = sessions /\ accounts' = accounts /\ clock' \in Nat /\ AccountsFollow(accounts, accounts', identities')
  BY AccountsStay DEF CheckUnlink, Keep, accountVars, LoginInv
<1> QED BY <1>2, <1>3, <1>4, SessionsStay, LoginMoves

LEMMA MutationKeeps ==
  ASSUME LoginInv, NEW r \in Request, LinkIdentity(r) \/ UnlinkIdentity(r), UNCHANGED grants PROVE LoginInv'
<1>0. req[r].pc \in {"commitLink", "commitUnlink"} /\ req[r].row.account \in Account
  BY ReqFacts DEF LinkIdentity, UnlinkIdentity, ReqSound
<1>1. PICK a \in Account : a = req[r].row.account
  BY <1>0
<1>2. PICK l \in Login : l = req[r].login
  BY <1>0, ReqFacts DEF ReqSound, Payload, Proving
<1>3. AccountsFollow(accounts, accounts', identities')
  <2>1. CASE LinkIdentity(r)
    <3>1. PICK i \in Identity : CommitLinkIdentity(a, req[r].row.version, i, l)
      BY <1>1, <1>2, <2>1 DEF LinkIdentity
    <3> QED BY <3>1, CommitLinkKeeps
  <2>2. CASE UnlinkIdentity(r)
    BY <1>1, <2>2, CommitUnlinkKeeps DEF UnlinkIdentity
  <2> QED BY <2>1, <2>2
<1>4. sessions' = sessions /\ clock' \in Nat /\ req' = [req EXCEPT ![r].pc = "resolve"]
  BY DEF LinkIdentity, UnlinkIdentity, Keep, LoginInv
<1>5. PICK n \in Requests : /\ req' = [req EXCEPT ![r] = n] /\ n.pc = "resolve"
                            /\ n.sid = req[r].sid /\ n.row = req[r].row /\ n.login = req[r].login
  BY <1>4, NextPc DEF Pcs
<1>6. ReqSound(n, sessions, accounts') /\ n.pc # "consent"
  BY <1>0, <1>5, ReqFacts DEF ReqSound, Proving, Proven, Calling
<1> QED BY <1>3, <1>4, <1>5, <1>6, SessionsStay, LoginMoves

LEMMA ResolveAfterMutationKeeps ==
  ASSUME LoginInv, NEW r \in Request, ResolveAfterMutation(r), UNCHANGED grants PROVE LoginInv'
<1>1. PICK i \in ActiveIdentities(req[r].row.login) :
        /\ HandOver(r, req[r].sid, SessionAfter(req[r], identities[i].account, ResolvedVersion(req[r], identities[i].account)), TRUE)
        /\ UNCHANGED <<sessions, accountVars>> /\ Keep /\ req[r].pc = "resolve"
  BY DEF ResolveAfterMutation
<1>2. PICK a \in Account : a = identities[i].account
  BY AccountFacts DEF ActiveIdentities
<1>3. PICK v \in Nat : v = accounts[a].version
  BY AccountFacts
<1>4. HandOver(r, req[r].sid, SessionAfter(req[r], a, v), TRUE)
  BY <1>1, <1>2, <1>3 DEF ResolvedVersion
<1> QED BY <1>1, <1>4, SessionAfterKeeps DEF Proven

-----------------------------------------------------------------------------
(* Flows end: the new row, the old one, the answer. *)
LEMMA PersistKeeps ==
  ASSUME LoginInv, NEW r \in Request, Persist(r), UNCHANGED grants PROVE LoginInv'
<1>1. PICK s \in SessionId :
        /\ Fresh(s) /\ sessions' = [sessions EXCEPT ![s] = Row(req[r].row, req[r].sid, FALSE)]
        /\ req' = [req EXCEPT ![r] = [req[r] EXCEPT !.pc = "rotate", !.row = [NoPayload EXCEPT !.parent = s]]]
  BY DEF Persist
<1>2. PICK p \in Payload, u \in 0..MaxSession : p = req[r].row /\ u = req[r].sid
  BY ReqFacts
<1>3. RowSound(p)
  BY <1>2, ReqFacts
<1>4. PICK w \in Payload : w = Row(p, u, FALSE) /\ RowSound(w) /\ w.parent = u /\ ~w.given
  BY <1>3, RowIs
<1>5. sessions' = [sessions EXCEPT ![s] = w]
  BY <1>1, <1>2, <1>4
<1>6. SessionsFollow(sessions, sessions')
  BY <1>1, <1>4, <1>5, SessionMade
<1>7. sessions'[s] = w /\ w # Unused
  BY <1>5, PayloadsAreRows DEF LoginInv, SessionsGood
<1>8. clock' \in Nat /\ AccountsFollow(accounts, accounts', identities')
  BY AccountsStay DEF Persist, Keep, accountVars, LoginInv
<1>9. s \in 0..MaxSession /\ s > 0
  BY NumbersAreSound
<1>10. PICK e : e = [NoPayload EXCEPT !.parent = s]
  OBVIOUS
<1>11. e \in Payload /\ e.kind = "prelogin" /\ e.purpose = "login" /\ e.parent = s
  BY <1>9, <1>10, BlankRows DEF Payload
<1>12. RowSound(e)
  BY <1>11 DEF RowSound, Claims
<1>13. PICK n : n = [req[r] EXCEPT !.pc = "rotate", !.row = e]
  OBVIOUS
<1>14. n \in Requests /\ n.pc = "rotate" /\ n.row = e /\ n.sid = u
  BY <1>2, <1>11, <1>13, ReqFacts DEF Requests, Pcs
<1>15. u > 0 => sessions'[u] # Unused
  BY <1>2, <1>6, SidStays
<1>16. ReqSound(n, sessions', accounts') /\ n.pc # "consent"
  BY <1>4, <1>7, <1>9, <1>11, <1>12, <1>14, <1>15 DEF ReqSound, Proving, Proven, Calling
<1>17. req' = [req EXCEPT ![r] = n]
  BY <1>1, <1>10, <1>13
<1> QED BY <1>6, <1>8, <1>14, <1>16, <1>17, LoginMoves

LEMMA RotateKeeps ==
  ASSUME LoginInv, NEW r \in Request, Rotate(r), UNCHANGED grants PROVE LoginInv'
<1>1. sessions' = Deleted(req[r].sid) /\ req[r].pc = "rotate" /\ req' = [req EXCEPT ![r].pc = "answer"]
  BY DEF Rotate, Rotated
<1>2. SessionsFollow(sessions, sessions') /\ (req[r].sid > 0 => sessions'[req[r].sid] = Gone)
  BY <1>1, ReqFacts, SessionDeleted
<1>3. clock' \in Nat /\ AccountsFollow(accounts, accounts', identities')
  BY AccountsStay DEF Rotate, Keep, accountVars, LoginInv
<1>4. ReqSound(req[r], sessions', accounts')
  BY <1>2, <1>3, ReqFacts, ReqStays
<1>5. PICK n \in Requests : /\ req' = [req EXCEPT ![r] = n] /\ n.pc = "answer"
                            /\ n.sid = req[r].sid /\ n.row = req[r].row /\ n.login = req[r].login
  BY <1>1, NextPc DEF Pcs
<1>6. ReqSound(n, sessions', accounts') /\ n.pc # "consent"
  BY <1>1, <1>2, <1>4, <1>5 DEF ReqSound, Proving, Proven, Calling
<1> QED BY <1>2, <1>3, <1>5, <1>6, LoginMoves

LEMMA AnswerKeeps ==
  ASSUME LoginInv, NEW r \in Request, Answer(r), UNCHANGED grants PROVE LoginInv'
<1>1. PICK s : s = req[r].row.parent
  OBVIOUS
<1>2. req[r].pc = "answer" /\ req' = [req EXCEPT ![r] = Idle]
      /\ (sessions' = sessions \/ (IsRow(s) /\ sessions' = [sessions EXCEPT ![s].given = TRUE]))
  BY <1>1 DEF Answer
<1>3. s \in SessionId
  BY <1>1, <1>2, ReqFacts, NumbersAreSound DEF ReqSound
<1>4. SessionsFollow(sessions, sessions')
  <2>1. CASE sessions' = sessions
    BY <2>1, SessionsStay
  <2>2. CASE IsRow(s) /\ sessions' = [sessions EXCEPT ![s].given = TRUE]
    <3>1. sessions[s] \in Payload /\ RowSound(sessions[s]) /\ sessions[s] # Gone
      BY <1>3, <2>2, RowFacts
    <3>2. PICK w : w = [sessions[s] EXCEPT !.given = TRUE]
      OBVIOUS
    <3>3. w \in Payload /\ w.kind = sessions[s].kind /\ w.purpose = sessions[s].purpose /\ w.login = sessions[s].login
          /\ w.proofs = sessions[s].proofs /\ w.parent = sessions[s].parent
      BY <3>1, <3>2 DEF Payload
    <3>4. RowSound(w)
      BY <3>1, <3>3 DEF RowSound, Claims
    <3>5. sessions[s].parent = req[r].sid /\ (req[r].sid > 0 => sessions[req[r].sid] = Gone)
      BY <1>1, <1>2, <3>1, ReqFacts DEF ReqSound
    <3>6. sessions' = [sessions EXCEPT ![s] = w]
      BY <2>2, <3>2
    <3> QED BY <1>3, <3>1, <3>3, <3>4, <3>5, <3>6, SessionKept
  <2> QED BY <1>2, <2>1, <2>2
<1>5. clock' \in Nat /\ AccountsFollow(accounts, accounts', identities')
  BY AccountsStay DEF Answer, Keep, accountVars, LoginInv
<1> QED BY <1>2, <1>4, <1>5, IdleKeeps

LEMMA ReadCodeKeeps ==
  ASSUME LoginInv, NEW r \in Request, ReadCode(r), UNCHANGED grants PROVE LoginInv'
<1>1. PICK s \in SessionId :
        /\ Presented(s) /\ sessions[s].kind = "code"
        /\ req' = [req EXCEPT ![r] = [Idle EXCEPT !.pc = "exchange", !.sid = s,
             !.row = [sessions[s] EXCEPT !.kind = "session"]]]
  BY DEF ReadCode
<1>2. sessions[s] \in Payload /\ RowSound(sessions[s]) /\ sessions[s] # Unused /\ s \in 0..MaxSession
  BY <1>1, RowFacts DEF Presented
<1>3. PICK p : p = [sessions[s] EXCEPT !.kind = "session"]
  OBVIOUS
<1>4. p \in Payload /\ p.login = sessions[s].login /\ p.proofs = sessions[s].proofs
  BY <1>2, <1>3 DEF Payload
<1>5. RowSound(p)
  BY <1>1, <1>2, <1>4 DEF RowSound, Claims
<1>6. PICK n : n = [Idle EXCEPT !.pc = "exchange", !.sid = s, !.row = p]
  OBVIOUS
<1>7. n \in Requests /\ n.pc = "exchange" /\ n.row = p /\ n.sid = s
  BY <1>2, <1>4, <1>6, BlankRows DEF Requests, Pcs
<1>8. req' = [req EXCEPT ![r] = n]
  BY <1>1, <1>3, <1>6
<1>9. sessions' = sessions /\ clock' \in Nat /\ AccountsFollow(accounts, accounts', identities')
  BY AccountsStay DEF ReadCode, Keep, accountVars, LoginInv
<1> QED BY <1>2, <1>5, <1>7, <1>8, <1>9, SessionsStay, WaitingKeeps

LEMMA DeleteCodeKeeps ==
  ASSUME LoginInv, NEW r \in Request, DeleteCode(r), UNCHANGED grants PROVE LoginInv'
<1>1. PICK p \in Payload, s \in 0..MaxSession : p = req[r].row /\ s = req[r].sid
  BY ReqFacts
<1>2. RowSound(p) /\ (s > 0 => sessions[s] # Unused)
  BY <1>1, ReqFacts DEF ReqSound
<1>3. HandOver(r, s, p, TRUE) /\ sessions' = Deleted(s)
  BY <1>1 DEF DeleteCode
<1>4. SessionsFollow(sessions, sessions')
  BY <1>3, SessionDeleted
<1>5. clock' \in Nat /\ AccountsFollow(accounts, accounts', identities')
  BY AccountsStay DEF DeleteCode, Keep, accountVars, LoginInv
<1> QED BY <1>2, <1>3, <1>4, <1>5, HandOverKeeps

-----------------------------------------------------------------------------
(* The admin API. *)
LEMMA EffectsAre ==
  ASSUME NEW e \in Endpoints PROVE e.effect \in {"read", "control", "access", "profile"}
BY DEF Endpoints, handleAppIssuerMutation, handleAccountApi, handleCurrentAdministrator, handleAccountAppMembers,
   handleAccountApps, handleAccountAppAudit, handleAccountAppUsage, handleAccountAppGc, handleAccountAuditRead,
   handlePeople, handleAppInvitations, handleCreateAppInvitation, handleAccountOAuthIssuer,
   handlePlatformAdminApi, Read, Change

LEMMA CallKeeps ==
  ASSUME LoginInv, NEW r \in Request, Call(r), UNCHANGED grants PROVE LoginInv'
<1>1. PICK s \in SessionId, e \in Endpoints :
        /\ FullSession(s) /\ sessions' = Touched(s)
        /\ \/ req' = [req EXCEPT ![r] = [Idle EXCEPT !.pc = e.effect, !.sid = s, !.row = sessions[s]]]
           \/ req' = req
  BY DEF Call, MayCall
<1>2. SessionsFollow(sessions, sessions')
  BY <1>1, SessionTouched
<1>3. accounts' = accounts /\ clock' \in Nat /\ AccountsFollow(accounts, accounts', identities')
  BY AccountsStay DEF Call, Keep, accountVars, LoginInv
<1>4. CASE req' = req
  BY <1>2, <1>3, <1>4, LoginStays
<1>5. CASE req' = [req EXCEPT ![r] = [Idle EXCEPT !.pc = e.effect, !.sid = s, !.row = sessions[s]]]
  <2>1. PICK p \in Payload : p = sessions[s] /\ RowSound(p) /\ p.account \in Account /\ accounts[p.account].joined
    BY <1>1, FullSessionFacts
  <2>2. PICK x \in {"read", "control", "access", "profile"} : x = e.effect
    BY EffectsAre
  <2>3. PICK n : n = [Idle EXCEPT !.pc = x, !.sid = s, !.row = p]
    OBVIOUS
  <2>4. s \in 0..MaxSession
    BY NumbersAreSound
  <2>5. n \in Requests /\ n.pc = x /\ n.row = p /\ n.sid = s
    BY <2>3, <2>4, BlankRows DEF Requests, Pcs
  <2>6. sessions'[s] # Unused
    BY <1>1, <1>2, FullSessionFacts DEF SessionsFollow
  <2>7. ReqSound(n, sessions', accounts') /\ n.pc # "consent"
    BY <1>3, <2>1, <2>5, <2>6 DEF ReqSound, Proving, Proven, Calling
  <2>8. req' = [req EXCEPT ![r] = n]
    BY <1>5, <2>1, <2>2, <2>3
  <2> QED BY <1>2, <1>3, <2>5, <2>7, <2>8, LoginMoves
<1> QED BY <1>1, <1>4, <1>5

LEMMA ServedKeeps ==
  ASSUME LoginInv, NEW r \in Request, ServeRead(r) \/ ServeControl(r), UNCHANGED grants PROVE LoginInv'
<1>1. req' = [req EXCEPT ![r] = Idle] /\ (sessions' = sessions \/ sessions' = Deleted(req[r].sid))
  BY DEF ServeRead, ServeControl
<1>2. SessionsFollow(sessions, sessions')
  BY <1>1, ReqFacts, SessionDeleted, SessionsStay
<1>3. clock' \in Nat /\ AccountsFollow(accounts, accounts', identities')
  BY AccountsStay DEF ServeRead, ServeControl, Keep, accountVars, LoginInv
<1> QED BY <1>1, <1>2, <1>3, IdleKeeps

LEMMA ServeAccessKeeps ==
  ASSUME LoginInv, NEW r \in Request, ServeAccess(r), UNCHANGED grants PROVE LoginInv'
<1>1. PICK a \in Account, b \in BOOLEAN, m \in BOOLEAN : SetAccess(a, b, m)
  BY DEF ServeAccess
<1>2. AccountsFollow(accounts, accounts', identities')
  BY <1>1, SetAccessKeeps
<1>3. req' = [req EXCEPT ![r] = Idle] /\ sessions' = sessions /\ clock' \in Nat
  BY DEF ServeAccess, Keep, LoginInv
<1> QED BY <1>2, <1>3, SessionsStay, IdleKeeps

LEMMA CheckProfileKeeps ==
  ASSUME LoginInv, NEW r \in Request, CheckProfile(r), UNCHANGED grants PROVE LoginInv'
<1>1. PICK i \in LinkedTo(req[r].row.account) \cup {User} :
        req' = [req EXCEPT ![r] = [req[r] EXCEPT !.pc = "writeProfile", !.row = [req[r].row EXCEPT !.target = i]]]
  BY DEF CheckProfile
<1>2. req[r].pc = "profile" /\ sessions' = sessions /\ accounts' = accounts /\ clock' \in Nat
      /\ AccountsFollow(accounts, accounts', identities')
  BY AccountsStay DEF CheckProfile, Keep, accountVars, LoginInv
<1>3. i \in Source
  BY AccountFacts DEF Source
<1>4. PICK p : p = [req[r].row EXCEPT !.target = i]
  OBVIOUS
<1>5. p \in Payload /\ p.kind = req[r].row.kind /\ p.purpose = req[r].row.purpose /\ p.login = req[r].row.login
      /\ p.proofs = req[r].row.proofs /\ p.account = req[r].row.account
  BY <1>3, <1>4, ReqFacts DEF Payload
<1>6. RowSound(p)
  BY <1>5, ReqFacts DEF RowSound, Claims
<1>7. PICK n : n = [req[r] EXCEPT !.pc = "writeProfile", !.row = p]
  OBVIOUS
<1>8. n \in Requests /\ n.pc = "writeProfile" /\ n.row = p /\ n.sid = req[r].sid
  BY <1>5, <1>7, ReqFacts DEF Requests, Pcs
<1>9. ReqSound(n, sessions, accounts) /\ n.pc # "consent"
  BY <1>2, <1>5, <1>6, <1>8, ReqFacts DEF ReqSound, Proving, Proven, Calling
<1>10. req' = [req EXCEPT ![r] = n]
  BY <1>1, <1>4, <1>7
<1> QED BY <1>2, <1>8, <1>9, <1>10, SessionsStay, LoginMoves

LEMMA UpdateProfileKeeps ==
  ASSUME LoginInv, NEW r \in Request, UpdateProfile(r), UNCHANGED grants PROVE LoginInv'
<1>1. req' = [req EXCEPT ![r] = Idle] /\ sessions' = sessions /\ clock' \in Nat
      /\ AccountsFollow(accounts, accounts', identities')
  BY AccountsStay DEF UpdateProfile, WriteProfile, Keep, LoginInv
<1> QED BY <1>1, SessionsStay, IdleKeeps

LEMMA CallAcceptKeeps ==
  ASSUME LoginInv, NEW r \in Request, CallAccept(r), UNCHANGED grants PROVE LoginInv'
<1>1. PICK s \in SessionId, i \in Invitation :
        /\ IsRow(s) /\ (sessions' = Touched(s) \/ sessions' = sessions)
        /\ req' = [req EXCEPT ![r] = [Idle EXCEPT !.pc = "accept", !.sid = s,
             !.row = [sessions[s] EXCEPT !.invitation = i]]]
  BY DEF CallAccept, MayAccept, Presented
<1>2. sessions[s] \in Payload /\ RowSound(sessions[s]) /\ sessions[s] # Unused /\ s \in 0..MaxSession
  BY <1>1, RowFacts
<1>3. SessionsFollow(sessions, sessions')
  BY <1>1, SessionTouched, SessionsStay
<1>4. PICK p : p = [sessions[s] EXCEPT !.invitation = i]
  OBVIOUS
<1>5. p \in Payload /\ p.kind = sessions[s].kind /\ p.purpose = sessions[s].purpose /\ p.login = sessions[s].login
      /\ p.proofs = sessions[s].proofs
  BY <1>2, <1>4 DEF Payload
<1>6. RowSound(p)
  BY <1>2, <1>5 DEF RowSound, Claims
<1>7. PICK n : n = [Idle EXCEPT !.pc = "accept", !.sid = s, !.row = p]
  OBVIOUS
<1>8. n \in Requests /\ n.pc = "accept" /\ n.row = p /\ n.sid = s
  BY <1>2, <1>5, <1>7, BlankRows DEF Requests, Pcs
<1>9. req' = [req EXCEPT ![r] = n]
  BY <1>1, <1>4, <1>7
<1>10. clock' \in Nat /\ AccountsFollow(accounts, accounts', identities')
  BY AccountsStay DEF CallAccept, Keep, accountVars, LoginInv
<1> QED BY <1>2, <1>3, <1>6, <1>8, <1>9, <1>10, WaitingKeeps

LEMMA AcceptInvitationKeeps ==
  ASSUME LoginInv, NEW r \in Request, AcceptInvitation(r), UNCHANGED grants PROVE LoginInv'
<1>1. AuditAccepts(req[r].row)
  BY DEF AcceptInvitation
<1>2. PICK a \in Account : a = req[r].row.account /\ accounts[a].version > 0
  BY <1>1, AccountFacts DEF AuditAccepts, Usable, Exists
<1>3. accounts' = [accounts EXCEPT ![a].admitted = TRUE, ![a].joined = TRUE] /\ identities' = identities
      /\ sessions' = sessions /\ clock' \in Nat
  BY <1>2 DEF AcceptInvitation, LoginInv
<1>4. AccountsFollow(accounts, accounts', identities')
  BY <1>2, <1>3, AdmissionKeeps
<1>5. PICK p : p = [req[r].row EXCEPT !.invitation = None]
  OBVIOUS
<1>6. p \in Payload /\ p.kind = req[r].row.kind /\ p.purpose = req[r].row.purpose /\ p.login = req[r].row.login
      /\ p.proofs = req[r].row.proofs
  BY <1>5, ReqFacts DEF Payload
<1>7. RowSound(p)
  BY <1>6, ReqFacts DEF RowSound, Claims
<1>8. PICK s \in 0..MaxSession : s = req[r].sid
  BY ReqFacts
<1>9. s > 0 => sessions[s] # Unused
  BY <1>8, ReqFacts DEF ReqSound
<1>10. HandOver(r, s, p, FALSE)
  BY <1>5, <1>8 DEF AcceptInvitation
<1> QED BY <1>3, <1>4, <1>6, <1>7, <1>9, <1>10, SessionsStay, HandOverKeeps

LEMMA AbandonKeeps ==
  ASSUME LoginInv, NEW r \in Request, Abandon(r), UNCHANGED grants PROVE LoginInv'
<1>1. req' = [req EXCEPT ![r] = Idle] /\ sessions' = sessions /\ clock' \in Nat
      /\ AccountsFollow(accounts, accounts', identities')
  BY AccountsStay DEF Abandon, accountVars, Keep, LoginInv
<1> QED BY <1>1, SessionsStay, IdleKeeps

LEMMA TickKeeps ==
  ASSUME LoginInv, Tick, UNCHANGED grants PROVE LoginInv'
<1>1. req' = req /\ sessions' = sessions /\ clock' = clock + 1 /\ clock \in Nat
      /\ AccountsFollow(accounts, accounts', identities')
  BY AccountsStay DEF Tick, accountVars, LoginInv
<1>2. clock' \in Nat
  BY <1>1
<1> QED BY <1>1, <1>2, SessionsStay, LoginStays

-----------------------------------------------------------------------------
(* The front door of the MCP server. *)
LEMMA StartAuthorizationKeeps ==
  ASSUME LoginInv, StartAuthorization PROVE LoginInv'
<1>1. PICK s \in SessionId, v \in Provider, x \in AskedScopes :
        /\ Fresh(s)
        /\ sessions' = [sessions EXCEPT ![s] =
             Row([NoPayload EXCEPT !.kind = "provider", !.provider = v, !.scopes = x], 0, TRUE)]
        /\ Keep /\ UNCHANGED <<req, accountVars, grants>>
  BY DEF StartAuthorization
<1>2. PICK p : p = [NoPayload EXCEPT !.kind = "provider", !.provider = v, !.scopes = x]
  OBVIOUS
<1>3. p \in Payload /\ p.kind = "provider"
  BY <1>2, BlankRows, McpAssumption DEF Payload
<1>4. RowSound(p) /\ 0 \in 0..MaxSession
  BY <1>3, NumbersAreSound DEF RowSound, Claims
<1>5. PICK w \in Payload : w = Row(p, 0, TRUE) /\ RowSound(w) /\ w.parent = 0
  BY <1>3, <1>4, RowIs
<1>6. SessionsFollow(sessions, sessions')
  BY <1>1, <1>2, <1>5, SessionMade
<1>7. clock' \in Nat /\ AccountsFollow(accounts, accounts', identities') /\ req' = req /\ grants' = grants
  BY <1>1, AccountsStay DEF Keep, accountVars, LoginInv
<1> QED BY <1>6, <1>7, LoginStays

LEMMA TakeTransactionKeeps ==
  ASSUME LoginInv, NEW r \in Request, TakeTransaction(r) PROVE LoginInv'
<1>1. PICK s \in SessionId :
        /\ Presented(s) /\ sessions[s].kind \in {"provider", "consent"} /\ sessions' = Deleted(s)
        /\ \/ req' = [req EXCEPT ![r] = [Idle EXCEPT !.pc = sessions[s].kind, !.sid = s, !.row = sessions[s]]]
           \/ req' = req
  BY DEF TakeTransaction, Taken
<1>2. sessions[s] \in Payload /\ RowSound(sessions[s]) /\ sessions[s] # Gone /\ s \in 0..MaxSession /\ s > 0
  BY <1>1, RowFacts DEF Presented
<1>3. SessionsFollow(sessions, sessions') /\ sessions'[s] = Gone
  BY <1>1, <1>2, SessionDeleted
<1>4. clock' \in Nat /\ AccountsFollow(accounts, accounts', identities') /\ grants' = grants
  BY AccountsStay DEF TakeTransaction, Keep, accountVars, LoginInv
<1>5. CASE req' = req
  BY <1>3, <1>4, <1>5, LoginStays
<1>6. CASE req' = [req EXCEPT ![r] = [Idle EXCEPT !.pc = sessions[s].kind, !.sid = s, !.row = sessions[s]]]
  <2>1. PICK x \in {"provider", "consent"}, p \in Payload : x = sessions[s].kind /\ p = sessions[s]
    BY <1>1, <1>2
  <2>2. PICK n : n = [Idle EXCEPT !.pc = x, !.sid = s, !.row = p]
    OBVIOUS
  <2>3. n \in Requests /\ n.pc = x /\ n.sid = s /\ n.row = p
    BY <1>2, <2>2, BlankRows DEF Requests, Pcs
  <2>4. ReqSound(n, sessions', accounts')
    BY <1>2, <1>3, <2>1, <2>3, PayloadsAreRows DEF ReqSound, Proving, Proven, Calling
  <2>5. req' = [req EXCEPT ![r] = n]
    BY <1>6, <2>1, <2>2
  <2> QED BY <1>2, <1>3, <1>4, <2>3, <2>4, <2>5, LoginMoves
<1> QED BY <1>1, <1>5, <1>6

LEMMA FinishProviderKeeps ==
  ASSUME LoginInv, NEW r \in Request, FinishProvider(r) PROVE LoginInv'
<1>1. PICK l \in Login : \E i \in ActiveIdentities(l) :
        req' = [req EXCEPT ![r] = [Idle EXCEPT !.pc = "begin",
          !.row = [NoPayload EXCEPT !.kind = "consent", !.login = l, !.account = identities[i].account,
                     !.identity = i, !.version = accounts[identities[i].account].version,
                     !.scopes = req[r].row.scopes]]]
  BY DEF FinishProvider
<1>2. PICK i \in ActiveIdentities(l) :
        req' = [req EXCEPT ![r] = [Idle EXCEPT !.pc = "begin",
          !.row = [NoPayload EXCEPT !.kind = "consent", !.login = l, !.account = identities[i].account,
                     !.identity = i, !.version = accounts[identities[i].account].version,
                     !.scopes = req[r].row.scopes]]]
  BY <1>1
<1>3. i \in Identity
  BY DEF ActiveIdentities
<1>4. PICK a \in Account : a = identities[i].account
  BY <1>3, AccountFacts DEF ActiveIdentities
<1>5. PICK v \in Nat : v = accounts[a].version
  BY AccountFacts
<1>6. PICK x \in SUBSET {"control:read", "control:write", "control:security"} : x = req[r].row.scopes
  BY ReqFacts DEF Payload
<1>7. PICK p : p = [NoPayload EXCEPT !.kind = "consent", !.login = l, !.account = a, !.identity = i, !.version = v,
                      !.scopes = x]
  OBVIOUS
<1>8. p \in Payload /\ p.kind = "consent"
  BY <1>3, <1>7, BlankRows DEF Payload
<1>9. RowSound(p)
  BY <1>8 DEF RowSound, Claims
<1>10. PICK n : n = [Idle EXCEPT !.pc = "begin", !.row = p]
  OBVIOUS
<1>11. n \in Requests /\ n.pc = "begin" /\ n.row = p /\ n.sid = 0
  BY <1>8, <1>10, BlankRows DEF Requests, Pcs
<1>12. ~(n.sid > 0)
  BY <1>11
<1>13. req' = [req EXCEPT ![r] = n]
  BY <1>2, <1>4, <1>5, <1>6, <1>7, <1>10
<1>14. sessions' = sessions /\ clock' \in Nat /\ AccountsFollow(accounts, accounts', identities') /\ grants' = grants
  BY AccountsStay DEF FinishProvider, Keep, accountVars, LoginInv
<1> QED BY <1>9, <1>11, <1>12, <1>13, <1>14, SessionsStay, WaitingKeeps

(* The grant of a consent: the request that took the transaction is the only one that has it. *)
LEMMA FinishConsentKeeps ==
  ASSUME LoginInv, NEW r \in Request, FinishConsent(r) PROVE LoginInv'
<1>1. PICK g \in Grant :
        /\ req[r].pc = "consent" /\ grants[g] = NoGrant
        /\ grants' = [grants EXCEPT ![g] =
             [NoGrant EXCEPT !.login = req[r].row.login, !.account = req[r].row.account,
                !.identity = req[r].row.identity, !.version = req[r].row.version, !.scopes = req[r].row.scopes,
                !.refreshUntil = clock + RefreshTtl, !.consent = req[r].sid]]
        /\ req' = [req EXCEPT ![r] = Idle]
  BY DEF FinishConsent
<1>2. PICK p \in Payload, s \in 0..MaxSession : p = req[r].row /\ s = req[r].sid
  BY ReqFacts
<1>3. s > 0 /\ sessions[s] = Gone
  BY <1>1, <1>2, ReqFacts DEF ReqSound
<1>4. PICK e \in Nat : e = clock + RefreshTtl
  BY McpAssumption DEF LoginInv
<1>5. PICK d : d = [NoGrant EXCEPT !.login = p.login, !.account = p.account, !.identity = p.identity,
                      !.version = p.version, !.scopes = p.scopes, !.refreshUntil = e, !.consent = s]
  OBVIOUS
<1>6. d \in Grants /\ d.consent = s
  BY <1>5, BlankRows DEF Payload, Grants, Scope
<1>7. grants' = [grants EXCEPT ![g] = d]
  BY <1>1, <1>2, <1>4, <1>5
<1>8. grants' \in [Grant -> Grants] /\ grants'[g] = d /\ \A h \in Grant \ {g} : grants'[h] = grants[h]
  BY <1>6, <1>7 DEF LoginInv
<1>9. sessions' = sessions /\ clock' = clock /\ accounts' = accounts /\ identities' = identities
  BY DEF FinishConsent, Keep, accountVars
<1>10. req' \in [Request -> Requests] /\ req'[r] = Idle /\ \A u \in Request \ {r} : req'[u] = req[u]
  BY <1>1, BlankRows DEF LoginInv
<1>11. \A u \in Request : ReqSound(req'[u], sessions', accounts')
  <2>1. ReqSound(Idle, sessions, accounts)
    BY BlankRows DEF ReqSound, Proving, Proven, Calling
  <2> QED BY <1>9, <1>10, <2>1 DEF LoginInv
<1>12. \A u \in Request : req'[u].pc = "consent" => u # r /\ req'[u] = req[u] /\ req[u].sid # s
  BY <1>1, <1>2, <1>10, BlankRows DEF LoginInv, ConsentsOnce
<1>13. \A h \in Grant \ {g} : grants'[h] # NoGrant => grants'[h].consent # s
  BY <1>1, <1>2, <1>8 DEF LoginInv, ConsentsOnce
<1>14. ConsentsOnce(req', grants', sessions')
  <2>1. \A u, w \in Request : req'[u].pc = "consent" /\ req'[w].pc = "consent" /\ req'[u].sid = req'[w].sid => u = w
    BY <1>12 DEF LoginInv, ConsentsOnce
  <2>2. \A h \in Grant : grants'[h] # NoGrant =>
          /\ grants'[h].consent > 0 /\ sessions'[grants'[h].consent] = Gone
          /\ \A u \in Request : req'[u].pc = "consent" => req'[u].sid # grants'[h].consent
    BY <1>3, <1>6, <1>8, <1>9, <1>12 DEF LoginInv, ConsentsOnce
  <2>3. \A h, k \in Grant : grants'[h] # NoGrant /\ grants'[k] # NoGrant /\ grants'[h].consent = grants'[k].consent => h = k
    BY <1>6, <1>8, <1>13 DEF LoginInv, ConsentsOnce
  <2> QED BY <2>1, <2>2, <2>3 DEF ConsentsOnce
<1> QED BY <1>8, <1>9, <1>10, <1>11, <1>14 DEF LoginInv

(* A grant that is there changes and stems from the same consent. *)
LEMMA GrantChanges ==
  ASSUME LoginInv, NEW g \in Grant, grants[g] # NoGrant, NEW d \in Grants, d.consent = grants[g].consent,
         grants' = [grants EXCEPT ![g] = d], UNCHANGED <<sessions, req, accountVars>>, Keep
  PROVE  LoginInv'
<1>1. grants' \in [Grant -> Grants] /\ grants'[g] = d /\ \A h \in Grant \ {g} : grants'[h] = grants[h]
  BY DEF LoginInv
<1>2. sessions' = sessions /\ clock' = clock /\ accounts' = accounts /\ identities' = identities /\ req' = req
  BY DEF Keep, accountVars
<1>3. \A h \in Grant : grants'[h] # NoGrant => grants[h] # NoGrant /\ grants'[h].consent = grants[h].consent
  BY <1>1
<1>4. ConsentsOnce(req', grants', sessions')
  BY <1>2, <1>3 DEF LoginInv, ConsentsOnce
<1> QED BY <1>1, <1>2, <1>4 DEF LoginInv

LEMMA TokensKeep ==
  ASSUME LoginInv, Exchange \/ Revoke PROVE LoginInv'
<1>1. CASE Exchange
  <2>1. PICK g \in Grant, x \in SUBSET Scope :
          /\ grants[g] # NoGrant
          /\ grants' = [grants EXCEPT ![g].tokenScopes = x, ![g].tokenUntil = clock + AccessTtl]
    BY <1>1 DEF Exchange
  <2>2. PICK e \in Nat : e = clock + AccessTtl
    BY McpAssumption DEF LoginInv
  <2>3. PICK d : d = [grants[g] EXCEPT !.tokenScopes = x, !.tokenUntil = e]
    OBVIOUS
  <2>4. d \in Grants /\ d.consent = grants[g].consent
    BY <2>3 DEF LoginInv, Grants
  <2>5. grants' = [grants EXCEPT ![g] = d]
    BY <2>1, <2>2, <2>3 DEF LoginInv
  <2> QED BY <1>1, <2>1, <2>4, <2>5, GrantChanges DEF Exchange
<1>2. CASE Revoke
  <2>1. PICK g \in Grant : grants[g] # NoGrant /\ grants' = [grants EXCEPT ![g].refreshUntil = 0, ![g].tokenUntil = 0]
    BY <1>2 DEF Revoke
  <2>2. PICK d : d = [grants[g] EXCEPT !.refreshUntil = 0, !.tokenUntil = 0]
    OBVIOUS
  <2>3. d \in Grants /\ d.consent = grants[g].consent
    BY <2>2 DEF LoginInv, Grants
  <2>4. grants' = [grants EXCEPT ![g] = d]
    BY <2>1, <2>2 DEF LoginInv
  <2> QED BY <1>2, <2>1, <2>3, <2>4, GrantChanges DEF Revoke
<1> QED BY <1>1, <1>2

LEMMA CallToolKeeps ==
  ASSUME LoginInv, NEW r \in Request, CallTool(r) PROVE LoginInv'
<1>1. PICK g \in Grant, t \in Tools :
        req' = [req EXCEPT ![r] = [Idle EXCEPT !.pc = IF t.authority THEN "authority" ELSE "actor", !.grant = g,
          !.row = [NoPayload EXCEPT !.login = grants[g].login, !.account = grants[g].account,
                     !.identity = grants[g].identity, !.version = grants[g].version]]]
  BY DEF CallTool
<1>2. PICK x \in {"authority", "actor"} : x = IF t.authority THEN "authority" ELSE "actor"
  OBVIOUS
<1>3. PICK d \in Grants : d = grants[g]
  BY DEF LoginInv
<1>4. PICK p : p = [NoPayload EXCEPT !.login = d.login, !.account = d.account, !.identity = d.identity,
                      !.version = d.version]
  OBVIOUS
<1>5. p \in Payload /\ p.kind = "prelogin" /\ p.purpose = "login"
  BY <1>4, BlankRows DEF Payload, Grants
<1>6. RowSound(p)
  BY <1>5 DEF RowSound, Claims
<1>7. PICK n : n = [Idle EXCEPT !.pc = x, !.grant = g, !.row = p]
  OBVIOUS
<1>8. n \in Requests /\ n.pc = x /\ n.row = p /\ n.sid = 0
  BY <1>5, <1>7, BlankRows DEF Requests, Pcs
<1>9. ~(n.sid > 0)
  BY <1>8
<1>10. req' = [req EXCEPT ![r] = n]
  BY <1>1, <1>2, <1>3, <1>4, <1>7
<1>11. sessions' = sessions /\ clock' \in Nat /\ AccountsFollow(accounts, accounts', identities') /\ grants' = grants
  BY AccountsStay DEF CallTool, Keep, accountVars, LoginInv
<1> QED BY <1>6, <1>8, <1>9, <1>10, <1>11, SessionsStay, WaitingKeeps

LEMMA AuthorizePlatformKeeps ==
  ASSUME LoginInv, NEW r \in Request, AuthorizePlatform(r) PROVE LoginInv'
<1>1. req' = [req EXCEPT ![r].pc = "actor"]
  BY DEF AuthorizePlatform
<1>2. PICK n \in Requests : /\ req' = [req EXCEPT ![r] = n] /\ n.pc = "actor"
                            /\ n.sid = req[r].sid /\ n.row = req[r].row /\ n.login = req[r].login
  BY <1>1, NextPc DEF Pcs
<1>3. RowSound(n.row) /\ (n.sid > 0 => sessions[n.sid] # Unused)
  BY <1>2, ReqFacts DEF ReqSound
<1>4. sessions' = sessions /\ clock' \in Nat /\ AccountsFollow(accounts, accounts', identities') /\ grants' = grants
  BY AccountsStay DEF AuthorizePlatform, Keep, accountVars, LoginInv
<1> QED BY <1>2, <1>3, <1>4, SessionsStay, WaitingKeeps

LEMMA ResolveActorKeeps ==
  ASSUME LoginInv, NEW r \in Request, ResolveActor(r) PROVE LoginInv'
<1>1. PICK i \in ActiveIdentities(req[r].row.login) :
        req' = [req EXCEPT ![r] = [req[r] EXCEPT !.pc = "act",
          !.row = [req[r].row EXCEPT !.account = identities[i].account, !.identity = i,
                     !.version = accounts[identities[i].account].version]]]
  BY DEF ResolveActor
<1>2. i \in Identity
  BY DEF ActiveIdentities
<1>3. PICK a \in Account : a = identities[i].account
  BY <1>2, AccountFacts DEF ActiveIdentities
<1>4. PICK v \in Nat : v = accounts[a].version
  BY AccountFacts
<1>5. PICK p : p = [req[r].row EXCEPT !.account = a, !.identity = i, !.version = v]
  OBVIOUS
<1>6. PICK y \in Payload : y = req[r].row
  BY ReqFacts
<1>7. p \in Payload /\ p.kind = y.kind /\ p.purpose = y.purpose /\ p.login = y.login /\ p.proofs = y.proofs
  <2>1. p = [y EXCEPT !.account = a, !.identity = i, !.version = v]
    BY <1>5, <1>6
  <2> QED BY <1>2, <2>1 DEF Payload
<1>8. RowSound(p)
  BY <1>6, <1>7, ReqFacts DEF RowSound, Claims
<1>9. PICK n : n = [req[r] EXCEPT !.pc = "act", !.row = p]
  OBVIOUS
<1>10. n \in Requests /\ n.pc = "act" /\ n.row = p /\ n.sid = req[r].sid
  BY <1>7, <1>9, ReqFacts DEF Requests, Pcs
<1>11. n.sid > 0 => sessions[n.sid] # Unused
  BY <1>10, ReqFacts DEF ReqSound
<1>12. req' = [req EXCEPT ![r] = n]
  BY <1>1, <1>3, <1>4, <1>5, <1>9
<1>13. sessions' = sessions /\ clock' \in Nat /\ AccountsFollow(accounts, accounts', identities') /\ grants' = grants
  BY AccountsStay DEF ResolveActor, Keep, accountVars, LoginInv
<1> QED BY <1>8, <1>10, <1>11, <1>12, <1>13, SessionsStay, WaitingKeeps

LEMMA ActKeeps ==
  ASSUME LoginInv, NEW r \in Request, Act(r) PROVE LoginInv'
<1>1. req' = [req EXCEPT ![r] = Idle] /\ sessions' = sessions /\ clock' \in Nat
      /\ AccountsFollow(accounts, accounts', identities') /\ grants' = grants
  BY AccountsStay DEF Act, accountVars, Keep, LoginInv
<1> QED BY <1>1, SessionsStay, IdleKeeps

-----------------------------------------------------------------------------
LEMMA InitLoginInv == Init => LoginInv
<1> SUFFICES ASSUME Init PROVE LoginInv
  OBVIOUS
<1>1. accounts = [a \in Account |->
        IF a \in {Start[i].account : i \in DOMAIN Start}
        THEN [version |-> 1, blocked |-> FALSE, admitted |-> TRUE, joined |-> TRUE] ELSE NoAccount]
  BY DEF Init, SessionInit
<1>2. identities = [i \in Identity |-> IF i \in DOMAIN Start THEN Start[i] ELSE NoIdentity]
  BY DEF Init, SessionInit
<1>3. \A i \in DOMAIN Start : i \in Identity /\ Start[i].account \in Account /\ Start[i].login \in Login /\ Start[i].linked
  BY SessionAssumption
<1>4. AccountsGood(accounts, identities)
  <2>1. \A a \in Account : /\ accounts[a] \in AccountRecord /\ (accounts[a].admitted => accounts[a].joined)
                           /\ accounts[a].joined => accounts[a].version > 0
                           /\ accounts[a].version > 0 => \E i \in DOMAIN Start : Start[i].account = a
    <3> SUFFICES ASSUME NEW a \in Account
                 PROVE  /\ accounts[a] \in AccountRecord /\ (accounts[a].admitted => accounts[a].joined)
                        /\ accounts[a].joined => accounts[a].version > 0
                        /\ accounts[a].version > 0 => \E i \in DOMAIN Start : Start[i].account = a
      OBVIOUS
    <3>1. CASE a \in {Start[i].account : i \in DOMAIN Start}
      <4>1. accounts[a] = [version |-> 1, blocked |-> FALSE, admitted |-> TRUE, joined |-> TRUE]
        BY <1>1, <3>1
      <4>2. accounts[a] \in AccountRecord /\ accounts[a].joined /\ accounts[a].version = 1
        BY <4>1 DEF AccountRecord
      <4>3. accounts[a].version > 0
        BY <4>2
      <4> QED BY <3>1, <4>2, <4>3
    <3>2. CASE a \notin {Start[i].account : i \in DOMAIN Start}
      <4>1. accounts[a] = NoAccount
        BY <1>1, <3>2
      <4>2. accounts[a] \in AccountRecord /\ ~accounts[a].joined /\ ~accounts[a].admitted /\ accounts[a].version = 0
        BY <4>1 DEF AccountRecord, NoAccount
      <4>3. ~(accounts[a].version > 0)
        BY <4>2
      <4> QED BY <4>2, <4>3
    <3> QED BY <3>1, <3>2
  <2>2. accounts \in [Account -> AccountRecord]
    BY <1>1, <2>1
  <2>3. \A i \in DOMAIN Start : identities[i] = Start[i] /\ identities[i] \in IdentityRecord
    BY <1>2, <1>3, SessionAssumption DEF IdentityRecord
  <2>4. \A i \in Identity \ DOMAIN Start : identities[i] = NoIdentity
    BY <1>2
  <2>5. NoIdentity \in IdentityRecord /\ ~NoIdentity.linked
    BY DEF NoIdentity, IdentityRecord
  <2>6. identities \in [Identity -> IdentityRecord]
    BY <1>2, <2>3, <2>4, <2>5
  <2>7. \A i \in Identity : identities[i].linked => i \in DOMAIN Start /\ identities[i] = Start[i]
    BY <2>3, <2>4, <2>5
  <2>8. \A i \in Identity : identities[i].linked => identities[i].account \in Account /\ identities[i].login \in Login
    BY <1>3, <2>7
  <2>9. \A i, j \in Identity : identities[i].linked /\ identities[j].linked /\ identities[i].login = identities[j].login => i = j
    BY <2>7, SessionAssumption
  <2>10. \A a \in Account : accounts[a].version > 0 => \E i \in Identity : identities[i].linked /\ identities[i].account = a
    BY <1>3, <2>1, <2>3
  <2> QED BY <2>1, <2>2, <2>6, <2>8, <2>9, <2>10 DEF AccountsGood
<1>5. ASSUME NEW l, l \in workload.open
      PROVE  OpenSession(l) \in Payload /\ RowSound(OpenSession(l)) /\ OpenSession(l).parent = 0
  <2>1. PICK j \in DOMAIN Start : Start[j].login = l
    BY <1>5, SessionAssumption DEF Init, SessionInit
  <2>2. j \in Identity /\ identities[j].login = l /\ l \in Login
    BY <1>2, <1>3, <2>1
  <2>3. PICK i : i = CHOOSE k \in Identity : identities[k].login = l
    OBVIOUS
  <2>4. i \in Identity /\ identities[i].login = l
    BY <2>2, <2>3
  <2>5. PICK a \in Account \cup {None} : a = identities[i].account
    BY <1>4, <2>4 DEF AccountsGood, IdentityRecord
  <2>6. PICK e \in Nat : e = 1 + SessionTtl
    BY NumbersAreSound
  <2>7. PICK v \in Provider : v = ProviderOf[l]
    BY <2>2 DEF Provider
  <2>8. PICK p0 \in Payload : p0 = [NoPayload EXCEPT !.kind = "session", !.provider = v, !.login = l, !.account = a, !.identity = i]
    BY <2>2, <2>4, BlankRows DEF Payload
  <2>9. p0.parent = 0 /\ p0.login = l
    BY <2>8, BlankRows DEF Payload
  <2>10. {l} \in SUBSET Login
    BY <2>2
  <2>11. PICK p : p = [p0 EXCEPT !.version = 1, !.at = 1, !.expiresAt = e, !.proofs = {l}, !.given = TRUE]
    OBVIOUS
  <2>12. p \in Payload /\ p.login = p0.login /\ p.proofs = {l} /\ p.parent = p0.parent
    BY <2>10, <2>11 DEF Payload
  <2>13. RowSound(p)
    BY <2>9, <2>12 DEF RowSound
  <2>14. p = OpenSession(l)
    BY <2>3, <2>5, <2>6, <2>7, <2>8, <2>11 DEF OpenSession
  <2> QED BY <2>9, <2>12, <2>13, <2>14
<1>6. SessionsGood(sessions)
  <2>1. PICK order \in [1..Cardinality(workload.open) -> workload.open] :
          sessions = [s \in SessionId |-> IF s \in DOMAIN order THEN OpenSession(order[s]) ELSE Unused]
    BY DEF Init, SessionInit
  <2>2. \A s \in SessionId : \/ sessions[s] = Unused
                             \/ sessions[s] \in Payload /\ RowSound(sessions[s]) /\ sessions[s].parent = 0
    BY <1>5, <2>1
  <2>3. sessions \in [SessionId -> Rows]
    BY <2>1, <2>2 DEF Rows
  <2> QED BY <2>2, <2>3, NumbersAreSound, PayloadsAreRows DEF SessionsGood
<1>7. req = [r \in Request |-> Idle] /\ grants = [g \in Grant |-> NoGrant] /\ clock \in Nat
  BY DEF Init, SessionInit
<1>8. ReqSound(Idle, sessions, accounts)
  BY BlankRows, NumbersAreSound DEF ReqSound, Proving, Proven, Calling
<1>9. ConsentsOnce(req, grants, sessions)
  BY <1>7, BlankRows DEF ConsentsOnce
<1> QED BY <1>4, <1>6, <1>7, <1>8, <1>9, BlankRows DEF LoginInv

LEMMA NextKeepsLoginInv == LoginInv /\ [Next]_vars => LoginInv'
<1> SUFFICES ASSUME LoginInv, [Next]_vars PROVE LoginInv'
  OBVIOUS
<1>1. ASSUME SessionNext, UNCHANGED grants PROVE LoginInv'
  <2>1. CASE StartLogin \/ StartCli \/ OpenInvitation
    BY <1>1, <2>1, StartsKeep
  <2>2. CASE FailCallback \/ Logout \/ Drop
    BY <1>1, <2>2, DroppedKeeps
  <2>3. CASE Tick
    BY <1>1, <2>3, TickKeeps
  <2>4. ASSUME NEW r \in Request, LoginStep(r) PROVE LoginInv'
    BY <1>1, <2>4, OpenPlatformInvitationKeeps, BeginFlowKeeps, BeginCallbackKeeps, AuthorizeLoginKeeps,
       AuthorizeInvitedKeeps, CreateInvitedKeeps, RefusedKeeps, ReadCodeKeeps, DeleteCodeKeeps, PersistKeeps,
       RotateKeeps, AnswerKeeps DEF LoginStep
  <2>5. ASSUME NEW r \in Request, MutationStep(r) PROVE LoginInv'
    BY <1>1, <2>5, StartLinkKeeps, StartUnlinkKeeps, ProveCurrentKeeps, CheckLinkKeeps, CheckUnlinkKeeps,
       MutationKeeps, ResolveAfterMutationKeeps, RefusedKeeps DEF MutationStep
  <2>6. ASSUME NEW r \in Request, ApiStep(r) PROVE LoginInv'
    BY <1>1, <2>6, CallKeeps, ServedKeeps, ServeAccessKeeps, CheckProfileKeeps, UpdateProfileKeeps,
       CallAcceptKeeps, AcceptInvitationKeeps DEF ApiStep
  <2>7. ASSUME NEW r \in Request, Abandon(r) PROVE LoginInv'
    BY <1>1, <2>7, AbandonKeeps
  <2> QED BY <1>1, <2>1, <2>2, <2>3, <2>4, <2>5, <2>6, <2>7 DEF SessionNext
<1>2. CASE StartAuthorization \/ Exchange \/ Revoke
  BY <1>2, StartAuthorizationKeeps, TokensKeep
<1>3. ASSUME NEW r \in Request, McpStep(r) PROVE LoginInv'
  BY <1>3, TakeTransactionKeeps, FinishProviderKeeps, FinishConsentKeeps, CallToolKeeps, AuthorizePlatformKeeps,
     ResolveActorKeeps, ActKeeps DEF McpStep
<1>4. CASE UNCHANGED vars
  <2>1. req' = req /\ clock' \in Nat /\ sessions' = sessions /\ grants' = grants
        /\ AccountsFollow(accounts, accounts', identities')
    BY <1>4, AccountsStay DEF vars, accountVars, sessionVars, LoginInv
  <2> QED BY <2>1, SessionsStay, LoginStays
<1> QED BY <1>1, <1>2, <1>3, <1>4 DEF Next

(* The invariant that the results below follow from: an account that exists keeps a login and a
   login is linked once; a row claims a login only when its flow proved it; a request between two
   awaits knows what it needs of the tables; a consent is with one request or one grant. *)
THEOREM LoginInvariance == Spec => []LoginInv
<1> QED BY InitLoginInv, NextKeepsLoginInv, PTL DEF Spec

LEMMA LoginsGiveOne ==
  ASSUME LoginInv PROVE AccountKeepsLogin
<1>1. \A a \in Account : Exists(a) => LinkedTo(a) # {}
  BY DEF LoginInv, AccountsGood, Exists, LinkedTo
<1>2. ASSUME NEW l \in Login PROVE Cardinality(ActiveIdentities(l)) <= 1
  <2>1. \A i, j \in ActiveIdentities(l) : i = j
    BY DEF LoginInv, AccountsGood, ActiveIdentities
  <2>2. CASE ActiveIdentities(l) = {}
    <3>1. Cardinality(ActiveIdentities(l)) = 0
      BY <2>2, FS_EmptySet
    <3> QED BY <3>1
  <2>3. CASE ActiveIdentities(l) # {}
    <3>1. PICK i : ActiveIdentities(l) = {i}
      BY <2>1, <2>3
    <3>2. Cardinality(ActiveIdentities(l)) = 1
      BY <3>1, FS_Singleton
    <3> QED BY <3>2
  <2> QED BY <2>2, <2>3
<1> QED BY <1>1, <1>2 DEF AccountKeepsLogin

(* An account that exists can be logged in to and a login leads to one account only, however
   logins, links, unlinks and invitations interleave: the batches of the account repository ask
   again for what the handlers looked at before. *)
THEOREM AccountsKeepLogins == Spec => []AccountKeepsLogin
<1> QED BY LoginInvariance, LoginsGiveOne, PTL

LEMMA RowsGiveSessions ==
  ASSUME LoginInv PROVE SessionsSound
<1>1. SessionProvesLogin
  BY RowFacts DEF SessionProvesLogin, RowSound, Claims
<1>2. SuccessorReplaces
  <2> SUFFICES ASSUME NEW s \in SessionId, IsRow(s), sessions[s].given, sessions[s].parent > 0
               PROVE  ~IsRow(sessions[s].parent)
    BY DEF SuccessorReplaces
  <2>1. sessions[sessions[s].parent] = Gone
    BY RowFacts DEF LoginInv, SessionsGood
  <2> QED BY <2>1 DEF IsRow
<1>3. InvitedWaitsForAcceptance
  BY ReqFacts DEF InvitedWaitsForAcceptance, ReqSound, Calling
<1> QED BY <1>1, <1>2, <1>3 DEF SessionsSound

(* A session or a code is for a login its flow proved, the row it follows is gone when its id is
   answered, and the admin API serves no account that has not joined: for every number of
   concurrent callbacks, exchanges, logouts and changes of credentials. *)
THEOREM SessionsAreSound == Spec => []SessionsSound
<1> QED BY LoginInvariance, RowsGiveSessions, PTL

(* A consent of the MCP server makes one grant however often it is submitted, because take
   deletes the transaction and answers it in one statement. *)
THEOREM ConsentsGrantOnce == Spec => []OneGrantPerConsent
<1>1. LoginInv => OneGrantPerConsent
  BY DEF LoginInv, ConsentsOnce, OneGrantPerConsent
<1> QED BY <1>1, LoginInvariance, PTL

=============================================================================
