---------------------------- MODULE AdminSessions ----------------------------
(***************************************************************************)
(* The login flows and sessions of the admin back end for front end.       *)
(*                                                                         *)
(* A flow is a chain of rows in cas_admin_sessions: a row made before the  *)
(* provider is asked (pre-login), which the callback turns into a session, *)
(* a code for the command line, or the next pre-login row of a link.  Each *)
(* await of a handler ends a step, so two callbacks, two exchanges of one  *)
(* code, a logout and a change of credentials interleave; a worker may     *)
(* stop between any two steps.                                             *)
(***************************************************************************)
EXTENDS Accounts

CONSTANTS
  ProviderOf,   \* [Login -> provider]
  Evidence,     \* (login, invitation): the provider verified the invitation's address
  AppInvitation, PlatformInvitation,
  Request,      \* slots of concurrent requests
  MaxSession,   \* bound: rows made in one behaviour
  SessionTtl, CodeTtl,
  FlowTtl,      \* AUTHENTICATION_FLOW_TTL_MS
  MaxClock,     \* bound: last time of the model
  Start,        \* the identities that are linked at the beginning
  Workloads     \* bound: what clients do in one behaviour

Invitation == AppInvitation \cup PlatformInvitation
Provider == {ProviderOf[l] : l \in Login}
SessionId == 1..MaxSession
Operation == {"login", "cli", "invite", "platformInvite", "link", "unlink", "call", "accept",
              "logout", "access", "profile", "mcp", "crash"}

(* What clients ask for, how many rows are made, the logins with a session at the beginning and
   the last time. *)
Workload == [ops : SUBSET Operation, rows : SessionId, open : SUBSET Login, until : 1..MaxClock]

ASSUME SessionAssumption ==
  /\ ProviderOf \in [Login -> Provider]
  /\ DOMAIN Start \subseteq Identity
  /\ \A i \in DOMAIN Start : Start[i] \in [account : Account, login : Login, linked : {TRUE}]
  /\ \A i, j \in DOMAIN Start : Start[i].login = Start[j].login => i = j
  /\ Evidence \subseteq Login \X Invitation
  /\ MaxSession \in Nat \ {0} /\ MaxVersion \in Nat \ {0} /\ MaxClock \in Nat \ {0}
  /\ SessionTtl \in Nat \ {0} /\ CodeTtl \in Nat \ {0} /\ FlowTtl \in Nat \ {0}
  /\ Workloads \subseteq Workload
  /\ \A w \in Workloads : w.open \subseteq {Start[i].login : i \in DOMAIN Start}
  /\ \A S \in {Account, Login, Identity, Invitation, Provider} : None \notin S

VARIABLES
  workload,     \* what clients do, fixed
  clock,
  sessions,     \* cas_admin_sessions
  pending,      \* invitations that can be accepted
  req           \* requests between two awaits

sessionVars == <<workload, clock, sessions, pending, req>>

Unused == [kind |-> "unused"]
Gone == [kind |-> "gone"]

(* A payload.  proofs, parent and given are history: the logins that were proven in the flow,
   the row it follows, and whether its id was answered to the client.  scopes belongs to the
   transactions of McpOAuth, which are kept in the same table. *)
NoPayload ==
  [kind |-> "prelogin", purpose |-> "login", provider |-> None, login |-> None,
   account |-> None, identity |-> None, version |-> 0, next |-> None, target |-> None,
   invitation |-> None, at |-> 0, expiresAt |-> 0, proofs |-> {}, parent |-> 0, given |-> FALSE,
   scopes |-> {}]

Idle == [pc |-> "idle", sid |-> 0, row |-> NoPayload, login |-> None, audit |-> FALSE,
         grant |-> None]

IsRow(s) == sessions[s] \notin {Unused, Gone}
Stored(s) == IsRow(s) /\ sessions[s].expiresAt > clock
Fresh(s) ==
  s <= workload.rows /\ sessions[s] = Unused /\ \A t \in 1..(s - 1) : sessions[t] # Unused

Ttl(p) == IF p.kind = "code" THEN CodeTtl ELSE SessionTtl

(* create and persistSession: only ids that were answered can come back. *)
Row(p, parent, given) ==
  [p EXCEPT !.expiresAt = clock + Ttl(p), !.parent = parent, !.given = given]

Deleted(s) == IF s = 0 THEN sessions ELSE [sessions EXCEPT ![s] = Gone]

Touched(s) ==
  IF IsRow(s) THEN [sessions EXCEPT ![s].expiresAt = clock + SessionTtl] ELSE sessions

Admitted(a) == accounts[a].admitted

(* readSession: an expired row, and a session whose credential, login or admission no longer
   holds, is deleted and not answered. *)
Readable(s) ==
  /\ Stored(s)
  /\ LET p == sessions[s] IN
     p.kind = "session" =>
       /\ Credential(p.account, p.identity, p.version)
       /\ identities[p.identity].login = p.login
       /\ p.invitation # None \/ Admitted(p.account)

(* What a client can present. *)
Presented(s) == IsRow(s) /\ sessions[s].given

(* requireAuthenticated *)
FullSession(s) == Presented(s) /\ Readable(s) /\ sessions[s].kind = "session"
                  /\ sessions[s].invitation = None

-----------------------------------------------------------------------------
(* Starting a flow. *)

Idling(r, op) == req[r] = Idle /\ op \in workload.ops

Keep == UNCHANGED <<workload, clock, pending>>

(* startProviderLogin, answered at once. *)
StartFlow(p) == \E s \in SessionId :
  /\ Fresh(s)
  /\ sessions' = [sessions EXCEPT ![s] = Row(p, 0, TRUE)]
  /\ Keep /\ UNCHANGED <<req, accountVars>>

StartLogin == "login" \in workload.ops /\ \E v \in Provider :
  StartFlow([NoPayload EXCEPT !.provider = v])

StartCli == "cli" \in workload.ops /\ \E v \in Provider :
  StartFlow([NoPayload EXCEPT !.provider = v, !.purpose = "cli"])

OpenInvitation == "invite" \in workload.ops /\ \E v \in Provider, i \in AppInvitation \cap pending :
  StartFlow([NoPayload EXCEPT !.provider = v, !.purpose = "invite", !.invitation = i])

(* The page of a platform invitation drops whatever session the browser has. *)
OpenPlatformInvitation(r) ==
  /\ Idling(r, "platformInvite")
  /\ \E s \in {0} \cup {t \in SessionId : Presented(t)}, v \in Provider,
        i \in PlatformInvitation \cap pending :
       /\ sessions' = Deleted(s)
       /\ req' = [req EXCEPT ![r] = [Idle EXCEPT !.pc = "begin",
            !.row = [NoPayload EXCEPT !.provider = v, !.purpose = "invite", !.invitation = i]]]
  /\ Keep /\ UNCHANGED accountVars

BeginFlow(r) == \E s \in SessionId :
  /\ req[r].pc = "begin" /\ Fresh(s)
  /\ sessions' = [sessions EXCEPT ![s] = Row(req[r].row, 0, TRUE)]
  /\ req' = [req EXCEPT ![r] = Idle]
  /\ Keep /\ UNCHANGED accountVars

(* A row is made for the next step of a flow; the old one goes in a later step. *)
HandOver(r, s, p, audit) ==
  req' = [req EXCEPT ![r] = [Idle EXCEPT !.pc = "persist", !.sid = s, !.row = p, !.audit = audit]]

(* handleLinkStart: the login of the session has to be proven anew. *)
StartLink(r) == \E s \in SessionId, v \in Provider :
  /\ Idling(r, "link") /\ FullSession(s)
  /\ HandOver(r, s, [sessions[s] EXCEPT !.kind = "prelogin", !.purpose = "linkCurrent",
       !.next = v, !.at = 0, !.proofs = {}], FALSE)
  /\ sessions' = Touched(s)
  /\ Keep /\ UNCHANGED accountVars

(* handleUnlinkStart *)
StartUnlink(r) == \E s \in SessionId, target \in Identity, remaining \in Identity :
  /\ Idling(r, "unlink") /\ FullSession(s)
  /\ remaining \in LinkedTo(sessions[s].account)
  /\ identities[target] # NoIdentity
  /\ HandOver(r, s, [sessions[s] EXCEPT !.kind = "prelogin", !.purpose = "unlink",
       !.provider = ProviderOf[identities[remaining].login], !.at = 0, !.proofs = {},
       !.login = identities[remaining].login, !.identity = remaining, !.target = target], FALSE)
  /\ sessions' = Touched(s)
  /\ Keep /\ UNCHANGED accountVars

-----------------------------------------------------------------------------
(* The callback of a provider. *)

(* handleCallback: the row is read, not taken; the adapter says who authenticated. *)
BeginCallback(r) == \E s \in SessionId, l \in Login :
  /\ req[r] = Idle
  /\ Presented(s) /\ Stored(s) /\ sessions[s].kind = "prelogin"
  /\ sessions[s].provider = ProviderOf[l]
  /\ req' = [req EXCEPT ![r] =
       [Idle EXCEPT !.pc = sessions[s].purpose, !.sid = s, !.login = l,
          !.row = [sessions[s] EXCEPT !.proofs = sessions[s].proofs \cup {l}]]]
  /\ UNCHANGED sessions /\ Keep /\ UNCHANGED accountVars

(* A callback with an error, another state or another provider deletes the row. *)
FailCallback == \E s \in SessionId :
  /\ "logout" \in workload.ops
  /\ Presented(s) /\ Readable(s) /\ sessions[s].kind \in {"prelogin", "session"}
  /\ sessions' = Deleted(s)
  /\ Keep /\ UNCHANGED <<req, accountVars>>

(* What a login turns into once its account is known. *)
LoginPayload(q, a, i) ==
  [NoPayload EXCEPT
     !.kind = IF q.row.purpose = "cli" THEN "code" ELSE "session",
     !.purpose = IF q.row.purpose = "cli" THEN "cli" ELSE "login",
     !.provider = ProviderOf[q.login], !.login = q.login, !.account = a, !.identity = i,
     !.version = accounts[a].version, !.invitation = q.row.invitation, !.at = clock,
     !.proofs = q.row.proofs]

(* requireInvitationEmailEvidence of a fresh login; app invitations may have no constraint. *)
EvidenceFor(l, i) == <<l, i>> \in Evidence

(* authorizeAccountLogin without an invitation *)
AuthorizeLogin(r) == LET q == req[r] IN \E i \in Identity :
  /\ q.pc \in {"login", "cli"}
  /\ i \in ActiveIdentities(q.login)
  /\ LET a == identities[i].account IN
     /\ Usable(a) /\ Admitted(a)
     /\ HandOver(r, q.sid, LoginPayload(q, a, i), q.pc = "login")
  /\ UNCHANGED <<sessions, accountVars>> /\ Keep

(* authorizeAccountLogin with an invitation: the account need not be admitted, and is made when
   there is none. *)
AuthorizeInvited(r) == LET q == req[r] IN
  /\ q.pc = "invite"
  /\ q.row.invitation \in pending
  /\ EvidenceFor(q.login, q.row.invitation)
  /\ IF Unlinked(q.login)
     THEN req' = [req EXCEPT ![r].pc = "create"]
     ELSE \E i \in ActiveIdentities(q.login) :
            /\ Usable(identities[i].account)
            /\ HandOver(r, q.sid, LoginPayload(q, identities[i].account, i), TRUE)
  /\ UNCHANGED <<sessions, accountVars>> /\ Keep

(* createForExternalIdentity, then resolveExternalIdentity once more. *)
CreateInvited(r) == \E a \in Account, i \in Identity :
  /\ req[r].pc = "create"
  /\ CreateAccount(a, i, req[r].login)
  /\ req' = [req EXCEPT ![r].pc = "invite"]
  /\ UNCHANGED sessions /\ Keep

(* A refused login deletes the row.  A Microsoft login without evidence goes on as an e-mail
   challenge, which replaces the row too. *)
RefuseLogin(r) == LET q == req[r] IN
  /\ \/ q.pc \in {"login", "cli"}
        /\ \A i \in ActiveIdentities(q.login) :
             ~(Usable(identities[i].account) /\ Admitted(identities[i].account))
     \/ q.pc = "invite"
        /\ \/ q.row.invitation \notin pending
           \/ ~EvidenceFor(q.login, q.row.invitation)
           \/ \E i \in ActiveIdentities(q.login) : ~Usable(identities[i].account)
     \/ q.pc = "create" /\ ~Unlinked(q.login)
  /\ sessions' = Deleted(q.sid)
  /\ req' = [req EXCEPT ![r] = Idle]
  /\ Keep /\ UNCHANGED accountVars

-----------------------------------------------------------------------------
(* completeIdentityMutation *)

(* Mutant: the callback does not compare the login with the session's. *)
SameLoginAny(q) == TRUE

(* The login that comes back is the one the flow expects. *)
SameLogin(q) == q.login = q.row.login

ProveCurrent(r) == LET q == req[r] IN
  /\ q.pc = "linkCurrent" /\ SameLogin(q)
  /\ HandOver(r, q.sid, [q.row EXCEPT !.purpose = "linkTarget", !.provider = q.row.next,
                                      !.at = clock], FALSE)
  /\ UNCHANGED <<sessions, accountVars>> /\ Keep

(* requireFresh *)
FreshAuthentication(at) == clock - at <= FlowTtl

(* The session a link or unlink ends with. *)
SessionAfter(q, a, v) ==
  [q.row EXCEPT !.kind = "session", !.purpose = "login", !.account = a, !.version = v,
     !.provider = ProviderOf[q.row.login], !.next = None, !.target = None,
     !.at = IF q.row.at = 0 THEN clock ELSE q.row.at]

LinkAllowed(q) ==
  FreshAuthentication(q.row.at) /\ Credential(q.row.account, q.row.identity, q.row.version)

(* linkExternalIdentity: a login that is linked to the account already changes nothing. *)
CheckLink(r) == LET q == req[r] IN
  /\ q.pc = "linkTarget" /\ LinkAllowed(q)
  /\ IF Unlinked(q.login)
     THEN req' = [req EXCEPT ![r].pc = "commitLink"]
     ELSE HandOver(r, q.sid, SessionAfter(q, q.row.account, q.row.version), TRUE)
  /\ UNCHANGED <<sessions, accountVars>> /\ Keep

LinkIdentity(r) == LET q == req[r] IN \E i \in Identity :
  /\ q.pc = "commitLink"
  /\ CommitLinkIdentity(q.row.account, q.row.version, i, q.login)
  /\ req' = [req EXCEPT ![r].pc = "resolve"]
  /\ UNCHANGED sessions /\ Keep

(* The insert of the batch finds the login linked meanwhile; the session comes back as it was. *)
LinkConflict(r) == LET q == req[r] IN
  /\ q.pc = "commitLink" /\ ~Unlinked(q.login)
  /\ HandOver(r, q.sid, SessionAfter(q, q.row.account, q.row.version), TRUE)
  /\ UNCHANGED <<sessions, accountVars>> /\ Keep

CheckUnlink(r) == LET q == req[r] IN
  /\ q.pc = "unlink" /\ SameLogin(q)
  /\ q.row.identity \in LinkedTo(q.row.account)
  /\ req' = [req EXCEPT ![r].pc = "commitUnlink"]
  /\ UNCHANGED <<sessions, accountVars>> /\ Keep

UnlinkIdentity(r) == LET q == req[r] IN
  /\ q.pc = "commitUnlink"
  /\ CommitUnlinkIdentity(q.row.account, q.row.version, q.row.target, q.row.identity)
  /\ req' = [req EXCEPT ![r].pc = "resolve"]
  /\ UNCHANGED sessions /\ Keep

(* The version is read again after the batch, not taken from it. *)
ResolvedVersion(q, a) == accounts[a].version

(* resolveExternalIdentity of the login the session is for: who has it now. *)
ResolveAfterMutation(r) == LET q == req[r] IN
  \E i \in ActiveIdentities(q.row.login) : LET a == identities[i].account IN
    /\ q.pc = "resolve" /\ Usable(a)
    /\ HandOver(r, q.sid, SessionAfter(q, a, ResolvedVersion(q, a)), TRUE)
    /\ UNCHANGED <<sessions, accountVars>> /\ Keep

(* Any other outcome of the service deletes the row of the flow. *)
RefuseMutation(r) == LET q == req[r] IN
  /\ \/ q.pc \in {"linkCurrent", "unlink"} /\ ~SameLogin(q)
     \/ q.pc = "linkTarget" /\ ~LinkAllowed(q)
     \/ q.pc = "unlink" /\ q.row.identity \notin LinkedTo(q.row.account)
     \/ q.pc \in {"commitLink", "commitUnlink"} /\ ~VersionCurrent(q.row.account, q.row.version)
     \/ q.pc = "commitUnlink" /\ ~RemainingLinked(q.row.account, q.row.target, q.row.identity)
     \/ q.pc = "resolve" /\ \A i \in ActiveIdentities(q.row.login) : ~Usable(identities[i].account)
  /\ sessions' = Deleted(q.sid)
  /\ req' = [req EXCEPT ![r] = Idle]
  /\ Keep /\ UNCHANGED accountVars

-----------------------------------------------------------------------------
(* Ending a flow. *)

Persist(r) == LET q == req[r] IN \E s \in SessionId :
  /\ q.pc = "persist" /\ Fresh(s)
  /\ sessions' = [sessions EXCEPT ![s] = Row(q.row, q.sid, FALSE)]
  /\ req' = [req EXCEPT ![r] = [q EXCEPT !.pc = "rotate", !.row = [NoPayload EXCEPT !.parent = s]]]
  /\ Keep /\ UNCHANGED accountVars

(* Mutant: the old row stays. *)
RotatedKept(q) == sessions

(* The old row is deleted, which does nothing when it is gone. *)
Rotated(q) == Deleted(q.sid)

Rotate(r) == LET q == req[r] IN
  /\ q.pc = "rotate"
  /\ sessions' = Rotated(q)
  /\ req' = [req EXCEPT ![r].pc = "answer"]
  /\ Keep /\ UNCHANGED accountVars

(* recordSessionAudit fails for an account that was blocked or a login that was unlinked; the
   id is then never answered. *)
AuditAccepts(p) == Usable(p.account) /\ p.identity \in LinkedTo(p.account)

Answer(r) == LET q == req[r] s == q.row.parent IN
  /\ q.pc = "answer"
  /\ sessions' = IF IsRow(s) /\ (q.audit => AuditAccepts(sessions[s]))
                 THEN [sessions EXCEPT ![s].given = TRUE] ELSE sessions
  /\ req' = [req EXCEPT ![r] = Idle]
  /\ Keep /\ UNCHANGED accountVars

(* handleCliExchange: the code is read, compared, then deleted. *)
ReadCode(r) == \E s \in SessionId :
  /\ req[r] = Idle
  /\ Presented(s) /\ Stored(s) /\ sessions[s].kind = "code"
  /\ req' = [req EXCEPT ![r] = [Idle EXCEPT !.pc = "exchange", !.sid = s,
       !.row = [sessions[s] EXCEPT !.kind = "session"]]]
  /\ UNCHANGED <<sessions, accountVars>> /\ Keep

DeleteCode(r) == LET q == req[r] IN
  /\ q.pc = "exchange"
  /\ sessions' = Deleted(q.sid)
  /\ HandOver(r, q.sid, q.row, TRUE)
  /\ Keep /\ UNCHANGED accountVars

(* The verifier of another login attempt: the code is spent. *)
RefuseCode(r) == LET q == req[r] IN
  /\ q.pc = "exchange"
  /\ sessions' = Deleted(q.sid)
  /\ req' = [req EXCEPT ![r] = Idle]
  /\ Keep /\ UNCHANGED accountVars

(* handleLogout *)
Logout == \E s \in SessionId :
  /\ "logout" \in workload.ops /\ Presented(s)
  /\ sessions' = Deleted(s)
  /\ Keep /\ UNCHANGED <<req, accountVars>>

-----------------------------------------------------------------------------
(* The admin API: what each handler may do, and whether it asks for the CSRF token. *)

Read == [effect |-> "read", csrf |-> FALSE]
Change(e) == [effect |-> e, csrf |-> TRUE]

handleAppIssuerMutation == {Change("control")}
handleAccountApi == {Read, Change("profile")}
handleCurrentAdministrator == {Read}
handleAccountAppMembers == {Read, Change("access")}
handleAccountApps == {Read, Change("control")}
handleAccountAppAudit == {Read}
handleAccountAppUsage == {Read}
handleAccountAppGc == {Change("control")}
handleAccountAuditRead == {Read}
handlePeople == {Read}
handleAppInvitations == {Read, Change("control")}
handleCreateAppInvitation == {Change("control")}
handleAccountOAuthIssuer == {Read}
handlePlatformAdminApi == {Read, Change("access"), Change("control")}

Endpoints ==
  UNION {handleAppIssuerMutation, handleAccountApi, handleCurrentAdministrator,
         handleAccountAppMembers, handleAccountApps, handleAccountAppAudit,
         handleAccountAppUsage, handleAccountAppGc, handleAccountAuditRead, handlePeople,
         handleAppInvitations, handleCreateAppInvitation, handleAccountOAuthIssuer,
         handlePlatformAdminApi}

(* Mutant: every authenticated session may call the API. *)
MayCallAny(s) == Presented(s) /\ Readable(s) /\ sessions[s].kind = "session"

(* requireAuthenticated refuses a session that is limited to its invitation. *)
MayCall(s) == FullSession(s)

(* The token is that of the session the request presents; without it nothing goes on. *)
Call(r) == \E s \in SessionId, e \in Endpoints, token \in BOOLEAN :
  /\ Idling(r, "call") /\ MayCall(s)
  /\ e.effect \in {"access", "profile"} => e.effect \in workload.ops
  /\ sessions' = Touched(s)
  /\ req' = IF e.csrf => token
            THEN [req EXCEPT ![r] = [Idle EXCEPT !.pc = e.effect, !.sid = s, !.row = sessions[s]]]
            ELSE req
  /\ Keep /\ UNCHANGED accountVars

(* The service looks at the account again (requireUsableAccount); a usage read or a collection
   of a blocked account deletes the session. *)
ServeRead(r) == LET q == req[r] IN
  /\ q.pc = "read"
  /\ \/ UNCHANGED sessions
     \/ ~Usable(q.row.account) /\ sessions' = Deleted(q.sid)
  /\ req' = [req EXCEPT ![r] = Idle]
  /\ Keep /\ UNCHANGED accountVars

(* Batches that ControlAccess describes: they ask for a usable account and a linked login. *)
ServeControl(r) == LET q == req[r] IN
  /\ q.pc = "control"
  /\ \/ AuditAccepts(q.row) /\ UNCHANGED sessions
     \/ ~Usable(q.row.account) /\ sessions' = Deleted(q.sid)
  /\ req' = [req EXCEPT ![r] = Idle]
  /\ Keep /\ UNCHANGED accountVars

ServeAccess(r) == LET q == req[r] IN \E a \in Account, b \in BOOLEAN, m \in BOOLEAN :
  /\ q.pc = "access" /\ AuditAccepts(q.row)
  /\ SetAccess(a, b, m)
  /\ req' = [req EXCEPT ![r] = Idle]
  /\ UNCHANGED sessions /\ Keep

(* updateProfile looks at the account and the identity, then writes. *)
CheckProfile(r) == LET q == req[r] IN \E i \in LinkedTo(q.row.account) \cup {User} :
  /\ q.pc = "profile" /\ Usable(q.row.account)
  /\ req' = [req EXCEPT ![r] = [q EXCEPT !.pc = "writeProfile", !.row = [q.row EXCEPT !.target = i]]]
  /\ UNCHANGED <<sessions, accountVars>> /\ Keep

UpdateProfile(r) == LET q == req[r] IN
  /\ q.pc = "writeProfile"
  /\ WriteProfile(q.row.account, [profiles[q.row.account] EXCEPT !.avatar = q.row.target])
  /\ req' = [req EXCEPT ![r] = Idle]
  /\ UNCHANGED sessions /\ Keep

(* Acceptance: a session limited to this invitation, or for an App any full session. *)
MayAccept(s, i) ==
  /\ Presented(s) /\ Readable(s) /\ sessions[s].kind = "session"
  /\ \/ sessions[s].invitation = i
     \/ i \in AppInvitation /\ sessions[s].invitation = None

CallAccept(r) == \E s \in SessionId, i \in Invitation :
  /\ Idling(r, "accept") /\ MayAccept(s, i)
  /\ req' = [req EXCEPT ![r] = [Idle EXCEPT !.pc = "accept", !.sid = s,
       !.row = [sessions[s] EXCEPT !.invitation = i]]]
  /\ sessions' = IF sessions[s].invitation = None THEN Touched(s) ELSE sessions
  /\ Keep /\ UNCHANGED accountVars

(* The evidence of the login has to be fresh still. *)
AcceptanceEvidence(p) == EvidenceFor(p.login, p.invitation) /\ p.at + FlowTtl > clock

(* The batch admits the account; the session goes on without the limit and the evidence. *)
AcceptInvitation(r) == LET q == req[r] i == q.row.invitation IN
  /\ q.pc = "accept" /\ i \in pending
  /\ AcceptanceEvidence(q.row) /\ AuditAccepts(q.row)
  /\ pending' = pending \ {i}
  /\ accounts' = [accounts EXCEPT ![q.row.account].admitted = TRUE,
                                  ![q.row.account].joined = TRUE]
  /\ HandOver(r, q.sid, [q.row EXCEPT !.invitation = None], FALSE)
  /\ UNCHANGED <<workload, clock, sessions, identities, profiles>>

-----------------------------------------------------------------------------
(* Time, maintenance and failure. *)

(* An expired row goes when it is read or when the maintenance prunes; a session that
   readSession finds without a credential goes as well. *)
Drop == \E s \in SessionId :
  /\ IsRow(s) /\ (~Readable(s))
  /\ sessions' = Deleted(s)
  /\ Keep /\ UNCHANGED <<req, accountVars>>

(* The service refuses, an exception is thrown or the worker stops. *)
Abandon(r) ==
  /\ req[r] # Idle /\ "crash" \in workload.ops
  /\ req' = [req EXCEPT ![r] = Idle]
  /\ UNCHANGED <<sessions, accountVars>> /\ Keep

Tick ==
  /\ clock < workload.until
  /\ clock' = clock + 1
  /\ UNCHANGED <<workload, pending, sessions, req, accountVars>>

(* A session that was made before. *)
OpenSession(l) ==
  LET i == CHOOSE i \in Identity : identities[i].login = l IN
  [NoPayload EXCEPT !.kind = "session", !.provider = ProviderOf[l], !.login = l,
     !.account = identities[i].account, !.identity = i, !.version = 1, !.at = 1,
     !.expiresAt = 1 + SessionTtl, !.proofs = {l}, !.given = TRUE]

SessionInit ==
  /\ workload \in Workloads
  /\ clock = 1
  /\ pending = Invitation
  /\ req = [r \in Request |-> Idle]
  /\ accounts = [a \in Account |->
       IF a \in {Start[i].account : i \in DOMAIN Start}
       THEN [version |-> 1, blocked |-> FALSE, admitted |-> TRUE, joined |-> TRUE]
       ELSE NoAccount]
  /\ identities = [i \in Identity |-> IF i \in DOMAIN Start THEN Start[i] ELSE NoIdentity]
  /\ profiles = [a \in Account |-> [name |-> None, avatar |-> None]]
  /\ \E order \in [1..Cardinality(workload.open) -> workload.open] :
       /\ \A l \in workload.open : \E s \in DOMAIN order : order[s] = l
       /\ sessions = [s \in SessionId |->
            IF s \in DOMAIN order THEN OpenSession(order[s]) ELSE Unused]

LoginStep(r) ==
  \/ OpenPlatformInvitation(r) \/ BeginFlow(r) \/ BeginCallback(r)
  \/ AuthorizeLogin(r) \/ AuthorizeInvited(r) \/ CreateInvited(r) \/ RefuseLogin(r)
  \/ ReadCode(r) \/ DeleteCode(r) \/ RefuseCode(r)
  \/ Persist(r) \/ Rotate(r) \/ Answer(r)

MutationStep(r) ==
  \/ StartLink(r) \/ StartUnlink(r) \/ ProveCurrent(r) \/ CheckLink(r) \/ LinkIdentity(r)
  \/ LinkConflict(r) \/ CheckUnlink(r) \/ UnlinkIdentity(r) \/ ResolveAfterMutation(r)
  \/ RefuseMutation(r)

ApiStep(r) ==
  \/ Call(r) \/ ServeRead(r) \/ ServeControl(r) \/ ServeAccess(r)
  \/ CheckProfile(r) \/ UpdateProfile(r) \/ CallAccept(r) \/ AcceptInvitation(r)

SessionNext ==
  \/ StartLogin \/ StartCli \/ OpenInvitation \/ FailCallback \/ Logout \/ Drop \/ Tick
  \/ \E r \in Request : LoginStep(r) \/ MutationStep(r) \/ ApiStep(r) \/ Abandon(r)

-----------------------------------------------------------------------------
Payload ==
  [kind : {"prelogin", "session", "code", "provider", "consent"},
   purpose : {"login", "cli", "invite", "linkCurrent", "linkTarget", "unlink"}, provider : Provider \cup {None},
   login : Login \cup {None}, account : Account \cup {None}, identity : Identity \cup {None},
   version : Nat, next : Provider \cup {None}, target : Source,
   invitation : Invitation \cup {None}, at : Nat, expiresAt : Nat, proofs : SUBSET Login,
   parent : 0..MaxSession, given : BOOLEAN,
   scopes : SUBSET {"control:read", "control:write", "control:security"}]

SessionTypeOK ==
  /\ AccountTypeOK
  /\ workload \in Workloads /\ clock \in 1..MaxClock /\ pending \subseteq Invitation
  /\ \A s \in SessionId : IsRow(s) => sessions[s] \in Payload
  /\ \A r \in Request : req[r].row \in Payload /\ req[r].sid \in 0..MaxSession

(* Whoever holds a session, or the code of a command line login, proved the login it is for in
   the flow that ended with it: a link or an unlink gives no session for a login that was not
   authenticated again, whatever the browser presented at the provider. *)
SessionProvesLogin ==
  \A s \in SessionId :
    IsRow(s) /\ sessions[s].kind \in {"session", "code"} => sessions[s].login \in sessions[s].proofs

(* When the id of a session is answered, the row it follows is gone: rotation leaves no earlier
   session, pre-login row or code that still works, even when requests race or stop halfway. *)
SuccessorReplaces ==
  \A s \in SessionId :
    IsRow(s) /\ sessions[s].given /\ sessions[s].parent > 0 => ~IsRow(sessions[s].parent)

(* An account that an invitation created or brought to the login calls nothing of the admin API
   before an invitation was accepted for it. *)
InvitedWaitsForAcceptance ==
  \A r \in Request :
    req[r].pc \in {"read", "control", "access", "profile", "writeProfile"} =>
      accounts[req[r].row.account].joined

(* A session is as good as the proof behind it, the only one of its line, and closed to an
   account that has not joined. *)
SessionsSound == SessionProvesLogin /\ SuccessorReplaces /\ InvitedWaitsForAcceptance
=============================================================================
