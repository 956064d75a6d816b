------------------------------ MODULE McpOAuth ------------------------------
(***************************************************************************)
(* The OAuth front door of the MCP server, on the account tables and the   *)
(* transaction table it shares with the admin sessions.                    *)
(*                                                                         *)
(* Two transactions of one use each lead to a grant, which carries the     *)
(* account, the login and the credential version of the consent.  The      *)
(* grant is compared with the account when it is made, at every exchange   *)
(* and at every request; a tool then resolves the login once more.  The    *)
(* OAuth library keeps grants and tokens.                                  *)
(***************************************************************************)
EXTENDS AdminSessions

CONSTANTS
  Grant,             \* ids of grants that can be made
  AskedScopes,       \* bound: the sets of scopes clients ask for
  AccessTtl, RefreshTtl,
  MutationsEnabled   \* MCP_MUTATIONS_ENABLED

ASSUME McpAssumption ==
  /\ AskedScopes \subseteq SUBSET {"control:read", "control:write", "control:security"}
  /\ AccessTtl \in Nat \ {0} /\ RefreshTtl \in Nat \ {0} /\ MutationsEnabled \in BOOLEAN

VARIABLE grants      \* grants and access tokens of the OAuth library

vars == <<accountVars, sessionVars, grants>>

Scope == {"control:read", "control:write", "control:security"}
(* consent is history: the consent transaction the grant stems from. *)
NoGrant == [login |-> None, account |-> None, identity |-> None, version |-> 0, scopes |-> {},
            refreshUntil |-> 0, tokenScopes |-> {}, tokenUntil |-> 0, consent |-> 0]

(* checkMcpAccountAccess *)
AccountAccess(p) ==
  /\ Credential(p.account, p.identity, p.version)
  /\ identities[p.identity].login = p.login
  /\ Admitted(p.account)

-----------------------------------------------------------------------------
(* Authorization. *)

(* startAuthorization: unsupported scopes are refused before anything is stored. *)
StartAuthorization == \E s \in SessionId, v \in Provider, scopes \in AskedScopes :
  /\ "mcp" \in workload.ops /\ Fresh(s)
  /\ sessions' = [sessions EXCEPT ![s] =
       Row([NoPayload EXCEPT !.kind = "provider", !.provider = v, !.scopes = scopes], 0, TRUE)]
  /\ Keep /\ UNCHANGED <<req, accountVars, grants>>

(* Mutant: the transaction is read and stays. *)
TakenKept(s) == sessions

(* take: the row is deleted and answered in one statement. *)
Taken(s) == Deleted(s)

(* takeTransaction, of either kind; a row that has expired is deleted all the same. *)
TakeTransaction(r) == \E s \in SessionId :
  /\ req[r] = Idle
  /\ Presented(s) /\ sessions[s].kind \in {"provider", "consent"}
  /\ sessions' = Taken(s)
  /\ req' = IF Stored(s)
            THEN [req EXCEPT ![r] = [Idle EXCEPT !.pc = sessions[s].kind, !.sid = s, !.row = sessions[s]]]
            ELSE req
  /\ Keep /\ UNCHANGED <<accountVars, grants>>

(* finishProviderAuthentication: only an admitted account gets to the consent page. *)
FinishProvider(r) == LET q == req[r] IN
  \E l \in Login : \E i \in ActiveIdentities(l) : LET a == identities[i].account IN
    /\ q.pc = "provider" /\ q.row.provider = ProviderOf[l]
    /\ Usable(a) /\ Admitted(a)
    /\ req' = [req EXCEPT ![r] = [Idle EXCEPT !.pc = "begin",
         !.row = [NoPayload EXCEPT !.kind = "consent", !.login = l, !.account = a,
                    !.identity = i, !.version = accounts[a].version, !.scopes = q.row.scopes]]]
    /\ UNCHANGED <<sessions, accountVars, grants>> /\ Keep

(* finishConsent: the account is compared again, then the library makes the grant. *)
FinishConsent(r) == LET q == req[r] IN \E g \in Grant :
  /\ q.pc = "consent" /\ grants[g] = NoGrant
  /\ AccountAccess(q.row)
  /\ grants' = [grants EXCEPT ![g] =
       [NoGrant EXCEPT !.login = q.row.login, !.account = q.row.account,
          !.identity = q.row.identity, !.version = q.row.version, !.scopes = q.row.scopes,
          !.refreshUntil = clock + RefreshTtl, !.consent = q.sid]]
  /\ req' = [req EXCEPT ![r] = Idle]
  /\ UNCHANGED <<sessions, accountVars>> /\ Keep

-----------------------------------------------------------------------------
(* Tokens and tools. *)

TokenAccess(g) == AccountAccess(grants[g])

(* tokenExchangeCallback: a code or a refresh token becomes an access token with the scopes
   that were asked for, which the library keeps within the grant's. *)
Exchange == \E g \in Grant, scopes \in SUBSET Scope :
  /\ grants[g] # NoGrant /\ grants[g].refreshUntil > clock
  /\ scopes \in AskedScopes /\ scopes \subseteq grants[g].scopes
  /\ TokenAccess(g)
  /\ grants' = [grants EXCEPT ![g].tokenScopes = scopes, ![g].tokenUntil = clock + AccessTtl]
  /\ Keep /\ UNCHANGED <<sessions, req, accountVars>>

(* The token endpoint's revocation. *)
Revoke == \E g \in Grant :
  /\ grants[g] # NoGrant
  /\ grants' = [grants EXCEPT ![g].refreshUntil = 0, ![g].tokenUntil = 0]
  /\ grants' # grants
  /\ Keep /\ UNCHANGED <<sessions, req, accountVars>>

(* What each group of tools asks for; authority: the operation is the platform's. *)
Tool(scope, mutates, authority) == [scope |-> scope, mutates |-> mutates, authority |-> authority]

AppReadTools == {Tool("control:read", FALSE, FALSE)}
CreateAppTool == {Tool("control:write", TRUE, TRUE)}
PlatformReadTools == {Tool("control:security", FALSE, TRUE)}
PlatformCommandTools == {Tool("control:security", TRUE, TRUE)}
PlatformInvitationTools == PlatformReadTools \cup PlatformCommandTools
InvitationTools == {Tool("control:security", FALSE, FALSE), Tool("control:security", TRUE, FALSE)}
UpdateAppTool == {Tool("control:write", TRUE, FALSE)}
MembershipTools == {Tool("control:security", TRUE, FALSE)}
Tools == UNION {AppReadTools, CreateAppTool, PlatformReadTools, PlatformCommandTools,
                PlatformInvitationTools, InvitationTools, UpdateAppTool, MembershipTools}

(* requireGrantScope and requireMutation *)
GrantScope(g, t) ==
  t.scope \in grants[g].tokenScopes /\ (t.mutates => MutationsEnabled)

(* The API handler: the token is live, the account is compared, the tool's scope is there. *)
CallTool(r) == \E g \in Grant, t \in Tools :
  /\ req[r] = Idle /\ "mcp" \in workload.ops
  /\ grants[g].tokenUntil > clock
  /\ AccountAccess(grants[g]) /\ GrantScope(g, t)
  /\ req' = [req EXCEPT ![r] = [Idle EXCEPT !.pc = IF t.authority THEN "authority" ELSE "actor",
       !.grant = g,
       !.row = [NoPayload EXCEPT !.login = grants[g].login, !.account = grants[g].account,
                  !.identity = grants[g].identity, !.version = grants[g].version]]]
  /\ Keep /\ UNCHANGED <<sessions, accountVars, grants>>

(* authorizePlatformOperation: once more, with the authority. *)
AuthorizePlatform(r) ==
  /\ req[r].pc = "authority" /\ AccountAccess(req[r].row)
  /\ req' = [req EXCEPT ![r].pc = "actor"]
  /\ Keep /\ UNCHANGED <<sessions, accountVars, grants>>

(* requireGrantAccount: whoever has the login now is the actor. *)
ResolveActor(r) == LET q == req[r] IN \E i \in ActiveIdentities(q.row.login) :
  LET a == identities[i].account IN
  /\ q.pc = "actor" /\ Usable(a)
  /\ req' = [req EXCEPT ![r] = [q EXCEPT !.pc = "act",
       !.row = [q.row EXCEPT !.account = a, !.identity = i, !.version = accounts[a].version]]]
  /\ Keep /\ UNCHANGED <<sessions, accountVars, grants>>

(* The service call, whose batch ControlAccess describes. *)
Act(r) ==
  /\ req[r].pc = "act"
  /\ req' = [req EXCEPT ![r] = Idle]
  /\ Keep /\ UNCHANGED <<sessions, accountVars, grants>>

-----------------------------------------------------------------------------
Init == SessionInit /\ grants = [g \in Grant |-> NoGrant]

McpStep(r) ==
  \/ TakeTransaction(r) \/ FinishProvider(r) \/ FinishConsent(r)
  \/ CallTool(r) \/ AuthorizePlatform(r) \/ ResolveActor(r) \/ Act(r)

Next ==
  \/ SessionNext /\ UNCHANGED grants
  \/ StartAuthorization \/ Exchange \/ Revoke
  \/ \E r \in Request : McpStep(r)

Spec == Init /\ [][Next]_vars

-----------------------------------------------------------------------------
TypeOK ==
  /\ SessionTypeOK
  /\ \A g \in Grant : grants[g].scopes \subseteq Scope /\ grants[g].tokenScopes \subseteq grants[g].scopes

(* A consent that is submitted twice, or raced, makes one grant: the transaction is taken in one
   statement. *)
OneGrantPerConsent ==
  \A g, h \in Grant :
    grants[g] # NoGrant /\ grants[h] # NoGrant /\ grants[g].consent = grants[h].consent => g = h
=============================================================================
