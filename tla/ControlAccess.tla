---------------------------- MODULE ControlAccess ----------------------------
(***************************************************************************)
(* Who may administer what: platform authorities and blocks, Apps with     *)
(* their members, App and platform invitations, idempotency keys and the   *)
(* paged member list of the control plane.                                 *)
(*                                                                         *)
(* A request reads and decides in the service (the Start actions), then    *)
(* changes the control database in one batch.  A batch is atomic; between  *)
(* the two, other requests commit.  What the batch checks again is         *)
(* therefore all that counts.                                              *)
(***************************************************************************)
EXTENDS Integers, FiniteSets

CONSTANTS
  Account,       \* account ids, ordered
  FirstAdmin,    \* the account the deployment makes an administrator
  Request,       \* slots of concurrent requests
  App,           \* App ids that can be generated
  Invitation,    \* invitation ids that can be generated
  Key,           \* Idempotency-Key values
  Field, Value,  \* the fields of an App record that a patch may set
  InitialValue,  \* what a new App has in each of them
  None,          \* absent, belongs to none of the other sets
  InvitationTtl, KeyRetention,
  PageSize,      \* limit of a page of members
  MaxRevision,   \* bound: revisions of an App record
  MaxClock,      \* bound: last time of the model
  Workloads      \* bound: what clients do in one behaviour, see Workload

Platform == "platform"  \* the scope of platform invitations
Admin == "platform.admin"
Create == "apps.create"
Authority == {Admin, Create}
Operation == {"createApp", "patch", "remove", "invite", "transition", "accept", "authority",
              "block", "platformInvite", "platformRevoke", "platformAccept", "list"}

(* The operations clients ask for, the keys they send, and the ids that are given out. *)
Workload == [ops : SUBSET Operation, keys : SUBSET (Key \cup {None}), apps : SUBSET App,
             invitations : SUBSET Invitation]

ASSUME AccessAssumption ==
  /\ Account \subseteq Nat \ {0} /\ IsFiniteSet(Account) /\ FirstAdmin \in Account
  /\ InitialValue \in Value
  /\ InvitationTtl \in Nat \ {0} /\ KeyRetention \in Nat \ {0}
  /\ PageSize \in Nat \ {0} /\ MaxRevision \in Nat /\ MaxClock \in Nat
  /\ \A S \in {Account, App, Invitation, Key} : None \notin S
  /\ Platform \notin App
  /\ Workloads \subseteq Workload

VARIABLES
  workload,    \* what clients do, fixed
  clock,
  blocked,     \* accounts with blocked_at
  authorities, \* cas_account_platform_authorities
  apps,        \* cas_apps
  members,     \* cas_app_members
  invitations, \* cas_app_member_invitations and cas_platform_invitations
  keys,        \* the three idempotency tables
  req,         \* requests between their reads and their batch
  listing,     \* a client that pages through the members of an App
  audit        \* what the audit tables say, replayed in the order of insertion

vars == <<workload, clock, blocked, authorities, apps, members, invitations, keys, req,
          listing, audit>>

NoApp == [revision |-> 0]
NoInvitation == [status |-> "none"]

(* Who created an App or an invitation, and under which key: history. *)
Origin == [account : Account, key : Key \cup {None}]

AppRecord == [fields : [Field -> Value], revision : Nat \ {0}, origin : Origin]

InvitationRecord ==
  [scope : App \cup {Platform}, grants : SUBSET Authority,
   status : {"pending", "accepted", "revoked", "expired"}, revision : Nat,
   expiresAt : Nat, origin : Origin, admitted : SUBSET Account]

KeyRow == [scope : App \cup {Platform, "apps"}, account : Account, key : Key, expiresAt : Nat]

(* The part of an App record that a patch names. *)
Patch == UNION {[F -> Value] : F \in SUBSET Field}

NewFields == [f \in Field |-> InitialValue]
NoPatch == [f \in {} |-> InitialValue]

(* A request after its reads. *)
Idle == [op |-> "idle", actor |-> None, app |-> None, target |-> None, grants |-> {},
         on |-> FALSE, key |-> None, invitation |-> None, now |-> 0, revision |-> 0,
         patch |-> NoPatch, base |-> NewFields]

NoListing == [pc |-> "idle", actor |-> None, app |-> None, items |-> {}, page |-> {},
              more |-> FALSE, last |-> 0, current |-> FALSE]

Init ==
  /\ workload \in Workloads
  /\ clock = 1 /\ blocked = {}
  /\ authorities = [a \in Account |-> IF a = FirstAdmin THEN Authority ELSE {}]
  /\ apps = [x \in App |-> NoApp]
  /\ members = [x \in App |-> {}]
  /\ invitations = [i \in Invitation |-> NoInvitation]
  /\ keys = {}
  /\ req = [r \in Request |-> Idle]
  /\ listing = NoListing
  /\ audit = [blocked |-> blocked, authorities |-> authorities, members |-> members]

-----------------------------------------------------------------------------
(* Guards that the batches share. *)

(* requireAccountActor, requireActiveIdentity.  Every batch also requires that the login
   identity of the session is still linked; a batch that finds it unlinked is aborted,
   which Abandon covers. *)
Usable(q) == q.actor \notin blocked

(* requireAppActor *)
AppActor(q) == Usable(q) /\ q.actor \in members[q.app]

(* requirePlatformActor, requirePlatformAdmin *)
PlatformActor(q) == Usable(q) /\ Admin \in authorities[q.actor]

ActiveAdmins == {a \in Account : Admin \in authorities[a]} \ blocked

(* Mutant: the constraint covers the rows that have not expired only. *)
KeyFreeOfLive(scope, q) ==
  ~\E row \in keys : row.scope = scope /\ row.account = q.actor /\ row.key = q.key
                     /\ row.expiresAt > q.now

(* The primary key of an idempotency table; an expired row still occupies it. *)
KeyFree(scope, q) ==
  ~\E row \in keys : row.scope = scope /\ row.account = q.actor /\ row.key = q.key

(* What a request finds when it looks its key up. *)
KeyLive(scope, a, k) ==
  \E row \in keys : row.scope = scope /\ row.account = a /\ row.key = k /\ row.expiresAt > clock

KeyRowOf(scope, q, expiresAt) ==
  IF q.key = None THEN {}
  ELSE {[scope |-> scope, account |-> q.actor, key |-> q.key, expiresAt |-> expiresAt]}

OriginOf(q) == [account |-> q.actor, key |-> q.key]

(* The fields of a record after a patch. *)
Over(patch, fields) ==
  [f \in Field |-> IF f \in DOMAIN patch THEN patch[f] ELSE fields[f]]

(* The batch advances the control snapshot, so that no cursor in use matches it. *)
AdvanceSnapshot == listing' = [listing EXCEPT !.current = FALSE]

(* A request arrives, passes the checks of the service and is about to send its batch. *)
Receive(r, op, q) ==
  /\ req[r] = Idle /\ op \in workload.ops
  /\ req' = [req EXCEPT ![r] = [q EXCEPT !.op = op]]
  /\ UNCHANGED <<workload, clock, blocked, authorities, apps, members, invitations, keys,
                 listing, audit>>

Committing(r, op) ==
  /\ req[r].op = op
  /\ req' = [req EXCEPT ![r] = Idle]
  /\ UNCHANGED <<workload, clock>>

-----------------------------------------------------------------------------
(* Apps. *)

StartCreateApp(r) == \E a \in Account \ blocked, k \in workload.keys :
  /\ Create \in authorities[a]
  /\ ~KeyLive("apps", a, k)
  /\ Receive(r, "createApp", [Idle EXCEPT !.actor = a, !.key = k, !.now = clock])

NewApp(q) ==
  [fields |-> NewFields, revision |-> 1, origin |-> OriginOf(q)]

CreateApp(r) == LET q == req[r] IN
  /\ Committing(r, "createApp")
  /\ Usable(q) /\ Create \in authorities[q.actor]
  /\ KeyFree("apps", q)
  /\ \E x \in workload.apps :
       /\ apps[x] = NoApp
       /\ apps' = [apps EXCEPT ![x] = NewApp(q)]
       /\ members' = [members EXCEPT ![x] = {q.actor}]
       /\ audit' = [audit EXCEPT !.members[x] = {q.actor}]
  /\ keys' = keys \cup KeyRowOf("apps", q, q.now + KeyRetention)
  /\ AdvanceSnapshot
  /\ UNCHANGED <<blocked, authorities, invitations>>

(* patchApp: If-Match is the current revision, and the patch changes something. *)
StartPatch(r) == \E a \in Account \ blocked, x \in App, p \in Patch :
  /\ apps[x] # NoApp /\ a \in members[x]
  /\ apps[x].revision < MaxRevision
  /\ Over(p, apps[x].fields) # apps[x].fields
  /\ Receive(r, "patch", [Idle EXCEPT !.actor = a, !.app = x, !.patch = p,
                            !.base = apps[x].fields, !.revision = apps[x].revision])

(* Mutant: the revision that was read is not compared again. *)
PatchCurrentUnfenced(q) == q.actor \in members[q.app]

(* requireCurrent of commitPatchAccountApp, which does not look at blocked_at. *)
PatchCurrent(q) ==
  /\ q.actor \in members[q.app]
  /\ apps[q.app].revision = q.revision

PatchApp(r) == LET q == req[r] IN
  /\ Committing(r, "patch")
  /\ PatchCurrent(q)
  /\ apps' = [apps EXCEPT ![q.app].fields = Over(q.patch, q.base),
                          ![q.app].revision = q.revision + 1]
  /\ AdvanceSnapshot
  /\ UNCHANGED <<blocked, authorities, members, invitations, keys, audit>>

StartRemove(r) == \E a \in Account \ blocked, t \in Account, x \in App :
  /\ apps[x] # NoApp
  /\ Receive(r, "remove", [Idle EXCEPT !.actor = a, !.target = t, !.app = x])

(* Mutant: the count may fall to the one that is removed. *)
RemainingMemberOffByOne(q) ==
  q.target \notin members[q.app] \/ Cardinality(members[q.app]) > 0

(* requireRemainingMember *)
RemainingMember(q) ==
  q.target \notin members[q.app] \/ Cardinality(members[q.app]) > 1

(* requireActor of commitRemoveAppMembership, which does not look at blocked_at. *)
RemoveAllowed(q) == q.actor \in members[q.app] /\ RemainingMember(q)

(* Mutant: the audit row is selected after the deletion, and finds nothing. *)
AuditRemovalAfterDelete(q) == audit

(* The audit row is selected from the membership, before that is deleted. *)
AuditRemoval(q) ==
  IF q.target \in members[q.app]
  THEN [audit EXCEPT !.members[q.app] = @ \ {q.target}]
  ELSE audit

(* Mutant: the removal leaves the snapshot as it is. *)
AdvanceIfRemovedNever(q) == UNCHANGED listing

(* UPDATE ... WHERE changes() = 1 *)
AdvanceIfRemoved(q) ==
  IF q.target \in members[q.app] THEN AdvanceSnapshot ELSE UNCHANGED listing

RemoveMember(r) == LET q == req[r] IN
  /\ Committing(r, "remove")
  /\ RemoveAllowed(q)
  /\ members' = [members EXCEPT ![q.app] = @ \ {q.target}]
  /\ audit' = AuditRemoval(q)
  /\ AdvanceIfRemoved(q)
  /\ UNCHANGED <<blocked, authorities, apps, invitations, keys>>

-----------------------------------------------------------------------------
(* Invitations. *)

NewInvitation(q, scope) ==
  [scope |-> scope, grants |-> q.grants, status |-> "pending", revision |-> 1,
   expiresAt |-> q.now + InvitationTtl, origin |-> OriginOf(q), admitted |-> {}]

(* The batch of either creation, after its guard. *)
InsertInvitation(q, scope, retention) ==
  /\ KeyFree(scope, q)
  /\ \E i \in workload.invitations :
       /\ invitations[i] = NoInvitation
       /\ invitations' = [invitations EXCEPT ![i] = NewInvitation(q, scope)]
  /\ keys' = keys \cup KeyRowOf(scope, q, q.now + retention)
  /\ AdvanceSnapshot
  /\ UNCHANGED <<blocked, authorities, apps, members, audit>>

StartInvite(r) == \E a \in Account \ blocked, x \in App, k \in workload.keys :
  /\ a \in members[x]
  /\ ~KeyLive(x, a, k)
  /\ Receive(r, "invite", [Idle EXCEPT !.actor = a, !.app = x, !.key = k, !.now = clock])

InviteMember(r) == LET q == req[r] IN
  /\ Committing(r, "invite")
  /\ AppActor(q)
  /\ InsertInvitation(q, q.app, KeyRetention)

StartPlatformInvite(r) ==
  \E a \in Account \ blocked, k \in workload.keys \ {None}, g \in SUBSET Authority \ {{}} :
    /\ Admin \in authorities[a]
    /\ ~KeyLive(Platform, a, k)
    /\ Receive(r, "platformInvite",
         [Idle EXCEPT !.actor = a, !.key = k, !.grants = g, !.now = clock])

InvitePlatform(r) == LET q == req[r] IN
  /\ Committing(r, "platformInvite")
  /\ PlatformActor(q)
  /\ InsertInvitation(q, Platform, InvitationTtl)

Pending(i) == invitations[i].status = "pending"
Unexpired(i, now) == invitations[i].expiresAt > now

(* Mutant: an acceptance trusts the status that was read before. *)
ClaimableUnexpired(i, now) == invitations[i] # NoInvitation /\ Unexpired(i, now)

(* The WHERE clause of an acceptance. *)
Claimable(i, now) == Pending(i) /\ Unexpired(i, now)

Settle(i, status) ==
  invitations' = [invitations EXCEPT ![i].status = status, ![i].revision = @ + 1]

(* The invitation is revoked, or a listing or a late revocation marks it expired (on is
   FALSE): both are fenced by the revision that was read. *)
StartTransition(r) == \E a \in Account \ blocked, i \in Invitation :
  /\ Pending(i) /\ invitations[i].scope \in App
  /\ a \in members[invitations[i].scope]
  /\ Receive(r, "transition",
       [Idle EXCEPT !.actor = a, !.app = invitations[i].scope, !.invitation = i,
          !.revision = invitations[i].revision, !.on = Unexpired(i, clock), !.now = clock])

TransitionInvitation(r) == LET q == req[r] IN
  /\ Committing(r, "transition")
  /\ AppActor(q)
  /\ Pending(q.invitation) /\ invitations[q.invitation].revision = q.revision
  /\ q.on = Unexpired(q.invitation, q.now)
  /\ Settle(q.invitation, IF q.on THEN "revoked" ELSE "expired")
  /\ AdvanceSnapshot
  /\ UNCHANGED <<blocked, authorities, apps, members, keys, audit>>

StartPlatformRevoke(r) == \E a \in Account \ blocked, i \in Invitation :
  /\ Admin \in authorities[a]
  /\ Claimable(i, clock) /\ invitations[i].scope = Platform
  /\ Receive(r, "platformRevoke",
       [Idle EXCEPT !.actor = a, !.invitation = i, !.revision = invitations[i].revision,
          !.now = clock])

(* The clock is read again for the batch, here and in the acceptance. *)
RevokePlatform(r) == LET q == req[r] IN
  /\ Committing(r, "platformRevoke")
  /\ PlatformActor(q)
  /\ \E now \in q.now .. clock : Claimable(q.invitation, now)
  /\ invitations[q.invitation].revision = q.revision
  /\ Settle(q.invitation, "revoked")
  /\ AdvanceSnapshot
  /\ UNCHANGED <<blocked, authorities, apps, members, keys, audit>>

StartMembershipAcceptance(r, a, i) ==
  /\ invitations[i].scope \in App
  /\ Receive(r, "accept", [Idle EXCEPT !.actor = a, !.invitation = i,
                             !.app = invitations[i].scope, !.now = clock])

StartPlatformAcceptance(r, a, i) ==
  /\ invitations[i].scope = Platform
  /\ Receive(r, "platformAccept", [Idle EXCEPT !.actor = a, !.invitation = i,
                                     !.grants = invitations[i].grants, !.now = clock])

StartAccept(r) == \E a \in Account \ blocked, i \in Invitation :
  /\ Claimable(i, clock)
  /\ StartMembershipAcceptance(r, a, i) \/ StartPlatformAcceptance(r, a, i)

Claim(q) ==
  invitations' = [invitations EXCEPT
    ![q.invitation].status = "accepted", ![q.invitation].revision = @ + 1,
    ![q.invitation].admitted = @ \cup {q.actor}]

AcceptMembership(r) == LET q == req[r] IN
  /\ Committing(r, "accept")
  /\ Usable(q) /\ Claimable(q.invitation, q.now)
  /\ Claim(q)
  /\ members' = [members EXCEPT ![q.app] = @ \cup {q.actor}]
  /\ audit' = [audit EXCEPT !.members[q.app] = @ \cup {q.actor}]
  /\ AdvanceSnapshot
  /\ UNCHANGED <<blocked, authorities, apps, keys>>

AcceptPlatform(r) == LET q == req[r] IN
  /\ Committing(r, "platformAccept")
  /\ Usable(q) /\ \E now \in q.now .. clock : Claimable(q.invitation, now)
  /\ Claim(q)
  /\ authorities' = [authorities EXCEPT ![q.actor] = @ \cup q.grants]
  /\ audit' = [audit EXCEPT !.authorities[q.actor] = @ \cup q.grants]
  /\ AdvanceSnapshot
  /\ UNCHANGED <<blocked, apps, members, keys>>

-----------------------------------------------------------------------------
(* Platform authorities and blocks. *)

StartSetAuthority(r) ==
  \E a \in Account \ blocked, t \in Account, g \in Authority, on \in BOOLEAN :
    /\ Admin \in authorities[a]
    /\ Receive(r, "authority",
         [Idle EXCEPT !.actor = a, !.target = t, !.grants = {g}, !.on = on])

(* Mutant: blocked administrators count as remaining ones. *)
RemainingAdminCountsBlocked(q) ==
  \/ q.on \/ Admin \notin q.grants
  \/ Admin \notin authorities[q.target] \/ q.target \in blocked
  \/ Cardinality({a \in Account : Admin \in authorities[a]}) > 1

(* requireRemainingAdmin of commitPlatformAuthority *)
RemainingAdmin(q) ==
  \/ q.on \/ Admin \notin q.grants
  \/ Admin \notin authorities[q.target] \/ q.target \in blocked
  \/ Cardinality(ActiveAdmins) > 1

(* The authorities of the target afterwards. *)
Changed(q) ==
  IF q.on THEN authorities[q.target] \cup q.grants ELSE authorities[q.target] \ q.grants

(* The audit row is written only when the authority is not held, or held, yet; the change
   and the advance of the snapshot follow from the audit row. *)
SetAuthority(r) == LET q == req[r] IN
  /\ Committing(r, "authority")
  /\ PlatformActor(q) /\ RemainingAdmin(q)
  /\ authorities' = [authorities EXCEPT ![q.target] = Changed(q)]
  /\ audit' = [audit EXCEPT !.authorities[q.target] =
                 IF q.on THEN @ \cup q.grants ELSE @ \ q.grants]
  /\ IF Changed(q) # authorities[q.target] THEN AdvanceSnapshot ELSE UNCHANGED listing
  /\ UNCHANGED <<blocked, apps, members, invitations, keys>>

StartSetBlocked(r) == \E a \in Account \ blocked, t \in Account, on \in BOOLEAN :
  /\ Admin \in authorities[a]
  /\ Receive(r, "block", [Idle EXCEPT !.actor = a, !.target = t, !.on = on])

(* requireNotSelf and requireRemainingAdmin of commitPlatformBlock *)
MayBlock(q) ==
  \/ ~q.on
  \/ /\ q.actor # q.target
     /\ \/ q.target \in blocked \/ Admin \notin authorities[q.target]
        \/ Cardinality(ActiveAdmins) > 1

SetBlocked(r) == LET q == req[r] IN
  /\ Committing(r, "block")
  /\ PlatformActor(q) /\ MayBlock(q)
  /\ blocked' = IF q.on THEN blocked \cup {q.target} ELSE blocked \ {q.target}
  /\ audit' = [audit EXCEPT !.blocked = IF q.on THEN @ \cup {q.target} ELSE @ \ {q.target}]
  /\ IF q.on = (q.target \in blocked) THEN UNCHANGED listing ELSE AdvanceSnapshot
  /\ UNCHANGED <<authorities, apps, members, invitations, keys>>

-----------------------------------------------------------------------------
(* The paged member list.  current says whether the snapshot in the cursor, or the one read
   first, is still the one of the database. *)

Lists(l) ==
  /\ listing' = l
  /\ UNCHANGED <<workload, clock, blocked, authorities, apps, members, invitations, keys, req,
                 audit>>

StartList == \E a \in Account, x \in App :
  /\ listing = NoListing /\ "list" \in workload.ops
  /\ a \notin blocked /\ a \in members[x]
  /\ Lists([NoListing EXCEPT !.pc = "rows", !.actor = a, !.app = x, !.current = TRUE])

(* The next page is a request of its own: same checks, and the cursor's snapshot. *)
NextPage ==
  /\ listing.pc = "page"
  /\ listing.actor \notin blocked /\ listing.actor \in members[listing.app]
  /\ listing.current
  /\ Lists([listing EXCEPT !.pc = "rows"])

After(x, last) == {m \in members[x] : m > last}

(* The first PageSize rows; one more is asked for, to know whether there is a next page. *)
FirstPage(rows) == {m \in rows : Cardinality({n \in rows : n < m}) < PageSize}

ReadRows ==
  /\ listing.pc = "rows"
  /\ LET rows == After(listing.app, listing.last) IN
     Lists([listing EXCEPT !.pc = "recheck", !.page = FirstPage(rows),
                           !.more = Cardinality(rows) > PageSize])

(* The snapshot is read again; the page is answered if it has not moved. *)
DeliverPage ==
  /\ listing.pc = "recheck" /\ listing.current
  /\ \E last \in listing.page \cup {listing.last} :
       /\ \A m \in listing.page : m <= last
       /\ Lists([listing EXCEPT !.pc = IF listing.more THEN "page" ELSE "listed",
                   !.items = @ \cup listing.page, !.page = {}, !.last = last])

(* INVALID_CURSOR, a refusal, or a client that reads no further. *)
EndList == listing # NoListing /\ Lists(NoListing)

-----------------------------------------------------------------------------
(* The request ends without effect: its batch is aborted by a guard or a constraint, its
   worker dies before sending it, or it has told why it was refused. *)
Abandon(r) ==
  /\ req[r] # Idle
  /\ req' = [req EXCEPT ![r] = Idle]
  /\ UNCHANGED <<workload, clock, blocked, authorities, apps, members, invitations, keys,
                 listing, audit>>

Tick ==
  /\ clock < MaxClock /\ clock' = clock + 1
  /\ UNCHANGED <<workload, blocked, authorities, apps, members, invitations, keys, req,
                 listing, audit>>

Starts(r) ==
  \/ StartCreateApp(r) \/ StartPatch(r) \/ StartRemove(r)
  \/ StartInvite(r) \/ StartPlatformInvite(r) \/ StartTransition(r)
  \/ StartPlatformRevoke(r) \/ StartAccept(r)
  \/ StartSetAuthority(r) \/ StartSetBlocked(r)

Batch(r) ==
  \/ CreateApp(r) \/ PatchApp(r) \/ RemoveMember(r)
  \/ InviteMember(r) \/ InvitePlatform(r) \/ TransitionInvitation(r)
  \/ RevokePlatform(r) \/ AcceptMembership(r) \/ AcceptPlatform(r)
  \/ SetAuthority(r) \/ SetBlocked(r)

Next ==
  \/ \E r \in Request :
       Starts(r) \/ Batch(r) \/ Abandon(r)
  \/ StartList \/ NextPage \/ ReadRows \/ DeliverPage \/ EndList
  \/ Tick

Spec == Init /\ [][Next]_vars
-----------------------------------------------------------------------------
(* The types of the tables, of the requests between reads and batch, and of the listing. *)
RequestState ==
  [op : Operation \cup {"idle"}, actor : Account \cup {None},
   app : App \cup {None}, target : Account \cup {None}, grants : SUBSET Authority,
   on : BOOLEAN, key : Key \cup {None}, invitation : Invitation \cup {None}, now : Nat,
   revision : Nat, patch : Patch, base : [Field -> Value]]

ListingState ==
  [pc : {"idle", "rows", "recheck", "page", "listed"}, actor : Account \cup {None},
   app : App \cup {None}, items : SUBSET Account, page : SUBSET Account, more : BOOLEAN,
   last : Nat, current : BOOLEAN]

TypeOK ==
  /\ workload \in Workloads /\ clock \in Nat
  /\ blocked \subseteq Account
  /\ authorities \in [Account -> SUBSET Authority]
  /\ apps \in [App -> AppRecord \cup {NoApp}]
  /\ members \in [App -> SUBSET Account]
  /\ invitations \in [Invitation -> InvitationRecord \cup {NoInvitation}]
  /\ keys \subseteq KeyRow
  /\ req \in [Request -> RequestState]
  /\ listing \in ListingState

(* However removals, acceptances and blocks interleave, an App that was created has a
   member (commitRemoveAppMembership counts in the batch that deletes). *)
AppKeepsMember == \A x \in App : apps[x] # NoApp => members[x] # {}

(* However authorities are revoked and accounts are blocked, somebody who is not blocked
   can administer the platform. *)
PlatformKeepsAdmin == ActiveAdmins # {}

(* Neither an App nor the platform is left without somebody who can administer it. *)
AuthorityKept == AppKeepsMember /\ PlatformKeepsAdmin

(* Requests repeated with the same key, at once or after the key's retention, create one
   App and, per scope, one invitation. *)
CreatedOncePerKey ==
  /\ \A x, y \in App :
       /\ apps[x] # NoApp /\ apps[y] # NoApp
       /\ apps[x].origin = apps[y].origin /\ apps[x].origin.key # None
       => x = y
  /\ \A i, j \in Invitation :
       /\ invitations[i] # NoInvitation /\ invitations[j] # NoInvitation
       /\ invitations[i].scope = invitations[j].scope
       /\ invitations[i].origin = invitations[j].origin /\ invitations[i].origin.key # None
       => i = j

(* An invitation admits one account at most, and none when it was revoked or expired,
   whatever acceptances and revocations were decided on before the first batch. *)
InvitationSingleUse ==
  \A i \in Invitation : invitations[i] # NoInvitation =>
    /\ Cardinality(invitations[i].admitted) <= 1
    /\ invitations[i].status = "accepted" <=> invitations[i].admitted # {}

(* What is meant to happen once happens once, however often it is asked for: a creation
   under a key, and the admission by an invitation. *)
SingleUse == CreatedOncePerKey /\ InvitationSingleUse

(* A patch changes the fields it names and no others: no patch undoes another one that was
   committed after its record was read. *)
PatchKeepsOtherFields ==
  [][\A x \in App : apps[x] # NoApp /\ apps'[x] # apps[x] =>
       \E r \in Request :
         /\ req[r].op = "patch" /\ req[r].app = x
         /\ apps'[x].fields = Over(req[r].patch, apps[x].fields)
         /\ apps'[x].revision = apps[x].revision + 1]_vars

(* The pages of a listing that was completed under one snapshot are the members of the App
   at one moment: none missing, none too many. *)
ListingIsWhole ==
  listing.pc = "listed" /\ listing.current => listing.items = members[listing.app]

(* Replaying the audit rows gives the members, authorities and blocks that are in force:
   the conditions under which rows and changes are written agree. *)
AuditReplays ==
  audit = [blocked |-> blocked, authorities |-> authorities, members |-> members]
=============================================================================
