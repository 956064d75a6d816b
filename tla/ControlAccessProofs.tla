------------------------ MODULE ControlAccessProofs ------------------------
(* Theorems about ControlAccess, for any number of accounts, Apps, invitations, keys and
   concurrent requests, and for clients that use all operations together. *)
EXTENDS ControlAccess, FiniteSetTheorems, TLAPS

(* A request holds what its batch is about to use. *)
RequestShape(q) ==
  /\ q.op # "idle" => q.actor \in Account
  /\ q.op \in {"patch", "remove", "invite", "transition", "accept"} =>
       q.app \in App
  /\ q.op \in {"remove", "authority", "block"} => q.target \in Account
  /\ q.op \in {"transition", "platformRevoke", "accept", "platformAccept"} =>
       q.invitation \in Invitation
  /\ q.op = "patch" => q.revision # 0

(* So does a listing. *)
ListingShape(l) == l.pc # "idle" => l.app \in App

Shape ==
  /\ TypeOK
  /\ \A r \in Request : RequestShape(req[r])
  /\ ListingShape(listing)

(* The tables that batches change. *)
tables == <<blocked, authorities, apps, members, invitations, keys, audit>>

-----------------------------------------------------------------------------
(* Steps. *)

LEMMA IdleShape == Idle \in RequestState /\ RequestShape(Idle)
<1>1. NoPatch \in Patch
  <2>1. NoPatch \in [{} -> Value]
    BY DEF NoPatch
  <2> QED BY <2>1 DEF Patch
<1>2. NewFields \in [Field -> Value]
  BY AccessAssumption DEF NewFields, AccessAssumption
<1> QED BY <1>1, <1>2 DEF Idle, RequestState, RequestShape

LEMMA ReceiveShape ==
  ASSUME Shape, NEW r \in Request, NEW op \in Operation, NEW q \in RequestState,
         RequestShape([q EXCEPT !.op = op]), Receive(r, op, q)
  PROVE  Shape' /\ UNCHANGED tables
<1>1. [q EXCEPT !.op = op] \in RequestState
  BY DEF RequestState
<1>2. req' \in [Request -> RequestState]
  BY <1>1 DEF Receive, Shape, TypeOK
<1> QED BY <1>1, <1>2 DEF Receive, Shape, TypeOK, tables

(* A pending invitation has all its columns. *)
LEMMA PendingRecord ==
  ASSUME TypeOK, NEW i \in Invitation, Pending(i)
  PROVE  invitations[i] \in InvitationRecord
BY DEF TypeOK, Pending, NoInvitation

(* An App with members in the table has all its columns. *)
LEMMA AppWithRevision ==
  ASSUME TypeOK, NEW x \in App, apps[x] # NoApp
  PROVE  apps[x] \in AppRecord
BY DEF TypeOK

LEMMA StartsShape ==
  ASSUME Shape, NEW r \in Request, Starts(r)
  PROVE  Shape' /\ UNCHANGED tables
<1> USE IdleShape
<1>0. TypeOK /\ workload.keys \subseteq Key \cup {None} /\ clock \in Nat
  BY AccessAssumption DEF Shape, TypeOK, AccessAssumption, Workload
<1>1. CASE StartCreateApp(r)
  <2> PICK a \in Account \ blocked, k \in workload.keys :
        Receive(r, "createApp", [Idle EXCEPT !.actor = a, !.key = k, !.now = clock])
    BY <1>1 DEF StartCreateApp
  <2> DEFINE q == [Idle EXCEPT !.actor = a, !.key = k, !.now = clock]
  <2>1. q \in RequestState /\ RequestShape([q EXCEPT !.op = "createApp"])
    BY <1>0 DEF RequestState, RequestShape, Idle
  <2> QED BY <2>1, ReceiveShape DEF Operation
<1>2. CASE StartPatch(r)
  <2> PICK a \in Account \ blocked, x \in App, p \in Patch :
        /\ apps[x] # NoApp
        /\ Receive(r, "patch", [Idle EXCEPT !.actor = a, !.app = x, !.patch = p,
             !.base = apps[x].fields, !.revision = apps[x].revision])
    BY <1>2 DEF StartPatch
  <2> DEFINE q == [Idle EXCEPT !.actor = a, !.app = x, !.patch = p,
             !.base = apps[x].fields, !.revision = apps[x].revision]
  <2>0. apps[x] \in AppRecord
    BY <1>0, AppWithRevision
  <2>1. q \in RequestState /\ RequestShape([q EXCEPT !.op = "patch"])
    BY <1>0, <2>0 DEF RequestState, RequestShape, Idle, AppRecord
  <2> QED BY <2>1, ReceiveShape DEF Operation
<1>3. CASE StartRemove(r)
  <2> PICK a \in Account \ blocked, t \in Account, x \in App :
        Receive(r, "remove", [Idle EXCEPT !.actor = a, !.target = t, !.app = x])
    BY <1>3 DEF StartRemove
  <2> DEFINE q == [Idle EXCEPT !.actor = a, !.target = t, !.app = x]
  <2>1. q \in RequestState /\ RequestShape([q EXCEPT !.op = "remove"])
    BY <1>0 DEF RequestState, RequestShape, Idle
  <2> QED BY <2>1, ReceiveShape DEF Operation
<1>4. CASE StartInvite(r)
  <2> PICK a \in Account \ blocked, x \in App, k \in workload.keys :
        Receive(r, "invite", [Idle EXCEPT !.actor = a, !.app = x, !.key = k, !.now = clock])
    BY <1>4 DEF StartInvite
  <2> DEFINE q == [Idle EXCEPT !.actor = a, !.app = x, !.key = k, !.now = clock]
  <2>1. q \in RequestState /\ RequestShape([q EXCEPT !.op = "invite"])
    BY <1>0 DEF RequestState, RequestShape, Idle
  <2> QED BY <2>1, ReceiveShape DEF Operation
<1>5. CASE StartPlatformInvite(r)
  <2> PICK a \in Account \ blocked, k \in workload.keys \ {None}, g \in SUBSET Authority \ {{}} :
        Receive(r, "platformInvite", [Idle EXCEPT !.actor = a, !.key = k, !.grants = g, !.now = clock])
    BY <1>5 DEF StartPlatformInvite
  <2> DEFINE q == [Idle EXCEPT !.actor = a, !.key = k, !.grants = g, !.now = clock]
  <2>1. q \in RequestState /\ RequestShape([q EXCEPT !.op = "platformInvite"])
    BY <1>0 DEF RequestState, RequestShape, Idle
  <2> QED BY <2>1, ReceiveShape DEF Operation
<1>6. CASE StartTransition(r)
  <2> PICK a \in Account \ blocked, i \in Invitation :
        /\ Pending(i) /\ invitations[i].scope \in App
        /\ Receive(r, "transition", [Idle EXCEPT !.actor = a, !.app = invitations[i].scope, !.invitation = i,
             !.revision = invitations[i].revision, !.on = Unexpired(i, clock), !.now = clock])
    BY <1>6 DEF StartTransition
  <2> DEFINE q == [Idle EXCEPT !.actor = a, !.app = invitations[i].scope, !.invitation = i,
             !.revision = invitations[i].revision, !.on = Unexpired(i, clock), !.now = clock]
  <2>0. invitations[i] \in InvitationRecord
    BY <1>0, PendingRecord
  <2>a. Unexpired(i, clock) \in BOOLEAN
    BY DEF Unexpired
  <2>1. q \in RequestState /\ RequestShape([q EXCEPT !.op = "transition"])
    BY <1>0, <2>0, <2>a DEF RequestState, RequestShape, Idle, InvitationRecord
  <2> QED BY <2>1, ReceiveShape DEF Operation
<1>7. CASE StartPlatformRevoke(r)
  <2> PICK a \in Account \ blocked, i \in Invitation :
        /\ Claimable(i, clock)
        /\ Receive(r, "platformRevoke", [Idle EXCEPT !.actor = a, !.invitation = i, !.revision = invitations[i].revision,
             !.now = clock])
    BY <1>7 DEF StartPlatformRevoke
  <2> DEFINE q == [Idle EXCEPT !.actor = a, !.invitation = i, !.revision = invitations[i].revision,
             !.now = clock]
  <2>0. invitations[i] \in InvitationRecord
    BY <1>0, PendingRecord DEF Claimable
  <2>1. q \in RequestState /\ RequestShape([q EXCEPT !.op = "platformRevoke"])
    BY <1>0, <2>0 DEF RequestState, RequestShape, Idle, InvitationRecord
  <2> QED BY <2>1, ReceiveShape DEF Operation
<1>8. CASE StartAccept(r)
  <2> PICK a \in Account \ blocked, i \in Invitation :
        /\ Claimable(i, clock)
        /\ \/ /\ invitations[i].scope \in App
              /\ Receive(r, "accept", [Idle EXCEPT !.actor = a, !.invitation = i,
                   !.app = invitations[i].scope, !.now = clock])
           \/ Receive(r, "platformAccept", [Idle EXCEPT !.actor = a, !.invitation = i,
                   !.grants = invitations[i].grants, !.now = clock])
    BY <1>8 DEF StartAccept, StartMembershipAcceptance, StartPlatformAcceptance
  <2> DEFINE q == [Idle EXCEPT !.actor = a, !.invitation = i, !.app = invitations[i].scope,
                     !.now = clock]
             p == [Idle EXCEPT !.actor = a, !.invitation = i,
                     !.grants = invitations[i].grants, !.now = clock]
  <2>0. invitations[i] \in InvitationRecord
    BY <1>0, PendingRecord DEF Claimable
  <2>1. CASE invitations[i].scope \in App /\ Receive(r, "accept", q)
    <3>1. q \in RequestState /\ RequestShape([q EXCEPT !.op = "accept"])
      BY <1>0, <2>0, <2>1 DEF RequestState, RequestShape, Idle, InvitationRecord
    <3> QED BY <2>1, <3>1, ReceiveShape DEF Operation
  <2>2. CASE Receive(r, "platformAccept", p)
    <3>1. p \in RequestState /\ RequestShape([p EXCEPT !.op = "platformAccept"])
      BY <1>0, <2>0 DEF RequestState, RequestShape, Idle, InvitationRecord
    <3> QED BY <2>2, <3>1, ReceiveShape DEF Operation
  <2> QED BY <2>1, <2>2
<1>9. CASE StartSetAuthority(r)
  <2> PICK a \in Account \ blocked, t \in Account, g \in Authority, on \in BOOLEAN :
        Receive(r, "authority", [Idle EXCEPT !.actor = a, !.target = t, !.grants = {g}, !.on = on])
    BY <1>9 DEF StartSetAuthority
  <2> DEFINE q == [Idle EXCEPT !.actor = a, !.target = t, !.grants = {g}, !.on = on]
  <2>1. q \in RequestState /\ RequestShape([q EXCEPT !.op = "authority"])
    BY <1>0 DEF RequestState, RequestShape, Idle
  <2> QED BY <2>1, ReceiveShape DEF Operation
<1>10. CASE StartSetBlocked(r)
  <2> PICK a \in Account \ blocked, t \in Account, on \in BOOLEAN :
        Receive(r, "block", [Idle EXCEPT !.actor = a, !.target = t, !.on = on])
    BY <1>10 DEF StartSetBlocked
  <2> DEFINE q == [Idle EXCEPT !.actor = a, !.target = t, !.on = on]
  <2>1. q \in RequestState /\ RequestShape([q EXCEPT !.op = "block"])
    BY <1>0 DEF RequestState, RequestShape, Idle
  <2> QED BY <2>1, ReceiveShape DEF Operation
<1> QED BY <1>1, <1>2, <1>3, <1>4, <1>5, <1>6, <1>7, <1>8, <1>9, <1>10 DEF Starts

LEMMA ListsShape ==
  ASSUME Shape, NEW l \in ListingState, ListingShape(l), Lists(l)
  PROVE  Shape' /\ UNCHANGED tables
BY DEF Lists, Shape, TypeOK, tables, ListingShape

ListStep == StartList \/ NextPage \/ ReadRows \/ DeliverPage \/ EndList

LEMMA ListStepShape ==
  ASSUME Shape, ListStep
  PROVE  Shape' /\ UNCHANGED tables
<1>0. /\ listing \in ListingState /\ ListingShape(listing)
      /\ members \in [App -> SUBSET Account] /\ Account \subseteq Nat
  BY AccessAssumption DEF Shape, TypeOK, AccessAssumption
<1>1. CASE StartList
  <2> PICK a \in Account, x \in App :
        Lists([NoListing EXCEPT !.pc = "rows", !.actor = a, !.app = x, !.current = TRUE])
    BY <1>1 DEF StartList
  <2> DEFINE l == [NoListing EXCEPT !.pc = "rows", !.actor = a, !.app = x, !.current = TRUE]
  <2>1. l \in ListingState /\ ListingShape(l)
    BY DEF NoListing, ListingState, ListingShape
  <2> QED BY <2>1, ListsShape
<1>2. CASE NextPage
  <2>1. [listing EXCEPT !.pc = "rows"] \in ListingState
        /\ ListingShape([listing EXCEPT !.pc = "rows"])
    BY <1>0, <1>2 DEF ListingState, ListingShape, NextPage
  <2> QED BY <1>2, <2>1, ListsShape DEF NextPage
<1>3. CASE ReadRows
  <2> DEFINE rows == After(listing.app, listing.last)
             more == Cardinality(rows) > PageSize
             l == [listing EXCEPT !.pc = "recheck", !.page = FirstPage(rows), !.more = more]
  <2>1. listing.app \in App
    BY <1>0, <1>3 DEF ReadRows, ListingShape
  <2>2. FirstPage(rows) \in SUBSET Account
    BY <1>0, <2>1 DEF After, FirstPage
  <2>3. more \in BOOLEAN
    OBVIOUS
  <2>4. Lists(l)
    BY <1>3 DEF ReadRows
  <2> HIDE DEF rows, more
  <2>5. l \in ListingState /\ ListingShape(l)
    BY <1>0, <2>1, <2>2, <2>3 DEF ListingState, ListingShape
  <2> QED BY <2>4, <2>5, ListsShape
<1>4. CASE DeliverPage
  <2> PICK last \in listing.page \cup {listing.last} :
        Lists([listing EXCEPT !.pc = IF listing.more THEN "page" ELSE "listed",
                 !.items = @ \cup listing.page, !.page = {}, !.last = last])
    BY <1>4 DEF DeliverPage
  <2> DEFINE l == [listing EXCEPT !.pc = IF listing.more THEN "page" ELSE "listed",
                     !.items = listing.items \cup listing.page, !.page = {}, !.last = last]
  <2>1. l \in ListingState /\ ListingShape(l)
    BY <1>0, <1>4 DEF ListingState, ListingShape, DeliverPage
  <2>2. Lists(l)
    BY <1>0 DEF ListingState
  <2> QED BY <2>1, <2>2, ListsShape
<1>5. CASE EndList
  <2>1. NoListing \in ListingState /\ ListingShape(NoListing)
    BY DEF NoListing, ListingState, ListingShape
  <2> QED BY <1>5, <2>1, ListsShape DEF EndList
<1> QED BY <1>1, <1>2, <1>3, <1>4, <1>5 DEF ListStep

(* The steps that leave the tables alone. *)
QuietStep ==
  \/ \E r \in Request : Starts(r) \/ Abandon(r)
  \/ ListStep \/ Tick \/ UNCHANGED vars

LEMMA QuietShape ==
  ASSUME Shape, QuietStep
  PROVE  Shape' /\ UNCHANGED tables
<1>1. ASSUME NEW r \in Request, Abandon(r)
      PROVE  Shape' /\ UNCHANGED tables
  <2>1. req' \in [Request -> RequestState] /\ \A t \in Request : RequestShape(req'[t])
    BY <1>1, IdleShape DEF Abandon, Shape, TypeOK
  <2> QED BY <1>1, <2>1 DEF Abandon, Shape, TypeOK, tables, ListingShape
<1>2. CASE Tick
  BY <1>2, AccessAssumption DEF Tick, Shape, TypeOK, tables, ListingShape, AccessAssumption
<1>3. CASE UNCHANGED vars
  BY <1>3 DEF vars, Shape, TypeOK, tables, ListingShape
<1> QED BY <1>1, <1>2, <1>3, StartsShape, ListStepShape DEF QuietStep

-----------------------------------------------------------------------------
(* Batches keep the shape of the tables. *)

(* The part of Shape that is not about tables. *)
RestShape ==
  /\ workload \in Workloads /\ clock \in Nat
  /\ req \in [Request -> RequestState]
  /\ \A r \in Request : RequestShape(req[r])
  /\ listing \in ListingState /\ ListingShape(listing)

LEMMA CommittingShape ==
  ASSUME Shape, NEW r \in Request, NEW op, Committing(r, op), AdvanceSnapshot \/ UNCHANGED listing
  PROVE  RestShape'
<1>1. req' \in [Request -> RequestState] /\ \A t \in Request : RequestShape(req'[t])
  BY IdleShape DEF Committing, Shape, TypeOK
<1>2. listing' \in ListingState /\ ListingShape(listing')
  BY DEF AdvanceSnapshot, Shape, TypeOK, ListingState, ListingShape
<1> QED BY <1>1, <1>2 DEF RestShape, Committing, Shape, TypeOK

LEMMA OriginShape ==
  ASSUME NEW q \in RequestState, q.actor \in Account
  PROVE  OriginOf(q) \in Origin
BY DEF RequestState, OriginOf, Origin

LEMMA KeyRowShape ==
  ASSUME NEW q \in RequestState, q.actor \in Account, NEW e \in Nat,
         NEW scope \in App \cup {Platform, "apps"}
  PROVE  KeyRowOf(scope, q, e) \subseteq KeyRow
BY DEF RequestState, KeyRowOf, KeyRow

LEMMA OverShape ==
  ASSUME NEW p \in Patch, NEW f \in [Field -> Value]
  PROVE  Over(p, f) \in [Field -> Value]
<1> PICK F \in SUBSET Field : p \in [F -> Value]
  BY DEF Patch
<1> QED BY DEF Over

LEMMA PatchedShape ==
  ASSUME NEW a \in AppRecord, NEW f \in [Field -> Value], NEW n \in Nat
  PROVE  [a EXCEPT !.fields = f, !.revision = n + 1] \in AppRecord
<1>1. n + 1 \in Nat \ {0}
  OBVIOUS
<1> QED BY <1>1 DEF AppRecord

LEMMA InsertShape ==
  ASSUME Shape, NEW q \in RequestState, q.actor \in Account, NEW e \in Nat,
         NEW scope \in App \cup {Platform}, InsertInvitation(q, scope, e)
  PROVE  /\ invitations' \in [Invitation -> InvitationRecord \cup {NoInvitation}]
         /\ keys' \subseteq KeyRow
         /\ AdvanceSnapshot
         /\ UNCHANGED <<blocked, authorities, apps, members, audit>>
<1>1. NewInvitation(q, scope) \in InvitationRecord
  BY AccessAssumption, OriginShape
     DEF NewInvitation, InvitationRecord, RequestState, AccessAssumption
<1>2. KeyRowOf(scope, q, q.now + e) \subseteq KeyRow
  BY KeyRowShape DEF RequestState
<1> QED BY <1>1, <1>2 DEF InsertInvitation, Shape, TypeOK

LEMMA SettleShape ==
  ASSUME TypeOK, NEW i \in Invitation, Pending(i), NEW status \in {"revoked", "expired"},
         Settle(i, status)
  PROVE  /\ invitations' \in [Invitation -> InvitationRecord \cup {NoInvitation}]
         /\ invitations' = [invitations EXCEPT ![i] =
              [invitations[i] EXCEPT !.status = status, !.revision = @ + 1]]
BY PendingRecord DEF TypeOK, Settle, InvitationRecord

LEMMA ClaimShape ==
  ASSUME TypeOK, NEW q, q.invitation \in Invitation, q.actor \in Account,
         Pending(q.invitation), Claim(q)
  PROVE  /\ invitations' \in [Invitation -> InvitationRecord \cup {NoInvitation}]
         /\ invitations' = [invitations EXCEPT ![q.invitation] =
              [invitations[q.invitation] EXCEPT !.status = "accepted", !.revision = @ + 1,
                 !.admitted = @ \cup {q.actor}]]
BY PendingRecord DEF TypeOK, Claim, InvitationRecord

LEMMA BatchShape ==
  ASSUME Shape, NEW r \in Request, Batch(r)
  PROVE  Shape'
<1> DEFINE q == req[r]
<1>0. TypeOK /\ q \in RequestState /\ RequestShape(q) /\ KeyRetention \in Nat
      /\ InvitationTtl \in Nat
  BY AccessAssumption DEF Shape, TypeOK, AccessAssumption
<1>r. SUFFICES ASSUME RestShape'
      PROVE /\ (blocked \subseteq Account)'
            /\ (authorities \in [Account -> SUBSET Authority])'
            /\ (apps \in [App -> AppRecord \cup {NoApp}])'
            /\ (members \in [App -> SUBSET Account])'
            /\ (invitations \in [Invitation -> InvitationRecord \cup {NoInvitation}])'
            /\ (keys \subseteq KeyRow)'
  <2>1. \E op : Committing(r, op)
    BY DEF Batch, CreateApp, PatchApp, RemoveMember, InviteMember, InvitePlatform,
       TransitionInvitation, RevokePlatform, AcceptMembership, AcceptPlatform, SetAuthority,
       SetBlocked
  <2>2. AdvanceSnapshot \/ UNCHANGED listing
    BY DEF Batch, CreateApp, PatchApp, RemoveMember, InviteMember, InvitePlatform,
       TransitionInvitation, RevokePlatform, AcceptMembership, AcceptPlatform, SetAuthority,
       SetBlocked, InsertInvitation, AdvanceIfRemoved
  <2>3. RestShape'
    BY <2>1, <2>2, CommittingShape
  <2> QED BY <2>3 DEF RestShape, Shape, TypeOK
<1>1. CASE CreateApp(r)
  <2>0. q.actor \in Account
    BY <1>0, <1>1 DEF CreateApp, Committing, RequestShape
  <2>1. NewApp(q) \in AppRecord
    BY <1>0, <2>0, OriginShape, AccessAssumption
       DEF NewApp, AppRecord, NewFields, AccessAssumption
  <2>2. KeyRowOf("apps", q, q.now + KeyRetention) \subseteq KeyRow
    BY <1>0, <2>0, KeyRowShape DEF RequestState
  <2>3. workload.apps \subseteq App
    BY <1>0, AccessAssumption DEF TypeOK, AccessAssumption, Workload
  <2> QED BY <1>0, <1>1, <2>0, <2>1, <2>2, <2>3 DEF CreateApp, TypeOK
<1>2. CASE PatchApp(r)
  <2>1. q.app \in App /\ q.patch \in Patch /\ q.base \in [Field -> Value] /\ q.revision \in Nat
    BY <1>0, <1>2 DEF PatchApp, Committing, RequestShape, RequestState
  <2>2. Over(q.patch, q.base) \in [Field -> Value]
    BY <2>1, OverShape
  <2>3. apps[q.app] \in AppRecord
    BY <1>0, <1>2, <2>1 DEF PatchApp, PatchCurrent, Committing, RequestShape, TypeOK, NoApp
  <2>4. apps' = [apps EXCEPT ![q.app] = [apps[q.app] EXCEPT
                   !.fields = Over(q.patch, q.base), !.revision = q.revision + 1]]
    BY <1>0, <1>2, <2>1, <2>3 DEF PatchApp, TypeOK
  <2>5. apps' \in [App -> AppRecord \cup {NoApp}]
    <3> DEFINE e == [apps[q.app] EXCEPT !.fields = Over(q.patch, q.base),
                                        !.revision = q.revision + 1]
    <3>1. e \in AppRecord
      BY <2>1, <2>2, <2>3, PatchedShape
    <3> HIDE DEF e
    <3>2. apps' = [apps EXCEPT ![q.app] = e]
      BY <2>4 DEF e
    <3> QED BY <1>0, <2>1, <3>1, <3>2 DEF TypeOK
  <2> QED BY <1>0, <1>2, <2>5 DEF PatchApp, TypeOK
<1>3. CASE RemoveMember(r)
  BY <1>0, <1>3 DEF RemoveMember, TypeOK
<1>4. CASE InviteMember(r)
  <2>1. q.actor \in Account /\ q.app \in App
    BY <1>0, <1>4 DEF InviteMember, Committing, RequestShape
  <2> QED BY <1>0, <1>4, <2>1, InsertShape DEF InviteMember, TypeOK
<1>5. CASE InvitePlatform(r)
  <2>1. q.actor \in Account
    BY <1>0, <1>5 DEF InvitePlatform, Committing, RequestShape
  <2> QED BY <1>0, <1>5, <2>1, InsertShape DEF InvitePlatform, TypeOK
<1>6. CASE TransitionInvitation(r)
  <2>1. q.invitation \in Invitation
    BY <1>0, <1>6 DEF TransitionInvitation, Committing, RequestShape
  <2>2. invitations' \in [Invitation -> InvitationRecord \cup {NoInvitation}]
    BY <1>0, <1>6, <2>1, SettleShape DEF TransitionInvitation
  <2> QED BY <1>0, <1>6, <2>2 DEF TransitionInvitation, TypeOK
<1>7. CASE RevokePlatform(r)
  <2>1. q.invitation \in Invitation /\ Pending(q.invitation)
    BY <1>0, <1>7 DEF RevokePlatform, Committing, RequestShape, Claimable
  <2>2. invitations' \in [Invitation -> InvitationRecord \cup {NoInvitation}]
    BY <1>0, <1>7, <2>1, SettleShape DEF RevokePlatform
  <2> QED BY <1>0, <1>7, <2>2 DEF RevokePlatform, TypeOK
<1>8. CASE AcceptMembership(r)
  <2>1. q.invitation \in Invitation /\ q.actor \in Account /\ Pending(q.invitation)
    BY <1>0, <1>8 DEF AcceptMembership, Committing, RequestShape, Claimable
  <2>2. invitations' \in [Invitation -> InvitationRecord \cup {NoInvitation}]
    BY <1>0, <1>8, <2>1, ClaimShape DEF AcceptMembership
  <2> QED BY <1>0, <1>8, <2>1, <2>2 DEF AcceptMembership, TypeOK
<1>9. CASE AcceptPlatform(r)
  <2>1. q.invitation \in Invitation /\ q.actor \in Account /\ Pending(q.invitation)
    BY <1>0, <1>9 DEF AcceptPlatform, Committing, RequestShape, Claimable
  <2>2. invitations' \in [Invitation -> InvitationRecord \cup {NoInvitation}]
    BY <1>0, <1>9, <2>1, ClaimShape DEF AcceptPlatform
  <2> QED BY <1>0, <1>9, <2>1, <2>2 DEF AcceptPlatform, TypeOK, RequestState
<1>10. CASE SetAuthority(r)
  BY <1>0, <1>10 DEF SetAuthority, TypeOK, RequestState, Changed
<1>11. CASE SetBlocked(r)
  <2>1. q.target \in Account
    BY <1>0, <1>11 DEF SetBlocked, Committing, RequestShape
  <2> QED BY <1>0, <1>11, <2>1 DEF SetBlocked, TypeOK
<1> QED BY <1>1, <1>2, <1>3, <1>4, <1>5, <1>6, <1>7, <1>8, <1>9, <1>10, <1>11 DEF Batch

LEMMA InitShape == Init => Shape
<1> SUFFICES ASSUME Init PROVE Shape
  OBVIOUS
<1>1. TypeOK
  BY IdleShape, AccessAssumption
     DEF Init, TypeOK, AccessAssumption, NoListing, ListingState, Authority
<1> QED BY <1>1, IdleShape DEF Init, Shape, NoListing, ListingShape

(* Every step is quiet or a batch. *)
LEMMA StepKinds == [Next]_vars => QuietStep \/ \E r \in Request : Batch(r)
BY DEF Next, QuietStep, ListStep

(* The tables keep their shape (TypeOK), and each request and the listing hold what their next step
   needs: the frame of all other proofs. *)
THEOREM AccessTypes == Spec => []Shape
<1>1. Shape /\ [Next]_vars => Shape'
  BY StepKinds, QuietShape, BatchShape
<1> QED BY InitShape, <1>1, PTL DEF Spec

(* TypeOK, for every table, request and listing. *)
THEOREM AccessTypeCorrect == Spec => []TypeOK
BY AccessTypes, PTL DEF Shape

-----------------------------------------------------------------------------
(* The last member and the last administrator. *)

LEMMA MoreThanOne ==
  ASSUME NEW S, IsFiniteSet(S), Cardinality(S) > 1, NEW t
  PROVE  S \ {t} # {}
<1>1. Cardinality(S) \in Nat
  BY FS_CardinalityType
<1>2. IsFiniteSet(S \ {t}) /\ Cardinality(S \ {t}) >= Cardinality(S) - 1
  BY <1>1, FS_RemoveElement
<1> QED BY <1>1, <1>2, FS_EmptySet

LEMMA FiniteAccounts ==
  ASSUME NEW S \in SUBSET Account
  PROVE  IsFiniteSet(S)
BY AccessAssumption, FS_Subset DEF AccessAssumption

LEMMA KeepsMember == Shape /\ AppKeepsMember /\ [Next]_vars => AppKeepsMember'
<1> SUFFICES ASSUME Shape, AppKeepsMember, [Next]_vars PROVE AppKeepsMember'
  OBVIOUS
<1>0. TypeOK
  BY DEF Shape
<1>1. CASE QuietStep
  BY <1>1, QuietShape DEF tables, AppKeepsMember
<1>2. ASSUME NEW r \in Request, Batch(r) PROVE AppKeepsMember'
  <2> DEFINE q == req[r]
  <2>0. RequestShape(q)
    BY DEF Shape
  <2>1. CASE CreateApp(r)
    BY <1>0, <2>1 DEF CreateApp, AppKeepsMember, TypeOK
  <2>2. CASE PatchApp(r)
    <3>1. q.app \in App /\ members[q.app] # {} /\ UNCHANGED members
      BY <2>0, <2>2 DEF PatchApp, PatchCurrent, Committing, RequestShape
    <3>2. \A x \in App : x # q.app => apps'[x] = apps[x]
      BY <1>0, <2>2 DEF PatchApp, TypeOK
    <3> QED BY <3>1, <3>2 DEF AppKeepsMember
  <2>3. CASE RemoveMember(r)
    <3>1. q.app \in App /\ UNCHANGED apps
      BY <2>0, <2>3 DEF RemoveMember, Committing, RequestShape
    <3>2. members' = [members EXCEPT ![q.app] = members[q.app] \ {q.target}]
      BY <2>3 DEF RemoveMember
    <3>3. CASE q.target \notin members[q.app]
      BY <1>0, <3>1, <3>2, <3>3 DEF AppKeepsMember, TypeOK
    <3>4. CASE Cardinality(members[q.app]) > 1
      <4>1. members[q.app] \ {q.target} # {}
        BY <1>0, <3>1, <3>4, FiniteAccounts, MoreThanOne DEF TypeOK
      <4> QED BY <1>0, <3>1, <3>2, <4>1 DEF AppKeepsMember, TypeOK
    <3> QED BY <2>3, <3>3, <3>4 DEF RemoveMember, RemoveAllowed, RemainingMember
  <2>4. CASE AcceptMembership(r)
    BY <1>0, <2>4 DEF AcceptMembership, AppKeepsMember, TypeOK
  <2>5. CASE \/ InviteMember(r) \/ InvitePlatform(r) \/ TransitionInvitation(r)
             \/ RevokePlatform(r) \/ AcceptPlatform(r) \/ SetAuthority(r) \/ SetBlocked(r)
    <3>1. UNCHANGED <<apps, members>>
      BY <2>5 DEF InviteMember, InvitePlatform, TransitionInvitation, RevokePlatform,
         AcceptPlatform, SetAuthority, SetBlocked, InsertInvitation
    <3> QED BY <3>1 DEF AppKeepsMember
  <2> QED BY <1>2, <2>1, <2>2, <2>3, <2>4, <2>5 DEF Batch
<1> QED BY <1>1, <1>2, StepKinds

(* AppKeepsMember: removals that were decided on while there were more members never empty
   an App, because the batch that deletes counts again. *)
THEOREM AppsKeepMembers == Spec => []AppKeepsMember
<1>1. Init => AppKeepsMember
  BY DEF Init, AppKeepsMember
<1> QED BY <1>1, AccessTypes, KeepsMember, PTL DEF Spec

LEMMA KeepsAdmin == Shape /\ PlatformKeepsAdmin /\ [Next]_vars => PlatformKeepsAdmin'
<1> SUFFICES ASSUME Shape, PlatformKeepsAdmin, [Next]_vars PROVE PlatformKeepsAdmin'
  OBVIOUS
<1>0. TypeOK
  BY DEF Shape
<1>1. CASE QuietStep
  BY <1>1, QuietShape DEF tables, PlatformKeepsAdmin, ActiveAdmins
<1>2. ASSUME NEW r \in Request, Batch(r) PROVE PlatformKeepsAdmin'
  <2> DEFINE q == req[r]
  <2>0. RequestShape(q) /\ q.grants \subseteq Authority
    BY <1>0 DEF Shape, TypeOK, RequestState
  <2>a. ActiveAdmins \in SUBSET Account /\ ActiveAdmins # {}
    BY DEF ActiveAdmins, PlatformKeepsAdmin
  <2>1. CASE SetAuthority(r)
    <3>1. q.target \in Account /\ UNCHANGED blocked
          /\ authorities' = [authorities EXCEPT ![q.target] = Changed(q)]
      BY <2>0, <2>1 DEF SetAuthority, Committing, RequestShape
    <3>2. \A a \in ActiveAdmins : a # q.target => a \in ActiveAdmins'
      BY <1>0, <3>1 DEF ActiveAdmins, TypeOK
    <3>3. CASE q.on \/ Admin \notin q.grants
      <4>1. Admin \in authorities[q.target] => Admin \in authorities'[q.target]
        BY <1>0, <3>1, <3>3 DEF Changed, TypeOK
      <4> QED BY <2>a, <3>1, <3>2, <4>1 DEF ActiveAdmins, PlatformKeepsAdmin
    <3>4. CASE Admin \notin authorities[q.target] \/ q.target \in blocked
      <4>1. q.target \notin ActiveAdmins
        BY <3>4 DEF ActiveAdmins
      <4> QED BY <2>a, <3>2, <4>1 DEF PlatformKeepsAdmin
    <3>5. CASE Cardinality(ActiveAdmins) > 1
      <4>1. ActiveAdmins \ {q.target} # {}
        BY <2>a, <3>5, FiniteAccounts, MoreThanOne
      <4> QED BY <3>2, <4>1 DEF PlatformKeepsAdmin
    <3> QED BY <2>1, <3>3, <3>4, <3>5 DEF SetAuthority, RemainingAdmin
  <2>2. CASE SetBlocked(r)
    <3>1. UNCHANGED authorities /\ blocked' \subseteq blocked \cup {q.target}
      BY <2>2 DEF SetBlocked
    <3>2. CASE ~q.on
      <4>1. blocked' \subseteq blocked
        BY <2>2, <3>2 DEF SetBlocked
      <4> QED BY <2>a, <3>1, <4>1 DEF ActiveAdmins, PlatformKeepsAdmin
    <3>3. CASE q.on
      <4>1. q.actor \in Account /\ q.actor # q.target /\ q.actor \in ActiveAdmins
        BY <2>0, <2>2, <3>3 DEF SetBlocked, MayBlock, PlatformActor, Usable, ActiveAdmins,
           Committing, RequestShape
      <4> QED BY <3>1, <4>1 DEF ActiveAdmins, PlatformKeepsAdmin
    <3> QED BY <3>2, <3>3
  <2>3. CASE AcceptPlatform(r)
    <3>1. UNCHANGED blocked /\ \A a \in Account : authorities[a] \subseteq authorities'[a]
      BY <1>0, <2>3 DEF AcceptPlatform, TypeOK
    <3> QED BY <2>a, <3>1 DEF ActiveAdmins, PlatformKeepsAdmin
  <2>4. CASE \/ CreateApp(r) \/ PatchApp(r) \/ RemoveMember(r) \/ InviteMember(r)
             \/ InvitePlatform(r) \/ TransitionInvitation(r) \/ RevokePlatform(r)
             \/ AcceptMembership(r)
    <3>1. UNCHANGED <<authorities, blocked>>
      BY <2>4 DEF CreateApp, PatchApp, RemoveMember, InviteMember, InvitePlatform,
         TransitionInvitation, RevokePlatform, AcceptMembership, InsertInvitation
    <3> QED BY <3>1 DEF PlatformKeepsAdmin, ActiveAdmins
  <2> QED BY <1>2, <2>1, <2>2, <2>3, <2>4 DEF Batch
<1> QED BY <1>1, <1>2, StepKinds

(* PlatformKeepsAdmin: administrators who revoke or block each other at the same time leave
   one who can act. *)
THEOREM PlatformKeepsAdmins == Spec => []PlatformKeepsAdmin
<1>1. Init => PlatformKeepsAdmin
  BY AccessAssumption
     DEF Init, PlatformKeepsAdmin, ActiveAdmins, AccessAssumption, Authority
<1> QED BY <1>1, AccessTypes, KeepsAdmin, PTL DEF Spec

-----------------------------------------------------------------------------
(* Invitations and the audit. *)

(* InvitationSingleUse, in the form that is inductive. *)
UsedOnce ==
  \A i \in Invitation : invitations[i] # NoInvitation =>
    IF invitations[i].status = "accepted"
    THEN \E a \in Account : invitations[i].admitted = {a}
    ELSE invitations[i].admitted = {}

LEMMA InsertKeepsUsedOnce ==
  ASSUME TypeOK, UsedOnce, NEW q, NEW scope, NEW e, InsertInvitation(q, scope, e)
  PROVE  UsedOnce'
<1>1. workload.invitations \subseteq Invitation
  BY AccessAssumption DEF TypeOK, AccessAssumption, Workload
<1>2. PICK i \in Invitation : invitations' = [invitations EXCEPT ![i] = NewInvitation(q, scope)]
  BY <1>1 DEF InsertInvitation
<1>3. NewInvitation(q, scope).status = "pending" /\ NewInvitation(q, scope).admitted = {}
  BY DEF NewInvitation
<1> QED BY <1>2, <1>3 DEF UsedOnce, TypeOK

LEMMA SettleKeepsUsedOnce ==
  ASSUME TypeOK, UsedOnce, NEW i \in Invitation, Pending(i),
         NEW status \in {"revoked", "expired"}, Settle(i, status)
  PROVE  UsedOnce'
<1> DEFINE e == [invitations[i] EXCEPT !.status = status, !.revision = @ + 1]
<1>1. invitations' = [invitations EXCEPT ![i] = e]
  BY SettleShape
<1>2. invitations[i] \in InvitationRecord /\ invitations[i].admitted = {}
  BY PendingRecord DEF UsedOnce, Pending, NoInvitation
<1>3. e.status # "accepted" /\ e.admitted = {}
  BY <1>2 DEF InvitationRecord
<1> HIDE DEF e
<1> QED BY <1>1, <1>3 DEF UsedOnce, TypeOK

LEMMA ClaimKeepsUsedOnce ==
  ASSUME TypeOK, UsedOnce, NEW q, q.invitation \in Invitation, q.actor \in Account,
         Pending(q.invitation), Claim(q)
  PROVE  UsedOnce'
<1> DEFINE i == q.invitation
           e == [invitations[i] EXCEPT !.status = "accepted", !.revision = @ + 1,
                   !.admitted = @ \cup {q.actor}]
<1>1. invitations' = [invitations EXCEPT ![i] = e]
  BY ClaimShape
<1>2. invitations[i] \in InvitationRecord /\ invitations[i].admitted = {}
  BY PendingRecord DEF UsedOnce, Pending, NoInvitation
<1>3. e.status = "accepted" /\ e.admitted = {q.actor}
  BY <1>2 DEF InvitationRecord
<1> HIDE DEF e
<1> QED BY <1>1, <1>3 DEF UsedOnce, TypeOK

LEMMA KeepsUsedOnce == Shape /\ UsedOnce /\ [Next]_vars => UsedOnce'
<1> SUFFICES ASSUME Shape, UsedOnce, [Next]_vars PROVE UsedOnce'
  OBVIOUS
<1>0. TypeOK
  BY DEF Shape
<1>1. CASE QuietStep
  BY <1>1, QuietShape DEF tables, UsedOnce
<1>2. ASSUME NEW r \in Request, Batch(r) PROVE UsedOnce'
  <2> DEFINE q == req[r]
  <2>0. RequestShape(q)
    BY DEF Shape
  <2>1. CASE InviteMember(r)
    BY <1>0, <2>1, InsertKeepsUsedOnce DEF InviteMember
  <2>2. CASE InvitePlatform(r)
    BY <1>0, <2>2, InsertKeepsUsedOnce DEF InvitePlatform
  <2>3. CASE TransitionInvitation(r)
    <3>1. q.invitation \in Invitation
      BY <2>0, <2>3 DEF TransitionInvitation, Committing, RequestShape
    <3> QED BY <1>0, <2>3, <3>1, SettleKeepsUsedOnce DEF TransitionInvitation
  <2>4. CASE RevokePlatform(r)
    <3>1. q.invitation \in Invitation /\ Pending(q.invitation)
      BY <2>0, <2>4 DEF RevokePlatform, Committing, RequestShape, Claimable
    <3> QED BY <1>0, <2>4, <3>1, SettleKeepsUsedOnce DEF RevokePlatform
  <2>5. CASE AcceptMembership(r)
    <3>1. q.invitation \in Invitation /\ q.actor \in Account /\ Pending(q.invitation)
      BY <2>0, <2>5 DEF AcceptMembership, Committing, RequestShape, Claimable
    <3> QED BY <1>0, <2>5, <3>1, ClaimKeepsUsedOnce DEF AcceptMembership
  <2>6. CASE AcceptPlatform(r)
    <3>1. q.invitation \in Invitation /\ q.actor \in Account /\ Pending(q.invitation)
      BY <2>0, <2>6 DEF AcceptPlatform, Committing, RequestShape, Claimable
    <3> QED BY <1>0, <2>6, <3>1, ClaimKeepsUsedOnce DEF AcceptPlatform
  <2>7. CASE CreateApp(r) \/ PatchApp(r) \/ RemoveMember(r) \/ SetAuthority(r) \/ SetBlocked(r)
    <3>1. UNCHANGED invitations
      BY <2>7 DEF CreateApp, PatchApp, RemoveMember, SetAuthority, SetBlocked
    <3> QED BY <3>1 DEF UsedOnce
  <2> QED BY <1>2, <2>1, <2>2, <2>3, <2>4, <2>5, <2>6, <2>7 DEF Batch
<1> QED BY <1>1, <1>2, StepKinds

LEMMA UsedOnceSuffices == TypeOK /\ UsedOnce => InvitationSingleUse
<1> SUFFICES ASSUME TypeOK, UsedOnce, NEW i \in Invitation, invitations[i] # NoInvitation
             PROVE  /\ Cardinality(invitations[i].admitted) <= 1
                    /\ invitations[i].status = "accepted" <=> invitations[i].admitted # {}
  BY DEF InvitationSingleUse
<1>1. CASE invitations[i].status = "accepted"
  <2> PICK a \in Account : invitations[i].admitted = {a}
    BY <1>1 DEF UsedOnce
  <2>1. Cardinality({a}) = 1
    BY FS_Singleton
  <2> QED BY <1>1, <2>1
<1>2. CASE invitations[i].status # "accepted"
  BY <1>2, FS_EmptySet DEF UsedOnce
<1> QED BY <1>1, <1>2

(* InvitationSingleUse: acceptances and revocations that were decided on together spend an
   invitation once, because the batch asks for a pending one. *)
THEOREM InvitationsAdmitOnce == Spec => []InvitationSingleUse
<1>1. Init => UsedOnce
  BY DEF Init, UsedOnce
<1> QED BY <1>1, AccessTypes, KeepsUsedOnce, UsedOnceSuffices, PTL DEF Spec, Shape

LEMMA KeepsAudit == Shape /\ AuditReplays /\ [Next]_vars => AuditReplays'
<1> SUFFICES ASSUME Shape, AuditReplays, [Next]_vars PROVE AuditReplays'
  OBVIOUS
<1>0. TypeOK
  BY DEF Shape
<1>1. CASE QuietStep
  BY <1>1, QuietShape DEF tables, AuditReplays
<1>2. ASSUME NEW r \in Request, Batch(r) PROVE AuditReplays'
  <2> DEFINE q == req[r]
  <2>1. CASE CreateApp(r)
    BY <1>0, <2>1 DEF CreateApp, AuditReplays, TypeOK
  <2>2. CASE RemoveMember(r)
    <3>1. CASE q.target \in members[q.app]
      BY <1>0, <2>2, <3>1 DEF RemoveMember, AuditRemoval, AuditReplays, TypeOK
    <3>2. CASE q.target \notin members[q.app]
      <4>1. members[q.app] \ {q.target} = members[q.app]
        BY <3>2
      <4>2. members' = members
        BY <1>0, <2>2, <4>1 DEF RemoveMember, TypeOK
      <4> QED BY <2>2, <3>2, <4>2 DEF RemoveMember, AuditRemoval, AuditReplays
    <3> QED BY <3>1, <3>2
  <2>3. CASE AcceptMembership(r)
    BY <1>0, <2>3 DEF AcceptMembership, AuditReplays, TypeOK
  <2>4. CASE AcceptPlatform(r)
    BY <1>0, <2>4 DEF AcceptPlatform, AuditReplays, TypeOK
  <2>5. CASE SetAuthority(r)
    BY <1>0, <2>5 DEF SetAuthority, Changed, AuditReplays, TypeOK
  <2>6. CASE SetBlocked(r)
    BY <1>0, <2>6 DEF SetBlocked, AuditReplays, TypeOK
  <2>7. CASE \/ PatchApp(r) \/ InviteMember(r) \/ InvitePlatform(r)
             \/ TransitionInvitation(r) \/ RevokePlatform(r)
    <3>1. UNCHANGED <<blocked, authorities, members, audit>>
      BY <2>7 DEF PatchApp, InviteMember, InvitePlatform, TransitionInvitation,
         RevokePlatform, InsertInvitation
    <3> QED BY <3>1 DEF AuditReplays
  <2> QED BY <1>2, <2>1, <2>2, <2>3, <2>4, <2>5, <2>6, <2>7 DEF Batch
<1> QED BY <1>1, <1>2, StepKinds

(* AuditReplays: the audit rows, replayed, give the members, authorities and blocks in
   force, also for batches that changed nothing. *)
THEOREM AuditIsComplete == Spec => []AuditReplays
<1>1. Init => AuditReplays
  BY DEF Init, AuditReplays
<1> QED BY <1>1, AccessTypes, KeepsAudit, PTL DEF Spec

(* AuthorityKept: whatever removals, revocations and blocks are decided on together, every App
   keeps a member and the platform an administrator. *)
THEOREM AuthorityIsKept == Spec => []AuthorityKept
<1>1. AppKeepsMember /\ PlatformKeepsAdmin => AuthorityKept
  BY DEF AuthorityKept
<1> QED BY <1>1, AppsKeepMembers, PlatformKeepsAdmins, PTL

-----------------------------------------------------------------------------
(* Creations under an idempotency key. *)

(* The row that a creation leaves in its idempotency table. *)
HasKey(rows, scope, origin) ==
  \E row \in rows : row.scope = scope /\ row.account = origin.account /\ row.key = origin.key

(* What a key has created is recorded under it, for Apps and for invitations: no insertion
   passes the primary key of the idempotency table again. *)
AppsByKey ==
  /\ \A x \in App : apps[x] # NoApp /\ apps[x].origin.key # None =>
       HasKey(keys, "apps", apps[x].origin)
  /\ \A x, y \in App :
       /\ apps[x] # NoApp /\ apps[y] # NoApp
       /\ apps[x].origin = apps[y].origin /\ apps[x].origin.key # None
       => x = y

InvitationsByKey ==
  /\ \A i \in Invitation : invitations[i] # NoInvitation /\ invitations[i].origin.key # None =>
       HasKey(keys, invitations[i].scope, invitations[i].origin)
  /\ \A i, j \in Invitation :
       /\ invitations[i] # NoInvitation /\ invitations[j] # NoInvitation
       /\ invitations[i].scope = invitations[j].scope
       /\ invitations[i].origin = invitations[j].origin /\ invitations[i].origin.key # None
       => i = j

OncePerKey == AppsByKey /\ InvitationsByKey

(* A step that adds rows and leaves the origins of Apps alone. *)
LEMMA SameAppOrigins ==
  ASSUME AppsByKey, keys \subseteq keys',
         \A x \in App : apps'[x] # NoApp => apps[x] # NoApp /\ apps'[x].origin = apps[x].origin
  PROVE  AppsByKey'
<1>1. ASSUME NEW x \in App, apps'[x] # NoApp, apps'[x].origin.key # None
      PROVE  HasKey(keys', "apps", apps'[x].origin)
  <2>1. HasKey(keys, "apps", apps[x].origin)
    BY <1>1 DEF AppsByKey
  <2> QED BY <1>1, <2>1 DEF HasKey
<1>2. ASSUME NEW x \in App, NEW y \in App, apps'[x] # NoApp, apps'[y] # NoApp,
             apps'[x].origin = apps'[y].origin, apps'[x].origin.key # None
      PROVE  x = y
  BY <1>2 DEF AppsByKey
<1> QED BY <1>1, <1>2 DEF AppsByKey

LEMMA SameInvitationOrigins ==
  ASSUME InvitationsByKey, keys \subseteq keys',
         \A i \in Invitation : invitations'[i] # NoInvitation =>
           /\ invitations[i] # NoInvitation
           /\ invitations'[i].origin = invitations[i].origin
           /\ invitations'[i].scope = invitations[i].scope
  PROVE  InvitationsByKey'
<1>1. ASSUME NEW i \in Invitation, invitations'[i] # NoInvitation,
             invitations'[i].origin.key # None
      PROVE  HasKey(keys', invitations'[i].scope, invitations'[i].origin)
  <2>1. HasKey(keys, invitations[i].scope, invitations[i].origin)
    BY <1>1 DEF InvitationsByKey
  <2> QED BY <1>1, <2>1 DEF HasKey
<1>2. ASSUME NEW i \in Invitation, NEW j \in Invitation,
             invitations'[i] # NoInvitation, invitations'[j] # NoInvitation,
             invitations'[i].scope = invitations'[j].scope,
             invitations'[i].origin = invitations'[j].origin, invitations'[i].origin.key # None
      PROVE  i = j
  BY <1>2 DEF InvitationsByKey
<1> QED BY <1>1, <1>2 DEF InvitationsByKey

(* A key that is free has created nothing in its scope. *)
LEMMA FreeKey ==
  ASSUME NEW scope, NEW q, KeyFree(scope, q)
  PROVE  ~HasKey(keys, scope, OriginOf(q))
BY DEF KeyFree, HasKey, OriginOf

LEMMA KeyRowRecorded ==
  ASSUME NEW scope, NEW q, NEW e, q.key # None, KeyRowOf(scope, q, e) \subseteq keys'
  PROVE  HasKey(keys', scope, OriginOf(q))
<1> DEFINE row == [scope |-> scope, account |-> q.actor, key |-> q.key, expiresAt |-> e]
<1>1. row \in keys' /\ row.scope = scope /\ row.account = q.actor /\ row.key = q.key
  BY DEF KeyRowOf
<1> QED BY <1>1 DEF HasKey, OriginOf

LEMMA CreateAppOnce ==
  ASSUME Shape, AppsByKey, NEW r \in Request, CreateApp(r)
  PROVE  AppsByKey'
<1> DEFINE q == req[r]
<1>0. PICK z \in App : apps[z] = NoApp /\ apps' = [apps EXCEPT ![z] = NewApp(q)]
  BY AccessAssumption DEF CreateApp, Shape, TypeOK, AccessAssumption, Workload
<1>1. apps'[z].origin = OriginOf(q) /\ \A x \in App : x # z => apps'[x] = apps[x]
  BY <1>0 DEF Shape, TypeOK, NewApp
<1>2. /\ KeyFree("apps", q) /\ keys \subseteq keys'
      /\ KeyRowOf("apps", q, q.now + KeyRetention) \subseteq keys'
  BY DEF CreateApp
<1>3. OriginOf(q).key = q.key
  BY DEF OriginOf
<1>4. ASSUME NEW x \in App, apps'[x] # NoApp, apps'[x].origin.key # None
      PROVE  HasKey(keys', "apps", apps'[x].origin)
  <2>1. CASE x = z
    BY <1>1, <1>2, <1>3, <1>4, <2>1, KeyRowRecorded
  <2>2. CASE x # z
    <3>1. HasKey(keys, "apps", apps[x].origin) /\ apps'[x] = apps[x]
      BY <1>1, <1>4, <2>2 DEF AppsByKey
    <3> QED BY <1>2, <3>1 DEF HasKey
  <2> QED BY <2>1, <2>2
<1>5. ASSUME NEW x \in App, x # z, apps'[x] # NoApp, apps'[x].origin.key # None
      PROVE  apps'[x].origin # OriginOf(q)
  <2>1. HasKey(keys, "apps", apps[x].origin) /\ apps'[x] = apps[x]
    BY <1>1, <1>5 DEF AppsByKey
  <2> QED BY <1>2, <2>1, FreeKey
<1>6. ASSUME NEW x \in App, NEW y \in App, apps'[x] # NoApp, apps'[y] # NoApp,
             apps'[x].origin = apps'[y].origin, apps'[x].origin.key # None
      PROVE  x = y
  BY <1>1, <1>5, <1>6 DEF AppsByKey
<1> QED BY <1>4, <1>6 DEF AppsByKey

LEMMA InviteOnce ==
  ASSUME Shape, InvitationsByKey, NEW q, NEW scope, NEW e, InsertInvitation(q, scope, e)
  PROVE  InvitationsByKey' /\ keys \subseteq keys' /\ UNCHANGED apps
<1>0. PICK z \in Invitation : invitations[z] = NoInvitation
                              /\ invitations' = [invitations EXCEPT ![z] = NewInvitation(q, scope)]
  BY AccessAssumption DEF InsertInvitation, Shape, TypeOK, AccessAssumption, Workload
<1>1. /\ invitations'[z].origin = OriginOf(q) /\ invitations'[z].scope = scope
      /\ \A i \in Invitation : i # z => invitations'[i] = invitations[i]
  BY <1>0 DEF Shape, TypeOK, NewInvitation
<1>2. /\ KeyFree(scope, q) /\ keys \subseteq keys' /\ UNCHANGED apps
      /\ KeyRowOf(scope, q, q.now + e) \subseteq keys'
  BY DEF InsertInvitation
<1>3. OriginOf(q).key = q.key
  BY DEF OriginOf
<1>4. ASSUME NEW i \in Invitation, invitations'[i] # NoInvitation,
             invitations'[i].origin.key # None
      PROVE  HasKey(keys', invitations'[i].scope, invitations'[i].origin)
  <2>1. CASE i = z
    BY <1>1, <1>2, <1>3, <1>4, <2>1, KeyRowRecorded
  <2>2. CASE i # z
    <3>1. HasKey(keys, invitations[i].scope, invitations[i].origin)
          /\ invitations'[i] = invitations[i]
      BY <1>1, <1>4, <2>2 DEF InvitationsByKey
    <3> QED BY <1>2, <3>1 DEF HasKey
  <2> QED BY <2>1, <2>2
<1>5. ASSUME NEW i \in Invitation, i # z, invitations'[i] # NoInvitation,
             invitations'[i].origin.key # None, invitations'[i].scope = scope
      PROVE  invitations'[i].origin # OriginOf(q)
  <2>1. HasKey(keys, invitations[i].scope, invitations[i].origin)
        /\ invitations'[i] = invitations[i]
    BY <1>1, <1>5 DEF InvitationsByKey
  <2> QED BY <1>2, <1>5, <2>1, FreeKey
<1>6. ASSUME NEW i \in Invitation, NEW j \in Invitation,
             invitations'[i] # NoInvitation, invitations'[j] # NoInvitation,
             invitations'[i].scope = invitations'[j].scope,
             invitations'[i].origin = invitations'[j].origin, invitations'[i].origin.key # None
      PROVE  i = j
  BY <1>1, <1>5, <1>6 DEF InvitationsByKey
<1> QED BY <1>2, <1>4, <1>6 DEF InvitationsByKey

(* A settled or claimed invitation is the one that was created. *)
LEMMA SettledOrigin ==
  ASSUME Shape, NEW i \in Invitation, Pending(i), NEW e,
         invitations' = [invitations EXCEPT ![i] = e],
         e.origin = invitations[i].origin, e.scope = invitations[i].scope
  PROVE  \A j \in Invitation : invitations'[j] # NoInvitation =>
           /\ invitations[j] # NoInvitation
           /\ invitations'[j].origin = invitations[j].origin
           /\ invitations'[j].scope = invitations[j].scope
<1>1. invitations[i] # NoInvitation
  BY DEF Pending, NoInvitation
<1>2. invitations'[i] = e /\ \A j \in Invitation : j # i => invitations'[j] = invitations[j]
  BY DEF Shape, TypeOK
<1> QED BY <1>1, <1>2

LEMMA SettleKeepsOrigin ==
  ASSUME Shape, InvitationsByKey, NEW i \in Invitation, Pending(i),
         NEW status \in {"revoked", "expired"}, Settle(i, status), UNCHANGED keys
  PROVE  InvitationsByKey'
<1> DEFINE e == [invitations[i] EXCEPT !.status = status, !.revision = @ + 1]
<1>1. invitations' = [invitations EXCEPT ![i] = e] /\ invitations[i] \in InvitationRecord
  BY SettleShape, PendingRecord DEF Shape
<1>2. e.origin = invitations[i].origin /\ e.scope = invitations[i].scope
  BY <1>1 DEF InvitationRecord
<1> HIDE DEF e
<1> QED BY <1>1, <1>2, SettledOrigin, SameInvitationOrigins

LEMMA ClaimKeepsOrigin ==
  ASSUME Shape, InvitationsByKey, NEW q, q.invitation \in Invitation, q.actor \in Account,
         Pending(q.invitation), Claim(q), UNCHANGED keys
  PROVE  InvitationsByKey'
<1> DEFINE i == q.invitation
           e == [invitations[i] EXCEPT !.status = "accepted", !.revision = @ + 1,
                   !.admitted = @ \cup {q.actor}]
<1>1. invitations' = [invitations EXCEPT ![i] = e] /\ invitations[i] \in InvitationRecord
  BY ClaimShape, PendingRecord DEF Shape
<1>2. e.origin = invitations[i].origin /\ e.scope = invitations[i].scope
  BY <1>1 DEF InvitationRecord
<1> HIDE DEF e
<1> QED BY <1>1, <1>2, SettledOrigin, SameInvitationOrigins

(* The batch of a patch, on a record that is there. *)
LEMMA PatchedRecord ==
  ASSUME Shape, NEW r \in Request, PatchApp(r)
  PROVE  LET q == req[r] IN
         /\ q.app \in App /\ apps[q.app] \in AppRecord /\ apps[q.app] # NoApp
         /\ q.op = "patch" /\ apps[q.app].revision = q.revision /\ q.revision \in Nat
         /\ apps'[q.app].fields = Over(q.patch, q.base)
         /\ apps'[q.app].revision = q.revision + 1
         /\ apps'[q.app].origin = apps[q.app].origin
         /\ apps'[q.app] # NoApp
         /\ \A x \in App : x # q.app => apps'[x] = apps[x]
<1> DEFINE q == req[r]
<1>0. q \in RequestState /\ RequestShape(q) /\ apps \in [App -> AppRecord \cup {NoApp}]
  BY DEF Shape, TypeOK
<1>1. q.op = "patch" /\ q.app \in App /\ q.revision \in Nat /\ q.revision # 0
      /\ apps[q.app].revision = q.revision
  BY <1>0 DEF PatchApp, PatchCurrent, Committing, RequestShape, RequestState
<1>2. apps[q.app] # NoApp
  BY <1>1 DEF NoApp
<1>3. apps[q.app] \in AppRecord
  BY <1>0, <1>1, <1>2
<1> DEFINE e == [apps[q.app] EXCEPT !.fields = Over(q.patch, q.base), !.revision = q.revision + 1]
<1>4. apps' = [apps EXCEPT ![q.app] = e]
  BY <1>0, <1>1, <1>3 DEF PatchApp
<1>5. e.fields = Over(q.patch, q.base) /\ e.revision = q.revision + 1
      /\ e.origin = apps[q.app].origin
  BY <1>3 DEF AppRecord
<1> HIDE DEF e
<1>6. e # NoApp
  <2>1. NoApp.revision = 0 /\ q.revision + 1 # 0
    BY <1>1 DEF NoApp
  <2> QED BY <1>5, <2>1
<1> QED BY <1>0, <1>1, <1>2, <1>3, <1>4, <1>5, <1>6

LEMMA KeepsOncePerKey == Shape /\ OncePerKey /\ [Next]_vars => OncePerKey'
<1> SUFFICES ASSUME Shape, AppsByKey, InvitationsByKey, [Next]_vars
             PROVE  AppsByKey' /\ InvitationsByKey'
  BY DEF OncePerKey
<1>0. TypeOK
  BY DEF Shape
<1>1. CASE QuietStep
  BY <1>1, QuietShape DEF tables, AppsByKey, InvitationsByKey, HasKey
<1>2. ASSUME NEW r \in Request, Batch(r) PROVE AppsByKey' /\ InvitationsByKey'
  <2> DEFINE q == req[r]
  <2>0. RequestShape(q)
    BY DEF Shape
  <2>a. UNCHANGED invitations /\ keys \subseteq keys' => InvitationsByKey'
    BY SameInvitationOrigins
  <2>b. UNCHANGED apps /\ keys \subseteq keys' => AppsByKey'
    BY SameAppOrigins
  <2>1. CASE CreateApp(r)
    <3>1. UNCHANGED invitations /\ keys \subseteq keys'
      BY <2>1 DEF CreateApp
    <3> QED BY <2>1, <2>a, <3>1, CreateAppOnce
  <2>2. CASE PatchApp(r)
    <3>1. UNCHANGED <<invitations, keys>>
      BY <2>2 DEF PatchApp
    <3>2. \A x \in App : apps'[x] # NoApp => apps[x] # NoApp /\ apps'[x].origin = apps[x].origin
      BY <2>2, PatchedRecord
    <3> QED BY <2>a, <3>1, <3>2, SameAppOrigins
  <2>3. CASE InviteMember(r)
    BY <2>3, <2>b, InviteOnce DEF InviteMember
  <2>4. CASE InvitePlatform(r)
    BY <2>4, <2>b, InviteOnce DEF InvitePlatform
  <2>5. CASE TransitionInvitation(r)
    <3>1. q.invitation \in Invitation
      BY <2>0, <2>5 DEF TransitionInvitation, Committing, RequestShape
    <3> QED BY <2>5, <2>b, <3>1, SettleKeepsOrigin DEF TransitionInvitation
  <2>6. CASE RevokePlatform(r)
    <3>1. q.invitation \in Invitation /\ Pending(q.invitation)
      BY <2>0, <2>6 DEF RevokePlatform, Committing, RequestShape, Claimable
    <3> QED BY <2>6, <2>b, <3>1, SettleKeepsOrigin DEF RevokePlatform
  <2>7. CASE AcceptMembership(r)
    <3>1. q.invitation \in Invitation /\ q.actor \in Account /\ Pending(q.invitation)
      BY <2>0, <2>7 DEF AcceptMembership, Committing, RequestShape, Claimable
    <3> QED BY <2>7, <2>b, <3>1, ClaimKeepsOrigin DEF AcceptMembership
  <2>8. CASE AcceptPlatform(r)
    <3>1. q.invitation \in Invitation /\ q.actor \in Account /\ Pending(q.invitation)
      BY <2>0, <2>8 DEF AcceptPlatform, Committing, RequestShape, Claimable
    <3> QED BY <2>8, <2>b, <3>1, ClaimKeepsOrigin DEF AcceptPlatform
  <2>9. CASE RemoveMember(r) \/ SetAuthority(r) \/ SetBlocked(r)
    <3>1. UNCHANGED <<apps, invitations, keys>>
      BY <2>9 DEF RemoveMember, SetAuthority, SetBlocked
    <3> QED BY <2>a, <2>b, <3>1
  <2> QED BY <1>2, <2>1, <2>2, <2>3, <2>4, <2>5, <2>6, <2>7, <2>8, <2>9 DEF Batch
<1> QED BY <1>1, <1>2, StepKinds

(* SingleUse: a creation repeated under its key, at once or after the key has expired, does
   not create again, because the primary key of the idempotency table stays occupied; an
   invitation admits once, because the batch asks for a pending one. *)
THEOREM UsesAreSingle == Spec => []SingleUse
<1>1. Init => OncePerKey
  BY DEF Init, OncePerKey, AppsByKey, InvitationsByKey
<1>2. OncePerKey => CreatedOncePerKey
  BY DEF OncePerKey, AppsByKey, InvitationsByKey, CreatedOncePerKey
<1> QED BY <1>1, <1>2, AccessTypes, KeepsOncePerKey, InvitationsAdmitOnce, PTL
       DEF Spec, SingleUse

-----------------------------------------------------------------------------
(* Patches. *)

(* A patch that was decided on holds the fields of the revision that it read; the record has
   that revision or a later one. *)
PatchFenced(q) ==
  q.op = "patch" =>
    /\ q.revision <= apps[q.app].revision
    /\ q.revision = apps[q.app].revision => q.base = apps[q.app].fields

PatchesFenced == \A r \in Request : PatchFenced(req[r])

(* Steps that leave the Apps alone keep the fence of every request that stays or ends. *)
LEMMA FenceKept ==
  ASSUME PatchesFenced, UNCHANGED apps,
         \A r \in Request : req'[r] = req[r] \/ req'[r].op # "patch"
  PROVE  PatchesFenced'
BY DEF PatchesFenced, PatchFenced

(* What a request that arrives is about. *)
LEMMA ReceivedOp ==
  ASSUME Shape, NEW r \in Request, NEW op, NEW q, "op" \in DOMAIN q, Receive(r, op, q)
  PROVE  req'[r].op = op
<1>1. [q EXCEPT !.op = op].op = op
  OBVIOUS
<1>2. req' = [req EXCEPT ![r] = [q EXCEPT !.op = op]]
  BY DEF Receive
<1> QED BY <1>1, <1>2 DEF Shape, TypeOK

LEMMA StartsOther ==
  ASSUME Shape, NEW r \in Request, Starts(r)
  PROVE  StartPatch(r) \/ req'[r].op # "patch"
<1>1. CASE StartCreateApp(r)
  <2>1. \E q : "op" \in DOMAIN q /\ Receive(r, "createApp", q)
    BY <1>1 DEF StartCreateApp, Idle
  <2> QED BY <2>1, ReceivedOp
<1>2. CASE StartRemove(r)
  <2>1. \E q : "op" \in DOMAIN q /\ Receive(r, "remove", q)
    BY <1>2 DEF StartRemove, Idle
  <2> QED BY <2>1, ReceivedOp
<1>3. CASE StartInvite(r)
  <2>1. \E q : "op" \in DOMAIN q /\ Receive(r, "invite", q)
    BY <1>3 DEF StartInvite, Idle
  <2> QED BY <2>1, ReceivedOp
<1>4. CASE StartPlatformInvite(r)
  <2>1. \E q : "op" \in DOMAIN q /\ Receive(r, "platformInvite", q)
    BY <1>4 DEF StartPlatformInvite, Idle
  <2> QED BY <2>1, ReceivedOp
<1>5. CASE StartTransition(r)
  <2>1. \E q : "op" \in DOMAIN q /\ Receive(r, "transition", q)
    BY <1>5 DEF StartTransition, Idle
  <2> QED BY <2>1, ReceivedOp
<1>6. CASE StartPlatformRevoke(r)
  <2>1. \E q : "op" \in DOMAIN q /\ Receive(r, "platformRevoke", q)
    BY <1>6 DEF StartPlatformRevoke, Idle
  <2> QED BY <2>1, ReceivedOp
<1>7. CASE StartSetAuthority(r)
  <2>1. \E q : "op" \in DOMAIN q /\ Receive(r, "authority", q)
    BY <1>7 DEF StartSetAuthority, Idle
  <2> QED BY <2>1, ReceivedOp
<1>8. CASE StartSetBlocked(r)
  <2>1. \E q : "op" \in DOMAIN q /\ Receive(r, "block", q)
    BY <1>8 DEF StartSetBlocked, Idle
  <2> QED BY <2>1, ReceivedOp
<1>9. CASE StartAccept(r)
  <2>1. \E q : "op" \in DOMAIN q /\ (Receive(r, "accept", q) \/ Receive(r, "platformAccept", q))
    BY <1>9 DEF StartAccept, StartMembershipAcceptance, StartPlatformAcceptance, Idle
  <2> QED BY <2>1, ReceivedOp
<1> QED BY <1>1, <1>2, <1>3, <1>4, <1>5, <1>6, <1>7, <1>8, <1>9 DEF Starts

LEMMA StartPatchFenced ==
  ASSUME Shape, PatchesFenced, NEW r \in Request, StartPatch(r)
  PROVE  PatchesFenced'
<1> PICK a \in Account \ blocked, x \in App, p \in Patch :
      /\ apps[x] # NoApp
      /\ Receive(r, "patch", [Idle EXCEPT !.actor = a, !.app = x, !.patch = p,
           !.base = apps[x].fields, !.revision = apps[x].revision])
  BY DEF StartPatch
<1> DEFINE q == [Idle EXCEPT !.actor = a, !.app = x, !.patch = p, !.op = "patch",
                   !.base = apps[x].fields, !.revision = apps[x].revision]
<1>1. req' = [req EXCEPT ![r] = q] /\ UNCHANGED apps
  BY DEF Receive, Idle
<1>2. q.app = x /\ q.base = apps[x].fields /\ q.revision = apps[x].revision
  BY DEF Idle
<1>3. apps[x].revision \in Nat
  BY AppWithRevision DEF Shape, AppRecord
<1> HIDE DEF q
<1>4. req'[r] = q /\ \A t \in Request : t # r => req'[t] = req[t]
  BY <1>1 DEF Shape, TypeOK
<1> QED BY <1>1, <1>2, <1>3, <1>4 DEF PatchesFenced, PatchFenced

LEMMA KeepsPatchesFenced == Shape /\ PatchesFenced /\ [Next]_vars => PatchesFenced'
<1> SUFFICES ASSUME Shape, PatchesFenced, [Next]_vars PROVE PatchesFenced'
  OBVIOUS
<1>0. /\ req \in [Request -> RequestState] /\ Idle.op # "patch"
      /\ apps \in [App -> AppRecord \cup {NoApp}]
  BY DEF Shape, TypeOK, Idle
<1>1. ASSUME NEW r \in Request, Starts(r) PROVE PatchesFenced'
  <2>1. UNCHANGED apps
    BY <1>1, StartsShape DEF tables
  <2>2. \A t \in Request : t # r => req'[t] = req[t]
    BY <1>0, <1>1 DEF Starts, StartCreateApp, StartPatch, StartRemove, StartInvite,
       StartPlatformInvite, StartTransition, StartPlatformRevoke, StartAccept,
       StartMembershipAcceptance, StartPlatformAcceptance, StartSetAuthority,
       StartSetBlocked, Receive
  <2> QED BY <1>1, <2>1, <2>2, StartsOther, StartPatchFenced, FenceKept
<1>2. ASSUME NEW r \in Request, Abandon(r) PROVE PatchesFenced'
  BY <1>0, <1>2, FenceKept DEF Abandon
<1>3. CASE ListStep \/ Tick \/ UNCHANGED vars
  <2>1. UNCHANGED <<apps, req>>
    BY <1>3 DEF ListStep, StartList, NextPage, ReadRows, DeliverPage, EndList, Lists, Tick, vars
  <2> QED BY <2>1, FenceKept
<1>4. ASSUME NEW r \in Request, Batch(r) PROVE PatchesFenced'
  <2>1. \A t \in Request : req'[t] = req[t] \/ req'[t].op # "patch"
    BY <1>0, <1>4 DEF Batch, CreateApp, PatchApp, RemoveMember, InviteMember, InvitePlatform,
       TransitionInvitation, RevokePlatform, AcceptMembership, AcceptPlatform, SetAuthority,
       SetBlocked, Committing
  <2>2. CASE CreateApp(r)
    <3>1. PICK x \in App : apps[x] = NoApp /\ apps' = [apps EXCEPT ![x] = NewApp(req[r])]
      BY <2>2, AccessAssumption DEF CreateApp, Shape, TypeOK, AccessAssumption, Workload
    <3>2. ASSUME NEW t \in Request, req'[t].op = "patch" PROVE PatchFenced(req[t])'
      <4>1. req'[t] = req[t] /\ PatchFenced(req[t])
        BY <2>1, <3>2 DEF PatchesFenced
      <4>2. req[t].app \in App /\ req[t].revision \in Nat /\ req[t].revision # 0
        BY <1>0, <3>2, <4>1 DEF Shape, RequestShape, RequestState
      <4>3. req[t].app # x
        BY <3>1, <3>2, <4>1, <4>2 DEF PatchFenced, NoApp
      <4>4. apps'[req[t].app] = apps[req[t].app]
        BY <1>0, <3>1, <4>2, <4>3
      <4> QED BY <4>1, <4>4 DEF PatchFenced
    <3> QED BY <3>2 DEF PatchesFenced, PatchFenced
  <2>3. CASE PatchApp(r)
    <3> DEFINE q == req[r]
    <3>1. ASSUME NEW t \in Request, req'[t].op = "patch" PROVE PatchFenced(req[t])'
      <4>1. req'[t] = req[t] /\ PatchFenced(req[t])
        BY <2>1, <3>1 DEF PatchesFenced
      <4>2. req[t].app \in App /\ req[t].revision \in Nat
        BY <1>0, <3>1, <4>1 DEF Shape, RequestShape, RequestState
      <4>3. CASE req[t].app = q.app
        BY <2>3, <3>1, <4>1, <4>2, <4>3, PatchedRecord DEF PatchFenced
      <4>4. CASE req[t].app # q.app
        BY <2>3, <3>1, <4>1, <4>2, <4>4, PatchedRecord DEF PatchFenced
      <4> QED BY <4>3, <4>4
    <3> QED BY <3>1 DEF PatchesFenced, PatchFenced
  <2>4. CASE ~CreateApp(r) /\ ~PatchApp(r)
    <3>1. UNCHANGED apps
      BY <1>4, <2>4 DEF Batch, RemoveMember, InviteMember, InvitePlatform,
         TransitionInvitation, RevokePlatform, AcceptMembership, AcceptPlatform, SetAuthority,
         SetBlocked, InsertInvitation
    <3> QED BY <2>1, <3>1, FenceKept
  <2> QED BY <2>2, <2>3, <2>4
<1> QED BY <1>1, <1>2, <1>3, <1>4, StepKinds DEF QuietStep

LEMMA PatchStep ==
  ASSUME Shape, PatchesFenced, [Next]_vars, NEW x \in App, apps[x] # NoApp, apps'[x] # apps[x]
  PROVE  \E r \in Request :
           /\ req[r].op = "patch" /\ req[r].app = x
           /\ apps'[x].fields = Over(req[r].patch, apps[x].fields)
           /\ apps'[x].revision = apps[x].revision + 1
<1>1. PICK r \in Request : Batch(r)
  BY StepKinds, QuietShape DEF tables
<1>2. ~CreateApp(r)
  BY DEF CreateApp, Shape, TypeOK
<1>3. PatchApp(r)
  BY <1>1, <1>2 DEF Batch, RemoveMember, InviteMember, InvitePlatform,
     TransitionInvitation, RevokePlatform, AcceptMembership, AcceptPlatform, SetAuthority,
     SetBlocked, InsertInvitation
<1>4. req[r].app = x
  BY <1>3, PatchedRecord
<1>5. req[r].base = apps[x].fields
  BY <1>3, <1>4, PatchedRecord DEF PatchesFenced, PatchFenced
<1> QED BY <1>3, <1>4, <1>5, PatchedRecord

(* PatchKeepsOtherFields: the batch compares the revision that was read again, so that the
   fields it writes back are those of the record it replaces. *)
THEOREM PatchesKeepOtherFields == Spec => PatchKeepsOtherFields
<1> DEFINE A == \A x \in App : apps[x] # NoApp /\ apps'[x] # apps[x] =>
                  \E r \in Request :
                    /\ req[r].op = "patch" /\ req[r].app = x
                    /\ apps'[x].fields = Over(req[r].patch, apps[x].fields)
                    /\ apps'[x].revision = apps[x].revision + 1
<1>1. Init => PatchesFenced
  BY DEF Init, PatchesFenced, PatchFenced, Idle
<1>2. Shape /\ PatchesFenced /\ [Next]_vars => [A]_vars
  BY PatchStep
<1>3. PatchKeepsOtherFields <=> [][A]_vars
  BY DEF PatchKeepsOtherFields
<1> HIDE DEF A
<1> QED BY <1>1, <1>2, <1>3, AccessTypes, KeepsPatchesFenced, PTL DEF Spec

-----------------------------------------------------------------------------
(* The paged member list. *)

(* The members that the pages up to a position must hold. *)
UpTo(x, last) == {m \in members[x] : m <= last}

(* While the snapshot has not moved, the pages so far hold the members up to the last one
   delivered, and the page that was read is the first of what follows. *)
PagesSound ==
  listing.current =>
    /\ listing.pc \in {"rows", "page", "recheck"} =>
         listing.items = UpTo(listing.app, listing.last)
    /\ listing.pc = "recheck" =>
         LET rows == After(listing.app, listing.last) IN
         /\ listing.page = FirstPage(rows)
         /\ listing.more = (Cardinality(rows) > PageSize)
    /\ listing.pc = "listed" => listing.items = members[listing.app]

(* A page has no gaps: what is before one of its rows is in it. *)
LEMMA PageDownwardClosed ==
  ASSUME NEW rows \in SUBSET Account, NEW m \in rows, NEW n \in FirstPage(rows), m <= n
  PROVE  m \in FirstPage(rows)
<1> DEFINE A == {k \in rows : k < m}
           B == {k \in rows : k < n}
<1>0. Account \subseteq Nat /\ PageSize \in Nat
  BY AccessAssumption DEF AccessAssumption
<1>1. n \in rows /\ Cardinality(B) < PageSize
  BY DEF FirstPage
<1>a. \A k \in rows : k \in Int
  BY <1>0
<1>2. A \subseteq B
  BY <1>1, <1>a
<1>3. IsFiniteSet(A) /\ IsFiniteSet(B)
  BY FiniteAccounts
<1>4. Cardinality(A) \in Nat /\ Cardinality(B) \in Nat /\ Cardinality(A) <= Cardinality(B)
  BY <1>2, <1>3, FS_CardinalityType, FS_Subset
<1>5. Cardinality(A) < PageSize
  BY <1>0, <1>1, <1>4
<1> QED BY <1>5 DEF FirstPage

(* Rows that fit are one page. *)
LEMMA LastPage ==
  ASSUME NEW rows \in SUBSET Account, ~(Cardinality(rows) > PageSize)
  PROVE  FirstPage(rows) = rows
<1>0. Account \subseteq Nat /\ PageSize \in Nat
  BY AccessAssumption DEF AccessAssumption
<1> SUFFICES ASSUME NEW m \in rows PROVE Cardinality({n \in rows : n < m}) < PageSize
  BY DEF FirstPage
<1> DEFINE A == {n \in rows : n < m}
<1>1. A \subseteq rows /\ m \notin A
  BY <1>0
<1>2. IsFiniteSet(rows) /\ IsFiniteSet(A)
  BY FiniteAccounts
<1>3. Cardinality(A) \in Nat /\ Cardinality(rows) \in Nat /\ Cardinality(A) < Cardinality(rows)
  BY <1>1, <1>2, FS_CardinalityType, FS_Subset
<1> HIDE DEF A
<1>4. Cardinality(A) < PageSize
  BY <1>0, <1>3
<1> QED BY <1>4 DEF A

(* Adding the first page of the rest gives the members up to its last row. *)
LEMMA PageAdded ==
  ASSUME TypeOK, NEW x \in App, NEW last \in Nat,
         NEW l \in FirstPage(After(x, last)) \cup {last},
         \A m \in FirstPage(After(x, last)) : m <= l
  PROVE  /\ UpTo(x, last) \cup FirstPage(After(x, last)) = UpTo(x, l)
         /\ ~(Cardinality(After(x, last)) > PageSize) =>
              UpTo(x, last) \cup FirstPage(After(x, last)) = members[x]
<1> DEFINE rows == After(x, last)
           page == FirstPage(rows)
<1>0. Account \subseteq Nat /\ members[x] \subseteq Account
  BY AccessAssumption DEF AccessAssumption, TypeOK
<1>1. rows \in SUBSET Account /\ rows = {m \in members[x] : m > last} /\ page \subseteq rows
  BY <1>0 DEF After, FirstPage
<1>a. \A m \in members[x] : m \in Nat
  BY <1>0
<1>2. l \in Nat /\ last <= l
  <2>1. \A m \in page : m \in Nat /\ last <= m
    BY <1>1, <1>a
  <2> QED BY <2>1
<1>3. ASSUME NEW m \in members[x], m <= l, ~(m <= last) PROVE m \in page
  <2>1. m \in rows /\ l \in page
    BY <1>1, <1>2, <1>3, <1>a
  <2> QED BY <1>1, <1>3, <2>1, PageDownwardClosed
<1>4. UpTo(x, last) \cup page = UpTo(x, l)
  <2>1. UpTo(x, last) \subseteq UpTo(x, l)
    BY <1>a, <1>2 DEF UpTo
  <2>2. page \subseteq UpTo(x, l)
    BY <1>1 DEF UpTo
  <2>3. UpTo(x, l) \subseteq UpTo(x, last) \cup page
    BY <1>3 DEF UpTo
  <2> QED BY <2>1, <2>2, <2>3
<1>5. ~(Cardinality(rows) > PageSize) => UpTo(x, last) \cup page = members[x]
  <2> SUFFICES ASSUME ~(Cardinality(rows) > PageSize)
               PROVE  UpTo(x, last) \cup page = members[x]
    OBVIOUS
  <2>1. page = rows
    BY <1>1, LastPage
  <2>2. \A m \in members[x] : m <= last \/ m > last
    BY <1>a
  <2> QED BY <1>1, <2>1, <2>2 DEF UpTo
<1> QED BY <1>4, <1>5

(* A batch that changes the members moves the snapshot. *)
LEMMA MembersMoveSnapshot ==
  ASSUME Shape, NEW r \in Request, Batch(r)
  PROVE  listing'.current = FALSE \/ UNCHANGED <<listing, members>>
<1>0. AdvanceSnapshot => listing'.current = FALSE
  BY DEF AdvanceSnapshot, Shape, TypeOK, ListingState
<1>1. CASE RemoveMember(r)
  <2> DEFINE q == req[r]
  <2>1. CASE q.target \in members[q.app]
    BY <1>0, <1>1, <2>1 DEF RemoveMember, AdvanceIfRemoved
  <2>2. CASE q.target \notin members[q.app]
    <3>1. members[q.app] \ {q.target} = members[q.app]
      BY <2>2
    <3>2. UNCHANGED members
      BY <1>1, <3>1 DEF RemoveMember, Shape, TypeOK
    <3> QED BY <1>1, <2>2, <3>2 DEF RemoveMember, AdvanceIfRemoved
  <2> QED BY <2>1, <2>2
<1>2. CASE ~RemoveMember(r)
  BY <1>0, <1>2 DEF Batch, CreateApp, PatchApp, InviteMember, InvitePlatform,
     TransitionInvitation, RevokePlatform, AcceptMembership, AcceptPlatform, SetAuthority,
     SetBlocked, InsertInvitation
<1> QED BY <1>1, <1>2

LEMMA KeepsPagesSound == Shape /\ PagesSound /\ [Next]_vars => PagesSound'
<1> SUFFICES ASSUME Shape, PagesSound, [Next]_vars PROVE PagesSound'
  OBVIOUS
<1>0. /\ TypeOK /\ listing \in ListingState /\ ListingShape(listing)
      /\ Account \subseteq Nat \ {0}
  BY AccessAssumption DEF Shape, TypeOK, AccessAssumption
<1>a. UNCHANGED <<listing, members>> => PagesSound'
  BY DEF PagesSound, UpTo, After
<1>1. CASE (\E r \in Request : Starts(r) \/ Abandon(r)) \/ Tick \/ UNCHANGED vars
  <2>1. ASSUME NEW r \in Request, Starts(r) PROVE UNCHANGED <<listing, members>>
    <3>1. UNCHANGED members
      BY <2>1, StartsShape DEF tables
    <3>2. UNCHANGED listing
      BY <2>1 DEF Starts, StartCreateApp, StartPatch, StartRemove, StartInvite,
         StartPlatformInvite, StartTransition, StartPlatformRevoke, StartAccept,
         StartMembershipAcceptance, StartPlatformAcceptance, StartSetAuthority,
         StartSetBlocked, Receive
    <3> QED BY <3>1, <3>2
  <2>2. (\E r \in Request : Abandon(r)) \/ Tick \/ UNCHANGED vars
        => UNCHANGED <<listing, members>>
    BY DEF Abandon, Tick, vars
  <2> QED BY <1>1, <1>a, <2>1, <2>2
<1>2. ASSUME NEW r \in Request, Batch(r) PROVE PagesSound'
  BY <1>a, <1>2, MembersMoveSnapshot DEF PagesSound
<1>3. CASE StartList
  <2>1. PICK a \in Account, x \in App :
          Lists([NoListing EXCEPT !.pc = "rows", !.actor = a, !.app = x, !.current = TRUE])
    BY <1>3 DEF StartList
  <2>2. /\ listing'.pc = "rows" /\ listing'.app = x /\ listing'.items = {}
        /\ listing'.last = 0 /\ UNCHANGED members
    BY <2>1 DEF Lists, NoListing
  <2>3. UpTo(x, 0) = {}
    <3>1. \A m \in members[x] : m \in Nat /\ m # 0
      BY <1>0 DEF TypeOK
    <3> QED BY <3>1 DEF UpTo
  <2> QED BY <2>2, <2>3 DEF PagesSound, UpTo
<1>4. CASE NextPage
  <2>1. /\ listing.pc = "page" /\ listing'.pc = "rows" /\ listing'.app = listing.app
        /\ listing'.items = listing.items /\ listing'.last = listing.last
        /\ listing'.current = listing.current /\ UNCHANGED members
    BY <1>0, <1>4 DEF NextPage, Lists, ListingState
  <2> QED BY <2>1 DEF PagesSound, UpTo
<1>5. CASE ReadRows
  <2> DEFINE rows == After(listing.app, listing.last)
  <2>1. /\ listing.pc = "rows" /\ UNCHANGED members
        /\ listing' = [listing EXCEPT !.pc = "recheck", !.page = FirstPage(rows),
                         !.more = Cardinality(rows) > PageSize]
    BY <1>5 DEF ReadRows, Lists
  <2> DEFINE more == Cardinality(rows) > PageSize
  <2>2. /\ listing'.pc = "recheck" /\ listing'.app = listing.app
        /\ listing'.items = listing.items /\ listing'.last = listing.last
        /\ listing'.current = listing.current /\ listing'.page = FirstPage(rows)
        /\ listing'.more = more
    <3> HIDE DEF rows, more
    <3>1. listing' = [listing EXCEPT !.pc = "recheck", !.page = FirstPage(rows), !.more = more]
      BY <2>1 DEF more
    <3> QED BY <1>0, <3>1 DEF ListingState
  <2>3. After(listing.app, listing.last)' = rows
    BY <2>1, <2>2 DEF After
  <2>4. FirstPage(After(listing.app, listing.last))' = FirstPage(rows)
    BY <2>3 DEF FirstPage
  <2> QED BY <2>1, <2>2, <2>3, <2>4 DEF PagesSound, UpTo
<1>6. CASE DeliverPage
  <2>1. PICK last \in listing.page \cup {listing.last} :
          /\ \A m \in listing.page : m <= last
          /\ Lists([listing EXCEPT !.pc = IF listing.more THEN "page" ELSE "listed",
                 !.items = @ \cup listing.page, !.page = {}, !.last = last])
    BY <1>6 DEF DeliverPage
  <2>2. /\ listing.pc = "recheck" /\ listing.current /\ UNCHANGED members
        /\ listing'.pc = (IF listing.more THEN "page" ELSE "listed")
        /\ listing'.app = listing.app /\ listing'.last = last
        /\ listing'.items = listing.items \cup listing.page
    BY <1>0, <1>6, <2>1 DEF DeliverPage, Lists, ListingState
  <2> DEFINE rows == After(listing.app, listing.last)
  <2>3. /\ listing.app \in App /\ listing.last \in Nat
        /\ listing.items = UpTo(listing.app, listing.last)
        /\ listing.page = FirstPage(rows)
        /\ listing.more = (Cardinality(rows) > PageSize)
    BY <1>0, <2>2 DEF ListingShape, ListingState, PagesSound
  <2>4. listing'.items = UpTo(listing.app, last)
    BY <1>0, <2>1, <2>2, <2>3, PageAdded
  <2>5. ~listing.more => listing'.items = members[listing.app]
    <3>1. ~(Cardinality(rows) > PageSize) =>
            UpTo(listing.app, listing.last) \cup FirstPage(rows) = members[listing.app]
      BY <1>0, <2>1, <2>3, PageAdded
    <3> HIDE DEF rows
    <3>2. ~listing.more => ~(Cardinality(rows) > PageSize)
      BY <2>3
    <3> QED BY <2>2, <2>3, <3>1, <3>2
  <2> QED BY <2>2, <2>4, <2>5 DEF PagesSound, UpTo
<1>7. CASE EndList
  <2>1. ~listing'.current
    BY <1>7 DEF EndList, Lists, NoListing
  <2> QED BY <2>1 DEF PagesSound
<1> QED BY <1>1, <1>2, <1>3, <1>4, <1>5, <1>6, <1>7, StepKinds DEF QuietStep, ListStep

(* ListingIsWhole: a listing that was completed under one snapshot has every member of the
   App once, whatever the size of the pages, because every batch that changes a membership
   moves the snapshot. *)
THEOREM ListingsAreWhole == Spec => []ListingIsWhole
<1>1. Init => PagesSound
  BY DEF Init, PagesSound, NoListing
<1>2. PagesSound => ListingIsWhole
  BY DEF PagesSound, ListingIsWhole
<1> QED BY <1>1, <1>2, AccessTypes, KeepsPagesSound, PTL DEF Spec

=============================================================================
