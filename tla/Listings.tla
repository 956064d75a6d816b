------------------------------- MODULE Listings -------------------------------
(***************************************************************************)
(* Paged reads.  Root balances and Root events of an App are read by       *)
(* revision; Apps, accounts, invitations, people and audit events of the   *)
(* control plane are read under the control snapshot.  Every statement is  *)
(* a step, so writers, the clock and other readers come in between.  A row *)
(* is its place in the order of the listing.                               *)
(***************************************************************************)
EXTENDS Naturals, Sequences, FiniteSets, FiniteSetsExt, SequencesExt

CONSTANTS
    Row,           \* places in the order of a listing, positive numbers
    Traversal,     \* concurrent traversals
    Limit,         \* rows of a page
    Attempts,      \* tries of a first page of Root balances
    MaxWrites,     \* bound on writes
    MaxListingClock, \* bound on the clock
    Listing        \* the listings that are explored

ASSUME ListingsAssumption ==
    /\ Row \subseteq Nat \ {0} /\ IsFiniteSet(Row) /\ Limit \in Nat \ {0} /\ Attempts \in Nat \ {0}
    /\ MaxWrites \in Nat /\ MaxListingClock \in Nat
    /\ Listing \subseteq {"refs", "events", "apps", "accounts", "people", "platform", "invitations",
                          "appAudit", "platformAudit"}

VARIABLES
    balances,    \* cas_app_root_refs: the rows with a balance
    events,      \* cas_app_root_events: the row each revision changed
    directory,   \* rows of the control plane: [state, expires]
    snapshot,    \* the control snapshot
    clock,
    traversal,   \* the request each traversal is in, and what it has so far
    writes

listingVars == <<balances, events, directory, snapshot, clock, traversal, writes>>

Revision == Len(events)
NoExpiry == MaxListingClock + 1

-----------------------------------------------------------------------------
(* Writers                                                                 *)

Write == writes < MaxWrites /\ writes' = writes + 1

\* A Root update changes the balance, the revision and the events together.
UpdateRoot(r) ==
    /\ Write
    /\ balances' = IF r \in balances THEN balances \ {r} ELSE balances \cup {r}
    /\ events' = Append(events, r)
    /\ UNCHANGED <<directory, snapshot, clock, traversal>>

\* A traversal notes rows that came without an advance of the snapshot.
Late(r) == traversal' = [q \in Traversal |-> [traversal[q] EXCEPT !.late = @ \cup {r}]]

\* A first sign-in adds an account and a requested collection an audit event;
\* neither advances the snapshot, and either can fall before other rows.
AddUnannounced(r) ==
    /\ Write /\ directory[r].state = "absent"
    /\ directory' = [directory EXCEPT ![r].state = "new"]
    /\ Late(r)
    /\ UNCHANGED <<balances, events, snapshot, clock>>

Invite(r, e) ==
    /\ Write /\ directory[r].state = "absent" /\ e > clock
    /\ directory' = [directory EXCEPT ![r] = [state |-> "pending", expires |-> e]]
    /\ snapshot' = snapshot + 1
    /\ UNCHANGED <<balances, events, clock, traversal>>

Announced(r, s) ==
    /\ directory' = [directory EXCEPT ![r].state = s]
    /\ snapshot' = snapshot + 1
    /\ UNCHANGED <<balances, events, clock, traversal>>

\* An invitation is accepted or revoked before it is over.
AnswerInvitation(r, s) ==
    /\ Write /\ directory[r].state = "pending" /\ directory[r].expires > clock
    /\ s \in {"accepted", "revoked"} /\ Announced(r, s)

\* An App that is created, with the membership of its creator.
JoinApp(r) == Write /\ directory[r].state = "absent" /\ Announced(r, "member")

\* A membership that goes, or a change of authority that a filter sees.
RemoveMember(r) == Write /\ directory[r].state = "member" /\ Announced(r, "gone")

ListingTick ==
    /\ clock < MaxListingClock /\ clock' = clock + 1
    /\ UNCHANGED <<balances, events, directory, snapshot, traversal, writes>>

-----------------------------------------------------------------------------
(* Requests                                                                *)

Rest == [pc |-> "idle", kind |-> "none", cursor |-> 0, version |-> 0, tries |-> 0, asOf |-> 0,
         expires |-> NoExpiry, page |-> <<>>, items |-> <<>>, first |-> {}, late |-> {}]

InTraversal(q, pc) == traversal[q].pc = pc
Move(q, r) == traversal' = [traversal EXCEPT ![q] = r]
Reads == UNCHANGED <<balances, events, directory, snapshot, clock, writes>>
ControlKind == {"apps", "accounts", "people", "platform", "invitations", "appAudit", "platformAudit"}

\* The first page of a listing.
Traverse(q, k) ==
    /\ InTraversal(q, "idle") /\ k \in Listing
    /\ Move(q, [Rest EXCEPT !.pc = IF k = "invitations" THEN "sweep" ELSE "version", !.kind = k,
                            !.asOf = clock, !.late = {}])
    /\ Reads

\* The cursor of platform invitations carries the time of its first page.
FollowCursor(q) ==
    /\ InTraversal(q, "more")
    /\ Move(q, [traversal[q] EXCEPT
          !.pc = IF traversal[q].kind = "invitations" THEN "sweep" ELSE "version",
          !.asOf = IF traversal[q].kind = "platform" THEN @ ELSE clock])
    /\ Reads

Refuse(q) == Move(q, Rest)

\* ORDER BY: the i-th row is the one that i - 1 others come before.
RowsBefore(r, s) == {x \in s : x < r}
Ascending(s) == [i \in 1..Cardinality(s) |-> CHOOSE r \in s : Cardinality(RowsBefore(r, s)) = i - 1]
Later(c, s) == Ascending({r \in s : r > c})
FirstRows(s) == SubSeq(s, 1, Min({Limit + 1, Len(s)}))

\* Invitations that are pending and over at the time of the request.
Projected(r, t) ==
    IF directory[r].state = "pending" /\ directory[r].expires <= t THEN "expired" ELSE directory[r].state

\* What each listing is about, when asked for those who have access now: the
\* Apps of a member, accounts with access, current people (members, accounts and
\* pending invitations), pending invitations of the platform and of an App.
AppRows == {r \in Row : directory[r].state = "member"}
AccountRows == {r \in Row : directory[r].state \in {"member", "new"}}
PeopleRows(t) == {r \in Row : Projected(r, t) \in {"member", "new", "pending"}}
PlatformInvitationRows(t) == {r \in Row : Projected(r, t) = "pending"}
AppInvitationRows == {r \in Row : directory[r].state = "pending"}

\* Audit events stay: what was ever written has one.
AppAuditRows == {r \in Row : directory[r].state # "absent"}
PlatformAuditRows == {r \in Row : directory[r].state # "absent"}

Matches(kind, t) ==
    CASE kind = "apps" -> AppRows
      [] kind = "accounts" -> AccountRows
      [] kind = "people" -> PeopleRows(t)
      [] kind = "platform" -> PlatformInvitationRows(t)
      [] kind = "invitations" -> AppInvitationRows
      [] kind = "appAudit" -> AppAuditRows
      [] kind = "platformAudit" -> PlatformAuditRows

ListApps(q) == Traverse(q, "apps")
ListPlatformAccounts(q) == Traverse(q, "accounts")
ListPeople(q) == Traverse(q, "people")
ListPlatformInvitations(q) == Traverse(q, "platform")
ListAppMemberInvitations(q) == Traverse(q, "invitations")
ListAppAuditEvents(q) == Traverse(q, "appAudit")
ListPlatformAuditEvents(q) == Traverse(q, "platformAudit")
ListAppRootRefs(q) == Traverse(q, "refs")
ListAppRootEvents(q) == Traverse(q, "events")

Over(t) == {r \in Row : directory[r].state = "pending" /\ directory[r].expires <= t}

-----------------------------------------------------------------------------
(* Listings under the control snapshot                                     *)

\* App invitations that are over are marked before the snapshot is read, each
\* with an advance of the snapshot.
SweepExpired(q) ==
    /\ InTraversal(q, "sweep")
    /\ IF Over(traversal[q].asOf) = {}
       THEN Move(q, [traversal[q] EXCEPT !.pc = "version"]) /\ UNCHANGED <<directory, snapshot>>
       ELSE /\ directory' = [directory EXCEPT ![Min(Over(traversal[q].asOf))].state = "expired"]
            /\ snapshot' = snapshot + 1
            /\ UNCHANGED traversal
    /\ UNCHANGED <<balances, events, clock, writes>>

FirstPage(q) == traversal[q].cursor = 0

ReadSnapshot(q) ==
    /\ InTraversal(q, "version") /\ traversal[q].kind \in ControlKind
    /\ \/ FirstPage(q)
          /\ Move(q, [traversal[q] EXCEPT
                !.pc = IF traversal[q].kind = "people" THEN "expiry" ELSE "rows",
                !.version = snapshot, !.first = Matches(traversal[q].kind, traversal[q].asOf), !.late = {}])
       \/ ~FirstPage(q) /\ traversal[q].version # snapshot /\ Refuse(q)
       \/ ~FirstPage(q) /\ traversal[q].version = snapshot
          /\ IF traversal[q].kind = "people" /\ traversal[q].expires <= traversal[q].asOf
             THEN Refuse(q) ELSE Move(q, [traversal[q] EXCEPT !.pc = "rows"])
    /\ Reads

\* Mutant: a traversal of people does not look for the next end.
NextExpiryNone(q) ==
    /\ InTraversal(q, "expiry")
    /\ Move(q, [traversal[q] EXCEPT !.pc = "rows"])
    /\ Reads

\* nextExpiry: the end of the invitation that is over next.
NextExpiry(q) ==
    /\ InTraversal(q, "expiry")
    /\ LET ends == {directory[r].expires : r \in {p \in Row : directory[p].state = "pending"}}
           ahead == {e \in ends : e > traversal[q].asOf}
       IN Move(q, [traversal[q] EXCEPT !.pc = "rows", !.expires = Min(ahead \cup {NoExpiry})])
    /\ Reads

ReadRows(q) ==
    /\ InTraversal(q, "rows") /\ traversal[q].kind \in ControlKind
    /\ Move(q, [traversal[q] EXCEPT !.pc = "recheck",
          !.page = FirstRows(Later(traversal[q].cursor, Matches(traversal[q].kind, traversal[q].asOf)))])
    /\ Reads

\* The page joins what the traversal has; its last row is the next cursor.
Joined(q) ==
    LET rows == traversal[q].page
        page == SubSeq(rows, 1, Min({Limit, Len(rows)}))
    IN [traversal[q] EXCEPT !.pc = IF Len(rows) > Limit THEN "more" ELSE "done",
                         !.items = @ \o page, !.page = <<>>,
                         !.cursor = IF page = <<>> THEN @ ELSE Last(page)]

UnchangedSince(q) ==
    /\ traversal[q].version = snapshot
    /\ traversal[q].kind = "people" => traversal[q].expires > clock

Deliver(q) ==
    /\ InTraversal(q, "recheck") /\ traversal[q].kind \in ControlKind
    /\ IF UnchangedSince(q) THEN Move(q, Joined(q)) ELSE Refuse(q)
    /\ Reads

-----------------------------------------------------------------------------
(* Root balances (listAppRootRefs)                                         *)

ReadRevision(q) ==
    /\ InTraversal(q, "version") /\ traversal[q].kind = "refs"
    /\ IF ~FirstPage(q) /\ traversal[q].version # Revision THEN Refuse(q)
       ELSE Move(q, [traversal[q] EXCEPT !.pc = "rows", !.version = Revision, !.tries = @ + 1])
    /\ Reads

ReadBalances(q) ==
    /\ InTraversal(q, "rows") /\ traversal[q].kind = "refs"
    /\ Move(q, [traversal[q] EXCEPT !.pc = "recheck", !.page = FirstRows(Later(traversal[q].cursor, balances))])
    /\ Reads

\* Mutant: the revision is not read again after the rows.
SameRevisionAssumed(q) == TRUE

SameRevision(q) == traversal[q].version = Revision

\* A first page is tried again; a later one is refused at once.
DeliverBalances(q) ==
    /\ InTraversal(q, "recheck") /\ traversal[q].kind = "refs"
    /\ \/ SameRevision(q) /\ Move(q, [Joined(q) EXCEPT !.tries = 0])
       \/ ~SameRevision(q) /\ FirstPage(q) /\ traversal[q].tries < Attempts
          /\ Move(q, [traversal[q] EXCEPT !.pc = "version", !.page = <<>>])
       \/ ~SameRevision(q) /\ (~FirstPage(q) \/ traversal[q].tries >= Attempts) /\ Refuse(q)
    /\ Reads

-----------------------------------------------------------------------------
(* Root events (listAppRootEvents)                                         *)

ReadWatermark(q) ==
    /\ InTraversal(q, "version") /\ traversal[q].kind = "events"
    /\ Move(q, [traversal[q] EXCEPT !.pc = "rows", !.version = Revision])
    /\ Reads

\* Mutant: a page that is cut short also ends at the watermark.
NextAfterWatermark(rows, after, latest) == Max({after, latest})

NextAfter(rows, after, latest) ==
    IF Len(rows) > Limit THEN rows[Limit] ELSE Max({after, latest})

\* The rows of a page are those of the wanted Space (the even places).
Wanted(r) == r % 2 = 0

ReadEvents(q) ==
    /\ InTraversal(q, "rows") /\ traversal[q].kind = "events"
    /\ LET found == {n \in 1..Len(events) : n <= traversal[q].version /\ Wanted(events[n])}
           rows == FirstRows(Later(traversal[q].cursor, found))
       IN Move(q, [traversal[q] EXCEPT !.pc = "more",
             !.items = @ \o SubSeq(rows, 1, Min({Limit, Len(rows)})),
             !.cursor = NextAfter(rows, @, traversal[q].version)])
    /\ Reads

-----------------------------------------------------------------------------

Leave(q) == traversal[q].pc \in {"more", "done"} /\ Refuse(q) /\ Reads

ListingsInit ==
    /\ balances \in {{}, Row} /\ events = <<>>
    /\ directory \in {[r \in Row |-> [state |-> s[r], expires |-> IF s[r] = "pending" THEN 1 ELSE NoExpiry]] :
                       s \in [Row -> {"absent", "member", "pending"}]}
    /\ snapshot = 0 /\ clock = 0 /\ writes = 0
    /\ traversal = [q \in Traversal |-> Rest]

RootWriter == \E r \in Row : UpdateRoot(r)

ControlWriter ==
    \/ \E r \in Row :
          \/ AddUnannounced(r) \/ JoinApp(r) \/ RemoveMember(r)
          \/ \E e \in 1..MaxListingClock : Invite(r, e)
          \/ \E s \in {"accepted", "revoked"} : AnswerInvitation(r, s)
    \/ ListingTick

Reading(q) ==
    \/ ListApps(q) \/ ListPlatformAccounts(q) \/ ListPeople(q)
    \/ ListPlatformInvitations(q) \/ ListAppMemberInvitations(q)
    \/ ListAppAuditEvents(q) \/ ListPlatformAuditEvents(q)
    \/ ListAppRootRefs(q) \/ ListAppRootEvents(q)
    \/ FollowCursor(q) \/ Leave(q)
    \/ SweepExpired(q) \/ ReadSnapshot(q) \/ NextExpiry(q) \/ ReadRows(q) \/ Deliver(q)
    \/ ReadRevision(q) \/ ReadBalances(q) \/ DeliverBalances(q)
    \/ ReadWatermark(q) \/ ReadEvents(q)

-----------------------------------------------------------------------------

\* The rows that had a balance after the first n updates.
BalancesAt(n) ==
    LET flips(r) == Cardinality({i \in n + 1..Len(events) : events[i] = r})
    IN {r \in Row : (r \in balances) = (flips(r) % 2 = 0)}

\* The pages of a completed traversal of Root balances are together, each row
\* once and in order, the balances of the one revision they report: updates
\* between and inside the pages never mix two revisions.
RefsOfOneRevision ==
    \A q \in Traversal : InTraversal(q, "done") /\ traversal[q].kind = "refs"
        => traversal[q].items = Later(0, BalancesAt(traversal[q].version))

\* Whoever follows the event pages has every wanted event up to the point
\* they continue from, once and in order: a watermark that moves while pages
\* are read, a cut page and filtered events leave no gap.
EventsWithoutGap ==
    \A q \in Traversal : InTraversal(q, "more") /\ traversal[q].kind = "events"
        => traversal[q].items = Later(0, {n \in 1..traversal[q].cursor : Wanted(events[n])})

\* A completed traversal of the control plane shows the rows that matched when
\* it began, each once and in order, plus at most rows that came without an
\* advance of the snapshot: writes, invitations that end in between and the
\* sweep of other readers never drop, repeat or mix in a row.
ListedAsOfStart ==
    \A q \in Traversal : InTraversal(q, "done") /\ traversal[q].kind \in ControlKind =>
        LET listed == {traversal[q].items[i] : i \in DOMAIN traversal[q].items} IN
        /\ traversal[q].items = Later(0, listed)
        /\ listed \ traversal[q].late = traversal[q].first

\* Whoever reads page by page gets what one statement would have given: of one
\* revision, without a gap, or as of the first page.
PagesAgree == RefsOfOneRevision /\ EventsWithoutGap /\ ListedAsOfStart

=============================================================================
