-------------------------------- MODULE Usage --------------------------------
(***************************************************************************)
(* Usage accounting of one App.  Triggers of the database keep a summary   *)
(* per Space while node rows and upload reservations change; a scheduled   *)
(* pass compares rows with the stored objects and rebuilds summaries; the  *)
(* App's garbage collection pages over the Spaces whose summary is not     *)
(* empty.  Rows written before the summaries existed are there at the      *)
(* start, and the backfill of the schema migration comes at some time.     *)
(* The bytes of a node are a function of its hash and its size is one      *)
(* unit.  canonical_observed_at and repaired_at matter only as an order:   *)
(* they are the position in a line, oldest first.                          *)
(***************************************************************************)
EXTENDS Integers, Sequences, FiniteSets, FiniteSetsExt, SequencesExt

CONSTANTS
    Space,        \* identifiers of Spaces, positive numbers in their order
    Node,         \* <<Space, hash>> pairs
    Legacy,       \* the nodes whose rows predate the summaries
    Null,
    MaxNodes,     \* rows a scheduled pass examines
    MaxSpaces,    \* Spaces of one garbage collection page
    MaxWrites     \* bound on the changes and failures of a behaviour

ASSUME UsageAssumption ==
    /\ Space \subseteq Nat \ {0} /\ IsFiniteSet(Space)
    /\ \A n \in Node : n[1] \in Space
    /\ IsFiniteSet(Node)
    /\ Legacy \subseteq Node
    /\ MaxNodes \in Nat \ {0} /\ MaxSpaces \in Nat \ {0} /\ MaxWrites \in Nat

VARIABLES
    d1,          \* the tables: rows, reserved, summary
    objects,     \* canonical objects in R2
    observedLine,  \* rows that were observed, the oldest observation first
    repairedLine,  \* Spaces whose summary was rebuilt, the oldest first
    backfilled,  \* the marker of the schema migration
    pass,        \* the scheduled pass
    sweep,       \* the App garbage collection
    steady,      \* history: Spaces with usage since the sweep began
    visited,     \* history: Spaces the sweep visited
    writes

lines == <<observedLine, repairedLine>>
usageVars == <<d1, objects, lines, backfilled, pass, sweep, steady, visited, writes>>

-----------------------------------------------------------------------------
(* Statements of the database with their triggers                          *)

Field == {"nodes", "stored", "reserved", "missing", "leased", "unobserved"}
Counters == [Field -> Int]
NodeRow == [leased : BOOLEAN, stored : {1, Null}, seen : BOOLEAN]

\* A missing row is no row.
ASSUME NullAssumption == Null \notin Counters /\ Null \notin NodeRow

Zero == [f \in Field |-> 0]
Unit(holds) == IF holds THEN 1 ELSE 0
Plus(u, v) == [f \in Field |-> u[f] + v[f]]
Less(u, v) == [f \in Field |-> u[f] - v[f]]

\* The columns of the summary that a row counts in, and what it adds there.
Counts(row, f) ==
    CASE f = "nodes" -> TRUE
      [] f = "stored" -> row.stored # Null
      [] f = "missing" -> row.seen /\ row.stored = Null
      [] f = "leased" -> row.leased
      [] f = "unobserved" -> ~row.seen
      [] f = "reserved" -> FALSE
Share(row) == [f \in Field |-> Unit(Counts(row, f))]

HasRow(n) == n \in Node /\ d1.rows[n] # Null
HasSummary(db, s) == db.summary[s] # Null
Counted(db, s) == IF HasSummary(db, s) THEN db.summary[s] ELSE Zero

\* The CHECK constraints of the table.
Legal(db) == \A s \in Space : HasSummary(db, s) => \A f \in Field : db.summary[s][f] \in Nat

\* The delete triggers drop a summary that counts nothing.
Tidy(u) == IF u.nodes = 0 /\ u.reserved = 0 THEN Null ELSE u

InsertRow(db, n, row) ==
    [db EXCEPT !.rows[n] = row, !.summary[n[1]] = Plus(Counted(db, n[1]), Share(row))]

\* Mutant: an observation is not counted again by the trigger.
UpdateRowUncounted(db, n, row) ==
    [db EXCEPT !.rows[n] = row]

UpdateRow(db, n, row) ==
    [db EXCEPT !.rows[n] = row,
               !.summary[n[1]] = Less(Plus(@, Share(row)), Share(db.rows[n]))]

DeleteRow(db, n) ==
    [db EXCEPT !.rows[n] = Null,
               !.summary[n[1]] = Tidy(Less(@, Share(db.rows[n])))]

InsertReservation(db, n) ==
    [db EXCEPT !.reserved = @ \cup {n},
               !.summary[n[1]] = [Counted(db, n[1]) EXCEPT !.reserved = @ + Unit(n \notin db.reserved)]]

DeleteReservation(db, n) ==
    IF n \notin db.reserved THEN db
    ELSE [db EXCEPT !.reserved = @ \ {n},
                    !.summary[n[1]] = Tidy([db.summary[n[1]] EXCEPT !.reserved = @ - 1])]

\* What the tables hold for a Space: a row counts one unit in its columns.
Counting(db, s, f) == {n \in Node : n[1] = s /\ db.rows[n] # Null /\ Counts(db.rows[n], f)}
Holding(db, s) == {n \in db.reserved : n[1] = s}
Tally(db, s) ==
    [f \in Field |-> Cardinality(IF f = "reserved" THEN Holding(db, s) ELSE Counting(db, s, f))]

\* The summary computed from the tables; there is none where they hold nothing.
Recount(db, s) == Tidy(Tally(db, s))

\* repairSpaceUsageProjection, one batch.
Repaired(db, s) == [db EXCEPT !.summary[s] = Recount(db, s)]

Summed(f) ==
    LET total[S \in SUBSET Space] ==
          IF S = {} THEN 0
          ELSE LET s == CHOOSE t \in S : TRUE IN Counted(d1, s)[f] + total[S \ {s}]
    IN total[Space]
AppUsage == [f \in Field |-> Summed(f)]
UsageUnavailable == AppUsage.unobserved > 0

BearingIn(db, s) == HasSummary(db, s) /\ (db.summary[s].nodes > 0 \/ db.summary[s].reserved > 0)
Bearing(s) == BearingIn(d1, s)

-----------------------------------------------------------------------------
(* The Space actors                                                        *)

Seen(n) == observedLine' = Append(SelectSeq(observedLine, LAMBDA m : m # n), n)
Write == writes < MaxWrites /\ writes' = writes + 1

\* Every change of the tables can take a Space out of the steady ones.
Change(db) ==
    /\ d1' = db
    /\ Legal(db)
    /\ steady' = {s \in steady : BearingIn(db, s)}

Reserve(n) ==
    /\ Write
    /\ Change(InsertReservation(d1, n))
    /\ UNCHANGED <<objects, lines, backfilled, pass, sweep, visited>>

StoreObject(n) ==
    /\ Write /\ n \in d1.reserved
    /\ objects' = objects \cup {n}
    /\ UNCHANGED <<d1, lines, backfilled, pass, sweep, steady, visited>>

\* The row is inserted or renewed, then the reservation goes, in one batch.
CommitNode(n) ==
    /\ Write /\ n \in objects
    /\ HasRow(n) => HasSummary(d1, n[1])
    /\ LET row == [leased |-> TRUE, stored |-> 1, seen |-> TRUE]
           db == IF HasRow(n) THEN UpdateRow(d1, n, row) ELSE InsertRow(d1, n, row)
       IN Change(DeleteReservation(db, n))
    /\ Seen(n)
    /\ UNCHANGED <<objects, repairedLine, backfilled, pass, sweep, visited>>

ReleaseReservation(n) ==
    /\ Write /\ n \in d1.reserved /\ HasSummary(d1, n[1])
    /\ Change(DeleteReservation(d1, n))
    /\ UNCHANGED <<objects, lines, backfilled, pass, sweep, visited>>

\* The backfill of migrateAppSpaceSchema, one batch under its marker.
Backfill ==
    /\ ~backfilled /\ backfilled' = TRUE
    /\ Change([d1 EXCEPT !.summary = [s \in Space |-> Recount(d1, s)]])
    /\ repairedLine' = <<>>
    /\ UNCHANGED <<objects, observedLine, pass, sweep, visited, writes>>

-----------------------------------------------------------------------------
(* The scheduled pass                                                      *)

Unobserved == {n \in Node : HasRow(n) /\ ~d1.rows[n].seen}
Ahead(m, n) == m[1] < n[1] \/ (m[1] = n[1] /\ m[2] < n[2])

\* Mutant: a pass serves only rows that were never observed.
OldestRowsUnobserved == SetToSortSeq(Unobserved, Ahead)

OldestRows ==
    LET all == IF Unobserved # {} THEN SetToSortSeq(Unobserved, Ahead) ELSE observedLine
    IN SubSeq(all, 1, Min({MaxNodes, Len(all)}))

StartPass ==
    /\ pass.pc = "idle"
    /\ pass' = [pc |-> "head", todo |-> OldestRows, found |-> FALSE]
    /\ UNCHANGED <<d1, objects, lines, backfilled, sweep, steady, visited, writes>>

Skip == pass' = [pass EXCEPT !.pc = "head", !.todo = Tail(@)]

HeadObject ==
    /\ pass.pc = "head" /\ pass.todo # <<>>
    /\ pass' = [pass EXCEPT !.pc = "write", !.found = Head(pass.todo) \in objects]
    /\ UNCHANGED <<d1, objects, lines, backfilled, sweep, steady, visited, writes>>

HeadFails ==
    /\ pass.pc = "head" /\ pass.todo # <<>> /\ Write /\ Skip
    /\ UNCHANGED <<d1, objects, lines, backfilled, sweep, steady, visited>>

Observation(n) == [d1.rows[n] EXCEPT !.stored = IF pass.found THEN 1 ELSE Null, !.seen = TRUE]

\* The update is accepted unless the summary is missing or would go below
\* zero; a row that is gone is left alone.
Accepted(n) ==
    /\ HasSummary(d1, n[1])
    /\ Legal(UpdateRow(d1, n, Observation(n)))

MarkRepaired(s) == repairedLine' = Append(SelectSeq(repairedLine, LAMBDA t : t # s), s)

WriteNodeObservation ==
    /\ pass.pc = "write"
    /\ LET n == Head(pass.todo) IN
       \/ ~HasRow(n) /\ UNCHANGED <<d1, steady, lines>>
       \/ HasRow(n) /\ Accepted(n)
          /\ Change(UpdateRow(d1, n, Observation(n))) /\ Seen(n) /\ UNCHANGED repairedLine
    /\ Skip
    /\ UNCHANGED <<objects, backfilled, sweep, visited, writes>>

\* The update failed: the summary is rebuilt and the update tried again.
RepairForObservation ==
    /\ pass.pc = "write"
    /\ LET n == Head(pass.todo) IN
       /\ HasRow(n) /\ ~Accepted(n)
       /\ Change(Repaired(d1, n[1])) /\ MarkRepaired(n[1])
    /\ UNCHANGED <<objects, observedLine, backfilled, pass, sweep, visited, writes>>

\* repaired_at is 0 until the first repair.
Later(s, t) ==
    LET at(x) == IF x \in Range(repairedLine)
                 THEN CHOOSE i \in DOMAIN repairedLine : repairedLine[i] = x ELSE 0
    IN at(s) < at(t) \/ (at(s) = at(t) /\ s < t)

RepairOldestSpaceUsageProjection ==
    /\ pass.pc = "head" /\ pass.todo = <<>>
    /\ LET all == {s \in Space : HasSummary(d1, s)} IN
       IF all = {} THEN UNCHANGED <<d1, steady, repairedLine>>
       ELSE LET s == CHOOSE x \in all : \A y \in all \ {x} : Later(x, y)
            IN Change(Repaired(d1, s)) /\ MarkRepaired(s)
    /\ pass' = [pass EXCEPT !.pc = "idle"]
    /\ UNCHANGED <<objects, observedLine, backfilled, sweep, visited, writes>>

PassWork ==
    \/ StartPass \/ HeadObject \/ WriteNodeObservation
    \/ RepairForObservation \/ RepairOldestSpaceUsageProjection

-----------------------------------------------------------------------------
(* The App garbage collection                                              *)

\* listUsageBearingSpaceIds, and the first of them in the order of identifiers.
BearingAfter(s) == {t \in Space : Bearing(t) /\ t > s}
FirstOf(rows) == {t \in rows : Cardinality({u \in rows : u < t}) < MaxSpaces}

StartSweep ==
    /\ sweep.pc = "idle" /\ Write
    /\ sweep' = [pc |-> "list", cursor |-> 0, page |-> {}, last |-> 0, more |-> FALSE]
    /\ steady' = {s \in Space : Bearing(s)} /\ visited' = {}
    /\ UNCHANGED <<d1, objects, lines, backfilled, pass>>

ListPage ==
    /\ sweep.pc = "list"
    /\ LET rows == BearingAfter(sweep.cursor)
           page == FirstOf(rows)
       IN sweep' = [sweep EXCEPT !.pc = "visit", !.page = page,
                                 !.more = Cardinality(rows) > MaxSpaces,
                                 !.last = IF page = {} THEN @ ELSE Max(page)]
    /\ UNCHANGED <<d1, objects, lines, backfilled, pass, steady, visited, writes>>

\* The Spaces of a page are visited in their order.
AtSpace(s) == sweep.pc = "visit" /\ s \in sweep.page /\ \A t \in sweep.page : s <= t

Visited(s) ==
    /\ visited' = visited \cup {s}
    /\ sweep' = [sweep EXCEPT !.page = @ \ {s}]

\* A Space answers a request that deletes one node; the loop asks again.
CollectNodeOf(s, n) ==
    /\ AtSpace(s)
    /\ n[1] = s /\ HasRow(n) /\ n \notin d1.reserved /\ HasSummary(d1, s)
    /\ Change(DeleteRow(d1, n))
    /\ objects' = objects \ {n}
    /\ observedLine' = SelectSeq(observedLine, LAMBDA m : m # n)
    /\ UNCHANGED <<repairedLine, backfilled, pass, sweep, visited, writes>>

\* A request that deletes nothing, or uses up the budget, ends the visit.
FinishSpace(s) ==
    /\ AtSpace(s) /\ Visited(s)
    /\ UNCHANGED <<d1, objects, lines, backfilled, pass, steady, writes>>

\* The object was deleted and the row could not be: the request fails, and
\* the client calls again with the cursor it had.
CollectionFails(n) ==
    /\ AtSpace(n[1]) /\ HasRow(n) /\ n \notin d1.reserved /\ Write
    /\ objects' = objects \ {n}
    /\ sweep' = [sweep EXCEPT !.pc = "list", !.page = {}]
    /\ UNCHANGED <<d1, lines, backfilled, pass, steady, visited>>

\* Mutant: the next page starts after the Space that follows.
NextCursorSkips ==
    sweep' = [sweep EXCEPT !.pc = IF sweep.more THEN "list" ELSE "done", !.cursor = sweep.last + 1]

NextCursor ==
    sweep' = [sweep EXCEPT !.pc = IF sweep.more THEN "list" ELSE "done", !.cursor = sweep.last]

FinishPage ==
    /\ sweep.pc = "visit" /\ sweep.page = {} /\ NextCursor
    /\ UNCHANGED <<d1, objects, lines, backfilled, pass, steady, visited, writes>>

UsageInit ==
    /\ d1 = [rows |-> [n \in Node |-> IF n \in Legacy
                         THEN [leased |-> FALSE, stored |-> Null, seen |-> FALSE] ELSE Null],
             reserved |-> {},
             summary |-> [s \in Space |-> Null]]
    /\ objects = Legacy
    /\ observedLine = <<>> /\ repairedLine = <<>> /\ backfilled = FALSE
    /\ pass = [pc |-> "idle", todo |-> <<>>, found |-> FALSE]
    /\ sweep = [pc |-> "idle", cursor |-> 0, page |-> {}, last |-> 0, more |-> FALSE]
    /\ steady = {} /\ visited = {} /\ writes = 0

UsageNext ==
    \/ \E n \in Node : Reserve(n) \/ StoreObject(n) \/ CommitNode(n) \/ ReleaseReservation(n)
    \/ Backfill
    \/ PassWork \/ HeadFails
    \/ StartSweep \/ ListPage \/ FinishPage
    \/ \E s \in Space : FinishSpace(s)
    \/ \E n \in Node : CollectNodeOf(n[1], n) \/ CollectionFails(n)

-----------------------------------------------------------------------------

\* Once the backfill ran, every summary that the triggers kept equals the one
\* computed from the tables, and the App's usage is their sum: no order of
\* commits, releases, collections, observations and repairs loses a unit.
SummaryExact ==
    backfilled =>
        /\ \A s \in Space : d1.summary[s] = Recount(d1, s)
        /\ ~UsageUnavailable =>
              AppUsage.nodes = AppUsage.stored + AppUsage.missing

\* A sweep that is over visited every Space that had usage all the while,
\* although its own collections, uploads and failed pages changed the list.
SweepVisitsSteady == sweep.pc = "done" => steady \subseteq visited

\* When nothing changes any more, the passes correct what a race between an
\* object and its row had left wrong, with or without the backfill: rows tell
\* whether their object is stored, and summaries count them.
UsageSettles ==
    /\ <>[](\A n \in Node : HasRow(n) => d1.rows[n].seen /\ (d1.rows[n].stored = 1) = (n \in objects))
    /\ <>[](\A s \in Space : d1.summary[s] = Recount(d1, s))

=============================================================================
