----------------------------- MODULE BrowserCache -----------------------------
(***************************************************************************)
(* The node cache of a page: instances of one partition (endpoint and      *)
(* Principal) with a memory each, over one database whose transactions run *)
(* in the order in which they were opened.  A generation per instance tells *)
(* a load that began before a clear from one that began after it.  Reads,  *)
(* loads, clears and closes interleave at every await.                     *)
(***************************************************************************)
EXTENDS Naturals, Sequences, SequencesExt, FiniteSetsExt

CONSTANTS
    Instance,      \* caches of the page
    Reader,        \* concurrent reads
    Item,          \* cached nodes, by kind
    Size,          \* Item -> bytes
    Nobody,
    maxBytes, maxMemoryBytes, maxEntryBytes,
    MaxClears      \* bound on clears

ASSUME BrowserCacheAssumption ==
    /\ IsFiniteSet(Item) /\ \A n \in Item : Size[n] \in Nat \ {0}
    /\ maxBytes \in Nat /\ maxMemoryBytes \in Nat /\ maxEntryBytes \in Nat /\ MaxClears \in Nat

VARIABLES
    memory,      \* Instance -> entries, the least recently used first
    stored,      \* entries of the database, the least recently touched first
    queue,       \* transactions in the order they were opened
    generation, closed,
    reader,      \* the read each reader is in
    clearer,     \* the clear that is under way
    clears,      \* number of clears begun
    cleared      \* number of clears done

cacheVars == <<memory, stored, queue, generation, closed, reader, clearer, clears, cleared>>

\* An entry remembers how many clears had begun when its load began.
Entry(n, born) == [item |-> n, born |-> born]
Items(s) == {s[i].item : i \in DOMAIN s}
Holds(s, n) == \E i \in DOMAIN s : s[i].item = n
IndexOf(s, n) == CHOOSE i \in DOMAIN s : s[i].item = n
EntryOf(s, n) == s[IndexOf(s, n)]
Drop(s, n) == IF Holds(s, n) THEN RemoveAt(s, IndexOf(s, n)) ELSE s

\* An item is the key of its entry, of which there is one.
Weight(items) ==
    LET total[S \in SUBSET Item] ==
          IF S = {} THEN 0
          ELSE LET n == CHOOSE m \in S : TRUE IN Size[n] + total[S \ {n}]
    IN total[items]
Bytes(s) == Weight(Items(s))

\* Entries of the end that fit the limit: the oldest go first.
Fitting(s, limit) ==
    LET cut == Min({k \in 0..Len(s) : Bytes(SubSeq(s, k + 1, Len(s))) <= limit})
    IN SubSeq(s, cut + 1, Len(s))

\* remember
Remembered(s, e) ==
    IF Size[e.item] > maxMemoryBytes THEN Drop(s, e.item)
    ELSE Fitting(Append(Drop(s, e.item), e), maxMemoryBytes)

Idle == [pc |-> "idle", at |-> Nobody, item |-> Nobody, epoch |-> 0, born |-> 0, hit |-> <<>>]
InReader(r, pc) == reader[r].pc = pc
Stale(r) == closed[reader[r].at] \/ reader[r].epoch # generation[reader[r].at]
Step(r, pc) == reader' = [reader EXCEPT ![r].pc = pc]
Open(tx) == queue' = Append(queue, tx)

-----------------------------------------------------------------------------
(* get                                                                     *)

BeginRead(r, c, n) ==
    /\ InReader(r, "idle") /\ ~closed[c]
    /\ reader' = [reader EXCEPT ![r] =
          [pc |-> IF Holds(memory[c], n) THEN "touch" ELSE "lookup", at |-> c, item |-> n,
           epoch |-> generation[c], born |-> clears,
           hit |-> IF Holds(memory[c], n) THEN <<EntryOf(memory[c], n)>> ELSE <<>>]]
    /\ UNCHANGED <<memory, stored, queue, generation, closed, clearer, clears, cleared>>

OpenLookup(r) ==
    /\ InReader(r, "lookup")
    /\ IF closed[reader[r].at]
       THEN Step(r, "load") /\ UNCHANGED queue
       ELSE Step(r, "waiting") /\ Open([do |-> "get", by |-> r])
    /\ UNCHANGED <<memory, stored, generation, closed, clearer, clears, cleared>>

\* A hit of a generation that is over does not count.
Touch(r) ==
    /\ InReader(r, "touch")
    /\ IF Stale(r) \/ reader[r].hit = <<>>
       THEN Step(r, "load") /\ UNCHANGED <<memory, queue>>
       ELSE /\ memory' = [memory EXCEPT ![reader[r].at] = Remembered(@, Head(reader[r].hit))]
            /\ Open([do |-> "touch", by |-> r]) /\ Step(r, "waiting")
    /\ UNCHANGED <<stored, generation, closed, clearer, clears, cleared>>

Hit(r) ==
    /\ InReader(r, "hit")
    /\ IF Stale(r) THEN Step(r, "load") ELSE reader' = [reader EXCEPT ![r] = Idle]
    /\ UNCHANGED <<memory, stored, queue, generation, closed, clearer, clears, cleared>>

-----------------------------------------------------------------------------
(* load and put                                                            *)

TooLarge(n) == Size[n] > maxBytes \/ Size[n] > maxEntryBytes

\* The content has been consumed, or the load failed or was cancelled.
Loaded(r) ==
    /\ InReader(r, "load")
    /\ \/ reader' = [reader EXCEPT ![r] = Idle] /\ UNCHANGED memory
       \/ /\ ~Stale(r) /\ ~TooLarge(reader[r].item)
          /\ memory' = [memory EXCEPT ![reader[r].at] =
                Remembered(@, Entry(reader[r].item, reader[r].born))]
          /\ Step(r, "put")
    /\ UNCHANGED <<stored, queue, generation, closed, clearer, clears, cleared>>

\* Mutant: the generation is not compared again after the database opened.
MayWriteLate(r) == ~closed[reader[r].at]

MayWrite(r) == ~Stale(r)

OpenPut(r) ==
    /\ InReader(r, "put")
    /\ IF MayWrite(r)
       THEN Open([do |-> "put", by |-> r]) /\ Step(r, "waiting")
       ELSE reader' = [reader EXCEPT ![r] = Idle] /\ UNCHANGED queue
    /\ UNCHANGED <<memory, stored, generation, closed, clearer, clears, cleared>>

-----------------------------------------------------------------------------
(* clear and close                                                         *)

BeginClear(c) ==
    /\ clearer.pc = "idle" /\ clears < MaxClears
    /\ clearer' = [pc |-> "invalidated", at |-> c]
    /\ clears' = clears + 1
    /\ generation' = [d \in Instance |-> IF closed[d] THEN generation[d] ELSE generation[d] + 1]
    /\ memory' = [d \in Instance |-> <<>>]
    /\ UNCHANGED <<stored, queue, closed, reader, cleared>>

\* An instance that was closed has no database and clears nothing.
OpenClear ==
    /\ clearer.pc = "invalidated"
    /\ IF closed[clearer.at]
       THEN clearer' = [clearer EXCEPT !.pc = "idle"] /\ UNCHANGED queue
       ELSE clearer' = [clearer EXCEPT !.pc = "waiting"] /\ Open([do |-> "clear"])
    /\ UNCHANGED <<memory, stored, generation, closed, reader, clears, cleared>>

Close(c) ==
    /\ ~closed[c]
    /\ closed' = [closed EXCEPT ![c] = TRUE]
    /\ generation' = [generation EXCEPT ![c] = @ + 1]
    /\ memory' = [memory EXCEPT ![c] = <<>>]
    /\ UNCHANGED <<stored, queue, reader, clearer, clears, cleared>>

-----------------------------------------------------------------------------
(* The database runs the oldest transaction                                *)

RunGet(r) ==
    /\ reader' = [reader EXCEPT ![r].pc = "touch",
          ![r].hit = IF Holds(stored, reader[r].item) THEN <<EntryOf(stored, reader[r].item)>> ELSE <<>>]
    /\ UNCHANGED <<stored, clearer, cleared>>

RunTouch(r) ==
    /\ stored' = IF Holds(stored, reader[r].item)
                 THEN Append(Drop(stored, reader[r].item), EntryOf(stored, reader[r].item)) ELSE stored
    /\ Step(r, "hit")
    /\ UNCHANGED <<clearer, cleared>>

RunPut(r) ==
    /\ stored' = Fitting(Append(Drop(stored, reader[r].item), Entry(reader[r].item, reader[r].born)), maxBytes)
    /\ reader' = [reader EXCEPT ![r] = Idle]
    /\ UNCHANGED <<clearer, cleared>>

RunClear ==
    /\ stored' = <<>>
    /\ clearer' = [clearer EXCEPT !.pc = "idle"]
    /\ cleared' = clears
    /\ UNCHANGED reader

RunTransaction ==
    /\ queue # <<>> /\ queue' = Tail(queue)
    /\ LET tx == Head(queue) IN
       \/ tx.do = "get" /\ RunGet(tx.by)
       \/ tx.do = "touch" /\ RunTouch(tx.by)
       \/ tx.do = "put" /\ RunPut(tx.by)
       \/ tx.do = "clear" /\ RunClear
    /\ UNCHANGED <<memory, generation, closed, clears>>

CacheInit ==
    /\ memory = [c \in Instance |-> <<>>] /\ stored = <<>> /\ queue = <<>>
    /\ generation = [c \in Instance |-> 0] /\ closed = [c \in Instance |-> FALSE]
    /\ reader = [r \in Reader |-> Idle]
    /\ clearer = [pc |-> "idle", at |-> Nobody]
    /\ clears = 0 /\ cleared = 0

CacheNext ==
    \/ \E r \in Reader :
          \/ \E c \in Instance, n \in Item : BeginRead(r, c, n)
          \/ OpenLookup(r) \/ Touch(r) \/ Hit(r) \/ Loaded(r) \/ OpenPut(r)
    \/ \E c \in Instance : BeginClear(c) \/ Close(c)
    \/ OpenClear \/ RunTransaction

-----------------------------------------------------------------------------

\* Once a clear is done, the database holds nothing whose load began before
\* it, and neither memory nor database ever exceeds its limit: a load that
\* was in flight cannot write late, and evictions keep up with every order of
\* reads and writes.
ClearedStaysCleared ==
    /\ \A i \in DOMAIN stored : stored[i].born >= cleared
    /\ Bytes(stored) <= maxBytes
    /\ \A c \in Instance : Bytes(memory[c]) <= maxMemoryBytes

=============================================================================
