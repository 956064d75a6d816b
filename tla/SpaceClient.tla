----------------------------- MODULE SpaceClient -----------------------------
(***************************************************************************)
(* The credentials of a Space client: one current capability per class of  *)
(* permissions, one acquisition in flight per class, and the transport     *)
(* that sends a request, invalidates a rejected capability and replays a   *)
(* read once.  Requests of the same client interleave at every await; the  *)
(* provider may issue narrow capabilities, and they expire.                *)
(***************************************************************************)
EXTENDS Naturals, FiniteSets

CONSTANTS
    Request,      \* concurrent calls of the client's operations
    Demand,       \* [space, permission, class, replay] that operations require
    NoCapability,
    MaxIssued     \* bound on the capabilities the provider issues

Class == {d.class : d \in Demand}
Grant == {<<d.space, d.permission>> : d \in Demand}
Capability == [id : Nat, grants : SUBSET Grant]

ASSUME SpaceClientAssumption == MaxIssued \in Nat /\ NoCapability \notin Capability

VARIABLES
    current,    \* the current capability of a class
    flight,     \* the acquisition in flight of a class
    request,    \* the call each request is in
    issued,     \* number of capabilities issued so far
    expiring,   \* capabilities that are expired or about to be
    dropped     \* history: capabilities that were invalidated

clientVars == <<current, flight, request, issued, expiring, dropped>>

NoFlight == [for |-> {}, old |-> NoCapability]
Quiet == [pc |-> "idle", demand |-> {}, forced |-> FALSE, sent |-> 0, with |-> NoCapability]

Want(r) == CHOOSE d \in request[r].demand : TRUE
In(r, pc) == request[r].pc = pc
Covers(cap, d) == <<d.space, d.permission>> \in cap.grants
Usable(cap, d) == cap # NoCapability /\ cap.id \notin expiring /\ Covers(cap, d)
Flying(k) == flight[k] # NoFlight

\* Mutant: a rejected capability stays current in the classes that borrowed it.
WithoutOne(cap) ==
    [k \in Class |-> IF current[k] = cap /\ (\A j \in Class \ {k} : current[j] # cap)
                     THEN NoCapability ELSE current[k]]

\* invalidate: every class that holds the capability lets it go.
Without(cap) == [k \in Class |-> IF current[k] = cap THEN NoCapability ELSE current[k]]

Send(r, cap) == request' = [request EXCEPT ![r].pc = "send", ![r].with = cap]
Settle(r) == request' = [request EXCEPT ![r] = Quiet]

BeginRequest(r, d) ==
    /\ In(r, "idle")
    /\ request' = [request EXCEPT ![r] = [Quiet EXCEPT !.pc = "resolve", !.demand = {d}]]
    /\ UNCHANGED <<current, flight, issued, expiring, dropped>>

-----------------------------------------------------------------------------
(* resolve and acquire                                                     *)

UseCurrent(r) ==
    /\ In(r, "resolve") /\ ~request[r].forced
    /\ Usable(current[Want(r).class], Want(r))
    /\ Send(r, current[Want(r).class])
    /\ UNCHANGED <<current, flight, issued, expiring, dropped>>

\* Without a current capability another class may lend its own.
Borrow(r, k) ==
    /\ In(r, "resolve") /\ ~request[r].forced
    /\ current[Want(r).class] = NoCapability
    /\ Usable(current[k], Want(r))
    /\ current' = [current EXCEPT ![Want(r).class] = current[k]]
    /\ Send(r, current[k])
    /\ UNCHANGED <<flight, issued, expiring, dropped>>

\* The current capability does not serve, or none can be borrowed.
MustAcquire(r) ==
    LET d == Want(r) IN
    \/ request[r].forced
    \/ /\ ~Usable(current[d.class], d)
       /\ current[d.class] = NoCapability => \A k \in Class : ~Usable(current[k], d)

\* An acquisition in flight is shared when it replaces a current capability;
\* otherwise the request waits for it and resolves again.
Acquire(r) ==
    /\ In(r, "resolve") /\ MustAcquire(r)
    /\ LET k == Want(r).class
           shares == ~request[r].forced /\ current[k] # NoCapability
       IN IF Flying(k)
          THEN /\ request' = [request EXCEPT ![r].pc = IF shares THEN "join" ELSE "wait"]
               /\ UNCHANGED flight
          ELSE /\ flight' = [flight EXCEPT ![k] = [for |-> {Want(r)}, old |-> current[k]]]
               /\ request' = [request EXCEPT ![r].pc = "join"]
    /\ UNCHANGED <<current, issued, expiring, dropped>>

At(k, pc) == {r \in Request : In(r, pc) /\ Want(r).class = k}

\* The provider grants what was asked, or all that the client ever asks.
Provided(d) == {{<<d.space, d.permission>>}, Grant}

Provide(k, grants) ==
    /\ Flying(k) /\ issued < MaxIssued
    /\ LET cap == [id |-> issued + 1, grants |-> grants] IN
       /\ issued' = issued + 1
       /\ current' = [Without(flight[k].old) EXCEPT ![k] = cap]
       /\ dropped' = dropped \cup ({flight[k].old} \ {NoCapability})
       /\ request' = [r \in Request |->
             IF r \in At(k, "join") THEN [request[r] EXCEPT !.pc = "send", !.with = cap]
             ELSE IF r \in At(k, "wait") THEN [request[r] EXCEPT !.pc = "resolve"]
             ELSE request[r]]
    /\ flight' = [flight EXCEPT ![k] = NoFlight]
    /\ UNCHANGED expiring

ProviderFails(k) ==
    /\ Flying(k)
    /\ flight' = [flight EXCEPT ![k] = NoFlight]
    /\ request' = [r \in Request |-> IF r \in At(k, "join") \cup At(k, "wait") THEN Quiet ELSE request[r]]
    /\ UNCHANGED <<current, issued, expiring, dropped>>

-----------------------------------------------------------------------------
(* The transport                                                           *)

Accepted(r) ==
    /\ In(r, "send") /\ Covers(request[r].with, Want(r))
    /\ Settle(r)
    /\ UNCHANGED <<current, flight, issued, expiring, dropped>>

Invalidate(r) ==
    /\ current' = Without(request[r].with)
    /\ dropped' = dropped \cup {request[r].with}

\* 401 invalid_token: a read is replayed once with another capability.
RejectToken(r) ==
    /\ In(r, "send")
    /\ LET again == request[r].sent = 0 /\ Want(r).replay IN
       /\ IF again
          THEN request' = [request EXCEPT ![r].pc = "resolve", ![r].forced = TRUE, ![r].sent = 1]
          ELSE Settle(r)
       /\ IF request[r].sent = 0 THEN Invalidate(r) ELSE UNCHANGED <<current, dropped>>
    /\ UNCHANGED <<flight, issued, expiring>>

\* 403: the capability does not cover the request.
RejectScope(r) ==
    /\ In(r, "send") /\ ~Covers(request[r].with, Want(r))
    /\ Settle(r)
    /\ IF request[r].sent = 0 THEN Invalidate(r) ELSE UNCHANGED <<current, dropped>>
    /\ UNCHANGED <<flight, issued, expiring>>

Expire ==
    /\ \E id \in 1..issued : id \notin expiring /\ expiring' = expiring \cup {id}
    /\ UNCHANGED <<current, flight, request, issued, dropped>>

ClientInit ==
    /\ current = [k \in Class |-> NoCapability]
    /\ flight = [k \in Class |-> NoFlight]
    /\ request = [r \in Request |-> Quiet]
    /\ issued = 0 /\ expiring = {} /\ dropped = {}

ClientNext ==
    \/ \E r \in Request :
          \/ \E d \in Demand : BeginRequest(r, d)
          \/ UseCurrent(r) \/ Acquire(r) \/ Accepted(r) \/ RejectToken(r) \/ RejectScope(r)
          \/ \E k \in Class : Borrow(r, k)
    \/ \E k \in Class :
          \/ ProviderFails(k)
          \/ Flying(k) /\ \E grants \in UNION {Provided(d) : d \in flight[k].for} : Provide(k, grants)
    \/ Expire

-----------------------------------------------------------------------------

\* A capability that the server rejected, or that another replaced, is never
\* handed out again, whichever classes had borrowed it and whatever requests
\* were waiting.
DroppedStaysDropped ==
    \A k \in Class : current[k] \notin dropped

=============================================================================
