------------------------------- MODULE Issuers -------------------------------
(***************************************************************************)
(* The issuers of capability tokens.  A member of an App has an issuer     *)
(* inspected and then activates it with a proof of possession; the Space   *)
(* verifier looks issuers up through a cache that may serve stale records  *)
(* within a bound, and checks tokens with the issuer's published keys.     *)
(* Every await is a step, so operators, calls, changes of the published    *)
(* documents and outages of the registry interleave.                       *)
(***************************************************************************)
EXTENDS Naturals, FiniteSets

CONSTANTS
    App, Issuer, Key,
    Inspection,    \* identifiers of inspections
    Operator,      \* members of Apps who register issuers
    Call,          \* concurrent requests to Spaces
    Token,         \* [issuer, key, app]: who signed, and for which App's route
    Document,      \* what a metadata location can answer
    NoOne,         \* no App, issuer or inspection
    CacheTtl,      \* cacheTtlMs
    HardBound,     \* hardStaleBoundMs
    MaxClock,      \* bound on the clock
    MaxChanges     \* bound on changes of documents, Apps and of failures

ASSUME IssuersAssumption ==
    /\ NoOne \notin App \cup Issuer \cup Inspection
    /\ CacheTtl \in Nat /\ HardBound \in Nat /\ CacheTtl < HardBound
    /\ MaxClock \in Nat /\ MaxChanges \in Nat
    /\ \A d \in Document : d.keys \subseteq Key
    /\ Token \subseteq [issuer : Issuer, key : Key, app : App]

VARIABLES
    registry,     \* cas_app_oauth_issuers: App -> [issuer, revision]
    suspended,    \* Apps whose status is suspended
    inspections,  \* cas_oauth_issuer_inspections with their keys
    documents,    \* what issuers publish: Issuer -> kind -> Document
    operator,     \* the request each operator is in
    authorities,  \* the verifier's cache: Issuer -> [app, denied, at]
    keySets,      \* the verifier's remote key sets: Issuer -> keys
    call,         \* the request each caller is in
    lostAt,       \* history: when the registry stopped to answer <<issuer, App>>
    now, changes

registryVars == <<registry, suspended, inspections, documents, operator>>
verifierVars == <<authorities, keySets, call>>
issuerVars == <<registryVars, verifierVars, lostAt, now, changes>>

Kinds == {"oauth", "oidc"}
NoRow == [issuer |-> NoOne, revision |-> 0]
Nothing == [app |-> NoOne]
Never == MaxClock + HardBound + 1

Changed == changes < MaxChanges /\ changes' = changes + 1

-----------------------------------------------------------------------------
(* Discovery (CloudflareOAuthDiscoveryPort.inspectIssuer)                  *)

\* parseOAuthMetadata and parseOAuthJwks: the document names the issuer, the
\* locations are safe, S256 is offered and the key set is well formed.
ValidMetadata(i, d) == d.issuer = i /\ d.s256 /\ d.safe
ValidKeys(d) == d.keys # {} /\ ~d.private
Discoverable(i, d) == ValidMetadata(i, d) /\ ValidKeys(d)

\* The OAuth location is tried first and the OpenID location after it.
Found(i) ==
    IF Discoverable(i, documents[i]["oauth"]) THEN {documents[i]["oauth"]}
    ELSE IF Discoverable(i, documents[i]["oidc"]) THEN {documents[i]["oidc"]}
    ELSE {}

\* The keys at the location that the issuer's key set is read from.
Published(i) == UNION {d.keys : d \in Found(i)}

-----------------------------------------------------------------------------
(* Inspection and activation (AccountService and its repository)           *)

Elsewhere(i, a) == \E b \in App \ {a} : registry[b].issuer = i

Resting == [pc |-> "idle", app |-> NoOne, issuer |-> NoOne, keys |-> {}, id |-> NoOne, expect |-> 0]

BeginInspect(o, a, i) ==
    /\ operator[o].pc = "idle"
    /\ \E n \in Inspection : inspections[n].app = NoOne
    /\ ~Elsewhere(i, a)
    /\ operator' = [operator EXCEPT ![o] = [Resting EXCEPT !.pc = "discover", !.app = a, !.issuer = i]]
    /\ UNCHANGED <<registry, suspended, inspections, documents, verifierVars, lostAt, now, changes>>

InspectIssuer(o) ==
    /\ operator[o].pc = "discover"
    /\ LET i == operator[o].issuer IN
       operator' = [operator EXCEPT ![o] =
          IF Found(i) = {} THEN Resting ELSE [@ EXCEPT !.pc = "inspect", !.keys = Published(i)]]
    /\ UNCHANGED <<registry, suspended, inspections, documents, verifierVars, lostAt, now, changes>>

\* commitInspectAccountOAuthIssuer: the uniqueness of the issuer is checked
\* again in the batch that records the inspection.
CommitInspection(o) ==
    /\ operator[o].pc = "inspect"
    /\ LET j == operator[o]
           free == {n \in Inspection : inspections[n].app = NoOne}
       IN /\ operator' = [operator EXCEPT ![o] = Resting]
          /\ IF Elsewhere(j.issuer, j.app) \/ free = {} THEN UNCHANGED inspections
             ELSE LET n == CHOOSE m \in free : TRUE IN
                  inspections' = [inspections EXCEPT ![n] =
                     [app |-> j.app, issuer |-> j.issuer, keys |-> j.keys, open |-> TRUE]]
    /\ UNCHANGED <<registry, suspended, documents, verifierVars, lostAt, now, changes>>

ExpireInspection(n) ==
    /\ inspections[n].open /\ Changed
    /\ inspections' = [inspections EXCEPT ![n].open = FALSE]
    /\ UNCHANGED <<registry, suspended, documents, operator, verifierVars, lostAt, now>>

\* The proof is a JWS over the challenge of the inspection: its key must be
\* among the inspected ones, whatever the issuer publishes by now.
ProvenBy(n, k) == k \in inspections[n].keys

\* activateAppOAuthIssuer up to its commit: precondition, inspection and
\* proof are checked against what is read here.
BeginActivate(o, n, k) ==
    /\ operator[o].pc = "idle"
    /\ inspections[n].app # NoOne /\ inspections[n].open
    /\ ProvenBy(n, k)
    /\ ~Elsewhere(inspections[n].issuer, inspections[n].app)
    /\ operator' = [operator EXCEPT ![o] =
          [pc |-> "activate", app |-> inspections[n].app, issuer |-> inspections[n].issuer,
           keys |-> {k}, id |-> n, expect |-> registry[inspections[n].app].revision]]
    /\ UNCHANGED <<registry, suspended, inspections, documents, verifierVars, lostAt, now, changes>>

\* Mutant: the revision read before the checks is not compared again.
CommittableUnfenced(j) ==
    inspections[j.id].open /\ ~Elsewhere(j.issuer, j.app)

\* commitActivateAccountOAuthIssuer: revision, consumption of the inspection
\* and the unique index hold in one batch, or nothing is written.
Committable(j) ==
    /\ registry[j.app].revision = j.expect
    /\ inspections[j.id].open
    /\ ~Elsewhere(j.issuer, j.app)

\* The registry answers an issuer with its App as long as it is registered
\* and the App is not suspended.
Answers(i, a) == registry[a].issuer = i /\ a \notin suspended

\* Pairs that the registry stops to answer are stamped.
Lost == lostAt' = [p \in Issuer \X App |->
                     IF Answers(p[1], p[2]) /\ ~Answers(p[1], p[2])' THEN now ELSE lostAt[p]]

CommitActivation(o) ==
    /\ operator[o].pc = "activate"
    /\ LET j == operator[o] IN
       IF Committable(j)
       THEN /\ registry' = [registry EXCEPT ![j.app] = [issuer |-> j.issuer, revision |-> j.expect + 1]]
            /\ inspections' = [inspections EXCEPT ![j.id].open = FALSE]
       ELSE UNCHANGED <<registry, inspections>>
    /\ operator' = [operator EXCEPT ![o] = Resting]
    /\ UNCHANGED <<suspended, documents, verifierVars, now, changes>>
    /\ Lost

Suspend(a) ==
    /\ Changed
    /\ suspended' = IF a \in suspended THEN suspended \ {a} ELSE suspended \cup {a}
    /\ UNCHANGED <<registry, inspections, documents, operator, verifierVars, now>>
    /\ Lost

Publish(i, kind, d) ==
    /\ Changed
    /\ documents' = [documents EXCEPT ![i][kind] = d]
    /\ UNCHANGED <<registry, suspended, inspections, operator, verifierVars, lostAt, now>>

-----------------------------------------------------------------------------
(* The verifier (AppSpaceCapabilityVerifier)                               *)

\* resolveIssuer: the issuer is unique, so at most one App has it.
Resolve(i) == {[app |-> a, denied |-> a \in suspended] : a \in {b \in App : registry[b].issuer = i}}

NoCall == [pc |-> "idle", issuer |-> NoOne, key |-> NoOne, app |-> NoOne, start |-> 0,
           cached |-> Nothing, authority |-> Nothing]

Age(c) == call[c].start - call[c].cached.at
IsCached(r) == r # Nothing

Refused(c) == [call EXCEPT ![c] = NoCall]
WithAuthority(c, r) == [call EXCEPT ![c].pc = "keys", ![c].authority = r]

\* A record younger than the TTL is used at once.
BeginCall(c, t) ==
    /\ call[c].pc = "idle"
    /\ LET i == t.issuer
           young == IsCached(authorities[i]) /\ now - authorities[i].at < CacheTtl
       IN call' = [call EXCEPT ![c] =
          [pc |-> IF young THEN "keys" ELSE "fetch", issuer |-> i, key |-> t.key, app |-> t.app,
           start |-> now, cached |-> authorities[i],
           authority |-> IF young THEN authorities[i] ELSE Nothing]]
    /\ UNCHANGED <<registryVars, authorities, keySets, lostAt, now, changes>>

\* The record is as old as the request that fetched it; a refresh of a known
\* issuer drops its key set.
FetchAnswers(c) ==
    /\ call[c].pc = "fetch"
    /\ LET i == call[c].issuer IN
       \/ \E r \in Resolve(i) :
             LET fresh == [app |-> r.app, denied |-> r.denied, at |-> call[c].start] IN
             /\ authorities' = [authorities EXCEPT ![i] = fresh]
             /\ keySets' = IF IsCached(call[c].cached) THEN [keySets EXCEPT ![i] = {}] ELSE keySets
             /\ call' = WithAuthority(c, fresh)
       \/ /\ Resolve(i) = {}
          /\ authorities' = IF IsCached(call[c].cached)
                            THEN [authorities EXCEPT ![i] = Nothing] ELSE authorities
          /\ call' = Refused(c)
          /\ UNCHANGED keySets
    /\ UNCHANGED <<registryVars, lostAt, now, changes>>

\* Mutant: a record of any age is served while the registry is down.
MayServeStaleAny(c) == IsCached(call[c].cached)

MayServeStale(c) == IsCached(call[c].cached) /\ Age(c) < HardBound

FetchFails(c) ==
    /\ call[c].pc = "fetch" /\ Changed
    /\ LET i == call[c].issuer IN
       IF MayServeStale(c)
       THEN call' = WithAuthority(c, call[c].cached) /\ UNCHANGED authorities
       ELSE /\ call' = Refused(c)
            /\ authorities' = IF IsCached(call[c].cached)
                              THEN [authorities EXCEPT ![i] = Nothing] ELSE authorities
    /\ UNCHANGED <<registryVars, keySets, lostAt, now>>

\* The key set is fetched on its first use, and again for an unknown key
\* outside the cooldown of the library.
CheckToken(c) ==
    /\ call[c].pc = "keys"
    /\ LET i == call[c].issuer
           r == call[c].authority
       IN \E keys \in (IF keySets[i] = {} THEN {Published(i)}
                       ELSE IF call[c].key \notin keySets[i] THEN {keySets[i], Published(i)}
                       ELSE {keySets[i]}) :
          IF r.denied THEN call' = Refused(c) /\ UNCHANGED keySets
          ELSE /\ keySets' = [keySets EXCEPT ![i] = keys]
               /\ IF call[c].key \in keys /\ r.app = call[c].app
                  THEN call' = [call EXCEPT ![c].pc = "granted"]
                  ELSE call' = Refused(c)
    /\ UNCHANGED <<registryVars, authorities, lostAt, now, changes>>

EndCall(c) ==
    /\ call[c].pc = "granted"
    /\ call' = Refused(c)
    /\ UNCHANGED <<registryVars, authorities, keySets, lostAt, now, changes>>

Tick ==
    /\ now < MaxClock /\ now' = now + 1
    /\ UNCHANGED <<registryVars, verifierVars, lostAt, changes>>

-----------------------------------------------------------------------------

\* Some Apps are registered already; nothing else has happened.
IssuersInit(registered, published) ==
    /\ registry = registered
    /\ documents = published
    /\ suspended = {}
    /\ inspections = [n \in Inspection |-> [app |-> NoOne, issuer |-> NoOne, keys |-> {}, open |-> FALSE]]
    /\ operator = [o \in Operator |-> Resting]
    /\ authorities = [i \in Issuer |-> Nothing]
    /\ keySets = [i \in Issuer |-> {}]
    /\ call = [c \in Call |-> NoCall]
    /\ lostAt = [p \in Issuer \X App |-> Never]
    /\ now = 0 /\ changes = 0

RegistryNext ==
    \/ \E o \in Operator :
          \/ \E a \in App, i \in Issuer : BeginInspect(o, a, i)
          \/ InspectIssuer(o) \/ CommitInspection(o) \/ CommitActivation(o)
          \/ \E n \in Inspection, k \in Key : BeginActivate(o, n, k)
    \/ \E n \in Inspection : ExpireInspection(n)
    \/ \E a \in App : Suspend(a)
    \/ \E i \in Issuer, kind \in Kinds, d \in Document : Publish(i, kind, d)

VerifierNext ==
    \/ \E c \in Call :
          \/ \E t \in Token : BeginCall(c, t)
          \/ FetchAnswers(c) \/ FetchFails(c) \/ CheckToken(c) \/ EndCall(c)
    \/ Tick

-----------------------------------------------------------------------------

\* A change of an App's issuer replaces the record its request saw, with an
\* open inspection made for that App and proved with an inspected key, and no
\* two Apps ever share an issuer: inspections, activations and expiries that
\* overlap never combine into a record nobody proved.
ActivationFenced ==
    [][\A a \in App : registry'[a] # registry[a] =>
          /\ registry'[a].revision = registry[a].revision + 1
          /\ \A b \in App \ {a} : registry[b].issuer # registry'[a].issuer
          /\ \E o \in Operator, n \in Inspection :
                /\ operator[o].expect = registry[a].revision
                /\ inspections[n].app = a /\ inspections[n].issuer = registry'[a].issuer
                /\ inspections[n].open /\ ~inspections'[n].open
                /\ operator[o].keys \subseteq inspections[n].keys]_issuerVars

\* A call is granted only for an App to which the registry gave the token's
\* issuer, unsuspended, less than the hard bound before the call began:
\* whatever the cache, concurrent refreshes and outages do.
GrantWithinBound ==
    \A c \in Call : call[c].pc = "granted" =>
        \/ Answers(call[c].issuer, call[c].app)
        \/ lostAt[<<call[c].issuer, call[c].app>>] # Never
           /\ lostAt[<<call[c].issuer, call[c].app>>] + HardBound > call[c].start

=============================================================================
