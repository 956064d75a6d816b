---------------------------- MODULE AccessProofs -----------------------------
(* Theorems about the parts around the service, for any number of Apps, issuers, operators
   and calls, of requests of a client, of nodes and uploaders, of command line processes,
   of rows, pages and traversals, and of operators who reset the smoke deployment. *)
EXTENDS Access, FiniteSetTheorems, SequenceTheorems, TLAPS

(* A step of the whole is a step of one part and leaves the others alone. *)

LEMMA AccessStep ==
  ASSUME [Next]_vars
  PROVE  /\ [RegistryNext \/ VerifierNext]_issuerVars
         /\ [ClientNext]_clientVars /\ [CliNext]_cliVars
         /\ [CanonicalUploadNext]_cuVars /\ [ResetNext]_resetVars
<1>1. CASE UNCHANGED vars
  BY <1>1 DEF vars, clientSide, serviceSide
<1>2. CASE IssuerStep /\ UNCHANGED <<clientSide, serviceSide>>
  <2>1. RegistryNext \/ VerifierNext
    BY <1>2 DEF IssuerStep, RegistryNext, Kinds
  <2> QED BY <1>2, <2>1 DEF clientSide, serviceSide
<1>3. CASE ClientStep /\ UNCHANGED <<issuerVars, serviceSide>>
  BY <1>3 DEF ClientStep, serviceSide
<1>4. CASE ServiceStep /\ UNCHANGED <<issuerVars, clientSide>>
  BY <1>4 DEF ServiceStep, clientSide
<1> QED BY <1>1, <1>2, <1>3, <1>4 DEF Next

(* The issuers: inspection and activation. *)

Rows == [issuer : Issuer \cup {NoOne}, revision : Nat]
Inspections == [app : App \cup {NoOne}, issuer : Issuer \cup {NoOne}, keys : SUBSET Key, open : BOOLEAN]
Jobs == [pc : {"idle", "discover", "inspect", "activate"}, app : App \cup {NoOne},
         issuer : Issuer \cup {NoOne}, keys : SUBSET Key, id : Inspection \cup {NoOne}, expect : Nat]

RegistryShape ==
  /\ registry \in [App -> Rows]
  /\ inspections \in [Inspection -> Inspections]
  /\ documents \in [Issuer -> [Kinds -> Document]]
  /\ operator \in [Operator -> Jobs]

\* What an operator's request works on: an App and an issuer while it discovers; once it
\* activates, the App, issuer and keys of the inspection it names.  Inspections are
\* written once, so that stays true until the commit.
JobsTrue ==
  \A o \in Operator :
    /\ operator[o].pc \in {"discover", "inspect"} => operator[o].app \in App /\ operator[o].issuer \in Issuer
    /\ operator[o].pc = "activate" =>
         /\ operator[o].app \in App /\ operator[o].id \in Inspection
         /\ inspections[operator[o].id].app = operator[o].app
         /\ inspections[operator[o].id].issuer = operator[o].issuer
         /\ operator[o].keys \subseteq inspections[operator[o].id].keys

RegistryInv == RegistryShape /\ JobsTrue

LEMMA RestingJob == Resting \in Jobs /\ Resting.pc = "idle"
BY DEF Resting, Jobs

LEMMA PublishedKeys ==
  ASSUME RegistryShape, NEW i \in Issuer
  PROVE  Published(i) \subseteq Key
<1>1. documents[i]["oauth"] \in Document /\ documents[i]["oidc"] \in Document
  BY DEF RegistryShape, Kinds
<1>2. Found(i) \subseteq Document
  BY <1>1 DEF Found
<1> QED BY <1>2, IssuersAssumption DEF IssuersAssumption, Published

\* The operators' jobs when one of them changes and the inspections do not lose anything.
LEMMA JobMoves ==
  ASSUME RegistryInv, NEW o \in Operator, NEW j \in Jobs,
         operator' = [operator EXCEPT ![o] = j],
         inspections' \in [Inspection -> Inspections], registry' \in [App -> Rows],
         documents' = documents,
         \A n \in Inspection : inspections[n].app # NoOne =>
            /\ inspections'[n].app = inspections[n].app
            /\ inspections'[n].issuer = inspections[n].issuer
            /\ inspections'[n].keys = inspections[n].keys,
         j.pc \in {"discover", "inspect"} => j.app \in App /\ j.issuer \in Issuer,
         j.pc = "activate" =>
           /\ j.app \in App /\ j.id \in Inspection
           /\ inspections[j.id].app = j.app /\ inspections[j.id].issuer = j.issuer
           /\ j.keys \subseteq inspections[j.id].keys
  PROVE  RegistryInv'
<1>1. RegistryShape'
  BY DEF RegistryInv, RegistryShape
<1>2. JobsTrue'
  <2> SUFFICES ASSUME NEW p \in Operator
               PROVE  /\ operator'[p].pc \in {"discover", "inspect"} => operator'[p].app \in App /\ operator'[p].issuer \in Issuer
                      /\ operator'[p].pc = "activate" =>
                           /\ operator'[p].app \in App /\ operator'[p].id \in Inspection
                           /\ inspections'[operator'[p].id].app = operator'[p].app
                           /\ inspections'[operator'[p].id].issuer = operator'[p].issuer
                           /\ operator'[p].keys \subseteq inspections'[operator'[p].id].keys
    BY DEF JobsTrue
  <2>0. \A a \in App : a # NoOne
    BY IssuersAssumption DEF IssuersAssumption
  <2>1. CASE p = o
    <3>1. operator'[p] = j
      BY <2>1 DEF RegistryInv, RegistryShape
    <3> QED BY <2>0, <3>1
  <2>2. CASE p # o
    <3>1. operator'[p] = operator[p]
      BY <2>2 DEF RegistryInv, RegistryShape
    <3> QED BY <2>0, <3>1 DEF RegistryInv, JobsTrue
  <2> QED BY <2>1, <2>2
<1> QED BY <1>1, <1>2 DEF RegistryInv

LEMMA KeepsRegistryInv ==
  RegistryInv /\ [RegistryNext \/ VerifierNext]_issuerVars => RegistryInv'
<1> SUFFICES ASSUME RegistryInv, [RegistryNext \/ VerifierNext]_issuerVars PROVE RegistryInv'
  OBVIOUS
<1>0. RegistryShape /\ JobsTrue
  BY DEF RegistryInv
<1>1. ASSUME NEW o \in Operator, NEW a \in App, NEW i \in Issuer, BeginInspect(o, a, i) PROVE RegistryInv'
  <2> DEFINE j == [Resting EXCEPT !.pc = "discover", !.app = a, !.issuer = i]
  <2>1. j \in Jobs /\ j.pc = "discover" /\ j.app = a /\ j.issuer = i
    BY DEF Resting, Jobs
  <2> HIDE DEF j
  <2>2. operator' = [operator EXCEPT ![o] = j]
    BY <1>1 DEF BeginInspect, j
  <2> QED BY <1>0, <1>1, <2>1, <2>2, JobMoves DEF BeginInspect, RegistryShape
<1>2. ASSUME NEW o \in Operator, InspectIssuer(o) PROVE RegistryInv'
  <2> DEFINE j == IF Found(operator[o].issuer) = {} THEN Resting
                  ELSE [operator[o] EXCEPT !.pc = "inspect", !.keys = Published(operator[o].issuer)]
  <2>1. operator[o] \in Jobs /\ operator[o].app \in App /\ operator[o].issuer \in Issuer
    BY <1>0, <1>2 DEF InspectIssuer, JobsTrue, RegistryShape
  <2>2. Published(operator[o].issuer) \subseteq Key
    BY <1>0, <2>1, PublishedKeys
  <2>3. j \in Jobs /\ (j.pc = "idle" \/ (j.pc = "inspect" /\ j.app = operator[o].app /\ j.issuer = operator[o].issuer))
    BY <2>1, <2>2, RestingJob DEF Jobs
  <2>4. operator' = [operator EXCEPT ![o] = j]
    BY <1>0, <1>2 DEF InspectIssuer, RegistryShape
  <2> HIDE DEF j
  <2> QED BY <1>0, <1>2, <2>1, <2>3, <2>4, JobMoves DEF InspectIssuer, RegistryShape
<1>3. ASSUME NEW o \in Operator, CommitInspection(o) PROVE RegistryInv'
  <2> DEFINE j == operator[o]
             free == {n \in Inspection : inspections[n].app = NoOne}
             n1 == CHOOSE m \in free : TRUE
             new == [app |-> j.app, issuer |-> j.issuer, keys |-> j.keys, open |-> TRUE]
  <2>1. operator' = [operator EXCEPT ![o] = Resting] /\ registry' = registry /\ documents' = documents
    BY <1>3 DEF CommitInspection
  <2>2. CASE inspections' = inspections
    BY <1>0, <2>1, <2>2, RestingJob, JobMoves DEF RegistryShape
  <2>3. CASE free # {} /\ inspections' = [inspections EXCEPT ![n1] = new]
    <3>1. n1 \in free
      BY <2>3
    <3>2. new \in Inspections
      BY <1>0 DEF RegistryShape, Jobs, Inspections
    <3> HIDE DEF new
    <3>3. inspections' \in [Inspection -> Inspections]
      BY <1>0, <2>3, <3>1, <3>2 DEF RegistryShape
    <3>4. \A n \in Inspection : inspections[n].app # NoOne => inspections'[n] = inspections[n]
      BY <1>0, <2>3, <3>1 DEF RegistryShape
    <3> QED BY <1>0, <2>1, <3>3, <3>4, RestingJob, JobMoves DEF RegistryShape
  <2> QED BY <1>3, <2>2, <2>3 DEF CommitInspection
<1>4. ASSUME NEW o \in Operator, NEW n \in Inspection, NEW k \in Key, BeginActivate(o, n, k) PROVE RegistryInv'
  <2> DEFINE j == [pc |-> "activate", app |-> inspections[n].app, issuer |-> inspections[n].issuer,
                   keys |-> {k}, id |-> n, expect |-> registry[inspections[n].app].revision]
  <2>1. inspections[n] \in Inspections /\ inspections[n].app \in App /\ k \in inspections[n].keys
    BY <1>0, <1>4 DEF BeginActivate, ProvenBy, RegistryShape, Inspections
  <2>2. registry[inspections[n].app].revision \in Nat
    BY <1>0, <2>1 DEF RegistryShape, Rows
  <2>3. j \in Jobs
    BY <2>1, <2>2 DEF Jobs, Inspections
  <2>4. j.pc = "activate" /\ j.app = inspections[n].app /\ j.issuer = inspections[n].issuer /\ j.keys = {k} /\ j.id = n
    OBVIOUS
  <2> HIDE DEF j
  <2>5. operator' = [operator EXCEPT ![o] = j]
    BY <1>4 DEF BeginActivate, j
  <2>6. UNCHANGED <<registry, inspections, documents>>
    BY <1>4 DEF BeginActivate
  <2>7. /\ j.app \in App /\ j.id \in Inspection
        /\ inspections[j.id].app = j.app /\ inspections[j.id].issuer = j.issuer
        /\ j.keys \subseteq inspections[j.id].keys
    BY <2>1, <2>4
  <2> QED BY <1>0, <2>3, <2>4, <2>5, <2>6, <2>7, JobMoves DEF RegistryShape
<1>5. ASSUME NEW o \in Operator, CommitActivation(o) PROVE RegistryInv'
  <2> DEFINE j == operator[o]
  <2>1. j \in Jobs /\ j.app \in App /\ j.id \in Inspection
    BY <1>0, <1>5 DEF CommitActivation, JobsTrue, RegistryShape
  <2>2. operator' = [operator EXCEPT ![o] = Resting] /\ documents' = documents
    BY <1>5 DEF CommitActivation
  <2>3. CASE UNCHANGED <<registry, inspections>>
    BY <1>0, <2>2, <2>3, RestingJob, JobMoves DEF RegistryShape
  <2>4. CASE /\ registry' = [registry EXCEPT ![j.app] = [issuer |-> j.issuer, revision |-> j.expect + 1]]
             /\ inspections' = [inspections EXCEPT ![j.id].open = FALSE]
    <3>1. [issuer |-> j.issuer, revision |-> j.expect + 1] \in Rows
      BY <2>1 DEF Jobs, Rows
    <3>2. registry' \in [App -> Rows]
      BY <1>0, <2>1, <2>4, <3>1 DEF RegistryShape
    <3>3. \A n \in Inspection : [inspections[n] EXCEPT !.open = FALSE] \in Inspections
      BY <1>0 DEF RegistryShape, Inspections
    <3>4. inspections' \in [Inspection -> Inspections]
      BY <1>0, <2>1, <2>4, <3>3 DEF RegistryShape
    <3>5. \A n \in Inspection : inspections'[n].app = inspections[n].app
            /\ inspections'[n].issuer = inspections[n].issuer /\ inspections'[n].keys = inspections[n].keys
      BY <1>0, <2>1, <2>4 DEF RegistryShape, Inspections
    <3> QED BY <1>0, <2>2, <3>2, <3>4, <3>5, RestingJob, JobMoves
  <2> QED BY <1>5, <2>3, <2>4 DEF CommitActivation
<1>6. ASSUME NEW n \in Inspection, ExpireInspection(n) PROVE RegistryInv'
  <2>1. inspections' = [inspections EXCEPT ![n].open = FALSE] /\ UNCHANGED <<registry, documents, operator>>
    BY <1>6 DEF ExpireInspection
  <2>2. \A m \in Inspection : [inspections[m] EXCEPT !.open = FALSE] \in Inspections
    BY <1>0 DEF RegistryShape, Inspections
  <2>3. inspections' \in [Inspection -> Inspections]
    BY <1>0, <2>1, <2>2 DEF RegistryShape
  <2>4. \A m \in Inspection : inspections'[m].app = inspections[m].app
            /\ inspections'[m].issuer = inspections[m].issuer /\ inspections'[m].keys = inspections[m].keys
    BY <1>0, <2>1 DEF RegistryShape, Inspections
  <2> QED BY <1>0, <2>1, <2>3, <2>4 DEF RegistryInv, RegistryShape, JobsTrue
<1>7. ASSUME NEW i \in Issuer, NEW kind \in Kinds, NEW d \in Document, Publish(i, kind, d) PROVE RegistryInv'
  <2>1. documents' = [documents EXCEPT ![i][kind] = d] /\ UNCHANGED <<registry, inspections, operator>>
    BY <1>7 DEF Publish
  <2>2. documents' \in [Issuer -> [Kinds -> Document]]
    BY <1>0, <2>1 DEF RegistryShape
  <2> QED BY <1>0, <2>1, <2>2 DEF RegistryInv, RegistryShape, JobsTrue
<1>8. ASSUME UNCHANGED <<registry, inspections, documents, operator>> PROVE RegistryInv'
  BY <1>0, <1>8 DEF RegistryInv, RegistryShape, JobsTrue
<1>9. ASSUME NEW a \in App, Suspend(a) PROVE RegistryInv'
  BY <1>8, <1>9 DEF Suspend
<1>10. ASSUME VerifierNext PROVE RegistryInv'
  BY <1>8, <1>10 DEF VerifierNext, BeginCall, FetchAnswers, FetchFails, CheckToken, EndCall, Tick, registryVars
<1>11. ASSUME UNCHANGED issuerVars PROVE RegistryInv'
  BY <1>8, <1>11 DEF issuerVars, registryVars
<1> QED BY <1>1, <1>2, <1>3, <1>4, <1>5, <1>6, <1>7, <1>9, <1>10, <1>11 DEF RegistryNext

LEMMA InitRegistryInv == Init => RegistryInv
<1> SUFFICES ASSUME Init PROVE RegistryInv
  OBVIOUS
<1>1. IssuersInit(Registered, PublishedFirst)
  BY DEF Init
<1>2. registry \in [App -> Rows] /\ documents \in [Issuer -> [Kinds -> Document]]
  BY <1>1, AccessAssumption DEF AccessAssumption, IssuersInit, Rows
<1>3. [app |-> NoOne, issuer |-> NoOne, keys |-> {}, open |-> FALSE] \in Inspections
  BY DEF Inspections
<1>4. inspections \in [Inspection -> Inspections]
  BY <1>1, <1>3 DEF IssuersInit
<1>5. operator \in [Operator -> Jobs] /\ \A o \in Operator : operator[o].pc = "idle"
  BY <1>1, RestingJob DEF IssuersInit
<1> QED BY <1>2, <1>4, <1>5 DEF RegistryInv, RegistryShape, JobsTrue

THEOREM RegistryInvariance == Spec => []RegistryInv
<1>1. RegistryInv /\ [Next]_vars => RegistryInv'
  BY AccessStep, KeepsRegistryInv
<1> QED BY InitRegistryInv, <1>1, PTL DEF Spec

\* Only the commit of an activation changes the registry.
LEMMA OnlyActivationsRegister ==
  ASSUME [RegistryNext \/ VerifierNext]_issuerVars, registry' # registry
  PROVE  \E o \in Operator : CommitActivation(o)
<1>1. ASSUME VerifierNext PROVE registry' = registry
  BY <1>1 DEF VerifierNext, BeginCall, FetchAnswers, FetchFails, CheckToken, EndCall, Tick, registryVars
<1>2. ~UNCHANGED issuerVars
  BY DEF issuerVars, registryVars
<1>3. RegistryNext
  BY <1>1, <1>2
<1> QED BY <1>3 DEF RegistryNext, BeginInspect, InspectIssuer, CommitInspection, BeginActivate,
                    ExpireInspection, Suspend, Publish

\* commitActivateAccountOAuthIssuer: whatever operators, expiries and publications do
\* between an inspection and its activation, a change of an App's issuer follows the record
\* its request saw, consumes an open inspection of that App and issuer with an inspected key
\* and gives no issuer to a second App.
THEOREM ActivationsAreFenced == Spec => ActivationFenced
<1> DEFINE Fenced(a) ==
      registry'[a] # registry[a] =>
          /\ registry'[a].revision = registry[a].revision + 1
          /\ \A b \in App \ {a} : registry[b].issuer # registry'[a].issuer
          /\ \E o \in Operator, n \in Inspection :
                /\ operator[o].expect = registry[a].revision
                /\ inspections[n].app = a /\ inspections[n].issuer = registry'[a].issuer
                /\ inspections[n].open /\ ~inspections'[n].open
                /\ operator[o].keys \subseteq inspections[n].keys
<1>1. ASSUME RegistryInv, [Next]_vars, NEW a \in App PROVE Fenced(a)
  <2> SUFFICES ASSUME registry'[a] # registry[a] PROVE Fenced(a)
    OBVIOUS
  <2>1. [RegistryNext \/ VerifierNext]_issuerVars
    BY <1>1, AccessStep
  <2>2. PICK o \in Operator : CommitActivation(o)
    BY <2>1, OnlyActivationsRegister
  <2> DEFINE j == operator[o]
             new == [issuer |-> j.issuer, revision |-> j.expect + 1]
  <2>3. /\ j.app \in App /\ j.id \in Inspection
        /\ inspections[j.id].app = j.app /\ inspections[j.id].issuer = j.issuer
        /\ j.keys \subseteq inspections[j.id].keys
    BY <1>1, <2>2 DEF RegistryInv, JobsTrue, CommitActivation
  <2>4. /\ Committable(j)
        /\ registry' = [registry EXCEPT ![j.app] = new]
        /\ inspections' = [inspections EXCEPT ![j.id].open = FALSE]
    BY <2>2 DEF CommitActivation
  <2>5. a = j.app /\ registry'[a] = new
    BY <1>1, <2>3, <2>4 DEF RegistryInv, RegistryShape
  <2>6. /\ registry'[a].revision = registry[a].revision + 1
        /\ registry'[a].issuer = j.issuer
        /\ operator[o].expect = registry[a].revision
    BY <2>4, <2>5 DEF Committable
  <2>7. \A b \in App \ {a} : registry[b].issuer # registry'[a].issuer
    BY <2>4, <2>5, <2>6 DEF Committable, Elsewhere
  <2>8. inspections[j.id].open /\ ~inspections'[j.id].open
    <3>1. inspections[j.id] \in Inspections
      BY <1>1, <2>3 DEF RegistryInv, RegistryShape
    <3>2. [inspections[j.id] EXCEPT !.open = FALSE].open = FALSE
      BY <3>1 DEF Inspections
    <3>3. inspections'[j.id] = [inspections[j.id] EXCEPT !.open = FALSE]
      BY <1>1, <2>3, <2>4 DEF RegistryInv, RegistryShape
    <3> QED BY <2>4, <3>2, <3>3 DEF Committable
  <2> QED BY <2>3, <2>5, <2>6, <2>7, <2>8
<1>2. RegistryInv /\ [Next]_vars => [\A a \in App : Fenced(a)]_issuerVars
  BY <1>1
<1> QED BY RegistryInvariance, <1>2, PTL DEF Spec, ActivationFenced

(* The verifier and its cache of issuer records. *)

Records == [app : App, denied : BOOLEAN, at : Nat]
Calls == [pc : {"idle", "fetch", "keys", "granted"}, issuer : Issuer \cup {NoOne}, key : Key \cup {NoOne},
          app : App \cup {NoOne}, start : Nat, cached : Records \cup {Nothing}, authority : Records \cup {Nothing}]

VerifierShape ==
  /\ now \in 0..MaxClock
  /\ lostAt \in [Issuer \X App -> Nat]
  /\ authorities \in [Issuer -> Records \cup {Nothing}]
  /\ call \in [Call -> Calls]

\* What a record says was so at its time: unless it is a denial, the registry answers it
\* still, or stopped to at its time or later.
Lapsed(i, r) == lostAt[<<i, r.app>>] # Never /\ r.at <= lostAt[<<i, r.app>>]
Told(i, r) == r # Nothing => r.at <= now /\ (~r.denied => Answers(i, r.app) \/ Lapsed(i, r))

CacheTrue == \A i \in Issuer : Told(i, authorities[i])

\* The records that a call goes by, and how old they may be.
CallTrue(c) ==
  call[c].pc # "idle" =>
    /\ call[c].issuer \in Issuer /\ call[c].app \in App /\ call[c].start <= now
    /\ Told(call[c].issuer, call[c].cached) /\ Told(call[c].issuer, call[c].authority)
    /\ call[c].cached # Nothing => call[c].cached.at <= call[c].start
    /\ call[c].pc \in {"keys", "granted"} =>
         call[c].authority # Nothing /\ call[c].start < call[c].authority.at + HardBound
    /\ call[c].pc = "granted" => ~call[c].authority.denied /\ call[c].authority.app = call[c].app

VerifierInv == VerifierShape /\ CacheTrue /\ \A c \in Call : CallTrue(c)

LEMMA NothingIsNoRecord == /\ \A r \in Records : r # Nothing
                           /\ NoCall \in Calls /\ NoCall.pc = "idle"
                           /\ HardBound \in Nat /\ HardBound > 0 /\ CacheTtl \in Nat /\ CacheTtl < HardBound
<1>1. \A r \in Records : "at" \in DOMAIN r
  BY DEF Records
<1>2. "at" \notin DOMAIN Nothing
  BY DEF Nothing
<1>3. NoCall \in Calls /\ NoCall.pc = "idle"
  BY DEF NoCall, Calls
<1> QED BY <1>1, <1>2, <1>3, IssuersAssumption DEF IssuersAssumption

\* A record that was told stays told while the registry changes and time passes.
LEMMA ToldLater ==
  ASSUME VerifierShape, NEW i \in Issuer, NEW r \in Records \cup {Nothing}, Told(i, r),
         \/ UNCHANGED <<registry, suspended, lostAt>> /\ now' \in 0..MaxClock /\ now <= now'
         \/ Lost /\ now' = now
  PROVE  Told(i, r)'
<1> SUFFICES ASSUME r # Nothing PROVE Told(i, r)'
  BY DEF Told
<1>0. r \in Records /\ r.at \in Nat /\ r.app \in App
  BY DEF Records
<1>1. now \in Nat /\ now <= MaxClock /\ MaxClock \in Nat /\ Never \in Nat /\ now < Never
  BY IssuersAssumption DEF VerifierShape, IssuersAssumption, Never
<1>2. CASE UNCHANGED <<registry, suspended, lostAt>> /\ now' \in 0..MaxClock /\ now <= now'
  BY <1>0, <1>1, <1>2 DEF Told, Answers, Lapsed
<1>3. CASE Lost /\ now' = now
  <2>1. lostAt'[<<i, r.app>>] = IF Answers(i, r.app) /\ ~Answers(i, r.app)' THEN now ELSE lostAt[<<i, r.app>>]
    BY <1>0, <1>3 DEF Lost
  <2>2. r.at <= now
    BY DEF Told
  <2> QED BY <1>0, <1>1, <1>3, <2>1, <2>2 DEF Told, Lapsed
<1> QED BY <1>2, <1>3

LEMMA KeepsLost ==
  ASSUME VerifierShape, Lost PROVE lostAt' \in [Issuer \X App -> Nat]
BY DEF Lost, VerifierShape

\* The registry or the clock moves and the verifier does not.
LEMMA OthersMove ==
  ASSUME VerifierInv, UNCHANGED verifierVars,
         \/ UNCHANGED <<registry, suspended, lostAt>> /\ now' \in 0..MaxClock /\ now <= now'
         \/ Lost /\ now' = now
  PROVE  VerifierInv'
<1>0. VerifierShape /\ CacheTrue /\ \A c \in Call : CallTrue(c)
  BY DEF VerifierInv
<1>1. \A i \in Issuer, r \in Records \cup {Nothing} : Told(i, r) => Told(i, r)'
  BY <1>0, ToldLater
<1>2. UNCHANGED <<authorities, call>>
  BY DEF verifierVars
<1>3. VerifierShape'
  BY <1>0, <1>2, KeepsLost DEF VerifierShape
<1>4. CacheTrue'
  <2>1. \A i \in Issuer : Told(i, authorities[i])
    BY <1>0 DEF CacheTrue
  <2>2. \A i \in Issuer : authorities[i] \in Records \cup {Nothing}
    BY <1>0 DEF VerifierShape
  <2> QED BY <1>1, <1>2, <2>1, <2>2 DEF CacheTrue, Told, Lapsed, Answers
<1>5. ASSUME NEW c \in Call, call[c].pc # "idle" PROVE CallTrue(c)'
  <2>1. /\ call[c].issuer \in Issuer
        /\ call[c].cached \in Records \cup {Nothing} /\ call[c].authority \in Records \cup {Nothing}
    BY <1>0, <1>5 DEF CallTrue, VerifierShape, Calls
  <2>2. Told(call[c].issuer, call[c].cached) /\ Told(call[c].issuer, call[c].authority)
    BY <1>0, <1>5 DEF CallTrue
  <2>3. Told(call[c].issuer, call[c].cached)' /\ Told(call[c].issuer, call[c].authority)'
    BY <1>1, <1>2, <2>1, <2>2 DEF Told, Lapsed, Answers
  <2>4. call[c].start <= now /\ call[c].start \in Nat /\ now \in Nat /\ now' \in Nat /\ now <= now'
    BY <1>0, <1>5 DEF CallTrue, VerifierShape, Calls
  <2>5. call[c].start <= now'
    BY <2>4
  <2>6. CallTrue(c)
    BY <1>0
  <2> QED BY <1>2, <2>3, <2>5, <2>6 DEF CallTrue
<1>6. \A c \in Call : CallTrue(c)'
  BY <1>2, <1>5 DEF CallTrue
<1> QED BY <1>3, <1>4, <1>6 DEF VerifierInv

\* A call moves and may store a record or forget one.
LEMMA CallMoves ==
  ASSUME VerifierInv, UNCHANGED <<registry, suspended, lostAt, now>>, NEW c \in Call, NEW v \in Calls,
         call' = [call EXCEPT ![c] = v],
         authorities' \in [Issuer -> Records \cup {Nothing}],
         \A i \in Issuer : Told(i, authorities'[i]),
         v.pc # "idle" =>
            /\ v.issuer \in Issuer /\ v.app \in App /\ v.start <= now
            /\ Told(v.issuer, v.cached) /\ Told(v.issuer, v.authority)
            /\ v.cached # Nothing => v.cached.at <= v.start
            /\ v.pc \in {"keys", "granted"} =>
                 v.authority # Nothing /\ v.start < v.authority.at + HardBound
            /\ v.pc = "granted" => ~v.authority.denied /\ v.authority.app = v.app
  PROVE  VerifierInv'
<1>0. VerifierShape /\ CacheTrue /\ \A d \in Call : CallTrue(d)
  BY DEF VerifierInv
<1>1. VerifierShape'
  BY <1>0 DEF VerifierShape
<1>2. CacheTrue'
  BY DEF CacheTrue, Told, Lapsed, Answers
<1>3. ASSUME NEW d \in Call PROVE CallTrue(d)'
  <2>1. CASE d = c
    <3>1. call'[d] = v
      BY <1>0, <2>1 DEF VerifierShape
    <3> QED BY <3>1 DEF CallTrue, Told, Lapsed, Answers
  <2>2. CASE d # c
    <3>1. call'[d] = call[d]
      BY <1>0, <2>2 DEF VerifierShape
    <3>2. CallTrue(d)
      BY <1>0
    <3> QED BY <3>1, <3>2 DEF CallTrue, Told, Lapsed, Answers
  <2> QED BY <2>1, <2>2
<1> QED BY <1>1, <1>2, <1>3 DEF VerifierInv

LEMMA CacheTold ==
  ASSUME VerifierInv
  PROVE  /\ authorities \in [Issuer -> Records \cup {Nothing}]
         /\ \A i \in Issuer : Told(i, authorities[i])
         /\ Told(NoOne, Nothing) /\ \A i \in Issuer : Told(i, Nothing)
         /\ \A i \in Issuer : [authorities EXCEPT ![i] = Nothing] \in [Issuer -> Records \cup {Nothing}]
BY DEF VerifierInv, VerifierShape, CacheTrue, Told

\* A call that is refused, with the cache as it was or without the record of its issuer.
LEMMA RefusalKeeps ==
  ASSUME VerifierInv, UNCHANGED <<registry, suspended, lostAt, now>>, NEW c \in Call,
         call' = Refused(c),
         \/ authorities' = authorities
         \/ call[c].pc # "idle" /\ authorities' = [authorities EXCEPT ![call[c].issuer] = Nothing]
  PROVE  VerifierInv'
<1>1. call' = [call EXCEPT ![c] = NoCall]
  BY DEF Refused
<1>2. authorities' \in [Issuer -> Records \cup {Nothing}] /\ \A i \in Issuer : Told(i, authorities'[i])
  <2>1. CASE authorities' = authorities
    BY <2>1, CacheTold
  <2>2. CASE call[c].pc # "idle" /\ authorities' = [authorities EXCEPT ![call[c].issuer] = Nothing]
    <3>1. call[c].issuer \in Issuer
      BY <2>2 DEF VerifierInv, CallTrue
    <3>2. \A i \in Issuer : authorities'[i] = IF i = call[c].issuer THEN Nothing ELSE authorities[i]
      BY <2>2, <3>1, CacheTold
    <3> QED BY <2>2, <3>1, <3>2, CacheTold
  <2> QED BY <2>1, <2>2
<1> QED BY <1>1, <1>2, NothingIsNoRecord, CallMoves

LEMMA BeginCallKeeps ==
  ASSUME VerifierInv, NEW c \in Call, NEW t \in Token, BeginCall(c, t) PROVE VerifierInv'
<1> DEFINE i == t.issuer
           young == IsCached(authorities[i]) /\ now - authorities[i].at < CacheTtl
           v == [pc |-> IF young THEN "keys" ELSE "fetch", issuer |-> i, key |-> t.key, app |-> t.app,
                 start |-> now, cached |-> authorities[i],
                 authority |-> IF young THEN authorities[i] ELSE Nothing]
<1>1. i \in Issuer /\ t.key \in Key /\ t.app \in App
  BY IssuersAssumption DEF IssuersAssumption
<1>2. authorities[i] \in Records \cup {Nothing} /\ now \in Nat /\ Told(i, authorities[i]) /\ Told(i, Nothing)
  BY <1>1, CacheTold DEF VerifierInv, VerifierShape
<1>3. v \in Calls
  BY <1>1, <1>2 DEF Calls
<1>4. call' = [call EXCEPT ![c] = v] /\ UNCHANGED <<authorities, registry, suspended, lostAt, now>>
  BY DEF BeginCall, registryVars
<1>5. /\ v.pc \in {"keys", "fetch"} /\ v.issuer = i /\ v.app = t.app /\ v.start = now /\ v.cached = authorities[i]
      /\ v.pc = "keys" => young /\ v.authority = authorities[i]
      /\ v.pc # "keys" => v.authority = Nothing
  OBVIOUS
<1>6. young => authorities[i] # Nothing /\ now < authorities[i].at + HardBound
  <2> SUFFICES ASSUME young PROVE authorities[i] # Nothing /\ now < authorities[i].at + HardBound
    OBVIOUS
  <2>1. authorities[i] # Nothing /\ authorities[i].at \in Nat /\ now - authorities[i].at < CacheTtl
    BY <1>2 DEF IsCached, Records
  <2>2. \A x, y, p, q \in Nat : x - y < p /\ p < q => x < y + q
    OBVIOUS
  <2> QED BY <1>2, <2>1, <2>2, NothingIsNoRecord
<1>7. authorities[i] # Nothing => authorities[i].at <= now
  BY <1>2 DEF Told
<1> HIDE DEF v, young
<1>8. Told(v.issuer, v.cached) /\ Told(v.issuer, v.authority)
  BY <1>2, <1>5
<1>9. v.pc # "idle" =>
            /\ v.issuer \in Issuer /\ v.app \in App /\ v.start <= now
            /\ Told(v.issuer, v.cached) /\ Told(v.issuer, v.authority)
            /\ v.cached # Nothing => v.cached.at <= v.start
            /\ v.pc \in {"keys", "granted"} =>
                 v.authority # Nothing /\ v.start < v.authority.at + HardBound
            /\ v.pc = "granted" => ~v.authority.denied /\ v.authority.app = v.app
  <2>1. v.start <= now
    BY <1>2, <1>5
  <2> QED BY <1>1, <1>5, <1>6, <1>7, <1>8, <2>1
<1> QED BY <1>3, <1>4, <1>9, CacheTold, CallMoves

\* A call of pc "fetch" goes on with record r.
LEMMA WithAuthorityKeeps ==
  ASSUME VerifierInv, UNCHANGED <<registry, suspended, lostAt, now>>, NEW c \in Call, NEW r \in Records,
         call[c].pc = "fetch", call' = WithAuthority(c, r),
         Told(call[c].issuer, r), call[c].start < r.at + HardBound,
         \/ authorities' = authorities
         \/ authorities' = [authorities EXCEPT ![call[c].issuer] = r]
  PROVE  VerifierInv'
<1> DEFINE v == [call[c] EXCEPT !.pc = "keys", !.authority = r]
<1>1. call[c] \in Calls /\ CallTrue(c) /\ call \in [Call -> Calls]
  BY DEF VerifierInv, VerifierShape
<1>2. v \in Calls
  BY <1>1 DEF Calls
<1>3. /\ v.pc = "keys" /\ v.authority = r /\ v.issuer = call[c].issuer /\ v.app = call[c].app
      /\ v.start = call[c].start /\ v.cached = call[c].cached
  BY <1>1 DEF Calls
<1>4. call' = [call EXCEPT ![c] = v]
  BY <1>1 DEF WithAuthority
<1>5. /\ call[c].issuer \in Issuer /\ call[c].app \in App /\ call[c].start <= now
      /\ Told(call[c].issuer, call[c].cached)
      /\ call[c].cached # Nothing => call[c].cached.at <= call[c].start
  BY <1>1 DEF CallTrue
<1>6. authorities' \in [Issuer -> Records \cup {Nothing}] /\ \A i \in Issuer : Told(i, authorities'[i])
  <2>1. CASE authorities' = authorities
    BY <2>1, CacheTold
  <2>2. CASE authorities' = [authorities EXCEPT ![call[c].issuer] = r]
    <3>1. \A i \in Issuer : authorities'[i] = IF i = call[c].issuer THEN r ELSE authorities[i]
      BY <2>2, <1>5, CacheTold
    <3>2. authorities' \in [Issuer -> Records \cup {Nothing}]
      BY <2>2, <1>5, CacheTold
    <3> QED BY <3>1, <3>2, CacheTold
  <2> QED BY <2>1, <2>2
<1> HIDE DEF v
<1>7. /\ v.issuer \in Issuer /\ v.app \in App /\ v.start <= now
      /\ Told(v.issuer, v.cached) /\ Told(v.issuer, v.authority)
      /\ v.cached # Nothing => v.cached.at <= v.start
      /\ v.authority # Nothing /\ v.start < v.authority.at + HardBound
  BY <1>3, <1>5, NothingIsNoRecord
<1> QED BY <1>2, <1>3, <1>4, <1>6, <1>7, CallMoves

LEMMA FetchAnswersKeeps ==
  ASSUME VerifierInv, NEW c \in Call, FetchAnswers(c) PROVE VerifierInv'
<1> DEFINE i == call[c].issuer
<1>0. UNCHANGED <<registry, suspended, lostAt, now>> /\ call[c].pc = "fetch"
  BY DEF FetchAnswers, registryVars
<1>1. call[c].start \in Nat /\ call[c].start <= now /\ i \in Issuer
  BY <1>0 DEF VerifierInv, CallTrue, VerifierShape, Calls
<1>2. ASSUME NEW r \in Resolve(i),
             LET fresh == [app |-> r.app, denied |-> r.denied, at |-> call[c].start] IN
             /\ authorities' = [authorities EXCEPT ![i] = fresh]
             /\ call' = WithAuthority(c, fresh)
      PROVE  VerifierInv'
  <2> DEFINE fresh == [app |-> r.app, denied |-> r.denied, at |-> call[c].start]
  <2>1. PICK a \in App : registry[a].issuer = i /\ r = [app |-> a, denied |-> a \in suspended]
    BY <1>2 DEF Resolve
  <2>2. r.app = a /\ r.denied = (a \in suspended)
    BY <2>1
  <2>3. r.denied \in BOOLEAN
    <3>1. CASE a \in suspended
      <4>1. r = [app |-> a, denied |-> TRUE]
        BY <2>1, <3>1
      <4> QED BY <4>1
    <3>2. CASE a \notin suspended
      <4>1. (a \in suspended) = FALSE
        BY <3>2
      <4>2. r = [app |-> a, denied |-> FALSE]
        BY <2>1, <4>1, Zenon
      <4> QED BY <4>2
    <3> QED BY <3>1, <3>2
  <2>4. fresh \in Records
    BY <1>1, <2>2, <2>3 DEF Records
  <2>5. fresh.app = a /\ fresh.at = call[c].start /\ fresh.denied = (a \in suspended)
    BY <2>2
  <2>6. authorities' = [authorities EXCEPT ![i] = fresh] /\ call' = WithAuthority(c, fresh)
    BY <1>2
  <2> HIDE DEF fresh
  <2>7. Told(i, fresh)
    BY <1>1, <2>1, <2>5 DEF Told, Answers
  <2>8. call[c].start < fresh.at + HardBound
    BY <1>1, <2>5, NothingIsNoRecord
  <2> QED BY <1>0, <2>4, <2>6, <2>7, <2>8, WithAuthorityKeeps
<1>3. ASSUME authorities' = IF IsCached(call[c].cached) THEN [authorities EXCEPT ![i] = Nothing] ELSE authorities,
             call' = Refused(c)
      PROVE  VerifierInv'
  BY <1>0, <1>3, RefusalKeeps
<1> QED BY <1>2, <1>3 DEF FetchAnswers

LEMMA FetchFailsKeeps ==
  ASSUME VerifierInv, NEW c \in Call, FetchFails(c) PROVE VerifierInv'
<1> DEFINE i == call[c].issuer
<1>0. UNCHANGED <<registry, suspended, lostAt, now>> /\ call[c].pc = "fetch"
  BY DEF FetchFails, registryVars
<1>1. CASE MayServeStale(c) /\ call' = WithAuthority(c, call[c].cached) /\ UNCHANGED authorities
  <2> DEFINE r == call[c].cached
  <2>1. r \in Records /\ call[c].start - r.at < HardBound
    BY <1>1 DEF MayServeStale, IsCached, Age, VerifierInv, VerifierShape, Calls
  <2>2. r.at \in Nat /\ call[c].start \in Nat
    BY <2>1 DEF Records, VerifierInv, VerifierShape, Calls
  <2>3. Told(i, r)
    BY <1>0 DEF VerifierInv, CallTrue
  <2>4. call[c].start < r.at + HardBound
    <3>1. \A x, y, p \in Nat : x - y < p => x < y + p
      OBVIOUS
    <3> QED BY <2>1, <2>2, <3>1, NothingIsNoRecord
  <2> HIDE DEF r
  <2>5. call' = WithAuthority(c, r)
    BY <1>1 DEF r
  <2> QED BY <1>0, <1>1, <2>1, <2>3, <2>4, <2>5, WithAuthorityKeeps
<1>2. CASE /\ call' = Refused(c)
           /\ authorities' = IF IsCached(call[c].cached) THEN [authorities EXCEPT ![i] = Nothing] ELSE authorities
  BY <1>0, <1>2, RefusalKeeps
<1> QED BY <1>1, <1>2 DEF FetchFails

LEMMA CheckTokenKeeps ==
  ASSUME VerifierInv, NEW c \in Call, CheckToken(c) PROVE VerifierInv'
<1>0. UNCHANGED <<authorities, registry, suspended, lostAt, now>> /\ call[c].pc = "keys"
  BY DEF CheckToken, registryVars
<1>1. CASE call' = Refused(c)
  BY <1>0, <1>1, RefusalKeeps
<1>2. CASE /\ ~call[c].authority.denied /\ call[c].authority.app = call[c].app
           /\ call' = [call EXCEPT ![c].pc = "granted"]
  <2> DEFINE v == [call[c] EXCEPT !.pc = "granted"]
  <2>1. call[c] \in Calls /\ CallTrue(c) /\ call \in [Call -> Calls]
    BY DEF VerifierInv, VerifierShape
  <2>2. v \in Calls
    BY <2>1 DEF Calls
  <2>3. /\ v.pc = "granted" /\ v.authority = call[c].authority /\ v.issuer = call[c].issuer
        /\ v.app = call[c].app /\ v.start = call[c].start /\ v.cached = call[c].cached
    BY <2>1 DEF Calls
  <2>4. call' = [call EXCEPT ![c] = v]
    BY <1>2, <2>1
  <2> HIDE DEF v
  <2>5. /\ v.issuer \in Issuer /\ v.app \in App /\ v.start <= now
        /\ Told(v.issuer, v.cached) /\ Told(v.issuer, v.authority)
        /\ v.cached # Nothing => v.cached.at <= v.start
        /\ v.authority # Nothing /\ v.start < v.authority.at + HardBound
        /\ ~v.authority.denied /\ v.authority.app = v.app
    BY <1>0, <1>2, <2>1, <2>3 DEF CallTrue
  <2> QED BY <1>0, <2>2, <2>4, <2>5, CacheTold, CallMoves
<1>3. \/ call' = Refused(c)
      \/ /\ ~call[c].authority.denied /\ call[c].authority.app = call[c].app
         /\ call' = [call EXCEPT ![c].pc = "granted"]
  BY Zenon DEF CheckToken
<1> QED BY <1>1, <1>2, <1>3

LEMMA KeepsVerifierInv ==
  VerifierInv /\ [RegistryNext \/ VerifierNext]_issuerVars => VerifierInv'
<1> SUFFICES ASSUME VerifierInv, [RegistryNext \/ VerifierNext]_issuerVars PROVE VerifierInv'
  OBVIOUS
<1>0. now \in 0..MaxClock /\ now <= now /\ MaxClock \in Nat
  BY IssuersAssumption DEF VerifierInv, VerifierShape, IssuersAssumption
<1>1. ASSUME UNCHANGED <<registry, suspended, lostAt, now, verifierVars>> PROVE VerifierInv'
  BY <1>0, <1>1, OthersMove
<1>2. ASSUME Lost, UNCHANGED <<now, verifierVars>> PROVE VerifierInv'
  BY <1>2, OthersMove
<1>3. CASE RegistryNext
  <2>1. \/ UNCHANGED <<registry, suspended, lostAt, now, verifierVars>>
        \/ Lost /\ UNCHANGED <<now, verifierVars>>
    BY <1>3 DEF RegistryNext, BeginInspect, InspectIssuer, CommitInspection, BeginActivate,
                CommitActivation, ExpireInspection, Suspend, Publish
  <2> QED BY <1>1, <1>2, <2>1
<1>4. ASSUME Tick PROVE VerifierInv'
  <2>1. now' \in 0..MaxClock /\ now <= now'
    BY <1>0, <1>4 DEF Tick
  <2> QED BY <1>4, <2>1, OthersMove DEF Tick, registryVars
<1>5. ASSUME NEW c \in Call, EndCall(c) PROVE VerifierInv'
  BY <1>5, RefusalKeeps DEF EndCall, registryVars
<1>6. CASE VerifierNext
  BY <1>4, <1>5, <1>6, BeginCallKeeps, FetchAnswersKeeps, FetchFailsKeeps, CheckTokenKeeps DEF VerifierNext
<1>7. CASE UNCHANGED issuerVars
  BY <1>1, <1>7 DEF issuerVars, registryVars
<1> QED BY <1>3, <1>6, <1>7

LEMMA InitVerifierInv == Init => VerifierInv
<1> SUFFICES ASSUME IssuersInit(Registered, PublishedFirst) PROVE VerifierInv
  BY DEF Init
<1>1. Never \in Nat /\ 0 \in 0..MaxClock
  BY IssuersAssumption DEF IssuersAssumption, Never
<1>2. VerifierShape
  BY <1>1, NothingIsNoRecord DEF IssuersInit, VerifierShape
<1>3. CacheTrue /\ \A c \in Call : CallTrue(c)
  BY NothingIsNoRecord DEF IssuersInit, CacheTrue, Told, CallTrue
<1> QED BY <1>2, <1>3 DEF VerifierInv

\* AppSpaceCapabilityVerifier: a granted call goes by a record that the registry gave less
\* than the hard bound before the call began, whatever refreshes, outages and changes of
\* the registry overlap.  A record is stamped with the start of the call that fetched it,
\* so it never claims to be younger than the answer it holds.
THEOREM GrantsAreBounded == Spec => []GrantWithinBound
<1>1. VerifierInv /\ [Next]_vars => VerifierInv'
  BY AccessStep, KeepsVerifierInv
<1>2. VerifierInv => GrantWithinBound
  <2> SUFFICES ASSUME VerifierInv, NEW c \in Call, call[c].pc = "granted"
               PROVE  \/ Answers(call[c].issuer, call[c].app)
                      \/ lostAt[<<call[c].issuer, call[c].app>>] # Never
                         /\ lostAt[<<call[c].issuer, call[c].app>>] + HardBound > call[c].start
    BY DEF GrantWithinBound
  <2> DEFINE r == call[c].authority
             i == call[c].issuer
             l == lostAt[<<i, r.app>>]
  <2>1. /\ i \in Issuer /\ r # Nothing /\ Told(i, r) /\ ~r.denied /\ r.app = call[c].app
        /\ call[c].start < r.at + HardBound
    BY DEF VerifierInv, CallTrue
  <2>2. r \in Records /\ call[c].start \in Nat
    BY <2>1 DEF VerifierInv, VerifierShape, Calls
  <2>3. r.at \in Nat /\ r.app \in App
    BY <2>2 DEF Records
  <2>4. l \in Nat
    BY <2>1, <2>3 DEF VerifierInv, VerifierShape
  <2>5. Answers(i, r.app) \/ (l # Never /\ r.at <= l)
    BY <2>1 DEF Told, Lapsed
  <2>6. \A x, y, z, h \in Nat : x < y + h /\ y <= z => z + h > x
    OBVIOUS
  <2> QED BY <2>1, <2>2, <2>3, <2>4, <2>5, <2>6, NothingIsNoRecord
<1> QED BY InitVerifierInv, <1>1, <1>2, PTL DEF Spec

(* The credentials of a Space client. *)

Flights == [for : SUBSET Demand, old : Capability \cup {NoCapability}]
Requests == [pc : {"idle", "resolve", "join", "wait", "send"}, demand : SUBSET Demand,
             forced : BOOLEAN, sent : {0, 1}, with : Capability \cup {NoCapability}]

ClientShape ==
  /\ current \in [Class -> Capability \cup {NoCapability}]
  /\ flight \in [Class -> Flights]
  /\ request \in [Request -> Requests]
  /\ issued \in Nat

\* Capabilities are numbered as they are issued, so the next one is new to every place that
\* remembers one.
IssuedBy(n, cap) == cap # NoCapability => cap.id <= n

AllOld ==
  /\ \A k \in Class : IssuedBy(issued, current[k]) /\ IssuedBy(issued, flight[k].old)
  /\ \A r \in Request : IssuedBy(issued, request[r].with)

\* A request asks for something, and sends a capability.
RequestsAsk ==
  \A r \in Request :
    /\ request[r].pc # "idle" => request[r].demand # {}
    /\ request[r].pc = "send" => request[r].with # NoCapability

\* What was dropped is a capability that was issued, and current nowhere.
DroppedInv ==
  /\ dropped \subseteq Capability /\ \A cap \in dropped : cap.id <= issued
  /\ DroppedStaysDropped

ClientInv == ClientShape /\ AllOld /\ RequestsAsk /\ DroppedInv

LEMMA NoCapabilityIsNone == /\ \A cap \in Capability : cap # NoCapability /\ cap.id \in Nat
                            /\ NoFlight \in Flights /\ NoFlight.old = NoCapability
                            /\ Quiet \in Requests /\ Quiet.pc = "idle" /\ Quiet.with = NoCapability
BY SpaceClientAssumption DEF SpaceClientAssumption, Capability, NoFlight, Flights, Quiet, Requests

LEMMA WantedOf ==
  ASSUME ClientInv, NEW r \in Request, request[r].pc # "idle"
  PROVE  Want(r) \in Demand /\ Want(r).class \in Class
<1>1. request[r].demand \subseteq Demand /\ request[r].demand # {}
  BY DEF ClientInv, ClientShape, RequestsAsk, Requests
<1>2. Want(r) \in request[r].demand
  BY <1>1 DEF Want
<1> QED BY <1>1, <1>2 DEF Class

\* One request moves on; capabilities stay as they are or a class borrows one.
LEMMA RequestMoves ==
  ASSUME ClientInv, NEW r \in Request, NEW q \in Requests,
         request' = [request EXCEPT ![r] = q], issued' = issued, dropped' = dropped,
         q.pc # "idle" => q.demand # {}, q.pc = "send" => q.with # NoCapability, IssuedBy(issued, q.with),
         current' \in [Class -> Capability \cup {NoCapability}],
         \A k \in Class : \E j \in Class : current'[k] = current[j],
         flight' \in [Class -> Flights],
         \A k \in Class : IssuedBy(issued, flight'[k].old)
  PROVE  ClientInv'
<1>1. ClientShape'
  BY DEF ClientInv, ClientShape
<1>2. AllOld'
  <2>1. \A k \in Class : IssuedBy(issued, current'[k])
    BY DEF ClientInv, AllOld
  <2>2. \A s \in Request : request'[s] = IF s = r THEN q ELSE request[s]
    BY DEF ClientInv, ClientShape
  <2>3. \A s \in Request : IssuedBy(issued, request'[s].with)
    BY <2>2 DEF ClientInv, AllOld
  <2> QED BY <2>1, <2>3 DEF AllOld, IssuedBy
<1>3. RequestsAsk'
  BY DEF ClientInv, ClientShape, RequestsAsk
<1>4. DroppedInv'
  BY DEF ClientInv, DroppedInv, DroppedStaysDropped
<1> QED BY <1>1, <1>2, <1>3, <1>4 DEF ClientInv

\* Every class lets a capability go that was issued.
LEMMA WithoutKeeps ==
  ASSUME ClientInv, NEW cap \in Capability, cap.id <= issued
  PROVE  /\ Without(cap) \in [Class -> Capability \cup {NoCapability}]
         /\ \A k \in Class : /\ Without(cap)[k] \notin dropped \cup {cap}
                             /\ Without(cap)[k] \in {current[k], NoCapability}
<1>1. NoCapability \notin dropped /\ NoCapability # cap
  BY NoCapabilityIsNone DEF ClientInv, DroppedInv
<1> QED BY <1>1 DEF Without, ClientInv, ClientShape, DroppedInv, DroppedStaysDropped

\* A request ends or begins again, and the capability it sent is dropped.
LEMMA RejectionKeeps ==
  ASSUME ClientInv, NEW r \in Request, request[r].pc = "send", NEW q \in Requests,
         request' = [request EXCEPT ![r] = q],
         q.pc \in {"idle", "resolve"}, q.pc # "idle" => q.demand # {}, IssuedBy(issued, q.with),
         Invalidate(r), UNCHANGED <<flight, issued>>
  PROVE  ClientInv'
<1> DEFINE cap == request[r].with
<1>0. cap \in Capability /\ cap # NoCapability /\ cap.id <= issued
  BY DEF ClientInv, ClientShape, Requests, RequestsAsk, AllOld, IssuedBy
<1>1. current' = Without(cap) /\ dropped' = dropped \cup {cap}
  BY DEF Invalidate
<1> HIDE DEF cap
<1>2. current' \in [Class -> Capability \cup {NoCapability}]
  BY <1>0, <1>1, WithoutKeeps
<1>3. \A k \in Class : current'[k] \notin dropped' /\ current'[k] \in {current[k], NoCapability}
  BY <1>0, <1>1, WithoutKeeps
<1>4. ClientShape'
  BY <1>2 DEF ClientInv, ClientShape
<1>5. AllOld'
  <2>1. \A k \in Class : IssuedBy(issued, current'[k]) /\ IssuedBy(issued, flight[k].old)
    BY <1>3 DEF ClientInv, AllOld, IssuedBy
  <2>2. \A s \in Request : request'[s] = IF s = r THEN q ELSE request[s]
    BY DEF ClientInv, ClientShape
  <2>3. \A s \in Request : IssuedBy(issued, request'[s].with)
    BY <2>2 DEF ClientInv, AllOld
  <2> QED BY <2>1, <2>3 DEF AllOld, IssuedBy
<1>6. RequestsAsk'
  BY DEF ClientInv, ClientShape, RequestsAsk
<1>7. DroppedInv'
  BY <1>0, <1>1, <1>3 DEF ClientInv, DroppedInv, DroppedStaysDropped
<1> QED BY <1>4, <1>5, <1>6, <1>7 DEF ClientInv

LEMMA ProvideKeeps ==
  ASSUME ClientInv, NEW k \in Class, NEW grants \in SUBSET Grant, Provide(k, grants)
  PROVE  ClientInv'
<1> DEFINE cap == [id |-> issued + 1, grants |-> grants]
           old == flight[k].old
<1>0. issued \in Nat /\ issued' = issued + 1
  BY DEF Provide, ClientInv, ClientShape
<1>1. cap \in Capability /\ cap.id = issued'
  BY <1>0 DEF Capability
<1>2. /\ current' = [Without(old) EXCEPT ![k] = cap]
      /\ dropped' = dropped \cup ({old} \ {NoCapability})
      /\ flight' = [flight EXCEPT ![k] = NoFlight]
      /\ request' = [r \in Request |->
             IF r \in At(k, "join") THEN [request[r] EXCEPT !.pc = "send", !.with = cap]
             ELSE IF r \in At(k, "wait") THEN [request[r] EXCEPT !.pc = "resolve"]
             ELSE request[r]]
  BY DEF Provide
<1> HIDE DEF cap, old
<1>3. old \in Capability \cup {NoCapability} /\ IssuedBy(issued, old)
  BY DEF old, ClientInv, ClientShape, Flights, AllOld
<1>4. /\ Without(old) \in [Class -> Capability \cup {NoCapability}]
      /\ \A j \in Class : /\ Without(old)[j] \in {current[j], NoCapability}
                          /\ Without(old)[j] \notin dropped'
  <2>1. CASE old = NoCapability
    <3>1. Without(old) = current
      BY <2>1 DEF Without, ClientInv, ClientShape
    <3>2. dropped' = dropped
      BY <1>2, <2>1
    <3> QED BY <3>1, <3>2 DEF ClientInv, ClientShape, DroppedInv, DroppedStaysDropped
  <2>2. CASE old # NoCapability
    <3>1. old \in Capability /\ old.id <= issued /\ dropped' = dropped \cup {old}
      BY <1>2, <1>3, <2>2 DEF IssuedBy
    <3> QED BY <3>1, WithoutKeeps
  <2> QED BY <2>1, <2>2
<1>5. \A j \in Class : current'[j] = IF j = k THEN cap ELSE Without(old)[j]
  BY <1>2, <1>4
<1>6. \A n \in Nat : n <= issued => n <= issued' /\ n # issued'
  BY <1>0
<1>7. dropped' \subseteq Capability /\ \A d \in dropped' : d.id <= issued /\ d.id \in Nat
  BY <1>2, <1>3, NoCapabilityIsNone DEF ClientInv, DroppedInv, IssuedBy
<1>8. cap \notin dropped'
  BY <1>1, <1>6, <1>7
<1>9. \A c \in Capability \cup {NoCapability} : IssuedBy(issued, c) => IssuedBy(issued', c)
  BY <1>6, NoCapabilityIsNone DEF IssuedBy
<1>10. \A r \in Request : [request[r] EXCEPT !.pc = "send", !.with = cap] \in Requests
                       /\ [request[r] EXCEPT !.pc = "resolve"] \in Requests /\ request[r] \in Requests
  BY <1>1 DEF ClientInv, ClientShape, Requests
<1>11. ClientShape'
  <2>1. current' \in [Class -> Capability \cup {NoCapability}]
    BY <1>1, <1>2, <1>4
  <2>2. flight' \in [Class -> Flights]
    BY <1>2, NoCapabilityIsNone DEF ClientInv, ClientShape
  <2>3. request' \in [Request -> Requests]
    BY <1>2, <1>10
  <2> QED BY <1>0, <2>1, <2>2, <2>3 DEF ClientShape
<1>12. \A r \in Request :
         \/ request'[r] = request[r]
         \/ request[r].pc = "wait" /\ request'[r] = [request[r] EXCEPT !.pc = "resolve"]
         \/ request[r].pc = "join" /\ request'[r] = [request[r] EXCEPT !.pc = "send", !.with = cap]
  BY <1>2 DEF At, In
<1>13. RequestsAsk'
  <2> SUFFICES ASSUME NEW r \in Request
               PROVE  /\ request'[r].pc # "idle" => request'[r].demand # {}
                      /\ request'[r].pc = "send" => request'[r].with # NoCapability
    BY DEF RequestsAsk
  <2>1. request[r] \in Requests /\ (request[r].pc # "idle" => request[r].demand # {})
        /\ (request[r].pc = "send" => request[r].with # NoCapability)
    BY DEF ClientInv, ClientShape, RequestsAsk
  <2>2. cap # NoCapability
    BY <1>1, NoCapabilityIsNone
  <2> QED BY <1>12, <2>1, <2>2 DEF Requests
<1>14. AllOld'
  <2>1. IssuedBy(issued', cap) /\ IssuedBy(issued', NoCapability)
    BY <1>0, <1>1 DEF IssuedBy
  <2>2. \A j \in Class : current'[j] \in {current[j], NoCapability, cap}
    BY <1>4, <1>5
  <2>3. \A j \in Class : IssuedBy(issued', current'[j])
    <3>1. \A j \in Class : current[j] \in Capability \cup {NoCapability} /\ IssuedBy(issued, current[j])
      BY DEF ClientInv, ClientShape, AllOld
    <3> QED BY <1>9, <2>1, <2>2, <3>1 DEF IssuedBy
  <2>4. \A j \in Class : flight'[j].old \in {flight[j].old, NoCapability}
    BY <1>2, NoCapabilityIsNone DEF ClientInv, ClientShape
  <2>5. \A j \in Class : IssuedBy(issued', flight'[j].old)
    <3>1. \A j \in Class : flight[j].old \in Capability \cup {NoCapability} /\ IssuedBy(issued, flight[j].old)
      BY DEF ClientInv, ClientShape, Flights, AllOld
    <3> QED BY <1>9, <2>1, <2>4, <3>1 DEF IssuedBy
  <2>6. \A r \in Request : IssuedBy(issued', request'[r].with)
    <3>1. \A r \in Request : request[r] \in Requests /\ IssuedBy(issued, request[r].with)
      BY DEF ClientInv, ClientShape, AllOld
    <3>2. \A r \in Request : request[r].with \in Capability \cup {NoCapability}
                             /\ request'[r].with \in {request[r].with, cap}
      BY <1>12, <3>1 DEF Requests
    <3> QED BY <1>9, <2>1, <3>1, <3>2 DEF IssuedBy
  <2> QED BY <2>3, <2>5, <2>6 DEF AllOld
<1>15. DroppedInv'
  <2>1. DroppedStaysDropped'
    BY <1>4, <1>5, <1>8 DEF DroppedStaysDropped
  <2>2. \A d \in dropped' : d.id <= issued'
    BY <1>6, <1>7
  <2> QED BY <1>7, <2>1, <2>2 DEF DroppedInv
<1> QED BY <1>11, <1>13, <1>14, <1>15 DEF ClientInv

LEMMA KeepsClientInv == ClientInv /\ [ClientNext]_clientVars => ClientInv'
<1> SUFFICES ASSUME ClientInv, [ClientNext]_clientVars PROVE ClientInv'
  OBVIOUS
<1>0. ClientShape /\ AllOld /\ RequestsAsk /\ DroppedInv
  BY DEF ClientInv
<1>a. /\ current \in [Class -> Capability \cup {NoCapability}] /\ flight \in [Class -> Flights]
      /\ \A k \in Class : IssuedBy(issued, current[k]) /\ IssuedBy(issued, flight[k].old)
      /\ \A r \in Request : request[r] \in Requests /\ IssuedBy(issued, request[r].with)
      /\ request \in [Request -> Requests]
  BY <1>0 DEF ClientShape, AllOld
<1>b. IssuedBy(issued, NoCapability)
  BY DEF IssuedBy
<1>1. ASSUME NEW r \in Request, NEW d \in Demand, BeginRequest(r, d) PROVE ClientInv'
  <2> DEFINE q == [Quiet EXCEPT !.pc = "resolve", !.demand = {d}]
  <2>1. q \in Requests /\ q.pc = "resolve" /\ q.demand = {d} /\ q.with = NoCapability
    BY DEF Quiet, Requests
  <2> HIDE DEF q
  <2>2. request' = [request EXCEPT ![r] = q] /\ UNCHANGED <<current, flight, issued, dropped>>
    BY <1>1 DEF BeginRequest, q
  <2> QED BY <1>a, <1>b, <2>1, <2>2, RequestMoves
<1>2. ASSUME NEW r \in Request, NEW k \in Class, In(r, "resolve"), Usable(current[k], Want(r)),
             Send(r, current[k]), UNCHANGED <<flight, issued, dropped>>,
             current' = current \/ current' = [current EXCEPT ![Want(r).class] = current[k]]
      PROVE  ClientInv'
  <2> DEFINE q == [request[r] EXCEPT !.pc = "send", !.with = current[k]]
  <2>0. request[r].pc = "resolve" /\ request[r].demand # {} /\ current[k] # NoCapability
    BY <1>0, <1>2 DEF In, Usable, RequestsAsk
  <2>1. q \in Requests /\ q.pc = "send" /\ q.demand = request[r].demand /\ q.with = current[k]
    BY <1>a DEF Requests
  <2>2. request' = [request EXCEPT ![r] = q]
    BY <1>a, <1>2 DEF Send
  <2> HIDE DEF q
  <2>3. /\ current' \in [Class -> Capability \cup {NoCapability}]
        /\ \A j \in Class : \E i \in Class : current'[j] = current[i]
    BY <1>a, <1>2
  <2> QED BY <1>a, <1>2, <2>0, <2>1, <2>2, <2>3, RequestMoves
<1>3. ASSUME NEW r \in Request, UseCurrent(r) PROVE ClientInv'
  <2>1. Want(r).class \in Class
    BY <1>3, WantedOf DEF UseCurrent, In
  <2> QED BY <1>2, <1>3, <2>1 DEF UseCurrent
<1>4. ASSUME NEW r \in Request, NEW k \in Class, Borrow(r, k) PROVE ClientInv'
  BY <1>2, <1>4 DEF Borrow
<1>5. ASSUME NEW r \in Request, Acquire(r) PROVE ClientInv'
  <2> DEFINE k == Want(r).class
  <2>0. request[r].pc = "resolve" /\ request[r].demand # {} /\ k \in Class /\ Want(r) \in Demand
    BY <1>0, <1>5, WantedOf DEF Acquire, In, RequestsAsk
  <2>1. PICK p \in {"join", "wait"} : request' = [request EXCEPT ![r].pc = p]
    BY <1>5 DEF Acquire
  <2> DEFINE q == [request[r] EXCEPT !.pc = p]
             f == [for |-> {Want(r)}, old |-> current[k]]
  <2>2. q \in Requests /\ q.pc = p /\ q.demand = request[r].demand /\ q.with = request[r].with
    BY <1>a DEF Requests
  <2>3. request' = [request EXCEPT ![r] = q]
    BY <1>a, <2>1
  <2>4. f \in Flights /\ f.old = current[k]
    BY <1>a, <2>0 DEF Flights
  <2>5. flight' = flight \/ flight' = [flight EXCEPT ![k] = f]
    BY <1>5 DEF Acquire
  <2> HIDE DEF q, f
  <2>6. flight' \in [Class -> Flights] /\ \A j \in Class : IssuedBy(issued, flight'[j].old)
    BY <1>a, <2>0, <2>4, <2>5
  <2>7. UNCHANGED <<current, issued, dropped>>
    BY <1>5 DEF Acquire
  <2> QED BY <1>a, <2>0, <2>2, <2>3, <2>6, <2>7, RequestMoves
<1>6. ASSUME NEW r \in Request, Accepted(r) PROVE ClientInv'
  BY <1>a, <1>b, <1>6, NoCapabilityIsNone, RequestMoves DEF Accepted, Settle
<1>7. ASSUME NEW r \in Request, RejectToken(r) \/ RejectScope(r) PROVE ClientInv'
  <2> DEFINE again == [request[r] EXCEPT !.pc = "resolve", !.forced = TRUE, !.sent = 1]
  <2>0. request[r].pc = "send" /\ request[r].demand # {}
    BY <1>0, <1>7 DEF RejectToken, RejectScope, In, RequestsAsk
  <2>1. again \in Requests /\ again.pc = "resolve" /\ again.demand = request[r].demand /\ again.with = request[r].with
    BY <1>a DEF Requests
  <2>2. [request EXCEPT ![r].pc = "resolve", ![r].forced = TRUE, ![r].sent = 1] = [request EXCEPT ![r] = again]
    BY <1>a
  <2>3. request' = [request EXCEPT ![r] = again] \/ request' = [request EXCEPT ![r] = Quiet]
    BY <1>7, <2>2 DEF RejectToken, RejectScope, Settle
  <2> HIDE DEF again
  <2>4. PICK q \in {again, Quiet} : request' = [request EXCEPT ![r] = q]
    BY <2>3
  <2>5. q \in Requests /\ q.pc \in {"idle", "resolve"} /\ (q.pc # "idle" => q.demand # {}) /\ IssuedBy(issued, q.with)
    BY <1>a, <1>b, <2>0, <2>1, NoCapabilityIsNone
  <2>6. UNCHANGED <<flight, issued>>
    BY <1>7 DEF RejectToken, RejectScope
  <2>7. Invalidate(r) \/ UNCHANGED <<current, dropped>>
    BY <1>7 DEF RejectToken, RejectScope
  <2>8. CASE Invalidate(r)
    BY <2>0, <2>4, <2>5, <2>6, <2>8, RejectionKeeps
  <2>9. CASE UNCHANGED <<current, dropped>>
    BY <1>a, <2>4, <2>5, <2>6, <2>9, RequestMoves
  <2> QED BY <2>7, <2>8, <2>9
<1>8. ASSUME NEW k \in Class, ProviderFails(k) PROVE ClientInv'
  <2>1. /\ flight' = [flight EXCEPT ![k] = NoFlight] /\ UNCHANGED <<current, issued, dropped>>
        /\ request' = [r \in Request |-> IF r \in At(k, "join") \cup At(k, "wait") THEN Quiet ELSE request[r]]
    BY <1>8 DEF ProviderFails
  <2>2. \A r \in Request : request'[r] \in {Quiet, request[r]}
    BY <2>1
  <2>3. ClientShape'
    BY <1>0, <2>1, NoCapabilityIsNone DEF ClientShape
  <2>4. AllOld'
    <3>1. \A j \in Class : flight'[j].old \in {flight[j].old, NoCapability}
      BY <1>a, <2>1, NoCapabilityIsNone
    <3>2. \A r \in Request : request'[r].with \in {request[r].with, NoCapability}
      BY <2>2, NoCapabilityIsNone
    <3> QED BY <1>a, <1>b, <2>1, <3>1, <3>2 DEF AllOld
  <2>5. RequestsAsk'
    BY <1>0, <2>2, NoCapabilityIsNone DEF RequestsAsk
  <2>6. DroppedInv'
    BY <1>0, <2>1 DEF DroppedInv, DroppedStaysDropped
  <2> QED BY <2>3, <2>4, <2>5, <2>6 DEF ClientInv
<1>9. ASSUME NEW k \in Class, NEW g \in UNION {Provided(d) : d \in flight[k].for}, Provide(k, g) PROVE ClientInv'
  <2>1. flight[k].for \subseteq Demand
    BY <1>a DEF Flights
  <2>2. g \in SUBSET Grant
    BY <1>9, <2>1 DEF Provided, Grant
  <2> QED BY <1>9, <2>2, ProvideKeeps
<1>10. ASSUME UNCHANGED <<current, flight, request, issued, dropped>> PROVE ClientInv'
  BY <1>0, <1>10 DEF ClientInv, ClientShape, AllOld, RequestsAsk, DroppedInv, DroppedStaysDropped
<1>11. CASE Expire \/ UNCHANGED clientVars
  BY <1>10, <1>11 DEF Expire, clientVars
<1> QED BY <1>1, <1>3, <1>4, <1>5, <1>6, <1>7, <1>8, <1>9, <1>11 DEF ClientNext

\* invalidate, resolve and acquire: once the server has rejected a capability or another
\* has replaced it, no class hands it out again, whichever classes borrowed it and whatever
\* acquisitions and requests overlap.
THEOREM DroppedCapabilitiesStay == Spec => []DroppedStaysDropped
<1>1. Init => ClientInv
  <2> SUFFICES ASSUME ClientInit PROVE ClientInv
    BY DEF Init
  <2>1. ClientShape
    BY NoCapabilityIsNone DEF ClientInit, ClientShape
  <2>2. AllOld /\ RequestsAsk /\ DroppedInv
    BY NoCapabilityIsNone DEF ClientInit, AllOld, IssuedBy, RequestsAsk, DroppedInv, DroppedStaysDropped
  <2> QED BY <2>1, <2>2 DEF ClientInv
<1>2. ClientInv /\ [Next]_vars => ClientInv'
  BY AccessStep, KeepsClientInv
<1>3. ClientInv => DroppedStaysDropped
  BY DEF ClientInv, DroppedInv
<1> QED BY <1>1, <1>2, <1>3, PTL DEF Spec

(* The upload kernels. *)

CuShape ==
  /\ cuClock \in Nat
  /\ cuRow \in [CuNode -> CuRows \cup {CuNone}]
  /\ DOMAIN cuTask = CuCaller

CuParents(k) == {p \in CuNode : HasNode(p) /\ k \in CuChildren[p]}

\* A row counts the rows that name it, so what a row names is never collected.
RefsCounted == \A k \in CuNode : HasNode(k) => cuRow[k].refs = Cardinality(CuParents(k))
KidsReady == \A p \in CuNode : HasNode(p) => ChildrenReady(p)

\* A caller works on a node; while its answer holds, so do the row, its lease and the bytes.
TaskTrue(t) ==
  /\ t.at # "rest" => t.hash \in CuNode /\ t.dur \in CuDurations
  /\ t.at = "ready" => t.since \in Nat
  /\ t.at = "ready" /\ cuClock < t.since + t.dur =>
        HasNode(t.hash) /\ cuRow[t.hash].lease >= t.since + t.dur /\ t.hash \in cuObjects

CuInv == CuShape /\ RefsCounted /\ KidsReady /\ \A c \in CuCaller : TaskTrue(cuTask[c])

LEMMA CuFacts ==
  /\ \A r \in CuRows : r # CuNone
  /\ \A h \in CuNode : CuChildren[h] \subseteq CuNode /\ h \notin CuChildren[h]
  /\ \A d \in CuDurations : d \in Nat
BY CanonicalUploadAssumption DEF CanonicalUploadAssumption

LEMMA CuParentsFinite ==
  ASSUME NEW k \in CuNode
  PROVE  IsFiniteSet(CuParents(k)) /\ Cardinality(CuParents(k)) \in Nat
<1>1. CuParents(k) \subseteq CuNode
  BY DEF CuParents
<1>2. IsFiniteSet(CuNode)
  BY CanonicalUploadAssumption DEF CanonicalUploadAssumption
<1> QED BY <1>1, <1>2, FS_Subset, FS_CardinalityType

LEMMA RestingTask == TaskTrue(CuResting)
BY DEF TaskTrue, CuResting

\* Tasks stay true while leases only grow, rows and bytes stay and time may pass.
LEMMA TasksStay ==
  ASSUME CuInv, NEW t, TaskTrue(t), cuClock' \in Nat, cuClock <= cuClock',
         \A h \in CuNode : HasNode(h) /\ h \in cuObjects /\ cuRow[h].lease > cuClock =>
             /\ cuRow'[h] \in CuRows /\ cuRow'[h].lease >= cuRow[h].lease /\ h \in cuObjects'
  PROVE  TaskTrue(t)'
<1> SUFFICES ASSUME t.at = "ready", cuClock' < t.since + t.dur
             PROVE  cuRow'[t.hash] # CuNone /\ cuRow'[t.hash].lease >= t.since + t.dur /\ t.hash \in cuObjects'
  BY DEF TaskTrue, HasNode
<1>1. t.hash \in CuNode /\ t.dur \in Nat /\ t.since \in Nat /\ cuClock \in Nat
  BY CuFacts DEF TaskTrue, CuInv, CuShape
<1>2. cuClock < t.since + t.dur
  BY <1>1
<1>3. HasNode(t.hash) /\ cuRow[t.hash].lease >= t.since + t.dur /\ t.hash \in cuObjects
  BY <1>2 DEF TaskTrue
<1>4. cuRow[t.hash] \in CuRows
  BY <1>1, <1>3 DEF HasNode, CuInv, CuShape
<1>5. cuRow[t.hash].lease \in Nat
  BY <1>4 DEF CuRows
<1>6. cuRow[t.hash].lease > cuClock
  BY <1>1, <1>2, <1>3, <1>5
<1>7. cuRow'[t.hash] \in CuRows /\ cuRow'[t.hash].lease >= cuRow[t.hash].lease /\ t.hash \in cuObjects'
  BY <1>1, <1>3, <1>6
<1>8. cuRow'[t.hash].lease \in Nat
  BY <1>7 DEF CuRows
<1>9. \A x, y, z \in Nat : x >= y /\ y >= z => x >= z
  OBVIOUS
<1>10. t.since + t.dur \in Nat
  BY <1>1
<1> QED BY <1>3, <1>5, <1>7, <1>8, <1>9, <1>10, CuFacts

LEMMA TaskMoves ==
  ASSUME CuInv, NEW c \in CuCaller, NEW t, Become(c, t), TaskTrue(t)',
         \A s : TaskTrue(s) => TaskTrue(s)'
  PROVE  DOMAIN cuTask' = CuCaller /\ \A d \in CuCaller : TaskTrue(cuTask[d])'
<1>1. cuTask' = [cuTask EXCEPT ![c] = t] /\ DOMAIN cuTask = CuCaller
  BY DEF Become, CuInv, CuShape
<1>2. DOMAIN cuTask' = CuCaller /\ \A d \in CuCaller : cuTask'[d] = IF d = c THEN t ELSE cuTask[d]
  BY <1>1
<1>3. ASSUME NEW d \in CuCaller PROVE TaskTrue(cuTask[d])'
  <2>1. CASE d = c
    BY <1>2, <2>1 DEF TaskTrue, HasNode
  <2>2. CASE d # c
    <3>1. TaskTrue(cuTask[d])
      BY DEF CuInv
    <3> QED BY <1>2, <2>2, <3>1 DEF TaskTrue, HasNode
  <2> QED BY <2>1, <2>2
<1> QED BY <1>2, <1>3

\* The rows stay, bytes may come: a caller moves to a task that is no answer.
LEMMA TaskOnlyKeeps ==
  ASSUME CuInv, NEW c \in CuCaller, NEW t, Become(c, t), t.at # "ready",
         t.at # "rest" => t.hash \in CuNode /\ t.dur \in CuDurations,
         UNCHANGED <<cuClock, cuRow>>, cuObjects \subseteq cuObjects'
  PROVE  CuInv'
<1>1. cuClock \in Nat /\ cuClock <= cuClock' /\ \A h \in CuNode : HasNode(h) => cuRow[h] \in CuRows
  BY DEF CuInv, CuShape, HasNode
<1>2. \A h \in CuNode : HasNode(h) => cuRow'[h].lease >= cuRow[h].lease
  BY <1>1 DEF CuRows
<1>3. \A s : TaskTrue(s) => TaskTrue(s)'
  BY <1>1, <1>2, TasksStay
<1>4. TaskTrue(t)'
  BY DEF TaskTrue
<1>5. DOMAIN cuTask' = CuCaller /\ \A d \in CuCaller : TaskTrue(cuTask[d])'
  BY <1>3, <1>4, TaskMoves
<1>6. CuShape' /\ RefsCounted' /\ KidsReady'
  BY <1>5 DEF CuInv, CuShape, RefsCounted, KidsReady, CuParents, HasNode, ChildrenReady, IsNodeReady
<1> QED BY <1>5, <1>6 DEF CuInv

LEMMA AnswerTrue ==
  ASSUME NEW h \in CuNode, NEW d \in CuDurations, cuClock \in Nat, UNCHANGED cuClock,
         cuRow'[h] \in CuRows, cuRow'[h].lease >= cuClock + d, h \in cuObjects', NEW t, t = Answered(h, d, cuClock)
  PROVE  TaskTrue(t)'
<1>1. t.at = "ready" /\ t.hash = h /\ t.dur = d /\ t.since = cuClock
  BY DEF Answered
<1> QED BY <1>1, CuFacts DEF TaskTrue, HasNode

\* renewNodeLease, and commitUploadedCanonicalNode of an existing row.
LEMMA RenewalKeeps ==
  ASSUME CuInv, NEW c \in CuCaller, NEW h \in CuNode, NEW d \in CuDurations,
         HasNode(h), h \in cuObjects, cuRow' = [cuRow EXCEPT ![h].lease = NextExpires(h, d)],
         UNCHANGED <<cuClock, cuObjects>>, Become(c, Answered(h, d, cuClock))
  PROVE  CuInv'
<1> DEFINE e == NextExpires(h, d)
           new == [cuRow[h] EXCEPT !.lease = e]
<1>1. cuRow[h] \in CuRows /\ cuClock \in Nat /\ d \in Nat /\ cuRow \in [CuNode -> CuRows \cup {CuNone}]
  BY CuFacts DEF HasNode, CuInv, CuShape
<1>2. cuRow[h].lease \in Nat
  BY <1>1 DEF CuRows
<1>3. e \in Nat /\ e >= cuRow[h].lease /\ e >= cuClock + d
  BY <1>1, <1>2 DEF NextExpires
<1> HIDE DEF e
<1>4. new \in CuRows /\ new.lease = e /\ new.refs = cuRow[h].refs
  BY <1>1, <1>3 DEF CuRows
<1>5. cuRow' = [cuRow EXCEPT ![h] = new]
  BY <1>1 DEF e
<1> HIDE DEF new
<1>6. \A k \in CuNode : cuRow'[k] = IF k = h THEN new ELSE cuRow[k]
  BY <1>1, <1>5
<1>7. \A k \in CuNode : (cuRow'[k] # CuNone <=> cuRow[k] # CuNone) /\ (HasNode(k) => cuRow[k] \in CuRows)
  BY <1>1, <1>4, <1>6, CuFacts DEF HasNode
<1>8. \A k \in CuNode : HasNode(k) => cuRow[k].lease \in Nat
  BY <1>7 DEF CuRows
<1>9. \A k \in CuNode : HasNode(k) => cuRow'[k] \in CuRows /\ cuRow'[k].lease >= cuRow[k].lease
                                      /\ cuRow'[k].refs = cuRow[k].refs
  <2> SUFFICES ASSUME NEW k \in CuNode, HasNode(k)
               PROVE  cuRow'[k] \in CuRows /\ cuRow'[k].lease >= cuRow[k].lease /\ cuRow'[k].refs = cuRow[k].refs
    OBVIOUS
  <2>1. CASE k = h
    BY <1>3, <1>4, <1>6, <2>1
  <2>2. CASE k # h
    <3>1. cuRow'[k] = cuRow[k] /\ cuRow[k] \in CuRows /\ cuRow[k].lease \in Nat
      BY <1>6, <1>7, <1>8, <2>2
    <3>2. cuRow[k].lease >= cuRow[k].lease
      BY <3>1
    <3> QED BY <3>1, <3>2, Zenon
  <2> QED BY <2>1, <2>2
<1>10. \A s : TaskTrue(s) => TaskTrue(s)'
  BY <1>1, <1>9, TasksStay
<1>11. PICK t : t = Answered(h, d, cuClock)
  OBVIOUS
<1>12. TaskTrue(t)'
  BY <1>1, <1>3, <1>4, <1>6, <1>11, AnswerTrue
<1>13. Become(c, t)
  BY <1>11
<1>14. DOMAIN cuTask' = CuCaller /\ \A k \in CuCaller : TaskTrue(cuTask[k])'
  BY <1>10, <1>12, <1>13, TaskMoves
<1>15. CuShape'
  BY <1>1, <1>4, <1>5, <1>14 DEF CuShape
<1>16. \A k \in CuNode : CuParents(k)' = CuParents(k)
  BY <1>7 DEF CuParents, HasNode
<1>17. RefsCounted'
  BY <1>7, <1>9, <1>16 DEF CuInv, RefsCounted, HasNode
<1>18. KidsReady'
  BY <1>7, CuFacts DEF CuInv, KidsReady, ChildrenReady, IsNodeReady, HasNode
<1> QED BY <1>14, <1>15, <1>17, <1>18 DEF CuInv

\* commitNewNode: nothing names a node without a row, so its count starts at nothing.
LEMMA CommitNewKeeps ==
  ASSUME CuInv, NEW c \in CuCaller, NEW h \in CuNode, NEW d \in CuDurations,
         ~HasNode(h), h \in cuObjects, ChildrenReady(h), CommitNew(h, d),
         UNCHANGED <<cuClock, cuObjects>>, Become(c, Answered(h, d, cuClock))
  PROVE  CuInv'
<1> DEFINE new == [lease |-> cuClock + d, refs |-> 0]
<1>1. cuClock \in Nat /\ d \in Nat /\ cuRow \in [CuNode -> CuRows \cup {CuNone}]
  BY CuFacts DEF CuInv, CuShape
<1>2. cuRow' = [k \in CuNode |->
                    IF k = h THEN new
                    ELSE IF k \in CuChildren[h] THEN [cuRow[k] EXCEPT !.refs = @ + 1]
                    ELSE cuRow[k]]
  BY DEF CommitNew
<1>3. new \in CuRows /\ new.lease = cuClock + d /\ new.refs = 0
  BY <1>1 DEF CuRows
<1> HIDE DEF new
<1>4. \A k \in CuNode : HasNode(k) => cuRow[k] \in CuRows /\ k # h
  BY <1>1 DEF HasNode
<1>5. \A k \in CuChildren[h] : HasNode(k) /\ k \in CuNode
  BY CuFacts DEF ChildrenReady, IsNodeReady
<1>6. ASSUME NEW k \in CuNode, HasNode(k)
      PROVE  /\ cuRow'[k] \in CuRows /\ cuRow'[k].lease = cuRow[k].lease /\ cuRow'[k].lease >= cuRow[k].lease
             /\ cuRow'[k].refs = IF k \in CuChildren[h] THEN cuRow[k].refs + 1 ELSE cuRow[k].refs
  <2>1. cuRow[k] \in CuRows /\ k # h
    BY <1>4, <1>6
  <2>2. cuRow[k].lease \in Nat /\ cuRow[k].refs \in Nat
    BY <2>1 DEF CuRows
  <2>3. CASE k \in CuChildren[h]
    <3>1. cuRow'[k] = [cuRow[k] EXCEPT !.refs = cuRow[k].refs + 1]
      BY <1>2, <2>1, <2>3
    <3> QED BY <2>1, <2>2, <2>3, <3>1 DEF CuRows
  <2>4. CASE k \notin CuChildren[h]
    <3>1. cuRow'[k] = cuRow[k]
      BY <1>2, <2>1, <2>4
    <3> QED BY <2>1, <2>2, <2>4, <3>1
  <2> QED BY <2>3, <2>4
<1>7. cuRow'[h] = new
  BY <1>2
<1>8. \A k \in CuNode : cuRow'[k] # CuNone <=> cuRow[k] # CuNone \/ k = h
  <2> SUFFICES ASSUME NEW k \in CuNode PROVE cuRow'[k] # CuNone <=> cuRow[k] # CuNone \/ k = h
    OBVIOUS
  <2>1. CASE k = h
    BY <1>3, <1>7, <2>1, CuFacts
  <2>2. CASE HasNode(k)
    BY <1>6, <2>2, CuFacts DEF HasNode
  <2>3. CASE ~HasNode(k) /\ k # h
    BY <1>2, <1>5, <2>3 DEF HasNode
  <2> QED BY <2>1, <2>2, <2>3
<1>9. \A s : TaskTrue(s) => TaskTrue(s)'
  BY <1>1, <1>6, TasksStay
<1>10. PICK t : t = Answered(h, d, cuClock)
  OBVIOUS
<1>11. TaskTrue(t)'
  <2>1. cuRow'[h].lease >= cuClock + d
    BY <1>1, <1>3, <1>7
  <2> QED BY <1>1, <1>3, <1>7, <1>10, <2>1, AnswerTrue
<1>12. DOMAIN cuTask' = CuCaller /\ \A k \in CuCaller : TaskTrue(cuTask[k])'
  BY <1>9, <1>10, <1>11, TaskMoves
<1>13. CuShape'
  <2>1. \A k \in CuNode : cuRow'[k] \in CuRows \cup {CuNone}
    BY <1>3, <1>6, <1>7, <1>8 DEF HasNode
  <2>2. cuRow' \in [CuNode -> CuRows \cup {CuNone}]
    BY <1>2, <2>1
  <2> QED BY <1>1, <1>12, <2>2 DEF CuShape
<1>14. \A k \in CuNode : CuParents(k)' = IF k \in CuChildren[h] THEN CuParents(k) \cup {h} ELSE CuParents(k)
  BY <1>8 DEF CuParents, HasNode
<1>15. RefsCounted'
  <2> SUFFICES ASSUME NEW k \in CuNode, cuRow'[k] # CuNone
               PROVE  cuRow'[k].refs = Cardinality(CuParents(k)')
    BY DEF RefsCounted, HasNode
  <2>1. CASE k = h
    <3>1. CuParents(h) = {}
      BY DEF CuParents, CuInv, KidsReady, ChildrenReady, IsNodeReady
    <3>2. CuParents(h)' = {}
      BY <1>14, <3>1, CuFacts
    <3> QED BY <1>3, <1>7, <2>1, <3>2, FS_EmptySet
  <2>2. CASE k # h
    <3>1. HasNode(k)
      BY <1>8, <2>2 DEF HasNode
    <3>2. cuRow[k].refs = Cardinality(CuParents(k)) /\ h \notin CuParents(k)
      BY <3>1 DEF CuInv, RefsCounted, CuParents
    <3>3. Cardinality(CuParents(k) \cup {h}) = Cardinality(CuParents(k)) + 1
      BY <3>2, CuParentsFinite, FS_AddElement
    <3> QED BY <1>6, <1>14, <3>1, <3>2, <3>3
  <2> QED BY <2>1, <2>2
<1>16. KidsReady'
  <2> SUFFICES ASSUME NEW p \in CuNode, cuRow'[p] # CuNone, NEW k \in CuChildren[p]
               PROVE  cuRow'[k] # CuNone /\ k \in cuObjects
    BY DEF KidsReady, ChildrenReady, IsNodeReady, HasNode
  <2>1. k \in CuNode
    BY CuFacts
  <2>2. HasNode(k) /\ k \in cuObjects
    BY <1>8 DEF CuInv, KidsReady, ChildrenReady, IsNodeReady, HasNode
  <2> QED BY <1>8, <2>1, <2>2 DEF HasNode
<1> QED BY <1>12, <1>13, <1>15, <1>16 DEF CuInv

\* The collector takes what no row names and no lease holds, with its row or, cut short,
\* without it.
LEMMA CollectKeeps ==
  ASSUME CuInv, NEW h \in CuNode, NEW cut \in BOOLEAN, CuCollect(h, cut) PROVE CuInv'
<1>1. HasNode(h) /\ cuRow[h].refs = 0 /\ cuRow[h].lease <= cuClock
  BY DEF CuCollect, CuCollectable
<1>2. cuObjects' = cuObjects \ {h} /\ UNCHANGED <<cuClock, cuTask>>
  BY DEF CuCollect
<1>3. CuParents(h) = {}
  <2>1. Cardinality(CuParents(h)) = 0
    BY <1>1 DEF CuInv, RefsCounted
  <2> QED BY <2>1, CuParentsFinite, FS_EmptySet
<1>4. cuClock \in Nat /\ cuRow \in [CuNode -> CuRows \cup {CuNone}]
  BY DEF CuInv, CuShape
<1>5. \A k \in CuNode : HasNode(k) => cuRow[k] \in CuRows
  BY <1>4 DEF HasNode
<1>6. \A k \in CuNode : HasNode(k) => cuRow[k].lease \in Nat /\ cuRow[k].refs \in Nat
  BY <1>5 DEF CuRows
<1>7. \A p \in CuNode : HasNode(p) => h \notin CuChildren[p]
  BY <1>3 DEF CuParents
<1>8. CASE cut
  <2>1. cuRow' = cuRow
    BY <1>8 DEF CuCollect
  <2>2. \A k \in CuNode : HasNode(k) /\ k \in cuObjects /\ cuRow[k].lease > cuClock =>
             cuRow'[k] \in CuRows /\ cuRow'[k].lease >= cuRow[k].lease /\ k \in cuObjects'
    BY <1>1, <1>2, <1>4, <1>5, <1>6, <2>1
  <2>3. \A s : TaskTrue(s) => TaskTrue(s)'
    BY <1>2, <1>4, <2>2, TasksStay
  <2>4. \A c \in CuCaller : TaskTrue(cuTask[c])'
    BY <1>2, <2>3 DEF CuInv, TaskTrue, HasNode
  <2>5. CuShape' /\ RefsCounted'
    BY <1>2, <2>1 DEF CuInv, CuShape, RefsCounted, CuParents, HasNode
  <2>6. KidsReady'
    BY <1>2, <1>7, <2>1 DEF CuInv, KidsReady, ChildrenReady, IsNodeReady, HasNode
  <2> QED BY <2>4, <2>5, <2>6 DEF CuInv
<1>9. CASE ~cut
  <2>1. cuRow' = [k \in CuNode |->
                        IF k = h THEN CuNone
                        ELSE IF k \in CuChildren[h] /\ HasNode(k) THEN [cuRow[k] EXCEPT !.refs = @ - 1]
                        ELSE cuRow[k]]
    BY <1>9 DEF CuCollect
  <2>2. \A k \in CuNode : CuParents(k)' = CuParents(k) \ {h}
    <3>1. \A k \in CuNode : cuRow'[k] # CuNone => cuRow[k] # CuNone /\ k # h
      BY <2>1 DEF HasNode
    <3>2. ASSUME NEW k \in CuNode, HasNode(k), k # h PROVE cuRow'[k] # CuNone
      <4>1. CASE k \in CuChildren[h]
        <5>1. cuRow'[k] = [cuRow[k] EXCEPT !.refs = @ - 1]
          BY <2>1, <3>2, <4>1
        <5>2. "lease" \in DOMAIN cuRow'[k] /\ h \in CuParents(k)
          BY <1>1, <1>5, <3>2, <4>1, <5>1 DEF CuRows, CuParents
        <5>3. Cardinality(CuParents(k)) # 0
          BY <5>2, CuParentsFinite, FS_EmptySet
        <5>4. cuRow[k].refs \in Nat /\ cuRow[k].refs # 0
          BY <1>6, <3>2, <5>3 DEF CuInv, RefsCounted
        <5>5. cuRow[k].refs - 1 \in Nat
          BY <5>4
        <5>6. cuRow'[k] \in CuRows
          BY <1>5, <3>2, <5>1, <5>5 DEF CuRows
        <5> QED BY <5>6, CuFacts
      <4>2. CASE k \notin CuChildren[h]
        BY <2>1, <3>2, <4>2 DEF HasNode
      <4> QED BY <4>1, <4>2
    <3> QED BY <3>1, <3>2 DEF CuParents, HasNode
  <2>3. ASSUME NEW k \in CuNode, HasNode(k), k # h
        PROVE  /\ cuRow'[k] \in CuRows /\ cuRow'[k].lease = cuRow[k].lease
               /\ cuRow'[k].refs = Cardinality(CuParents(k)')
    <3>1. cuRow[k].refs = Cardinality(CuParents(k))
      BY <2>3 DEF CuInv, RefsCounted
    <3>2. CASE k \in CuChildren[h]
      <4>1. cuRow'[k] = [cuRow[k] EXCEPT !.refs = @ - 1]
        BY <2>1, <2>3, <3>2
      <4>2. h \in CuParents(k)
        BY <1>1, <3>2 DEF CuParents
      <4>3. Cardinality(CuParents(k) \ {h}) = Cardinality(CuParents(k)) - 1
            /\ Cardinality(CuParents(k) \ {h}) \in Nat
        BY <4>2, CuParentsFinite, FS_RemoveElement, FS_CardinalityType
      <4>4. cuRow[k].refs - 1 = Cardinality(CuParents(k)') /\ cuRow[k].refs - 1 \in Nat
        BY <2>2, <3>1, <4>3
      <4> HIDE DEF CuParents
      <4>5. cuRow[k] \in CuRows
        BY <1>5, <2>3
      <4> QED BY <4>1, <4>4, <4>5 DEF CuRows
    <3>3. CASE k \notin CuChildren[h]
      <4>1. cuRow'[k] = cuRow[k]
        BY <2>1, <2>3, <3>3
      <4>2. CuParents(k)' = CuParents(k)
        BY <2>2, <3>3 DEF CuParents
      <4> QED BY <1>5, <2>3, <3>1, <4>1, <4>2
    <3> QED BY <3>2, <3>3
  <2>4. \A k \in CuNode : cuRow'[k] # CuNone <=> cuRow[k] # CuNone /\ k # h
    <3>1. \A k \in CuNode : cuRow'[k] # CuNone => cuRow[k] # CuNone /\ k # h
      BY <2>1 DEF HasNode
    <3> QED BY <2>3, <3>1, CuFacts DEF HasNode
  <2>5. \A k \in CuNode : HasNode(k) /\ k \in cuObjects /\ cuRow[k].lease > cuClock =>
             cuRow'[k] \in CuRows /\ cuRow'[k].lease >= cuRow[k].lease /\ k \in cuObjects'
    BY <1>1, <1>2, <1>4, <1>6, <2>3
  <2>6. \A s : TaskTrue(s) => TaskTrue(s)'
    BY <1>2, <1>4, <2>5, TasksStay
  <2>7. \A c \in CuCaller : TaskTrue(cuTask[c])'
    BY <1>2, <2>6 DEF CuInv, TaskTrue, HasNode
  <2>8. CuShape'
    <3>1. \A k \in CuNode : cuRow'[k] \in CuRows \cup {CuNone}
      BY <2>3, <2>4 DEF HasNode
    <3>2. cuRow' \in [CuNode -> CuRows \cup {CuNone}]
      BY <2>1, <3>1
    <3> QED BY <1>2, <1>4, <3>2 DEF CuInv, CuShape
  <2>9. RefsCounted'
    BY <2>3, <2>4 DEF RefsCounted, HasNode
  <2>10. KidsReady'
    <3> SUFFICES ASSUME NEW p \in CuNode, cuRow'[p] # CuNone, NEW k \in CuChildren[p]
                 PROVE  cuRow'[k] # CuNone /\ k \in cuObjects'
      BY DEF KidsReady, ChildrenReady, IsNodeReady, HasNode
    <3>1. HasNode(p) /\ k # h /\ k \in CuNode
      BY <1>7, <2>4, CuFacts DEF HasNode
    <3>2. HasNode(k) /\ k \in cuObjects
      BY <3>1 DEF CuInv, KidsReady, ChildrenReady, IsNodeReady
    <3> QED BY <1>2, <2>4, <3>1, <3>2 DEF HasNode
  <2> QED BY <2>7, <2>8, <2>9, <2>10 DEF CuInv
<1> QED BY <1>8, <1>9

LEMMA LeaseReadyKeeps ==
  ASSUME CuInv, NEW c \in CuCaller, NEW h \in CuNode, NEW d \in CuDurations, LeaseReadyNode(c, h, d)
  PROVE  CuInv'
<1>0. UNCHANGED <<cuClock, cuObjects>>
  BY DEF LeaseReadyNode
<1>1. CuResting.at = "rest"
  BY DEF CuResting
<1>2. CASE UNCHANGED cuRow /\ Become(c, CuResting)
  BY <1>0, <1>1, <1>2, TaskOnlyKeeps
<1>3. CASE RenewReady(c, h, d)
  BY <1>0, <1>2, <1>3, RenewalKeeps DEF RenewReady, RenewNodeLease, IsNodeReady
<1>4. CASE Adopt(c, h, d)
  BY <1>0, <1>2, <1>4, CommitNewKeeps DEF Adopt
<1> QED BY <1>3, <1>4 DEF LeaseReadyNode

LEMMA KeepsCuInv == CuInv /\ [CanonicalUploadNext]_cuVars => CuInv'
<1> SUFFICES ASSUME CuInv, [CanonicalUploadNext]_cuVars PROVE CuInv'
  OBVIOUS
<1>a. \A c \in CuCaller : cuTask[c].at # "rest" => cuTask[c].hash \in CuNode /\ cuTask[c].dur \in CuDurations
  BY DEF CuInv, TaskTrue
<1>b. CuResting.at = "rest"
  BY DEF CuResting
<1>c. ASSUME NEW c \in CuCaller, Become(c, CuResting), UNCHANGED <<cuClock, cuRow, cuObjects>> PROVE CuInv'
  BY <1>b, <1>c, TaskOnlyKeeps
<1>d. ASSUME NEW c \in CuCaller, NEW h \in CuNode, NEW d \in CuDurations, NEW t,
             Become(c, t), t \in {Uploading(h, d), Finalizing(h, d)} \cup {Signed(h, d, id) : id \in {cuSession[h].id, cuSessions + 1}},
             UNCHANGED <<cuClock, cuRow>>, cuObjects \subseteq cuObjects'
      PROVE  CuInv'
  <2>1. t.at # "ready" /\ t.hash = h /\ t.dur = d
    BY <1>d DEF Uploading, Finalizing, Signed
  <2> QED BY <1>d, <2>1, TaskOnlyKeeps
<1>1. ASSUME NEW c \in CuCaller, NEW h \in CuNode, NEW d \in CuDurations, Lease(c, h, d) PROVE CuInv'
  BY <1>1, LeaseReadyKeeps DEF Lease
<1>2. ASSUME NEW c \in CuCaller, NEW h \in CuNode, NEW d \in CuDurations, BeginCanonicalNodeLease(c, h, d) PROVE CuInv'
  <2>1. CASE IsNodeReady(h)
    BY <1>2, <2>1, RenewalKeeps DEF BeginCanonicalNodeLease, RenewNodeLease, IsNodeReady
  <2>2. CASE ~IsNodeReady(h)
    BY <1>2, <1>d, <2>2 DEF BeginCanonicalNodeLease, ReserveCanonicalUpload
  <2> QED BY <2>1, <2>2
<1>3. ASSUME NEW c \in CuCaller, NEW h \in CuNode, NEW d \in CuDurations, NEW len \in CuLengths,
             PrepareCanonicalNodeUpload(c, h, d, len)
      PROVE  CuInv'
  <2>1. CASE LeaseReadyNode(c, h, d)
    BY <2>1, LeaseReadyKeeps
  <2>2. CASE /\ Become(c, IF cuSession[h].length = len THEN Signed(h, d, cuSession[h].id) ELSE CuResting)
             /\ UNCHANGED <<cuClock, cuRow, cuObjects>>
    <3>1. CASE cuSession[h].length = len
      BY <1>d, <2>2, <3>1
    <3>2. CASE cuSession[h].length # len
      BY <1>c, <2>2, <3>2
    <3> QED BY <3>1, <3>2
  <2>3. CASE Become(c, Signed(h, d, cuSessions + 1)) /\ UNCHANGED <<cuClock, cuRow, cuObjects>>
    BY <1>d, <2>3
  <2> QED BY <1>3, <2>1, <2>2, <2>3 DEF PrepareCanonicalNodeUpload, ReserveCanonicalUploadSession
<1>4. ASSUME NEW c \in CuCaller, UploadCanonicalNode(c) PROVE CuInv'
  <2>1. cuTask[c].hash \in CuNode /\ cuTask[c].dur \in CuDurations
    BY <1>a, <1>4 DEF UploadCanonicalNode
  <2> QED BY <1>c, <1>d, <1>4, <2>1 DEF UploadCanonicalNode
<1>5. ASSUME NEW c \in CuCaller, FinalizeCanonicalNodeLease(c) PROVE CuInv'
  <2>1. cuTask[c].hash \in CuNode /\ cuTask[c].dur \in CuDurations
    BY <1>a, <1>5 DEF FinalizeCanonicalNodeLease
  <2>2. PICK h \in CuNode, d \in CuDurations : h = cuTask[c].hash /\ d = cuTask[c].dur
    BY <2>1
  <2>3. UNCHANGED <<cuClock, cuObjects>>
    BY <1>5 DEF FinalizeCanonicalNodeLease
  <2>4. CASE Inspected(h) /\ ChildrenReady(h) /\ HasNode(h) /\ CommitExisting(h, d) /\ Become(c, Answered(h, d, cuClock))
    BY <2>3, <2>4, RenewalKeeps DEF Inspected, CommitExisting
  <2>5. CASE Inspected(h) /\ ChildrenReady(h) /\ ~HasNode(h) /\ CommitNew(h, d) /\ Become(c, Answered(h, d, cuClock))
    BY <2>3, <2>5, CommitNewKeeps DEF Inspected
  <2>6. CASE UNCHANGED cuRow /\ Become(c, CuResting)
    BY <1>c, <2>3, <2>6
  <2> QED BY <1>5, <2>2, <2>4, <2>5, <2>6 DEF FinalizeCanonicalNodeLease
<1>6. ASSUME NEW c \in CuCaller, AdmitFinalization(c) PROVE CuInv'
  <2>1. cuTask[c].hash \in CuNode /\ cuTask[c].dur \in CuDurations
    BY <1>a, <1>6 DEF AdmitFinalization
  <2>2. PICK h \in CuNode, d \in CuDurations : h = cuTask[c].hash /\ d = cuTask[c].dur
    BY <2>1
  <2>3. CASE LeaseReadyNode(c, h, d)
    BY <2>3, LeaseReadyKeeps
  <2>4. CASE (Become(c, Uploading(h, d)) \/ Become(c, CuResting)) /\ UNCHANGED <<cuClock, cuRow, cuObjects>>
    BY <1>c, <1>d, <2>4
  <2> QED BY <1>6, <2>2, <2>3, <2>4 DEF AdmitFinalization
<1>7. ASSUME NEW c \in CuCaller, DeleteCanonicalUploadSession(c) \/ CuForget(c) PROVE CuInv'
  BY <1>c, <1>7 DEF DeleteCanonicalUploadSession, CuForget
<1>8. CASE UNCHANGED <<cuRow, cuObjects, cuTask>> /\ cuClock' \in Nat /\ cuClock <= cuClock'
  <2>1. \A h \in CuNode : HasNode(h) => cuRow[h] \in CuRows
    BY DEF CuInv, CuShape, HasNode
  <2>2. \A h \in CuNode : HasNode(h) => cuRow'[h].lease >= cuRow[h].lease /\ cuRow'[h] \in CuRows
    BY <1>8, <2>1 DEF CuRows
  <2>3. \A s : TaskTrue(s) => TaskTrue(s)'
    BY <1>8, <2>2, TasksStay
  <2>4. \A c \in CuCaller : TaskTrue(cuTask[c])'
    BY <1>8, <2>3 DEF CuInv, TaskTrue, HasNode
  <2> QED BY <1>8, <2>4 DEF CuInv, CuShape, RefsCounted, KidsReady, CuParents, HasNode, ChildrenReady, IsNodeReady
<1>9. cuClock \in Nat
  BY DEF CuInv, CuShape
<1>10. CASE CuTick \/ UNCHANGED cuVars
  <2>1. UNCHANGED <<cuRow, cuObjects, cuTask>> /\ (cuClock' = cuClock + 1 \/ cuClock' = cuClock)
    BY <1>10 DEF CuTick, cuVars
  <2>2. cuClock' \in Nat /\ cuClock <= cuClock'
    BY <1>9, <2>1
  <2> QED BY <1>8, <2>1, <2>2
<1> QED BY <1>1, <1>2, <1>3, <1>4, <1>5, <1>6, <1>7, <1>10, CollectKeeps DEF CanonicalUploadNext

\* leaseReadyNode, beginCanonicalNodeLease and finalizeCanonicalNodeLease: a ready answer
\* holds until the duration asked for has passed, for the node and for what it names,
\* however uploads of the same hash, sessions and collections, cut short or not, interleave.
THEOREM ReadyAnswersStay == Spec => []ReadyAnswersHold
<1>1. Init => CuInv
  <2> SUFFICES ASSUME CanonicalUploadInit PROVE CuInv
    BY DEF Init
  <2>1. CuShape /\ RefsCounted /\ KidsReady
    BY DEF CanonicalUploadInit, CuShape, RefsCounted, KidsReady, HasNode
  <2>2. \A c \in CuCaller : TaskTrue(cuTask[c])
    BY RestingTask DEF CanonicalUploadInit
  <2> QED BY <2>1, <2>2 DEF CuInv
<1>2. CuInv /\ [Next]_vars => CuInv'
  BY AccessStep, KeepsCuInv
<1>3. CuInv => ReadyAnswersHold
  BY DEF CuInv, TaskTrue, KidsReady, ReadyAnswersHold, IsNodeReady
<1> QED BY <1>1, <1>2, <1>3, PTL DEF Spec

(* The reset of the smoke deployment. *)

Things == SmokeNode \cup OAuthKey \cup {OtherApp}
Entries == {"app", "row", "upload", "token"} \X Things
Stages == {"idle", "inventory", "publish", "physical", "recheck", "compare", "backup", "backupObjects",
           "delete", "tenant", "control", "verify"}
Runs == [at : Stages, folder : Folder \cup {NoFolder}, first : SUBSET Entries, seen : SUBSET Entries,
         keys : SUBSET Things]
Folders == [used : BOOLEAN, rows : SUBSET Things, objects : SUBSET Things]

ResetShape ==
  /\ objects \subseteq SmokeNode /\ nodeRows \subseteq SmokeNode /\ uploads \subseteq SmokeNode
  /\ begun \subseteq SmokeNode /\ tokens \subseteq OAuthKey
  /\ control \in [schema : {"old", "current"}, apps : SUBSET {OtherApp}]
  /\ folders \in [Folder -> Folders]
  /\ run \in [Resetter -> Runs]

Owning == {"backupObjects", "delete", "tenant", "control", "verify"}
Compared == {"backup"} \cup Owning
Maintained == {"physical", "recheck", "compare"} \cup Compared

\* What a run has established and nothing but a late write changes: maintenance is live,
\* the inventory it compared was clean, its directory holds what it is about to remove, and
\* the bucket was empty when it went on to the databases.
RunTrue(o) ==
  /\ run[o].at \in Maintained => live # "service"
  /\ run[o].at \in {"recheck", "compare"} \cup Compared => run[o].keys \cap Foreign = {}
  /\ run[o].at = "compare" => ControlInventory \subseteq run[o].seen
  /\ run[o].at \in Compared => control.apps = {} /\ nodeRows \cap Foreign \subseteq late
  /\ run[o].at \in {"backup", "backupObjects"} => run[o].folder # NoFolder
  /\ run[o].at \in Owning /\ run[o].folder # NoFolder =>
       folders[run[o].folder].used /\ nodeRows \ late \subseteq folders[run[o].folder].rows
  /\ run[o].at = "backupObjects" => folders[run[o].folder].objects = {}
  /\ run[o].at = "delete" /\ run[o].folder # NoFolder =>
       run[o].keys \ OAuthKey \subseteq folders[run[o].folder].objects
  /\ run[o].at \in {"tenant", "control", "verify"} => objects \subseteq late

\* No two runs own one directory.
OwnersDiffer ==
  \A o, p \in Resetter :
    o # p /\ run[o].at \in Owning /\ run[p].at \in Owning /\ run[o].folder # NoFolder =>
      run[o].folder # run[p].folder

\* The control database is rebuilt once: after that the bucket holds late writes only, or
\* the service is back and no run can start.
RebuiltOnce ==
  control.schema = "current" =>
    IF live = "service" THEN \A o \in Resetter : run[o].at = "idle" ELSE objects \subseteq late

UnusedEmpty == \A f \in Folder : ~folders[f].used => folders[f].rows = {} /\ folders[f].objects = {}

ResetInv ==
  /\ UnusedEmpty
  /\ ResetShape /\ (\A o \in Resetter : RunTrue(o)) /\ OwnersDiffer /\ RebuiltOnce
  /\ RemovedIsKept /\ VerifiedIsEmpty /\ (verified => live # "service")

LEMMA ResetFacts ==
  /\ Foreign \subseteq SmokeNode /\ OAuthKey \cap SmokeNode = {} /\ OtherApp \notin SmokeNode
  /\ NoFolder \notin Folder /\ \A o \in Resetter : o # "service"
  /\ NoRun \in Runs /\ NoRun.at = "idle"
BY SmokeResetAssumption DEF SmokeResetAssumption, NoRun, Runs, Stages

LEMMA InventoryEntries ==
  ASSUME ResetShape PROVE ControlInventory \subseteq Entries /\ RestInventory \subseteq Entries
BY DEF ResetShape, ControlInventory, RestInventory, Entries, Things

\* The other runs, when one moves and nothing is added to what they go by.
LEMMA OtherRunsStay ==
  ASSUME ResetInv, NEW o \in Resetter, NEW r \in Runs, run' = [run EXCEPT ![o] = r],
         live' # "service" \/ live' = live, late' = late, nodeRows' \subseteq nodeRows,
         objects' \subseteq objects, control'.apps \subseteq control.apps,
         \A p \in Resetter \ {o} : run[p].at \in Owning /\ run[p].folder # NoFolder =>
            folders'[run[p].folder] = folders[run[p].folder]
  PROVE  \A p \in Resetter \ {o} : RunTrue(p)'
<1> SUFFICES ASSUME NEW p \in Resetter \ {o} PROVE RunTrue(p)'
  OBVIOUS
<1>1. run'[p] = run[p] /\ RunTrue(p)
  BY DEF ResetInv, ResetShape
<1>2. ControlInventory' \subseteq ControlInventory
  BY DEF ControlInventory
<1>3. "backupObjects" \in Owning /\ "delete" \in Owning
  BY DEF Owning
<1> QED BY <1>1, <1>2, <1>3 DEF RunTrue

\* A run moves; the stores and the directories stay.
LEMMA RunOnlyMoves ==
  ASSUME ResetInv, NEW o \in Resetter, NEW r \in Runs, run' = [run EXCEPT ![o] = r],
         UNCHANGED <<stores, folders, verified, destroyed>>, live' = live \/ live' = o,
         run[o].at # "idle" \/ control.schema = "old", RunTrue(o)',
         r.at \in Owning /\ r.folder # NoFolder => run[o].at \in Owning /\ run[o].folder = r.folder
  PROVE  ResetInv'
<1>1. /\ UNCHANGED <<objects, nodeRows, uploads, begun, tokens, control, late>>
      /\ live' # "service" \/ live' = live
  BY ResetFacts DEF stores
<1>2. \A p \in Resetter : run'[p] = IF p = o THEN r ELSE run[p]
  BY DEF ResetInv, ResetShape
<1>3. ResetShape'
  BY <1>1 DEF ResetInv, ResetShape
<1>4. \A p \in Resetter : RunTrue(p)'
  BY <1>1, OtherRunsStay
<1>5. OwnersDiffer'
  BY <1>2 DEF ResetInv, OwnersDiffer
<1>6. RebuiltOnce'
  BY <1>1, <1>2 DEF ResetInv, RebuiltOnce
<1>7. UnusedEmpty' /\ RemovedIsKept' /\ VerifiedIsEmpty' /\ (verified' => live' # "service")
  BY <1>1, ResetFacts DEF ResetInv, UnusedEmpty, RemovedIsKept, Kept, VerifiedIsEmpty
<1> QED BY <1>3, <1>4, <1>5, <1>6, <1>7 DEF ResetInv

LEMMA StartResetKeeps ==
  ASSUME ResetInv, NEW o \in Resetter, StartReset(o) \/ TakeInventory(o) \/ PublishMaintenance(o)
  PROVE  ResetInv'
<1>a. run[o] \in Runs /\ ResetShape /\ run \in [Resetter -> Runs]
  BY DEF ResetInv, ResetShape
<1>b. UNCHANGED <<stores, folders, verified, destroyed>>
  BY DEF StartReset, TakeInventory, PublishMaintenance
<1>1. CASE StartReset(o)
  <2>1. PICK f \in Folder \cup {NoFolder} :
           Moves(o, "idle", [NoRun EXCEPT !.at = "inventory", !.folder = f, !.first = ControlInventory])
    BY <1>1 DEF StartReset
  <2> DEFINE r == [NoRun EXCEPT !.at = "inventory", !.folder = f, !.first = ControlInventory]
  <2>2. r \in Runs /\ r.at = "inventory"
    BY <1>a, InventoryEntries DEF NoRun, Runs, Stages
  <2>3. run' = [run EXCEPT ![o] = r] /\ live' = live /\ control.schema = "old"
    BY <1>1, <2>1 DEF Moves, StartReset, ControlRead
  <2> HIDE DEF r
  <2>4. run'[o] = r
    BY <1>a, <2>3
  <2>5. RunTrue(o)' /\ r.at \notin Owning
    BY <2>2, <2>4 DEF RunTrue, Owning, Maintained, Compared
  <2> QED BY <1>b, <2>2, <2>3, <2>5, RunOnlyMoves
<1>2. CASE TakeInventory(o)
  <2> DEFINE all == run[o].first \cup RestInventory
             r == [run[o] EXCEPT !.at = "publish", !.first = all]
  <2>1. all \subseteq Entries
    BY <1>a, InventoryEntries DEF Runs
  <2> HIDE DEF all
  <2>2. r \in Runs /\ r.at = "publish"
    BY <1>a, <2>1 DEF Runs, Stages
  <2>3. run' = [run EXCEPT ![o] = r] /\ live' = live /\ run[o].at = "inventory"
    BY <1>2 DEF Moves, TakeInventory, all
  <2> HIDE DEF r
  <2>4. run'[o] = r
    BY <1>a, <2>3
  <2>5. RunTrue(o)' /\ r.at \notin Owning
    BY <2>2, <2>4 DEF RunTrue, Owning, Maintained, Compared
  <2> QED BY <1>b, <2>2, <2>3, <2>5, RunOnlyMoves
<1>3. CASE PublishMaintenance(o)
  <2> DEFINE r == [run[o] EXCEPT !.at = "physical"]
  <2>2. r \in Runs /\ r.at = "physical"
    BY <1>a DEF Runs, Stages
  <2>3. run' = [run EXCEPT ![o] = r] /\ live' = o /\ run[o].at = "publish"
    BY <1>3 DEF Moves, PublishMaintenance, To
  <2> HIDE DEF r
  <2>4. run'[o] = r
    BY <1>a, <2>3
  <2>5. RunTrue(o)' /\ r.at \notin Owning
    BY <2>2, <2>3, <2>4, ResetFacts DEF RunTrue, Owning, Maintained, Compared
  <2> QED BY <1>b, <2>2, <2>3, <2>5, RunOnlyMoves
<1> QED BY <1>1, <1>2, <1>3

LEMMA InventoryKeeps ==
  ASSUME ResetInv, NEW o \in Resetter, PhysicalInventory(o) \/ Recheck(o) \/ Compare(o)
  PROVE  ResetInv'
<1>a. run[o] \in Runs /\ ResetShape /\ run \in [Resetter -> Runs] /\ RunTrue(o)
  BY DEF ResetInv, ResetShape
<1>b. UNCHANGED <<stores, folders, verified, destroyed>> /\ live' = live
      /\ UNCHANGED <<objects, nodeRows, tokens, control, late>>
  BY DEF PhysicalInventory, Recheck, Compare, stores
<1>1. CASE PhysicalInventory(o)
  <2> DEFINE r == [run[o] EXCEPT !.at = "recheck", !.keys = ListedKeys]
  <2>1. ListedKeys \subseteq Things /\ ListedKeys \cap Foreign = {}
    BY <1>a, <1>1, ResetFacts DEF ListedKeys, Things, ResetShape, PhysicalInventory
  <2>2. r \in Runs /\ r.at = "recheck" /\ r.keys = ListedKeys
    BY <1>a, <2>1 DEF Runs, Stages
  <2>3. run' = [run EXCEPT ![o] = r] /\ run[o].at = "physical" /\ live = o
    BY <1>1 DEF Moves, PhysicalInventory
  <2> HIDE DEF r
  <2>4. run'[o] = r
    BY <1>a, <2>3
  <2>5. RunTrue(o)' /\ r.at \notin Owning
    BY <1>b, <2>1, <2>2, <2>3, <2>4, ResetFacts DEF RunTrue, Owning, Maintained, Compared
  <2> QED BY <1>b, <2>2, <2>3, <2>5, RunOnlyMoves
<1>2. CASE Recheck(o)
  <2> DEFINE r == [run[o] EXCEPT !.at = "compare", !.seen = ControlInventory]
  <2>2. r \in Runs /\ r.at = "compare" /\ r.keys = run[o].keys /\ r.seen = ControlInventory
    BY <1>a, InventoryEntries DEF Runs, Stages
  <2>3. run' = [run EXCEPT ![o] = r] /\ run[o].at = "recheck"
    BY <1>2 DEF Moves, Recheck
  <2> HIDE DEF r
  <2>4. run'[o] = r /\ ControlInventory' = ControlInventory
    BY <1>a, <1>b, <2>3 DEF ControlInventory
  <2>5. live # "service" /\ run[o].keys \cap Foreign = {}
    BY <1>a, <2>3 DEF RunTrue, Maintained, Compared
  <2>6. RunTrue(o)' /\ r.at \notin Owning
    BY <1>b, <2>2, <2>4, <2>5 DEF RunTrue, Owning, Compared
  <2> QED BY <1>b, <2>2, <2>3, <2>6, RunOnlyMoves
<1>3. CASE Compare(o)
  <2> DEFINE next == IF run[o].folder = NoFolder THEN "delete" ELSE "backup"
             r == [run[o] EXCEPT !.at = next]
             all == run[o].seen \cup RestInventory
  <2>1. Valid(all) /\ run' = [run EXCEPT ![o] = r] /\ run[o].at = "compare"
    BY <1>3 DEF Moves, Compare, To
  <2>2. r \in Runs /\ r.at = next /\ r.keys = run[o].keys /\ r.folder = run[o].folder
    BY <1>a DEF Runs, Stages
  <2>3. live # "service" /\ run[o].keys \cap Foreign = {} /\ ControlInventory \subseteq all
    BY <1>a, <2>1 DEF RunTrue, Maintained, Compared
  <2>4. control.apps = {}
    <3>1. \A a \in control.apps : <<"app", a>> \in all
      BY <2>3 DEF ControlInventory
    <3> QED BY <2>1, <3>1 DEF Valid
  <2>5. nodeRows \cap Foreign = {}
    <3>1. \A i \in nodeRows : <<"row", i>> \in all
      BY DEF RestInventory
    <3> QED BY <2>1, <3>1 DEF Valid
  <2> HIDE DEF r, all
  <2>6. run'[o] = r
    BY <1>a, <2>1
  <2>7. RunTrue(o)'
    <3>1. next \in {"delete", "backup"} /\ (next = "backup" <=> r.folder # NoFolder)
      BY <2>2
    <3> HIDE DEF next
    <3> QED BY <1>b, <2>2, <2>3, <2>4, <2>5, <2>6, <3>1 DEF RunTrue, Owning, Maintained, Compared
  <2>8. ~(r.at \in Owning /\ r.folder # NoFolder)
    BY <2>2 DEF Owning
  <2> QED BY <1>b, <2>1, <2>2, <2>7, <2>8, RunOnlyMoves
<1> QED BY <1>1, <1>2, <1>3

LEMMA KeptOf ==
  ASSUME NEW f \in Folder PROVE folders[f].rows \subseteq Kept /\ folders[f].objects \subseteq Kept
BY DEF Kept

LEMMA BackUpKeeps ==
  ASSUME ResetInv, NEW o \in Resetter, BackUpDatabases(o) \/ BackUpObjects(o)
  PROVE  ResetInv'
<1> DEFINE f == run[o].folder
           at == IF run[o].at = "backup" THEN "backupObjects" ELSE "delete"
           r == [run[o] EXCEPT !.at = at]
<1>a. run[o] \in Runs /\ ResetShape /\ run \in [Resetter -> Runs] /\ RunTrue(o) /\ folders \in [Folder -> Folders]
  BY DEF ResetInv, ResetShape
<1>b. UNCHANGED <<objects, nodeRows, uploads, begun, tokens, control, late, verified, destroyed>> /\ live' = live
  BY DEF BackUpDatabases, BackUpObjects, stores
<1>1. run[o].at \in {"backup", "backupObjects"} /\ run' = [run EXCEPT ![o] = r]
  BY DEF BackUpDatabases, BackUpObjects, Moves, To
<1>2. f \in Folder /\ f # NoFolder
  BY <1>a, <1>1 DEF RunTrue, Runs
<1>3. r \in Runs /\ r.at = at /\ r.folder = f /\ r.keys = run[o].keys
  BY <1>a DEF Runs, Stages
<1>4. at \in Owning /\ at \in Compared /\ at \in Maintained /\ at \notin {"tenant", "control", "verify", "recheck", "compare", "backup"}
  BY DEF Owning, Compared, Maintained
<1>5. run[o].at \in Compared /\ run[o].at \in Maintained
  BY <1>1 DEF Owning, Compared, Maintained
<1> HIDE DEF r
<1>6. run'[o] = r /\ \A p \in Resetter : run'[p] = IF p = o THEN r ELSE run[p]
  BY <1>a, <1>1
<1>7. CASE BackUpDatabases(o)
  <2> DEFINE new == [used |-> TRUE, rows |-> nodeRows \cup control.apps, objects |-> {}]
  <2>1. folders' = [folders EXCEPT ![f] = new] /\ ~folders[f].used /\ run[o].at = "backup"
    BY <1>7 DEF BackUpDatabases, Moves
  <2>2. new \in Folders
    BY <1>a DEF Folders, ResetShape, Things
  <2>3. new.used /\ new.rows = nodeRows \cup control.apps /\ new.objects = {}
    OBVIOUS
  <2> HIDE DEF new
  <2>4. folders'[f] = new /\ \A g \in Folder \ {f} : folders'[g] = folders[g]
    BY <1>a, <1>2, <2>1
  <2>5. \A p \in Resetter \ {o} : run[p].at \in Owning /\ run[p].folder # NoFolder =>
            run[p].folder \in Folder \ {f}
    <3>1. \A p \in Resetter : run[p].folder \in Folder \cup {NoFolder}
      BY <1>a DEF Runs
    <3> QED BY <2>1, <3>1 DEF ResetInv, RunTrue
  <2>6. \A p \in Resetter \ {o} : RunTrue(p)'
    BY <1>b, <1>1, <1>3, <2>4, <2>5, OtherRunsStay
  <2>7. RunTrue(o)'
    <3>1. at = "backupObjects"
      BY <2>1
    <3> HIDE DEF at
    <3> QED BY <1>a, <1>b, <1>2, <1>3, <1>4, <1>5, <1>6, <2>3, <2>4, <3>1 DEF RunTrue
  <2>8. OwnersDiffer'
    BY <1>3, <1>6, <2>5 DEF ResetInv, OwnersDiffer
  <2>9. UnusedEmpty'
    BY <2>3, <2>4 DEF ResetInv, UnusedEmpty
  <2>10. ResetShape'
    BY <1>a, <1>b, <1>1, <1>2, <1>3, <2>1, <2>2 DEF ResetShape
  <2>11. Kept \subseteq Kept'
    <3>1. folders[f].rows = {} /\ folders[f].objects = {}
      BY <1>2, <2>1 DEF ResetInv, UnusedEmpty
    <3>2. \A g \in Folder : folders[g].rows \subseteq folders'[g].rows /\ folders[g].objects \subseteq folders'[g].objects
      BY <2>4, <3>1
    <3> QED BY <3>2 DEF Kept
  <2>12. RebuiltOnce' /\ RemovedIsKept' /\ VerifiedIsEmpty' /\ (verified' => live' # "service")
    <3>1. RebuiltOnce'
      BY <1>b, <1>1, <1>6 DEF ResetInv, RebuiltOnce
    <3>2. RemovedIsKept'
      BY <1>b, <2>11 DEF ResetInv, RemovedIsKept
    <3> QED BY <1>b, <3>1, <3>2 DEF ResetInv, VerifiedIsEmpty
  <2> QED BY <2>6, <2>7, <2>8, <2>9, <2>10, <2>12 DEF ResetInv
<1>8. CASE BackUpObjects(o)
  <2> DEFINE new == [folders[f] EXCEPT !.objects = Saved(o)]
  <2>0. Saved(o) = run[o].keys \ OAuthKey /\ Saved(o) \subseteq Things
    BY <1>a DEF Saved, Runs
  <2>1. folders' = [folders EXCEPT ![f] = new] /\ run[o].at = "backupObjects"
    BY <1>a, <1>2, <1>8 DEF BackUpObjects, Moves
  <2>2. folders[f] \in Folders
    BY <1>a, <1>2
  <2>3. new \in Folders /\ new.used = folders[f].used /\ new.rows = folders[f].rows /\ new.objects = Saved(o)
    BY <2>0, <2>2 DEF Folders
  <2> HIDE DEF new
  <2>4. folders'[f] = new /\ \A g \in Folder \ {f} : folders'[g] = folders[g]
    BY <1>a, <1>2, <2>1
  <2>a. run[o].at \in Owning
    BY <2>1 DEF Owning
  <2>5. \A p \in Resetter \ {o} : run[p].at \in Owning /\ run[p].folder # NoFolder =>
            run[p].folder \in Folder \ {f}
    <3>1. \A p \in Resetter : run[p].folder \in Folder \cup {NoFolder}
      BY <1>a DEF Runs
    <3> QED BY <2>a, <3>1 DEF ResetInv, OwnersDiffer
  <2>6. \A p \in Resetter \ {o} : RunTrue(p)'
    BY <1>b, <1>1, <1>3, <2>4, <2>5, OtherRunsStay
  <2>7. RunTrue(o)'
    <3>1. at = "delete"
      BY <2>1
    <3> HIDE DEF at
    <3> QED BY <1>a, <1>b, <1>2, <1>3, <1>4, <1>5, <1>6, <2>a, <2>0, <2>3, <2>4, <3>1 DEF RunTrue
  <2>8. OwnersDiffer'
    BY <1>3, <1>6, <2>5 DEF ResetInv, OwnersDiffer
  <2>b. folders[f].used /\ folders[f].objects = {}
    BY <1>a, <1>2, <2>1, <2>a DEF RunTrue
  <2>9. UnusedEmpty'
    BY <2>b, <2>3, <2>4 DEF ResetInv, UnusedEmpty
  <2>10. ResetShape'
    BY <1>a, <1>b, <1>1, <1>2, <1>3, <2>1, <2>3 DEF ResetShape
  <2>11. Kept \subseteq Kept'
    <3>2. \A g \in Folder : folders[g].rows \subseteq folders'[g].rows /\ folders[g].objects \subseteq folders'[g].objects
      BY <2>b, <2>3, <2>4
    <3> QED BY <3>2 DEF Kept
  <2>12. RebuiltOnce' /\ RemovedIsKept' /\ VerifiedIsEmpty' /\ (verified' => live' # "service")
    <3>1. RebuiltOnce'
      BY <1>b, <1>1, <1>6 DEF ResetInv, RebuiltOnce
    <3>2. RemovedIsKept'
      BY <1>b, <2>11 DEF ResetInv, RemovedIsKept
    <3> QED BY <1>b, <3>1, <3>2 DEF ResetInv, VerifiedIsEmpty
  <2> QED BY <2>6, <2>7, <2>8, <2>9, <2>10, <2>12 DEF ResetInv
<1> QED BY <1>7, <1>8

\* A run removes things that its directory holds and that are the smoke App's own.
LEMMA RemovalKept ==
  ASSUME ResetInv, NEW o \in Resetter, NEW things, Removed(o, things), UNCHANGED folders,
         run[o].folder # NoFolder => things \ late \subseteq Kept \ (Foreign \cup {OtherApp})
  PROVE  RemovedIsKept'
<1>1. Kept' = Kept
  BY DEF Kept
<1> QED BY <1>1 DEF Removed, RemovedIsKept, ResetInv

\* A run of stage "delete" or later goes on with r and the stores lose things.
LEMMA RemovingMoves ==
  ASSUME ResetInv, NEW o \in Resetter, run[o].at \in Owning, NEW r \in Runs, run' = [run EXCEPT ![o] = r],
         ResetShape', UNCHANGED <<live, late, folders, verified>>,
         objects' \subseteq objects, nodeRows' \subseteq nodeRows,
         control' \in {control, Bootstrapped}, control' # control => run[o].at = "control",
         r.at \in Owning, r.folder = run[o].folder, RunTrue(o)', RemovedIsKept'
  PROVE  ResetInv'
<1>1. \A p \in Resetter : run'[p] = IF p = o THEN r ELSE run[p]
  BY DEF ResetInv, ResetShape
<1>2. Bootstrapped.apps = {} /\ Bootstrapped.schema = "current"
  BY DEF Bootstrapped
<1>3. \A p \in Resetter : RunTrue(p)'
  <2>1. control'.apps \subseteq control.apps
    BY <1>2
  <2> QED BY <2>1, OtherRunsStay
<1>4. OwnersDiffer'
  BY <1>1 DEF ResetInv, OwnersDiffer
<1>5. RebuiltOnce'
  <2>0. live # "service" /\ run[o].at # "idle" /\ (run[o].at = "control" => objects \subseteq late)
    BY DEF ResetInv, RunTrue, Owning, Compared, Maintained
  <2> QED BY <2>0 DEF ResetInv, RebuiltOnce
<1>6. UnusedEmpty' /\ VerifiedIsEmpty' /\ (verified' => live' # "service")
  <2>1. VerifiedIsEmpty'
    BY DEF ResetInv, VerifiedIsEmpty
  <2> QED BY <2>1 DEF ResetInv, UnusedEmpty
<1> QED BY <1>3, <1>4, <1>5, <1>6 DEF ResetInv

LEMMA RemovalKeeps ==
  ASSUME ResetInv, NEW o \in Resetter,
         \/ \E k \in run[o].keys : DeleteResource(o, k)
         \/ VerifyEmpty(o) \/ RebuildTenant(o) \/ RebuildControl(o)
  PROVE  ResetInv'
<1>a. run[o] \in Runs /\ ResetShape /\ run \in [Resetter -> Runs] /\ RunTrue(o) /\ folders \in [Folder -> Folders]
  BY DEF ResetInv, ResetShape
<1>b. run[o].folder \in Folder \cup {NoFolder}
  BY <1>a DEF Runs
<1>c. "delete" \in Owning /\ "tenant" \in Owning /\ "control" \in Owning /\ "verify" \in Owning
  BY DEF Owning
<1>d. run[o].at \in Owning =>
        /\ live # "service" /\ run[o].keys \cap Foreign = {} /\ control.apps = {} /\ nodeRows \cap Foreign \subseteq late
        /\ run[o].folder # NoFolder =>
             folders[run[o].folder].used /\ nodeRows \ late \subseteq folders[run[o].folder].rows
  BY <1>a DEF RunTrue, Compared, Maintained, Owning
<1>1. ASSUME NEW k \in run[o].keys, DeleteResource(o, k) PROVE ResetInv'
  <2> DEFINE r == [run[o] EXCEPT !.keys = run[o].keys \ {k}]
  <2>1. /\ run[o].at = "delete" /\ run' = [run EXCEPT ![o] = r]
        /\ objects' = objects \ {k} /\ tokens' = tokens \ {k} /\ Removed(o, {k} \cap objects)
        /\ UNCHANGED <<live, nodeRows, uploads, begun, control, folders, resets, verified, late>>
    BY <1>1 DEF DeleteResource, Moves
  <2>2. r \in Runs /\ r.at = run[o].at /\ r.folder = run[o].folder /\ r.keys = run[o].keys \ {k}
    BY <1>a DEF Runs
  <2> HIDE DEF r
  <2>3. run'[o] = r
    BY <1>a, <2>1
  <2>4. run[o].folder # NoFolder => run[o].keys \ OAuthKey \subseteq folders[run[o].folder].objects
    BY <1>a, <2>1 DEF RunTrue
  <2>5. RemovedIsKept'
    <3>1. ASSUME run[o].folder # NoFolder PROVE {k} \cap objects \subseteq Kept \ (Foreign \cup {OtherApp})
      <4>1. run[o].folder \in Folder
        BY <1>b, <3>1
      <4>2. folders[run[o].folder].objects \subseteq Kept
        BY <4>1, KeptOf
      <4>3. k \in objects => k \in SmokeNode
        BY <1>a DEF ResetShape
      <4>4. k \in objects => k \notin OAuthKey /\ k # OtherApp /\ k \notin Foreign
        BY <1>c, <1>d, <2>1, <4>3, ResetFacts
      <4> QED BY <2>4, <3>1, <4>2, <4>4
    <3> QED BY <2>1, <3>1, RemovalKept
  <2>6. RunTrue(o)'
    BY <1>c, <1>d, <2>1, <2>2, <2>3, <2>4 DEF RunTrue
  <2>7. ResetShape'
    BY <1>a, <2>1, <2>2 DEF ResetShape
  <2> QED BY <1>c, <2>1, <2>2, <2>5, <2>6, <2>7, RemovingMoves
<1>2. ASSUME VerifyEmpty(o) PROVE ResetInv'
  <2> DEFINE r == [run[o] EXCEPT !.at = "tenant"]
  <2>1. /\ run[o].at = "delete" /\ run' = [run EXCEPT ![o] = r] /\ objects = {}
        /\ UNCHANGED <<objects, nodeRows, uploads, begun, tokens, control, late, live, folders, verified, destroyed>>
    BY <1>2 DEF VerifyEmpty, Moves, To, stores
  <2>2. r \in Runs /\ r.at = "tenant" /\ r.folder = run[o].folder /\ r.keys = run[o].keys
    BY <1>a DEF Runs, Stages
  <2> HIDE DEF r
  <2>3. run'[o] = r
    BY <1>a, <2>1
  <2>4. RunTrue(o)'
    BY <1>c, <1>d, <2>1, <2>2, <2>3 DEF RunTrue
  <2>5. ResetShape' /\ RemovedIsKept'
    BY <1>a, <2>1, <2>2 DEF ResetInv, ResetShape, RemovedIsKept, Kept
  <2> QED BY <1>c, <2>1, <2>2, <2>4, <2>5, RemovingMoves
<1>3. ASSUME RebuildTenant(o) PROVE ResetInv'
  <2> DEFINE r == [run[o] EXCEPT !.at = "control"]
  <2>1. /\ run[o].at = "tenant" /\ run' = [run EXCEPT ![o] = r]
        /\ nodeRows' = {} /\ uploads' = {} /\ Removed(o, nodeRows)
        /\ UNCHANGED <<live, objects, begun, tokens, control, folders, verified, late>>
    BY <1>3 DEF RebuildTenant, DropTenantTables, Moves, To
  <2>2. r \in Runs /\ r.at = "control" /\ r.folder = run[o].folder /\ r.keys = run[o].keys
    BY <1>a DEF Runs, Stages
  <2> HIDE DEF r
  <2>3. run'[o] = r /\ objects \subseteq late
    BY <1>a, <2>1 DEF RunTrue
  <2>4. RunTrue(o)'
    BY <1>c, <1>d, <2>1, <2>2, <2>3 DEF RunTrue
  <2>5. ResetShape'
    BY <1>a, <2>1, <2>2 DEF ResetShape
  <2>6. RemovedIsKept'
    <3>1. ASSUME run[o].folder # NoFolder PROVE nodeRows \ late \subseteq Kept \ (Foreign \cup {OtherApp})
      <4>1. run[o].folder \in Folder
        BY <1>b, <3>1
      <4>2. folders[run[o].folder].rows \subseteq Kept
        BY <4>1, KeptOf
      <4>3. nodeRows \subseteq SmokeNode
        BY <1>a DEF ResetShape
      <4> QED BY <1>c, <1>d, <2>1, <3>1, <4>2, <4>3, ResetFacts
    <3> QED BY <2>1, <3>1, RemovalKept
  <2> QED BY <1>c, <2>1, <2>2, <2>4, <2>5, <2>6, RemovingMoves
<1>4. ASSUME RebuildControl(o) PROVE ResetInv'
  <2> DEFINE r == [run[o] EXCEPT !.at = "verify"]
  <2>1. /\ run[o].at = "control" /\ run' = [run EXCEPT ![o] = r]
        /\ control' = Bootstrapped /\ Removed(o, control.apps)
        /\ UNCHANGED <<live, objects, nodeRows, uploads, begun, tokens, folders, verified, late>>
    BY <1>4 DEF RebuildControl, Moves, To
  <2>2. r \in Runs /\ r.at = "verify" /\ r.folder = run[o].folder /\ r.keys = run[o].keys
    BY <1>a DEF Runs, Stages
  <2> HIDE DEF r
  <2>3. run'[o] = r /\ objects \subseteq late
    BY <1>a, <2>1 DEF RunTrue
  <2>4. control'.apps = {} /\ control' \in [schema : {"old", "current"}, apps : SUBSET {OtherApp}]
    BY <2>1 DEF Bootstrapped
  <2>5. RunTrue(o)'
    BY <1>c, <1>d, <2>1, <2>2, <2>3, <2>4 DEF RunTrue
  <2>6. ResetShape'
    BY <1>a, <2>1, <2>2, <2>4 DEF ResetShape
  <2>7. RemovedIsKept'
    BY <1>c, <1>d, <2>1, RemovalKept
  <2> QED BY <1>c, <2>1, <2>2, <2>5, <2>6, <2>7, RemovingMoves
<1> QED BY <1>1, <1>2, <1>3, <1>4

LEMMA EndOfRunKeeps ==
  ASSUME ResetInv, NEW o \in Resetter, VerifyReset(o) \/ VerifyCurrent(o) \/ Abort(o)
  PROVE  ResetInv'
<1>a. run[o] \in Runs /\ ResetShape /\ run \in [Resetter -> Runs] /\ RunTrue(o)
  BY DEF ResetInv, ResetShape
<1>b. /\ UNCHANGED <<objects, nodeRows, uploads, begun, tokens, control, late, live, folders, destroyed>>
      /\ run' = run \/ run' = [run EXCEPT ![o] = NoRun]
  BY DEF VerifyReset, VerifyCurrent, Abort, stores, Moves
<1>1. \A p \in Resetter : run'[p] = run[p] \/ run'[p].at = "idle"
  BY <1>a, <1>b, ResetFacts
<1>2. \A p \in Resetter : RunTrue(p)'
  <2> SUFFICES ASSUME NEW p \in Resetter PROVE RunTrue(p)'
    OBVIOUS
  <2>1. CASE run'[p] = run[p]
    <3>1. RunTrue(p)
      BY DEF ResetInv
    <3> QED BY <1>b, <2>1, <3>1 DEF RunTrue, ControlInventory
  <2>2. CASE run'[p].at = "idle"
    BY <2>2 DEF RunTrue, Maintained, Compared, Owning
  <2> QED BY <1>1, <2>1, <2>2
<1>3. OwnersDiffer'
  BY <1>1 DEF ResetInv, OwnersDiffer, Owning
<1>4. ResetShape' /\ UnusedEmpty' /\ RemovedIsKept'
  BY <1>a, <1>b, ResetFacts DEF ResetInv, ResetShape, UnusedEmpty, RemovedIsKept, Kept
<1>5. RebuiltOnce'
  BY <1>b, <1>1 DEF ResetInv, RebuiltOnce
<1>6. VerifiedIsEmpty' /\ (verified' => live' # "service")
  <2>1. CASE verified' = verified
    BY <1>b, <2>1 DEF ResetInv, VerifiedIsEmpty
  <2>2. CASE VerifyReset(o) \/ VerifyCurrent(o)
    <3>1. control = Bootstrapped /\ nodeRows = {}
      BY <2>2 DEF VerifyReset, VerifyCurrent, BootstrapHolds
    <3>2. live # "service"
      BY <1>a, <2>2 DEF VerifyReset, VerifyCurrent, Moves, RunTrue, Maintained, Compared, Owning
    <3>3. objects \subseteq late
      BY <3>1, <3>2 DEF ResetInv, RebuiltOnce, Bootstrapped
    <3> QED BY <1>b, <3>1, <3>2, <3>3 DEF VerifiedIsEmpty
  <2> QED BY <2>1, <2>2 DEF Abort
<1> QED BY <1>2, <1>3, <1>4, <1>5, <1>6 DEF ResetInv

\* The service stores things, late ones while maintenance is live.
LEMMA StoringKeeps ==
  ASSUME ResetInv, ResetShape', UNCHANGED <<live, folders, run, verified, destroyed>>,
         late \subseteq late',
         objects' \subseteq objects \/ live = "service" \/ objects' \ objects \subseteq late',
         nodeRows' \subseteq nodeRows \/ live = "service" \/ nodeRows' \ nodeRows \subseteq late',
         control' = control \/ (live = "service" /\ control'.schema = control.schema)
  PROVE  ResetInv'
<1>1. ASSUME NEW p \in Resetter PROVE RunTrue(p)'
  <2>1. RunTrue(p)
    BY DEF ResetInv
  <2>2. run[p].at \in Compared \/ run[p].at \in Owning \/ run[p].at \in {"compare", "recheck", "tenant", "control", "verify", "backupObjects", "delete"} =>
          run[p].at \in Maintained
    BY DEF Compared, Owning, Maintained
  <2>3. CASE run[p].at \in Maintained
    <3>1. live # "service"
      BY <2>1, <2>3 DEF RunTrue
    <3>2. control' = control /\ ControlInventory' = ControlInventory
      BY <3>1 DEF ControlInventory
    <3>3. nodeRows' \subseteq nodeRows \cup late' /\ objects' \subseteq objects \cup late'
      BY <3>1
    <3> QED BY <2>1, <3>1, <3>2, <3>3 DEF RunTrue
  <2>4. CASE run[p].at \notin Maintained
    BY <2>4 DEF RunTrue, Compared, Owning, Maintained
  <2> QED BY <2>3, <2>4
<1>2. OwnersDiffer' /\ UnusedEmpty' /\ RemovedIsKept'
  BY DEF ResetInv, OwnersDiffer, UnusedEmpty, RemovedIsKept, Kept
<1>3. RebuiltOnce'
  BY DEF ResetInv, RebuiltOnce
<1>4. VerifiedIsEmpty' /\ (verified' => live' # "service")
  BY DEF ResetInv, VerifiedIsEmpty
<1> QED BY <1>1, <1>2, <1>3, <1>4 DEF ResetInv

LEMMA KeepsResetInv == ResetInv /\ [ResetNext]_resetVars => ResetInv'
<1> SUFFICES ASSUME ResetInv, [ResetNext]_resetVars PROVE ResetInv'
  OBVIOUS
<1>0. ResetShape
  BY DEF ResetInv
<1>1. ASSUME NEW i \in SmokeNode, BeginStore(i) PROVE ResetInv'
  <2>1. ResetShape'
    BY <1>0, <1>1 DEF BeginStore, ResetShape
  <2> QED BY <1>1, <2>1, StoringKeeps DEF BeginStore
<1>2. ASSUME NEW i \in SmokeNode, LandObject(i) PROVE ResetInv'
  <2>1. ResetShape'
    BY <1>0, <1>2 DEF LandObject, ResetShape
  <2>2. late \subseteq late' /\ (live = "service" \/ i \in late')
    BY <1>2 DEF LandObject, Landed
  <2> QED BY <1>2, <2>1, <2>2, StoringKeeps DEF LandObject
<1>3. ASSUME NEW i \in SmokeNode, LandRow(i) PROVE ResetInv'
  <2>1. ResetShape'
    BY <1>0, <1>3 DEF LandRow, ResetShape
  <2>2. late \subseteq late' /\ (live = "service" \/ i \in late')
    BY <1>3 DEF LandRow, Landed
  <2> QED BY <1>3, <2>1, <2>2, StoringKeeps DEF LandRow
<1>4. ASSUME CreateOtherApp PROVE ResetInv'
  <2>1. control' \in [schema : {"old", "current"}, apps : SUBSET {OtherApp}] /\ control'.schema = control.schema
    BY <1>0, <1>4 DEF CreateOtherApp, ResetShape
  <2>2. ResetShape'
    BY <1>0, <1>4, <2>1 DEF CreateOtherApp, ResetShape
  <2> QED BY <1>4, <2>1, <2>2, StoringKeeps DEF CreateOtherApp
<1>5. ASSUME NEW k \in OAuthKey, IssueToken(k) PROVE ResetInv'
  <2>1. ResetShape'
    BY <1>0, <1>5 DEF IssueToken, ResetShape
  <2> QED BY <1>5, <2>1, StoringKeeps DEF IssueToken
<1>6. ASSUME Redeploy PROVE ResetInv'
  <2>1. /\ \A o \in Resetter : run[o].at = "idle"
        /\ live' = "service" /\ verified' = FALSE
        /\ UNCHANGED <<objects, nodeRows, uploads, begun, tokens, control, folders, run, destroyed>>
    BY <1>6 DEF Redeploy
  <2>2. \A o \in Resetter : RunTrue(o)'
    BY <2>1 DEF RunTrue, Maintained, Compared, Owning
  <2>3. ResetShape' /\ OwnersDiffer' /\ UnusedEmpty' /\ RemovedIsKept'
    BY <1>0, <2>1 DEF ResetInv, ResetShape, OwnersDiffer, UnusedEmpty, RemovedIsKept, Kept
  <2>4. RebuiltOnce' /\ VerifiedIsEmpty' /\ ~verified'
    BY <2>1 DEF RebuiltOnce, VerifiedIsEmpty
  <2> QED BY <2>2, <2>3, <2>4 DEF ResetInv
<1>7. ASSUME NEW o \in Resetter, Reset(o) PROVE ResetInv'
  BY <1>7, StartResetKeeps, InventoryKeeps, BackUpKeeps, RemovalKeeps, EndOfRunKeeps DEF Reset
<1>8. CASE UNCHANGED resetVars
  <2>1. UNCHANGED <<objects, nodeRows, uploads, begun, tokens, control, late, live, folders, run, verified, destroyed>>
    BY <1>8 DEF resetVars, stores
  <2>2. ResetShape'
    BY <1>0, <2>1 DEF ResetShape
  <2> QED BY <2>1, <2>2, StoringKeeps
<1> QED BY <1>1, <1>2, <1>3, <1>4, <1>5, <1>6, <1>7, <1>8 DEF ResetNext

\* reset-smoke: a run with a backup directory removes only what a backup holds and nothing of
\* another App, and "resetVerified" is true of both databases and the bucket; runs of two
\* operators, failures at any step and requests in flight included.
THEOREM ResetsKeepData == Spec => []ResetKeepsData
<1>1. Init => ResetInv
  <2> SUFFICES ASSUME ResetInit PROVE ResetInv
    BY DEF Init
  <2>1. [schema |-> "old", apps |-> {}] \in [schema : {"old", "current"}, apps : SUBSET {OtherApp}]
    OBVIOUS
  <2>2. EmptyFolder \in Folders /\ EmptyFolder.rows = {} /\ EmptyFolder.objects = {}
    BY DEF EmptyFolder, Folders
  <2>3. ResetShape
    BY <2>1, <2>2, ResetFacts DEF ResetInit, ResetShape
  <2>4. \A o \in Resetter : run[o].at = "idle"
    BY ResetFacts DEF ResetInit
  <2>5. (\A o \in Resetter : RunTrue(o)) /\ OwnersDiffer
    BY <2>4 DEF RunTrue, OwnersDiffer, Maintained, Compared, Owning
  <2>6. RebuiltOnce /\ UnusedEmpty
    BY <2>2 DEF ResetInit, RebuiltOnce, UnusedEmpty
  <2>7. RemovedIsKept /\ VerifiedIsEmpty /\ ~verified
    BY DEF ResetInit, RemovedIsKept, VerifiedIsEmpty
  <2> QED BY <2>3, <2>5, <2>6, <2>7 DEF ResetInv
<1>2. ResetInv /\ [Next]_vars => ResetInv'
  BY AccessStep, KeepsResetInv
<1>3. ResetInv => ResetKeepsData
  BY DEF ResetInv, ResetKeepsData
<1> QED BY <1>1, <1>2, <1>3, PTL DEF Spec

(* The command line client and its session file. *)

Savings == {"write", "written", "rename"}
Fresh == {"replaced", "answered"}
CliCalls == [at : {"idle", "sent"} \cup Fresh \cup Savings, sent : Nat, got : Nat]
Processes ==
  [kind : {"none", "login", "command", "mcp", "logout"},
   at : {"new", "over", "browser", "wait", "hung", "exchange", "saving", "load", "ready", "revoke", "clear"},
   asked : BOOLEAN, closure : Nat, memory : Nat, call : [Slot -> CliCalls]]

CallAt(p, s) == cli[p].call[s].at
Got(p, s) == cli[p].call[s].got

\* The calls of a process: none outside of its loop, one that saves in a login, and only
\* the first slot in a command.
Shaped(r) ==
  /\ r.at \notin {"ready", "saving"} => \A s \in Slot : r.call[s].at = "idle"
  /\ r.at = "saving" => r.kind = "login" /\ \A s \in Slot : r.call[s].at \in Savings <=> s = FirstSlot
  /\ r.at = "saving" => \A s \in Slot \ {FirstSlot} : r.call[s].at = "idle"
  /\ r.at = "ready" => r.kind \in {"command", "mcp"}
  /\ r.at = "clear" => r.kind = "logout"
  /\ r.kind = "command" => \A s \in Slot \ {FirstSlot} : r.call[s].at = "idle"

CliShape ==
  /\ file \in Nat /\ made \in Nat /\ made <= MaxCookies /\ alive \subseteq 1..made /\ kills \in Nat
  /\ temp \in [Process -> Nat]
  /\ cli \in [Process -> Processes]
  /\ \A p \in Process : Shaped(cli[p])

\* The sessions a process may send: what it loaded, uses or has sent.
KnownTo(p) == {cli[p].closure, cli[p].memory} \cup {cli[p].call[s].sent : s \in Slot}
Holding(p, s) == CallAt(p, s) \in Fresh \cup Savings

Numbered ==
  /\ file <= made
  /\ \A p \in Process : (\A v \in KnownTo(p) : v <= made) /\ \A s \in Slot : Got(p, s) <= made

\* One save at a time in a process, and its temporary file is its own.
OneSaver ==
  \A p \in Process : \A s, t \in Slot : CallAt(p, s) \in Savings /\ CallAt(p, t) \in Savings => s = t
TempsOwn == \A p \in Process, s \in Slot : CallAt(p, s) = "rename" => temp[p] = Got(p, s)

\* A session that a call got is its own until it is in the file: no other process knows it,
\* and its process only once it has adopted it.
GotsDiffer ==
  \A p, q \in Process, s, t \in Slot :
    Holding(p, s) /\ Holding(q, t) /\ Got(p, s) = Got(q, t) => p = q /\ s = t
GotsPrivate ==
  \A p \in Process, s \in Slot : Holding(p, s) =>
    /\ Got(p, s) # 0 /\ Got(p, s) # file
    /\ \A q \in Process \ {p} : Got(p, s) \notin KnownTo(q)
FreshAlive ==
  \A p \in Process, s \in Slot : CallAt(p, s) \in Fresh => Got(p, s) \in alive /\ Got(p, s) \notin KnownTo(p)

\* What is about to be saved works, or the call that replaced it is about to save too.
SaversAlive ==
  \A p \in Process, s \in Slot : CallAt(p, s) \in Savings =>
    Got(p, s) \in alive \/ \E t \in Slot : CallAt(p, t) = "answered" /\ cli[p].call[t].sent = Got(p, s)

\* So does what the file holds, or someone is about to write it.
Pending(p) == cli[p].at = "clear" \/ \E s \in Slot : CallAt(p, s) \in {"answered"} \cup Savings
FileAlive == file \in alive \cup {0} \/ \E p \in Process : Pending(p)

CliBody ==
  /\ Numbered /\ OneSaver /\ TempsOwn /\ GotsDiffer /\ GotsPrivate /\ FreshAlive /\ SaversAlive /\ FileAlive

CliInv == CliShape /\ (~overlapped /\ kills = 0 => CliBody)

LEMMA UnsentCall ==
  /\ Unsent \in CliCalls /\ Unsent.at = "idle" /\ Unsent.got = 0 /\ Unsent.sent = 0
  /\ NotStarted \in Processes /\ NotStarted.closure = 0 /\ NotStarted.memory = 0
  /\ \A s \in Slot : NotStarted.call[s] = Unsent
<1>1. Unsent \in CliCalls /\ Unsent.at = "idle" /\ Unsent.got = 0 /\ Unsent.sent = 0
  BY DEF Unsent, CliCalls
<1>2. [s \in Slot |-> Unsent] \in [Slot -> CliCalls]
  BY <1>1
<1> QED BY <1>1, <1>2 DEF NotStarted, Processes

LEMMA CliNumbers ==
  ASSUME CliInv, NEW p \in Process
  PROVE  /\ cli[p] \in Processes /\ cli[p].closure \in Nat /\ cli[p].memory \in Nat
         /\ cli[p].call \in [Slot -> CliCalls]
         /\ \A s \in Slot : cli[p].call[s] \in CliCalls /\ cli[p].call[s].sent \in Nat /\ cli[p].call[s].got \in Nat
         /\ Shaped(cli[p])
<1>1. cli[p] \in Processes /\ Shaped(cli[p])
  BY DEF CliInv, CliShape
<1>2. cli[p].call \in [Slot -> CliCalls] /\ cli[p].closure \in Nat /\ cli[p].memory \in Nat
  BY <1>1 DEF Processes
<1>3. \A s \in Slot : cli[p].call[s] \in CliCalls
  BY <1>2
<1> QED BY <1>1, <1>2, <1>3 DEF CliCalls

LEMMA CliMoved ==
  ASSUME CliInv, NEW p \in Process, NEW n, cli' = [cli EXCEPT ![p] = n]
  PROVE  /\ cli'[p] = n /\ \A q \in Process \ {p} : cli'[q] = cli[q]
         /\ \A q \in Process \ {p} : Pending(q)' <=> Pending(q)
<1>1. cli'[p] = n /\ \A q \in Process \ {p} : cli'[q] = cli[q]
  BY DEF CliInv, CliShape
<1> QED BY <1>1 DEF Pending, CallAt

LEMMA CliShapeMoves ==
  ASSUME CliInv, NEW p \in Process, NEW n \in Processes, Shaped(n), cli' = [cli EXCEPT ![p] = n],
         file' \in Nat, made' \in Nat, made' <= MaxCookies, alive' \subseteq 1..made', kills' \in Nat,
         temp' \in [Process -> Nat]
  PROVE  CliShape'
<1>1. cli' \in [Process -> Processes]
  BY DEF CliInv, CliShape
<1>2. cli'[p] = n /\ \A q \in Process \ {p} : cli'[q] = cli[q]
  BY CliMoved
<1>3. \A q \in Process : Shaped(cli'[q])
  BY <1>2 DEF CliInv, CliShape
<1> QED BY <1>1, <1>3 DEF CliShape, Shaped

\* A process moves and no session changes hands: calls that got one are untouched, and the
\* process knows what it knew or what is in the file.
LEMMA ProcessMoves ==
  ASSUME CliInv, NEW p \in Process, NEW n \in Processes, Shaped(n), cli' = [cli EXCEPT ![p] = n],
         UNCHANGED <<file, temp, alive, made, kills, overlapped>>, cli[p].at # "clear",
         \A s \in Slot : \/ n.call[s] = cli[p].call[s]
                         \/ /\ n.call[s].at \in {"idle", "sent"} /\ cli[p].call[s].at \in {"idle", "sent"}
                            /\ n.call[s].got = 0 /\ n.call[s].sent \in KnownTo(p) \cup {0, file},
         n.closure \in KnownTo(p) \cup {0, file}, n.memory \in KnownTo(p) \cup {0, file}
  PROVE  CliInv'
<1>1. CliShape'
  BY CliShapeMoves DEF CliInv, CliShape
<1> SUFFICES ASSUME ~overlapped, kills = 0 PROVE CliBody'
  BY <1>1 DEF CliInv
<1>2. CliBody /\ made \in Nat
  BY DEF CliInv, CliShape
<1>3. cli'[p] = n /\ (\A q \in Process \ {p} : cli'[q] = cli[q])
      /\ \A q \in Process \ {p} : Pending(q)' <=> Pending(q)
  BY CliMoved
<1>4. \A q \in Process, s \in Slot :
        /\ Holding(q, s)' => Holding(q, s)
        /\ Holding(q, s) => cli'[q].call[s] = cli[q].call[s]
  BY <1>3 DEF Holding, CallAt, Fresh, Savings
<1>5. \A q \in Process, s \in Slot :
        Holding(q, s) => Holding(q, s)' /\ CallAt(q, s)' = CallAt(q, s) /\ Got(q, s)' = Got(q, s)
  BY <1>4 DEF Holding, CallAt, Got
<1>6. \A q \in Process : KnownTo(q)' \subseteq KnownTo(q) \cup {0, file}
  <2>1. \A q \in Process \ {p} : KnownTo(q)' = KnownTo(q)
    BY <1>3 DEF KnownTo
  <2>2. \A s \in Slot : n.call[s].sent \in KnownTo(p) \cup {0, file}
    BY DEF KnownTo
  <2>3. KnownTo(p)' \subseteq KnownTo(p) \cup {0, file}
    BY <1>3, <2>2 DEF KnownTo
  <2> QED BY <2>1, <2>3
<1>7. Numbered'
  <2>1. file <= made /\ 0 <= made /\ \A q \in Process : \A v \in KnownTo(q) : v <= made
    BY <1>2 DEF CliBody, Numbered
  <2>2. \A q \in Process : \A v \in KnownTo(q)' : v <= made
    BY <1>6, <2>1
  <2>3. \A q \in Process, s \in Slot : Got(q, s)' \in {0, Got(q, s)}
    BY <1>3 DEF Got
  <2>4. \A q \in Process, s \in Slot : Got(q, s)' <= made
    BY <1>2, <2>1, <2>3 DEF CliBody, Numbered
  <2> QED BY <2>1, <2>2, <2>4 DEF Numbered
<1>8. \A q \in Process, s \in Slot :
        /\ CallAt(q, s)' \in Savings => CallAt(q, s) \in Savings
        /\ CallAt(q, s)' \in Fresh => CallAt(q, s) \in Fresh
        /\ CallAt(q, s)' \in Fresh \cup Savings => CallAt(q, s)' = CallAt(q, s) /\ Got(q, s)' = Got(q, s)
  BY <1>4, <1>5 DEF Holding
<1>9. OneSaver' /\ TempsOwn'
  <2>1. OneSaver'
    BY <1>2, <1>8 DEF CliBody, OneSaver
  <2>2. TempsOwn'
    BY <1>2, <1>8 DEF CliBody, TempsOwn, Savings
  <2> QED BY <2>1, <2>2
<1>10. GotsDiffer'
  BY <1>2, <1>4, <1>5 DEF CliBody, GotsDiffer
<1>11. GotsPrivate'
  BY <1>2, <1>4, <1>5, <1>6 DEF CliBody, GotsPrivate
<1>12. FreshAlive'
  <2> SUFFICES ASSUME NEW q \in Process, NEW s \in Slot, CallAt(q, s)' \in Fresh
               PROVE  Got(q, s)' \in alive /\ Got(q, s)' \notin KnownTo(q)'
    BY DEF FreshAlive
  <2>1. Got(q, s) \in alive /\ Got(q, s) \notin KnownTo(q) /\ Got(q, s)' = Got(q, s)
    BY <1>2, <1>8 DEF CliBody, FreshAlive
  <2>2. Got(q, s) # 0 /\ Got(q, s) # file
    BY <1>2, <1>8 DEF CliBody, GotsPrivate, Holding
  <2> QED BY <1>6, <2>1, <2>2
<1>13. SaversAlive'
  <2> SUFFICES ASSUME NEW q \in Process, NEW s \in Slot, CallAt(q, s)' \in Savings
               PROVE  Got(q, s)' \in alive \/ \E t \in Slot : CallAt(q, t)' = "answered" /\ cli'[q].call[t].sent = Got(q, s)'
    BY DEF SaversAlive
  <2>1. Got(q, s)' = Got(q, s) /\ CallAt(q, s) \in Savings
    BY <1>8
  <2>2. CASE Got(q, s) \in alive
    BY <2>1, <2>2
  <2>3. ASSUME NEW t \in Slot, CallAt(q, t) = "answered", cli[q].call[t].sent = Got(q, s)
        PROVE  CallAt(q, t)' = "answered" /\ cli'[q].call[t].sent = Got(q, s)'
    <3>1. Holding(q, t)
      BY <2>3 DEF Holding, Fresh
    <3> QED BY <1>4, <1>5, <2>1, <2>3, <3>1
  <2> QED BY <1>2, <2>1, <2>2, <2>3 DEF CliBody, SaversAlive
<1>14. FileAlive'
  <2>1. Pending(p) => Pending(p)'
    <3>1. ASSUME NEW s \in Slot, CallAt(p, s) \in {"answered"} \cup Savings PROVE Pending(p)'
      <4>1. Holding(p, s)
        BY <3>1 DEF Holding, Fresh
      <4>2. CallAt(p, s)' = CallAt(p, s)
        BY <1>5, <4>1
      <4> QED BY <3>1, <4>2 DEF Pending
    <3> QED BY <3>1 DEF Pending
  <2> QED BY <1>2, <1>3, <2>1 DEF CliBody, FileAlive
<1> QED BY <1>7, <1>9, <1>10, <1>11, <1>12, <1>13, <1>14 DEF CliBody

LEMMA WithCallIs ==
  ASSUME CliInv, NEW p \in Process, NEW s \in Slot, NEW c \in CliCalls
  PROVE  \E n \in Processes :
           /\ n = WithCall(p, s, c)
           /\ n.kind = cli[p].kind /\ n.at = cli[p].at /\ n.closure = cli[p].closure /\ n.memory = cli[p].memory
           /\ n.call[s] = c /\ \A t \in Slot \ {s} : n.call[t] = cli[p].call[t]
<1> DEFINE n == [cli[p] EXCEPT !.call = [cli[p].call EXCEPT ![s] = c]]
<1>1. cli[p] \in Processes /\ cli[p].call \in [Slot -> CliCalls]
  BY CliNumbers
<1>2. n = WithCall(p, s, c)
  BY <1>1 DEF WithCall
<1>3. [cli[p].call EXCEPT ![s] = c] \in [Slot -> CliCalls]
  BY <1>1
<1>4. /\ n \in Processes /\ n.call = [cli[p].call EXCEPT ![s] = c]
      /\ n.kind = cli[p].kind /\ n.at = cli[p].at /\ n.closure = cli[p].closure /\ n.memory = cli[p].memory
  BY <1>1, <1>3 DEF Processes
<1>5. n.call[s] = c /\ \A t \in Slot \ {s} : n.call[t] = cli[p].call[t]
  BY <1>1, <1>4
<1> HIDE DEF n
<1> QED BY <1>2, <1>4, <1>5

\* A process is not in its loop: it starts, goes on or ends.
LEMMA OutsideMoves ==
  ASSUME CliInv, NEW p \in Process, NEW n \in Processes, cli' = [cli EXCEPT ![p] = n],
         UNCHANGED <<file, temp, alive, made, kills, overlapped>>,
         cli[p].at # "clear", \A s \in Slot : cli[p].call[s].at = "idle",
         n.call = cli[p].call \/ n.call = NotStarted.call, n.at \notin {"saving", "clear"},
         n.at = "ready" => n.kind \in {"command", "mcp"},
         n.closure \in {0, file, cli[p].closure}, n.memory \in {0, cli[p].memory}
  PROVE  CliInv'
<1>1. \A s \in Slot : n.call[s] = cli[p].call[s] \/ n.call[s] = Unsent
  BY UnsentCall
<1>2. \A s \in Slot : n.call[s].at = "idle"
  BY <1>1, UnsentCall
<1>3. Shaped(n)
  BY <1>2 DEF Shaped
<1>4. n.closure \in KnownTo(p) \cup {0, file} /\ n.memory \in KnownTo(p) \cup {0, file}
  BY DEF KnownTo
<1>5. \A s \in Slot : \/ n.call[s] = cli[p].call[s]
                      \/ /\ n.call[s].at \in {"idle", "sent"} /\ cli[p].call[s].at \in {"idle", "sent"}
                         /\ n.call[s].got = 0 /\ n.call[s].sent \in KnownTo(p) \cup {0, file}
  BY <1>1, UnsentCall
<1> QED BY <1>3, <1>4, <1>5, ProcessMoves

LEMMA EndingKeeps ==
  ASSUME CliInv, NEW p \in Process, Ends(p), UNCHANGED <<file, temp, alive, made, kills, overlapped>>,
         cli[p].at # "clear", \A s \in Slot : cli[p].call[s].at = "idle"
  PROVE  CliInv'
<1> DEFINE n == [NotStarted EXCEPT !.kind = cli[p].kind, !.at = "over"]
<1>1. cli[p] \in Processes
  BY CliNumbers
<1>2. n \in Processes /\ n.at = "over" /\ n.call = NotStarted.call /\ n.closure = 0 /\ n.memory = 0
  BY <1>1, UnsentCall DEF Processes
<1>3. cli' = [cli EXCEPT ![p] = n]
  BY DEF Ends, Goes
<1> HIDE DEF n
<1> QED BY <1>2, <1>3, OutsideMoves

LEMMA StartingKeeps ==
  ASSUME CliInv, NEW p \in Process, cli[p].at = "new",
         StartLogin(p) \/ StartLogout(p) \/ \E k \in {"command", "mcp"} : StartClient(p, k)
  PROVE  CliInv'
<1>1. \A s \in Slot : cli[p].call[s].at = "idle"
  BY CliNumbers DEF Shaped
<1>2. UNCHANGED <<file, temp, alive, made, kills, overlapped>>
  BY DEF StartLogin, StartLogout, StartClient
<1>3. CASE StartLogin(p)
  <2> DEFINE n == [NotStarted EXCEPT !.kind = "login", !.at = "browser"]
  <2>1. n \in Processes /\ n.at = "browser" /\ n.call = NotStarted.call /\ n.closure = 0 /\ n.memory = 0
    BY UnsentCall DEF Processes
  <2>2. cli' = [cli EXCEPT ![p] = n]
    BY <1>3 DEF StartLogin, Goes
  <2> HIDE DEF n
  <2> QED BY <1>1, <1>2, <2>1, <2>2, OutsideMoves
<1>4. ASSUME NEW k \in {"command", "mcp"}, StartClient(p, k) PROVE CliInv'
  <2> DEFINE n == [NotStarted EXCEPT !.kind = k, !.at = "load"]
  <2>1. n \in Processes /\ n.at = "load" /\ n.call = NotStarted.call /\ n.closure = 0 /\ n.memory = 0
    BY UnsentCall DEF Processes
  <2>2. cli' = [cli EXCEPT ![p] = n]
    BY <1>4 DEF StartClient, Goes
  <2> HIDE DEF n
  <2> QED BY <1>1, <1>2, <2>1, <2>2, OutsideMoves
<1>5. CASE StartLogout(p)
  <2> DEFINE n == [NotStarted EXCEPT !.kind = "logout", !.at = "revoke", !.closure = FromFile]
  <2>0. FromFile \in {0, file} /\ FromFile \in Nat
    BY DEF FromFile, CliInv, CliShape
  <2>1. n \in Processes /\ n.at = "revoke" /\ n.call = NotStarted.call /\ n.closure = FromFile /\ n.memory = 0
    BY <2>0, UnsentCall DEF Processes
  <2>2. cli' = [cli EXCEPT ![p] = n]
    BY <1>5 DEF StartLogout, Goes
  <2> HIDE DEF n
  <2> QED BY <1>1, <1>2, <2>0, <2>1, <2>2, OutsideMoves
<1> QED BY <1>3, <1>4, <1>5

LEMMA LoginKeeps ==
  ASSUME CliInv, NEW p \in Process,
         \/ Authorize(p) \/ BrowserOpened(p) \/ CallbackTimeout(p)
         \/ \E c \in redirects : Callback(p, c)
  PROVE  CliInv'
<1>1. cli[p].at \in {"browser", "wait", "hung"} /\ cli[p] \in Processes /\ Shaped(cli[p])
  BY CliNumbers DEF Authorize, BrowserOpened, CallbackTimeout, Callback, Listening, CliAt
<1>2. \A s \in Slot : cli[p].call[s].at = "idle"
  BY <1>1 DEF Shaped
<1>3. UNCHANGED <<file, temp, alive, made, kills, overlapped>>
  BY DEF Authorize, BrowserOpened, CallbackTimeout, Callback
<1>4. ASSUME NEW a \in {"browser", "wait", "hung", "exchange"}, cli' = [cli EXCEPT ![p] = [cli[p] EXCEPT !.at = a]]
      PROVE  CliInv'
  <2> DEFINE n == [cli[p] EXCEPT !.at = a]
  <2>1. n \in Processes /\ n.at = a /\ n.call = cli[p].call /\ n.closure = cli[p].closure /\ n.memory = cli[p].memory
    BY <1>1 DEF Processes
  <2>2. cli' = [cli EXCEPT ![p] = n]
    BY <1>4
  <2> HIDE DEF n
  <2> QED BY <1>1, <1>2, <1>3, <2>1, <2>2, OutsideMoves
<1>5. CASE Authorize(p)
  <2> DEFINE n == [cli[p] EXCEPT !.asked = TRUE]
  <2>1. n \in Processes /\ n.at = cli[p].at /\ n.call = cli[p].call /\ n.closure = cli[p].closure /\ n.memory = cli[p].memory
    BY <1>1 DEF Processes
  <2>2. cli' = [cli EXCEPT ![p] = n]
    BY <1>5 DEF Authorize, Goes
  <2> HIDE DEF n
  <2> QED BY <1>1, <1>2, <1>3, <2>1, <2>2, OutsideMoves
<1>6. ASSUME NEW c \in redirects, Callback(p, c) PROVE CliInv'
  <2>1. Settled(p, c) \in {"browser", "wait", "hung", "exchange"}
    BY <1>1 DEF Settled
  <2>2. PICK a \in {"browser", "wait", "hung", "exchange"} : a = Settled(p, c)
    BY <2>1
  <2> QED BY <1>4, <1>6, <2>2 DEF Callback, Goes
<1>7. CASE BrowserOpened(p) \/ CallbackTimeout(p)
  BY <1>4, <1>7 DEF BrowserOpened, CallbackTimeout, Goes
<1> QED BY <1>5, <1>6, <1>7

LEMMA LoadKeeps ==
  ASSUME CliInv, NEW p \in Process, Load(p) \/ Finish(p) PROVE CliInv'
<1>0. cli[p] \in Processes /\ Shaped(cli[p]) /\ cli[p].at \in {"load", "ready"} /\ cli[p].kind \in {"command", "mcp"}
  BY CliNumbers DEF Load, Finish, CliAt
<1>1. \A s \in Slot : cli[p].call[s].at = "idle"
  <2>1. CASE Load(p)
    BY <1>0, <2>1 DEF Shaped, Load
  <2>2. CASE Finish(p)
    BY <1>0, <2>2 DEF Shaped, Finish, CliAt, InCall
  <2> QED BY <2>1, <2>2
<1>2. UNCHANGED <<file, temp, alive, made, kills, overlapped>>
  BY DEF Load, Finish
<1>3. CASE Ends(p)
  BY <1>0, <1>1, <1>2, <1>3, EndingKeeps
<1>4. CASE Goes(p, [cli[p] EXCEPT !.at = "ready", !.closure = FromFile])
  <2> DEFINE n == [cli[p] EXCEPT !.at = "ready", !.closure = FromFile]
  <2>0. FromFile \in {0, file} /\ FromFile \in Nat
    BY DEF FromFile, CliInv, CliShape
  <2>1. n \in Processes /\ n.at = "ready" /\ n.call = cli[p].call /\ n.closure = FromFile
        /\ n.memory = cli[p].memory /\ n.kind = cli[p].kind
    BY <1>0, <2>0 DEF Processes
  <2>2. cli' = [cli EXCEPT ![p] = n]
    BY <1>4 DEF Goes
  <2> HIDE DEF n
  <2> QED BY <1>0, <1>1, <1>2, <2>0, <2>1, <2>2, OutsideMoves
<1> QED BY <1>3, <1>4 DEF Load, Finish

LEMMA CallingKeeps ==
  ASSUME CliInv, NEW p \in Process, NEW s \in Slot, SendCall(p, s) \/ CallAnswered(p, s) \/ Denied(p, s)
  PROVE  CliInv'
<1>0. /\ cli[p].at = "ready" /\ cli[p].call[s].at \in {"idle", "sent"} /\ Shaped(cli[p]) /\ cli[p] \in Processes
      /\ cli[p].memory \in Nat /\ cli[p].closure \in Nat
  BY CliNumbers DEF SendCall, CallAnswered, Denied, InCall
<1>1. UNCHANGED <<file, temp, alive, made, kills, overlapped>>
  BY DEF SendCall, CallAnswered, Denied
<1>2. Cookie(p) \in {cli[p].memory, cli[p].closure}
  BY DEF Cookie
<1>3. ASSUME NEW c \in CliCalls, c.at \in {"idle", "sent"}, c.got = 0, c.sent \in {0, Cookie(p)},
             s \in SlotsOf(p) \/ c.at = "idle",
             NEW m \in {0, cli[p].memory, cli[p].closure},
             cli' = [cli EXCEPT ![p] = [WithCall(p, s, c) EXCEPT !.memory = m]]
      PROVE  CliInv'
  <2>1. PICK w \in Processes :
           /\ w = WithCall(p, s, c) /\ w.kind = cli[p].kind /\ w.at = cli[p].at /\ w.closure = cli[p].closure
           /\ w.call[s] = c /\ \A t \in Slot \ {s} : w.call[t] = cli[p].call[t]
    BY WithCallIs
  <2> DEFINE n == [w EXCEPT !.memory = m]
  <2>2. m \in Nat
    BY <1>0
  <2>3. n \in Processes /\ n.kind = w.kind /\ n.at = w.at /\ n.closure = w.closure /\ n.call = w.call /\ n.memory = m
    BY <2>1, <2>2 DEF Processes
  <2>4. cli' = [cli EXCEPT ![p] = n]
    BY <1>3, <2>1
  <2> HIDE DEF n
  <2>5. \A t \in Slot : n.call[t] = cli[p].call[t] \/ (t = s /\ n.call[t] = c)
    BY <2>1, <2>3
  <2>6. Shaped(n)
    <3>1. cli[p].kind = "command" => s = FirstSlot \/ c.at = "idle"
      BY <1>3 DEF SlotsOf
    <3> QED BY <1>0, <2>1, <2>3, <2>5, <3>1 DEF Shaped
  <2>7. {0, Cookie(p), cli[p].memory, cli[p].closure} \subseteq KnownTo(p) \cup {0, file}
    BY <1>2 DEF KnownTo
  <2>8. \A t \in Slot : \/ n.call[t] = cli[p].call[t]
                         \/ /\ n.call[t].at \in {"idle", "sent"} /\ cli[p].call[t].at \in {"idle", "sent"}
                            /\ n.call[t].got = 0 /\ n.call[t].sent \in KnownTo(p) \cup {0, file}
    BY <1>0, <1>3, <2>5, <2>7
  <2>9. n.closure \in KnownTo(p) \cup {0, file} /\ n.memory \in KnownTo(p) \cup {0, file}
    BY <1>3, <2>1, <2>3, <2>7
  <2> QED BY <1>0, <1>1, <2>3, <2>4, <2>6, <2>8, <2>9, ProcessMoves
<1>4. CASE SendCall(p, s)
  <2> DEFINE c == [Unsent EXCEPT !.at = "sent", !.sent = Cookie(p)]
  <2>1. c \in CliCalls /\ c.at = "sent" /\ c.got = 0 /\ c.sent = Cookie(p)
    BY <1>0, <1>2, UnsentCall DEF CliCalls
  <2>2. cli' = [cli EXCEPT ![p] = [WithCall(p, s, c) EXCEPT !.memory = Cookie(p)]] /\ s \in SlotsOf(p)
    BY <1>4 DEF SendCall, Goes
  <2> HIDE DEF c
  <2> QED BY <1>2, <1>3, <2>1, <2>2
<1>5. CASE Denied(p, s)
  BY <1>3, <1>5, UnsentCall DEF Denied, Goes
<1>6. CASE CallAnswered(p, s)
  <2>1. PICK w \in Processes : w = WithCall(p, s, Unsent) /\ w.memory = cli[p].memory
    BY UnsentCall, WithCallIs
  <2>2. cli' = [cli EXCEPT ![p] = w]
    BY <1>6, <2>1 DEF CallAnswered, Goes
  <2>3. w = [w EXCEPT !.memory = cli[p].memory]
    BY <2>1 DEF Processes
  <2> QED BY <1>3, <2>1, <2>2, <2>3, UnsentCall
<1> QED BY <1>4, <1>5, <1>6

\* The call in one slot moves: all other calls stay, and what other processes know.
SlotFrame(p, s, n) ==
  /\ \A q \in Process, t \in Slot : ~(q = p /\ t = s) =>
       /\ cli'[q].call[t] = cli[q].call[t] /\ CallAt(q, t)' = CallAt(q, t) /\ Got(q, t)' = Got(q, t)
       /\ Holding(q, t)' <=> Holding(q, t)
  /\ cli'[p].call[s] = n.call[s] /\ CallAt(p, s)' = n.call[s].at /\ Got(p, s)' = n.call[s].got
  /\ Holding(p, s)' <=> n.call[s].at \in Fresh \cup Savings
  /\ \A q \in Process \ {p} : KnownTo(q)' = KnownTo(q)
  /\ KnownTo(p)' \subseteq KnownTo(p) \cup {n.closure, n.memory, n.call[s].sent}

LEMMA SlotMoved ==
  ASSUME CliInv, NEW p \in Process, NEW s \in Slot, NEW n \in Processes, cli' = [cli EXCEPT ![p] = n],
         \A t \in Slot : t # s => n.call[t] = cli[p].call[t]
  PROVE  SlotFrame(p, s, n)
<1>1. cli'[p] = n /\ \A q \in Process \ {p} : cli'[q] = cli[q]
  BY CliMoved
<1>2. \A q \in Process, t \in Slot : ~(q = p /\ t = s) => cli'[q].call[t] = cli[q].call[t]
  BY <1>1
<1>3. \A q \in Process, t \in Slot : ~(q = p /\ t = s) =>
              /\ CallAt(q, t)' = CallAt(q, t) /\ Got(q, t)' = Got(q, t) /\ (Holding(q, t)' <=> Holding(q, t))
  BY <1>2 DEF CallAt, Got, Holding
<1>4. CallAt(p, s)' = n.call[s].at /\ Got(p, s)' = n.call[s].got /\ (Holding(p, s)' <=> n.call[s].at \in Fresh \cup Savings)
  BY <1>1 DEF CallAt, Got, Holding
<1>5. \A q \in Process \ {p} : KnownTo(q)' = KnownTo(q)
  BY <1>1 DEF KnownTo
<1>6. KnownTo(p)' \subseteq KnownTo(p) \cup {n.closure, n.memory, n.call[s].sent}
  BY <1>1 DEF KnownTo
<1> QED BY <1>1, <1>2, <1>3, <1>4, <1>5, <1>6 DEF SlotFrame

\* A call in the loop goes on, or saves: the process stays as it has to be.
LEMMA SlotShaped ==
  ASSUME CliInv, NEW p \in Process, NEW s \in Slot, NEW n \in Processes,
         \A t \in Slot : t # s => n.call[t] = cli[p].call[t],
         n.kind = cli[p].kind, n.at = cli[p].at, cli[p].call[s].at # "idle",
         cli[p].at = "ready" \/ (cli[p].at = "saving" /\ n.call[s].at \in Savings)
  PROVE  Shaped(n)
<1>1. Shaped(cli[p])
  BY CliNumbers
<1>2. cli[p].at = "saving" => s = FirstSlot
  BY <1>1 DEF Shaped
<1>3. cli[p].kind = "command" => s = FirstSlot
  BY <1>1 DEF Shaped
<1> QED BY <1>1, <1>2, <1>3 DEF Shaped

\* A call goes on with the session it got, which its process may adopt.
HeldFrame(p, s, n) ==
  /\ Numbered' /\ GotsDiffer' /\ GotsPrivate'
  /\ \A q \in Process, t \in Slot : ~(q = p /\ t = s) => CallAt(q, t)' = CallAt(q, t)
  /\ \A q \in Process, t \in Slot :
       Got(q, t)' = Got(q, t) /\ cli'[q].call[t].sent = cli[q].call[t].sent /\ Holding(q, t)' = Holding(q, t)
  /\ CallAt(p, s)' = n.call[s].at
  /\ \A q \in Process \ {p} : KnownTo(q)' = KnownTo(q)
  /\ KnownTo(p)' \subseteq KnownTo(p) \cup {n.closure}

LEMMA HoldsOn ==
  ASSUME CliInv, CliBody, NEW p \in Process, NEW s \in Slot, NEW n \in Processes, cli' = [cli EXCEPT ![p] = n],
         \A t \in Slot : t # s => n.call[t] = cli[p].call[t], Holding(p, s), n.call[s].at \in Fresh \cup Savings,
         n.call[s].got = Got(p, s), n.call[s].sent = cli[p].call[s].sent,
         n.closure \in {cli[p].closure, Got(p, s)}, n.memory = cli[p].memory, file' = file, made' = made
  PROVE  HeldFrame(p, s, n)
<1>0. SlotFrame(p, s, n)
  BY SlotMoved
<1>1. /\ \A q \in Process, t \in Slot : ~(q = p /\ t = s) =>
              /\ cli'[q].call[t] = cli[q].call[t] /\ CallAt(q, t)' = CallAt(q, t) /\ Got(q, t)' = Got(q, t)
              /\ Holding(q, t)' <=> Holding(q, t)
      /\ cli'[p].call[s] = n.call[s] /\ CallAt(p, s)' = n.call[s].at /\ Got(p, s)' = n.call[s].got
      /\ Holding(p, s)' <=> n.call[s].at \in Fresh \cup Savings
  BY <1>0 DEF SlotFrame
<1>2. /\ \A q \in Process \ {p} : KnownTo(q)' = KnownTo(q)
      /\ KnownTo(p)' \subseteq KnownTo(p) \cup {n.closure, n.memory, n.call[s].sent}
  BY <1>0 DEF SlotFrame
<1>3. {cli[p].closure, cli[p].memory, cli[p].call[s].sent} \subseteq KnownTo(p)
  BY DEF KnownTo
<1>4. KnownTo(p)' \subseteq KnownTo(p) \cup {n.closure} /\ n.closure \in KnownTo(p) \cup {Got(p, s)}
  BY <1>2, <1>3
<1>5. \A q \in Process, t \in Slot : Got(q, t)' = Got(q, t) /\ (Holding(q, t)' <=> Holding(q, t))
  BY <1>1
<1>6. \A q \in Process, t \in Slot : cli'[q].call[t].sent = cli[q].call[t].sent
  BY <1>1
<1>7. Holding(p, s)' \in BOOLEAN /\ \A q \in Process, t \in Slot : Holding(q, t)' \in BOOLEAN /\ Holding(q, t) \in BOOLEAN
  BY DEF Holding
<1>8. Numbered'
  <2>1. Got(p, s) <= made /\ file <= made /\ \A v \in KnownTo(p) : v <= made
    BY DEF CliBody, Numbered
  <2>2. \A q \in Process : \A v \in KnownTo(q)' : v <= made
    <3>1. \A v \in KnownTo(p)' : v <= made
      BY <1>4, <2>1
    <3> QED BY <1>2, <3>1 DEF CliBody, Numbered
  <2> QED BY <1>5, <2>1, <2>2 DEF CliBody, Numbered
<1>9. GotsDiffer'
  BY <1>5 DEF CliBody, GotsDiffer
<1>10. GotsPrivate'
  <2> SUFFICES ASSUME NEW q \in Process, NEW t \in Slot, Holding(q, t)
               PROVE  /\ Got(q, t) # 0 /\ Got(q, t) # file
                      /\ \A r \in Process \ {q} : Got(q, t) \notin KnownTo(r)'
    BY <1>5 DEF GotsPrivate
  <2>1. Got(q, t) # 0 /\ Got(q, t) # file /\ \A r \in Process \ {q} : Got(q, t) \notin KnownTo(r)
    BY DEF CliBody, GotsPrivate
  <2>2. q # p => Got(q, t) # Got(p, s)
    BY DEF CliBody, GotsDiffer
  <2> QED BY <1>2, <1>4, <2>1, <2>2
<1> QED BY <1>1, <1>2, <1>4, <1>5, <1>6, <1>7, <1>8, <1>9, <1>10 DEF HeldFrame

LEMMA DeleteReplacedKeeps ==
  ASSUME CliInv, NEW p \in Process, NEW s \in Slot, DeleteReplaced(p, s) PROVE CliInv'
<1>0. cli[p].at = "ready" /\ CallAt(p, s) = "replaced" /\ cli[p].call[s] \in CliCalls
  BY CliNumbers DEF DeleteReplaced, InCall, CallAt
<1>1. PICK c : c = [cli[p].call[s] EXCEPT !.at = "answered"]
  OBVIOUS
<1>2. c \in CliCalls /\ c.at = "answered" /\ c.got = Got(p, s) /\ c.sent = cli[p].call[s].sent
  BY <1>0, <1>1 DEF CliCalls, Got, Fresh
<1>3. PICK n \in Processes :
        /\ n = WithCall(p, s, c)
        /\ n.kind = cli[p].kind /\ n.at = cli[p].at /\ n.closure = cli[p].closure /\ n.memory = cli[p].memory
        /\ n.call[s] = c /\ \A t \in Slot \ {s} : n.call[t] = cli[p].call[t]
  BY <1>2, WithCallIs
<1>4. cli' = [cli EXCEPT ![p] = n]
  BY <1>1, <1>3 DEF DeleteReplaced, Goes
<1>5. \A t \in Slot : t # s => n.call[t] = cli[p].call[t]
  BY <1>3
<1>6. Shaped(n)
  BY <1>0, <1>3, <1>5, SlotShaped DEF CallAt
<1>7. UNCHANGED <<file, temp, made, kills, overlapped>> /\ alive' = alive \ {cli[p].call[s].sent}
  BY DEF DeleteReplaced
<1>8. CliShape'
  BY <1>4, <1>6, <1>7, CliShapeMoves DEF CliInv, CliShape
<1> SUFFICES ASSUME ~overlapped, kills = 0 PROVE CliBody'
  BY <1>7, <1>8 DEF CliInv
<1>9. CliBody
  BY DEF CliInv
<1>10. Holding(p, s)
  BY <1>0 DEF Holding, Fresh
<1>11. HeldFrame(p, s, n)
  BY <1>2, <1>3, <1>4, <1>5, <1>7, <1>9, <1>10, HoldsOn DEF Fresh
<1>12. CallAt(p, s)' = "answered" /\ cli'[p].call[s].sent = cli[p].call[s].sent
  BY <1>2, <1>3, <1>11 DEF HeldFrame
<1>13. \A q \in Process, t \in Slot : ~(q = p /\ t = s) => CallAt(q, t)' = CallAt(q, t)
  BY <1>11 DEF HeldFrame
<1>14. \A q \in Process, t \in Slot : CallAt(q, t)' \in Savings => CallAt(q, t) \in Savings /\ CallAt(q, t)' = CallAt(q, t)
  BY <1>12, <1>13 DEF Savings
<1>15. OneSaver' /\ TempsOwn'
  <2>1. OneSaver'
    BY <1>9, <1>14 DEF CliBody, OneSaver
  <2>2. \A q \in Process, t \in Slot : CallAt(q, t)' = "rename" => CallAt(q, t) = "rename" /\ Got(q, t)' = Got(q, t)
    BY <1>11, <1>14 DEF Savings, HeldFrame
  <2>3. TempsOwn'
    BY <1>7, <1>9, <2>2 DEF CliBody, TempsOwn
  <2> QED BY <2>1, <2>3
<1>16. cli[p].call[s].sent \in KnownTo(p) /\ KnownTo(p)' \subseteq KnownTo(p)
  <2>1. cli[p].closure \in KnownTo(p) /\ cli[p].call[s].sent \in KnownTo(p)
    BY DEF KnownTo
  <2> QED BY <1>3, <1>11, <2>1 DEF HeldFrame
<1>17. FreshAlive'
  <2> SUFFICES ASSUME NEW q \in Process, NEW t \in Slot, CallAt(q, t)' \in Fresh
               PROVE  Got(q, t)' \in alive' /\ Got(q, t)' \notin KnownTo(q)'
    BY DEF FreshAlive
  <2>1. CallAt(q, t) \in Fresh
    BY <1>0, <1>13 DEF Fresh
  <2>2. Got(q, t) \in alive /\ Got(q, t) \notin KnownTo(q)
    BY <1>9, <2>1 DEF CliBody, FreshAlive
  <2>3. Holding(q, t)
    BY <2>1 DEF Holding
  <2>4. q # p => Got(q, t) \notin KnownTo(p)
    BY <1>9, <2>3 DEF CliBody, GotsPrivate
  <2>5. Got(q, t) # cli[p].call[s].sent
    BY <1>16, <2>2, <2>4
  <2>6. Got(q, t)' = Got(q, t) /\ (q # p => KnownTo(q)' = KnownTo(q))
    BY <1>11 DEF HeldFrame
  <2> QED BY <1>7, <1>16, <2>2, <2>5, <2>6
<1>18. SaversAlive'
  <2> SUFFICES ASSUME NEW q \in Process, NEW t \in Slot, CallAt(q, t)' \in Savings
               PROVE  Got(q, t)' \in alive' \/ \E u \in Slot : CallAt(q, u)' = "answered" /\ cli'[q].call[u].sent = Got(q, t)'
    BY DEF SaversAlive
  <2>1. CallAt(q, t) \in Savings /\ Got(q, t)' = Got(q, t)
    BY <1>11, <1>14 DEF HeldFrame
  <2>2. CASE Got(q, t) = cli[p].call[s].sent
    <3>1. Holding(q, t)
      BY <2>1 DEF Holding
    <3>2. q = p
      BY <1>9, <1>16, <2>2, <3>1 DEF CliBody, GotsPrivate
    <3> QED BY <1>12, <2>1, <2>2, <3>2
  <2>3. CASE Got(q, t) # cli[p].call[s].sent /\ Got(q, t) \in alive
    BY <1>7, <2>1, <2>3
  <2>4. ASSUME NEW u \in Slot, CallAt(q, u) = "answered", cli[q].call[u].sent = Got(q, t)
        PROVE  CallAt(q, u)' = "answered" /\ cli'[q].call[u].sent = Got(q, t)'
    <3>1. ~(q = p /\ u = s)
      BY <1>0, <2>4
    <3> QED BY <1>11, <1>13, <2>1, <2>4, <3>1 DEF HeldFrame
  <2> QED BY <1>9, <2>1, <2>2, <2>3, <2>4 DEF CliBody, SaversAlive
<1>19. FileAlive'
  BY <1>12 DEF FileAlive, Pending
<1> QED BY <1>11, <1>15, <1>17, <1>18, <1>19 DEF CliBody, HeldFrame

LEMMA AdoptCookieKeeps ==
  ASSUME CliInv, NEW p \in Process, NEW s \in Slot, AdoptCookie(p, s) PROVE CliInv'
<1>0. cli[p].at = "ready" /\ CallAt(p, s) = "answered" /\ cli[p].call[s] \in CliCalls /\ Got(p, s) \in Nat
      /\ Merged(p, s) = Got(p, s)
  BY CliNumbers DEF AdoptCookie, InCall, CallAt, Got, Merged
<1>1. PICK c : c = [cli[p].call[s] EXCEPT !.at = "write", !.got = Merged(p, s)]
  OBVIOUS
<1>2. c \in CliCalls /\ c.at = "write" /\ c.got = Got(p, s) /\ c.sent = cli[p].call[s].sent
  BY <1>0, <1>1 DEF CliCalls, Savings
<1>3. PICK w \in Processes :
        /\ w = WithCall(p, s, c)
        /\ w.kind = cli[p].kind /\ w.at = cli[p].at /\ w.closure = cli[p].closure /\ w.memory = cli[p].memory
        /\ w.call[s] = c /\ \A t \in Slot \ {s} : w.call[t] = cli[p].call[t]
  BY <1>2, WithCallIs
<1> DEFINE n == [w EXCEPT !.closure = Merged(p, s)]
<1>4. /\ n \in Processes /\ n.kind = cli[p].kind /\ n.at = cli[p].at /\ n.closure = Got(p, s) /\ n.memory = cli[p].memory
      /\ n.call = w.call
  BY <1>0, <1>3 DEF Processes
<1>5. cli' = [cli EXCEPT ![p] = n]
  BY <1>1, <1>3 DEF AdoptCookie, Goes
<1> HIDE DEF n
<1>6. n.call[s] = c /\ \A t \in Slot : t # s => n.call[t] = cli[p].call[t]
  BY <1>3, <1>4
<1>7. Shaped(n)
  BY <1>0, <1>4, <1>6, SlotShaped DEF CallAt
<1>8. UNCHANGED <<file, temp, alive, made, kills>>
      /\ (~overlapped' => ~overlapped /\ \A t \in Slot \ {s} : cli[p].call[t].at \notin {"write", "written", "rename"})
  BY DEF AdoptCookie
<1>9. CliShape'
  BY <1>4, <1>5, <1>7, <1>8, CliShapeMoves DEF CliInv, CliShape
<1> SUFFICES ASSUME ~overlapped', kills = 0 PROVE CliBody'
  BY <1>8, <1>9 DEF CliInv
<1>10. CliBody /\ \A t \in Slot \ {s} : CallAt(p, t) \notin Savings
  BY <1>8 DEF CliInv, CallAt, Savings
<1>11. Holding(p, s)
  BY <1>0 DEF Holding, Fresh
<1>12. HeldFrame(p, s, n)
  BY <1>2, <1>4, <1>5, <1>6, <1>8, <1>10, <1>11, HoldsOn DEF Savings
<1>13. CallAt(p, s)' = "write" /\ \A q \in Process, t \in Slot : ~(q = p /\ t = s) => CallAt(q, t)' = CallAt(q, t)
  BY <1>2, <1>6, <1>12 DEF HeldFrame
<1>14. \A q \in Process, t \in Slot : Got(q, t)' = Got(q, t) /\ cli'[q].call[t].sent = cli[q].call[t].sent
  BY <1>12 DEF HeldFrame
<1>15. OneSaver' /\ TempsOwn'
  <2>1. OneSaver'
    BY <1>10, <1>13 DEF CliBody, OneSaver
  <2>2. TempsOwn'
    BY <1>8, <1>10, <1>13, <1>14 DEF CliBody, TempsOwn
  <2> QED BY <2>1, <2>2
<1>16. FreshAlive'
  <2> SUFFICES ASSUME NEW q \in Process, NEW t \in Slot, CallAt(q, t)' \in Fresh
               PROVE  Got(q, t)' \in alive' /\ Got(q, t)' \notin KnownTo(q)'
    BY DEF FreshAlive
  <2>1. CallAt(q, t) \in Fresh /\ ~(q = p /\ t = s)
    BY <1>13 DEF Fresh
  <2>2. Got(q, t) \in alive /\ Got(q, t) \notin KnownTo(q)
    BY <1>10, <2>1 DEF CliBody, FreshAlive
  <2>3. Holding(q, t)
    BY <2>1 DEF Holding
  <2>4. Got(q, t) # Got(p, s)
    BY <1>10, <1>11, <2>1, <2>3 DEF CliBody, GotsDiffer
  <2>5. KnownTo(q)' \subseteq KnownTo(q) \cup {Got(p, s)}
    BY <1>4, <1>12 DEF HeldFrame
  <2> QED BY <1>8, <1>14, <2>2, <2>4, <2>5
<1>17. SaversAlive'
  <2> SUFFICES ASSUME NEW q \in Process, NEW t \in Slot, CallAt(q, t)' \in Savings
               PROVE  Got(q, t)' \in alive' \/ \E u \in Slot : CallAt(q, u)' = "answered" /\ cli'[q].call[u].sent = Got(q, t)'
    BY DEF SaversAlive
  <2>1. CASE q = p /\ t = s
    <3>1. Got(p, s) \in alive
      BY <1>0, <1>10 DEF CliBody, FreshAlive, Fresh
    <3> QED BY <1>8, <1>14, <2>1, <3>1
  <2>2. CASE q # p
    <3>1. CallAt(q, t) \in Savings
      BY <1>13, <2>2
    <3>2. Got(q, t) \in alive \/ \E u \in Slot : CallAt(q, u) = "answered" /\ cli[q].call[u].sent = Got(q, t)
      BY <1>10, <3>1 DEF CliBody, SaversAlive
    <3> QED BY <1>8, <1>13, <1>14, <2>2, <3>2
  <2>3. CASE q = p /\ t # s
    BY <1>10, <1>13, <2>3
  <2> QED BY <2>1, <2>2, <2>3
<1>18. FileAlive'
  BY <1>13 DEF FileAlive, Pending, Savings
<1> QED BY <1>12, <1>15, <1>16, <1>17, <1>18 DEF CliBody, HeldFrame

LEMMA WritingKeeps ==
  ASSUME CliInv, NEW p \in Process, NEW s \in Slot, OpenTemp(p, s) \/ WriteTemp(p, s) PROVE CliInv'
<1>0. /\ cli[p].at \in {"ready", "saving"} /\ CallAt(p, s) \in {"write", "written"} /\ cli[p].call[s] \in CliCalls
      /\ Got(p, s) \in Nat
  BY CliNumbers DEF OpenTemp, WriteTemp, Saving, CallAt, Got
<1>1. PICK a \in {"written", "rename"} :
        /\ Goes(p, WithCall(p, s, [cli[p].call[s] EXCEPT !.at = a]))
        /\ \E f \in {Partial, Got(p, s)} : temp' = [temp EXCEPT ![p] = f]
        /\ a = "rename" => temp' = [temp EXCEPT ![p] = Got(p, s)]
  BY DEF OpenTemp, WriteTemp, Got
<1>2. PICK c : c = [cli[p].call[s] EXCEPT !.at = a]
  OBVIOUS
<1>3. c \in CliCalls /\ c.at = a /\ c.got = Got(p, s) /\ c.sent = cli[p].call[s].sent
  BY <1>0, <1>2 DEF CliCalls, Got, Savings
<1>4. PICK n \in Processes :
        /\ n = WithCall(p, s, c)
        /\ n.kind = cli[p].kind /\ n.at = cli[p].at /\ n.closure = cli[p].closure /\ n.memory = cli[p].memory
        /\ n.call[s] = c /\ \A t \in Slot \ {s} : n.call[t] = cli[p].call[t]
  BY <1>3, WithCallIs
<1>5. cli' = [cli EXCEPT ![p] = n]
  BY <1>1, <1>2, <1>4 DEF Goes
<1>6. \A t \in Slot : t # s => n.call[t] = cli[p].call[t]
  BY <1>4
<1>7. Shaped(n)
  BY <1>0, <1>3, <1>4, <1>6, SlotShaped DEF CallAt, Savings
<1>8. UNCHANGED <<file, alive, made, kills, overlapped>>
  BY DEF OpenTemp, WriteTemp
<1>9. temp' \in [Process -> Nat] /\ \A q \in Process \ {p} : temp'[q] = temp[q]
  BY <1>0, <1>1, CliSessionAssumption DEF Partial, CliInv, CliShape
<1>10. a = "rename" => temp'[p] = Got(p, s)
  BY <1>1 DEF CliInv, CliShape
<1>11. CliShape'
  BY <1>5, <1>7, <1>8, <1>9, CliShapeMoves DEF CliInv, CliShape
<1> SUFFICES ASSUME ~overlapped, kills = 0 PROVE CliBody'
  BY <1>8, <1>11 DEF CliInv
<1>12. CliBody
  BY DEF CliInv
<1>13. Holding(p, s) /\ CallAt(p, s) \in Savings
  BY <1>0 DEF Holding, Savings
<1>14. HeldFrame(p, s, n)
  BY <1>3, <1>4, <1>5, <1>6, <1>8, <1>12, <1>13, HoldsOn DEF Savings
<1>15. CallAt(p, s)' = a /\ \A q \in Process, t \in Slot : ~(q = p /\ t = s) => CallAt(q, t)' = CallAt(q, t)
  BY <1>3, <1>4, <1>14 DEF HeldFrame
<1>16. \A q \in Process, t \in Slot : Got(q, t)' = Got(q, t) /\ cli'[q].call[t].sent = cli[q].call[t].sent
  BY <1>14 DEF HeldFrame
<1>17. \A q \in Process, t \in Slot : CallAt(q, t)' \in Savings => CallAt(q, t) \in Savings
  BY <1>13, <1>15
<1>18. OneSaver' /\ TempsOwn'
  <2>1. OneSaver'
    BY <1>12, <1>17 DEF CliBody, OneSaver
  <2>2. \A t \in Slot \ {s} : CallAt(p, t) \notin Savings
    BY <1>12, <1>13 DEF CliBody, OneSaver
  <2>3. TempsOwn'
    <3> SUFFICES ASSUME NEW q \in Process, NEW t \in Slot, CallAt(q, t)' = "rename" PROVE temp'[q] = Got(q, t)'
      BY DEF TempsOwn
    <3>1. CASE q = p
      BY <1>10, <1>15, <1>16, <2>2, <3>1 DEF Savings
    <3>2. CASE q # p
      BY <1>9, <1>12, <1>15, <1>16, <3>2 DEF CliBody, TempsOwn
    <3> QED BY <3>1, <3>2
  <2> QED BY <2>1, <2>3
<1>19. FreshAlive'
  <2>0. \A q \in Process : KnownTo(q)' \subseteq KnownTo(q)
    <3>1. cli[p].closure \in KnownTo(p)
      BY DEF KnownTo
    <3> QED BY <1>4, <1>14, <3>1 DEF HeldFrame
  <2>1. \A q \in Process, t \in Slot : CallAt(q, t)' \in Fresh => CallAt(q, t) \in Fresh
    BY <1>15 DEF Fresh
  <2> QED BY <1>8, <1>12, <1>16, <2>0, <2>1 DEF CliBody, FreshAlive
<1>20. SaversAlive'
  <2> SUFFICES ASSUME NEW q \in Process, NEW t \in Slot, CallAt(q, t)' \in Savings
               PROVE  Got(q, t)' \in alive' \/ \E u \in Slot : CallAt(q, u)' = "answered" /\ cli'[q].call[u].sent = Got(q, t)'
    BY DEF SaversAlive
  <2>1. Got(q, t) \in alive \/ \E u \in Slot : CallAt(q, u) = "answered" /\ cli[q].call[u].sent = Got(q, t)
    BY <1>12, <1>17 DEF CliBody, SaversAlive
  <2>2. \A u \in Slot : CallAt(q, u) = "answered" => CallAt(q, u)' = "answered"
    BY <1>0, <1>15
  <2> QED BY <1>8, <1>16, <2>1, <2>2
<1>21. FileAlive'
  BY <1>15 DEF FileAlive, Pending, Savings
<1> QED BY <1>14, <1>18, <1>19, <1>20, <1>21 DEF CliBody, HeldFrame

\* The back end makes a session and a call gets it.
LEMMA MakingKeeps ==
  ASSUME CliInv, NEW p \in Process, NEW s \in Slot, NEW n \in Processes, Shaped(n), cli' = [cli EXCEPT ![p] = n],
         Make, UNCHANGED <<file, temp, kills, overlapped>>, cli[p].at # "clear",
         \A t \in Slot : t # s => n.call[t] = cli[p].call[t],
         cli[p].call[s].at \in {"idle", "sent"}, n.call[s].at \in {"replaced", "write"}, n.call[s].got = made + 1,
         n.call[s].sent \in {0, cli[p].call[s].sent}, n.closure = cli[p].closure, n.memory = cli[p].memory,
         n.call[s].at = "write" => \A t \in Slot : CallAt(p, t) = "idle"
  PROVE  CliInv'
<1>0. made' = made + 1 /\ alive' = alive \cup {made + 1} /\ made < MaxCookies /\ made \in Nat /\ made + 1 \in Nat
      /\ alive \subseteq 1..made
  BY DEF Make, CliInv, CliShape
<1>1. CliShape'
  <2>1. made' \in Nat /\ made' <= MaxCookies
    BY <1>0, CliSessionAssumption
  <2>2. alive' \subseteq 1..made'
    BY <1>0
  <2> QED BY <2>1, <2>2, CliShapeMoves DEF CliInv, CliShape
<1> SUFFICES ASSUME ~overlapped, kills = 0 PROVE CliBody'
  BY <1>1 DEF CliInv
<1>2. CliBody
  BY DEF CliInv
<1>3. SlotFrame(p, s, n)
  BY SlotMoved
<1>4. /\ CallAt(p, s)' = n.call[s].at /\ Got(p, s)' = made + 1 /\ Holding(p, s)' /\ ~Holding(p, s)
      /\ CallAt(p, s) \notin Fresh \cup Savings
  BY <1>3 DEF SlotFrame, Fresh, Savings, Holding, CallAt
<1>5. \A q \in Process, t \in Slot : ~(q = p /\ t = s) =>
        /\ cli'[q].call[t] = cli[q].call[t] /\ CallAt(q, t)' = CallAt(q, t) /\ Got(q, t)' = Got(q, t)
        /\ Holding(q, t)' <=> Holding(q, t)
  BY <1>3 DEF SlotFrame
<1>6. \A q \in Process : KnownTo(q)' \subseteq KnownTo(q) \cup {0}
  <2>1. {cli[p].closure, cli[p].memory, cli[p].call[s].sent} \subseteq KnownTo(p)
    BY DEF KnownTo
  <2>2. KnownTo(p)' \subseteq KnownTo(p) \cup {n.closure, n.memory, n.call[s].sent}
    BY <1>3 DEF SlotFrame
  <2>3. KnownTo(p)' \subseteq KnownTo(p) \cup {0}
    BY <2>1, <2>2
  <2> QED BY <1>3, <2>3 DEF SlotFrame
<1>7. /\ file <= made /\ file \in Nat
      /\ \A q \in Process : (\A v \in KnownTo(q) : v <= made /\ v \in Nat) /\ \A t \in Slot : Got(q, t) <= made /\ Got(q, t) \in Nat
  <2>1. file \in Nat
    BY DEF CliInv, CliShape
  <2>2. \A q \in Process : (\A v \in KnownTo(q) : v \in Nat) /\ \A t \in Slot : Got(q, t) \in Nat
    <3> SUFFICES ASSUME NEW q \in Process PROVE (\A v \in KnownTo(q) : v \in Nat) /\ \A t \in Slot : Got(q, t) \in Nat
      OBVIOUS
    <3> QED BY CliNumbers DEF KnownTo, Got
  <2> QED BY <1>2, <2>1, <2>2 DEF CliBody, Numbered
<1>8. \A v \in Nat : v <= made => v <= made + 1 /\ v # made + 1
  BY <1>0
<1>9. \A q \in Process : \A v \in KnownTo(q)' : v <= made + 1 /\ v # made + 1
  <2>1. 0 <= made + 1 /\ 0 # made + 1
    BY <1>0
  <2> QED BY <1>6, <1>7, <1>8, <2>1
<1>10. Numbered'
  <2>1. file <= made + 1 /\ made + 1 <= made + 1
    BY <1>0, <1>7, <1>8
  <2>2. \A q \in Process, t \in Slot : Got(q, t)' <= made + 1
    BY <1>4, <1>5, <1>7, <1>8, <2>1
  <2> QED BY <1>0, <1>9, <2>1, <2>2 DEF Numbered
<1>11. \A q \in Process, t \in Slot : ~(q = p /\ t = s) => Got(q, t)' # made + 1
  BY <1>5, <1>7, <1>8
<1>12. OneSaver' /\ TempsOwn'
  <2>1. CASE n.call[s].at = "replaced"
    <3>1. \A q \in Process, t \in Slot : CallAt(q, t)' \in Savings => ~(q = p /\ t = s) /\ CallAt(q, t) \in Savings
      BY <1>4, <1>5, <2>1 DEF Savings
    <3> QED BY <1>2, <1>4, <1>5, <2>1, <3>1 DEF CliBody, OneSaver, TempsOwn
  <2>2. CASE n.call[s].at = "write"
    <3>1. \A t \in Slot : CallAt(p, t)' \in Savings => t = s
      BY <1>5, <2>2 DEF Savings
    <3>2. OneSaver'
      BY <1>2, <1>5, <3>1 DEF CliBody, OneSaver
    <3>3. TempsOwn'
      BY <1>2, <1>4, <1>5, <2>2 DEF CliBody, TempsOwn
    <3> QED BY <3>2, <3>3
  <2> QED BY <2>1, <2>2
<1>13. GotsDiffer'
  <2> SUFFICES ASSUME NEW q \in Process, NEW r \in Process, NEW t \in Slot, NEW u \in Slot,
                      Holding(q, t)', Holding(r, u)', Got(q, t)' = Got(r, u)'
               PROVE  q = r /\ t = u
    BY DEF GotsDiffer
  <2>1. CASE (q = p /\ t = s) \/ (r = p /\ u = s)
    BY <1>4, <1>11, <2>1
  <2>2. CASE ~(q = p /\ t = s) /\ ~(r = p /\ u = s)
    BY <1>2, <1>5, <2>2 DEF CliBody, GotsDiffer
  <2> QED BY <2>1, <2>2
<1>14. GotsPrivate'
  <2> SUFFICES ASSUME NEW q \in Process, NEW t \in Slot, Holding(q, t)'
               PROVE  /\ Got(q, t)' # 0 /\ Got(q, t)' # file
                      /\ \A r \in Process \ {q} : Got(q, t)' \notin KnownTo(r)'
    BY DEF GotsPrivate
  <2>1. CASE q = p /\ t = s
    <3>1. made + 1 # 0 /\ made + 1 # file
      BY <1>0, <1>7, <1>8
    <3> QED BY <1>4, <1>9, <2>1, <3>1
  <2>2. CASE ~(q = p /\ t = s)
    BY <1>2, <1>5, <1>6, <2>2 DEF CliBody, GotsPrivate
  <2> QED BY <2>1, <2>2
<1>15. FreshAlive'
  <2> SUFFICES ASSUME NEW q \in Process, NEW t \in Slot, CallAt(q, t)' \in Fresh
               PROVE  Got(q, t)' \in alive' /\ Got(q, t)' \notin KnownTo(q)'
    BY DEF FreshAlive
  <2>1. CASE q = p /\ t = s
    BY <1>0, <1>4, <1>9, <2>1
  <2>2. CASE ~(q = p /\ t = s)
    <3>1. CallAt(q, t) \in Fresh /\ Holding(q, t) /\ Got(q, t)' = Got(q, t)
      BY <1>5, <2>2 DEF Holding
    <3>2. Got(q, t) \in alive /\ Got(q, t) \notin KnownTo(q) /\ Got(q, t) # 0
      BY <1>2, <3>1 DEF CliBody, FreshAlive, GotsPrivate
    <3> QED BY <1>0, <1>6, <3>1, <3>2
  <2> QED BY <2>1, <2>2
<1>16. SaversAlive'
  <2> SUFFICES ASSUME NEW q \in Process, NEW t \in Slot, CallAt(q, t)' \in Savings
               PROVE  Got(q, t)' \in alive' \/ \E u \in Slot : CallAt(q, u)' = "answered" /\ cli'[q].call[u].sent = Got(q, t)'
    BY DEF SaversAlive
  <2>1. CASE q = p /\ t = s
    BY <1>0, <1>4, <2>1
  <2>2. CASE ~(q = p /\ t = s)
    <3>1. CallAt(q, t) \in Savings /\ Got(q, t)' = Got(q, t)
      BY <1>5, <2>2
    <3>2. Got(q, t) \in alive \/ \E u \in Slot : CallAt(q, u) = "answered" /\ cli[q].call[u].sent = Got(q, t)
      BY <1>2, <3>1 DEF CliBody, SaversAlive
    <3>3. \A u \in Slot : CallAt(q, u) = "answered" => ~(q = p /\ u = s)
      BY <1>4 DEF Fresh
    <3> QED BY <1>0, <1>5, <3>1, <3>2, <3>3
  <2> QED BY <2>1, <2>2
<1>17. FileAlive'
  <2>1. ASSUME NEW q \in Process, Pending(q) PROVE Pending(q)'
    <3>1. CASE q # p
      BY <2>1, <3>1, CliMoved
    <3>2. CASE q = p
      <4>1. PICK t \in Slot : CallAt(p, t) \in {"answered"} \cup Savings
        BY <2>1, <3>2 DEF Pending
      <4>2. t # s
        BY <1>4, <4>1 DEF Fresh
      <4> QED BY <1>5, <3>2, <4>1, <4>2 DEF Pending
    <3> QED BY <3>1, <3>2
  <2> QED BY <1>0, <1>2, <2>1 DEF CliBody, FileAlive
<1> QED BY <1>10, <1>12, <1>13, <1>14, <1>15, <1>16, <1>17 DEF CliBody

LEMMA ReplaceKeeps ==
  ASSUME CliInv, NEW p \in Process, NEW s \in Slot, Replace(p, s) PROVE CliInv'
<1>0. cli[p].at = "ready" /\ cli[p].call[s].at = "sent" /\ cli[p].call[s] \in CliCalls /\ made + 1 \in Nat
  BY CliNumbers DEF Replace, InCall, CliInv, CliShape
<1>1. PICK c : c = [cli[p].call[s] EXCEPT !.at = "replaced", !.got = made + 1]
  OBVIOUS
<1>2. c \in CliCalls /\ c.at = "replaced" /\ c.got = made + 1 /\ c.sent = cli[p].call[s].sent
  <2> DEFINE g == made + 1
  <2>1. g \in Nat /\ c = [cli[p].call[s] EXCEPT !.at = "replaced", !.got = g]
    BY <1>0, <1>1
  <2> HIDE DEF g
  <2>2. c \in CliCalls /\ c.at = "replaced" /\ c.got = g /\ c.sent = cli[p].call[s].sent
    BY <1>0, <2>1 DEF CliCalls, Fresh
  <2> QED BY <2>2 DEF g
<1>3. PICK n \in Processes :
        /\ n = WithCall(p, s, c)
        /\ n.kind = cli[p].kind /\ n.at = cli[p].at /\ n.closure = cli[p].closure /\ n.memory = cli[p].memory
        /\ n.call[s] = c /\ \A t \in Slot \ {s} : n.call[t] = cli[p].call[t]
  BY <1>2, WithCallIs
<1>4. cli' = [cli EXCEPT ![p] = n]
  BY <1>1, <1>3 DEF Replace, Goes
<1>5. \A t \in Slot : t # s => n.call[t] = cli[p].call[t]
  BY <1>3
<1>6. Shaped(n)
  BY <1>0, <1>3, <1>5, SlotShaped
<1>7. Make /\ UNCHANGED <<file, temp, kills, overlapped>>
  BY DEF Replace
<1>8. /\ cli[p].at # "clear" /\ cli[p].call[s].at \in {"idle", "sent"}
      /\ n.call[s].at = "replaced" /\ n.call[s].got = made + 1
      /\ n.call[s].sent \in {0, cli[p].call[s].sent}
      /\ n.closure = cli[p].closure /\ n.memory = cli[p].memory
  BY <1>0, <1>2, <1>3
<1>9. n.call[s].at \in {"replaced", "write"} /\ n.call[s].at # "write"
  BY <1>8
<1> QED BY <1>4, <1>5, <1>6, <1>7, <1>8, <1>9, MakingKeeps

LEMMA ExchangeCodeKeeps ==
  ASSUME CliInv, NEW p \in Process, ExchangeCode(p) PROVE CliInv'
<1>0. /\ cli[p].at = "exchange" /\ cli[p].kind = "login" /\ cli[p] \in Processes /\ made + 1 \in Nat
      /\ cli[p].call \in [Slot -> CliCalls] /\ Shaped(cli[p])
  BY CliNumbers DEF ExchangeCode, CliAt, CliInv, CliShape
<1>1. \A t \in Slot : cli[p].call[t].at = "idle"
  BY <1>0 DEF Shaped
<1>2. CASE Ends(p) /\ UNCHANGED <<alive, made>>
  BY <1>0, <1>1, <1>2, EndingKeeps DEF ExchangeCode
<1>3. CASE Make /\ Goes(p, [cli[p] EXCEPT !.at = "saving", !.call[FirstSlot] = [at |-> "write", sent |-> 0, got |-> made + 1]])
  <2>1. PICK g \in Nat : g = made + 1
    BY <1>0
  <2>2. PICK c : c = [at |-> "write", sent |-> 0, got |-> g]
    OBVIOUS
  <2>3. c \in CliCalls /\ c.at = "write" /\ c.got = g /\ c.sent = 0
    BY <2>2 DEF CliCalls, Savings
  <2>4. [cli[p].call EXCEPT ![FirstSlot] = c] \in [Slot -> CliCalls] /\ FirstSlot \in Slot
    BY <1>0, <2>3, CliSessionAssumption
  <2>5. PICK n : n = [cli[p] EXCEPT !.at = "saving", !.call = [cli[p].call EXCEPT ![FirstSlot] = c]]
    OBVIOUS
  <2>6. /\ n \in Processes /\ n.at = "saving" /\ n.kind = "login" /\ n.closure = cli[p].closure /\ n.memory = cli[p].memory
        /\ n.call = [cli[p].call EXCEPT ![FirstSlot] = c]
    BY <1>0, <2>4, <2>5 DEF Processes
  <2>7. n.call[FirstSlot] = c /\ \A t \in Slot : t # FirstSlot => n.call[t] = cli[p].call[t]
    BY <1>0, <2>4, <2>6
  <2>8. Shaped(n)
    BY <1>1, <2>3, <2>6, <2>7 DEF Shaped, Savings
  <2>9. cli' = [cli EXCEPT ![p] = n]
    BY <1>0, <1>3, <2>1, <2>2, <2>5 DEF Goes
  <2>10. UNCHANGED <<file, temp, kills, overlapped>>
    BY DEF ExchangeCode
  <2>11. \A t \in Slot : CallAt(p, t) = "idle"
    BY <1>1 DEF CallAt
  <2>12. n.call[FirstSlot].at = "write" /\ n.call[FirstSlot].got = made + 1 /\ n.call[FirstSlot].sent = 0
    BY <2>1, <2>3, <2>7
  <2> QED BY <1>0, <1>1, <1>3, <2>4, <2>6, <2>7, <2>8, <2>9, <2>10, <2>11, <2>12, MakingKeeps
<1> QED BY <1>2, <1>3 DEF ExchangeCode

\* A call has saved what it got: it is everyone's from now on.
LEMMA SavedKeeps ==
  ASSUME CliInv, NEW p \in Process, NEW s \in Slot, NEW n \in Processes, Shaped(n), cli' = [cli EXCEPT ![p] = n],
         CallAt(p, s) = "rename", n.call[s].at = "idle", n.call[s].got = 0, n.call[s].sent = 0, n.at # "clear",
         cli[p].at # "clear",
         \A t \in Slot : t # s => n.call[t] = cli[p].call[t] \/ (n.call[t] = Unsent /\ cli[p].call[t].at = "idle"),
         n.closure \in {0, cli[p].closure}, n.memory \in {0, cli[p].memory, Got(p, s)},
         file' = IF temp[p] = 0 THEN file ELSE temp[p], temp' = [temp EXCEPT ![p] = 0],
         UNCHANGED <<alive, made, kills, overlapped>>
  PROVE  CliInv'
<1>1. CliShape'
  <2>1. temp[p] \in Nat /\ file \in Nat /\ temp' \in [Process -> Nat]
    BY DEF CliInv, CliShape
  <2>2. file' \in Nat
    BY <2>1
  <2> QED BY <2>1, <2>2, CliShapeMoves DEF CliInv, CliShape
<1> SUFFICES ASSUME ~overlapped, kills = 0 PROVE CliBody'
  BY <1>1 DEF CliInv
<1>2. CliBody
  BY DEF CliInv
<1>3. CallAt(p, s) \in Savings /\ Holding(p, s)
  BY DEF Savings, Holding
<1>4. temp[p] = Got(p, s) /\ Got(p, s) # 0
  BY <1>2, <1>3 DEF CliBody, TempsOwn, GotsPrivate
<1>5. file' = Got(p, s)
  BY <1>4
<1>6. cli'[p] = n /\ \A q \in Process \ {p} : cli'[q] = cli[q]
  BY CliMoved
<1>7. \A q \in Process, t \in Slot : Holding(q, t)' =>
        /\ ~(q = p /\ t = s) /\ Holding(q, t)
        /\ cli'[q].call[t] = cli[q].call[t] /\ CallAt(q, t)' = CallAt(q, t) /\ Got(q, t)' = Got(q, t)
  BY <1>6, UnsentCall DEF Holding, CallAt, Got, Fresh, Savings
<1>8. \A q \in Process, t \in Slot : Holding(q, t) /\ ~(q = p /\ t = s) =>
        cli'[q].call[t] = cli[q].call[t] /\ CallAt(q, t)' = CallAt(q, t) /\ Got(q, t)' = Got(q, t)
  BY <1>6 DEF Holding, CallAt, Got, Fresh, Savings
<1>9. \A q \in Process : KnownTo(q)' \subseteq KnownTo(q) \cup {0, Got(p, s)}
  <2>1. \A q \in Process \ {p} : KnownTo(q)' = KnownTo(q)
    BY <1>6 DEF KnownTo
  <2>2. \A t \in Slot : n.call[t].sent \in {0, cli[p].call[t].sent}
    BY UnsentCall
  <2>3. KnownTo(p)' \subseteq KnownTo(p) \cup {0, Got(p, s)}
    BY <1>6, <2>2 DEF KnownTo
  <2> QED BY <2>1, <2>3
<1>10. Numbered'
  <2>1. 0 <= made /\ Got(p, s) <= made /\ \A q \in Process : \A v \in KnownTo(q) : v <= made
    BY <1>2 DEF CliBody, Numbered, CliInv, CliShape
  <2>2. \A q \in Process : \A v \in KnownTo(q)' : v <= made
    BY <1>9, <2>1
  <2>3. \A q \in Process, t \in Slot : Got(q, t)' \in {0, Got(q, t)}
    BY <1>6, UnsentCall DEF Got
  <2>4. \A q \in Process, t \in Slot : Got(q, t)' <= made
    BY <1>2, <2>1, <2>3 DEF CliBody, Numbered
  <2> QED BY <1>5, <2>1, <2>2, <2>4 DEF Numbered
<1>11. \A q \in Process, t \in Slot : CallAt(q, t)' \in Fresh \cup Savings =>
         /\ ~(q = p /\ t = s) /\ CallAt(q, t) \in Fresh \cup Savings /\ Holding(q, t)
         /\ cli'[q].call[t] = cli[q].call[t] /\ CallAt(q, t)' = CallAt(q, t) /\ Got(q, t)' = Got(q, t)
  BY <1>7 DEF Holding
<1>12. OneSaver'
  BY <1>2, <1>11 DEF CliBody, OneSaver
<1>13. TempsOwn'
  <2> SUFFICES ASSUME NEW q \in Process, NEW t \in Slot, CallAt(q, t)' = "rename" PROVE temp'[q] = Got(q, t)'
    BY DEF TempsOwn
  <2>1. CallAt(q, t) = "rename" /\ Got(q, t)' = Got(q, t) /\ ~(q = p /\ t = s)
    BY <1>11 DEF Savings
  <2>2. q # p
    BY <1>2, <1>3, <2>1 DEF CliBody, OneSaver, Savings
  <2>3. temp'[q] = temp[q]
    BY <2>2 DEF CliInv, CliShape
  <2> QED BY <1>2, <2>1, <2>3 DEF CliBody, TempsOwn
<1>14. \A q \in Process, t \in Slot : Holding(q, t)' => Got(q, t) # Got(p, s)
  BY <1>2, <1>3, <1>7 DEF CliBody, GotsDiffer
<1>15. GotsDiffer'
  BY <1>2, <1>7 DEF CliBody, GotsDiffer
<1>16. GotsPrivate'
  <2> SUFFICES ASSUME NEW q \in Process, NEW t \in Slot, Holding(q, t)'
               PROVE  /\ Got(q, t)' # 0 /\ Got(q, t)' # file'
                      /\ \A r \in Process \ {q} : Got(q, t)' \notin KnownTo(r)'
    BY DEF GotsPrivate
  <2>1. Holding(q, t) /\ Got(q, t)' = Got(q, t) /\ Got(q, t) # Got(p, s)
    BY <1>7, <1>14
  <2>2. Got(q, t) # 0 /\ \A r \in Process \ {q} : Got(q, t) \notin KnownTo(r)
    BY <1>2, <2>1 DEF CliBody, GotsPrivate
  <2> QED BY <1>5, <1>9, <2>1, <2>2
<1>17. FreshAlive'
  <2> SUFFICES ASSUME NEW q \in Process, NEW t \in Slot, CallAt(q, t)' \in Fresh
               PROVE  Got(q, t)' \in alive' /\ Got(q, t)' \notin KnownTo(q)'
    BY DEF FreshAlive
  <2>1. CallAt(q, t) \in Fresh /\ Holding(q, t) /\ Got(q, t)' = Got(q, t) /\ Holding(q, t)'
    BY <1>11 DEF Holding
  <2>2. Got(q, t) \in alive /\ Got(q, t) \notin KnownTo(q) /\ Got(q, t) # 0 /\ Got(q, t) # Got(p, s)
    BY <1>2, <1>14, <2>1 DEF CliBody, FreshAlive, GotsPrivate
  <2> QED BY <1>9, <2>1, <2>2
<1>18. \A q \in Process, u \in Slot : CallAt(q, u) = "answered" =>
         CallAt(q, u)' = "answered" /\ cli'[q].call[u].sent = cli[q].call[u].sent
  <2> SUFFICES ASSUME NEW q \in Process, NEW u \in Slot, CallAt(q, u) = "answered"
               PROVE  CallAt(q, u)' = "answered" /\ cli'[q].call[u].sent = cli[q].call[u].sent
    OBVIOUS
  <2>1. Holding(q, u) /\ ~(q = p /\ u = s)
    BY DEF Holding, Fresh
  <2> QED BY <1>8, <2>1
<1>19. SaversAlive'
  <2> SUFFICES ASSUME NEW q \in Process, NEW t \in Slot, CallAt(q, t)' \in Savings
               PROVE  Got(q, t)' \in alive' \/ \E u \in Slot : CallAt(q, u)' = "answered" /\ cli'[q].call[u].sent = Got(q, t)'
    BY DEF SaversAlive
  <2>1. CallAt(q, t) \in Savings /\ Got(q, t)' = Got(q, t)
    BY <1>11
  <2>2. Got(q, t) \in alive \/ \E u \in Slot : CallAt(q, u) = "answered" /\ cli[q].call[u].sent = Got(q, t)
    BY <1>2, <2>1 DEF CliBody, SaversAlive
  <2> QED BY <1>18, <2>1, <2>2
<1>20. FileAlive'
  <2>1. Got(p, s) \in alive \/ \E u \in Slot : CallAt(p, u) = "answered"
    BY <1>2, <1>3 DEF CliBody, SaversAlive
  <2> QED BY <1>5, <1>18, <2>1 DEF FileAlive, Pending
<1> QED BY <1>10, <1>12, <1>13, <1>15, <1>16, <1>17, <1>19, <1>20 DEF CliBody

LEMMA RenameTempKeeps ==
  ASSUME CliInv, NEW p \in Process, NEW s \in Slot, RenameTemp(p, s) PROVE CliInv'
<1>0. /\ cli[p].at \in {"ready", "saving"} /\ CallAt(p, s) = "rename" /\ cli[p] \in Processes /\ Shaped(cli[p])
      /\ Got(p, s) \in Nat /\ cli[p].memory \in Nat
  BY CliNumbers DEF RenameTemp, Saving, CallAt, Got
<1>1. /\ file' = IF temp[p] = 0 THEN file ELSE temp[p]
      /\ temp' = [temp EXCEPT ![p] = 0]
      /\ UNCHANGED <<alive, made, kills, overlapped>>
  BY DEF RenameTemp
<1>2. CASE cli[p].kind = "login" /\ Ends(p)
  <2>1. cli[p].at = "saving" /\ s = FirstSlot /\ \A t \in Slot : t # s => cli[p].call[t].at = "idle"
    BY <1>0, <1>2 DEF Shaped, CallAt
  <2>2. PICK n : n = [NotStarted EXCEPT !.kind = cli[p].kind, !.at = "over"]
    OBVIOUS
  <2>3. n \in Processes /\ n.at = "over" /\ n.closure = 0 /\ n.memory = 0 /\ n.call = NotStarted.call
    BY <1>0, <2>2, UnsentCall DEF Processes
  <2>4. \A t \in Slot : n.call[t] = Unsent
    BY <2>3, UnsentCall
  <2>5. Shaped(n)
    BY <2>3, <2>4, UnsentCall, <1>2, <2>2 DEF Shaped
  <2>6. cli' = [cli EXCEPT ![p] = n]
    BY <1>2, <2>2 DEF Ends, Goes
  <2> QED BY <1>0, <1>1, <2>1, <2>3, <2>4, <2>5, <2>6, UnsentCall, SavedKeeps
<1>3. CASE /\ cli[p].kind # "login"
           /\ Goes(p, [WithCall(p, s, Unsent) EXCEPT !.memory = IF temp[p] = 0 THEN @ ELSE cli[p].call[s].got])
  <2>1. PICK w \in Processes :
          /\ w = WithCall(p, s, Unsent)
          /\ w.kind = cli[p].kind /\ w.at = cli[p].at /\ w.closure = cli[p].closure /\ w.memory = cli[p].memory
          /\ w.call[s] = Unsent /\ \A t \in Slot \ {s} : w.call[t] = cli[p].call[t]
    BY UnsentCall, WithCallIs
  <2>2. PICK m \in Nat : m = IF temp[p] = 0 THEN cli[p].memory ELSE Got(p, s)
    BY <1>0
  <2>3. PICK n : n = [w EXCEPT !.memory = m]
    OBVIOUS
  <2>4. /\ n \in Processes /\ n.kind = w.kind /\ n.at = w.at /\ n.closure = w.closure /\ n.memory = m /\ n.call = w.call
    BY <2>1, <2>2, <2>3 DEF Processes
  <2>5. cli' = [cli EXCEPT ![p] = n]
    <3>1. n = [w EXCEPT !.memory = IF temp[p] = 0 THEN @ ELSE cli[p].call[s].got]
      BY <2>1, <2>2, <2>3 DEF Got, Processes
    <3> QED BY <1>3, <2>1, <3>1 DEF Goes
  <2>6. n.call[s] = Unsent /\ \A t \in Slot : t # s => n.call[t] = cli[p].call[t]
    BY <2>1, <2>4
  <2>7. cli[p].at = "ready"
    BY <1>0, <1>3 DEF Shaped
  <2>8. Shaped(n)
    BY <1>0, <2>1, <2>4, <2>6, <2>7, UnsentCall DEF Shaped
  <2>9. n.closure \in {0, cli[p].closure} /\ n.memory \in {0, cli[p].memory, Got(p, s)} /\ n.at = "ready"
    BY <2>1, <2>2, <2>4, <2>7
  <2>10. n.call[s].at = "idle" /\ n.call[s].got = 0 /\ n.call[s].sent = 0
    BY <2>6, UnsentCall
  <2> QED BY <1>0, <1>1, <2>4, <2>5, <2>6, <2>7, <2>8, <2>9, <2>10, SavedKeeps
<1> QED BY <1>2, <1>3 DEF RenameTemp

LEMMA RevokeKeeps ==
  ASSUME CliInv, NEW p \in Process, Revoke(p) PROVE CliInv'
<1>0. cli[p].at = "revoke" /\ cli[p].kind = "logout" /\ cli[p] \in Processes /\ Shaped(cli[p])
  BY CliNumbers DEF Revoke, CliAt
<1>1. PICK n : n = [cli[p] EXCEPT !.at = "clear"]
  OBVIOUS
<1>2. /\ n \in Processes /\ n.at = "clear" /\ n.kind = "logout" /\ n.call = cli[p].call /\ n.closure = cli[p].closure
      /\ n.memory = cli[p].memory
  BY <1>0, <1>1 DEF Processes
<1>3. cli' = [cli EXCEPT ![p] = n] /\ UNCHANGED <<file, temp, made, kills, overlapped>>
      /\ alive' \in {alive, alive \ {cli[p].closure}}
  BY <1>1 DEF Revoke, Goes
<1>4. Shaped(n) /\ \A t \in Slot : cli[p].call[t].at = "idle"
  BY <1>0, <1>2 DEF Shaped
<1>5. CliShape'
  BY <1>2, <1>3, <1>4, CliShapeMoves DEF CliInv, CliShape
<1> SUFFICES ASSUME ~overlapped, kills = 0 PROVE CliBody'
  BY <1>3, <1>5 DEF CliInv
<1>6. CliBody
  BY DEF CliInv
<1>7. cli'[p] = n /\ \A q \in Process \ {p} : cli'[q] = cli[q]
  BY <1>3, CliMoved
<1>8. \A q \in Process, t \in Slot : cli'[q].call[t] = cli[q].call[t]
  BY <1>2, <1>7
<1>9. \A q \in Process, t \in Slot :
        CallAt(q, t)' = CallAt(q, t) /\ Got(q, t)' = Got(q, t) /\ (Holding(q, t)' <=> Holding(q, t))
  BY <1>8 DEF CallAt, Got, Holding
<1>10. \A q \in Process : KnownTo(q)' = KnownTo(q)
  <2>1. \A q \in Process : cli'[q].closure = cli[q].closure /\ cli'[q].memory = cli[q].memory
    BY <1>2, <1>7
  <2> QED BY <1>8, <2>1 DEF KnownTo
<1>11. Numbered' /\ OneSaver' /\ TempsOwn' /\ GotsDiffer' /\ GotsPrivate'
  <2>1. Numbered'
    BY <1>3, <1>6, <1>9, <1>10 DEF CliBody, Numbered
  <2>2. OneSaver' /\ TempsOwn'
    BY <1>3, <1>6, <1>9 DEF CliBody, OneSaver, TempsOwn
  <2>3. GotsDiffer'
    BY <1>6, <1>9 DEF CliBody, GotsDiffer
  <2>4. GotsPrivate'
    BY <1>3, <1>6, <1>9, <1>10 DEF CliBody, GotsPrivate
  <2> QED BY <2>1, <2>2, <2>3, <2>4
<1>12. \A q \in Process, t \in Slot : Holding(q, t) /\ Got(q, t) \in alive => Got(q, t) \in alive'
  <2> SUFFICES ASSUME NEW q \in Process, NEW t \in Slot, Holding(q, t), Got(q, t) \in alive PROVE Got(q, t) \in alive'
    OBVIOUS
  <2>1. q # p
    BY <1>4 DEF Holding, CallAt, Fresh, Savings
  <2>2. Got(q, t) \notin KnownTo(p) /\ cli[p].closure \in KnownTo(p)
    BY <1>6, <2>1 DEF CliBody, GotsPrivate, KnownTo
  <2> QED BY <1>3, <2>2
<1>13. FreshAlive'
  BY <1>6, <1>9, <1>10, <1>12 DEF CliBody, FreshAlive, Holding
<1>14. SaversAlive'
  <2> SUFFICES ASSUME NEW q \in Process, NEW t \in Slot, CallAt(q, t) \in Savings
               PROVE  Got(q, t) \in alive' \/ \E u \in Slot : CallAt(q, u) = "answered" /\ cli[q].call[u].sent = Got(q, t)
    BY <1>8, <1>9 DEF SaversAlive
  <2>1. Holding(q, t)
    BY DEF Holding
  <2> QED BY <1>6, <1>12, <2>1 DEF CliBody, SaversAlive
<1>15. FileAlive'
  BY <1>2, <1>7 DEF FileAlive, Pending
<1> QED BY <1>11, <1>13, <1>14, <1>15 DEF CliBody

LEMMA ClearKeeps ==
  ASSUME CliInv, NEW p \in Process, Clear(p) PROVE CliInv'
<1>0. cli[p].at = "clear" /\ cli[p].kind = "logout" /\ cli[p] \in Processes /\ Shaped(cli[p])
  BY CliNumbers DEF Clear, CliAt
<1>1. PICK n : n = [NotStarted EXCEPT !.kind = cli[p].kind, !.at = "over"]
  OBVIOUS
<1>2. n \in Processes /\ n.at = "over" /\ n.kind = "logout" /\ n.closure = 0 /\ n.memory = 0 /\ n.call = NotStarted.call
  BY <1>0, <1>1, UnsentCall DEF Processes
<1>3. \A t \in Slot : n.call[t] = Unsent
  BY <1>2, UnsentCall
<1>4. Shaped(n) /\ \A t \in Slot : cli[p].call[t].at = "idle"
  BY <1>0, <1>2, <1>3, UnsentCall DEF Shaped
<1>5. cli' = [cli EXCEPT ![p] = n] /\ UNCHANGED <<temp, alive, made, kills, overlapped>> /\ file' = 0
  BY <1>1 DEF Clear, Ends, Goes
<1>6. CliShape'
  BY <1>2, <1>4, <1>5, CliShapeMoves DEF CliInv, CliShape
<1> SUFFICES ASSUME ~overlapped, kills = 0 PROVE CliBody'
  BY <1>5, <1>6 DEF CliInv
<1>7. CliBody /\ made \in Nat
  BY DEF CliInv, CliShape
<1>8. cli'[p] = n /\ \A q \in Process \ {p} : cli'[q] = cli[q]
  BY <1>5, CliMoved
<1>9. \A q \in Process, t \in Slot : Holding(q, t) \/ Holding(q, t)' => q # p
  BY <1>3, <1>4, <1>8, UnsentCall DEF Holding, CallAt, Fresh, Savings
<1>10. \A q \in Process, t \in Slot : q # p =>
         /\ CallAt(q, t)' = CallAt(q, t) /\ Got(q, t)' = Got(q, t) /\ (Holding(q, t)' <=> Holding(q, t))
         /\ cli'[q].call[t] = cli[q].call[t]
  BY <1>8 DEF CallAt, Got, Holding
<1>11. \A q \in Process, t \in Slot : CallAt(q, t)' \in Fresh \cup Savings => Holding(q, t) /\ q # p
  BY <1>9, <1>10 DEF Holding
<1>12. \A q \in Process : KnownTo(q)' \subseteq KnownTo(q) \cup {0}
  <2>1. \A q \in Process \ {p} : KnownTo(q)' = KnownTo(q)
    BY <1>8 DEF KnownTo
  <2>2. KnownTo(p)' \subseteq {0}
    BY <1>2, <1>3, <1>8, UnsentCall DEF KnownTo
  <2> QED BY <2>1, <2>2
<1>13. Numbered'
  <2>1. 0 <= made
    BY <1>7
  <2>2. \A q \in Process, t \in Slot : Got(q, t)' \in {0, Got(q, t)}
    BY <1>3, <1>8, UnsentCall DEF Got
  <2>3. \A q \in Process, t \in Slot : Got(q, t)' <= made
    BY <1>7, <2>1, <2>2 DEF CliBody, Numbered
  <2>4. \A q \in Process : \A v \in KnownTo(q)' : v <= made
    BY <1>7, <1>12, <2>1 DEF CliBody, Numbered
  <2> QED BY <1>5, <2>1, <2>3, <2>4 DEF Numbered
<1>14. OneSaver' /\ TempsOwn'
  <2>1. OneSaver'
    BY <1>7, <1>10, <1>11 DEF CliBody, OneSaver
  <2>2. TempsOwn'
    BY <1>5, <1>7, <1>10, <1>11 DEF CliBody, TempsOwn, Savings
  <2> QED BY <2>1, <2>2
<1>15. GotsDiffer'
  BY <1>7, <1>9, <1>10 DEF CliBody, GotsDiffer
<1>16. GotsPrivate'
  BY <1>5, <1>7, <1>9, <1>10, <1>12 DEF CliBody, GotsPrivate
<1>17. FreshAlive'
  <2> SUFFICES ASSUME NEW q \in Process, NEW t \in Slot, CallAt(q, t)' \in Fresh
               PROVE  Got(q, t)' \in alive' /\ Got(q, t)' \notin KnownTo(q)'
    BY DEF FreshAlive
  <2>1. Holding(q, t) /\ q # p /\ CallAt(q, t) \in Fresh /\ Got(q, t)' = Got(q, t)
    BY <1>10, <1>11
  <2>2. Got(q, t) # 0
    BY <1>7, <2>1 DEF CliBody, GotsPrivate
  <2> QED BY <1>5, <1>7, <1>12, <2>1, <2>2 DEF CliBody, FreshAlive
<1>18. SaversAlive'
  <2> SUFFICES ASSUME NEW q \in Process, NEW t \in Slot, CallAt(q, t)' \in Savings
               PROVE  Got(q, t)' \in alive' \/ \E u \in Slot : CallAt(q, u)' = "answered" /\ cli'[q].call[u].sent = Got(q, t)'
    BY DEF SaversAlive
  <2>1. q # p /\ CallAt(q, t) \in Savings /\ Got(q, t)' = Got(q, t)
    BY <1>10, <1>11
  <2>2. Got(q, t) \in alive \/ \E u \in Slot : CallAt(q, u) = "answered" /\ cli[q].call[u].sent = Got(q, t)
    BY <1>7, <2>1 DEF CliBody, SaversAlive
  <2> QED BY <1>5, <1>10, <2>1, <2>2
<1>19. FileAlive'
  BY <1>5 DEF FileAlive
<1> QED BY <1>13, <1>14, <1>15, <1>16, <1>17, <1>18, <1>19 DEF CliBody

LEMMA KillKeeps ==
  ASSUME CliInv, NEW p \in Process, Kill(p) PROVE CliInv'
<1>0. cli[p] \in Processes /\ kills \in Nat
  BY CliNumbers DEF CliInv, CliShape
<1>1. PICK n : n = [NotStarted EXCEPT !.kind = cli[p].kind, !.at = "over"]
  OBVIOUS
<1>2. n \in Processes /\ n.at = "over" /\ n.call = NotStarted.call
  BY <1>0, <1>1, UnsentCall DEF Processes
<1>3. \A t \in Slot : n.call[t].at = "idle"
  BY <1>2, UnsentCall
<1>4. Shaped(n)
  BY <1>2, <1>3 DEF Shaped
<1>5. cli' = [cli EXCEPT ![p] = n] /\ UNCHANGED <<file, alive, made>> /\ temp' = [temp EXCEPT ![p] = 0] /\ kills' = kills + 1
  BY <1>1 DEF Kill, Ends, Goes
<1>6. temp' \in [Process -> Nat]
  BY <1>5 DEF CliInv, CliShape
<1>7. kills' \in Nat /\ kills' # 0
  BY <1>0, <1>5
<1>8. CliShape'
  BY <1>2, <1>4, <1>5, <1>6, <1>7, CliShapeMoves DEF CliInv, CliShape
<1> QED BY <1>7, <1>8 DEF CliInv

LEMMA KeepsCliInv ==
  ASSUME CliInv, [CliNext]_cliVars PROVE CliInv'
<1>1. ASSUME NEW p \in Process, CliStep(p) PROVE CliInv'
  <2>1. CASE StartLogin(p) \/ StartLogout(p) \/ \E k \in {"command", "mcp"} : StartClient(p, k)
    <3>1. cli[p].at = "new"
      BY <2>1 DEF StartLogin, StartLogout, StartClient
    <3> QED BY <2>1, <3>1, StartingKeeps
  <2>2. CASE \/ Authorize(p) \/ BrowserOpened(p) \/ CallbackTimeout(p)
             \/ \E c \in redirects : Callback(p, c)
    BY <2>2, LoginKeeps
  <2>3. CASE Load(p) \/ Finish(p)
    BY <2>3, LoadKeeps
  <2>4. ASSUME NEW s \in Slot, SendCall(p, s) \/ CallAnswered(p, s) \/ Denied(p, s) PROVE CliInv'
    BY <2>4, CallingKeeps
  <2>5. ASSUME NEW s \in Slot, OpenTemp(p, s) \/ WriteTemp(p, s) PROVE CliInv'
    BY <2>5, WritingKeeps
  <2>6. ASSUME NEW s \in Slot, Replace(p, s) \/ DeleteReplaced(p, s) \/ AdoptCookie(p, s) \/ RenameTemp(p, s) PROVE CliInv'
    BY <2>6, ReplaceKeeps, DeleteReplacedKeeps, AdoptCookieKeeps, RenameTempKeeps
  <2>7. CASE ExchangeCode(p) \/ Revoke(p) \/ Clear(p) \/ Kill(p)
    BY <2>7, ExchangeCodeKeeps, RevokeKeeps, ClearKeeps, KillKeeps
  <2> QED BY <1>1, <2>1, <2>2, <2>3, <2>4, <2>5, <2>6, <2>7 DEF CliStep
<1>2. CASE UNCHANGED cliVars
  <2>1. UNCHANGED <<file, temp, alive, made, cli, kills, overlapped>>
    BY <1>2 DEF cliVars
  <2> QED BY <2>1 DEF CliInv, CliShape, CliBody, Numbered, OneSaver, TempsOwn, GotsDiffer, GotsPrivate, FreshAlive,
                      SaversAlive, FileAlive, Pending, Holding, KnownTo, CallAt, Got
<1> QED BY <1>1, <1>2 DEF CliNext

\* The session that rests in the file works: processes that log in, run commands, replace
\* their session and log out at once never leave one in it that was replaced or revoked,
\* unless a process was killed or ran two saves at once.
THEOREM SavedSessionsWork == Spec => []SavedSessionWorks
<1>1. Init => CliInv
  <2> SUFFICES ASSUME CliInit PROVE CliInv
    BY DEF Init
  <2>1. \A p \in Process : cli[p] = NotStarted
    BY DEF CliInit
  <2>2. cli \in [Process -> Processes] /\ temp \in [Process -> Nat]
    BY UnsentCall DEF CliInit
  <2>3. \A p \in Process, s \in Slot : cli[p].call[s] = Unsent /\ CallAt(p, s) = "idle" /\ Got(p, s) = 0
    BY <2>1, UnsentCall DEF CallAt, Got
  <2>4. NotStarted.at = "new" /\ NotStarted.kind = "none"
    BY DEF NotStarted
  <2>5. \A p \in Process : Shaped(cli[p])
    BY <2>1, <2>4, UnsentCall DEF Shaped
  <2>6. CliShape
    BY <2>2, <2>5, CliSessionAssumption DEF CliInit, CliShape
  <2>7. \A p \in Process : KnownTo(p) \subseteq {0}
    BY <2>1, <2>3, UnsentCall DEF KnownTo
  <2>8. Numbered
    BY <2>3, <2>7 DEF CliInit, Numbered
  <2>9. OneSaver /\ TempsOwn /\ GotsDiffer /\ GotsPrivate /\ FreshAlive /\ SaversAlive
    BY <2>3 DEF OneSaver, TempsOwn, GotsDiffer, GotsPrivate, FreshAlive, SaversAlive, Holding, Fresh, Savings
  <2>10. FileAlive
    BY DEF CliInit, FileAlive
  <2> QED BY <2>6, <2>8, <2>9, <2>10 DEF CliInv, CliBody
<1>2. CliInv /\ [Next]_vars => CliInv'
  BY AccessStep, KeepsCliInv
<1>3. CliInv => SavedSessionWorks
  <2> SUFFICES ASSUME CliInv, AtRest, ~overlapped, kills = 0 PROVE file \in alive \cup {0}
    BY DEF SavedSessionWorks
  <2>1. ASSUME NEW p \in Process PROVE ~Pending(p)
    <3>1. \A s \in Slot : CallAt(p, s) = "idle"
      BY CliNumbers, UnsentCall DEF AtRest, Shaped, CallAt
    <3>2. cli[p].at # "clear"
      BY DEF AtRest
    <3> QED BY <3>1, <3>2 DEF Pending, Savings
  <2> QED BY <2>1 DEF CliInv, CliBody, FileAlive
<1> QED BY <1>1, <1>2, <1>3, PTL DEF Spec

-----------------------------------------------------------------------------
(* The browser cache. *)

(* One slot for every byte of a set of items: their number is the weight of the set. *)
Slots(S) == {p \in Item \X Nat : p[1] \in S /\ p[2] \in 1..Size[p[1]]}

LEMMA SlotsOfItem ==
  ASSUME NEW S \in SUBSET Item, NEW n \in S, NEW rest, rest = S \ {n}, IsFiniteSet(Slots(rest))
  PROVE  IsFiniteSet(Slots(S)) /\ Cardinality(Slots(S)) = Size[n] + Cardinality(Slots(rest))
<1> DEFINE B == {p \in Item \X Nat : p[1] = n /\ p[2] \in 1..Size[n]}
           size == Size[n]
           f == [k \in 1..size |-> <<n, k>>]
<1>0. size \in Nat /\ n \in Item
  BY BrowserCacheAssumption DEF BrowserCacheAssumption
<1> HIDE DEF size
<1>1. f \in Bijection(1..size, B)
  <2>0. B = {p \in Item \X Nat : p[1] = n /\ p[2] \in 1..size}
    BY DEF size
  <2>1. \A k \in 1..size : <<n, k>> \in B
    BY <1>0, <2>0
  <2>2. \A p \in B : p = <<n, p[2]>> /\ p[2] \in 1..size
    BY <1>0, <2>0
  <2> HIDE DEF B
  <2>3. f \in Injection(1..size, B)
    BY <2>1 DEF Injection, IsInjective
  <2>4. f \in Surjection(1..size, B)
    BY <2>1, <2>2 DEF Surjection
  <2> QED BY <2>3, <2>4 DEF Bijection
<1>2. IsFiniteSet(1..size) /\ Cardinality(1..size) = size
  <2>1. CASE size = 0
    <3>1. 1..size = {}
      BY <2>1
    <3> QED BY <2>1, <3>1, FS_EmptySet
  <2>2. CASE size # 0
    <3>1. 1 <= size
      BY <1>0, <2>2
    <3>2. IsFiniteSet(1..size) /\ Cardinality(1..size) = size - 1 + 1
      BY <1>0, <3>1, FS_Interval
    <3> QED BY <1>0, <3>2
  <2> QED BY <2>1, <2>2
<1>3. ExistsBijection(1..size, B)
  BY <1>1 DEF ExistsBijection
<1>4. IsFiniteSet(B) /\ Cardinality(B) = size
  BY <1>2, <1>3, FS_Bijection
<1>5. Slots(S) = Slots(rest) \cup B /\ Slots(rest) \cap B = {}
  BY <1>0 DEF Slots
<1> HIDE DEF B, f
<1>6. Cardinality(Slots(rest) \cap B) = 0 /\ Cardinality(Slots(rest)) \in Nat
  BY <1>5, FS_EmptySet, FS_CardinalityType
<1>7. IsFiniteSet(Slots(rest) \cup B)
      /\ Cardinality(Slots(rest) \cup B)
           = Cardinality(Slots(rest)) + Cardinality(B) - Cardinality(Slots(rest) \cap B)
  BY <1>4, FS_Union
<1>8. Cardinality(Slots(rest) \cup B) = size + Cardinality(Slots(rest))
  BY <1>0, <1>4, <1>6, <1>7
<1> QED BY <1>5, <1>7, <1>8 DEF size

LEMMA FiniteSlots ==
  ASSUME NEW S \in SUBSET Item
  PROVE  IsFiniteSet(Slots(S)) /\ Cardinality(Slots(S)) \in Nat
<1> DEFINE R == StrictSubsetOrdering(Item)
           D == {T \in SUBSET Item : ~IsFiniteSet(Slots(T))}
<1>1. IsWellFoundedOn(R, SUBSET Item)
  BY BrowserCacheAssumption, FS_StrictSubsetOrderingWellFounded, FS_FiniteSubsetsOfFinite
     DEF BrowserCacheAssumption
<1>2. ASSUME D # {} PROVE FALSE
  <2>1. PICK T \in D : \A U \in D : <<U, T>> \notin R
    BY <1>1, <1>2, WFMin
  <2>2. T # {}
    <3>1. Slots({}) = {}
      BY DEF Slots
    <3> QED BY <2>1, <3>1, FS_EmptySet
  <2>3. PICK n \in T : TRUE
    BY <2>2
  <2>4. PICK rest : rest = T \ {n}
    OBVIOUS
  <2>5. rest \in SUBSET Item /\ <<rest, T>> \in R
    BY <2>1, <2>3, <2>4 DEF StrictSubsetOrdering
  <2>6. IsFiniteSet(Slots(rest))
    BY <2>1, <2>5
  <2> QED BY <2>1, <2>3, <2>4, <2>6, SlotsOfItem
<1> QED BY <1>2, FS_CardinalityType

(* The recursive sum of Weight is that number. *)
LEMMA WeightCounts ==
  ASSUME NEW items \in SUBSET Item
  PROVE  Weight(items) = Cardinality(Slots(items))
<1> DEFINE Solves(t) == t = [S \in SUBSET Item |->
             IF S = {} THEN 0
             ELSE LET n == CHOOSE m \in S : TRUE IN Size[n] + t[S \ {n}]]
           count == [S \in SUBSET Item |-> Cardinality(Slots(S))]
           total == CHOOSE t : Solves(t)
<1>1. Weight(items) = total[items]
  BY DEF Weight
<1>2. \A S \in SUBSET Item : S # {} =>
        LET n == CHOOSE m \in S : TRUE
        IN n \in S /\ count[S] = Size[n] + count[S \ {n}]
  <2> SUFFICES ASSUME NEW S \in SUBSET Item, S # {}
               PROVE  LET n == CHOOSE m \in S : TRUE
                      IN n \in S /\ count[S] = Size[n] + count[S \ {n}]
    OBVIOUS
  <2> DEFINE n == CHOOSE m \in S : TRUE
  <2>1. n \in S
    OBVIOUS
  <2> HIDE DEF n
  <2>2. PICK rest : rest = S \ {n}
    OBVIOUS
  <2>3. rest \in SUBSET Item /\ IsFiniteSet(Slots(rest))
    BY <2>2, FiniteSlots
  <2>4. Cardinality(Slots(S)) = Size[n] + Cardinality(Slots(rest))
    BY <2>1, <2>2, <2>3, SlotsOfItem
  <2>5. count[S] = Cardinality(Slots(S)) /\ count[rest] = Cardinality(Slots(rest))
    BY <2>3
  <2> QED BY <2>1, <2>2, <2>4, <2>5 DEF n
<1>3. count[{}] = 0
  <2>1. Slots({}) = {}
    BY DEF Slots
  <2> QED BY <2>1, FS_EmptySet
<1>4. Solves(count)
  <2>1. \A S \in SUBSET Item : count[S] =
          IF S = {} THEN 0
          ELSE LET n == CHOOSE m \in S : TRUE IN Size[n] + count[S \ {n}]
    BY <1>2, <1>3
  <2>2. DOMAIN count = SUBSET Item /\ count = [S \in DOMAIN count |-> count[S]]
    OBVIOUS
  <2> HIDE DEF count
  <2> QED BY <2>1, <2>2
<1>5. Solves(total)
  <2> HIDE DEF Solves, count
  <2> QED BY <1>4
<1>6. \A S \in SUBSET Item : total[S] =
        IF S = {} THEN 0
        ELSE LET n == CHOOSE m \in S : TRUE IN Size[n] + total[S \ {n}]
  <2> HIDE DEF total
  <2> QED BY <1>5
<1> HIDE DEF total, count
(* A smallest set on which the two differ does not exist. *)
<1>7. \A S \in SUBSET Item : total[S] = count[S]
  <2> DEFINE R == StrictSubsetOrdering(Item)
             D == {S \in SUBSET Item : total[S] # count[S]}
  <2>2. IsWellFoundedOn(R, SUBSET Item)
    BY BrowserCacheAssumption, FS_StrictSubsetOrderingWellFounded, FS_FiniteSubsetsOfFinite
       DEF BrowserCacheAssumption
  <2>3. ASSUME D # {} PROVE FALSE
    <3>1. PICK S \in D : \A T \in D : <<T, S>> \notin R
      BY <2>2, <2>3, WFMin
    <3> DEFINE n == CHOOSE m \in S : TRUE
    <3>2. S # {}
      BY <1>3, <1>6, <3>1
    <3>3. n \in S /\ count[S] = Size[n] + count[S \ {n}]
          /\ total[S] = Size[n] + total[S \ {n}]
      BY <1>2, <1>6, <3>1, <3>2
    <3> HIDE DEF n
    <3>4. S \ {n} \in D
      BY <3>1, <3>3
    <3>5. <<S \ {n}, S>> \in R
      BY <3>1, <3>3 DEF StrictSubsetOrdering
    <3> QED BY <3>1, <3>4, <3>5
  <2> QED BY <2>3
<1> QED BY <1>1, <1>7 DEF count

LEMMA WeightGrows ==
  ASSUME NEW S \in SUBSET Item, NEW T \in SUBSET S
  PROVE  Weight(T) \in Nat /\ Weight(S) \in Nat /\ Weight(T) <= Weight(S)
<1>1. Slots(T) \subseteq Slots(S) /\ T \in SUBSET Item
  BY DEF Slots
<1>2. Cardinality(Slots(T)) <= Cardinality(Slots(S))
  BY <1>1, FiniteSlots, FS_Subset
<1> QED BY <1>1, <1>2, FiniteSlots, WeightCounts

(* CacheEntries and the operations on their sequences. *)

CacheEntries == [item : Item, born : Nat]

Within(s, t) == \A i \in DOMAIN s : \E j \in DOMAIN t : s[i] = t[j]

LEMMA BytesOfNothing == Bytes(<<>>) = 0
<1>1. Items(<<>>) = {} /\ Slots({}) = {}
  BY DEF Items, Slots
<1> QED BY <1>1, WeightCounts, FS_EmptySet DEF Bytes

LEMMA BytesNumber ==
  ASSUME NEW s \in Seq(CacheEntries)
  PROVE  Items(s) \in SUBSET Item /\ Bytes(s) \in Nat
<1>1. Items(s) \in SUBSET Item
  <2>1. \A i \in DOMAIN s : s[i] \in CacheEntries
    OBVIOUS
  <2>2. \A i \in DOMAIN s : s[i].item \in Item
    BY <2>1 DEF CacheEntries
  <2> QED BY <2>2 DEF Items
<1> QED BY <1>1, WeightGrows DEF Bytes

LEMMA BytesWithin ==
  ASSUME NEW s \in Seq(CacheEntries), NEW t \in Seq(CacheEntries), Within(t, s)
  PROVE  Bytes(t) <= Bytes(s)
<1>1. Items(t) \in SUBSET Items(s)
  BY DEF Items, Within
<1> QED BY <1>1, BytesNumber, WeightGrows DEF Bytes

LEMMA EntryOfHeld ==
  ASSUME NEW s \in Seq(CacheEntries), NEW n, Holds(s, n)
  PROVE  /\ IndexOf(s, n) \in DOMAIN s /\ EntryOf(s, n) = s[IndexOf(s, n)]
         /\ EntryOf(s, n) \in CacheEntries /\ EntryOf(s, n).item = n
<1>1. IndexOf(s, n) \in DOMAIN s /\ s[IndexOf(s, n)].item = n
  BY DEF Holds, IndexOf
<1> QED BY <1>1 DEF EntryOf

LEMMA DropIs ==
  ASSUME NEW s \in Seq(CacheEntries), NEW n
  PROVE  Drop(s, n) \in Seq(CacheEntries) /\ Within(Drop(s, n), s)
<1>1. CASE Holds(s, n)
  <2>1. PICK k \in 1..Len(s) : k = IndexOf(s, n)
    BY <1>1, EntryOfHeld
  <2> DEFINE a == SubSeq(s, 1, k - 1)
             b == SubSeq(s, k + 1, Len(s))
  <2>2. Drop(s, n) = a \o b
    BY <1>1, <2>1 DEF Drop, RemoveAt
  <2>3. a \in Seq(CacheEntries) /\ Len(a) = k - 1 /\ \A i \in 1..Len(a) : a[i] = s[i]
    OBVIOUS
  <2>4. b \in Seq(CacheEntries) /\ Len(b) = Len(s) - k /\ \A i \in 1..Len(b) : b[i] = s[i + k]
    OBVIOUS
  <2> HIDE DEF a, b
  <2>5. a \o b \in Seq(CacheEntries) /\ Len(a \o b) = Len(a) + Len(b)
        /\ \A i \in 1..Len(a \o b) : (a \o b)[i] = IF i <= Len(a) THEN a[i] ELSE b[i - Len(a)]
    <3>1. a \in Seq(CacheEntries) /\ b \in Seq(CacheEntries)
      BY <2>3, <2>4
    <3> QED BY <3>1, ConcatProperties
  <2>6. ASSUME NEW i \in 1..Len(a \o b) PROVE \E j \in 1..Len(s) : (a \o b)[i] = s[j]
    <3>1. CASE i <= Len(a)
      BY <2>3, <2>5, <3>1
    <3>2. CASE ~(i <= Len(a))
      <4>1. i - Len(a) \in 1..Len(b) /\ (a \o b)[i] = b[i - Len(a)]
        BY <2>3, <2>4, <2>5, <3>2
      <4>2. (a \o b)[i] = s[(i - Len(a)) + k] /\ (i - Len(a)) + k \in 1..Len(s)
        BY <2>3, <2>4, <4>1
      <4> QED BY <4>2
    <3> QED BY <3>1, <3>2
  <2>7. DOMAIN (a \o b) = 1..Len(a \o b) /\ DOMAIN s = 1..Len(s)
    BY <2>5
  <2> QED BY <2>2, <2>5, <2>6, <2>7 DEF Within
<1>2. CASE ~Holds(s, n)
  BY <1>2 DEF Drop, Within
<1> QED BY <1>1, <1>2

(* A nonempty finite set of numbers has a least one. *)
LEMMA LeastOf ==
  ASSUME NEW L \in SUBSET Nat, IsFiniteSet(L), L # {}
  PROVE  Min(L) \in L
<1> DEFINE Before(t) == {u \in L : u < t}
           R == StrictSubsetOrdering(L)
           D == {Before(t) : t \in L}
<1>1. PICK m \in L : \A t \in L : <<Before(t), Before(m)>> \notin R
  <2>1. IsWellFoundedOn(R, SUBSET L)
    BY FS_StrictSubsetOrderingWellFounded, FS_FiniteSubsetsOfFinite
  <2>2. D \subseteq SUBSET L /\ D # {}
    OBVIOUS
  <2> HIDE DEF D, R
  <2>3. PICK S \in D : \A T \in D : <<T, S>> \notin R
    BY <2>1, <2>2, WFMin
  <2> QED BY <2>3 DEF D
<1>2. ASSUME NEW u \in L, u < m PROVE FALSE
  <2>1. u \in Nat /\ m \in Nat /\ \A x \in L : x \in Nat
    OBVIOUS
  <2>2. \A x \in L : x < u => x < m
    BY <1>2, <2>1
  <2>3. u \in Before(m) /\ u \notin Before(u) /\ Before(u) \subseteq Before(m)
    <3>1. ~(u < u)
      BY <2>1
    <3> QED BY <1>2, <2>2, <3>1
  <2>4. <<Before(u), Before(m)>> \in R
    BY <2>3 DEF StrictSubsetOrdering
  <2> QED BY <1>1, <2>4
<1>3. \A t \in L : m <= t
  <2>1. \A t \in L : t \in Nat /\ m \in Nat /\ ~(t < m)
    BY <1>2
  <2> QED BY <2>1
<1> QED BY <1>3 DEF Min

(* What is left after the eviction fits. *)
LEMMA FittingIs ==
  ASSUME NEW s \in Seq(CacheEntries), NEW limit \in Nat
  PROVE  Fitting(s, limit) \in Seq(CacheEntries) /\ Within(Fitting(s, limit), s) /\ Bytes(Fitting(s, limit)) <= limit
<1> DEFINE L == {k \in 0..Len(s) : Bytes(SubSeq(s, k + 1, Len(s))) <= limit}
           cut == Min(L)
<1>1. Len(s) \in L
  <2>1. SubSeq(s, Len(s) + 1, Len(s)) = <<>>
    OBVIOUS
  <2>2. 0 <= limit /\ Len(s) \in 0..Len(s)
    OBVIOUS
  <2> QED BY <2>1, <2>2, BytesOfNothing
<1>2. IsFiniteSet(L) /\ L \in SUBSET Nat
  <2>1. IsFiniteSet(0..Len(s))
    BY FS_Interval
  <2> QED BY <2>1, FS_Subset
<1>3. cut \in L
  BY <1>1, <1>2, LeastOf
<1>4. Fitting(s, limit) = SubSeq(s, cut + 1, Len(s))
  BY DEF Fitting
<1> HIDE DEF cut
<1>5. cut \in 0..Len(s) /\ Bytes(SubSeq(s, cut + 1, Len(s))) <= limit
  BY <1>3
<1>6. PICK b : b = SubSeq(s, cut + 1, Len(s))
  OBVIOUS
<1>7. b \in Seq(CacheEntries) /\ Len(b) = Len(s) - cut /\ \A i \in 1..Len(b) : b[i] = s[i + cut]
  BY <1>5, <1>6
<1>8. \A i \in 1..Len(b) : i + cut \in 1..Len(s)
  BY <1>5, <1>7
<1>9. Within(b, s)
  BY <1>7, <1>8 DEF Within
<1> QED BY <1>4, <1>5, <1>6, <1>7, <1>9

LEMMA AppendedWithin ==
  ASSUME NEW s \in Seq(CacheEntries), NEW e \in CacheEntries
  PROVE  Append(s, e) \in Seq(CacheEntries)
         /\ \A i \in DOMAIN Append(s, e) : Append(s, e)[i] = e \/ \E j \in DOMAIN s : Append(s, e)[i] = s[j]
OBVIOUS

LEMMA RememberedIs ==
  ASSUME NEW s \in Seq(CacheEntries), Bytes(s) <= maxMemoryBytes, NEW e \in CacheEntries
  PROVE  Remembered(s, e) \in Seq(CacheEntries) /\ Bytes(Remembered(s, e)) <= maxMemoryBytes
<1>0. maxMemoryBytes \in Nat
  BY BrowserCacheAssumption DEF BrowserCacheAssumption
<1>1. PICK d \in Seq(CacheEntries) : d = Drop(s, e.item) /\ Within(d, s)
  BY DropIs
<1>2. Bytes(d) <= maxMemoryBytes
  <2>1. Bytes(d) <= Bytes(s) /\ Bytes(d) \in Nat /\ Bytes(s) \in Nat
    BY <1>1, BytesWithin, BytesNumber
  <2> QED BY <1>0, <2>1
<1>3. PICK a \in Seq(CacheEntries) : a = Append(d, e)
  BY AppendedWithin
<1>4. Fitting(a, maxMemoryBytes) \in Seq(CacheEntries) /\ Bytes(Fitting(a, maxMemoryBytes)) <= maxMemoryBytes
  BY <1>0, FittingIs
<1> QED BY <1>1, <1>2, <1>3, <1>4 DEF Remembered

(* The invariant of the cache. *)

Readers ==
  [pc : {"idle", "lookup", "waiting", "touch", "hit", "load", "put"}, at : Instance \cup {Nobody},
   item : Item \cup {Nobody}, epoch : Nat, born : Nat, hit : Seq(CacheEntries)]

Transactions == [do : {"get", "touch", "put"}, by : Reader] \cup [do : {"clear"}]

CacheShape ==
  /\ memory \in [Instance -> Seq(CacheEntries)] /\ stored \in Seq(CacheEntries)
  /\ queue \in Seq(Transactions)
  /\ generation \in [Instance -> Nat] /\ closed \in [Instance -> BOOLEAN]
  /\ reader \in [Reader -> Readers]
  /\ clearer \in [pc : {"idle", "invalidated", "waiting"}, at : Instance \cup {Nobody}]
  /\ clears \in Nat /\ cleared \in Nat /\ cleared <= clears

(* A read under way has an instance and an item, and no epoch of the future; a read whose
   generation is the current one began after the last clear did. *)
ReadsSound(rd) ==
  \A r \in Reader : rd[r].pc # "idle" =>
    /\ rd[r].at \in Instance /\ rd[r].item \in Item
    /\ rd[r].epoch <= generation[rd[r].at] /\ rd[r].born <= clears
    /\ closed[rd[r].at] \/ rd[r].epoch # generation[rd[r].at] \/ rd[r].born = clears

(* Who opened a transaction waits for it, for one at a time, and one clear at most waits. *)
QueueOwned ==
  /\ \A i \in DOMAIN queue : queue[i].do # "clear" => reader[queue[i].by].pc = "waiting"
  /\ \A i, j \in DOMAIN queue : i # j /\ queue[i].do # "clear" /\ queue[j].do # "clear" =>
       queue[i].by # queue[j].by
  /\ \A i \in DOMAIN queue : queue[i].do = "clear" => clearer.pc = "waiting"
  /\ \A i, j \in DOMAIN queue : queue[i].do = "clear" /\ queue[j].do = "clear" => i = j

(* A put that waits began its load after the clears that are done, and a put behind a clear
   began it after that one. *)
PutsLate ==
  /\ \A i \in DOMAIN queue : queue[i].do = "put" => reader[queue[i].by].born >= cleared
  /\ \A i, j \in DOMAIN queue : i < j /\ queue[i].do = "clear" /\ queue[j].do = "put" =>
       reader[queue[j].by].born >= clears

CacheInv == CacheShape /\ ReadsSound(reader) /\ QueueOwned /\ PutsLate /\ ClearedStaysCleared

LEMMA IdleReader == Idle \in Readers /\ Idle.pc = "idle"
<1>1. <<>> \in Seq(CacheEntries) /\ 0 \in Nat
  OBVIOUS
<1> QED BY <1>1 DEF Idle, Readers

LEMMA TransactionIs ==
  /\ \A d \in {"get", "touch", "put"}, r \in Reader :
       /\ [do |-> d, by |-> r] \in Transactions
       /\ [do |-> d, by |-> r].do = d /\ [do |-> d, by |-> r].by = r
  /\ [do |-> "clear"] \in Transactions /\ [do |-> "clear"].do = "clear"
  /\ \A tx \in Transactions : tx.do # "clear" => tx.by \in Reader
BY DEF Transactions

(* A queue and the one that a transaction was appended to. *)
LEMMA OpenedQueue ==
  ASSUME NEW q \in Seq(Transactions), NEW tx \in Transactions, NEW p, p = Append(q, tx)
  PROVE  /\ p \in Seq(Transactions)
         /\ \A i \in DOMAIN p : (i \in DOMAIN q /\ p[i] = q[i]) \/ (i = Len(q) + 1 /\ p[i] = tx)
         /\ \A i \in DOMAIN p, j \in DOMAIN p : i < j => i \in DOMAIN q
OBVIOUS

LEMMA RunQueue ==
  ASSUME NEW q \in Seq(Transactions), q # <<>>, NEW p, p = Tail(q)
  PROVE  /\ p \in Seq(Transactions) /\ Head(q) = q[1] /\ Head(q) \in Transactions /\ 1 \in DOMAIN q
         /\ \A i \in DOMAIN p : i + 1 \in DOMAIN q /\ p[i] = q[i + 1] /\ 1 < i + 1 /\ i + 1 # 1 /\ i \in Nat
OBVIOUS

(* A reader that does not wait takes a step, and may open a transaction and change memory. *)
LEMMA ReaderSteps ==
  ASSUME CacheInv, NEW r \in Reader, NEW x \in Readers, reader' = [reader EXCEPT ![r] = x],
         reader[r].pc # "waiting", UNCHANGED <<stored, generation, closed, clearer, clears, cleared>>,
         x.pc # "idle" =>
           /\ x.at \in Instance /\ x.item \in Item
           /\ x.epoch <= generation[x.at] /\ x.born <= clears
           /\ closed[x.at] \/ x.epoch # generation[x.at] \/ x.born = clears,
         \/ queue' = queue
         \/ \E d \in {"get", "touch", "put"} :
              /\ queue' = Append(queue, [do |-> d, by |-> r]) /\ x.pc = "waiting"
              /\ d = "put" => x.born = clears,
         memory' \in [Instance -> Seq(CacheEntries)],
         \A c \in Instance : Bytes(memory'[c]) <= maxMemoryBytes
  PROVE  CacheInv'
<1>0. CacheShape /\ ReadsSound(reader) /\ QueueOwned /\ PutsLate /\ ClearedStaysCleared
  BY DEF CacheInv
<1>1. reader' \in [Reader -> Readers] /\ reader'[r] = x /\ \A t \in Reader : t # r => reader'[t] = reader[t]
  BY <1>0 DEF CacheShape
<1>2. ReadsSound(reader)'
  <2> SUFFICES ASSUME NEW t \in Reader, reader'[t].pc # "idle"
               PROVE  /\ reader'[t].at \in Instance /\ reader'[t].item \in Item
                      /\ reader'[t].epoch <= generation[reader'[t].at] /\ reader'[t].born <= clears
                      /\ \/ closed[reader'[t].at] \/ reader'[t].epoch # generation[reader'[t].at]
                         \/ reader'[t].born = clears
    BY DEF ReadsSound
  <2>1. CASE t = r
    BY <1>1, <2>1
  <2>2. CASE t # r
    BY <1>0, <1>1, <2>2 DEF ReadsSound
  <2> QED BY <2>1, <2>2
<1>3. ClearedStaysCleared'
  BY <1>0 DEF ClearedStaysCleared
<1>4. \A i \in DOMAIN queue : queue[i] \in Transactions
  BY <1>0 DEF CacheShape
<1>5. \A i \in DOMAIN queue : queue[i].do # "clear" => queue[i].by \in Reader /\ queue[i].by # r
  BY <1>0, <1>4, TransactionIs DEF QueueOwned
<1>6. CASE queue' = queue
  <2>1. CacheShape'
    BY <1>0, <1>1, <1>6 DEF CacheShape
  <2>2. QueueOwned'
    BY <1>0, <1>1, <1>5, <1>6 DEF QueueOwned
  <2>3. PutsLate'
    BY <1>0, <1>1, <1>5, <1>6 DEF PutsLate
  <2> QED BY <1>2, <1>3, <2>1, <2>2, <2>3 DEF CacheInv
<1>7. ASSUME NEW d \in {"get", "touch", "put"}, queue' = Append(queue, [do |-> d, by |-> r]),
             x.pc = "waiting", d = "put" => x.born = clears
      PROVE  CacheInv'
  <2>1. PICK tx \in Transactions : tx = [do |-> d, by |-> r] /\ tx.do = d /\ tx.by = r
    BY TransactionIs
  <2>2. /\ queue' \in Seq(Transactions)
        /\ \A i \in DOMAIN queue' :
             (i \in DOMAIN queue /\ queue'[i] = queue[i]) \/ (i = Len(queue) + 1 /\ queue'[i] = tx)
        /\ \A i \in DOMAIN queue', j \in DOMAIN queue' : i < j => i \in DOMAIN queue
    <3>1. queue \in Seq(Transactions) /\ queue' = Append(queue, tx)
      BY <1>0, <1>7, <2>1 DEF CacheShape
    <3> QED BY <3>1, OpenedQueue
  <2>3. CacheShape'
    BY <1>0, <1>1, <2>2 DEF CacheShape
  <2>4. tx.do # "clear"
    BY <2>1
  <2>5. QueueOwned'
    <3>1. \A i \in DOMAIN queue' : queue'[i].do # "clear" => reader'[queue'[i].by].pc = "waiting"
      BY <1>0, <1>1, <1>5, <1>7, <2>1, <2>2 DEF QueueOwned
    <3>2. \A i, j \in DOMAIN queue' : i # j /\ queue'[i].do # "clear" /\ queue'[j].do # "clear" =>
            queue'[i].by # queue'[j].by
      BY <1>0, <1>5, <2>1, <2>2 DEF QueueOwned
    <3>3. /\ \A i \in DOMAIN queue' : queue'[i].do = "clear" => clearer.pc = "waiting"
          /\ \A i, j \in DOMAIN queue' : queue'[i].do = "clear" /\ queue'[j].do = "clear" => i = j
      BY <1>0, <2>2, <2>4 DEF QueueOwned
    <3> QED BY <3>1, <3>2, <3>3 DEF QueueOwned
  <2>6. PutsLate'
    <3>1. clears \in Nat /\ cleared \in Nat /\ cleared <= clears
      BY <1>0 DEF CacheShape
    <3>2. tx.do = "put" => reader'[tx.by].born >= clears /\ reader'[tx.by].born >= cleared
      BY <1>1, <1>7, <2>1, <3>1
    <3>3. \A i \in DOMAIN queue : queue[i].do = "put" => reader'[queue[i].by] = reader[queue[i].by]
      BY <1>1, <1>5
    <3>4. \A i \in DOMAIN queue' : queue'[i].do = "put" => reader'[queue'[i].by].born >= cleared
      BY <1>0, <2>2, <3>2, <3>3 DEF PutsLate
    <3>5. ASSUME NEW i \in DOMAIN queue', NEW j \in DOMAIN queue', i < j, queue'[i].do = "clear",
                 queue'[j].do = "put"
          PROVE  reader'[queue'[j].by].born >= clears
      <4>1. i \in DOMAIN queue /\ queue'[i] = queue[i]
        BY <2>2, <2>4, <3>5
      <4>2. CASE j \in DOMAIN queue /\ queue'[j] = queue[j]
        BY <1>0, <3>3, <3>5, <4>1, <4>2 DEF PutsLate
      <4>3. CASE queue'[j] = tx
        BY <3>2, <3>5, <4>3
      <4> QED BY <2>2, <4>2, <4>3
    <3> QED BY <3>4, <3>5 DEF PutsLate
  <2> QED BY <1>2, <1>3, <2>3, <2>5, <2>6 DEF CacheInv
<1> QED BY <1>6, <1>7

(* The oldest transaction of a reader runs. *)
LEMMA TransactionRuns ==
  ASSUME CacheInv, queue # <<>>, queue' = Tail(queue), Head(queue).do # "clear",
         NEW x \in Readers, reader' = [reader EXCEPT ![Head(queue).by] = x],
         UNCHANGED <<memory, generation, closed, clearer, clears, cleared>>,
         x.pc # "idle" =>
           LET old == reader[Head(queue).by]
           IN x.at = old.at /\ x.item = old.item /\ x.epoch = old.epoch /\ x.born = old.born,
         stored' \in Seq(CacheEntries), Bytes(stored') <= maxBytes,
         \A i \in DOMAIN stored' : stored'[i].born >= cleared
  PROVE  CacheInv'
<1>0. CacheShape /\ ReadsSound(reader) /\ QueueOwned /\ PutsLate /\ ClearedStaysCleared
  BY DEF CacheInv
<1>1. PICK tx \in Transactions : tx = Head(queue) /\ tx = queue[1] /\ tx.do # "clear" /\ 1 \in DOMAIN queue
  BY <1>0, RunQueue DEF CacheShape
<1>2. PICK r \in Reader : r = tx.by
  BY <1>1, TransactionIs
<1>3. /\ queue' \in Seq(Transactions)
      /\ \A i \in DOMAIN queue' : /\ i + 1 \in DOMAIN queue /\ queue'[i] = queue[i + 1]
                                  /\ 1 < i + 1 /\ i + 1 # 1 /\ i \in Nat
  BY <1>0, RunQueue DEF CacheShape
<1>4. reader' \in [Reader -> Readers] /\ reader'[r] = x /\ \A t \in Reader : t # r => reader'[t] = reader[t]
  BY <1>0, <1>1, <1>2 DEF CacheShape
<1>5. \A i \in DOMAIN queue' : queue'[i].do # "clear" => queue'[i].by \in Reader /\ queue'[i].by # r
  <2>1. \A i \in DOMAIN queue' : queue'[i] \in Transactions
    BY <1>3
  <2> QED BY <1>0, <1>1, <1>2, <1>3, <2>1, TransactionIs DEF QueueOwned
<1>6. reader[r].pc = "waiting" /\ (x.pc # "idle" =>
        x.at = reader[r].at /\ x.item = reader[r].item /\ x.epoch = reader[r].epoch /\ x.born = reader[r].born)
  BY <1>0, <1>1, <1>2 DEF QueueOwned
<1>7. CacheShape'
  BY <1>0, <1>3, <1>4 DEF CacheShape
<1>8. ReadsSound(reader)'
  <2> SUFFICES ASSUME NEW t \in Reader, reader'[t].pc # "idle"
               PROVE  /\ reader'[t].at \in Instance /\ reader'[t].item \in Item
                      /\ reader'[t].epoch <= generation[reader'[t].at] /\ reader'[t].born <= clears
                      /\ \/ closed[reader'[t].at] \/ reader'[t].epoch # generation[reader'[t].at]
                         \/ reader'[t].born = clears
    BY DEF ReadsSound
  <2>1. CASE t = r
    BY <1>0, <1>4, <1>6, <2>1 DEF ReadsSound
  <2>2. CASE t # r
    BY <1>0, <1>4, <2>2 DEF ReadsSound
  <2> QED BY <2>1, <2>2
<1>9. QueueOwned'
  <2>1. \A i \in DOMAIN queue' : queue'[i].do # "clear" => reader'[queue'[i].by].pc = "waiting"
    BY <1>0, <1>3, <1>4, <1>5 DEF QueueOwned
  <2>2. \A i, j \in DOMAIN queue' : i # j => i + 1 # j + 1
    BY <1>3
  <2>3. /\ \A i, j \in DOMAIN queue' : i # j /\ queue'[i].do # "clear" /\ queue'[j].do # "clear" =>
             queue'[i].by # queue'[j].by
        /\ \A i \in DOMAIN queue' : queue'[i].do = "clear" => clearer.pc = "waiting"
        /\ \A i, j \in DOMAIN queue' : queue'[i].do = "clear" /\ queue'[j].do = "clear" => i = j
    BY <1>0, <1>3, <2>2 DEF QueueOwned
  <2> QED BY <2>1, <2>3 DEF QueueOwned
<1>10. PutsLate'
  <2>1. \A i \in DOMAIN queue' : queue'[i].do = "put" => reader'[queue'[i].by] = reader[queue[i + 1].by]
    BY <1>3, <1>4, <1>5
  <2>2. \A i, j \in DOMAIN queue' : i < j => i + 1 < j + 1
    BY <1>3
  <2> QED BY <1>0, <1>3, <2>1, <2>2 DEF PutsLate
<1>11. ClearedStaysCleared'
  BY <1>0 DEF ClearedStaysCleared
<1> QED BY <1>7, <1>8, <1>9, <1>10, <1>11 DEF CacheInv

LEMMA MemoryBounded ==
  ASSUME CacheInv
  PROVE  memory \in [Instance -> Seq(CacheEntries)] /\ \A c \in Instance : Bytes(memory[c]) <= maxMemoryBytes
BY DEF CacheInv, CacheShape, ClearedStaysCleared

LEMMA MemoryRemembers ==
  ASSUME CacheInv, NEW c \in Instance, NEW e \in CacheEntries,
         memory' = [memory EXCEPT ![c] = Remembered(memory[c], e)]
  PROVE  memory' \in [Instance -> Seq(CacheEntries)] /\ \A d \in Instance : Bytes(memory'[d]) <= maxMemoryBytes
<1>1. Remembered(memory[c], e) \in Seq(CacheEntries) /\ Bytes(Remembered(memory[c], e)) <= maxMemoryBytes
  BY MemoryBounded, RememberedIs
<1>2. PICK m \in Seq(CacheEntries) : m = Remembered(memory[c], e) /\ Bytes(m) <= maxMemoryBytes
  BY <1>1
<1>3. memory' = [memory EXCEPT ![c] = m]
  BY <1>2
<1>4. memory' \in [Instance -> Seq(CacheEntries)] /\ \A d \in Instance : memory'[d] = IF d = c THEN m ELSE memory[d]
  BY <1>3, MemoryBounded
<1> QED BY <1>2, <1>4, MemoryBounded

(* A reader goes to another place, and may open a transaction on its way. *)
LEMMA StepKeeps ==
  ASSUME CacheInv, NEW r \in Reader, reader[r].pc \notin {"idle", "waiting"},
         NEW pc \in {"idle", "lookup", "waiting", "touch", "hit", "load", "put"}, Step(r, pc),
         UNCHANGED <<stored, generation, closed, clearer, clears, cleared>>,
         \/ queue' = queue
         \/ \E d \in {"get", "touch", "put"} :
              /\ queue' = Append(queue, [do |-> d, by |-> r]) /\ pc = "waiting"
              /\ d = "put" => reader[r].born = clears,
         memory' \in [Instance -> Seq(CacheEntries)],
         \A c \in Instance : Bytes(memory'[c]) <= maxMemoryBytes
  PROVE  CacheInv'
<1>1. PICK x : x = [reader[r] EXCEPT !.pc = pc]
  OBVIOUS
<1>2. reader' = [reader EXCEPT ![r] = x]
  BY <1>1 DEF Step, CacheInv, CacheShape
<1>3. reader[r].pc # "idle" /\ reader[r].pc # "waiting"
  OBVIOUS
<1>4. /\ x \in Readers /\ x.pc = pc /\ x.born = reader[r].born
      /\ x.at \in Instance /\ x.item \in Item
      /\ x.epoch <= generation[x.at] /\ x.born <= clears
      /\ closed[x.at] \/ x.epoch # generation[x.at] \/ x.born = clears
  <2>1. reader[r] \in Readers
    BY DEF CacheInv, CacheShape
  <2>2. x \in Readers /\ x.pc = pc /\ x.born = reader[r].born /\ x.at = reader[r].at
        /\ x.item = reader[r].item /\ x.epoch = reader[r].epoch
    BY <1>1, <2>1 DEF Readers
  <2> QED BY <1>3, <2>2 DEF CacheInv, ReadsSound
<1>5. \/ queue' = queue
      \/ \E d \in {"get", "touch", "put"} :
           /\ queue' = Append(queue, [do |-> d, by |-> r]) /\ x.pc = "waiting"
           /\ d = "put" => x.born = clears
  BY <1>4
<1> QED BY <1>2, <1>3, <1>4, <1>5, ReaderSteps

LEMMA BeginReadKeeps ==
  ASSUME CacheInv, NEW r \in Reader, NEW c \in Instance, NEW n \in Item, BeginRead(r, c, n)
  PROVE  CacheInv'
<1>0. memory[c] \in Seq(CacheEntries) /\ generation[c] \in Nat /\ clears \in Nat
  BY DEF CacheInv, CacheShape
<1>1. PICK h \in Seq(CacheEntries) : h = IF Holds(memory[c], n) THEN <<EntryOf(memory[c], n)>> ELSE <<>>
  <2>1. CASE Holds(memory[c], n)
    <3>1. EntryOf(memory[c], n) \in CacheEntries
      BY <1>0, <2>1, EntryOfHeld
    <3>2. <<EntryOf(memory[c], n)>> \in Seq(CacheEntries)
      BY <3>1
    <3> QED BY <2>1, <3>2
  <2>2. CASE ~Holds(memory[c], n)
    <3>1. <<>> \in Seq(CacheEntries)
      OBVIOUS
    <3> QED BY <2>2, <3>1
  <2> QED BY <2>1, <2>2
<1>2. PICK pc \in {"touch", "lookup"} : pc = IF Holds(memory[c], n) THEN "touch" ELSE "lookup"
  OBVIOUS
<1> DEFINE x == [pc |-> pc, at |-> c, item |-> n, epoch |-> generation[c], born |-> clears, hit |-> h]
<1>3. reader' = [reader EXCEPT ![r] = x] /\ reader[r].pc = "idle"
      /\ UNCHANGED <<memory, stored, queue, generation, closed, clearer, clears, cleared>>
  BY <1>1, <1>2 DEF BeginRead, InReader
<1>4. x \in Readers
  BY <1>0 DEF Readers
<1>5. x.at \in Instance /\ x.item \in Item /\ x.epoch = generation[x.at] /\ x.born = clears
  OBVIOUS
<1>6. x.epoch <= generation[x.at] /\ x.born <= clears
  BY <1>0
<1> HIDE DEF x
<1> QED BY <1>3, <1>4, <1>5, <1>6, MemoryBounded, ReaderSteps

LEMMA OpenLookupKeeps ==
  ASSUME CacheInv, NEW r \in Reader, OpenLookup(r) PROVE CacheInv'
<1>0. reader[r].pc = "lookup" /\ UNCHANGED <<memory, stored, generation, closed, clearer, clears, cleared>>
  BY DEF OpenLookup, InReader
<1>1. CASE Step(r, "load") /\ UNCHANGED queue
  BY <1>0, <1>1, MemoryBounded, StepKeeps
<1>2. CASE Step(r, "waiting") /\ Open([do |-> "get", by |-> r])
  <2>3. queue' = Append(queue, [do |-> "get", by |-> r])
    BY <1>2 DEF Open
  <2> QED BY <1>0, <1>2, <2>3, MemoryBounded, StepKeeps
<1> QED BY <1>1, <1>2 DEF OpenLookup

LEMMA TouchKeeps ==
  ASSUME CacheInv, NEW r \in Reader, Touch(r) PROVE CacheInv'
<1>0. reader[r].pc = "touch" /\ UNCHANGED <<stored, generation, closed, clearer, clears, cleared>>
  BY DEF Touch, InReader
<1>1. CASE Step(r, "load") /\ UNCHANGED <<memory, queue>>
  BY <1>0, <1>1, MemoryBounded, StepKeeps
<1>2. CASE /\ reader[r].hit # <<>>
           /\ memory' = [memory EXCEPT ![reader[r].at] = Remembered(@, Head(reader[r].hit))]
           /\ Open([do |-> "touch", by |-> r]) /\ Step(r, "waiting")
  <2>3. queue' = Append(queue, [do |-> "touch", by |-> r])
    BY <1>2 DEF Open
  <2>4. reader[r] \in Readers /\ reader[r].at \in Instance
    BY <1>0 DEF CacheInv, CacheShape, ReadsSound
  <2>5. Head(reader[r].hit) \in CacheEntries
    BY <1>2, <2>4 DEF Readers
  <2>6. memory' \in [Instance -> Seq(CacheEntries)] /\ \A d \in Instance : Bytes(memory'[d]) <= maxMemoryBytes
    BY <1>2, <2>4, <2>5, MemoryRemembers
  <2> QED BY <1>0, <1>2, <2>3, <2>6, StepKeeps
<1> QED BY <1>1, <1>2 DEF Touch

LEMMA HitKeeps ==
  ASSUME CacheInv, NEW r \in Reader, Hit(r) PROVE CacheInv'
<1>0. reader[r].pc = "hit" /\ UNCHANGED <<memory, stored, queue, generation, closed, clearer, clears, cleared>>
  BY DEF Hit, InReader
<1>1. CASE Step(r, "load")
  BY <1>0, <1>1, MemoryBounded, StepKeeps
<1>2. CASE reader' = [reader EXCEPT ![r] = Idle]
  BY <1>0, <1>2, IdleReader, MemoryBounded, ReaderSteps
<1> QED BY <1>1, <1>2 DEF Hit

LEMMA LoadedKeeps ==
  ASSUME CacheInv, NEW r \in Reader, Loaded(r) PROVE CacheInv'
<1>0. reader[r].pc = "load" /\ UNCHANGED <<stored, queue, generation, closed, clearer, clears, cleared>>
  BY DEF Loaded, InReader
<1>1. CASE reader' = [reader EXCEPT ![r] = Idle] /\ UNCHANGED memory
  BY <1>0, <1>1, IdleReader, MemoryBounded, ReaderSteps
<1>2. CASE /\ memory' = [memory EXCEPT ![reader[r].at] = Remembered(@, Entry(reader[r].item, reader[r].born))]
           /\ Step(r, "put")
  <2>4. reader[r] \in Readers /\ reader[r].at \in Instance /\ reader[r].item \in Item
    BY <1>0 DEF CacheInv, CacheShape, ReadsSound
  <2>5. Entry(reader[r].item, reader[r].born) \in CacheEntries
    BY <2>4 DEF Readers, Entry, CacheEntries
  <2>6. memory' \in [Instance -> Seq(CacheEntries)] /\ \A d \in Instance : Bytes(memory'[d]) <= maxMemoryBytes
    BY <1>2, <2>4, <2>5, MemoryRemembers
  <2> QED BY <1>0, <1>2, <2>6, StepKeeps
<1> QED BY <1>1, <1>2 DEF Loaded

LEMMA OpenPutKeeps ==
  ASSUME CacheInv, NEW r \in Reader, OpenPut(r) PROVE CacheInv'
<1>0. reader[r].pc = "put" /\ UNCHANGED <<memory, stored, generation, closed, clearer, clears, cleared>>
  BY DEF OpenPut, InReader
<1>1. CASE MayWrite(r) /\ Open([do |-> "put", by |-> r]) /\ Step(r, "waiting")
  <2>3. queue' = Append(queue, [do |-> "put", by |-> r])
    BY <1>1 DEF Open
  <2>4. reader[r].born = clears
    BY <1>0, <1>1 DEF CacheInv, ReadsSound, MayWrite, Stale
  <2> QED BY <1>0, <1>1, <2>3, <2>4, MemoryBounded, StepKeeps
<1>2. CASE reader' = [reader EXCEPT ![r] = Idle] /\ UNCHANGED queue
  BY <1>0, <1>2, IdleReader, MemoryBounded, ReaderSteps
<1> QED BY <1>1, <1>2 DEF OpenPut

(* Clears and closes. *)

LEMMA BeginClearKeeps ==
  ASSUME CacheInv, NEW c \in Instance, BeginClear(c) PROVE CacheInv'
<1>0. CacheShape /\ ReadsSound(reader) /\ QueueOwned /\ PutsLate /\ ClearedStaysCleared
  BY DEF CacheInv
<1>1. /\ clearer.pc = "idle" /\ clearer' = [pc |-> "invalidated", at |-> c] /\ clears' = clears + 1
      /\ generation' = [d \in Instance |-> IF closed[d] THEN generation[d] ELSE generation[d] + 1]
      /\ memory' = [d \in Instance |-> <<>>] /\ UNCHANGED <<stored, queue, closed, reader, cleared>>
  BY DEF BeginClear
<1>2. clears \in Nat /\ cleared \in Nat /\ cleared <= clears
  BY <1>0 DEF CacheShape
<1>3. \A d \in Instance : /\ generation[d] \in Nat /\ generation'[d] \in Nat
                          /\ closed[d] \/ generation'[d] = generation[d] + 1
                          /\ generation[d] <= generation'[d]
  BY <1>0, <1>1 DEF CacheShape
<1>4. CacheShape'
  <2>1. <<>> \in Seq(CacheEntries) /\ clears' \in Nat /\ cleared <= clears'
    BY <1>1, <1>2
  <2>2. memory' \in [Instance -> Seq(CacheEntries)] /\ generation' \in [Instance -> Nat]
    BY <1>1, <1>3, <2>1
  <2>3. clearer' \in [pc : {"idle", "invalidated", "waiting"}, at : Instance \cup {Nobody}]
    BY <1>1
  <2> QED BY <1>0, <1>1, <2>1, <2>2, <2>3 DEF CacheShape
<1>5. ReadsSound(reader)'
  <2> SUFFICES ASSUME NEW t \in Reader, reader[t].pc # "idle"
               PROVE  /\ reader[t].at \in Instance /\ reader[t].item \in Item
                      /\ reader[t].epoch <= generation'[reader[t].at] /\ reader[t].born <= clears'
                      /\ \/ closed[reader[t].at] \/ reader[t].epoch # generation'[reader[t].at]
                         \/ reader[t].born = clears'
    BY <1>1 DEF ReadsSound
  <2>1. reader[t].at \in Instance /\ reader[t].item \in Item /\ reader[t].epoch <= generation[reader[t].at]
        /\ reader[t].born <= clears
    BY <1>0 DEF ReadsSound
  <2>2. reader[t].epoch \in Nat /\ reader[t].born \in Nat
    <3>1. reader[t] \in Readers
      BY <1>0 DEF CacheShape
    <3> QED BY <3>1 DEF Readers
  <2>3. PICK g \in Nat, h \in Nat, e \in Nat :
          /\ g = generation[reader[t].at] /\ h = generation'[reader[t].at] /\ e = reader[t].epoch
          /\ closed[reader[t].at] \/ h = g + 1
    BY <1>3, <2>1, <2>2
  <2>4. e <= g /\ g <= h
    BY <1>3, <2>1, <2>3
  <2>5. e <= h /\ (h = g + 1 => e # h)
    BY <2>4
  <2>6. reader[t].born <= clears'
    BY <1>1, <1>2, <2>1, <2>2
  <2> QED BY <2>1, <2>3, <2>5, <2>6
<1>6. \A i \in DOMAIN queue : queue[i].do # "clear"
  BY <1>0, <1>1 DEF QueueOwned
<1>7. QueueOwned'
  BY <1>0, <1>1, <1>6 DEF QueueOwned
<1>8. PutsLate'
  BY <1>0, <1>1, <1>6 DEF PutsLate
<1>9. ClearedStaysCleared'
  <2>1. Bytes(<<>>) <= maxMemoryBytes
    BY BytesOfNothing, BrowserCacheAssumption DEF BrowserCacheAssumption
  <2> QED BY <1>0, <1>1, <2>1 DEF ClearedStaysCleared
<1> QED BY <1>4, <1>5, <1>7, <1>8, <1>9 DEF CacheInv

LEMMA CloseKeeps ==
  ASSUME CacheInv, NEW c \in Instance, Close(c) PROVE CacheInv'
<1>0. CacheShape /\ ReadsSound(reader) /\ QueueOwned /\ PutsLate /\ ClearedStaysCleared
  BY DEF CacheInv
<1>1. /\ closed' = [closed EXCEPT ![c] = TRUE] /\ generation' = [generation EXCEPT ![c] = generation[c] + 1]
      /\ memory' = [memory EXCEPT ![c] = <<>>] /\ UNCHANGED <<stored, queue, reader, clearer, clears, cleared>>
  BY DEF Close
<1>2. \A d \in Instance : /\ generation[d] \in Nat /\ generation'[d] \in Nat /\ generation[d] <= generation'[d]
                          /\ d # c => generation'[d] = generation[d]
  BY <1>0, <1>1 DEF CacheShape
<1>3. closed' \in [Instance -> BOOLEAN] /\ closed'[c] /\ \A d \in Instance : d # c => closed'[d] = closed[d]
  BY <1>0, <1>1 DEF CacheShape
<1>4. CacheShape'
  <2>1. memory' \in [Instance -> Seq(CacheEntries)]
    BY <1>0, <1>1 DEF CacheShape
  <2>2. generation' \in [Instance -> Nat]
    BY <1>0, <1>1 DEF CacheShape
  <2> QED BY <1>0, <1>1, <1>3, <2>1, <2>2 DEF CacheShape
<1>5. ReadsSound(reader)'
  <2> SUFFICES ASSUME NEW t \in Reader, reader[t].pc # "idle"
               PROVE  /\ reader[t].at \in Instance /\ reader[t].item \in Item
                      /\ reader[t].epoch <= generation'[reader[t].at] /\ reader[t].born <= clears
                      /\ \/ closed'[reader[t].at] \/ reader[t].epoch # generation'[reader[t].at]
                         \/ reader[t].born = clears
    BY <1>1 DEF ReadsSound
  <2>1. /\ reader[t].at \in Instance /\ reader[t].item \in Item /\ reader[t].epoch <= generation[reader[t].at]
        /\ reader[t].born <= clears
        /\ closed[reader[t].at] \/ reader[t].epoch # generation[reader[t].at] \/ reader[t].born = clears
    BY <1>0 DEF ReadsSound
  <2>2. reader[t].epoch \in Nat
    <3>1. reader[t] \in Readers
      BY <1>0 DEF CacheShape
    <3> QED BY <3>1 DEF Readers
  <2>3. reader[t].epoch <= generation'[reader[t].at]
    BY <1>2, <2>1, <2>2
  <2>4. CASE reader[t].at = c
    BY <1>3, <2>1, <2>3, <2>4
  <2>5. CASE reader[t].at # c
    BY <1>2, <1>3, <2>1, <2>3, <2>5
  <2> QED BY <2>4, <2>5
<1>6. QueueOwned' /\ PutsLate'
  BY <1>0, <1>1 DEF QueueOwned, PutsLate
<1>7. ClearedStaysCleared'
  <2>1. Bytes(<<>>) <= maxMemoryBytes
    BY BytesOfNothing, BrowserCacheAssumption DEF BrowserCacheAssumption
  <2>2. \A d \in Instance : memory'[d] = <<>> \/ memory'[d] = memory[d]
    BY <1>0, <1>1 DEF CacheShape
  <2> QED BY <1>0, <1>1, <2>1, <2>2 DEF ClearedStaysCleared
<1> QED BY <1>4, <1>5, <1>6, <1>7 DEF CacheInv

LEMMA OpenClearKeeps ==
  ASSUME CacheInv, OpenClear PROVE CacheInv'
<1>0. CacheShape /\ ReadsSound(reader) /\ QueueOwned /\ PutsLate /\ ClearedStaysCleared
  BY DEF CacheInv
<1>1. clearer.pc = "invalidated" /\ UNCHANGED <<memory, stored, generation, closed, reader, clears, cleared>>
  BY DEF OpenClear
<1>2. \A i \in DOMAIN queue : queue[i].do # "clear"
  BY <1>0, <1>1 DEF QueueOwned
<1>3. ReadsSound(reader)' /\ ClearedStaysCleared'
  BY <1>0, <1>1 DEF ReadsSound, ClearedStaysCleared
<1>4. CASE clearer' = [clearer EXCEPT !.pc = "idle"] /\ UNCHANGED queue
  <2>1. CacheShape'
    BY <1>0, <1>1, <1>4 DEF CacheShape
  <2>2. QueueOwned' /\ PutsLate'
    BY <1>0, <1>1, <1>2, <1>4 DEF QueueOwned, PutsLate
  <2> QED BY <1>3, <2>1, <2>2 DEF CacheInv
<1>5. CASE clearer' = [clearer EXCEPT !.pc = "waiting"] /\ Open([do |-> "clear"])
  <2>1. PICK tx \in Transactions : tx = [do |-> "clear"] /\ tx.do = "clear"
    BY TransactionIs
  <2>2. /\ queue' \in Seq(Transactions)
        /\ \A i \in DOMAIN queue' :
             (i \in DOMAIN queue /\ queue'[i] = queue[i]) \/ (i = Len(queue) + 1 /\ queue'[i] = tx)
        /\ \A i \in DOMAIN queue', j \in DOMAIN queue' : i < j => i \in DOMAIN queue
    <3>1. queue \in Seq(Transactions) /\ queue' = Append(queue, tx)
      BY <1>0, <1>5, <2>1 DEF CacheShape, Open
    <3> QED BY <3>1, OpenedQueue
  <2>3. CacheShape' /\ clearer'.pc = "waiting"
    BY <1>0, <1>1, <1>5, <2>2 DEF CacheShape
  <2>4. QueueOwned'
    BY <1>0, <1>1, <1>2, <2>1, <2>2, <2>3 DEF QueueOwned
  <2>5. PutsLate'
    <3>1. \A i \in DOMAIN queue', j \in DOMAIN queue' : i < j => queue'[i].do # "clear"
      <4> SUFFICES ASSUME NEW i \in DOMAIN queue', NEW j \in DOMAIN queue', i < j
                   PROVE  queue'[i].do # "clear"
        OBVIOUS
      <4>1. i \in DOMAIN queue
        BY <2>2
      <4>2. i # Len(queue) + 1
        BY <1>0, <4>1 DEF CacheShape
      <4> QED BY <1>2, <2>2, <4>2
    <3>2. \A i \in DOMAIN queue' : queue'[i].do = "put" => reader[queue'[i].by].born >= cleared
      BY <1>0, <2>1, <2>2 DEF PutsLate
    <3> QED BY <1>1, <3>1, <3>2 DEF PutsLate
  <2> QED BY <1>3, <2>3, <2>4, <2>5 DEF CacheInv
<1> QED BY <1>4, <1>5 DEF OpenClear

(* The database. *)

(* A hit that the database answers with. *)
LEMMA HitIs ==
  ASSUME NEW s \in Seq(CacheEntries), NEW n
  PROVE  (IF Holds(s, n) THEN <<EntryOf(s, n)>> ELSE <<>>) \in Seq(CacheEntries)
<1>1. CASE Holds(s, n)
  <2>1. EntryOf(s, n) \in CacheEntries
    BY <1>1, EntryOfHeld
  <2> QED BY <1>1, <2>1
<1>2. CASE ~Holds(s, n)
  BY <1>2
<1> QED BY <1>1, <1>2

(* A touch moves an entry to the end. *)
LEMMA TouchedStore ==
  ASSUME CacheInv, NEW n, Holds(stored, n), NEW t, t = Append(Drop(stored, n), EntryOf(stored, n))
  PROVE  /\ t \in Seq(CacheEntries) /\ Bytes(t) <= maxBytes
         /\ \A i \in DOMAIN t : t[i].born >= cleared
<1>0. stored \in Seq(CacheEntries) /\ Bytes(stored) <= maxBytes /\ maxBytes \in Nat
      /\ \A i \in DOMAIN stored : stored[i].born >= cleared
  BY BrowserCacheAssumption DEF CacheInv, CacheShape, ClearedStaysCleared, BrowserCacheAssumption
<1>1. PICK d \in Seq(CacheEntries) : d = Drop(stored, n) /\ Within(d, stored)
  BY <1>0, DropIs
<1>2. PICK e \in CacheEntries : e = EntryOf(stored, n) /\ \E i \in DOMAIN stored : e = stored[i]
  BY <1>0, EntryOfHeld
<1>3. t \in Seq(CacheEntries)
      /\ \A i \in DOMAIN t : t[i] = e \/ \E j \in DOMAIN d : t[i] = d[j]
  BY <1>1, <1>2, AppendedWithin
<1>4. Within(t, stored)
  <2>1. ASSUME NEW i \in DOMAIN t PROVE \E j \in DOMAIN stored : t[i] = stored[j]
    <3>1. CASE t[i] = e
      BY <1>2, <3>1
    <3>2. CASE \E j \in DOMAIN d : t[i] = d[j]
      <4>1. PICK j \in DOMAIN d : t[i] = d[j]
        BY <3>2
      <4>2. \E k \in DOMAIN stored : d[j] = stored[k]
        BY <1>1 DEF Within
      <4> QED BY <4>1, <4>2
    <3> QED BY <1>3, <3>1, <3>2
  <2> QED BY <2>1 DEF Within
<1>5. Bytes(t) <= Bytes(stored) /\ Bytes(t) \in Nat /\ Bytes(stored) \in Nat
  BY <1>0, <1>3, <1>4, BytesWithin, BytesNumber
<1>6. Bytes(t) <= maxBytes
  BY <1>0, <1>5
<1> QED BY <1>0, <1>3, <1>4, <1>6 DEF Within

(* A put replaces an entry and evicts the oldest. *)
LEMMA PutStore ==
  ASSUME CacheInv, NEW n, NEW e \in CacheEntries, e.born >= cleared,
         NEW t, t = Fitting(Append(Drop(stored, n), e), maxBytes)
  PROVE  /\ t \in Seq(CacheEntries) /\ Bytes(t) <= maxBytes
         /\ \A i \in DOMAIN t : t[i].born >= cleared
<1>0. stored \in Seq(CacheEntries) /\ maxBytes \in Nat /\ \A i \in DOMAIN stored : stored[i].born >= cleared
  BY BrowserCacheAssumption DEF CacheInv, CacheShape, ClearedStaysCleared, BrowserCacheAssumption
<1>1. PICK d \in Seq(CacheEntries) : d = Drop(stored, n) /\ Within(d, stored)
  BY <1>0, DropIs
<1>2. PICK a \in Seq(CacheEntries) : a = Append(d, e)
        /\ \A i \in DOMAIN a : a[i] = e \/ \E j \in DOMAIN d : a[i] = d[j]
  BY AppendedWithin
<1>3. t \in Seq(CacheEntries) /\ Within(t, a) /\ Bytes(t) <= maxBytes
  BY <1>0, <1>1, <1>2, FittingIs
<1>4. \A i \in DOMAIN a : a[i].born >= cleared
  BY <1>0, <1>1, <1>2 DEF Within
<1> QED BY <1>3, <1>4 DEF Within

LEMMA RunTransactionKeeps ==
  ASSUME CacheInv, RunTransaction PROVE CacheInv'
<1>0. CacheShape /\ ReadsSound(reader) /\ QueueOwned /\ PutsLate /\ ClearedStaysCleared
  BY DEF CacheInv
<1>1. queue # <<>> /\ queue' = Tail(queue) /\ UNCHANGED <<memory, generation, closed, clears>>
  BY DEF RunTransaction
<1>2. PICK tx \in Transactions : tx = Head(queue) /\ tx = queue[1] /\ 1 \in DOMAIN queue
  BY <1>0, <1>1, RunQueue DEF CacheShape
<1>3. ASSUME tx.do # "clear"
      PROVE  tx.by \in Reader /\ reader[tx.by].pc = "waiting" /\ reader[tx.by] \in Readers /\ reader[tx.by].item \in Item
  BY <1>0, <1>2, <1>3, TransactionIs DEF QueueOwned, CacheShape, ReadsSound
<1>4. stored \in Seq(CacheEntries) /\ Bytes(stored) <= maxBytes /\ \A i \in DOMAIN stored : stored[i].born >= cleared
  BY <1>0 DEF CacheShape, ClearedStaysCleared
<1>5. CASE tx.do = "get" /\ RunGet(tx.by)
  <2>1. PICK h \in Seq(CacheEntries) : h = IF Holds(stored, reader[tx.by].item)
                                           THEN <<EntryOf(stored, reader[tx.by].item)>> ELSE <<>>
    BY <1>4, HitIs
  <2>2. PICK x : x = [reader[tx.by] EXCEPT !.pc = "touch", !.hit = h]
    OBVIOUS
  <2>3. x \in Readers /\ LET y == reader[tx.by] IN x.at = y.at /\ x.item = y.item /\ x.epoch = y.epoch /\ x.born = y.born
    BY <1>3, <1>5, <2>2 DEF Readers
  <2>4. reader' = [reader EXCEPT ![tx.by] = x] /\ UNCHANGED <<stored, clearer, cleared>>
    BY <1>0, <1>3, <1>5, <2>1, <2>2 DEF RunGet, CacheShape
  <2> QED BY <1>1, <1>2, <1>4, <1>5, <2>3, <2>4, TransactionRuns
<1>6. CASE tx.do = "touch" /\ RunTouch(tx.by)
  <2>2. PICK x : x = [reader[tx.by] EXCEPT !.pc = "hit"]
    OBVIOUS
  <2>3. x \in Readers /\ LET y == reader[tx.by] IN x.at = y.at /\ x.item = y.item /\ x.epoch = y.epoch /\ x.born = y.born
    BY <1>3, <1>6, <2>2 DEF Readers
  <2>4. reader' = [reader EXCEPT ![tx.by] = x] /\ UNCHANGED <<clearer, cleared>>
    BY <1>0, <1>3, <1>6, <2>2 DEF RunTouch, Step, CacheShape
  <2>5. stored' = IF Holds(stored, reader[tx.by].item)
                  THEN Append(Drop(stored, reader[tx.by].item), EntryOf(stored, reader[tx.by].item)) ELSE stored
    BY <1>6 DEF RunTouch
  <2>6. stored' \in Seq(CacheEntries) /\ Bytes(stored') <= maxBytes /\ \A i \in DOMAIN stored' : stored'[i].born >= cleared
    <3>1. CASE Holds(stored, reader[tx.by].item)
      <4>1. stored' = Append(Drop(stored, reader[tx.by].item), EntryOf(stored, reader[tx.by].item))
        BY <2>5, <3>1
      <4> QED BY <3>1, <4>1, TouchedStore
    <3>2. CASE ~Holds(stored, reader[tx.by].item)
      BY <1>4, <2>5, <3>2
    <3> QED BY <3>1, <3>2
  <2> QED BY <1>1, <1>2, <1>6, <2>3, <2>4, <2>6, TransactionRuns
<1>7. CASE tx.do = "put" /\ RunPut(tx.by)
  <2>1. PICK e \in CacheEntries : e = Entry(reader[tx.by].item, reader[tx.by].born) /\ e.born = reader[tx.by].born
    <3>1. reader[tx.by].item \in Item /\ reader[tx.by].born \in Nat
      BY <1>3, <1>7 DEF Readers
    <3>2. /\ Entry(reader[tx.by].item, reader[tx.by].born) \in CacheEntries
          /\ Entry(reader[tx.by].item, reader[tx.by].born).born = reader[tx.by].born
      BY <3>1 DEF Entry, CacheEntries
    <3> QED BY <3>2
  <2>2. e.born >= cleared
    BY <1>0, <1>2, <1>7, <2>1 DEF PutsLate
  <2>3. stored' = Fitting(Append(Drop(stored, reader[tx.by].item), e), maxBytes)
        /\ reader' = [reader EXCEPT ![tx.by] = Idle] /\ UNCHANGED <<clearer, cleared>>
    BY <1>7, <2>1 DEF RunPut
  <2>4. stored' \in Seq(CacheEntries) /\ Bytes(stored') <= maxBytes /\ \A i \in DOMAIN stored' : stored'[i].born >= cleared
    BY <2>2, <2>3, PutStore
  <2> QED BY <1>1, <1>2, <1>7, <2>3, <2>4, IdleReader, TransactionRuns
<1>8. CASE tx.do = "clear" /\ RunClear
  <2>1. /\ stored' = <<>> /\ clearer' = [clearer EXCEPT !.pc = "idle"] /\ cleared' = clears /\ reader' = reader
    BY <1>8 DEF RunClear
  <2>2. /\ queue' \in Seq(Transactions)
        /\ \A i \in DOMAIN queue' : /\ i + 1 \in DOMAIN queue /\ queue'[i] = queue[i + 1]
                                    /\ 1 < i + 1 /\ i + 1 # 1 /\ i \in Nat
    BY <1>0, <1>1, RunQueue DEF CacheShape
  <2>3. \A i \in DOMAIN queue' : queue'[i].do # "clear"
    BY <1>0, <1>2, <1>8, <2>2 DEF QueueOwned
  <2>4. CacheShape'
    <3>1. <<>> \in Seq(CacheEntries) /\ clears <= clears
      BY <1>0 DEF CacheShape
    <3> QED BY <1>0, <1>1, <2>1, <2>2, <3>1 DEF CacheShape
  <2>5. ReadsSound(reader)'
    BY <1>0, <1>1, <2>1 DEF ReadsSound
  <2>6. QueueOwned'
    <3>1. \A i, j \in DOMAIN queue' : i # j => i + 1 # j + 1
      BY <2>2
    <3> QED BY <1>0, <2>1, <2>2, <2>3, <3>1 DEF QueueOwned
  <2>7. PutsLate'
    BY <1>0, <1>1, <1>2, <1>8, <2>1, <2>2, <2>3 DEF PutsLate
  <2>8. ClearedStaysCleared'
    <3>1. Bytes(<<>>) <= maxBytes
      BY BytesOfNothing, BrowserCacheAssumption DEF BrowserCacheAssumption
    <3> QED BY <1>0, <1>1, <2>1, <3>1 DEF ClearedStaysCleared
  <2> QED BY <2>4, <2>5, <2>6, <2>7, <2>8 DEF CacheInv
<1> QED BY <1>2, <1>5, <1>6, <1>7, <1>8 DEF RunTransaction

LEMMA KeepsCacheInv == CacheInv /\ [CacheNext]_cacheVars => CacheInv'
<1> SUFFICES ASSUME CacheInv, [CacheNext]_cacheVars PROVE CacheInv'
  OBVIOUS
<1>1. CASE UNCHANGED cacheVars
  BY <1>1 DEF cacheVars, CacheInv, CacheShape, ReadsSound, QueueOwned, PutsLate, ClearedStaysCleared
<1> QED BY <1>1, BeginReadKeeps, OpenLookupKeeps, TouchKeeps, HitKeeps, LoadedKeeps, OpenPutKeeps,
        BeginClearKeeps, CloseKeeps, OpenClearKeeps, RunTransactionKeeps DEF CacheNext

(* ClearedStaysCleared: with any number of caches, reads and clears of a page, the database
   holds nothing whose load began before a clear that is done, and memory and database keep
   within their limits. *)
THEOREM ClearsAreFinal == Spec => []ClearedStaysCleared
<1>1. Init => CacheInv
  <2> SUFFICES ASSUME CacheInit PROVE CacheInv
    BY DEF Init
  <2>1. <<>> \in Seq(CacheEntries) /\ <<>> \in Seq(Transactions) /\ 0 \in Nat /\ 0 <= 0
    OBVIOUS
  <2>2. CacheShape
    BY <2>1, IdleReader DEF CacheInit, CacheShape
  <2>3. ReadsSound(reader)
    BY IdleReader DEF CacheInit, ReadsSound
  <2>4. QueueOwned /\ PutsLate
    BY DEF CacheInit, QueueOwned, PutsLate
  <2>5. Bytes(<<>>) <= maxBytes /\ Bytes(<<>>) <= maxMemoryBytes
    BY BytesOfNothing, BrowserCacheAssumption DEF BrowserCacheAssumption
  <2>6. ClearedStaysCleared
    BY <2>5 DEF CacheInit, ClearedStaysCleared
  <2> QED BY <2>2, <2>3, <2>4, <2>6 DEF CacheInv
<1>2. CacheInv /\ [Next]_vars => CacheInv'
  <2>1. [Next]_vars => [CacheNext]_cacheVars
    BY DEF Next, vars, IssuerStep, ClientStep, ServiceStep, clientSide
  <2> QED BY <2>1, KeepsCacheInv
<1>3. CacheInv => ClearedStaysCleared
  BY DEF CacheInv
<1> QED BY <1>1, <1>2, <1>3, PTL DEF Spec


(* The rows of a listing in order. *)

\* q is an enumeration of s in ascending order.
Lists(q, s) ==
  /\ q \in Seq(Nat)
  /\ \A i \in 1..Len(q) : q[i] \in s
  /\ \A r \in s : \E i \in 1..Len(q) : q[i] = r
  /\ \A i, j \in 1..Len(q) : i < j => q[i] < q[j]

LEMMA BeforeGrows ==
  ASSUME NEW S \in SUBSET Nat, IsFiniteSet(S), NEW r \in S
  PROVE  /\ Cardinality(RowsBefore(r, S)) \in 0..Cardinality(S) - 1
         /\ \A x \in S : x < r => Cardinality(RowsBefore(x, S)) < Cardinality(RowsBefore(r, S))
<1>1. ASSUME NEW A, NEW B, IsFiniteSet(B), A \subseteq B, A # B
      PROVE  Cardinality(A) < Cardinality(B) /\ Cardinality(A) \in Nat
  BY <1>1, FS_Subset, FS_CardinalityType
<1>2. RowsBefore(r, S) \subseteq S /\ r \notin RowsBefore(r, S)
  BY DEF RowsBefore
<1>3. Cardinality(RowsBefore(r, S)) < Cardinality(S) /\ Cardinality(RowsBefore(r, S)) \in Nat /\ IsFiniteSet(RowsBefore(r, S))
  BY <1>1, <1>2, FS_Subset
<1>4. ASSUME NEW x \in S, x < r
      PROVE  Cardinality(RowsBefore(x, S)) < Cardinality(RowsBefore(r, S))
  <2>1. RowsBefore(x, S) \subseteq RowsBefore(r, S)
    <3>1. \A y \in S : y < x => y < r
      BY <1>4, S \subseteq Nat
    <3> QED BY <3>1 DEF RowsBefore
  <2>2. x \in RowsBefore(r, S) /\ x \notin RowsBefore(x, S)
    BY <1>4 DEF RowsBefore
  <2> QED BY <1>1, <1>3, <2>1, <2>2
<1> QED BY <1>3, <1>4, FS_CardinalityType

LEMMA RowsBeforeDiffer ==
  ASSUME NEW S \in SUBSET Nat, IsFiniteSet(S), NEW x \in S, NEW y \in S,
         Cardinality(RowsBefore(x, S)) = Cardinality(RowsBefore(y, S))
  PROVE  x = y
<1>1. x \in Nat /\ y \in Nat
  OBVIOUS
<1>2. x < y => Cardinality(RowsBefore(x, S)) < Cardinality(RowsBefore(y, S))
  BY BeforeGrows
<1>3. y < x => Cardinality(RowsBefore(y, S)) < Cardinality(RowsBefore(x, S))
  BY BeforeGrows
<1>4. Cardinality(RowsBefore(x, S)) \in Nat
  BY BeforeGrows
<1> QED BY <1>1, <1>2, <1>3, <1>4

\* Every place has a row: no two rows have as many before them.
LEMMA EveryPlaceHasRow ==
  ASSUME NEW S \in SUBSET Nat, IsFiniteSet(S), NEW i \in 1..Cardinality(S)
  PROVE  \E r \in S : Cardinality(RowsBefore(r, S)) = i - 1
<1> DEFINE n == Cardinality(S)
           T == 0..n - 1
           f == [r \in S |-> Cardinality(RowsBefore(r, S))]
<1>1. n \in Nat
  BY FS_CardinalityType
<1>2. f \in [S -> T]
  BY BeforeGrows
<1>3. f \in Injection(S, T)
  <2>1. ASSUME NEW x \in S, NEW y \in S, f[x] = f[y] PROVE x = y
    BY <2>1, RowsBeforeDiffer
  <2> QED BY <1>2, <2>1 DEF Injection, IsInjective
<1>4. IsFiniteSet(T) /\ Cardinality(T) = n
  <2> HIDE DEF n, f
  <2>1. 0 \in Int /\ n - 1 \in Int
    BY <1>1
  <2>2. IsFiniteSet(T) /\ Cardinality(T) = IF 0 > n - 1 THEN 0 ELSE n - 1 - 0 + 1
    BY <2>1, FS_Interval
  <2> QED BY <1>1, <2>2
<1>5. f \in Surjection(S, T)
  BY <1>3, <1>4, FS_Injection
<1>6. i - 1 \in T
  BY <1>1
<1>7. PICK r \in S : f[r] = i - 1
  BY <1>5, <1>6 DEF Surjection
<1> QED BY <1>7

\* The order of a listing has every row, each once.
LEMMA AscendingLists ==
  ASSUME NEW S \in SUBSET Nat, IsFiniteSet(S)
  PROVE  Lists(Ascending(S), S) /\ Len(Ascending(S)) = Cardinality(S)
<1> DEFINE n == Cardinality(S)
           a == Ascending(S)
<1>1. n \in Nat
  BY FS_CardinalityType
<1>2. \A i \in 1..n : a[i] \in S /\ Cardinality(RowsBefore(a[i], S)) = i - 1
  <2>1. SUFFICES ASSUME NEW i \in 1..n PROVE a[i] \in S /\ Cardinality(RowsBefore(a[i], S)) = i - 1
    OBVIOUS
  <2>2. a[i] = CHOOSE r \in S : Cardinality(RowsBefore(r, S)) = i - 1
    BY DEF Ascending
  <2> QED BY <2>2, EveryPlaceHasRow
<1>3. a \in [1..n -> S]
  BY <1>2 DEF Ascending
<1>4. a \in Seq(Nat) /\ Len(a) = n
  <2> HIDE DEF n, a
  <2>1. a \in [1..n -> Nat]
    BY <1>3
  <2> QED BY <1>1, <2>1, IsASeq
<1>5. ASSUME NEW r \in S PROVE \E i \in 1..n : a[i] = r
  <2>1. Cardinality(RowsBefore(r, S)) + 1 \in 1..n
    BY BeforeGrows, <1>1
  <2>2. PICK i \in 1..n : i = Cardinality(RowsBefore(r, S)) + 1
    BY <2>1
  <2>3. Cardinality(RowsBefore(r, S)) \in Nat
    BY BeforeGrows
  <2>4. a[i] \in S /\ Cardinality(RowsBefore(a[i], S)) = Cardinality(RowsBefore(r, S))
    BY <2>2, <2>3, <1>2
  <2>5. a[i] = r
    BY <2>4, RowsBeforeDiffer
  <2> QED BY <2>5
<1>6. ASSUME NEW i \in 1..n, NEW j \in 1..n, i < j PROVE a[i] < a[j]
  <2>1. a[i] \in S /\ a[j] \in S /\ a[i] \in Nat /\ a[j] \in Nat
    BY <1>2
  <2>2. ~(a[j] < a[i]) /\ a[i] # a[j]
    <3>1. a[j] < a[i] => Cardinality(RowsBefore(a[j], S)) < Cardinality(RowsBefore(a[i], S))
      BY <2>1, BeforeGrows
    <3> QED BY <3>1, <1>2, <1>6
  <2> QED BY <2>1, <2>2
<1> QED BY <1>2, <1>4, <1>5, <1>6 DEF Lists

\* There is one such order.
LEMMA OneOrder ==
  ASSUME NEW S \in SUBSET Nat, IsFiniteSet(S), NEW q, Lists(q, S)
  PROVE  q = Ascending(S)
<1> DEFINE n == Len(q)
<1>0. n \in Nat /\ q \in [1..n -> Nat]
  BY LenProperties DEF Lists
<1>1. ASSUME NEW i \in 1..n, NEW j \in 1..n, q[i] = q[j] PROVE i = j
  <2>1. q[i] \in Nat /\ q[j] \in Nat /\ (i < j => q[i] < q[j]) /\ (j < i => q[j] < q[i])
    BY <1>0 DEF Lists
  <2> QED BY <1>1, <2>1
<1>2. ASSUME NEW k \in 0..n
      PROVE  IsFiniteSet({q[i] : i \in 1..k}) /\ Cardinality({q[i] : i \in 1..k}) = k
  <2> DEFINE T == {q[i] : i \in 1..k}
             f == [i \in 1..k |-> q[i]]
  <2>1. k \in Nat /\ 1..k \subseteq 1..n
    BY <1>0
  <2>2. f \in Bijection(1..k, T)
    <3>1. f \in [1..k -> T]
      OBVIOUS
    <3>2. \A a, b \in 1..k : f[a] = f[b] => a = b
      BY <1>1, <2>1
    <3>3. \A t \in T : \E a \in 1..k : f[a] = t
      OBVIOUS
    <3> QED BY <3>1, <3>2, <3>3 DEF Bijection, Injection, IsInjective, Surjection
  <2>3. IsFiniteSet(1..k) /\ Cardinality(1..k) = k
    BY <2>1, FS_Interval
  <2> HIDE DEF T, f
  <2>4. IsFiniteSet(T) /\ Cardinality(T) = Cardinality(1..k)
    BY <2>2, <2>3, FS_Bijection DEF ExistsBijection
  <2> QED BY <2>3, <2>4 DEF T
<1>3. S = {q[i] : i \in 1..n}
  BY DEF Lists
<1>4. Cardinality(S) = n
  BY <1>0, <1>2, <1>3
<1>5. ASSUME NEW i \in 1..n
      PROVE  q[i] \in S /\ Cardinality(RowsBefore(q[i], S)) = i - 1
  <2>1. RowsBefore(q[i], S) = {q[j] : j \in 1..i - 1}
    <3>1. \A j \in 1..n : q[j] < q[i] <=> j < i
      <4> SUFFICES ASSUME NEW j \in 1..n PROVE q[j] < q[i] <=> j < i
        OBVIOUS
      <4>1. q[i] \in Nat /\ q[j] \in Nat /\ (i < j => q[i] < q[j]) /\ (j < i => q[j] < q[i])
        BY <1>0 DEF Lists
      <4> QED BY <4>1
    <3>2. \A j : j \in 1..i - 1 <=> j \in 1..n /\ j < i
      BY <1>0
    <3> QED BY <3>1, <3>2, <1>3 DEF RowsBefore
  <2>2. i - 1 \in 0..n
    BY <1>0
  <2>3. q[i] \in S
    BY DEF Lists
  <2> QED BY <1>2, <2>1, <2>2, <2>3
<1>6. ASSUME NEW i \in 1..n PROVE Ascending(S)[i] = q[i]
  <2>1. Ascending(S)[i] = CHOOSE r \in S : Cardinality(RowsBefore(r, S)) = i - 1
    BY <1>4 DEF Ascending
  <2>2. \A r \in S : Cardinality(RowsBefore(r, S)) = i - 1 => r = q[i]
    BY <1>5, RowsBeforeDiffer
  <2> QED BY <2>1, <2>2, <1>5
<1>7. Ascending(S) = [i \in 1..n |-> Ascending(S)[i]]
  BY <1>4 DEF Ascending
<1> QED BY <1>0, <1>6, <1>7

\* What is listed before what is listed after it.
LEMMA ListsJoin ==
  ASSUME NEW p, NEW A, Lists(p, A), NEW q, NEW B, Lists(q, B),
         \A a \in A, b \in B : a < b
  PROVE  Lists(p \o q, A \cup B)
<1> DEFINE m == Len(p)
           n == Len(q)
           z == p \o q
<1>1. m \in Nat /\ n \in Nat /\ p \in Seq(Nat) /\ q \in Seq(Nat)
  BY DEF Lists
<1>2. /\ z \in Seq(Nat) /\ Len(z) = m + n
      /\ \A i \in 1..m + n : z[i] = IF i <= m THEN p[i] ELSE q[i - m]
  BY <1>1, ConcatProperties
<1>3. \A i \in 1..m + n : (i <= m => i \in 1..m) /\ (i > m => i - m \in 1..n)
  BY <1>1
<1>4. ASSUME NEW i \in 1..m + n PROVE z[i] \in A \cup B
  BY <1>2, <1>3 DEF Lists
<1>5. ASSUME NEW r \in A \cup B PROVE \E i \in 1..m + n : z[i] = r
  <2>1. CASE r \in A
    <3>1. PICK i \in 1..m : p[i] = r
      BY <2>1 DEF Lists
    <3>2. i \in 1..m + n /\ i <= m
      BY <1>1
    <3> QED BY <3>1, <3>2, <1>2
  <2>2. CASE r \in B
    <3>1. PICK i \in 1..n : q[i] = r
      BY <2>2 DEF Lists
    <3>2. i + m \in 1..m + n /\ ~(i + m <= m) /\ (i + m) - m = i
      BY <1>1
    <3> QED BY <3>1, <3>2, <1>2
  <2> QED BY <2>1, <2>2
<1>6. ASSUME NEW i \in 1..m + n, NEW j \in 1..m + n, i < j PROVE z[i] < z[j]
  <2>1. CASE j <= m
    <3>1. i \in 1..m /\ j \in 1..m /\ i <= m
      BY <1>1, <1>6, <2>1
    <3>2. p[i] < p[j]
      BY <3>1, <1>6 DEF Lists
    <3> QED BY <3>1, <3>2, <2>1, <1>2
  <2>2. CASE i > m
    <3>1. i - m \in 1..n /\ j - m \in 1..n /\ i - m < j - m /\ ~(i <= m) /\ ~(j <= m)
      BY <1>1, <1>6, <2>2
    <3>2. q[i - m] < q[j - m]
      BY <3>1 DEF Lists
    <3> QED BY <3>1, <3>2, <1>2
  <2>3. CASE i <= m /\ j > m
    <3>1. i \in 1..m /\ j - m \in 1..n /\ ~(j <= m)
      BY <1>1, <2>3
    <3>2. p[i] \in A /\ q[j - m] \in B
      BY <3>1 DEF Lists
    <3> QED BY <3>1, <3>2, <2>3, <1>2
  <2> QED BY <2>1, <2>2, <2>3, <1>1
<1> QED BY <1>2, <1>4, <1>5, <1>6 DEF Lists

LEMMA ListsNothing == Lists(<<>>, {})
BY DEF Lists

\* The first k rows of a listing are the rows up to the k-th.
LEMMA ListsPrefix ==
  ASSUME NEW q, NEW S, Lists(q, S), NEW k \in 1..Len(q)
  PROVE  Lists(SubSeq(q, 1, k), {r \in S : r <= q[k]}) /\ Len(SubSeq(q, 1, k)) = k
<1> DEFINE z == SubSeq(q, 1, k)
           n == Len(q)
<1>1. n \in Nat /\ q \in Seq(Nat) /\ k \in Nat /\ k <= n
  BY DEF Lists
<1>2. z \in Seq(Nat) /\ Len(z) = k /\ \A i \in 1..k : z[i] = q[i]
  BY <1>1, SubSeqProperties
<1>3. \A i \in 1..k : i \in 1..n
  BY <1>1
<1>4. \A i \in 1..n : q[i] \in Nat
  BY <1>1
<1>5. \A i \in 1..n : q[i] <= q[k] <=> i <= k
  <2> SUFFICES ASSUME NEW i \in 1..n PROVE q[i] <= q[k] <=> i <= k
    OBVIOUS
  <2>1. (i < k => q[i] < q[k]) /\ (k < i => q[k] < q[i])
    BY DEF Lists
  <2> QED BY <2>1, <1>4, <1>1
<1>6. \A i \in 1..k : z[i] \in {r \in S : r <= q[k]}
  BY <1>2, <1>3, <1>5 DEF Lists
<1>7. ASSUME NEW r \in S, r <= q[k] PROVE \E i \in 1..k : z[i] = r
  <2>1. PICK i \in 1..n : q[i] = r
    BY DEF Lists
  <2>2. i <= k
    BY <2>1, <1>5, <1>7
  <2> QED BY <2>1, <2>2, <1>1, <1>2
<1>8. \A i, j \in 1..k : i < j => z[i] < z[j]
  BY <1>2, <1>3 DEF Lists
<1> QED BY <1>2, <1>6, <1>7, <1>8 DEF Lists

LEMMA MinOfTwo ==
  ASSUME NEW a \in Nat, NEW b \in Nat
  PROVE  Min({a, b}) = IF a <= b THEN a ELSE b
<1> DEFINE m == IF a <= b THEN a ELSE b
<1>1. m \in {a, b} /\ \A y \in {a, b} : m <= y
  OBVIOUS
<1>2. \A x \in {a, b} : (\A y \in {a, b} : x <= y) => x = m
  OBVIOUS
<1> QED BY <1>1, <1>2 DEF Min

\* The rows of a page and the part of them that is shown.
Shown(rows) == SubSeq(rows, 1, Min({Limit, Len(rows)}))

\* One row more than a page holds is read; what is shown are the rows after the cursor up
\* to the last one shown, and all of them unless there was one row more.
LEMMA PageOfLater ==
  ASSUME NEW S \in SUBSET Nat, IsFiniteSet(S), NEW c \in Nat,
         NEW rows, rows = FirstRows(Later(c, S)), NEW page, page = Shown(rows)
  PROVE  /\ rows \in Seq(Nat) /\ page \in Seq(Nat)
         /\ Len(rows) > Limit => page # <<>> /\ rows[Limit] = Last(page)
         /\ page # <<>> => /\ Last(page) \in S /\ Last(page) > c
                           /\ Lists(page, {r \in S : r > c /\ r <= Last(page)})
         /\ Len(rows) <= Limit => Lists(page, {r \in S : r > c})
<1> DEFINE T == {r \in S : r > c}
           all == Later(c, S)
           n == Len(all)
           k == Len(rows)
           j == Len(page)
<1>0. Limit \in Nat /\ Limit >= 1
  BY ListingsAssumption DEF ListingsAssumption
<1>1. Lists(all, T)
  <2>1. T \in SUBSET Nat /\ IsFiniteSet(T)
    BY FS_Subset
  <2> QED BY <2>1, AscendingLists DEF Later
<1>2. n \in Nat /\ all \in Seq(Nat)
  BY <1>1 DEF Lists
<1> HIDE DEF all, n, T
<1>3. /\ k = (IF Limit + 1 <= n THEN Limit + 1 ELSE n) /\ rows \in Seq(Nat)
      /\ rows = SubSeq(all, 1, k)
  <2>1. Min({Limit + 1, n}) = IF Limit + 1 <= n THEN Limit + 1 ELSE n
    BY <1>0, <1>2, MinOfTwo
  <2>2. rows = SubSeq(all, 1, IF Limit + 1 <= n THEN Limit + 1 ELSE n)
    BY <2>1 DEF FirstRows, n, all
  <2> DEFINE h == IF Limit + 1 <= n THEN Limit + 1 ELSE n
  <2>3. h \in 1 - 1..n
    BY <1>0, <1>2
  <2>4. SubSeq(all, 1, h) \in Seq(Nat) /\ Len(SubSeq(all, 1, h)) = IF 1 <= h THEN h - 1 + 1 ELSE 0
    BY <1>2, <2>3, SubSeqProperties DEF n
  <2>5. k = h
    BY <2>2, <2>3, <2>4, <1>2
  <2> QED BY <2>2, <2>4, <2>5
<1>4. k \in Nat /\ k <= n /\ \A i \in 1..k : rows[i] = all[i]
  <2>1. k \in Nat /\ k <= n
    BY <1>0, <1>2, <1>3
  <2>2. k \in 1 - 1..n
    BY <2>1, <1>2
  <2>3. \A i \in 1..(k - 1 + 1) : SubSeq(all, 1, k)[i] = all[1 + i - 1]
    BY <1>2, <2>1, SubSeqProperties DEF n
  <2> QED BY <2>1, <2>3, <1>3
<1> HIDE DEF k
<1>5. /\ j = (IF Limit <= k THEN Limit ELSE k) /\ page = SubSeq(rows, 1, j)
  <2>1. Min({Limit, k}) = IF Limit <= k THEN Limit ELSE k
    BY <1>0, <1>4, MinOfTwo
  <2> DEFINE h == IF Limit <= k THEN Limit ELSE k
  <2>2. page = SubSeq(rows, 1, h)
    BY <2>1 DEF Shown, k
  <2>3. h \in 0..k /\ h \in Nat
    BY <1>0, <1>4
  <2>4. Len(SubSeq(rows, 1, h)) = IF 1 <= h THEN h - 1 + 1 ELSE 0
    BY <1>3, <2>3, SubSeqProperties DEF k
  <2> QED BY <2>2, <2>3, <2>4
<1>6. j \in Nat /\ j <= k /\ j <= n
  BY <1>0, <1>2, <1>4, <1>5
<1>7. page = SubSeq(all, 1, j)
  <2>1. \A i \in 1..j : i \in 1..k
    BY <1>4, <1>6
  <2>2. page = [i \in 1..j |-> rows[i]]
    <3>1. rows \in Seq(Nat) /\ Len(rows) = k
      BY <1>3 DEF k
    <3> QED BY <3>1, <1>5, <1>6
  <2>3. SubSeq(all, 1, j) = [i \in 1..j |-> all[i]]
    <3>1. all \in Seq(Nat) /\ Len(all) = n
      BY <1>2 DEF n
    <3> QED BY <3>1, <1>6
  <2> QED BY <2>1, <2>2, <2>3, <1>4
<1>8. CASE j = 0
  <2>1. k = 0 /\ n = 0
    BY <1>8, <1>0, <1>3, <1>4, <1>5 DEF k
  <2>2. page = <<>> /\ T = {}
    <3>1. page = <<>>
      BY <1>7, <1>8, <1>2
    <3>2. T = {}
      BY <2>1, <1>1 DEF Lists, n
    <3> QED BY <3>1, <3>2
  <2>3. Lists(page, T)
    BY <2>2, ListsNothing
  <2> QED BY <2>1, <2>2, <2>3, <1>3, <1>0 DEF T, k
<1>9. CASE j # 0
  <2>1. j \in 1..Len(all)
    BY <1>9, <1>6, <1>2 DEF n
  <2>2. Lists(page, {r \in T : r <= all[j]}) /\ Len(page) = j
    <3> HIDE DEF j
    <3>1. Lists(SubSeq(all, 1, j), {r \in T : r <= all[j]}) /\ Len(SubSeq(all, 1, j)) = j
      BY <1>1, <2>1, ListsPrefix
    <3> QED BY <3>1, <1>7
  <2>3. page \in Seq(Nat) /\ page # <<>>
    BY <2>2, <1>9 DEF Lists
  <2>4. Last(page) = all[j]
    <3>1. page[j] = all[j]
      BY <1>7, <2>1, <1>2 DEF n
    <3> QED BY <3>1, <2>2 DEF Last
  <2>5. all[j] \in T
    BY <1>1, <2>1 DEF Lists
  <2>6. Lists(page, {r \in S : r > c /\ r <= Last(page)})
    <3>1. {r \in T : r <= all[j]} = {r \in S : r > c /\ r <= Last(page)}
      BY <2>4 DEF T
    <3> QED BY <3>1, <2>2
  <2>7. ASSUME k > Limit PROVE rows[Limit] = Last(page)
    <3>1. j = Limit /\ Limit \in 1..k
      BY <2>7, <1>0, <1>4, <1>5
    <3> QED BY <3>1, <1>4, <2>4
  <2>8. ASSUME k <= Limit PROVE Lists(page, T)
    <3>1. j = n
      BY <2>8, <1>0, <1>2, <1>3, <1>5 DEF k
    <3>2. page = all
      <4>1. all \in Seq(Nat) /\ Len(all) = n
        BY <1>2 DEF n
      <4> QED BY <4>1, <3>1, <1>7
    <3> QED BY <3>2, <1>1
  <2> QED BY <2>3, <2>5, <2>4, <2>6, <2>7, <2>8, <1>3 DEF k, T
<1> QED BY <1>6, <1>8, <1>9

(* Listings: what a traversal has read so far. *)

Traversals ==
  [pc : {"idle", "sweep", "version", "expiry", "rows", "recheck", "more", "done"},
   kind : ControlKind \cup {"none", "refs", "events"},
   cursor : Nat, version : Nat, tries : Nat, asOf : Nat, expires : Nat,
   page : Seq(Nat), items : Seq(Nat), first : SUBSET Row, late : SUBSET Row]

RowStates == {"absent", "new", "pending", "accepted", "revoked", "expired", "member", "gone"}

ListingShape ==
  /\ balances \in SUBSET Row /\ events \in Seq(Row)
  /\ directory \in [Row -> [state : RowStates, expires : Nat]]
  /\ snapshot \in Nat /\ clock \in 0..MaxListingClock
  /\ traversal \in [Traversal -> Traversals]

\* Root balances: the rows up to the cursor are those of the revision that is reported;
\* rows that are read but not yet checked are those of that revision or of a later one.
BalancesKept(t) ==
  t.kind = "refs" =>
    /\ t.version <= Len(events)
    /\ t.pc # "done" => Lists(t.items, {r \in BalancesAt(t.version) : r <= t.cursor})
    /\ t.pc = "done" => Lists(t.items, BalancesAt(t.version))
    /\ t.pc = "recheck" =>
         \E n \in t.version..Len(events) : t.page = FirstRows(Later(t.cursor, BalancesAt(n)))

\* Root events: the wanted events up to the cursor.
EventsKept(t) ==
  t.kind = "events" =>
    /\ t.version <= Len(events) /\ t.cursor <= Len(events)
    /\ Lists(t.items, {n \in 1..t.cursor : Wanted(events[n])})

\* The times at which a statement of the traversal gives the rows of its first page.
InWindow(t, u) ==
  /\ t.asOf <= u
  /\ t.kind = "platform" => u = t.asOf
  /\ t.kind = "people" => IF t.pc = "expiry" THEN u = t.asOf ELSE u < t.expires

Present(s) == \A r \in s : directory[r].state # "absent"
Listed(t) == {t.items[i] : i \in DOMAIN t.items}

\* The first page has been begun: the snapshot and the rows that matched are known.
Opened(t) == t.pc \in {"expiry", "rows", "recheck", "more", "done"} \/ t.cursor # 0

\* While the snapshot is that of the first page, a statement gives the rows that matched
\* then, but for rows that came without an advance.
SnapshotKept(t) ==
  t.version = snapshot =>
    \A u \in 0..MaxListingClock : InWindow(t, u) => Matches(t.kind, u) \ t.late = t.first

ItemsKept(t) ==
  /\ Lists(t.items, Listed(t))
  /\ Listed(t) \subseteq Row /\ Present(Listed(t))
  /\ \A r \in Listed(t) : r <= t.cursor
  /\ Listed(t) \ t.late = IF t.pc = "done" THEN t.first ELSE {r \in t.first : r <= t.cursor}

PageKept(t) ==
  t.pc = "recheck" =>
    \E M \in SUBSET Row :
      /\ t.page = FirstRows(Later(t.cursor, M)) /\ Present(M)
      /\ t.version = snapshot => M \ t.late = t.first

ControlKept(t) ==
  t.kind \in ControlKind =>
    /\ t.version <= snapshot /\ t.asOf <= clock
    /\ t.pc = "more" => t.cursor # 0
    /\ t.kind = "people" /\ t.pc \in {"rows", "recheck"} => t.asOf < t.expires
    /\ ~Opened(t) => t.items = <<>>
    /\ Opened(t) => Present(t.first) /\ SnapshotKept(t) /\ ItemsKept(t) /\ PageKept(t)

TraversalKept(t) == BalancesKept(t) /\ EventsKept(t) /\ ControlKept(t)

ListingInv == ListingShape /\ \A q \in Traversal : TraversalKept(traversal[q])

LEMMA RestTraversal == Rest \in Traversals /\ Rest.kind = "none" /\ Rest.pc = "idle"
BY ListingsAssumption, EmptySeq DEF ListingsAssumption, Rest, NoExpiry, Traversals

\* A nonempty set of numbers has a least one.
LEMMA LeastNumber ==
  ASSUME NEW S \in SUBSET Nat, S # {}
  PROVE  Min(S) \in S /\ \A y \in S : Min(S) <= y
<1>1. \E x \in S : \A y \in S : ~(<<y, x>> \in OpToRel(<, Nat))
  BY NatLessThanWellFounded, WFMin
<1>2. \E x \in S : \A y \in S : x <= y
  <2>1. PICK x \in S : \A y \in S : ~(<<y, x>> \in OpToRel(<, Nat))
    BY <1>1
  <2>2. ASSUME NEW y \in S PROVE x <= y
    <3>1. x \in Nat /\ y \in Nat
      OBVIOUS
    <3>2. ~(y < x)
      BY <2>1, <3>1 DEF OpToRel
    <3> QED BY <3>1, <3>2
  <2> QED BY <2>2
<1> QED BY <1>2 DEF Min

LEMMA RowsAreFinite ==
  ASSUME NEW S \in SUBSET Row
  PROVE  S \in SUBSET Nat /\ IsFiniteSet(S)
BY ListingsAssumption, FS_Subset DEF ListingsAssumption

LEMMA MatchesAreRows ==
  ASSUME NEW k \in ControlKind, NEW u
  PROVE  Matches(k, u) \in SUBSET Row /\ (ListingShape => Present(Matches(k, u)))
<1>1. \A r \in Row : directory[r].state = "absent" => Projected(r, u) = "absent"
  BY DEF Projected
<1>2. /\ AppRows \in SUBSET Row /\ AccountRows \in SUBSET Row /\ PeopleRows(u) \in SUBSET Row
      /\ PlatformInvitationRows(u) \in SUBSET Row /\ AppInvitationRows \in SUBSET Row
      /\ AppAuditRows \in SUBSET Row /\ PlatformAuditRows \in SUBSET Row
  BY DEF AppRows, AccountRows, PeopleRows, PlatformInvitationRows, AppInvitationRows,
         AppAuditRows, PlatformAuditRows
<1>3. /\ Present(AppRows) /\ Present(AccountRows) /\ Present(PeopleRows(u))
      /\ Present(PlatformInvitationRows(u)) /\ Present(AppInvitationRows)
      /\ Present(AppAuditRows) /\ Present(PlatformAuditRows)
  BY <1>1 DEF Present, AppRows, AccountRows, PeopleRows, PlatformInvitationRows, AppInvitationRows,
         AppAuditRows, PlatformAuditRows
<1>4. \/ Matches(k, u) = AppRows \/ Matches(k, u) = AccountRows \/ Matches(k, u) = PeopleRows(u)
      \/ Matches(k, u) = PlatformInvitationRows(u) \/ Matches(k, u) = AppInvitationRows
      \/ Matches(k, u) = AppAuditRows \/ Matches(k, u) = PlatformAuditRows
  BY DEF Matches, ControlKind
<1> QED BY <1>2, <1>3, <1>4

\* Only people and platform invitations depend on the time.
LEMMA MatchesAnyTime ==
  ASSUME NEW k \in ControlKind \ {"people", "platform"}, NEW u, NEW v
  PROVE  Matches(k, u) = Matches(k, v)
BY DEF Matches, ControlKind

(* The balances of a revision are settled. *)

LEMMA BalancesNow ==
  ASSUME ListingShape
  PROVE  BalancesAt(Len(events)) = balances
<1>1. Len(events) \in Nat
  BY DEF ListingShape
<1>2. \A r : {i \in Len(events) + 1..Len(events) : events[i] = r} = {}
  BY <1>1
<1>3. Cardinality({}) = 0
  BY FS_EmptySet
<1>4. \A r : Cardinality({i \in Len(events) + 1..Len(events) : events[i] = r}) % 2 = 0
  BY <1>2, <1>3
<1> QED BY <1>4 DEF BalancesAt, ListingShape

LEMMA BalancesAreRows == \A n : BalancesAt(n) \in SUBSET Row
BY DEF BalancesAt

LEMMA BalancesStay ==
  ASSUME ListingShape, NEW r \in Row, UpdateRoot(r), NEW n \in 0..Len(events)
  PROVE  BalancesAt(n)' = BalancesAt(n)
<1> DEFINE m == Len(events)
           at(x) == {i \in n + 1..m : events[i] = x}
           at1(x) == {i \in n + 1..Len(events') : events'[i] = x}
<1>0. m \in Nat /\ n \in Nat /\ n <= m /\ events \in Seq(Row)
  BY DEF ListingShape
<1>1. /\ Len(events') = m + 1 /\ events'[m + 1] = r
      /\ \A i \in 1..m : events'[i] = events[i]
  BY <1>0, AppendProperties DEF UpdateRoot
<1>2. \A i : i \in n + 1..m + 1 <=> i \in n + 1..m \/ i = m + 1
  BY <1>0
<1>3. \A i \in n + 1..m : i \in 1..m
  BY <1>0
<1>4. \A x : IsFiniteSet(at(x)) /\ Cardinality(at(x)) \in Nat
  <2>1. IsFiniteSet(n + 1..m)
    BY <1>0, FS_Interval
  <2> QED BY <2>1, FS_Subset, FS_CardinalityType
<1>5. ASSUME NEW x, x # r PROVE at1(x) = at(x)
  <2>1. at1(x) = {i \in n + 1..m + 1 : events'[i] = x}
    BY <1>1
  <2> QED BY <2>1, <1>1, <1>2, <1>3, <1>5
<1>6. at1(r) = at(r) \cup {m + 1} /\ m + 1 \notin at(r)
  <2>1. at1(r) = {i \in n + 1..m + 1 : events'[i] = r}
    BY <1>1
  <2>2. m + 1 \notin n + 1..m
    BY <1>0
  <2> QED BY <2>1, <2>2, <1>1, <1>2, <1>3
<1>7. Cardinality(at1(r)) = Cardinality(at(r)) + 1
  <2>1. PICK A, B : A = at(r) /\ B = at1(r)
    OBVIOUS
  <2>2. IsFiniteSet(A) /\ B = A \cup {m + 1} /\ m + 1 \notin A
    BY <2>1, <1>4, <1>6
  <2>3. Cardinality(B) = Cardinality(A) + 1
    BY <2>2, FS_AddElement
  <2> QED BY <2>1, <2>3
<1>8. \A x \in Row : (x \in balances') = (x \in balances) <=> x # r
  BY DEF UpdateRoot
<1> DEFINE even(k) == k % 2 = 0
<1>10. ASSUME NEW x \in Row
       PROVE  ((x \in balances') = even(Cardinality(at1(x)))) <=> ((x \in balances) = even(Cardinality(at(x))))
  <2>1. PICK k, k1 : k = Cardinality(at(x)) /\ k1 = Cardinality(at1(x))
    OBVIOUS
  <2>2. CASE x = r
    <3>1. k \in Nat /\ k1 = k + 1
      BY <2>1, <2>2, <1>4, <1>7
    <3>2. (k % 2 = 0) <=> ~(k1 % 2 = 0)
      BY <3>1
    <3>3. (x \in balances') <=> ~(x \in balances)
      BY <2>2, <1>8
    <3>4. ((x \in balances') = (k1 % 2 = 0)) <=> ((x \in balances) = (k % 2 = 0))
      BY <3>2, <3>3
    <3> QED BY <3>4, <2>1
  <2>3. CASE x # r
    <3>1. k1 = k
      BY <2>1, <2>3, <1>5
    <3>2. (x \in balances') <=> (x \in balances)
      BY <2>3, <1>8
    <3>4. ((x \in balances') = (k1 % 2 = 0)) <=> ((x \in balances) = (k % 2 = 0))
      BY <3>1, <3>2
    <3> QED BY <3>4, <2>1
  <2> QED BY <2>2, <2>3
<1>11. BalancesAt(n) = {x \in Row : (x \in balances) = even(Cardinality(at(x)))}
  BY DEF BalancesAt
<1>12. BalancesAt(n)' = {x \in Row : (x \in balances') = even(Cardinality(at1(x)))}
  BY DEF BalancesAt
<1> QED BY <1>10, <1>11, <1>12

(* What the writers leave of it. *)

LEMMA MatchesSame ==
  ASSUME UNCHANGED directory, NEW k, NEW u
  PROVE  Matches(k, u)' = Matches(k, u)
BY DEF Matches, AppRows, AccountRows, PeopleRows, PlatformInvitationRows, AppInvitationRows,
       AppAuditRows, PlatformAuditRows, Projected

LEMMA ControlKeptSame ==
  ASSUME ListingShape, ListingShape', NEW t \in Traversals, ControlKept(t),
         UNCHANGED <<directory, snapshot>>, clock <= clock'
  PROVE  ControlKept(t)'
<1>1. SUFFICES ASSUME t.kind \in ControlKind PROVE ControlKept(t)'
  BY DEF ControlKept
<1>2. t.asOf \in Nat /\ clock \in Nat /\ clock' \in Nat
  BY DEF Traversals, ListingShape
<1>3. Present(t.first) => Present(t.first)'
  BY DEF Present
<1>4. SnapshotKept(t) => SnapshotKept(t)'
  BY MatchesSame DEF SnapshotKept, InWindow
<1>5. ItemsKept(t) => ItemsKept(t)'
  BY DEF ItemsKept, Present, Listed, Lists
<1>6. PageKept(t) => PageKept(t)'
  BY DEF PageKept, Present
<1> QED BY <1>1, <1>2, <1>3, <1>4, <1>5, <1>6 DEF ControlKept, Opened

\* A write that advances the snapshot ends the claim about what a statement would give.
LEMMA ControlKeptAnnounced ==
  ASSUME ListingShape, NEW t \in Traversals, ControlKept(t),
         snapshot' = snapshot + 1, UNCHANGED clock,
         \A r \in Row : directory[r].state # "absent" => directory'[r].state # "absent"
  PROVE  ControlKept(t)'
<1>1. SUFFICES ASSUME t.kind \in ControlKind PROVE ControlKept(t)'
  BY DEF ControlKept
<1>2. t.version \in Nat /\ snapshot \in Nat /\ t.version <= snapshot /\ t.first \subseteq Row
  BY <1>1 DEF Traversals, ListingShape, ControlKept
<1>3. t.version <= snapshot' /\ t.version # snapshot'
  BY <1>2
<1>4. ASSUME NEW S \in SUBSET Row, Present(S) PROVE Present(S)'
  BY <1>4 DEF Present
<1>5. SnapshotKept(t)'
  BY <1>3 DEF SnapshotKept
<1>6. ItemsKept(t) => ItemsKept(t)'
  <2>1. SUFFICES ASSUME ItemsKept(t) PROVE ItemsKept(t)'
    OBVIOUS
  <2>2. Present(Listed(t))'
    BY <2>1, <1>4 DEF ItemsKept, Listed, Present
  <2> QED BY <2>1, <2>2 DEF ItemsKept, Listed, Lists
<1>7. PageKept(t) => PageKept(t)'
  <2>1. SUFFICES ASSUME PageKept(t), t.pc = "recheck" PROVE PageKept(t)'
    BY DEF PageKept
  <2>2. PICK M \in SUBSET Row : t.page = FirstRows(Later(t.cursor, M)) /\ Present(M)
    BY <2>1 DEF PageKept
  <2>3. Present(M)'
    BY <2>2, <1>4
  <2> QED BY <2>2, <2>3, <1>3 DEF PageKept
<1> QED BY <1>1, <1>2, <1>3, <1>4, <1>5, <1>6, <1>7 DEF ControlKept, Opened

\* A row that comes unannounced was in no page, and counts as late.
LEMMA ControlKeptLate ==
  ASSUME ListingShape, NEW t \in Traversals, ControlKept(t), NEW r \in Row, AddUnannounced(r),
         NEW t1 \in Traversals, t1 = [t EXCEPT !.late = @ \cup {r}]
  PROVE  ControlKept(t1)'
<1>1. SUFFICES ASSUME t.kind \in ControlKind PROVE ControlKept(t1)'
  BY DEF ControlKept, Traversals
<1>2. /\ t1.late = t.late \cup {r} /\ t1.pc = t.pc /\ t1.kind = t.kind /\ t1.cursor = t.cursor
      /\ t1.version = t.version /\ t1.asOf = t.asOf /\ t1.expires = t.expires
      /\ t1.page = t.page /\ t1.items = t.items /\ t1.first = t.first
  BY DEF Traversals
<1>3. /\ UNCHANGED <<snapshot, clock>> /\ directory[r].state = "absent"
      /\ directory'[r].state = "new"
      /\ \A x \in Row : x # r => directory'[x] = directory[x]
  BY DEF AddUnannounced, ListingShape
<1>4. ASSUME NEW S \in SUBSET Row, Present(S) PROVE Present(S)' /\ r \notin S
  BY <1>3, <1>4 DEF Present
<1>5. ASSUME NEW k \in ControlKind, NEW u \in Nat
      PROVE  r \notin Matches(k, u) /\ Matches(k, u)' \ {r} = Matches(k, u)
  <2>1. r \notin Matches(k, u)
    BY MatchesAreRows, <1>3 DEF Present
  <2>2. \A x \in Row : x # r => Projected(x, u)' = Projected(x, u)
    BY <1>3 DEF Projected
  <2>3. \A x \in Row \ {r} : x \in Matches(k, u)' <=> x \in Matches(k, u)
    BY <1>3, <2>2 DEF Matches, ControlKind, AppRows, AccountRows, PeopleRows, PlatformInvitationRows,
       AppInvitationRows, AppAuditRows, PlatformAuditRows
  <2>4. Matches(k, u) \in SUBSET Row /\ Matches(k, u)' \in SUBSET Row
    BY DEF Matches, ControlKind, AppRows, AccountRows, PeopleRows, PlatformInvitationRows,
       AppInvitationRows, AppAuditRows, PlatformAuditRows
  <2> QED BY <2>1, <2>3, <2>4
<1>6. CASE ~Opened(t)
  BY <1>1, <1>2, <1>3, <1>6 DEF ControlKept, Opened
<1>7. CASE Opened(t)
  <2>1. Present(t.first) /\ SnapshotKept(t) /\ ItemsKept(t) /\ PageKept(t) /\ t.first \in SUBSET Row
    BY <1>1, <1>7 DEF ControlKept, Traversals
  <2>2. Present(t1.first)' /\ r \notin t.first
    BY <2>1, <1>2, <1>4 DEF Present
  <2>3. SnapshotKept(t1)'
    <3>1. SUFFICES ASSUME t.version = snapshot, NEW u \in 0..MaxListingClock, InWindow(t, u)
                   PROVE  Matches(t.kind, u)' \ t1.late = t.first
      BY <1>2, <1>3 DEF SnapshotKept, InWindow
    <3>2. Matches(t.kind, u) \ t.late = t.first /\ u \in Nat
      BY <2>1, <3>1 DEF SnapshotKept
    <3>3. r \notin Matches(t.kind, u) /\ Matches(t.kind, u)' \ {r} = Matches(t.kind, u)
      BY <1>1, <1>5, <3>2
    <3> QED BY <3>2, <3>3, <1>2
  <2>4. ItemsKept(t1)'
    <3>1. Listed(t1) = Listed(t) /\ Listed(t) \in SUBSET Row /\ Present(Listed(t))
      BY <2>1, <1>2 DEF Listed, ItemsKept
    <3>2. PICK L \in SUBSET Row : L = Listed(t)
      BY <3>1
    <3>3. Present(L)' /\ r \notin L
      BY <3>1, <3>2, <1>4
    <3>4. Listed(t1)' = L
      BY <3>1, <3>2 DEF Listed
    <3>5. Present(Listed(t1))'
      BY <3>3, <3>4 DEF Present
    <3>6. L \ t1.late = IF t1.pc = "done" THEN t1.first ELSE {x \in t1.first : x <= t1.cursor}
      BY <2>1, <3>2, <3>3, <1>2 DEF ItemsKept
    <3>7. Lists(t1.items, L) /\ \A x \in L : x <= t1.cursor
      BY <2>1, <3>2, <1>2 DEF ItemsKept
    <3>8. Lists(t1.items, Listed(t1))'
      BY <3>4, <3>7 DEF Lists
    <3> QED BY <3>4, <3>5, <3>6, <3>7, <3>8 DEF ItemsKept
  <2>5. PageKept(t1)'
    <3>1. SUFFICES ASSUME t.pc = "recheck" PROVE PageKept(t1)'
      BY <1>2 DEF PageKept
    <3>2. PICK M \in SUBSET Row : /\ t.page = FirstRows(Later(t.cursor, M)) /\ Present(M)
                                  /\ t.version = snapshot => M \ t.late = t.first
      BY <2>1, <3>1 DEF PageKept
    <3>3. Present(M)' /\ r \notin M
      BY <3>2, <1>4
    <3>4. t1.version = snapshot' => M \ t1.late = t1.first
      BY <3>2, <3>3, <1>2, <1>3
    <3> QED BY <3>2, <3>3, <3>4, <1>2 DEF PageKept
  <2> QED BY <2>2, <2>3, <2>4, <2>5, <1>1, <1>2, <1>3, <1>7 DEF ControlKept, Opened
<1> QED BY <1>6, <1>7

LEMMA RootsKeptSame ==
  ASSUME UNCHANGED <<balances, events>>, NEW t \in Traversals
  PROVE  /\ BalancesKept(t) => BalancesKept(t)'
         /\ EventsKept(t) => EventsKept(t)'
<1>1. \A n : BalancesAt(n)' = BalancesAt(n)
  BY DEF BalancesAt
<1>2. ASSUME BalancesKept(t), t.kind = "refs" PROVE BalancesKept(t)'
  <2>1. PICK B : B = BalancesAt(t.version)
    OBVIOUS
  <2>2. BalancesAt(t.version)' = B
    BY <1>1, <2>1
  <2>3. t.pc = "recheck" =>
          \E n \in t.version..Len(events') : t.page = FirstRows(Later(t.cursor, BalancesAt(n)'))
    BY <1>1, <1>2 DEF BalancesKept
  <2>4. /\ t.version <= Len(events')
        /\ t.pc # "done" => Lists(t.items, {r \in B : r <= t.cursor})
        /\ t.pc = "done" => Lists(t.items, B)
    BY <1>2, <2>1 DEF BalancesKept
  <2> QED BY <2>2, <2>3, <2>4 DEF BalancesKept, Lists
<1>3. EventsKept(t) => EventsKept(t)'
  BY DEF EventsKept, Lists
<1> QED BY <1>2, <1>3 DEF BalancesKept

LEMMA RootsKeptUpdated ==
  ASSUME ListingShape, NEW r \in Row, UpdateRoot(r), NEW t \in Traversals
  PROVE  /\ BalancesKept(t) => BalancesKept(t)'
         /\ EventsKept(t) => EventsKept(t)'
<1>0. /\ Len(events) \in Nat /\ Len(events') = Len(events) + 1
      /\ \A i \in 1..Len(events) : events'[i] = events[i]
  BY AppendProperties DEF ListingShape, UpdateRoot
<1>1. \A n \in 0..Len(events) : BalancesAt(n)' = BalancesAt(n)
  BY BalancesStay
<1>t. t.version \in Nat /\ t.cursor \in Nat
  BY DEF Traversals
<1>2. ASSUME BalancesKept(t), t.kind = "refs" PROVE BalancesKept(t)'
  <2>0. t.version \in 0..Len(events)
    BY <1>0, <1>t, <1>2 DEF BalancesKept
  <2>1. PICK B : B = BalancesAt(t.version)
    OBVIOUS
  <2>2. BalancesAt(t.version)' = B
    BY <1>1, <2>0, <2>1
  <2>3. ASSUME t.pc = "recheck"
        PROVE  \E n \in t.version..Len(events') : t.page = FirstRows(Later(t.cursor, BalancesAt(n)'))
    <3>1. PICK n \in t.version..Len(events) : t.page = FirstRows(Later(t.cursor, BalancesAt(n)))
      BY <1>2, <2>3 DEF BalancesKept
    <3>2. n \in 0..Len(events) /\ n \in t.version..Len(events')
      BY <1>0, <1>t
    <3> QED BY <3>1, <3>2, <1>1
  <2>4. /\ t.version <= Len(events')
        /\ t.pc # "done" => Lists(t.items, {x \in B : x <= t.cursor})
        /\ t.pc = "done" => Lists(t.items, B)
    BY <1>0, <1>t, <1>2, <2>1 DEF BalancesKept
  <2> QED BY <2>2, <2>3, <2>4 DEF BalancesKept, Lists
<1>3. ASSUME EventsKept(t), t.kind = "events" PROVE EventsKept(t)'
  <2>1. t.version <= Len(events') /\ t.cursor <= Len(events') /\ t.cursor <= Len(events)
    BY <1>0, <1>t, <1>3 DEF EventsKept
  <2>2. \A n \in 1..t.cursor : events'[n] = events[n]
    BY <1>0, <1>t, <2>1
  <2>3. PICK S : S = {n \in 1..t.cursor : Wanted(events[n])}
    OBVIOUS
  <2>4. S = {n \in 1..t.cursor : Wanted(events'[n])}
    BY <2>2, <2>3
  <2>5. Lists(t.items, S)
    BY <1>3, <2>3 DEF EventsKept
  <2> QED BY <2>1, <2>4, <2>5 DEF EventsKept, Lists, Wanted
<1> QED BY <1>2, <1>3 DEF BalancesKept, EventsKept

LEMMA TraversalKeptOf ==
  ASSUME NEW q, NEW t, t = traversal'[q], TraversalKept(t)'
  PROVE  TraversalKept(traversal[q])'
<1>1. BalancesKept(traversal[q])'
  BY DEF TraversalKept, BalancesKept
<1>2. EventsKept(traversal[q])'
  BY DEF TraversalKept, EventsKept
<1>3. ControlKept(traversal[q])'
  BY DEF TraversalKept, ControlKept, Opened, SnapshotKept, ItemsKept, PageKept, InWindow, Listed
<1> QED BY <1>1, <1>2, <1>3 DEF TraversalKept

\* A step that leaves the traversals.
LEMMA TraversalsStay ==
  ASSUME ListingInv, ListingShape', UNCHANGED traversal,
         \A t \in Traversals : TraversalKept(t) => TraversalKept(t)'
  PROVE  ListingInv'
<1>1. SUFFICES ASSUME NEW q \in Traversal PROVE TraversalKept(traversal[q])'
  BY DEF ListingInv
<1>2. PICK t \in Traversals : t = traversal[q]
  BY DEF ListingInv, ListingShape
<1>3. TraversalKept(t)
  BY <1>2 DEF ListingInv
<1>4. TraversalKept(t)'
  BY <1>3
<1> QED BY <1>2, <1>4, TraversalKeptOf

\* A step of one traversal.
LEMMA TraversalMoves ==
  ASSUME ListingInv, NEW q \in Traversal, NEW t1 \in Traversals, Move(q, t1),
         UNCHANGED <<balances, events, directory, snapshot, clock>>, TraversalKept(t1)
  PROVE  ListingInv'
<1>1. ListingShape'
  BY DEF ListingInv, ListingShape, Move
<1>2. SUFFICES ASSUME NEW p \in Traversal PROVE TraversalKept(traversal[p])'
  BY <1>1 DEF ListingInv
<1>3. traversal'[p] \in Traversals /\ (traversal'[p] = traversal[p] \/ traversal'[p] = t1)
  BY <1>1 DEF ListingInv, ListingShape, Move
<1>4. PICK t \in Traversals : t = traversal'[p]
  BY <1>3
<1>5. TraversalKept(t)
  BY <1>3, <1>4 DEF ListingInv
<1>6. clock <= clock'
  BY DEF ListingInv, ListingShape
<1>7. TraversalKept(t)'
  BY <1>1, <1>5, <1>6, RootsKeptSame, ControlKeptSame DEF TraversalKept, ListingInv
<1> QED BY <1>4, <1>7, TraversalKeptOf

LEMMA ListsRange ==
  ASSUME NEW q, NEW S, Lists(q, S)
  PROVE  S = {q[i] : i \in DOMAIN q}
<1>1. DOMAIN q = 1..Len(q)
  BY LenProperties DEF Lists
<1> QED BY <1>1 DEF Lists

\* t1 is t with a page of the rows M after what it lists, L.
HasPage(t1, t, L, M) ==
  /\ t1 \in Traversals
  /\ t1.kind = t.kind /\ t1.version = t.version /\ t1.asOf = t.asOf
  /\ t1.expires = t.expires /\ t1.first = t.first /\ t1.late = t.late
  /\ t1.pc \in {"more", "done"} /\ t.cursor <= t1.cursor
  /\ \E P \in SUBSET M :
       /\ Lists(t1.items, L \cup P)
       /\ \A r \in L \cup P : r <= t1.cursor
       /\ t1.pc = "done" => P = {r \in M : r > t.cursor}
       /\ t1.pc = "more" => /\ P = {r \in M : r > t.cursor /\ r <= t1.cursor}
                            /\ t.cursor < t1.cursor

\* A page joins what is listed up to the cursor.
LEMMA PageJoins ==
  ASSUME NEW q, NEW t \in Traversals, t = traversal[q], NEW M \in SUBSET Row,
         t.page = FirstRows(Later(t.cursor, M)),
         NEW L, Lists(t.items, L), \A r \in L : r <= t.cursor,
         NEW t1, t1 = Joined(q)
  PROVE  HasPage(t1, t, L, M)
<1>c. PICK c \in Nat : c = t.cursor
  BY DEF Traversals
<1>1. PICK rows, page : rows = t.page /\ page = Shown(rows)
  OBVIOUS
<1>2. /\ t.items \in Seq(Nat) /\ rows \in Seq(Nat) /\ c \in Nat /\ Len(rows) \in Nat
      /\ Limit \in Nat
  BY <1>1, ListingsAssumption DEF Traversals, ListingsAssumption
<1>3. M \in SUBSET Nat /\ IsFiniteSet(M)
  BY RowsAreFinite
<1>4. /\ page \in Seq(Nat)
      /\ Len(rows) > Limit => page # <<>> /\ rows[Limit] = Last(page)
      /\ page # <<>> => /\ Last(page) \in M /\ Last(page) > c
                        /\ Lists(page, {r \in M : r > c /\ r <= Last(page)})
      /\ Len(rows) <= Limit => Lists(page, {r \in M : r > c})
  <2>1. rows = FirstRows(Later(c, M))
    BY <1>1, <1>c
  <2> QED BY <1>1, <1>3, <2>1, PageOfLater
<1>5. t1 = [t EXCEPT !.pc = IF Len(rows) > Limit THEN "more" ELSE "done",
                     !.items = @ \o page, !.page = <<>>,
                     !.cursor = IF page = <<>> THEN @ ELSE Last(page)]
  BY <1>1 DEF Joined, Shown
<1>6. /\ t1.pc = (IF Len(rows) > Limit THEN "more" ELSE "done") /\ t1.items = t.items \o page
      /\ t1.cursor = (IF page = <<>> THEN c ELSE Last(page)) /\ t1.page = <<>>
      /\ t1.kind = t.kind /\ t1.version = t.version /\ t1.asOf = t.asOf
      /\ t1.expires = t.expires /\ t1.first = t.first /\ t1.late = t.late /\ t1.tries = t.tries
  BY <1>5, <1>c DEF Traversals
<1>7. t.items \o page \in Seq(Nat) /\ t1.cursor \in Nat /\ c <= t1.cursor
  <2>1. t.items \o page \in Seq(Nat)
    BY <1>2, <1>4, ConcatProperties
  <2>2. page # <<>> => Last(page) \in Nat
    BY <1>3, <1>4
  <2> QED BY <2>1, <2>2, <1>4, <1>6
<1>8. t1 \in Traversals
  <2>1. PICK pc, i, n : /\ pc = (IF Len(rows) > Limit THEN "more" ELSE "done")
                        /\ i = t.items \o page /\ n = IF page = <<>> THEN c ELSE Last(page)
    OBVIOUS
  <2>2. pc \in {"more", "done"} /\ i \in Seq(Nat) /\ n \in Nat
    BY <2>1, <1>6, <1>7
  <2>3. t1 = [t EXCEPT !.pc = pc, !.items = i, !.page = <<>>, !.cursor = n]
    BY <1>5, <1>c, <2>1
  <2>4. <<>> \in Seq(Nat)
    BY EmptySeq
  <2> QED BY <2>2, <2>3, <2>4 DEF Traversals
<1>9. CASE Len(rows) > Limit
  <2> DEFINE P == {r \in M : r > c /\ r <= t1.cursor}
  <2>1. t1.cursor = Last(page) /\ t1.pc = "more" /\ c < t1.cursor /\ Lists(page, P)
    BY <1>4, <1>6, <1>9
  <2>2. \A a \in L, b \in P : a < b
    <3>1. L \subseteq Nat
      BY DEF Lists
    <3> QED BY <3>1, <1>c, <1>3
  <2>3. Lists(t1.items, L \cup P)
    <3> HIDE DEF P
    <3> QED BY <1>6, <2>1, <2>2, ListsJoin
  <2>4. \A r \in L \cup P : r <= t1.cursor
    <3>1. L \subseteq Nat
      BY DEF Lists
    <3> QED BY <3>1, <1>c, <1>7
  <2> QED BY <1>c, <1>6, <1>7, <1>8, <2>1, <2>3, <2>4 DEF HasPage
<1>10. CASE Len(rows) <= Limit
  <2> DEFINE P == {r \in M : r > c}
  <2>1. t1.pc = "done" /\ Lists(page, P)
    BY <1>2, <1>4, <1>6, <1>10
  <2>2. \A a \in L, b \in P : a < b
    <3>1. L \subseteq Nat
      BY DEF Lists
    <3>2. \A a \in L : a \in Nat /\ a <= c
      BY <3>1, <1>c
    <3>3. \A b \in P : b \in Nat /\ c < b
      BY <1>c, <1>3
    <3> QED BY <3>2, <3>3, <1>c
  <2>3. Lists(t1.items, L \cup P)
    <3> HIDE DEF P
    <3> QED BY <1>6, <2>1, <2>2, ListsJoin
  <2>4. \A r \in P : r <= t1.cursor
    <3>1. CASE page = <<>>
      BY <3>1, <2>1 DEF Lists
    <3>2. CASE page # <<>>
      <4>1. P = {page[i] : i \in DOMAIN page}
        <5> HIDE DEF P
        <5> QED BY <2>1, ListsRange
      <4>2. {r \in M : r > c /\ r <= Last(page)} = {page[i] : i \in DOMAIN page}
        BY <3>2, <1>4, ListsRange
      <4> QED BY <4>1, <4>2, <3>2, <1>6
    <3> QED BY <3>1, <3>2
  <2>5. \A r \in L \cup P : r <= t1.cursor
    <3>1. L \subseteq Nat
      BY DEF Lists
    <3> QED BY <3>1, <1>c, <1>7, <2>4
  <2> QED BY <1>c, <1>6, <1>7, <1>8, <2>1, <2>3, <2>5 DEF HasPage
<1>11. Len(rows) > Limit \/ Len(rows) <= Limit
  BY <1>2
<1> QED BY <1>9, <1>10, <1>11

(* Writers. *)

LEMMA RootWriterKeeps ==
  ASSUME ListingInv, NEW r \in Row, UpdateRoot(r)
  PROVE  ListingInv'
<1>1. ListingShape'
  <2>1. balances' \in SUBSET Row
    BY DEF ListingInv, ListingShape, UpdateRoot
  <2>2. events' \in Seq(Row)
    BY AppendProperties DEF ListingInv, ListingShape, UpdateRoot
  <2> QED BY <2>1, <2>2 DEF ListingInv, ListingShape, UpdateRoot
<1>2. UNCHANGED <<directory, snapshot, clock, traversal>> /\ clock <= clock'
  BY DEF UpdateRoot, ListingInv, ListingShape
<1>3. ASSUME NEW t \in Traversals, TraversalKept(t) PROVE TraversalKept(t)'
  BY <1>1, <1>2, <1>3, RootsKeptUpdated, ControlKeptSame DEF TraversalKept, ListingInv
<1> QED BY <1>1, <1>2, <1>3, TraversalsStay

\* An announced write of one row.
LEMMA AnnouncedKeeps ==
  ASSUME ListingInv, NEW r \in Row, NEW d \in [state : RowStates \ {"absent"}, expires : Nat],
         directory' = [directory EXCEPT ![r] = d], snapshot' = snapshot + 1,
         UNCHANGED <<balances, events, clock, traversal>>
  PROVE  ListingInv'
<1>1. ListingShape'
  BY DEF ListingInv, ListingShape
<1>2. \A x \in Row : directory[x].state # "absent" => directory'[x].state # "absent"
  BY DEF ListingInv, ListingShape
<1>3. ASSUME NEW t \in Traversals, TraversalKept(t) PROVE TraversalKept(t)'
  BY <1>2, <1>3, RootsKeptSame, ControlKeptAnnounced DEF TraversalKept, ListingInv
<1> QED BY <1>1, <1>3, TraversalsStay

LEMMA AnnouncedStateKeeps ==
  ASSUME ListingInv, NEW r \in Row, NEW s \in RowStates \ {"absent"}, Announced(r, s)
  PROVE  ListingInv'
<1>1. directory[r].expires \in Nat
  BY DEF ListingInv, ListingShape
<1>2. PICK d \in [state : RowStates \ {"absent"}, expires : Nat] : d = [directory[r] EXCEPT !.state = s]
  BY <1>1 DEF ListingInv, ListingShape
<1>3. directory' = [directory EXCEPT ![r] = d]
  BY <1>2 DEF Announced, ListingInv, ListingShape
<1> QED BY <1>3, AnnouncedKeeps DEF Announced

LEMMA UnannouncedKeeps ==
  ASSUME ListingInv, NEW r \in Row, AddUnannounced(r)
  PROVE  ListingInv'
<1>0. /\ UNCHANGED <<balances, events, snapshot, clock>>
      /\ traversal' = [q \in Traversal |-> [traversal[q] EXCEPT !.late = @ \cup {r}]]
      /\ directory' = [directory EXCEPT ![r].state = "new"]
  BY DEF AddUnannounced, Late
<1>1. ASSUME NEW t \in Traversals
      PROVE  [t EXCEPT !.late = @ \cup {r}] \in Traversals
  BY DEF Traversals
<1>2. ListingShape'
  <2>1. traversal' \in [Traversal -> Traversals]
    BY <1>0, <1>1 DEF ListingInv, ListingShape
  <2>2. directory' \in [Row -> [state : RowStates, expires : Nat]]
    BY <1>0 DEF ListingInv, ListingShape, RowStates
  <2> QED BY <2>1, <2>2, <1>0 DEF ListingInv, ListingShape
<1>3. SUFFICES ASSUME NEW q \in Traversal PROVE TraversalKept(traversal[q])'
  BY <1>2 DEF ListingInv
<1>4. PICK t \in Traversals : t = traversal[q]
  BY DEF ListingInv, ListingShape
<1>5. PICK t1 \in Traversals : t1 = [t EXCEPT !.late = @ \cup {r}]
  BY <1>1
<1>6. t1 = traversal'[q]
  BY <1>0, <1>4, <1>5
<1>7. TraversalKept(t)
  BY <1>4 DEF ListingInv
<1>8. ControlKept(t1)'
  BY <1>5, <1>7, ControlKeptLate DEF TraversalKept, ListingInv
<1>9. BalancesKept(t)' /\ EventsKept(t)'
  BY <1>0, <1>7, RootsKeptSame DEF TraversalKept
<1>10. /\ t1.pc = t.pc /\ t1.kind = t.kind /\ t1.cursor = t.cursor
       /\ t1.version = t.version /\ t1.page = t.page /\ t1.items = t.items
  BY <1>5 DEF Traversals
<1>11. BalancesKept(t1)' /\ EventsKept(t1)'
  BY <1>9, <1>10 DEF BalancesKept, EventsKept
<1>12. TraversalKept(t1)'
  BY <1>8, <1>11 DEF TraversalKept
<1> QED BY <1>6, <1>12, TraversalKeptOf

LEMMA ListingTickKeeps ==
  ASSUME ListingInv, ListingTick
  PROVE  ListingInv'
<1>1. ListingShape' /\ clock <= clock'
  BY ListingsAssumption DEF ListingsAssumption, ListingInv, ListingShape, ListingTick
<1>2. UNCHANGED <<balances, events, directory, snapshot, traversal>>
  BY DEF ListingTick
<1>3. ASSUME NEW t \in Traversals, TraversalKept(t) PROVE TraversalKept(t)'
  BY <1>1, <1>2, <1>3, RootsKeptSame, ControlKeptSame DEF TraversalKept, ListingInv
<1> QED BY <1>1, <1>2, <1>3, TraversalsStay

LEMMA ControlWriterKeeps ==
  ASSUME ListingInv, ControlWriter
  PROVE  ListingInv'
<1>1. ASSUME NEW r \in Row, JoinApp(r) PROVE ListingInv'
  <2>1. "member" \in RowStates \ {"absent"} /\ Announced(r, "member")
    BY <1>1 DEF JoinApp, RowStates
  <2> QED BY <2>1, AnnouncedStateKeeps
<1>2. ASSUME NEW r \in Row, RemoveMember(r) PROVE ListingInv'
  <2>1. "gone" \in RowStates \ {"absent"} /\ Announced(r, "gone")
    BY <1>2 DEF RemoveMember, RowStates
  <2> QED BY <2>1, AnnouncedStateKeeps
<1>3. ASSUME NEW r \in Row, NEW s \in {"accepted", "revoked"}, AnswerInvitation(r, s) PROVE ListingInv'
  <2>1. s \in RowStates \ {"absent"} /\ Announced(r, s)
    BY <1>3 DEF AnswerInvitation, RowStates
  <2> QED BY <2>1, AnnouncedStateKeeps
<1>4. ASSUME NEW r \in Row, NEW e \in 1..MaxListingClock, Invite(r, e) PROVE ListingInv'
  <2>1. PICK d \in [state : RowStates \ {"absent"}, expires : Nat] : d = [state |-> "pending", expires |-> e]
    <3>1. e \in Nat
      BY ListingsAssumption DEF ListingsAssumption
    <3>2. "pending" \in RowStates \ {"absent"}
      BY DEF RowStates
    <3> QED BY <3>1, <3>2
  <2> QED BY <1>4, <2>1, AnnouncedKeeps DEF Invite
<1> QED BY <1>1, <1>2, <1>3, <1>4, UnannouncedKeeps, ListingTickKeeps DEF ControlWriter

(* Readers: beginning, following a cursor and leaving. *)

LEMMA RestKept == TraversalKept(Rest)
BY RestTraversal DEF TraversalKept, BalancesKept, EventsKept, ControlKept, ControlKind

LEMMA RefuseKeeps ==
  ASSUME ListingInv, NEW q \in Traversal, Refuse(q),
         UNCHANGED <<balances, events, directory, snapshot, clock>>
  PROVE  ListingInv'
<1>1. PICK t1 \in Traversals : t1 = Rest
  BY RestTraversal
<1>2. TraversalKept(t1)
  BY <1>1, RestKept
<1> QED BY <1>1, <1>2, TraversalMoves DEF Refuse

LEMMA TraverseKeeps ==
  ASSUME ListingInv, NEW q \in Traversal, NEW k, Traverse(q, k)
  PROVE  ListingInv'
<1>0. k \in ControlKind \cup {"refs", "events"} /\ clock \in Nat /\ snapshot \in Nat /\ Len(events) \in Nat
  BY ListingsAssumption DEF Traverse, ListingsAssumption, ControlKind, ListingInv, ListingShape
<1>1. PICK t1 : t1 = [Rest EXCEPT !.pc = IF k = "invitations" THEN "sweep" ELSE "version", !.kind = k,
                                  !.asOf = clock, !.late = {}]
  OBVIOUS
<1>2. t1 \in Traversals
  BY <1>0, <1>1, RestTraversal DEF Traversals
<1>3. /\ t1.pc \in {"sweep", "version"} /\ t1.cursor = 0 /\ t1.version = 0 /\ t1.items = <<>>
      /\ t1.asOf = clock /\ t1.kind = k
  BY <1>0, <1>1 DEF Rest
<1>4. BalancesKept(t1)
  <2>1. \A r \in Row : r \in Nat /\ r # 0
    BY ListingsAssumption DEF ListingsAssumption
  <2>2. PICK B \in SUBSET Row : B = BalancesAt(0)
    BY BalancesAreRows
  <2>3. {r \in B : r <= 0} = {}
    BY <2>1
  <2>4. {r \in BalancesAt(t1.version) : r <= t1.cursor} = {}
    BY <2>2, <2>3, <1>3
  <2>5. Lists(t1.items, {r \in BalancesAt(t1.version) : r <= t1.cursor})
    BY <2>4, <1>3, ListsNothing
  <2>6. t1.version <= Len(events) /\ t1.pc # "done" /\ t1.pc # "recheck"
    BY <1>0, <1>3
  <2> QED BY <2>5, <2>6 DEF BalancesKept
<1>5. EventsKept(t1)
  <2>1. {n \in 1..0 : Wanted(events[n])} = {}
    OBVIOUS
  <2> QED BY <2>1, <1>0, <1>3, ListsNothing DEF EventsKept
<1>6. ControlKept(t1)
  BY <1>0, <1>3 DEF ControlKept, Opened
<1>7. Move(q, t1) /\ UNCHANGED <<balances, events, directory, snapshot, clock>>
  BY <1>1 DEF Traverse, Reads
<1> QED BY <1>2, <1>4, <1>5, <1>6, <1>7, TraversalMoves DEF TraversalKept

LEMMA FollowCursorKeeps ==
  ASSUME ListingInv, NEW q \in Traversal, FollowCursor(q)
  PROVE  ListingInv'
<1>0. clock \in Nat
  BY DEF ListingInv, ListingShape
<1>1. PICK t \in Traversals : t = traversal[q]
  BY DEF ListingInv, ListingShape
<1>2. TraversalKept(t) /\ t.pc = "more"
  BY <1>1 DEF ListingInv, FollowCursor, InTraversal
<1>3. PICK t1 : t1 = [t EXCEPT !.pc = IF t.kind = "invitations" THEN "sweep" ELSE "version",
                               !.asOf = IF t.kind = "platform" THEN @ ELSE clock]
  OBVIOUS
<1>4. t1 \in Traversals
  BY <1>0, <1>3 DEF Traversals
<1>5. /\ t1.pc \in {"sweep", "version"} /\ t1.cursor = t.cursor /\ t1.version = t.version
      /\ t1.items = t.items /\ t1.asOf = (IF t.kind = "platform" THEN t.asOf ELSE clock)
      /\ t1.kind = t.kind /\ t1.expires = t.expires /\ t1.first = t.first /\ t1.late = t.late
  BY <1>3 DEF Traversals
<1>6. BalancesKept(t1) /\ EventsKept(t1)
  BY <1>2, <1>5 DEF TraversalKept, BalancesKept, EventsKept
<1>7. ControlKept(t1)
  <2>1. SUFFICES ASSUME t.kind \in ControlKind PROVE ControlKept(t1)
    BY <1>5 DEF ControlKept
  <2>2. /\ t.cursor # 0 /\ Opened(t) /\ Opened(t1) /\ t.asOf <= clock /\ t.version <= snapshot
        /\ Present(t.first) /\ SnapshotKept(t) /\ ItemsKept(t)
    BY <1>2, <1>5, <2>1 DEF TraversalKept, ControlKept, Opened
  <2>3. t.asOf \in Nat /\ t1.asOf <= clock /\ t.asOf <= t1.asOf
    BY <1>0, <1>5, <2>2 DEF Traversals
  <2>4. \A u \in 0..MaxListingClock : InWindow(t1, u) => InWindow(t, u)
    BY <1>0, <1>2, <1>5, <2>3, ListingsAssumption DEF InWindow, ListingsAssumption
  <2>5. SnapshotKept(t1)
    BY <1>5, <2>2, <2>4 DEF SnapshotKept
  <2>6. ItemsKept(t1)
    BY <1>2, <1>5, <2>2 DEF ItemsKept, Listed
  <2> QED BY <1>5, <2>2, <2>3, <2>5, <2>6 DEF ControlKept, PageKept
<1>8. Move(q, t1) /\ UNCHANGED <<balances, events, directory, snapshot, clock>>
  BY <1>1, <1>3 DEF FollowCursor, Reads
<1> QED BY <1>4, <1>6, <1>7, <1>8, TraversalMoves DEF TraversalKept

(* Readers under the control snapshot. *)

LEMMA SweepKeeps ==
  ASSUME ListingInv, NEW q \in Traversal, SweepExpired(q)
  PROVE  ListingInv'
<1>1. PICK t \in Traversals : t = traversal[q]
  BY DEF ListingInv, ListingShape
<1>2. TraversalKept(t) /\ t.pc = "sweep"
  BY <1>1 DEF ListingInv, SweepExpired, InTraversal
<1>3. CASE Over(t.asOf) = {}
  <2>1. PICK t1 \in Traversals : t1 = [t EXCEPT !.pc = "version"]
    BY DEF Traversals
  <2>2. /\ t1.pc = "version" /\ t1.cursor = t.cursor /\ t1.version = t.version
        /\ t1.items = t.items /\ t1.asOf = t.asOf
        /\ t1.kind = t.kind /\ t1.expires = t.expires /\ t1.first = t.first /\ t1.late = t.late
    BY <2>1 DEF Traversals
  <2>3. BalancesKept(t1) /\ EventsKept(t1)
    BY <1>2, <2>2 DEF TraversalKept, BalancesKept, EventsKept
  <2>4. ControlKept(t1)
    BY <1>2, <2>2 DEF TraversalKept, ControlKept, Opened, SnapshotKept, InWindow, ItemsKept, Listed, PageKept
  <2>5. Move(q, t1) /\ UNCHANGED <<balances, events, directory, snapshot, clock>>
    BY <1>1, <1>3, <2>1 DEF SweepExpired
  <2> QED BY <2>3, <2>4, <2>5, TraversalMoves DEF TraversalKept
<1>4. CASE Over(t.asOf) # {}
  <2>1. PICK r \in Row : r = Min(Over(t.asOf))
    <3>1. Over(t.asOf) \in SUBSET Row
      BY DEF Over
    <3>2. Over(t.asOf) \in SUBSET Nat
      BY <3>1, RowsAreFinite
    <3>3. Min(Over(t.asOf)) \in Over(t.asOf)
      BY <3>2, <1>4, LeastNumber
    <3> QED BY <3>1, <3>3
  <2>2. "expired" \in RowStates \ {"absent"}
    BY DEF RowStates
  <2>3. Announced(r, "expired")
    BY <1>1, <1>4, <2>1 DEF SweepExpired, Announced
  <2> QED BY <2>2, <2>3, AnnouncedStateKeeps
<1> QED BY <1>3, <1>4

LEMMA ReadSnapshotKeeps ==
  ASSUME ListingInv, NEW q \in Traversal, ReadSnapshot(q)
  PROVE  ListingInv'
<1>0. UNCHANGED <<balances, events, directory, snapshot, clock>> /\ snapshot \in Nat /\ clock \in Nat
  BY DEF ReadSnapshot, Reads, ListingInv, ListingShape
<1>1. PICK t \in Traversals : t = traversal[q]
  BY DEF ListingInv, ListingShape
<1>2. TraversalKept(t) /\ t.pc = "version" /\ t.kind \in ControlKind
  BY <1>1 DEF ListingInv, ReadSnapshot, InTraversal
<1>3. CASE t.cursor = 0
  <2>1. PICK M \in SUBSET Row : M = Matches(t.kind, t.asOf) /\ Present(M)
    BY <1>2, MatchesAreRows DEF ListingInv
  <2>2. PICK t1 : t1 = [t EXCEPT !.pc = IF t.kind = "people" THEN "expiry" ELSE "rows",
                                 !.version = snapshot, !.first = M, !.late = {}]
    OBVIOUS
  <2>3. t1 \in Traversals
    BY <1>0, <2>2 DEF Traversals
  <2>4. /\ t1.pc = (IF t.kind = "people" THEN "expiry" ELSE "rows") /\ t1.cursor = 0
        /\ t1.version = snapshot /\ t1.first = M /\ t1.late = {}
        /\ t1.items = t.items /\ t1.asOf = t.asOf /\ t1.kind = t.kind /\ t1.expires = t.expires
    BY <1>3, <2>2 DEF Traversals
  <2>5. BalancesKept(t1) /\ EventsKept(t1)
    BY <1>2, <2>4 DEF BalancesKept, EventsKept, ControlKind
  <2>6. t.items = <<>> /\ t.asOf <= clock
    BY <1>2, <1>3 DEF TraversalKept, ControlKept, Opened
  <2>7. SnapshotKept(t1)
    <3>1. SUFFICES ASSUME NEW u \in 0..MaxListingClock, InWindow(t1, u)
                   PROVE  Matches(t.kind, u) = M
      BY <2>4 DEF SnapshotKept
    <3>2. CASE t.kind \in {"people", "platform"}
      BY <2>1, <2>4, <3>1, <3>2 DEF InWindow
    <3>3. CASE t.kind \notin {"people", "platform"}
      BY <1>2, <2>1, <3>3, MatchesAnyTime
    <3> QED BY <3>2, <3>3
  <2>8. ItemsKept(t1)
    <3>1. Listed(t1) = {}
      BY <2>4, <2>6 DEF Listed
    <3>2. \A r \in M : r \in Nat /\ r # 0
      BY ListingsAssumption DEF ListingsAssumption
    <3>3. {r \in t1.first : r <= t1.cursor} = {}
      BY <2>4, <3>2
    <3>4. Lists(t1.items, Listed(t1))
      BY <3>1, <2>4, <2>6, ListsNothing
    <3>5. t1.pc # "done" /\ Listed(t1) \ t1.late = {}
      BY <3>1, <2>4
    <3> QED BY <3>1, <3>3, <3>4, <3>5 DEF ItemsKept, Present
  <2>9. ControlKept(t1)
    <3>1. t1.pc # "recheck" /\ t1.pc # "more" /\ (t1.kind = "people" => t1.pc = "expiry") /\ Opened(t1)
      BY <2>4 DEF Opened
    <3>2. t1.version <= snapshot /\ t1.asOf <= clock /\ Present(t1.first)
      BY <1>0, <2>1, <2>4, <2>6
    <3> QED BY <3>1, <3>2, <2>7, <2>8 DEF ControlKept, PageKept
  <2>10. Move(q, t1)
    BY <1>1, <1>3, <2>1, <2>2 DEF ReadSnapshot, FirstPage
  <2> QED BY <1>0, <2>3, <2>5, <2>9, <2>10, TraversalMoves DEF TraversalKept
<1>4. CASE t.cursor # 0 /\ Refuse(q)
  BY <1>0, <1>4, RefuseKeeps
<1>5. CASE t.cursor # 0 /\ ~Refuse(q)
  <2>1. /\ Move(q, [t EXCEPT !.pc = "rows"]) /\ (t.kind = "people" => ~(t.expires <= t.asOf))
    BY <1>1, <1>5 DEF ReadSnapshot, FirstPage
  <2>2. PICK t1 \in Traversals : t1 = [t EXCEPT !.pc = "rows"]
    BY DEF Traversals
  <2>3. /\ t1.pc = "rows" /\ t1.cursor = t.cursor /\ t1.version = t.version
        /\ t1.items = t.items /\ t1.asOf = t.asOf
        /\ t1.kind = t.kind /\ t1.expires = t.expires /\ t1.first = t.first /\ t1.late = t.late
    BY <2>2 DEF Traversals
  <2>4. BalancesKept(t1) /\ EventsKept(t1)
    BY <1>2, <2>3 DEF BalancesKept, EventsKept, ControlKind
  <2>5. t.kind = "people" => t.asOf < t.expires
    BY <2>1 DEF Traversals
  <2>6. ControlKept(t1)
    BY <1>2, <1>5, <2>3, <2>5 DEF TraversalKept, ControlKept, Opened, SnapshotKept, InWindow, ItemsKept, Listed, PageKept
  <2> QED BY <1>0, <2>1, <2>2, <2>4, <2>6, TraversalMoves DEF TraversalKept
<1> QED BY <1>3, <1>4, <1>5

LEMMA NextExpiryKeeps ==
  ASSUME ListingInv, NEW q \in Traversal, NextExpiry(q)
  PROVE  ListingInv'
<1>0. UNCHANGED <<balances, events, directory, snapshot, clock>> /\ clock \in 0..MaxListingClock /\ MaxListingClock \in Nat
  BY ListingsAssumption DEF NextExpiry, Reads, ListingInv, ListingShape, ListingsAssumption
<1>1. PICK t \in Traversals : t = traversal[q]
  BY DEF ListingInv, ListingShape
<1>2. TraversalKept(t) /\ t.pc = "expiry"
  BY <1>1 DEF ListingInv, NextExpiry, InTraversal
<1> DEFINE ends == {directory[r].expires : r \in {p \in Row : directory[p].state = "pending"}}
           ahead == {e \in ends : e > t.asOf}
<1>3. PICK e \in Nat : /\ e = Min(ahead \cup {NoExpiry})
                       /\ \A x \in ahead \cup {NoExpiry} : e <= x
                       /\ e \in ahead \cup {NoExpiry}
  <2>1. \A r \in Row : directory[r].expires \in Nat
    BY DEF ListingInv, ListingShape
  <2>2. ahead \cup {NoExpiry} \in SUBSET Nat /\ ahead \cup {NoExpiry} # {}
    BY <2>1, <1>0 DEF NoExpiry
  <2>3. PICK S \in SUBSET Nat : S = ahead \cup {NoExpiry} /\ S # {}
    BY <2>2
  <2>4. Min(S) \in S /\ \A x \in S : Min(S) <= x
    BY <2>3, LeastNumber
  <2> HIDE DEF ahead
  <2> QED BY <2>3, <2>4
<1>4. PICK t1 \in Traversals : t1 = [t EXCEPT !.pc = "rows", !.expires = e]
  BY DEF Traversals
<1>5. /\ t1.pc = "rows" /\ t1.cursor = t.cursor /\ t1.version = t.version
      /\ t1.items = t.items /\ t1.asOf = t.asOf
      /\ t1.kind = t.kind /\ t1.expires = e /\ t1.first = t.first /\ t1.late = t.late
  BY <1>4 DEF Traversals
<1>6. BalancesKept(t1) /\ EventsKept(t1)
  BY <1>2, <1>5 DEF TraversalKept, BalancesKept, EventsKept
<1>7. ControlKept(t1)
  <2>1. SUFFICES ASSUME t.kind \in ControlKind PROVE ControlKept(t1)
    BY <1>5 DEF ControlKept
  <2>2. /\ Opened(t) /\ Opened(t1) /\ t.asOf <= clock /\ t.version <= snapshot
        /\ Present(t.first) /\ SnapshotKept(t) /\ ItemsKept(t) /\ t.asOf \in Nat
    BY <1>2, <1>5, <2>1 DEF TraversalKept, ControlKept, Opened, Traversals
  <2>3. t.asOf < e
    BY <1>0, <1>3, <2>2 DEF NoExpiry
  <2>4. ASSUME t.kind = "people", NEW u \in Nat, t.asOf <= u, u < e
        PROVE  Matches("people", u) = Matches("people", t.asOf)
    <3>1. ASSUME NEW r \in Row, directory[r].state = "pending"
          PROVE  directory[r].expires <= u <=> directory[r].expires <= t.asOf
      <4>1. directory[r].expires \in Nat
        BY DEF ListingInv, ListingShape
      <4>2. directory[r].expires > t.asOf => e <= directory[r].expires
        BY <1>3, <3>1
      <4> QED BY <4>1, <4>2, <2>2, <2>4
    <3>2. \A r \in Row : Projected(r, u) = Projected(r, t.asOf)
      BY <3>1 DEF Projected
    <3>3. PeopleRows(u) = PeopleRows(t.asOf)
      BY <3>2 DEF PeopleRows
    <3> QED BY <3>3 DEF Matches
  <2>5. SnapshotKept(t1)
    <3>1. SUFFICES ASSUME t.version = snapshot, NEW u \in 0..MaxListingClock, InWindow(t1, u)
                   PROVE  Matches(t.kind, u) \ t.late = t.first
      BY <1>5 DEF SnapshotKept
    <3>2. CASE t.kind = "people"
      <4>1. t.asOf <= u /\ u < e /\ u \in Nat
        BY <3>1, <3>2, <1>5 DEF InWindow
      <4>2. t.asOf \in 0..MaxListingClock /\ InWindow(t, t.asOf)
        BY <1>0, <1>2, <2>2, <3>2 DEF InWindow
      <4>3. Matches(t.kind, t.asOf) \ t.late = t.first
        BY <2>2, <3>1, <4>2 DEF SnapshotKept
      <4> QED BY <4>1, <4>3, <2>4, <3>2
    <3>3. CASE t.kind # "people"
      BY <2>2, <3>1, <3>3, <1>5 DEF SnapshotKept, InWindow
    <3> QED BY <3>2, <3>3
  <2>6. ItemsKept(t1)
    BY <1>2, <1>5, <2>2 DEF ItemsKept, Listed
  <2> QED BY <1>5, <2>2, <2>3, <2>5, <2>6 DEF ControlKept, PageKept
<1>8. Move(q, t1)
  BY <1>1, <1>3, <1>4 DEF NextExpiry
<1> QED BY <1>0, <1>6, <1>7, <1>8, TraversalMoves DEF TraversalKept

LEMMA FirstRowsAreRows ==
  ASSUME NEW S \in SUBSET Nat, IsFiniteSet(S), NEW c \in Nat
  PROVE  FirstRows(Later(c, S)) \in Seq(Nat)
<1>1. PICK rows, page : rows = FirstRows(Later(c, S)) /\ page = Shown(rows)
  OBVIOUS
<1> QED BY <1>1, PageOfLater

LEMMA ReadRowsKeeps ==
  ASSUME ListingInv, NEW q \in Traversal, ReadRows(q)
  PROVE  ListingInv'
<1>0. UNCHANGED <<balances, events, directory, snapshot, clock>> /\ clock \in 0..MaxListingClock /\ MaxListingClock \in Nat
  BY ListingsAssumption DEF ReadRows, Reads, ListingInv, ListingShape, ListingsAssumption
<1>1. PICK t \in Traversals : t = traversal[q]
  BY DEF ListingInv, ListingShape
<1>2. TraversalKept(t) /\ t.pc = "rows" /\ t.kind \in ControlKind
  BY <1>1 DEF ListingInv, ReadRows, InTraversal
<1>3. PICK M \in SUBSET Row : M = Matches(t.kind, t.asOf) /\ Present(M)
  BY <1>2, MatchesAreRows DEF ListingInv
<1>4. PICK page \in Seq(Nat) : page = FirstRows(Later(t.cursor, M))
  <2>1. t.cursor \in Nat
    BY DEF Traversals
  <2> QED BY <2>1, RowsAreFinite, FirstRowsAreRows
<1>5. PICK t1 \in Traversals : t1 = [t EXCEPT !.pc = "recheck", !.page = page]
  BY DEF Traversals
<1>6. /\ t1.pc = "recheck" /\ t1.page = page /\ t1.cursor = t.cursor /\ t1.version = t.version
      /\ t1.items = t.items /\ t1.asOf = t.asOf
      /\ t1.kind = t.kind /\ t1.expires = t.expires /\ t1.first = t.first /\ t1.late = t.late
  BY <1>5 DEF Traversals
<1>7. BalancesKept(t1) /\ EventsKept(t1)
  BY <1>2, <1>6 DEF BalancesKept, EventsKept, ControlKind
<1>8. /\ Opened(t) /\ Opened(t1) /\ t.asOf <= clock /\ t.version <= snapshot
      /\ Present(t.first) /\ SnapshotKept(t) /\ ItemsKept(t) /\ t.asOf \in Nat
      /\ t.kind = "people" => t.asOf < t.expires
  BY <1>2, <1>6 DEF TraversalKept, ControlKept, Opened, Traversals
<1>9. PageKept(t1)
  <2>1. t.asOf \in 0..MaxListingClock /\ InWindow(t, t.asOf)
    BY <1>0, <1>2, <1>8 DEF InWindow
  <2>2. t.version = snapshot => M \ t.late = t.first
    BY <1>3, <1>8, <2>1 DEF SnapshotKept
  <2> QED BY <1>3, <1>4, <1>6, <2>2 DEF PageKept
<1>10. SnapshotKept(t1)
  BY <1>2, <1>6, <1>8 DEF SnapshotKept, InWindow
<1>11. ItemsKept(t1)
  BY <1>2, <1>6, <1>8 DEF ItemsKept, Listed
<1>12. ControlKept(t1)
  BY <1>6, <1>8, <1>9, <1>10, <1>11 DEF ControlKept
<1>13. Move(q, t1)
  BY <1>1, <1>3, <1>4, <1>5 DEF ReadRows
<1> QED BY <1>0, <1>7, <1>12, <1>13, TraversalMoves DEF TraversalKept

LEMMA DeliverKeeps ==
  ASSUME ListingInv, NEW q \in Traversal, Deliver(q)
  PROVE  ListingInv'
<1>0. UNCHANGED <<balances, events, directory, snapshot, clock>>
  BY DEF Deliver, Reads
<1>1. PICK t \in Traversals : t = traversal[q]
  BY DEF ListingInv, ListingShape
<1>2. TraversalKept(t) /\ t.pc = "recheck" /\ t.kind \in ControlKind
  BY <1>1 DEF ListingInv, Deliver, InTraversal
<1>3. CASE Refuse(q)
  BY <1>0, <1>3, RefuseKeeps
<1>4. CASE ~Refuse(q)
  <2>1. t.version = snapshot /\ Move(q, Joined(q))
    BY <1>1, <1>4 DEF Deliver, UnchangedSince
  <2>2. /\ Opened(t) /\ t.asOf <= clock /\ t.version <= snapshot
        /\ Present(t.first) /\ SnapshotKept(t) /\ ItemsKept(t) /\ PageKept(t)
    BY <1>2 DEF TraversalKept, ControlKept, Opened
  <2>3. PICK M \in SUBSET Row : /\ t.page = FirstRows(Later(t.cursor, M)) /\ Present(M)
                                /\ M \ t.late = t.first
    BY <1>2, <2>1, <2>2 DEF PageKept
  <2>4. PICK L : L = Listed(t)
    OBVIOUS
  <2>5. /\ Lists(t.items, L) /\ L \subseteq Row /\ Present(L) /\ \A r \in L : r <= t.cursor
        /\ L \ t.late = {r \in t.first : r <= t.cursor}
    BY <1>2, <2>2, <2>4 DEF ItemsKept
  <2>6. PICK t1 : t1 = Joined(q)
    OBVIOUS
  <2>7. /\ t1 \in Traversals
        /\ t1.kind = t.kind /\ t1.version = t.version /\ t1.asOf = t.asOf
        /\ t1.expires = t.expires /\ t1.first = t.first /\ t1.late = t.late
        /\ t1.pc \in {"more", "done"} /\ t.cursor <= t1.cursor
        /\ \E P \in SUBSET M :
             /\ Lists(t1.items, L \cup P)
             /\ \A r \in L \cup P : r <= t1.cursor
             /\ t1.pc = "done" => P = {r \in M : r > t.cursor}
             /\ t1.pc = "more" => /\ P = {r \in M : r > t.cursor /\ r <= t1.cursor}
                                  /\ t.cursor < t1.cursor
    <3>1. HasPage(t1, t, L, M)
      BY <1>1, <2>3, <2>5, <2>6, PageJoins
    <3> QED BY <3>1 DEF HasPage
  <2>8. PICK P \in SUBSET M :
             /\ Lists(t1.items, L \cup P)
             /\ \A r \in L \cup P : r <= t1.cursor
             /\ t1.pc = "done" => P = {r \in M : r > t.cursor}
             /\ t1.pc = "more" => /\ P = {r \in M : r > t.cursor /\ r <= t1.cursor}
                                  /\ t.cursor < t1.cursor
    BY <2>7
  <2>9. BalancesKept(t1) /\ EventsKept(t1)
    BY <1>2, <2>7 DEF BalancesKept, EventsKept, ControlKind
  <2>10. ItemsKept(t1)
    <3>1. Listed(t1) = L \cup P
      BY <2>8, ListsRange DEF Listed
    <3>2. t.cursor \in Nat /\ t1.cursor \in Nat /\ \A r \in M : r \in Nat
      BY <2>7, RowsAreFinite DEF Traversals
    <3>3. (L \cup P) \ t.late = {r \in t.first : r <= t.cursor} \cup (P \ t.late)
      BY <2>5
    <3>4. CASE t1.pc = "done"
      <4>1. P \ t.late = {r \in t.first : r > t.cursor}
        BY <3>4, <2>3, <2>8
      <4>2. \A r \in t.first : r \in Nat
        BY <2>3, <3>2
      <4>3. (L \cup P) \ t.late = t.first
        BY <3>2, <3>3, <4>1, <4>2
      <4> QED BY <3>1, <3>4, <4>3, <2>3, <2>5, <2>7, <2>8 DEF ItemsKept, Present
    <3>5. CASE t1.pc = "more"
      <4>1. P \ t.late = {r \in t.first : r > t.cursor /\ r <= t1.cursor}
        BY <3>5, <2>3, <2>8
      <4>2. \A r \in t.first : r \in Nat
        BY <2>3, <3>2
      <4>3. (L \cup P) \ t.late = {r \in t.first : r <= t1.cursor}
        BY <3>2, <3>3, <3>5, <4>1, <4>2, <2>8
      <4> QED BY <3>1, <3>5, <4>3, <2>3, <2>5, <2>7, <2>8 DEF ItemsKept, Present
    <3> QED BY <3>4, <3>5, <2>7
  <2>11. SnapshotKept(t1)
    BY <1>2, <2>2, <2>7 DEF SnapshotKept, InWindow
  <2>12. t1.pc = "more" => t1.cursor # 0
    BY <2>8, <2>7 DEF Traversals
  <2>13. ControlKept(t1)
    BY <1>2, <2>2, <2>7, <2>10, <2>11, <2>12 DEF ControlKept, PageKept, Opened
  <2> QED BY <1>0, <2>1, <2>6, <2>7, <2>9, <2>13, TraversalMoves DEF TraversalKept
<1> QED BY <1>3, <1>4

(* Readers of Root balances and Root events. *)

LEMMA NotControl == "refs" \notin ControlKind /\ "events" \notin ControlKind
BY DEF ControlKind

LEMMA ReadRevisionKeeps ==
  ASSUME ListingInv, NEW q \in Traversal, ReadRevision(q)
  PROVE  ListingInv'
<1>0. UNCHANGED <<balances, events, directory, snapshot, clock>> /\ Len(events) \in Nat
  BY DEF ReadRevision, Reads, ListingInv, ListingShape
<1>1. PICK t \in Traversals : t = traversal[q]
  BY DEF ListingInv, ListingShape
<1>2. TraversalKept(t) /\ t.pc = "version" /\ t.kind = "refs"
  BY <1>1 DEF ListingInv, ReadRevision, InTraversal
<1>3. CASE Refuse(q)
  BY <1>0, <1>3, RefuseKeeps
<1>4. CASE ~Refuse(q)
  <2>1. t.cursor = 0 \/ t.version = Len(events)
    BY <1>1, <1>4 DEF ReadRevision, FirstPage, Revision
  <2>2. Move(q, [t EXCEPT !.pc = "rows", !.version = Len(events), !.tries = @ + 1])
    BY <1>1, <1>4 DEF ReadRevision, Revision
  <2>v. PICK v \in Nat, n \in Nat : v = Len(events) /\ n = t.tries + 1
    BY <1>0 DEF Traversals
  <2>3. PICK t1 \in Traversals : t1 = [t EXCEPT !.pc = "rows", !.version = v, !.tries = n]
    BY DEF Traversals
  <2>4. /\ t1.pc = "rows" /\ t1.cursor = t.cursor /\ t1.version = Len(events)
        /\ t1.items = t.items /\ t1.kind = t.kind
    BY <2>3, <2>v DEF Traversals
  <2>m. Move(q, t1)
    BY <2>2, <2>3, <2>v
  <2>5. Lists(t.items, {r \in BalancesAt(t.version) : r <= t.cursor})
    BY <1>2 DEF TraversalKept, BalancesKept
  <2>6. {r \in BalancesAt(t.version) : r <= t.cursor} = {r \in BalancesAt(Len(events)) : r <= t.cursor}
    <3>1. CASE t.cursor = 0
      <4>1. \A r \in Row : r \in Nat /\ r # 0
        BY ListingsAssumption DEF ListingsAssumption
      <4>2. PICK A \in SUBSET Row, B \in SUBSET Row : A = BalancesAt(t.version) /\ B = BalancesAt(Len(events))
        BY BalancesAreRows
      <4>3. {r \in A : r <= 0} = {} /\ {r \in B : r <= 0} = {}
        BY <4>1
      <4> QED BY <3>1, <4>2, <4>3
    <3>2. CASE t.version = Len(events)
      BY <3>2
    <3> QED BY <2>1, <3>1, <3>2
  <2>7. Lists(t1.items, {r \in BalancesAt(t1.version) : r <= t1.cursor})
    BY <2>4, <2>5, <2>6
  <2>8. t1.version <= Len(events) /\ t1.pc # "done" /\ t1.pc # "recheck"
    BY <1>0, <2>4
  <2>9. BalancesKept(t1)
    BY <2>7, <2>8 DEF BalancesKept
  <2>10. EventsKept(t1) /\ ControlKept(t1)
    BY <1>2, <2>4, NotControl DEF EventsKept, ControlKept
  <2> QED BY <1>0, <2>m, <2>9, <2>10, TraversalMoves DEF TraversalKept
<1> QED BY <1>3, <1>4

LEMMA ReadBalancesKeeps ==
  ASSUME ListingInv, NEW q \in Traversal, ReadBalances(q)
  PROVE  ListingInv'
<1>0. UNCHANGED <<balances, events, directory, snapshot, clock>> /\ Len(events) \in Nat /\ balances \in SUBSET Row
  BY DEF ReadBalances, Reads, ListingInv, ListingShape
<1>1. PICK t \in Traversals : t = traversal[q]
  BY DEF ListingInv, ListingShape
<1>2. TraversalKept(t) /\ t.pc = "rows" /\ t.kind = "refs"
  BY <1>1 DEF ListingInv, ReadBalances, InTraversal
<1>3. PICK page \in Seq(Nat) : page = FirstRows(Later(t.cursor, balances))
  <2>1. t.cursor \in Nat
    BY DEF Traversals
  <2> QED BY <1>0, <2>1, RowsAreFinite, FirstRowsAreRows
<1>4. PICK t1 \in Traversals : t1 = [t EXCEPT !.pc = "recheck", !.page = page]
  BY DEF Traversals
<1>5. /\ t1.pc = "recheck" /\ t1.page = page /\ t1.cursor = t.cursor /\ t1.version = t.version
      /\ t1.items = t.items /\ t1.kind = t.kind
  BY <1>4 DEF Traversals
<1>6. balances = BalancesAt(Len(events))
  BY BalancesNow DEF ListingInv
<1>7. t.version \in Nat /\ t.version <= Len(events) /\ Lists(t.items, {r \in BalancesAt(t.version) : r <= t.cursor})
  BY <1>2 DEF TraversalKept, BalancesKept, Traversals
<1>8. Len(events) \in t1.version..Len(events) /\ t1.page = FirstRows(Later(t1.cursor, BalancesAt(Len(events))))
  BY <1>0, <1>3, <1>5, <1>6, <1>7
<1>9. Lists(t1.items, {r \in BalancesAt(t1.version) : r <= t1.cursor})
  BY <1>5, <1>7
<1>10. BalancesKept(t1)
  BY <1>5, <1>7, <1>8, <1>9 DEF BalancesKept
<1>11. EventsKept(t1) /\ ControlKept(t1)
  BY <1>2, <1>5, NotControl DEF EventsKept, ControlKept
<1>12. Move(q, t1)
  BY <1>1, <1>3, <1>4 DEF ReadBalances
<1> QED BY <1>0, <1>10, <1>11, <1>12, TraversalMoves DEF TraversalKept

LEMMA DeliverBalancesKeeps ==
  ASSUME ListingInv, NEW q \in Traversal, DeliverBalances(q)
  PROVE  ListingInv'
<1>0. UNCHANGED <<balances, events, directory, snapshot, clock>> /\ Len(events) \in Nat
  BY DEF DeliverBalances, Reads, ListingInv, ListingShape
<1>1. PICK t \in Traversals : t = traversal[q]
  BY DEF ListingInv, ListingShape
<1>2. TraversalKept(t) /\ t.pc = "recheck" /\ t.kind = "refs"
  BY <1>1 DEF ListingInv, DeliverBalances, InTraversal
<1>3. CASE Refuse(q)
  BY <1>0, <1>3, RefuseKeeps
<1>4. CASE Move(q, [t EXCEPT !.pc = "version", !.page = <<>>])
  <2>1. PICK t1 \in Traversals : t1 = [t EXCEPT !.pc = "version", !.page = <<>>]
    BY EmptySeq DEF Traversals
  <2>2. /\ t1.pc = "version" /\ t1.cursor = t.cursor /\ t1.version = t.version
        /\ t1.items = t.items /\ t1.kind = t.kind
    BY <2>1 DEF Traversals
  <2>3. BalancesKept(t1) /\ EventsKept(t1) /\ ControlKept(t1)
    BY <1>2, <2>2, NotControl DEF TraversalKept, BalancesKept, EventsKept, ControlKept
  <2> QED BY <1>0, <1>4, <2>1, <2>3, TraversalMoves DEF TraversalKept
<1>5. CASE SameRevision(q) /\ Move(q, [Joined(q) EXCEPT !.tries = 0])
  <2>1. t.version = Len(events)
    BY <1>1, <1>5 DEF SameRevision, Revision
  <2>2. PICK M \in SUBSET Row : M = BalancesAt(t.version)
    BY BalancesAreRows
  <2>3. t.page = FirstRows(Later(t.cursor, M))
    <3>1. PICK n \in t.version..Len(events) : t.page = FirstRows(Later(t.cursor, BalancesAt(n)))
      BY <1>2 DEF TraversalKept, BalancesKept
    <3>2. n = t.version
      BY <2>1, <1>0
    <3> QED BY <3>1, <3>2, <2>2
  <2>4. PICK L : L = {r \in M : r <= t.cursor}
    OBVIOUS
  <2>5. Lists(t.items, L) /\ \A r \in L : r <= t.cursor
    BY <1>2, <2>2, <2>4 DEF TraversalKept, BalancesKept
  <2>6. PICK j : j = Joined(q)
    OBVIOUS
  <2>7. HasPage(j, t, L, M)
    BY <1>1, <2>3, <2>5, <2>6, PageJoins
  <2>8. PICK P \in SUBSET M :
             /\ Lists(j.items, L \cup P)
             /\ j.pc = "done" => P = {r \in M : r > t.cursor}
             /\ j.pc = "more" => /\ P = {r \in M : r > t.cursor /\ r <= j.cursor}
                                 /\ t.cursor < j.cursor
    BY <2>7 DEF HasPage
  <2>9. j \in Traversals /\ j.pc \in {"more", "done"} /\ j.kind = t.kind /\ j.version = t.version
    BY <2>7 DEF HasPage
  <2>10. PICK t1 \in Traversals : t1 = [j EXCEPT !.tries = 0]
    BY <2>9 DEF Traversals
  <2>11. /\ t1.pc = j.pc /\ t1.cursor = j.cursor /\ t1.version = t.version
         /\ t1.items = j.items /\ t1.kind = t.kind
    BY <2>9, <2>10 DEF Traversals
  <2>12. t.cursor \in Nat /\ j.cursor \in Nat /\ \A r \in M : r \in Nat
    BY <2>9, RowsAreFinite DEF Traversals
  <2>13. ASSUME j.pc = "done" PROVE Lists(t1.items, BalancesAt(t1.version))
    <3>1. L \cup P = M
      BY <2>4, <2>8, <2>12, <2>13
    <3> QED BY <3>1, <2>2, <2>8, <2>11
  <2>14. ASSUME j.pc = "more" PROVE Lists(t1.items, {r \in BalancesAt(t1.version) : r <= t1.cursor})
    <3>1. L \cup P = {r \in M : r <= j.cursor}
      BY <2>4, <2>8, <2>12, <2>14
    <3> QED BY <3>1, <2>2, <2>8, <2>11
  <2>15. t1.version <= Len(events)
    BY <1>0, <2>1, <2>11
  <2>16. BalancesKept(t1)
    BY <2>9, <2>11, <2>13, <2>14, <2>15 DEF BalancesKept
  <2>17. EventsKept(t1) /\ ControlKept(t1)
    BY <1>2, <2>11, NotControl DEF EventsKept, ControlKept
  <2>18. Move(q, t1)
    BY <1>5, <2>6, <2>10
  <2> QED BY <1>0, <2>16, <2>17, <2>18, TraversalMoves DEF TraversalKept
<1> QED BY <1>1, <1>3, <1>4, <1>5 DEF DeliverBalances

LEMMA ReadWatermarkKeeps ==
  ASSUME ListingInv, NEW q \in Traversal, ReadWatermark(q)
  PROVE  ListingInv'
<1>0. UNCHANGED <<balances, events, directory, snapshot, clock>> /\ Len(events) \in Nat
  BY DEF ReadWatermark, Reads, ListingInv, ListingShape
<1>1. PICK t \in Traversals : t = traversal[q]
  BY DEF ListingInv, ListingShape
<1>2. TraversalKept(t) /\ t.kind = "events"
  BY <1>1 DEF ListingInv, ReadWatermark
<1>3. PICK t1 \in Traversals : t1 = [t EXCEPT !.pc = "rows", !.version = Len(events)]
  BY <1>0 DEF Traversals
<1>4. t1.cursor = t.cursor /\ t1.version = Len(events) /\ t1.items = t.items /\ t1.kind = t.kind
  BY <1>3 DEF Traversals
<1>5. BalancesKept(t1) /\ EventsKept(t1) /\ ControlKept(t1)
  BY <1>0, <1>2, <1>4, NotControl DEF TraversalKept, BalancesKept, EventsKept, ControlKept
<1>6. Move(q, t1)
  BY <1>1, <1>3 DEF ReadWatermark, Revision
<1> QED BY <1>0, <1>3, <1>5, <1>6, TraversalMoves DEF TraversalKept

LEMMA MaxOfTwo ==
  ASSUME NEW a \in Nat, NEW b \in Nat
  PROVE  Max({a, b}) = IF a <= b THEN b ELSE a
<1> DEFINE m == IF a <= b THEN b ELSE a
<1>1. m \in {a, b} /\ \A y \in {a, b} : m >= y
  OBVIOUS
<1>2. \A x \in {a, b} : (\A y \in {a, b} : x >= y) => x = m
  OBVIOUS
<1> QED BY <1>1, <1>2 DEF Max

LEMMA ReadEventsKeeps ==
  ASSUME ListingInv, NEW q \in Traversal, ReadEvents(q)
  PROVE  ListingInv'
<1>0. UNCHANGED <<balances, events, directory, snapshot, clock>> /\ Len(events) \in Nat
  BY DEF ReadEvents, Reads, ListingInv, ListingShape
<1>1. PICK t \in Traversals : t = traversal[q]
  BY DEF ListingInv, ListingShape
<1>2. TraversalKept(t) /\ t.kind = "events"
  BY <1>1 DEF ListingInv, ReadEvents
<1>3. PICK c \in Nat, v \in Nat : c = t.cursor /\ v = t.version
  BY DEF Traversals
<1>4. /\ v <= Len(events) /\ c <= Len(events)
      /\ Lists(t.items, {n \in 1..c : Wanted(events[n])})
  BY <1>2, <1>3 DEF TraversalKept, EventsKept
<1>5. PICK S : S = {n \in 1..Len(events) : n <= v /\ Wanted(events[n])}
  OBVIOUS
<1>6. S \in SUBSET Nat /\ IsFiniteSet(S)
  <2>1. IsFiniteSet(1..Len(events))
    BY <1>0, FS_Interval
  <2>2. S \subseteq 1..Len(events)
    BY <1>5
  <2>3. IsFiniteSet(S)
    BY <2>1, <2>2, FS_Subset
  <2>4. S \subseteq Nat
    BY <1>0, <2>2
  <2> QED BY <2>3, <2>4
<1>7. PICK rows, page : rows = FirstRows(Later(c, S)) /\ page = Shown(rows)
  OBVIOUS
<1>8. /\ rows \in Seq(Nat) /\ page \in Seq(Nat)
      /\ Len(rows) > Limit => page # <<>> /\ rows[Limit] = Last(page)
      /\ page # <<>> => /\ Last(page) \in S /\ Last(page) > c
                        /\ Lists(page, {r \in S : r > c /\ r <= Last(page)})
      /\ Len(rows) <= Limit => Lists(page, {r \in S : r > c})
  BY <1>6, <1>7, PageOfLater
<1>9. PICK d : d = NextAfter(rows, c, v)
  OBVIOUS
<1>10. /\ d \in Nat /\ d <= Len(events) /\ c <= d
       /\ Lists(page, {n \in 1..d : n > c /\ Wanted(events[n])})
  <2>1. CASE Len(rows) > Limit
    <3>1. d = Last(page) /\ d \in S /\ d > c /\ d \in Nat /\ d <= Len(events) /\ d <= v
      BY <1>0, <1>5, <1>6, <1>8, <1>9, <2>1 DEF NextAfter
    <3>2. {r \in S : r > c /\ r <= d} = {n \in 1..d : n > c /\ Wanted(events[n])}
      BY <1>0, <1>3, <1>5, <3>1
    <3>3. Lists(page, {r \in S : r > c /\ r <= d})
      BY <3>1, <1>8, <2>1
    <3>4. Lists(page, {n \in 1..d : n > c /\ Wanted(events[n])})
      BY <3>2, <3>3
    <3>5. c <= d
      BY <3>1, <1>3
    <3> QED BY <3>1, <3>4, <3>5
  <2>2. CASE ~(Len(rows) > Limit)
    <3>1. d = IF c <= v THEN v ELSE c
      BY <1>3, <1>9, <2>2, MaxOfTwo DEF NextAfter
    <3>2. Len(rows) <= Limit
      BY <1>8, <2>2, ListingsAssumption DEF ListingsAssumption
    <3>3. {r \in S : r > c} = {n \in 1..d : n > c /\ Wanted(events[n])}
      BY <1>0, <1>3, <1>4, <1>5, <3>1
    <3>4. Lists(page, {n \in 1..d : n > c /\ Wanted(events[n])})
      BY <3>2, <3>3, <1>8
    <3>5. d \in Nat /\ d <= Len(events) /\ c <= d
      BY <3>1, <1>3, <1>4
    <3> QED BY <3>4, <3>5
  <2> QED BY <2>1, <2>2
<1>11. Lists(t.items \o page, {n \in 1..d : Wanted(events[n])})
  <2>1. PICK A, B : A = {n \in 1..c : Wanted(events[n])} /\ B = {n \in 1..d : n > c /\ Wanted(events[n])}
    OBVIOUS
  <2>2. \A a \in A, b \in B : a < b
    BY <2>1, <1>3, <1>10
  <2>3. A \cup B = {n \in 1..d : Wanted(events[n])}
    BY <2>1, <1>3, <1>10
  <2>4. Lists(t.items \o page, A \cup B)
    BY <2>1, <2>2, <1>4, <1>10, ListsJoin
  <2> QED BY <2>3, <2>4
<1>12. PICK i \in Seq(Nat) : i = t.items \o page
  BY <1>11 DEF Lists
<1>13. PICK t1 \in Traversals : t1 = [t EXCEPT !.pc = "more", !.items = i, !.cursor = d]
  BY <1>10 DEF Traversals
<1>14. t1.cursor = d /\ t1.version = t.version /\ t1.items = i /\ t1.kind = t.kind
  BY <1>13 DEF Traversals
<1>15. EventsKept(t1)
  BY <1>3, <1>4, <1>10, <1>11, <1>12, <1>14 DEF EventsKept
<1>16. BalancesKept(t1) /\ ControlKept(t1)
  BY <1>2, <1>14, NotControl DEF BalancesKept, ControlKept
<1>17. Move(q, t1)
  BY <1>1, <1>3, <1>5, <1>7, <1>9, <1>12, <1>13 DEF ReadEvents, Shown
<1> QED BY <1>0, <1>15, <1>16, <1>17, TraversalMoves DEF TraversalKept

ListingNext == RootWriter \/ ControlWriter \/ \E q \in Traversal : Reading(q)

LEMMA ListingInitial ==
  ASSUME ListingsInit
  PROVE  ListingInv
<1>1. ListingShape
  <2>1. balances \in SUBSET Row /\ events \in Seq(Row)
    BY EmptySeq DEF ListingsInit
  <2>2. directory \in [Row -> [state : RowStates, expires : Nat]]
    <3>1. PICK s \in [Row -> {"absent", "member", "pending"}] :
            directory = [r \in Row |-> [state |-> s[r], expires |-> IF s[r] = "pending" THEN 1 ELSE NoExpiry]]
      BY DEF ListingsInit
    <3>2. \A r \in Row : s[r] \in RowStates /\ (IF s[r] = "pending" THEN 1 ELSE NoExpiry) \in Nat
      BY ListingsAssumption DEF RowStates, NoExpiry, ListingsAssumption
    <3> QED BY <3>1, <3>2
  <2>3. snapshot \in Nat /\ clock \in 0..MaxListingClock
    BY ListingsAssumption DEF ListingsInit, ListingsAssumption
  <2>4. traversal \in [Traversal -> Traversals]
    BY RestTraversal DEF ListingsInit
  <2> QED BY <2>1, <2>2, <2>3, <2>4 DEF ListingShape
<1>2. ASSUME NEW q \in Traversal PROVE TraversalKept(traversal[q])
  BY RestKept DEF ListingsInit
<1> QED BY <1>1, <1>2 DEF ListingInv

LEMMA ReadingKeeps ==
  ASSUME ListingInv, NEW q \in Traversal, Reading(q)
  PROVE  ListingInv'
<1>1. ASSUME NEW k, Traverse(q, k) PROVE ListingInv'
  BY <1>1, TraverseKeeps
<1>2. CASE Leave(q)
  BY <1>2, RefuseKeeps DEF Leave, Reads
<1> QED BY <1>1, <1>2, FollowCursorKeeps, SweepKeeps, ReadSnapshotKeeps, NextExpiryKeeps, ReadRowsKeeps,
           DeliverKeeps, ReadRevisionKeeps, ReadBalancesKeeps, DeliverBalancesKeeps, ReadWatermarkKeeps,
           ReadEventsKeeps
        DEF Reading, ListApps, ListPlatformAccounts, ListPeople, ListPlatformInvitations,
            ListAppMemberInvitations, ListAppAuditEvents, ListPlatformAuditEvents, ListAppRootRefs,
            ListAppRootEvents

LEMMA ListingUnchanged ==
  ASSUME ListingInv, UNCHANGED listingVars
  PROVE  ListingInv'
<1>1. ListingShape' /\ UNCHANGED <<balances, events, directory, snapshot, clock, traversal>> /\ clock <= clock'
  BY DEF listingVars, ListingInv, ListingShape
<1>2. ASSUME NEW t \in Traversals, TraversalKept(t) PROVE TraversalKept(t)'
  BY <1>1, <1>2, RootsKeptSame, ControlKeptSame DEF TraversalKept, ListingInv
<1> QED BY <1>1, <1>2, TraversalsStay

LEMMA ListingStepKeeps ==
  ASSUME ListingInv, [ListingNext]_listingVars
  PROVE  ListingInv'
BY RootWriterKeeps, ControlWriterKeeps, ReadingKeeps, ListingUnchanged DEF ListingNext, RootWriter

LEMMA ListingOfStep ==
  ASSUME [Next]_vars
  PROVE  [ListingNext]_listingVars
<1>1. CASE UNCHANGED vars
  BY <1>1 DEF vars, serviceSide
<1>2. CASE IssuerStep /\ UNCHANGED <<clientSide, serviceSide>>
  BY <1>2 DEF serviceSide
<1>3. CASE ClientStep /\ UNCHANGED <<issuerVars, serviceSide>>
  BY <1>3 DEF serviceSide
<1>4. CASE ServiceStep
  BY <1>4 DEF ServiceStep, ListingStep, ListingNext
<1> QED BY <1>1, <1>2, <1>3, <1>4 DEF Next

\* What is kept of a traversal that is over is what it promised.
LEMMA PagesAgreeKept ==
  ASSUME ListingInv
  PROVE  PagesAgree
<1>1. RefsOfOneRevision
  <2>1. SUFFICES ASSUME NEW q \in Traversal, traversal[q].pc = "done", traversal[q].kind = "refs"
                 PROVE  traversal[q].items = Later(0, BalancesAt(traversal[q].version))
    BY DEF RefsOfOneRevision, InTraversal
  <2>2. PICK B \in SUBSET Row : B = BalancesAt(traversal[q].version)
    BY BalancesAreRows
  <2>3. Lists(traversal[q].items, B)
    BY <2>1, <2>2 DEF ListingInv, TraversalKept, BalancesKept
  <2>4. B \in SUBSET Nat /\ IsFiniteSet(B)
    BY RowsAreFinite
  <2>5. {r \in B : r > 0} = B
    <3>1. \A r \in Row : r \in Nat /\ r # 0
      BY ListingsAssumption DEF ListingsAssumption
    <3> QED BY <3>1
  <2> QED BY <2>2, <2>3, <2>4, <2>5, OneOrder DEF Later
<1>2. EventsWithoutGap
  <2>1. SUFFICES ASSUME NEW q \in Traversal, traversal[q].kind = "events"
                 PROVE  traversal[q].items = Later(0, {n \in 1..traversal[q].cursor : Wanted(events[n])})
    BY DEF EventsWithoutGap, InTraversal
  <2>2. PICK c \in Nat : c = traversal[q].cursor
    BY DEF ListingInv, ListingShape, Traversals
  <2>3. PICK S : S = {n \in 1..c : Wanted(events[n])}
    OBVIOUS
  <2>4. Lists(traversal[q].items, S)
    BY <2>1, <2>2, <2>3 DEF ListingInv, TraversalKept, EventsKept
  <2>5. S \subseteq 1..c /\ 1..c \subseteq Nat /\ IsFiniteSet(1..c)
    <3>0. c \in Int /\ 1 \in Int
      BY <2>2
    <3>1. IsFiniteSet(1..c)
      BY <3>0, FS_Interval
    <3>2. 1..c \subseteq Nat
      BY <2>2
    <3> QED BY <2>3, <3>1, <3>2
  <2>6. S \in SUBSET Nat /\ IsFiniteSet(S)
    BY <2>5, FS_Subset
  <2>7. {r \in S : r > 0} = S
    BY <2>2, <2>3
  <2> QED BY <2>2, <2>3, <2>4, <2>6, <2>7, OneOrder DEF Later
<1>3. ListedAsOfStart
  <2>1. SUFFICES ASSUME NEW q \in Traversal, traversal[q].pc = "done", traversal[q].kind \in ControlKind
                 PROVE  LET listed == {traversal[q].items[i] : i \in DOMAIN traversal[q].items}
                        IN  /\ traversal[q].items = Later(0, listed)
                            /\ listed \ traversal[q].late = traversal[q].first
    BY DEF ListedAsOfStart, InTraversal
  <2>2. PICK L : L = {traversal[q].items[i] : i \in DOMAIN traversal[q].items}
    OBVIOUS
  <2>3. Lists(traversal[q].items, L) /\ L \in SUBSET Row /\ L \ traversal[q].late = traversal[q].first
    BY <2>1, <2>2 DEF ListingInv, TraversalKept, ControlKept, Opened, ItemsKept, Listed
  <2>4. L \in SUBSET Nat /\ IsFiniteSet(L)
    BY <2>3, RowsAreFinite
  <2>5. {r \in L : r > 0} = L
    <3>1. \A r \in Row : r \in Nat /\ r # 0
      BY ListingsAssumption DEF ListingsAssumption
    <3> QED BY <2>3, <3>1
  <2>6. traversal[q].items = Later(0, L)
    BY <2>3, <2>4, <2>5, OneOrder DEF Later
  <2> QED BY <2>2, <2>3, <2>6
<1> QED BY <1>1, <1>2, <1>3 DEF PagesAgree

(* Whoever reads page by page gets what one statement would have given: Root balances of
   one revision, Root events without a gap, and the rows of the control plane that matched
   when the traversal began, whatever is written, ends or is swept between the pages
   (audit-reads.ts, people-repository.ts, account-repository.ts).  Any number of rows,
   traversals and writes, any page size. *)
THEOREM PagesAgreeAlways == Spec => []PagesAgree
<1>1. Init => ListingInv
  BY ListingInitial DEF Init
<1>2. ListingInv /\ [Next]_vars => ListingInv'
  BY ListingOfStep, ListingStepKeeps
<1>3. ListingInv => PagesAgree
  BY PagesAgreeKept
<1> QED BY <1>1, <1>2, <1>3, PTL DEF Spec

=============================================================================
