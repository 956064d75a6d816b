------------------------------- MODULE Access --------------------------------
(***************************************************************************)
(* How the service is reached and looked after: the issuers that vouch for *)
(* capabilities and the verifier that grants calls, the client that holds  *)
(* capabilities and the browser's cache of what it read, the command line  *)
(* client's session, the listings of the control plane and of Root         *)
(* balances, the upload kernels, and the reset of the smoke deployment.    *)
(* A workload says which of them a behaviour exercises; they share no      *)
(* state that one of them changes under the other.                         *)
(***************************************************************************)
EXTENDS Issuers, SpaceClient, BrowserCache, Listings, CanonicalUpload, SmokeReset, CliSession

CONSTANTS
    Workloads,
    Registered,    \* the issuers registered at the start
    PublishedFirst \* what issuers publish at the start

ASSUME AccessAssumption ==
    /\ Registered \in [App -> [issuer : Issuer \cup {NoOne}, revision : Nat]]
    /\ PublishedFirst \in [Issuer -> [Kinds -> Document]]

VARIABLE workload

clientSide == <<clientVars, cacheVars, cliVars>>
serviceSide == <<listingVars, cuVars, resetVars>>
vars == <<issuerVars, clientSide, serviceSide, workload>>

Init ==
    /\ workload \in Workloads
    /\ IssuersInit(Registered, PublishedFirst)
    /\ ClientInit /\ CacheInit /\ CliInit
    /\ ListingsInit /\ CanonicalUploadInit /\ ResetInit
    /\ workload # "rootListings" => balances = {}
    /\ workload # "listings" => \A r \in Row : directory[r].state = "absent"
    /\ workload # "reset" => objects = {} /\ tokens = {}

Watched(i) == \E a \in App : Registered[a].issuer = i

\* The registry while operators change it; the verifier while an App is
\* suspended and registered issuers change what they publish.
IssuerStep ==
    \/ workload = "registry" /\ RegistryNext
    \/ /\ workload = "verifier"
       /\ \/ VerifierNext
          \/ \E a \in App : Suspend(a)
          \/ \E i \in Issuer, d \in Document : Watched(i) /\ Publish(i, "oauth", d)

ClientStep ==
    \/ workload = "client" /\ ClientNext /\ UNCHANGED <<cacheVars, cliVars>>
    \/ workload = "cache" /\ CacheNext /\ UNCHANGED <<clientVars, cliVars>>
    \/ workload = "cli" /\ CliNext /\ UNCHANGED <<clientVars, cacheVars>>

\* The listings of Root balances read one ledger, the others the directory.
ListingStep ==
    \/ /\ workload = "rootListings"
       /\ \/ RootWriter
          \/ \E q \in Traversal :
                Reading(q) /\ (InTraversal(q, "idle") => traversal'[q].kind \in {"refs", "events"})
    \/ /\ workload = "listings"
       /\ \/ ControlWriter
          \/ \E q \in Traversal :
                Reading(q) /\ (InTraversal(q, "idle") => traversal'[q].kind \in ControlKind)

ServiceStep ==
    \/ ListingStep /\ UNCHANGED <<cuVars, resetVars>>
    \/ workload = "upload" /\ CanonicalUploadNext /\ UNCHANGED <<listingVars, resetVars>>
    \/ workload = "reset" /\ ResetNext /\ UNCHANGED <<listingVars, cuVars>>

Next ==
    /\ \/ IssuerStep /\ UNCHANGED <<clientSide, serviceSide>>
       \/ ClientStep /\ UNCHANGED <<issuerVars, serviceSide>>
       \/ ServiceStep /\ UNCHANGED <<issuerVars, clientSide>>
    /\ UNCHANGED workload

Spec == Init /\ [][Next]_vars

=============================================================================
