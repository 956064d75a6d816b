----------------------------- MODULE SmokeReset -----------------------------
(***************************************************************************)
(* The reset of the production smoke App: a script an operator runs that   *)
(* takes an inventory, replaces the service by a maintenance worker, takes *)
(* the inventory again, backs everything up, deletes the objects and the   *)
(* OAuth keys and rebuilds both databases around the one smoke App.  It    *)
(* stops at the first failure with maintenance still active and is started *)
(* again; two operators may run it at once.  Requests in flight when the   *)
(* maintenance worker goes live still write what they had begun.           *)
(*                                                                         *)
(* An item stands for a node (its object and its row) or for an App; the   *)
(* items of Foreign belong to another App than the smoke App.              *)
(***************************************************************************)
EXTENDS Naturals, FiniteSets

CONSTANTS
    SmokeNode,      \* nodes
    Foreign,   \* the nodes of another App
    OtherApp,  \* that App
    OAuthKey,  \* keys of the OAuth namespace
    Resetter,  \* who may run the script
    Folder,    \* backup directories
    NoFolder,  \* --confirm DELETE-ALL-TEST-DATA-NO-BACKUP
    MaxResets  \* bound on runs of the script

ASSUME SmokeResetAssumption ==
    /\ Foreign \subseteq SmokeNode /\ OAuthKey \cap SmokeNode = {} /\ OtherApp \notin SmokeNode
    /\ NoFolder \notin Folder /\ "service" \notin Resetter

VARIABLES
    live,      \* "service", or the operator whose maintenance worker serves
    objects,   \* R2
    nodeRows,  \* cas_nodes
    uploads,   \* cas_direct_upload_sessions
    begun,     \* requests in flight
    tokens,    \* OAUTH_KV
    control,   \* the control database: its schema and its Apps
    folders,   \* what each backup directory holds
    run,       \* each operator's run of the script
    resets,
    verified,  \* history: the last run answered resetVerified
    late,      \* history: written while maintenance was live
    destroyed  \* history: what runs with a backup directory removed, late writes apart

stores == <<objects, nodeRows, uploads, begun, tokens, control, late>>
resetVars == <<stores, live, folders, run, resets, verified, destroyed>>

NoRun == [at |-> "idle", folder |-> NoFolder, first |-> {}, seen |-> {}, keys |-> {}]
EmptyFolder == [used |-> FALSE, rows |-> {}, objects |-> {}]

\* The one smoke App, its member and its issuer in the current tables.
Bootstrapped == [schema |-> "current", apps |-> {}]

ResetInit ==
    /\ live = "service"
    /\ objects \in {SmokeNode \ Foreign, {}} /\ nodeRows = objects
    /\ uploads = {} /\ begun = {} /\ tokens \in {{}, OAuthKey}
    /\ control = [schema |-> "old", apps |-> {}]
    /\ folders = [f \in Folder |-> EmptyFolder]
    /\ run = [o \in Resetter |-> NoRun]
    /\ resets = 0 /\ verified = FALSE /\ late = {} /\ destroyed = {}

-----------------------------------------------------------------------------
(* The service: what it stores, and when it is replaced                    *)

Landed(i) == late' = IF live = "service" THEN late ELSE late \cup {i}

BeginStore(i) ==
    /\ live = "service" /\ i \notin nodeRows \cup begun
    /\ i \in Foreign => OtherApp \in control.apps
    /\ begun' = begun \cup {i}
    /\ uploads' \in {uploads, uploads \cup {i}}
    /\ UNCHANGED <<live, objects, nodeRows, tokens, control, folders, run, resets, verified, late, destroyed>>

LandObject(i) ==
    /\ i \in begun \ objects
    /\ objects' = objects \cup {i}
    /\ Landed(i)
    /\ UNCHANGED <<live, nodeRows, uploads, begun, tokens, control, folders, run, resets, verified, destroyed>>

LandRow(i) ==
    /\ i \in begun \cap objects
    /\ nodeRows' = nodeRows \cup {i}
    /\ uploads' = uploads \ {i} /\ begun' = begun \ {i}
    /\ Landed(i)
    /\ UNCHANGED <<live, objects, tokens, control, folders, run, resets, verified, destroyed>>

CreateOtherApp ==
    /\ live = "service" /\ OtherApp \notin control.apps
    /\ control' = [control EXCEPT !.apps = @ \cup {OtherApp}]
    /\ UNCHANGED <<live, objects, nodeRows, uploads, begun, tokens, folders, run, resets, verified, late, destroyed>>

IssueToken(k) ==
    /\ live = "service" /\ k \notin tokens
    /\ tokens' = tokens \cup {k}
    /\ UNCHANGED <<live, objects, nodeRows, uploads, begun, control, folders, run, resets, verified, late, destroyed>>

\* A deployment takes the service back while no run is under way.
Redeploy ==
    /\ live # "service" /\ \A o \in Resetter : run[o].at = "idle"
    /\ live' = "service" /\ verified' = FALSE
    /\ late' = {}
    /\ UNCHANGED <<objects, nodeRows, uploads, begun, tokens, control, folders, run, resets, destroyed>>

-----------------------------------------------------------------------------
(* The script                                                              *)

Moves(o, from, changed) == run[o].at = from /\ run' = [run EXCEPT ![o] = changed]
To(o, next) == [run[o] EXCEPT !.at = next]

\* An inventory: the control tables first, then the tables of the Spaces and
\* the OAuth keys.  The old identity tables must exist for it to be read.
ControlRead(o) == control.schema = "old"
ControlInventory == {<<"app", a>> : a \in control.apps}
RestInventory == {<<"row", i>> : i \in nodeRows} \cup {<<"upload", i>> : i \in uploads} \cup {<<"token", k>> : k \in tokens}

\* validateResetInventory
Valid(inventory) == \A e \in inventory : e[1] = "token" \/ (e[1] = "row" /\ e[2] \notin Foreign)

StartReset(o) ==
    /\ resets < MaxResets /\ ControlRead(o)
    /\ \E f \in Folder \cup {NoFolder} :
          Moves(o, "idle", [NoRun EXCEPT !.at = "inventory", !.folder = f, !.first = ControlInventory])
    /\ resets' = resets + 1
    /\ UNCHANGED <<stores, live, folders, verified, destroyed>>

TakeInventory(o) ==
    LET all == run[o].first \cup RestInventory IN
    /\ Valid(all)
    /\ Moves(o, "inventory", [run[o] EXCEPT !.at = "publish", !.first = all])
    /\ UNCHANGED <<stores, live, folders, resets, verified, destroyed>>

\* publishMaintenance: a worker that knows this run's nonce
PublishMaintenance(o) ==
    /\ Moves(o, "publish", To(o, "physical"))
    /\ live' = o
    /\ UNCHANGED <<stores, folders, resets, verified, destroyed>>

\* The keys of the bucket and the namespace, as the maintenance worker lists them.
ListedKeys == objects \cup tokens

\* verifyMaintenance, validatePhysicalInventory
PhysicalInventory(o) ==
    /\ live = o
    /\ objects \cap Foreign = {}
    /\ {<<"token", k>> : k \in tokens} = {e \in run[o].first : e[1] = "token"}
    /\ Moves(o, "physical", [run[o] EXCEPT !.at = "recheck", !.keys = ListedKeys])
    /\ UNCHANGED <<stores, live, folders, resets, verified, destroyed>>

Recheck(o) ==
    /\ ControlRead(o)
    /\ Moves(o, "recheck", [run[o] EXCEPT !.at = "compare", !.seen = ControlInventory])
    /\ UNCHANGED <<stores, live, folders, resets, verified, destroyed>>

\* inventoryDigest
Unchanged(inventory, o) == inventory = run[o].first

Compare(o) ==
    LET all == run[o].seen \cup RestInventory IN
    /\ Valid(all) /\ Unchanged(all, o)
    /\ Moves(o, "compare", To(o, IF run[o].folder = NoFolder THEN "delete" ELSE "backup"))
    /\ UNCHANGED <<stores, live, folders, resets, verified, destroyed>>

\* executeD1Backups: never into a directory that has a backup
BackUpDatabases(o) ==
    LET f == run[o].folder IN
    /\ Moves(o, "backup", To(o, "backupObjects"))
    /\ ~folders[f].used
    /\ folders' = [folders EXCEPT ![f] = [used |-> TRUE, rows |-> nodeRows \cup control.apps, objects |-> {}]]
    /\ UNCHANGED <<stores, live, resets, verified, destroyed>>

\* Mutant: the objects that have a row are saved, those without one are not.
SavedListed(o) == {i \in run[o].keys : <<"row", i>> \in run[o].first}

\* executeR2Backups: every object of the physical inventory, which must exist
Saved(o) == run[o].keys \ OAuthKey

BackUpObjects(o) ==
    /\ Moves(o, "backupObjects", To(o, "delete"))
    /\ Saved(o) \subseteq objects
    /\ folders' = [folders EXCEPT ![run[o].folder].objects = Saved(o)]
    /\ UNCHANGED <<stores, live, resets, verified, destroyed>>

Removed(o, things) ==
    destroyed' = IF run[o].folder = NoFolder THEN destroyed ELSE destroyed \cup (things \ late)

\* resourceDeletePlan: one command for each key
DeleteResource(o, k) ==
    /\ k \in run[o].keys
    /\ Moves(o, "delete", [run[o] EXCEPT !.keys = @ \ {k}])
    /\ objects' = objects \ {k} /\ tokens' = tokens \ {k}
    /\ Removed(o, {k} \cap objects)
    /\ UNCHANGED <<live, nodeRows, uploads, begun, control, folders, resets, verified, late>>

VerifyEmpty(o) ==
    /\ run[o].keys = {} /\ live = o /\ objects = {} /\ tokens = {}
    /\ Moves(o, "delete", To(o, "tenant"))
    /\ UNCHANGED <<stores, live, folders, resets, verified, destroyed>>

\* rebuildCurrentSchemas, the first file: every table of the Spaces
\* The tenant tables are dropped and made again, empty.
DropTenantTables == nodeRows' = {} /\ uploads' = {}

RebuildTenant(o) ==
    /\ Moves(o, "tenant", To(o, "control"))
    /\ DropTenantTables
    /\ Removed(o, nodeRows)
    /\ UNCHANGED <<live, objects, begun, tokens, control, folders, resets, verified, late>>

\* The second file takes the operator's identity from the old tables, so it
\* can only be applied once.
RebuildControl(o) ==
    /\ ControlRead(o)
    /\ Moves(o, "control", To(o, "verify"))
    /\ control' = Bootstrapped
    /\ Removed(o, control.apps)
    /\ UNCHANGED <<live, objects, nodeRows, uploads, begun, tokens, folders, resets, verified, late>>

\* Mutant: only the tables of the Spaces are looked at.
BootstrapHoldsTenant == nodeRows = {} /\ uploads = {}

\* verifyBootstrap
BootstrapHolds == control = Bootstrapped /\ nodeRows = {} /\ uploads = {}

VerifyReset(o) ==
    /\ BootstrapHolds
    /\ Moves(o, "verify", NoRun)
    /\ verified' = TRUE
    /\ UNCHANGED <<stores, live, folders, resets, destroyed>>

\* --verify-current: under anyone's maintenance
VerifyCurrent(o) ==
    /\ live # "service" /\ run[o].at = "idle" /\ BootstrapHolds
    /\ verified' = TRUE
    /\ UNCHANGED <<stores, live, folders, run, resets, destroyed>>

\* A check or a command fails, or the operator stops the script.
Abort(o) ==
    /\ run[o].at # "idle"
    /\ run' = [run EXCEPT ![o] = NoRun]
    /\ UNCHANGED <<stores, live, folders, resets, verified, destroyed>>

Reset(o) ==
    \/ StartReset(o) \/ TakeInventory(o) \/ PublishMaintenance(o) \/ PhysicalInventory(o)
    \/ Recheck(o) \/ Compare(o) \/ BackUpDatabases(o) \/ BackUpObjects(o)
    \/ \E k \in run[o].keys : DeleteResource(o, k)
    \/ VerifyEmpty(o) \/ RebuildTenant(o) \/ RebuildControl(o)
    \/ VerifyReset(o) \/ VerifyCurrent(o) \/ Abort(o)

ResetNext ==
    \/ \E i \in SmokeNode : BeginStore(i) \/ LandObject(i) \/ LandRow(i)
    \/ CreateOtherApp \/ \E k \in OAuthKey : IssueToken(k)
    \/ Redeploy
    \/ \E o \in Resetter : Reset(o)

-----------------------------------------------------------------------------

Kept == UNION {folders[f].rows \cup folders[f].objects : f \in Folder}

\* A run with a backup directory removes only what a backup holds and nothing
\* of another App; what a request in flight still wrote under maintenance is
\* the exception.
RemovedIsKept == destroyed \subseteq Kept \ (Foreign \cup {OtherApp})

\* "resetVerified": both databases and the bucket are empty of everything that
\* was there before maintenance, whichever run said so.
VerifiedIsEmpty == verified => control = Bootstrapped /\ nodeRows \cup objects \subseteq late

\* A reset loses nothing that is not backed up, and says it is done only when
\* it is.
ResetKeepsData == RemovedIsKept /\ VerifiedIsEmpty

=============================================================================
