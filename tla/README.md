# TLA+ development for unicas

unicas is a content-addressed store on Cloudflare Workers: immutable nodes (bytes
plus ordered references to other nodes) named by their SHA-256, kept per
App/Space, protected by leases, parent nodes and root references, and reclaimed
by garbage collection. Metadata is in D1 (SQLite), bytes are in R2, and one
Durable Object per Space serialises the mutations of that Space in memory. Around
the store are a control plane (accounts, Apps, issuers), an MCP server, a files
application (Spaces), client libraries and operational scripts. This
directory holds TLA+ models of these parts, the TLC configurations that check them
on small instances, and TLAPS proofs for every size of instance.

Paths below are relative to `src/packages/` unless they start with `release/`.

## Inventory

| Part | State it keeps | Operations | Interacts with | Modelled |
| --- | --- | --- | --- | --- |
| Space object, `service-cloudflare/src/space-do.ts` | promise chain (the gate), active lease evaluations; memory only | lease, gc, Root Ref forwarding, metadata, content | kernels below, domain object | `SpaceCas`, `SpaceReads` |
| Lease-driven upload, `service/src/node-lease.ts`, `service-cloudflare/src/node-lease.ts`, `r2-upload-presigner.ts` | `cas_nodes`, `cas_edges`, `cas_node_uploads`, `cas_upload_reservations`, `cas_node_upload_cleanup`; R2 canonical and temporary objects | renew, open, await, replace, stage, publish, clean up, sign | client PUTs to R2 outside every lock | `SpaceCas` |
| Two-phase upload kernels, `service/src/node-lease.ts`, `service-cloudflare/src/node-lease.ts` | upload sessions, reservations | prepare, admit, stream, finalize, adopt | the collector | `CanonicalUpload` |
| Space collection, `service/src/gc.ts`, `service-cloudflare/src/node-gc.ts` | none of its own | clean up expired uploads; scan, recheck, delete bytes, delete row | same tables and objects | `SpaceCas` |
| Root Refs, `service/src/root-refs.ts`, `service-cloudflare/src/root-refs.ts`, `domain-do.ts` | `cas_app_root_revisions`, `_refs`, `_events`, `_requests`, `cas_nodes.root_ref_count` | find, read, plan, commit, retry | called by every Space of the App under its gate | `RootRefs`, `RootLedger`, `SpaceCas` |
| Root Ref cut-over, `release/service/cut-over-root-refs.mjs`, `migrate-root-refs.mjs`, `service-cloudflare/src/root-cutover.ts` | old ledger, new tables, archive triggers, marker | fence, archive, validate, fill, verify, publish, recover | writers of both versions | `Cutover` |
| Node reads, `service/src/node-read.ts`, `service-cloudflare/src/node-read.ts` | none | metadata, content ranges | reads without the gate | `SpaceReads` |
| Usage, `service-cloudflare/src/schema.ts` (triggers), `usage-reconciliation.ts` | `cas_space_usage`, observation columns | trigger deltas, observe, repair | every batch above; cron | `Usage` |
| App collection, `service/src/app-gc.ts` | cursor | page over Spaces with usage | Space objects | `Usage` |
| Audit reads, people and other lists, `service-cloudflare/src/audit-reads.ts`, `people-repository.ts`, `account-repository.ts` | cursors, control snapshot | snapshot pages | Root Ref tables, control database | `Listings`, `ControlAccess` |
| Control plane, `service/src/account.ts`, `service-cloudflare/src/account-repository.ts`, `platform-invitation*` | accounts, identities, memberships, authorities, invitations, audit | create, link, unlink, invite, accept, revoke, block, grant | D1 batches with in-batch guards | `ControlAccess`, `Accounts` |
| E-mail challenges, `email-challenge*.ts` | challenges | issue, resend, verify, consume, prune | admin login, acceptance, cron | `EmailChallenge` |
| Issuers and capability verification, `service/src/app-space-auth.ts`, `service-cloudflare/src/control-authority.ts`, `oauth-discovery.ts` | issuer registry, inspections, caches, key sets | inspect, activate, verify | control database, issuers' documents | `Issuers` |
| Admin back end, `service-cloudflare/src/admin-bff`, `control-sessions.ts` | `cas_admin_sessions` | login, link, unlink, code, rotate, accept, logout | browsers, CLI, providers | `AdminSessions`, `EmailChallenge` |
| MCP server and OAuth, `service-cloudflare/src/mcp` | transactions, grants of the OAuth library | authorize, consent, exchange, call | account tables | `McpOAuth` |
| Worker entry, `service-cloudflare/src/worker.ts`, control schema | promises per isolate | route, migrate, scheduled tasks | everything above | `WorkerEntry` |
| Spaces application, `spaces/src` | catalog, pending releases, smoke runs, attempts, sessions | edit, commit, reconcile, smoke, sign in | Root Refs through the client | `FileRoots`, `SpacesLogin`, `SpacesApp` |
| Blob and file clients, `space-blob-client`, `space-file-client` | upload in progress, working tree | chunk, index, read; edit a tree | the Space API | `BlobTree`, `FileTree` |
| Browser cache, `space-browser-cache` | memory, database, generations | get, load, put, clear, close | pages | `BrowserCache` |
| Space client, `space-client` | capabilities per class, acquisition in flight | resolve, send, replay | capability provider | `SpaceClient` |
| Admin CLI, `admin-cli`, `admin-client` | session file | login, call, rotate, logout | admin back end | `CliSession` |
| Reset of the smoke App, `release/service/reset-smoke.mjs` | backup directories | inventory, maintain, back up, delete, rebuild | all storage | `SmokeReset` |
| Codec, `codec/src` | none | encode, parse, validate, digest | all of the above | no |
| Protocol, web UI, sites, observability, other scripts | none a property is about | | | no |

### What is hard in this code

* The gate is memory: a restart of the Space object, or a storage call that fails
  (before or after it took effect), cuts a mutation between any two of its D1 and
  R2 calls, and the next request starts from whatever was left.
* D1 and R2 do not share transactions. Content is put before its row and deleted
  before its row, so both an orphan object and a row without content are
  reachable, and both must heal.
* Clients write to R2 directly with signed URLs, at any time, also late and twice.
* Root Refs are committed by another Durable Object that several Spaces share; its
  attempts interleave at every call and are fenced by a revision only.
* Time is read at different moments of a request: at arrival, at the scan, at the
  signature.
* Reads take no gate at all.
* The control database has no gate either: requests read, decide and write in
  separate calls, fenced by the WHERE clauses and guards of the last one.
* Logins, consents and codes are rows of one use; two callbacks of one browser race for them,
  and credentials change between a check and its use.
* The Spaces application keeps its catalog in one database and its references in another
  service: it retains before it commits and releases after, and can be stopped anywhere.
* Caches answer after what they hold has changed: issuer records during an outage,
  capabilities that were rejected, nodes of a partition that is cleared.
* Long operational jobs (cut-over, reset) change production data in place and can fail
  after any command, beside live writers.

The properties that make each part correct, in short:

* Store: both reference counts equal the references (`CountsExact`); what a lease or a root
  reaches is readable (`LiveSetReady`, `ContentHolds`, `ProtectedReadIntact`,
  `ReadyAnswersHold`); reservations, upload rows and temporary objects belong together
  (`UploadsAccounted`); what was granted is kept (`GrantedIsKept`); requests are answered,
  garbage goes, stuck uploads recover (`LeaseServed`, `GarbageReclaimed`,
  `StuckUploadRecovers`).
* Root Refs: exactly once, in one order (`RequestsAccounted`, `LedgerSpec`), and across the
  cut-over (`CutoverSafe`).
* Usage: the summary is what the rows say and settles on what is stored (`SummaryExact`,
  `UsageSettled`); a sweep misses no Space (`SweepVisitsSteady`).
* Control plane: nobody is locked out (`AuthorityKept`, `AccountKeepsLogin`), keys and invitations work
  once (`SingleUse`), patches do not undo each other (`PatchKeepsOtherFields`), audit and
  lists tell the truth (`AuditReplays`, `ListingIsWhole`, `PagesAgree`).
* Sign-in: challenges (`VerifiedByLatestCode`, `EvidenceAccounted`,
  `SendsLimitedBetweenCleanups`), sessions (`SessionsSound`), consents
  (`OneGrantPerConsent`), attempts (`OneSessionPerAttempt`), the saved CLI session
  (`SavedSessionWorks`).
* Capabilities: an issuer is activated for one App by whoever was proven
  (`ActivationFenced`), the verifier's staleness is bounded (`GrantWithinBound`), a rejected
  capability is not used again (`DroppedStaysDropped`).
* Files: of two edits one is applied (`EditsBuildOnLatest`), the store references what the
  catalog names and nothing else (`RootsAccounted`), queued releases are carried out
  (`QueuedReleaseCompletes`), a blob reads back as written (`BlobReadsBack`), a cleared
  cache stays cleared (`ClearedStaysCleared`).
* Operations: no isolate works on half a schema (`WorksOnWholeSchema`), a reset destroys
  nothing it has not saved (`ResetKeepsData`).

`PROJECT.json` lists the hazards at their lines with the properties that watch them.

## Modules

| Module | Content |
| --- | --- |
| `SpaceCas` | one Space: gate, lease-driven upload, counts, collection, faults, clients, clock |
| `SpaceReads` | ungated reads over `SpaceCas` |
| `RootLedger` | abstract specification: an atomic, exactly-once, App-wide log of root changes |
| `RootRefs` | the Root Ref protocol of one App, call by call; implements `RootLedger` |
| `EmailChallenge` | the e-mail challenges of one invitation, identity and address |
| `ControlAccess` | platform authorities, blocks, Apps, members, invitations, idempotency keys and the member list |
| `Accounts`, `AdminSessions`, `McpOAuth` | accounts and identities; the login flows and sessions over them; the OAuth front door of MCP over both |
| `FileTree`, `FileRoots`, `SpacesLogin`, `BlobTree`, `SpacesApp` | the files application: trees, catalog and releases, sign-in, blob uploads, and their composition |
| `Usage`, `Cutover`, `WorkerEntry`, `Service` | usage accounting with sweep and pass, the cut-over, the entry point, and their composition |
| `Issuers`, `SpaceClient`, `BrowserCache`, `Listings`, `CanonicalUpload`, `SmokeReset`, `CliSession`, `Access` | the parts around the store, each on its own variables, and the module that puts them side by side |
| `SpaceCasProofs`, `RootRefsProofs`, `EmailChallengeProofs`, `ControlAccessProofs`, `LoginsProofs`, `SpacesProofs`, `ServiceProofs`, `AccessProofs` | theorems, one module per composition |
| `MC*` | small graphs, requests, workloads and symmetry for TLC |

`SpacesApp`, `Service` and `Access` have a variable `workload`, fixed in the initial state, that says
which parts a behaviour exercises. The parts of `Access` share no state, so nothing is lost by
exploring them one at a time; in `SpacesApp` files and smoke runs are explored together.

### SpaceCas: correspondence to the code

* `nodes`, `leaseExp`, `childRefs`, `rootRefs`, `edges`, `projection`, `uploads`,
  `reservation`, `cleanup` are the D1 tables; a missing row is the value 0 or
  `NoUpload`. `canonical` and `temp` are the R2 objects, whose bytes are "good"
  (they parse and hash to the name) or "bad". `url` is the latest expiry of any URL
  signed for a temporary key. `queue` and `op` are the gate; `rr` is the Root Ref
  attempt in the domain object.
* Every D1 batch and every R2 write or delete is a step. Reads under the gate are
  merged with the write that follows them: the rows and objects they read are
  written only by the holder of the gate, with two exceptions. A client PUT changes
  `temp`; it can only turn an absent object into a present one, and an evaluation
  that read the absence behaves like one that ran before the PUT. And a detached
  Root Ref attempt changes `rootRefs`; the collector's recheck is therefore a step
  of its own, apart from the delete and the commit.
* `leaseDrivenNodeUpload` and `publishValidatedLeaseDrivenUpload` are split along
  their branches: `LeaseRenew`, `LeaseRefuse` (all error answers that write nothing),
  `LeaseOpenUpload`, `LeaseAwaitUpload`, `LeaseReplaceExpired`,
  `LeaseReplaceRejected`, `LeaseStage`, `LeaseAwaitChildren`, `LeasePutCanonical`,
  `LeaseCommit` and the clean-up steps. After `LeaseOpenUpload` and `LeaseStage` the
  evaluation goes on from the top with the new record, which is what the
  straight-line code does with its local variables.
* `GcRecord` ... `GcDone` are `cleanupExpiredLeaseDrivenUploads` followed by
  `collectExpiredUnreferencedNodes`. The scan has a LIMIT and no ORDER BY, so
  `GcScan` takes any admissible set.
* `EnterRootRefs` ... `RrConflict` are the forwarded Root Ref update; the batch is
  modelled with what it does to a row that is gone (nothing) and to the projection
  (sets it anyway). The race with other Spaces is `RrConflict`, which may always
  happen; its full protocol is `RootRefs`.
* `DetachedRootRefs`: the Space object holds the gate while it waits for the domain
  object. If that call breaks (network, restart of the Space object), the attempt
  may go on in the domain object. `FALSE` leaves that out, `TRUE` admits it
  (`DispatchLost`, `Crash` during a forwarded update). Most safety of the roots
  depends on it; the runs and theorems say which mode they are about.
* Faults: `GateFails` (a call fails, the request throws, the gate is released),
  `LeaseCleanupFails` (swallowed clean-up errors), `RrFails`, `Crash`,
  `DispatchLost`. A call that fails after it took effect is the step followed by
  the fault.
* Abstractions: hashes are model values and SHA-256 is injective; sizes, quotas,
  HTTP and tracing are left out, as are `lease_started_at` and the
  `canonical_observed` columns, which no guard of these operations reads. Signing
  takes place after the gate is released; it changes nothing but the set of
  admitted PUTs and is folded into the last gate step. A joined lease request gets
  the answer of the evaluation it joins and is no request of its own. At most one
  Root Ref attempt of the Space is in the domain object at a time. A row or
  canonical object with other bytes than its hash says would be refused with one
  more error; `CanonicalIntegrity` shows that it does not occur.

### RootRefs: correspondence to the code

`Start` is the arrival in the domain object, `FindRequest`, `ReadNodes`,
`ReadRevision`, `ReadBalances` the repository calls of `applyRootRefsUpdate` with the
checks that follow each, `Commit` its batch. `CanCommit` holds the three things that
abort the batch: the revision fence, the primary key of the request row, and the
CHECK on the node's count. `CommitUnseen` is a batch whose answer is lost, `CallFails`
any other failing call, both repeated by `withRootRefsRetry`. `GatedSpaces` are the
Spaces that wait for each answer before they forward the next update (the Space object
does, unless its call breaks). Nodes
are ready throughout; readiness is the subject of `SpaceCas`.

### SpaceReads

`ReadRow`, `ReadRefs` and `ReadBody` are the three calls of a read. `safe` records
whether the node was protected from the first to the last of them.

### EmailChallenge: correspondence to the code

The model follows all challenges that share invitation, identity and destination:
the rows over which the send limits count. `challenges` is the table, `sessions` the
pending login sessions, `evidence` the authenticated sessions that carry a verified
address, `req` the requests in progress with what they hold in local variables, the
time they read at their start included.

* `StartCreate`, `Create`, `StoreSession`, `Send` are the provider callback
  (`beginEmailChallenge`); `DeliveryFails`, `Invalidate` its catch block, which the
  resend handler repeats. `ShowPage` is the page, which drops a dead session.
* `StartVerify`, `VerifyRead`, `VerifyWrite`, `Authorize` are the verification;
  `VerifyFence` is the WHERE clause of its update. `StartResend`, `ResendRead`,
  `ResendWrite` are the resend, with `ResendFence` and the limits `MaySend` in one
  statement.
* `StartAccept`, `CommitAccept` are the acceptance of an App or platform invitation
  with challenge evidence: one batch that consumes the challenge and claims the
  invitation. The App's batch uses the time of the first read, the platform's reads the
  clock again; `CommitAccept` admits any time between.
* `PruneExpired` is the scheduled clean-up; the deletion of day-old rows is part of `Create`.
  `RequestDies` ends a request between any two calls. `Revoke` stands for a revocation or
  expiry of the invitation by its administrator.
* Abstractions: a code and its secret are the generation of the row's code, so a hash is
  a number and a wrong code is 0. Challenge IDs are random, so the branch for an ID that is
  taken is left out. Storing the new session and deleting the old one is one step: the
  old session only leads to requests that a later one may make as well. Sessions end
  with the challenge, whose own expiry each request checks. `sent` and `cleanedAt` are
  history and no guard reads them.

### ControlAccess: correspondence to the code

`blocked`, `authorities`, `apps`, `members`, `invitations`, `keys` are the tables of the
control database; `invitations` holds App and platform invitations, `keys` the three
idempotency tables, told apart by `scope`. `audit` is what the audit tables say when their
rows are replayed. `origin` and `admitted` are history and no guard reads them.

* A request is two steps. The Start action stands for the reads and early returns of the
  service (`account.ts`, `platform-invitations.ts`), merged into one step that keeps what
  the batch will use: revision, time, the record that was read. The batch (`CreateApp`,
  `PatchApp`, `RemoveMember`, `InviteMember`, `TransitionInvitation`, `AcceptMembership`,
  `InvitePlatform`, `RevokePlatform`, `AcceptPlatform`, `SetAuthority`, `SetBlocked`) is
  one step with the guards that its statements evaluate again. Anything may commit
  between the two, so merging the reads only leaves out requests that are refused
  earlier.
* A guard that fails aborts the batch: that, a constraint, a login identity that was
  unlinked meanwhile and a worker that dies are all `Abandon`. What the repository reads
  afterwards only chooses the wording of the refusal.
* The control snapshot is a number that batches advance. The model keeps what readers use
  of it: whether it is still the one the listing started with (`listing.current`).
  `StartList`, `ReadRows`, `DeliverPage`, `NextPage` are `listAppMembers`, its second
  snapshot read included. The lists of Apps, accounts and invitations follow the same
  protocol. A listing of invitations also marks expired ones, which is `TransitionInvitation`
  with `on` FALSE.
* `TransitionInvitation` checks `AppActor`, the revision, the status and, with the time that
  was read, the expiry, as its UPDATE does. Platform invitations have no expired status in the
  table; it is computed when they are read.
* Abstractions: tokens, hashes and e-mail constraints are left out (the challenge behind
  an acceptance is `EmailChallenge`); the fields of an App record are a function from
  `Field` to `Value`; a payload that differs under the same key is refused before it
  could create anything. Accounts exist from the start and are never merged.

### Accounts, AdminSessions, McpOAuth: correspondence to the code

* `accounts`, `identities`, `profiles` are the tables behind a login. `CreateAccount`,
  `CommitLinkIdentity`, `CommitUnlinkIdentity`, `WriteProfile` are the repository's batches with
  the conditions of their statements: the partial unique index over linked logins
  (`Unlinked`), the credential version (`VersionCurrent`), the identity that remains
  (`RemainingLinked`). `joined` is history.
* `sessions` is `cas_admin_sessions`; a row is a pre-login, a link or unlink in progress, a code
  of the command line, a session or a transaction of the OAuth front door. A handler is cut at
  each await: `BeginCallback` takes the row, `AuthorizeLogin` ... `CreateInvited` resolve the
  login, `CheckLink` ... `ResolveAfterMutation` are the mutation of credentials, `Persist`,
  `Rotate`, `Answer` write the successor, delete the predecessor and answer. `Call` with
  `Endpoints` is the guarded API (session, CSRF token, authority), `Drop` the expiry of rows,
  `Abandon` a worker that stops.
* `McpOAuth` adds `grants`, the state of the OAuth library (external), with both transactions
  (`TakeTransaction`), consent, exchange, revocation and tool calls, which resolve the login once
  more (`ResolveActor`). `AuthorizePlatform` and `Act` only end a call: what a tool then does
  is a batch of `ControlAccess`.
* Abstractions: tokens and signatures are ideal (a row is presented only by whoever was
  given it), providers answer with any login, an invitation's address is verified for the
  logins in `Evidence`. `proofs`, `parent`, `given` and `consent` are history.

### FileTree, FileRoots, SpacesLogin, BlobTree, SpacesApp

* A manifest is content-addressed, so the tree stands for its hash. `FileTree` holds the edits of
  a working tree with their refusals, implied directories included.
* `FileRoots` follows one Principal. `StartEdit`, `Retain`, `CheckRevision`, `CommitRoot`, `Reread`,
  `ReleaseUpdated`, `ReleasePrevious`, `Undo`, `AssertRetained` are the mutation of
  `SpacesFileService` with the catalog's batch; `ListPending` ... `Reconciled` the
  reconciliation, after an edit or by the scheduled trigger (`CronReconcile`); `StartSession` ... `FailRun` the smoke
  runs and their clean-up. Root references in the store are a bag, `applied` the
  updates under a stable identity, which is what `RootLedger` promises. `Stop` ends an
  invocation between any two steps. `leaked` notes references of commits that stopped before
  their undo: the code has no record of those either. `returned` notes that a manifest was
  retained again while something could still release it (`Owed`): a queued release, another
  invocation under way, or the release of the root itself under its stable identity.
* `SpacesLogin` is attempt, callback, exchange, identity and session, `BlobTree` the upload
  of a blob with the index nodes it builds; there the store is external (nodes become ready,
  leases run out, unprotected nodes are collected), and `BlobReadsBack` compares `ReadRange`
  with the source for every range. The source is a sequence of bytes and a chunk is named by its
  contents, so equal chunks are one node; a group of the index comes with its first node, and
  nothing bounds the levels of the tree.
* Left out: overlapping invocations of the smoke client (a script that awaits every answer)
  and D1 batches whose outcome is unknown.

### Usage, Cutover, WorkerEntry, Service

* `Usage`: `InsertRow` ... `DeleteReservation` are the triggers, with the CHECKs as
  `Legal`; `Change` is a statement with its triggers. `StartPass`, `HeadObject`, `WriteNodeObservation`,
  `RepairForObservation`, `RepairOldestSpaceUsageProjection` are the scheduled pass,
  `StartSweep` ... `FinishPage` the App's collection. Observation and repair times
  matter as an order only and are lines. Rows older than the summaries exist at the start, and
  the backfill of the migration comes at any time.
* `Cutover`: one action per remote command of the job. `CommandFails` fails before the
  effect, `AnswerLost` after it, `ArchiveCut` between the triggers of the archive, `Killed`
  stops the job; `RecoverInspect` ... `RecoverUnfence` are the recovery. Writers of the old version go
  on until they meet the fence; the new version is deployed after a job that
  succeeded (the workflow's order). A request adds one reference to one node, so a ledger
  is its sum, revision, events and replay records.
* `WorkerEntry`: `Routed` is the dispatch of `handleFetch` by origin, path and headers; `RunStatement` executes the
  idempotent migration statement by statement in each isolate; `Rejected` clears the promise after a
  failure; `Scheduled`, `Work`, `TaskFails` are the scheduled handler, where a failing
  task stops the later ones.

### Issuers, SpaceClient, BrowserCache, Listings, CanonicalUpload, SmokeReset, CliSession, Access

* `Issuers`: `BeginInspect`, `InspectIssuer`, `CommitInspection` are the inspection with the
  discovery over both metadata kinds; `BeginActivate`, `CommitActivation` the activation, with
  the batch's conditions in `Committable`. `BeginCall`, `FetchAnswers`, `FetchFails`, `CheckToken`
  are the verifier: fresh record, refresh, stale record within the hard bound, key set.
* `SpaceClient`: `UseCurrent`, `Borrow`, `Acquire`, `Provide` resolve a capability;
  `RejectToken` invalidates it and replays a read once, `RejectScope` does not.
* `BrowserCache`: transactions run in the order they were opened (`queue`); `born` notes how
  many clears had begun when a load began. Left out: the channel between pages and the sharing
  of pending metadata.
* `Listings`: root balances by revision, root events by watermark, seven lists of the control
  plane under the snapshot, with the expiry that ends a traversal (`NextExpiry`) and the sweep of expired
  invitations. Writes that do not advance the snapshot (`AddUnannounced`: a first sign-in, a requested
  collection) are noted in `late`.
* `CanonicalUpload`: the kernels of the two-phase upload, each gate section one step, with the upload
  itself outside. No deployed route calls them; they are exported.
* `SmokeReset`: one action per stage of the script, two operators at once, requests that land after
  maintenance began (`late`), the script stopped and started again.
* `CliSession`: processes share the session file; the save is open, write, rename (`OpenTemp`,
  `WriteTemp`, `RenameTemp`). `overlapped` notes two saves of one process at once, which share
  their temporary file.

## Runs

| Run | Question | Instance |
| --- | --- | --- |
| `SpaceCasPair` | counts and protection under every interruption | parent naming one child twice; root taken, moved, released; clock to 3, one fault |
| `SpaceCasLeaf` | upload life cycle with bad bytes, replaced generations, re-used URLs, detached Root Ref attempts | one leaf, two generations, two durations, clock to 4, one fault |
| `SpaceCasLive` | requests answered, garbage reclaimed, stuck uploads recover | one leaf, fairness, two faults |
| `SpaceCasLost` | a documented promise the code does not keep | one leaf, detached attempts |
| `RootRefs` | ledger refinement, exactly-once, contiguity | two attempts, two Spaces, one of them gated, two request IDs, two change sets, two tries |
| `SpaceReads` | ungated reads of protected nodes | Pair with roots on the parent |
| `EmailChallenge` | attempts, codes, evidence, consumption and send limits under concurrency | two requests, two challenges, one attempt, two sends, life of 3, clock to 4 |
| `ControlAccess` | guards, keys, revisions, snapshot and audit under concurrent administration | two accounts, two requests and a listing; five workloads; clock to 2 |
| `Logins` | credentials, sessions and consents under concurrent flows | two accounts, three logins of two providers, two requests; nine workloads with two to five rows, clock to 3 |
| `Spaces` | edits, releases, smoke runs, sign-in, blobs | two invocations, three paths, revision to 3, one fault; two callbacks on two attempts; blobs of 0 to 9 bytes, distinct or repeating, in chunks of 2 and groups of 2 |
| `Service` | usage, sweep, cut-over, migration | two Spaces with three nodes, pages of one, four writes; three requests, two guards, two jobs, two failures; two isolates, two statements, two troubles |
| `Access` | everything that reads through a cache, a page or a file | two of every actor; clocks to 3, two changes, three writes, two resets |

Bounds. Two hashes with a doubled edge are the smallest graph in which a parent
outlives or loses a child and in which occurrences differ from distinct children;
the theorems cover all graphs. One time unit for lease, session and clean-up and a
clock of 2 to 4 let every deadline pass before, during and after each operation.
`MaxGen` bounds upload generations (`LeaseBound` gives up beyond it, so that the
bound never blocks the gate); two generations are enough for a superseded key beside
a current one. `MaxQueue` is 1: with the request that holds the gate and the attempt
in the domain object, three requests are in progress. `MaxFaults` lets one
interruption follow another in `SpaceCasLive`. In `RootRefs`
two attempts suffice for every pairwise race and `MaxAttempts` 2 for a retry after each.

In `EmailChallenge` two requests suffice for every race on a row, one attempt and two
sends for a counter to be short of and at its limit, two challenges for a second
callback; the requests are interchangeable, which `RequestSymmetry` uses. All bounds
but those on the clock and on the number of rows are parameters of the code.

In `ControlAccess` two requests suffice for every pair of batches that were decided on
together, and two accounts for a last member and a last administrator. All operations at
once are beyond TLC; `SomeWorkloads` explores them in five groups, each with the
operations that touch the same rows (the
theorems have no such bound). A page of one row and two members give two pages;
`MaxRevision` 2 admits two patches of which one must lose. A key lives for one time unit, so it is
used before and after its end. The nine workloads of `Logins` are built the same way: two
logins at one provider and one at another, so that a flow can come back with the wrong login, and the
rows that two concurrent flows of each kind need.

In `Spaces` two invocations race for the catalog row while a third party (the scheduled
trigger) is one of them at another time; four requests over three paths contain an edit that restores an
earlier manifest (`returned`), which is where content-addressed roots can be confused. The
sources make blobs without chunks, with a short last chunk, with an exact group and with three
levels, and, where the bytes repeat, index nodes that name one child twice. In `Service` a page of one Space and a pass of one row make every loop go round;
two failures let recovery fail after the job did, two jobs let a second run follow.
Two isolates and two statements interleave two migrations. In `Access` actors, caches and backup
directories are interchangeable within a workload (`Symmetry`); every property that is checked with
a symmetry is a state or step property.

Deadlock is checked in every run of a Space, of the Root Refs and of the control plane; a
request can always arrive or be served. It is not checked for `EmailChallenge`, `Logins`, `Spaces`,
`Service` and `Access`: logins, uploads, jobs and scripts end, and the bounds on time and
writes are reached.

Fairness. In `FairSpec` of `SpaceCas` the holder of the gate goes on (`WF(GateStep)`): each storage
call settles, successfully or not. The domain object goes on (`WF(RrStep)`): its
retries are bounded. The clock advances. `SF(RequestGc)`: collections are asked for
by the operator's maintenance (the App collection endpoint), again and again;
the code itself schedules none. Strong fairness is needed because the bounded queue
may be full each time. Lease requests, PUTs and faults are not fair. Faults are
bounded, so the liveness results are about a system that is left alone in the end.
In `Spaces` an invocation that is not stopped goes on and the scheduled trigger (cron) comes again;
nothing makes clients edit. In `Service` the scheduled pass starts again and again and its
calls answer; a failing HEAD and writes are not fair and are bounded.

### A disagreement between documentation and code

`SpaceCasLost` is a run expected to fail, with a finding in `PROJECT.json`: a Root Ref attempt that
outlives the Space object's call commits after a collection deleted the node; the projection
counts a root without a row.

Noted without a run, because it is read off the code, concerns wording or is a matter of one line:

* Store. `cas-architecture.md:261` says a future lease of a row without
  content "can require re-upload", while `leaseDrivenNodeUpload` answers 503 until a
  collection removes the row (`GarbageReclaimed` shows that one does). A signed URL used again
  after publication leaves a temporary object that no row tracks (`service/src/node-lease.ts:476`,
  `cas-operations.md:95`). A metadata read overtaken by a collection answers with no
  references instead of 404 (`node-read.ts:73`, `cas-architecture.md:480`). A joined lease request
  is answered with the duration of the evaluation it joins. The expiry reported with a URL is
  computed from the arrival of the request, the signature from the time of signing. The comment
  at `space-do.ts:65` describes a cache that is written and never read. Recovery of an orphan
  inserts an upload record without consulting the limit of `cas-operations.md:92` (1024
  active generations). A replay that is not behind the gate and overlaps its first attempt may be told
  `ROOT_REF_BUSY` although the update is applied (`app-user-api/http-api.md:312`).
* Control plane. The batches that remove a member and patch an App do not look at `blocked_at`
  again (`account-repository.ts:1017` and `:857`), unlike the others, so a request of an account
  that is blocked in between still commits. An expired idempotency row still occupies its
  key, so a later request with that key fails on the constraint. `commitCreateInvitation` of
  platform invitations expects a guard failure where a concurrent duplicate key raises a constraint
  failure. A removal refused as the last member's is answered "removed" when another account
  joins before the members are counted again (`account-repository.ts:1073`). A first sign-in
  (`account-repository.ts:1340`) and the audit row of a requested collection (`:809`) do not advance the control
  snapshot; who polls audit events with `after` can miss a late commit with an earlier time.
* Sign-in. The hourly clean-up deletes an expired challenge together with the record of its last
  message, so a callback right after it sends again within the minimum interval
  (`email-challenge-repository.ts:32`, `deployment-and-local-configuration.md:227`). The command line's
  code is read and then deleted, so two exchanges at once both succeed (`bff.ts:1440`, called
  one-time at `bff.ts:115`). A tool call acts for whoever has the login when it resolves it, which
  after an unlink and a link is another account than the grant's (`mcp/server.ts:696`,
  `cas-control-plane-mcp.md:65`).
* Spaces. An edit that restores an earlier manifest whose release is still queued leaves that release
  in the queue; the reconciliation reads a positive count (`file-service.ts:258`) and drops the
  reference of the cataloged root, for which `spaces/README.md:223` asks a positive Root Ref
  (hence `~returned` in `RootsAccounted`). The same restoring edit can lose the release of a reference
  instead: a manifest that comes back and is replaced again while its first release is queued adds
  no second row (ON CONFLICT DO NOTHING), and one that comes back after the root's own release was
  applied is released under an identity that is answered as done. A smoke run that stops after the release of its root was applied and before
  its row is deleted cannot be cleaned up any more, since the next clean-up first requires the
  manifest to be retained (`file-service.ts:216`), while `spaces/README.md:177` calls failed runs
  recoverable. `update` answers the revision of a later row when another commit comes before it
  reads again (`Reread`).
* Clients. Acquisitions of one class are shared (`space-client/README.md:173`), so a call may join one made for
  another Space and send a capability that does not cover it. A read of the browser cache begun after the generation is
  raised and before the clear's transaction remembers the old entry in memory. A CLI login whose
  callback comes before it waits loses the code (`login.ts:80`) and a failed one never
  closes its loopback server; two saves of one process share a temporary file
  (`store.ts:59`); the stdio server never reloads the file. The upload kernels' `finalize` takes
  the parse result as an argument and would publish a row without content if called without the
  inspection (the mutant of `ReadyAnswersHold`).
* Operations. The cut-over's recovery reports "fence-preserved-manual-recovery" also when
  the drop of the fence took effect. A reset loses what lands after maintenance began and deletes OAuth
  keys without a backup. A Space request on a control database without the registry is
  answered 401. A scheduled task that fails keeps the later ones from running. The key
  set of an issuer is kept in memory after the registry failed closed (`cas-operations.md:531`).

## Proofs

The theorems hold for every value of the constants that satisfies the named assumptions of the
modules: any number of nodes, workers, requests, accounts, Spaces and runs, any acyclic graph, any
durations, limits and bounds. The assumptions are typing (what a request or a document is made of),
finiteness of what is counted, placeholders that are no members of the set they stand beside
(`NoCapability`, `NoOne`, `None`, `Null`, `NoFolder`), positive limits and life times, and four
relations the deployment has: references are acyclic (`RankAssumption`), a cached issuer record is
refreshed before its hard bound (`CacheTtl < HardBound`), challenges are kept at least as
long as the interval between messages (`Retention >= MinInterval`), and a Principal starts with a tree
over known paths (`StartAssumption`). TLC evaluates all of them on every run.

Each proof has the same plan: a predicate for the shape of the state, the inductive strengthening
below, one lemma per action (or per kind of action: steps that leave the tables alone share a
frame lemma), a lemma that dispatches on `Next`, and the theorem.

* `SpaceCasProofs`. `ChildRefsExact` is not inductive: a commit relies on the children
  having been found ready when the put was made, and a collection on the victim
  being unreferenced when it was picked. `Inv` adds that the request at its "commit"
  step has ready children (`CommitReady`), that the row a collection is about to
  delete has no parent and no lease (`VictimUnreferenced`, `GcClock`: the collection's clock does
  not run ahead), and that a row without content is unreferenced and unleased
  (`GhostUnreferenced`). With cardinality lemmas for the edge sets this gives
  `ChildCountsExact`, `CanonicalObjectsIntact`, `LeasesProtect` (together `ContentIsHeld`) and
  `LeasesNeverShorten`, in both modes of the Root Ref call. `LeasesProtect` does not
  need induction along the graph: the set of protected nodes with content is closed
  under edges, so it contains everything reachable.
  `UploadInv` is about the upload tables: generations are numbered (`RecordsNumbered`), the clean-up list
  holds only superseded ones (`CleanupSuperseded`), a reservation has a record (`ReservationBacked`),
  and the holder of the gate gives up a temporary key only for one of three reasons
  (`HolderKnows`). It gives `UploadsAreAccounted` and `StagedUploadsStay`.
  The theorems about roots assume `~DetachedRootRefs`. `GatedInv` adds that an attempt exists only
  behind the gate, that what it checked still holds at its batch (`PlanCurrent`), that
  counted roots have rows, that a collection's victim and a row without content have no
  root, and that rows carry no reservation. Results: `RootCountsAgree` and with it `CountsAreExact`,
  `GhostRowsCollectable`, `RootsAndLeasesProtect`, `ProtectedNeverReclaimed`, `GrantsAreKept`, and with
  `ReadInv` (a read that was safe so far has seen the node's own row and edges) `ReadsAreIntact`.
  `SpaceCasLost` shows that the assumption cannot be dropped.
* `RootRefsProofs`. `Inv` adds to the audit and count invariants that request rows are
  unique and that an attempt whose expected revision is current has planned from the
  current balances (`Sound`). Results: `AuditIsContiguous`, `CountsAgree`, `AppliedAtMostOnce`,
  `AnswersAreDurable` (together `RequestsAreAccounted`), the refinement `ImplementsLedger` and
  `GateExcludesBusy` for the Spaces in `GatedSpaces`.
* `EmailChallengeProofs`. None of the properties is inductive alone. `IInv` adds
  that ids are given out in order (`FreshIds`: a deleted row never comes back), that
  the code of a row is the number of its sends (`CodeIsSend`), that what a request read
  of a row admitted the write that follows (`SeenAdmits`), and that evidence exists only
  of a challenge that is verified or gone (`EvidenceSpent`). Results:
  `ChallengeTypes`, `LatestCodeVerifies`, `EvidenceIsUnique`, `ConsumedTogether` (with the attempts: `EvidenceIsAccounted`),
  `InvalidatedIsFinal`. `SendsStayLimited` needs `SendInv`: a request decides by the clock it read at
  its start, so the invariant speaks of every time at which the limits would admit a send, and says
  that the rows left in the table then count all recent sends of the window (`WindowCounted`,
  `LatestCovered`).
* `ControlAccessProofs`, for clients that use all operations at once.
  `Shape` adds to `TypeOK` that a request holds what its batch uses. Every step is quiet
  (it leaves the tables alone, `QuietShape`) or one batch, so that each invariant needs one
  case per batch. The counts in the guards give `AppsKeepMembers` and
  `PlatformKeepsAdmins` by cardinality (together `AuthorityIsKept`); for blocks the actor, an active administrator other
  than the target, remains. `UsesAreSingle` follows from `UsedOnce` (accepted means exactly one
  account, anything else none) and from keys that name what they created. `AuditIsComplete` compares the
  condition of each audit row with the effect of its batch, `PatchesKeepOtherFields` the patch with the
  revision it was decided on, and `ListingsAreWhole` follows the pages under the snapshot.
* `LoginsProofs`. One invariant, `LoginInv`, for the three modules of sign-in: every account with an
  identity has one that is linked and no login is linked twice (`AccountsGood`), rows of a kind carry
  what that kind promises (`SessionsGood`), a request in the middle of a flow still holds what it proved
  (`ReqSound`, which compares credential versions), and a consent is in one place only: in a row, in a
  request or in a grant (`ConsentsOnce`). Results: `AccountsKeepLogins`, `SessionsAreSound`, `ConsentsGrantOnce`.
* `SpacesProofs`. `AttemptInv` keeps the callbacks of an attempt apart (`AttemptsOpenOneSession`).
  The files have the largest invariant, `Core`, which counts references per manifest: `Upper` says that
  the store holds at most what was leaked, what is cataloged, what commits under way hold and what is
  queued and not yet released, and `Lower` that a manifest which is cataloged or may be by a
  commit under way is held for each of them, and that nothing is about to release it (`Free`).
  `KnownInv` says that a root and a revision name one row, none newer than the cataloged one. Where the smoke client is at
  work, one invocation runs at a time and `SmokeInv` adds what it may rely on (`SmokeTrue`) and that roots, queued
  releases and applied updates belong to runs that were started (`RunsKnown`). Results: `ReferencesAreAccounted` and, from the
  uniqueness of rows, `EditsAreNeverOverwritten`.
  `BlobsReadBack` needs `BlobInv`, which says where the source is while it is uploaded. There is a
  function from the nodes that were made to the bytes they stand for, such that a leaf stands for its
  own bytes and an index node for those of its children, one after the other, with their sizes
  (`Telling`); the groups, from the highest level down, and the node in hand after them tile the part of the
  source that was read (`Tiled`, `HandKept`); what is ready has ready children (`Complete`), which is what keeps
  a collection from cutting into the tree. A new node may be an old one, so the function is shown to grow without
  changing what it said (`Grown`, `Learns`). `RangeRead` then says that the recursive read of
  `ReadRange` answers, at every level and for every range, the bytes that the node stands for.
* `ServiceProofs`. `EntryInv` (a resolved migration left a whole schema: `HandlersFindWholeSchema`);
  `CutoverInv` (what holds before the marker, under the fence, after the marker, and what the stage of the job
  knows of them: `CutoversAreSafe`, for any number of failures and jobs); `UsageInv` (once the
  backfill ran, the summary is the recount of the rows, statement by statement: `SummariesAreExact`); `SweepInv` (a steady
  Space is behind the cursor and visited or still ahead: `SweepsVisitSteadySpaces`).
* `AccessProofs`. `RegistryInv` (an operator's job still says what was inspected) for `ActivationsAreFenced`;
  `VerifierInv` (what the cache says was true when it was read, per call) for `GrantsAreBounded`; `ClientInv`
  (every capability in use was issued, none of them dropped) for `DroppedCapabilitiesStay`; `CuInv` (child
  counts, ready children, what a task has checked) for `ReadyAnswersStay`; `ResetInv` (what was removed is in
  a backup of the run that owns it) for `ResetsKeepData`; `CliInv` (file, memory and answers of a process are
  ordered by rotation) for `SavedSessionsWork`; `CacheInv` (nothing older than a finished clear is in a
  queue, in memory or in the database) for `ClearsAreFinal`. `ListingInv` is for `PagesAgreeAlways`: a row's rank
  is the number of rows before it (`RowsBefore`), so that the page after a cursor is the next part of one enumeration
  (`Ascending`); what a traversal delivered is the part up to its cursor of the rows at its
  snapshot, at its revision or below its watermark, whichever its kind of listing fixes, and the writes that come in between do not
  change that part.

Counts over finite sets that the models define by recursion or `CHOOSE` (`SendsInWindow`, the summaries of
`Usage`, the weight of the cache) are related to cardinalities by well-founded minima written out
by hand (`SendsCounted`, `SummedCounts`, `WeightCounts`). The same device, a least counterexample (`LeastMember`),
takes the place of induction over a blob's children and over the levels of its tree (`EndsAdd`, `FlattenParts`, `RangeRead`).

Only model-checked: the liveness properties `LeaseServed`, `GarbageReclaimed`, `StuckUploadRecovers`,
`QueuedReleaseCompletes` and `UsageSettled`, since fairness is beyond the prover.

## Not modelled

* Codec: pure functions over bytes. The models take what they guarantee: bytes parse and hash to the name, or not.
* Protocol packages (routes and schemas), web UI and sites, tracing: no state a property is about.
* Smoke and deployment scripts other than the cut-over and the reset: straight-line clients that assert on answers.
* Of the modelled parts: HTTP and cookie syntax, pages, ranges of an HTTP response, streams, encryption of
  invitation tokens, column migrations of old databases, wording of refusals.
* A migration promise whose initiating request is cancelled, a cut-over command that is killed and applied
  later, a deployment during a reset: the platform's behaviour there is not stated by the code.

## Plan

1. Done: all modules above and their runs; theorems for every safety and action property the runs check.
2. `FileRoots` against `RootLedger`; an abstract access ledger that `ControlAccess` implements.
3. The streaming parser of the codec against the whole-buffer one.
