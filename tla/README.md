# Skydriver: TLA+ models, checks and proofs

Skydriver is an encrypted virtual filesystem whose files are complete,
immutable provider objects. A Cloudflare Worker (`control-plane/`, Rust over a
D1 database and R2) keeps the namespace; clients (`crates/`) upload to and
download from the providers directly. This directory models the parts of both
whose correctness rests on the order in which the separate statements, calls
and file operations of concurrent requests, cron runs and processes meet, and
on what happens when one of them is late or lost.

## 1. The system

| Part | State | Operations | What is hard about it | What makes it correct |
|---|---|---|---|---|
| Put protocol (`vfs_put.rs`, `vfs_put_commit.rs`) | intents, upload evidence, files, versions, locations, receipts | prepare, record evidence, plan roots, commit batch | optimistic plan read in many statements; expiry and revocation before the batch; retries of a lost answer | a put is published once, for the evidence recorded; no update is lost |
| Directories (`vfs_directory_management.rs`, `vfs_namespace_mutation.rs`) | directories, entries, catalog head | mkdir, remove, rename | the same plan protocol, for rename over two branches; emptiness is a separate read | Merkle roots agree with the entries; the directories stay a tree; no entry below a removed directory |
| Policies and mounts (`vfs_policy_management.rs`, `vfs_mounts.rs`) | driver of each directory, grants, their revisions | list, replace | checked before, written after; revision and rows listed in two statements | files and directories agree on their driver; a replacement replaces what was listed |
| Directory reads (`management.rs`) | none of their own | read, page | six statements and a fence | an answer is one state of the tree |
| Guard triggers (`migrations/`) | none of their own | decide whether a batch commits | compare-and-swap statements that match no row fail silently | they cover every silent failure |
| Downloads (`vfs_download.rs`) | read leases | plan, complete | plan and lease are different statements, the provider read is invisible | a leased object is there |
| Server lifecycle (`vfs_server_lifecycle.rs`, `driver_lifecycle.rs`) | location delete tasks, multipart cleanup tasks | mark, create tasks, claim, revalidate, delete, settle | overlapping cron runs, a time captured once, provider calls without effect or without answer | nothing reachable or leased is deleted; what is recorded as deleted is gone |
| Abandoned uploads (`maintenance.rs`, `vfs_put_deletion.rs`) | put delete tasks | expire, create tasks; claim, revalidate, complete, fail by cron and clients | two kinds of workers on one claim, rotating fences, LIMITs | a published object is never cleaned up |
| Catalog (`vfs_catalog_*.rs`) | revisions, outbox, artifacts, published head | materialize, deliver, clean up | artifacts in R2 and rows in D1 are written separately by runs that stall and overlap | the head can always be delivered, and is the tree of its revision |
| Catalog client (`catalog.rs`, `vfs.rs`, plans of `sync.rs`) | shared store of nodes, head receipt | fetch, accept, store, prune, plan | several processes, damaged files, a tree that changes under the walk | a plan is the source at one revision |
| Synchronizer (`sync.rs`, `download.rs`, `publication.rs`) | destination, state index, staging | evaluate, reuse, download, publish | overlapping syncs, kills, edits, wrong bytes | success means the destination is the source |
| Upload (`transfer.rs`, `r2.rs`, `local.rs`, `crypto.rs`, `vfs_grants.rs`) | staged file, multipart journal, grants | encode, upload, resume, read back, commit | processes that share journal and staging; abandoned multipart uploads | evidence names what is at the provider; every granted upload is settled |
| Driver credentials (`driver_credentials.rs`, `driver_renewal.rs`, `management_driver_credentials.rs`) | sealed credential, refresh row and claim, authorization claim | renew, replace | single-use refresh tokens, claims that lapse | a token is spent once; the schedule follows the credential |
| Management (`management*.rs`) | configuration rows, receipts, audit events | validate, apply, read back, page | validation may be stale at apply; keys reused; answers lost | a receipt stands for what it says |
| Operator sessions (`operator_sessions.rs`) | sessions, rate limits | login, enable, logout, retire | concurrent wrong attempts with old clocks | a block holds |
| Authorization (`vfs_access.rs`, tokens, envelopes) | tokens, grants | check, issue, revoke | checked before, used after | nothing commits on an authority the protocol re-checks and that is gone |
| Go oracles (`transfer/journal`, `driver/localfs`, `vfs/`), web console, CLI | see section 6 | | | |

The parts meet in the database and at the providers. A commit writes the
version and location that a download plans on and that the lifecycle later
marks; a put or remove takes away the pin that keeps a location; an intent that
expires turns the uploaded object over to the cleanup; switching a driver
changes the revision that every delete task has pinned; every mutation queues
the revision that the materializer publishes, the catalog client turns into a
plan, and the synchronizer carries out. Only a D1 batch is atomic, so each of
these can be interrupted between any two statements. `PROJECT.json` lists all
components, and under `hazards` the lines where this bites.

## 2. Modules

| Module | What it is |
|---|---|
| `VfsNamespace` | prepare, put commit, mkdir, remove; planners, Merkle roots, batches, receipts |
| `VfsTree` | rename, put, mkdir and remove on several branches; drivers, mounts and ACL rows; reads of a directory |
| `VfsServerLifecycle` | downloads with read leases; mark, delete tasks and provider deletion of published objects |
| `PutDeletion` | expiry of intents; delete tasks of abandoned uploads, worked on by cron runs and token clients |
| `CatalogTree` | checkpoints, deltas and how one is rebuilt from the other (operators) |
| `CatalogPublisher` | abstract: what the catalog promises its readers |
| `CatalogMaterialization` | the scheduled materializer; implements `CatalogPublisher` |
| `CatalogClient` | delivery, the client's store of nodes and the plan of a sync, composed with `CatalogPublisher` |
| `SyncToLocal` | the synchronizer from the plan to the state index |
| `PutUpload` | the client's upload, its journal, the grants and the cleanup of multipart uploads |
| `OperatorSessions` | operator logins, configuration sessions, rate limits |
| `ManagementPlane` | the validate, apply, read back protocol and audit pages, composed with `OperatorSessions` |
| `DriverCredentials` | renewal and replacement of a driver's credential |
| `VfsNamespace_proofs`, `VfsTree_proofs` | theorems about the namespace (section 4) |
| `Download_proofs` | theorems about how files are read: `VfsServerLifecycle` and `SyncToLocal` |
| `Cleanup_proofs` | theorems about `PutDeletion` and `CatalogClient` |
| `CatalogMaterialization_proofs` | the refinement of `CatalogPublisher` |
| `PutUpload_proofs`, `ManagementPlane_proofs`, `DriverCredentials_proofs` | theorems about these modules (and, through `ManagementPlane`, `OperatorSessions`) |
| `MC*` | instances for TLC: small trees, scenarios and symmetry sets |

Where one module of proofs extends two components, the second names its
specification after itself (`SyncSpec`, `ClientSpec`), and the constant for
"none of them" is `Nil` in `SyncToLocal` and `NoOne` in `PutDeletion`.

### VfsNamespace

One variable per table (`dir`, `entry`, `file`, `version`, `intent`,
`evidence`, `receipt`, `head`), and per request in flight (`Workers`) its place
in the handler (`pc`), what it loaded first (`task`), and the root planner's
cursor and result (`walk`, `steps`). Every D1 statement of a handler is an
action: the start of the handler, the evidence insert, the read of the file
row, then for each directory on the way to the root the read of its row, the
read of its entries and the reload that tells contention from corruption, and
the batch. `PutBatch`, `MkdirBatch` and `RemoveBatch` are the batches that
commit: their guards are what the triggers of the migrations and the unique
indexes demand after the compare-and-swap statements of the batch. `RefusedBatch`
is a batch that aborts; the request plans again, at most `MaxAttempts` times.
`Crash` ends a request anywhere, `Lapse` and `ExpireIntent` are the clock and
the cron. Because a second request may start with the same key or intent at any
time, a retry may race the request it repeats.

`authorized` is what is left of the token's authority, in two parts, because the
protocols re-check different parts of it. `Revoke` takes the token's own row, its
principal or the ACL grant away (`TokenHolds`), `RevokeParent` a token it was
attenuated from (`ChainHolds`). Every request walks the chain when it starts
(`authenticate`, `vfs_access::authorized`); a mkdir's trigger walks it again
(0025:172); the triggers of a put re-read the token's own row, the principal and
the ACL (0022:320, 0022:594); a removal's re-read nothing.

Abstractions: a digest is the set of what it covers (no collisions); a version
stands for itself and its one location; all requests carry one token, and
authority that is lost is not given back; the reads a handler makes after a refused
batch (the receipt of a competing retry, the state of the intent) are made with
the refusal. A directory's policy, keys and ACL are left out: changing them
does not touch the rows modelled here.

### VfsServerLifecycle

The namespace is reduced to what the lifecycle reads of it: whether a live entry
still pins the version of a location (`Replace`, `Remove`). A run (`Runs`) is
one cron invocation with the time it captured; its statements are the actions
`Mark`, `CreateTasks`, `SelectTask`, `ClaimTask`, `LoadFence`, `LoadTask`,
`DeleteObject` (the provider), `CompleteTask` and `FailTask`, and `LoseRun`
cuts it off anywhere. A read is a download plan that loads (`PlanDownload`) and
then inserts its lease (`GrantLease`). `ChangeDriver` is the switch of the
management plane; `driver.local` is a driver on an agent's host, which the
server cannot reach. The provider may delete, find nothing, refuse for good, or
fail with or without effect.

Left out: snapshots, which protect a version the way an entry does and whose
late creation is not modelled; the renewal of credentials within a plan, which
only makes the time between load and lease longer; the second and later of
several locations of one version, which the put protocol never creates.

### PutDeletion

`Upload` and `Commit` are the put protocol as the cleanup sees it. `Hygiene` is
the batch that expires intents and creates tasks, each with its `LIMIT`. The
run's actions are those of the lifecycle on the other table. A client's `claim`
is five actions (`ClaimRequest` captures the time, `ClaimSelect`, `ClaimUpdate`,
`ClaimReload`, `ClaimLoad`), because it reads the row it answers with only
after its update; `Revalidate`, `Complete` and `Fail` each rest on one guarded
update, made at a time the handler captured earlier (`RequestTimes`). The
client's own provider delete is external. The view `safe_vfs_put_delete_tasks`
uses the database clock, everything else the captured time.

Left out: the incarnation in the claims (only a restore of the database changes
it) and the authorization of the client, which is assumed to hold.

### VfsTree

`dir` and `entry` are the two tables, with the driver, mount and policy
revisions of a directory in its row; a revision stands for the Merkle root that
goes with it, since every statement that writes `data_root` also raises the
revision. `req` holds the mutations in flight. A rename loads the entry
(`StartRename`), walks the two chains of ancestors row by row (`Walk`), and then
plans and sends its batch (`RenameBatch`, `RefusedBatch`). The reads that the
batch repeats by its compare-and-swap statements are merged with it: the
planner compares the entries with the row it read, the row is in the plan with
its revision, and every row of both chains is in the plan, so that a batch
commits only if the rows are still those of the walk. `pol` holds replacements
of the driver or of the grants of a directory: `List` and `ListRows` are the
two statements of the client's list, `StartPlacement`/`StartAcl` the checks,
`PlacementBatch`/`AclBatch` the batch. `rd` holds the console's read of a
directory, one action per statement, and the pages that follow it.

`mislaid` records that a removal took an entry whose subject it had not loaded
(the directory variant of `remove_stale`, section 3): a directory is renamed
away and another made under its name, both at revision 1, and a removal that had
loaded the first deletes the entry of the second and tombstones the first, still
in use elsewhere. `TreeShape`, `MountsSound` and `ReadIsSnapshot` hold as long as
this has not happened. For the read the condition turned out to be needed when its
proof was prepared: the tombstone changes a row in the middle of a path without
raising the revision of any directory above it, so that the fence of a read
below does not notice. The scenario with a mkdir and a removal beside a read
reaches that state in the run `tree`.

Left out: receipts, idempotency keys and authority, which are in
`VfsNamespace`; disabled drivers. Observed while modelling: the planners check
the depth of the two chains and not of what hangs below the moved directory, so
that a rename can push a subtree below the 32nd level, where every operation
then fails, moving it back included (`vfs_put_commit.rs:688`); a directory can
never be renamed to a name that a removed directory once had, because its row
keeps the name; selecting the same driver again for a mount that is not empty is
refused by the insert trigger; the client's path-based replacement resolves the
path again after its list (`vfs.rs:1113`); `vfs_filesystems.revision` is never
written, so that member of the read's fence is constant.

### CatalogTree, CatalogPublisher, CatalogMaterialization

A tree is a set of links, a digest is what it covers. `CatalogPublisher` says
what readers may rely on: every mutation makes a revision, the head advances to
the latest revision whose checkpoint is in the bucket, checkpoints other than
the head's may come and go, the head's delta may be lost at any time, or come
late (`LateDelta`): a run that staged the delta and lost its claim sends its
batch after another run has published the revision without one and the namespace
has moved on; the delta statement of the batch does not ask for the claim, and
its trigger (0054) only for a published target, so it commits alone. The proof of
the refinement turned this step up; it is harmless, since the delta has the base
the head's predecessor gives it.
`CatalogMaterialization` has one variable per table (`outbox`, `rows` of
artifacts), the R2 `objects`, and `run`, the overlapping cron invocations. Every
call to D1 or R2 is a step: cleanup of one delta and one checkpoint, claim, the
two SELECTs of the tree with their verification, recording, writing and marking
the checkpoint and the delta, publication, collapsing and release. `Fault` ends
or fails a run at any step. The verification of the two SELECTs is a second line
of defence: a mutation between them also makes the batch refuse to publish the
older revision. Moments are relative to the present, so that time
is not bounded. `TreesAssumption` says that Merkle roots tell trees apart; TLC
evaluates it on the trees of the runs. `KeepsPromise` is the refinement: `Promise == INSTANCE
CatalogPublisher WITH` the bucket read off `objects` and the delta off the
head's row.

### CatalogClient

The catalog is `CatalogPublisher`; on top of it delivery answers from the head,
and `sync` is a list of client processes that share the store: the head receipt
(`headFile`), nodes addressed by content, a lock held only around the head, and
pruning by shards. Files may be damaged on disk, answers lost, processes killed
between two file operations. A plan is made from the stored checkpoint or by
walking live, revision-pinned pages, and ends with a final fence. What the plan
should be is stated without the walk: `FilesBelow` collects the files at the end
of all ways down from a directory (`Ways`), and `LeadsTo` says that a path names
a directory. `WalkAssumption` says of the trees what this rests on.

### SyncToLocal

The plan is a snapshot of the source (`PlanIsSnapshot`). `sync` is a process:
start under the lock of the destination, read the index, evaluate each path
(unchanged, reusable from another path, or to be downloaded), stage, download
with verification, publish, compare the fence again, write the index. The
source changes, the user edits, `fs get` writes without the lock, the provider
returns other bytes, the index is damaged, processes are killed. Syncs of one
source into different destinations share the index.

### PutUpload

One intent, tried by two processes that share the staged file and the multipart
journal; `kind` is the way to the provider (single signed PUT, R2 or S3
multipart, Aliyun, local directory). The steps are those of `put_file`: inspect,
prepare, encode, recheck the source, grant, upload parts from the journal,
complete, read back, commit. The cron's cleanup of the multipart upload bound to
the intent is a run with a claim. Left out: a driver that is reconfigured in
between. Observed while modelling: a source that is edited and restored while it
is encoded passes the recheck, hence the condition on `edits`; the cleanup
aborts the bound upload but does not delete the object, although
`management-plane-v1.md:207` and the comment of migration 0049 say it removes
both; a multipart upload retried after its journal was removed is refused
(`vfs_grants.rs:350`).

### OperatorSessions, ManagementPlane

Attempts read the clock once, check the blocks, and record their failure one
policy at a time; sessions open, expire and are closed. A management request is
validated, which signs proposal, revision and expiry, and applied: signature,
receipt under the key, current revision, then one batch with the guarded update,
the receipt whose trigger looks at the row, and the audit event. The kinds of
mutation differ in what their guards and triggers look at, so each has actions
of its own. `watch` is a client that pages through the audit events. Left out:
the deletion of audit events after 400 days (`maintenance.rs:223`); the check
that the last active principal is not disabled, a separate read; the content of
driver configurations. Observed while modelling: two operators who propose the
very same quota or annotation both get receipts for the one change; a quota
apply whose batch failed does not look for a competing receipt, unlike the other
kinds. `ManagementPlaneAssumption` holds what the proofs need of the proposals:
identities of different tables are different, and two proposals that create a
group of one identity are the same proposal, as the CLI leaves the identity out
(`lib.rs:1063`, `lib.rs:1113`) and `normalize_and_validate_shape` gives each
proposal a fresh UUID.

### DriverCredentials

`env` is the sealed credential, `row` its refresh row, `claim` the
authorization claims, `worker` the renewals (cron and grants), `op` the
operators' replacements. Each handler captures its second once and uses it in
every later statement. The provider takes a refresh token once. Observed while
modelling, and excluded by the conditions of the properties: `load_claimed`
takes whatever fence the row has and does not compare it with its own claim, so
a renewal that overran its claim, or whose claim was reset by a replacement,
shares another renewal's claim and presents the same single-use token
(`strayed`), although `driver_credentials.rs:57` says "concurrent callers simply
observe the winner"; and when another rotation, a renewal or another operator's
replacement, falls into the same second, the replacement's UPDATE hits no row
while its receipt passes the trigger, which tells rotations apart by their second
only (`Eclipsed`; the case of two operators came up when the proof was prepared). The lease test in the commit is vacuous, since it compares
with the second of the claim itself. A change of driver state that races a
replacement gives two receipts with the same final revision. Left out: the
signed validation, access-key credentials, the loop over several drivers.

## 3. Runs

Passing:

| Run | Instance | Shows |
|---|---|---|
| `put` | root and one seed directory, 1 name, 3 intents, 1 remove key, 2 requests, 2 attempts | Merkle roots agree with the entries, the planner never mistakes contention for corruption, no lost update (two of the three puts may replace the same version), settled intents stay |
| `mkdir` | 3 directories, 2 names, 1 intent with 2 commit identities, 2 keys, depth limit 2 | with directories that come and go: no entry below a removed directory or of a file that is not published, receipts are the catalog's history, publication matches the evidence recorded first, no put after its token lost its authority and no mkdir after anything in the chain did |
| `tree` | root, 2 directories and room for 1 more, 2 names, 2 drivers, 12 scenarios of 2 or 3 requests | the directories stay a tree, mounts and files agree on their driver, replacements replace what was listed, answered reads are snapshots |
| `lifecycle` | 1 location on a driver of either kind, 1 read, 2 overlapping runs, 3 time units, 2 driver revisions | a live leased read finds its object, deleted means gone, nothing pinned and nothing before its deadline is deleted |
| `put_deletion` | 1 upload, 2 clients, 1 run, 3 time units | a published object is never deleted, deleted means gone whichever worker settles the task, two clients never delete under one fence |
| `catalog_materialization` | 2 trees that share a node, 2 revisions, 2 runs, 2 faults | the head can be delivered as checkpoint and as delta; `CatalogPublisher` is implemented; the last revision is published in the end |
| `catalog_client` | 3 trees, 2 revisions, 2 processes, 2 shards, 1 fault | a plan is the source's subtree at one revision; every node of the stored head is there |
| `sync` | 2 paths that swap their contents, 2 revisions, 2 processes, 2 destinations, 3 syncs, 1 fault | a sync that reports success left the destination as the source was; only content of the source is published |
| `upload` | 5 kinds of driver, 2 processes, 2 parts, 2 cron runs, 1 edit, 1 fault | evidence names the bytes at the provider, a cleanup that reports success left no part, every granted upload settles |
| `management` | 2 attempts with a limit of 2 failures; or 2 requests, 2 keys, 3 calls, 6 workloads of proposals | receipts stand for what they say, calls are answered by their own receipt, pages are continuous, a block holds |
| `credentials` | 2 renewals, 2 operators of different accounts, 3 scenarios, claims of 2 seconds, delays of 3 | the schedule follows the envelope, a token is spent once, receipts hold, the account stays, claims settle |

Expected violation, where the code does less than the repository says
(`findings` in `PROJECT.json` quotes the lines):

| Run | Property | What happens |
|---|---|---|
| `remove_stale` | `NoOrphanedFile` | entries are identified by name and revision, and revisions restart at 1; a removal takes away the entry of another file of the same name |

Further configurations, to be run by hand. Four check more of the same modules:

| Configuration, module | Property | Shows |
|---|---|---|
| `MCTerminate`, `MCVfsNamespace` | `RequestsTerminate` | under weak fairness of each request, every put, mkdir and remove is answered |
| `MCLifecycleQueue`, `MCVfsServerLifecycle` | `LiveReadsKeepObject`, `GraceKept` | two locations compete for the queue and the limits of one run |
| `MCLifecycleLong`, `MCVfsServerLifecycle` | those of `lifecycle` | the same with 4 time units: a task is retried or reclaimed once more (5 million states, 5 minutes) |
| `MCDriverContended`, `MCDriverCredentials` | `SpentOnce`, `ReceiptHoldsCredential` | two operators replace the credential of one account while two renewals run (533,000 states) |

and the others end with a counterexample, each another place where the code does
less than the repository says:

| Configuration, module | Property | What happens |
|---|---|---|
| `MCRemoveTwice`, `MCVfsNamespace` | `RemovalRemoves` | the receipt trigger (0039:52) checks that the planned directories show the planned roots and that the entry is absent, which the first of two concurrent removals of one entry has made true; the second changes nothing and gets a receipt and a catalog revision of its own. `docs/vfs-v2.md:562`: "Changes to the same entry produce an explicit conflict." |
| `MCMkdirReuse`, `MCVfsNamespace` | `CurrentMkdirCommits` | the row of a removed directory keeps its (parent, name) pair (0021:111), so mkdir of that name aborts for ever, after four identical plans, with "roots remained contended". `vfs_put_commit.rs:810`: "a concurrent namespace mutation invalidates it and causes the caller to re-plan." |
| `MCLifecycleLease`, `MCVfsServerLifecycle` | `LeasesOnlyDelay` | a lease that is live when the task comes up blocks the task for good (`vfs_server_lifecycle.rs:463`). 0040:5: "abandoned clients can delay deletion, never make a live read unsafe." |
| `MCPutDeletionStarved`, `MCPutDeletion` | `AbandonedGetsTask` | expired uploads that already have tasks fill the LIMIT of the batch that creates tasks (`maintenance.rs:99`). 0036:3: "One expired or abandoned complete-object upload maps to one fenced delete" task |
| `MCPutDeletionClaim`, `MCPutDeletion` | `ServerKeepsClaim` | the server claims under the uploader's token, which may be handed the claim and rotate its fence (`vfs_put_deletion.rs:85`). 0040:31: "Compatibility-era abandoned-Put tasks are now claimed only by server cron." |
| `MCCatalogDeltaRequired`, `MCCatalogClient` | `DeltaNeverRequired` | when the delta's object is missing from R2, delivery answers with an error although the checkpoint is there (`vfs_catalog_delivery.rs:475`), and the sync fails. `docs/vfs-catalog-v1.md:261`: "Delta availability is never a correctness dependency." |
| `MCPutReplay`, `MCPutUpload` | `ReplayIsServed` | a put repeated after its commit's answer was lost is refused a grant (`vfs_grants.rs:208`) and never reaches the route that replays the receipt. `docs/requirements.md:192`: "An idempotent replay with identical canonical input MUST return its durable receipt." |
| `MCPutParent`, `MCVfsNamespace` | `ChainFencesPuts` | a put in flight when a token above its own is revoked commits: its triggers re-read the token's own row only (0022:594), and a revocation writes one row (`vfs_token_management.rs:537`). `vfs_tokens.rs:34`: the authorization "is repeated inside every mutation commit. A child token fails when any token in its attenuation chain is revoked"; `docs/vfs-management-v1.md:183`: "immediately invalidates the target's complete descendant chain" |
| `MCManagementStale`, `MCManagementPlane` | `ApplyOnlyIfCurrent` | of two updates of a principal or group for one revision both get a receipt, since the trigger (0059:74) looks at the revision only; one change is lost (`management_access.rs:478`). This is the case `ReceiptsHonest` excepts. `docs/management-plane-v1.md:270`: "Apply succeeds only if every observed resource revision is still current" |
| `MCDriverReceipt`, `MCDriverCredentials` | `ReceiptSeals` | of two replacements in one second the second is refused by the revision in its UPDATE and gets its receipt all the same; its credential is not stored (`management_driver_credentials.rs:336`). `docs/driver-spi.md:25`: "It alone seals the returned credential material and commits receipts and audit state."; 0033:17: 'driver credential receipt requires committed encrypted credential' |

### Bounds

Time is scaled: retention, grace, claim lease and retry delay are one or two
units each, so that every deadline can be met, missed by a run in flight, and
outlived by a second run: in `lifecycle` the replaced version is marked at 1, due
and claimed at 2, and its claim is taken over at 3. `CatalogMaterialization` and `PutUpload` keep moments
relative to the present and need no bound on time. The limits of the batches
(100 and the like) are 1 or 2, enough for a batch to be full and not full. Two
requests, runs, processes or clients are what every interleaving hazard listed
needs; a third actor is the clock, the cron, the user or the driver switch,
which are actions of their own, and a third request where `tree` needs one.
`MaxFaults` counts crashes, lost answers and damage together; two are enough for
a run that dies and a successor that fails over what it left. Two revisions are
enough for a head to be replaced while it is read; trees are chosen so that a
node is shared, a directory renamed and two files swapped. `MaxFence` bounds the
revalidations of a client, which may go on for ever; `MaxDriver` the driver
switches; `MaxCalls` the calls of the management plane; `MaxEdits` the edits of
the source. `MaxAttempts` is 4 in the code, 1 or 2 in the runs; `MaxDepth` is
32, 2 or 3 in the runs, and reached. `Retention` of rate-limit rows is assumed
to be at least a block and the delay of a request, as it is in the code.
Symmetry is used only in runs without liveness and only on sets whose members
the modules do not tell apart.

The scenarios of `tree` and `credentials` restrict the requests of one behaviour,
not what they do: each is an initial state from which the full next-state
relation is explored, and between them every pair of kinds that can disturb each
other occurs. `management` starts either before the login or with sessions open.

Deadlock is not checked where requests, keys, attempts or faults are used up and
nothing is left to do (`put`, `mkdir`, `tree`, `sync`, `upload`, `management`,
`credentials`); it is in the others.

### Fairness

Nothing is assumed of clients, operators or providers. The cron fires every 15
minutes (`wrangler.jsonc`) and the Workers runtime runs an async handler to its
end or cuts it off, which is an action of its own.

- `catalog_materialization`: time passes, runs are started, a run in progress
  takes its steps. Faults are bounded, so there are finitely many.
- `upload`: signed URLs expire, the intent expires, a claim lapses, cleanup runs
  take their steps. `Die` may end a run, at most `MaxFaults` times.
- `credentials`: time passes, the cron starts renewals, renewals and the
  operator's handlers take their steps. Deaths and refusals are bounded, so
  that in the end a renewal finishes within its lease; the code has no other
  guarantee of that either.
- `MCTerminate`, `MCPutParent`: each request in flight takes its steps.
- `MCPutDeletionStarved`: time passes, the cron fires again, a run makes
  progress, and not every run is cut off before its first batch (strong fairness
  of `Hygiene`). In its counterexample two uploads share an expiry time and the
  batch picks the same one every time; with different times the choice is forced
  by `ORDER BY expires_at`.

## 4. Proofs

Theorems hold for every value of the constants under the named assumptions of
the modules, which TLC evaluates in the runs. All are invariants or action
properties of the specification, or the refinement; each rests on an inductive
invariant. Every invariant and every action property of the passing runs is
proved; what TLC alone checks is listed at the end. What the assumptions say, beyond
naturals that are positive where the code's constants are:

| Module | Assumption |
|---|---|
| `VfsNamespace` | root and seeds are directories, seed names distinct, `None` not an identity, intents and keys disjoint |
| `VfsTree` | directories and names are finite, identities of directories and of requests disjoint, the absent ones not among them |
| `VfsServerLifecycle`, `PutDeletion` | `None`, `NoOne` not an identity |
| `SyncToLocal` | `Nil` not a sync, `Absent` not a version |
| `CatalogClient` | `None` not a sync; trees are finite and without cycles, the source is a sequence of names, and the equation that defines the recursive `DataRoots` holds of them |
| `CatalogMaterialization` | every directory of a tree has a Merkle root, and the root's determines the tree |
| `PutUpload` | the five kinds of driver; the contents of an absent or mixed file are not the contents of a file |
| `ManagementPlane` | tables are disjoint, initial rows satisfy the foreign keys, created groups have fresh identities |
| `OperatorSessions` | `BlockSeconds + MaxDelay <= Retention` |
| `DriverCredentials` | accounts of the operators are accounts, `ClaimSeconds <= MaxDelay` |

### VfsNamespace

| Theorem | States |
|---|---|
| `TypeCorrect` | `Spec => []TypeOK` |
| `PublicationHasEvidence` | `Spec => []PublishedAsEvidenced` |
| `UpdatesAreNotLost` | `Spec => []NoLostUpdate` |
| `SettledIntentsAreFinal` | `Spec => SettledIntentsStay` |
| `ReceiptsAreTheHistory` | `Spec => []ReceiptsAreHistory` |
| `TreeIsConsistent` | `Spec => []MerkleConsistent` |
| `NoFalseCorruption` | `Spec => []NeverCorrupt` |
| `EntriesNeverDangle` | `Spec => []NoDanglingEntries` |
| `AuthorityIsFenced` | `Spec => AuthorityFence` |

`TypeOK` is inductive: one lemma per group of actions. Rows that hold a root
are described by their shape and not by a set of records, since roots nest
without bound.

`NoLostUpdate` is not inductive: two intents may name the same version as
current while neither is committed. `HistoryInv` adds what excludes that both
commit. The intent a request loaded is never rewritten (`TaskInv`); whatever is
named as current was published (`CurrentInv`), and a version is published at
most once, by its own intent (`EvidenceInv`); so a version a committed put
replaced is not current any more and cannot become it again (`ReplacedInv`).
The second of two puts that expect the same version then fails the comparison
of `current_version_id` in its batch.

`ReceiptsAreHistory` needs only that the head never falls below the bootstrap
revision (`HeadInv`): a batch that commits writes the receipt of a key that had
none and moves the head by one, in the same step.

The tree is an argument about revisions. The entries
of a directory change only together with its revision, so a planned update
whose directory still shows the planned revision finds the entries it was
computed from (`UpdateInv`); and one whose directory shows the planned root one
revision later was made by somebody else already and changes nothing, which is
the case the guard triggers let through. `PlanInv` says that the plan is a chain
from the target directory to the root, each step holding the digest of its
directory with the planned child in it, so that a batch that commits rewrites
every directory on the way; `WalkInv` what of the row a planner loaded is still
true. `NeverCorrupt` follows: at the reload after a mismatch the directory's
revision has moved. For `NoDanglingEntries`, `PlaceInv` says that a file has one
place for life, the one its first intent names, so that whichever intents and
removals race for it, the entry, the file and the version are about each other.

`AuthorityFence` needs the types only: a new receipt comes from one of the three
batches and is of its operation (`ReceiptStep`). It says of each protocol what its
trigger still demands; that puts do not demand the chain is shown by
`MCPutParent` (section 3).

### VfsTree

| Theorem | States |
|---|---|
| `TreeKeepsShape` | `Spec => []TreeShape` |
| `DriversAlwaysAgree` | `Spec => []DriversAgree` |
| `ReplacementIsOfListed` | `Spec => []ReplacesWhatWasListed` |
| `ReadsAreSnapshots` | `Spec => []ReadIsSnapshot` |

An ancestor is what every set of directories holds that holds a directory and is
closed under parents; so stated, that a directory is not its own ancestor needs
no induction over the depth of the tree. `ShapeInv` says that active directories
have active parents that hold their entries (`Linked`, `Placed`) and that the
parents lead to the root (`Rooted`). A request that walked one or two chains of
ancestors holds rows closed under parents (`ReqInv`), so that a batch which finds
their revisions unchanged finds the chains unchanged, and a rename moves no
directory below one of its own descendants.

For a read, lemma `Fenced` says that the revision of a directory covers what is
below it: a batch either raises it, or changes nothing that an answer about this
directory shows or counts (`SameBelow`). Hence while the three revisions of the
fence are those a read began with, so is all it has read since (`Behind` in
`ReadInv`), and its pages so far are the first entries of the rest (`Paged`).

For the drivers, `MountInv` adds to `MountsSound` that a mount about to be made,
if its directory is still as it was listed, has another driver than its parent;
everything else the triggers of the batch check again. `PolInv`: the revision of
a list is read before its rows, and rows that are newer than it make the batch
fail. `ShapeInv`, `MountInv` and `ReadInv` are conditioned on `~mislaid`;
`RowInv` and `ReqInv`, on which they rest, are not.

### VfsServerLifecycle

| Theorem | States |
|---|---|
| `TypeCorrect` | `Spec => []TypeOK` |
| `ReadsKeepTheirObject` | `Spec => []LiveReadsKeepObject` |
| `DeletedObjectsAreGone` | `Spec => []DeletedIsGone` |
| `DeadlinesAreKept` | `Spec => []GraceKept` |

`GraceInv`: a task carries the deadline of its location, and a run at the
provider call saw that deadline pass at the time it captured. `LeaseInv`: no
lease on the location such a run is about to delete outlives that time. Leases
are inserted only while the location is available, which it is not any more, so
none is added after the check; and one that had expired at the captured time has
expired now. The claims play no part: a run that lost its claim is as safe.

### PutDeletion

| Theorem | States |
|---|---|
| `TypeCorrect` | `Spec => []TypeOK` |
| `PublishedIsKept` | `Spec => []PublishedKept` |
| `DeletedObjectsAreGone` | `Spec => []DeletedIsGone` |
| `FencesAreExclusive` | `Spec => []ClientFencesAreExclusive` |

`TypeOK` holds the CHECKs of the task table and is inductive with them.
`PublishedKept` and `DeletedIsGone` share the invariant `CleanupInv`, built on
two facts that no step undoes: an upload is doomed once it has evidence and its
intent is expired, and gone once it has evidence and no object. Only what is
doomed goes; a worker reaches its deletion only from a safe, hence doomed, task;
and what it then records is gone. The fences and leases play no part in it: a
run or client that lost its claim still deletes only what is doomed, so these
two properties do not depend on the clocks of the workers. `FenceInv` adds to
`ClientFencesAreExclusive` that no client may delete under a fence larger than
that of its task, so that the fence a revalidation hands out is new.

### CatalogMaterialization

| Theorem | States |
|---|---|
| `MaterializerKeepsPromise` | `Spec => KeepsPromise`, that is `Spec => Promise!PublisherSpec` |
| `HeadIsDeliverable` | `Spec => []HeadDeliverable` |

The refinement is proved action by action: all actions but five leave what
readers see alone; `DropObject`, `DiscardObject`,
`StoreImmutable`, `Publish` and `Mutate` are each a step of `CatalogPublisher` or
a stutter. What has to be excluded is that a run which chose a checkpoint for
removal long ago removes one that has become the head's meanwhile. `RunInv` and
`CheckpointInv` exclude it: what is chosen is neither the head nor the latest
revision, heads advance only to the latest revision, and a revision that is not
the latest never becomes it again; so the object staged for the latest revision
stays, under the version the run was told, until it is published and after.

The body of the checkpoint is assembled from two SELECTs. It is stored only if
it validates under the root its revision committed; since roots tell trees
apart, rows and entries are then those of this tree (`Bodied` in `RunInv`).

For the delta, R2 never gives a version twice (`DeltaInv`), so a row published
with one version is never about an object written later; and all who took a base
for a revision took the same (`BaseInv`): bases are heads below the revision, and
the head does not change between the first such choice and the publication of
the revision or a later one. `DeltaBuilt` concludes that the stored delta was
built from the base that the row names. That such a delta applies and rebuilds
its target (`DeltaLeadsToHead`) is a fact about checkpoints that validated, as all
that are stored did (`ValidInv`): the overlay of the base with the delta agrees
with the target on every directory of the target, and what a walk reaches is the
least set that is closed under children, so no induction is needed to see that it
visits the target's directories and no others, and that the edge a directory is
reached by is the one its row names.

### CatalogClient

| Theorem | States |
|---|---|
| `ClientStaysInOrder` | `ClientSpec => []ClientInv` |
| `HeadKeepsClosure` | `ClientSpec => []HeadClosure` |
| `PlansAreSnapshots` | `ClientSpec => []PlanIsSnapshot` |

`ClientInv` is about the store. Whoever stores nodes for a head, writes the head
or prunes holds the lock (`InOrder`). Nodes leave the store in two ways: a damaged one
is discarded, by anybody, and then it is in `lost`; or the holder of the lock
prunes, and then the head is the target it has just written, or was dropped or
damaged meanwhile, and the nodes of the target are not pruned. Before the head is
written, the nodes of the target are stored, lost or still to do; those a delta
leaves out are nodes of the base, which is the head the sync reconstructed under the
lock.

`PlansInv` is about the walk, and independent of the store: a node is addressed
by its root, so it does not matter where it was read. On its way to the source a
sync stands at a prefix of the path in the tree whose root page it read first
(`OnSource`). From then on its queue and its plan are right for every tree in
which the fence's directory has the fence's root (`WalksOn`): what is queued or
planned is below it, and of every file below it, either the file is planned or a
directory on the way to it is queued. To carry all these trees along is what
makes the invariant inductive without comparing two trees: the final page shows
that the latest tree is one of them, and the queue is empty.

### SyncToLocal

| Theorem | States |
|---|---|
| `SyncsStayInOrder` | `SyncSpec => []SyncInv` |
| `SyncsAreExact` | `SyncSpec => []SyncedExactly` |
| `OnlySourceIsPublished` | `SyncSpec => OnlySourceContent` |

`Good` says of one sync in flight that it holds the lock of its destination, that
its plan is the source at its fence, and of every path: a record stands for the
plan's file, which is in the destination unless the user has been there
(`Holds`); what was fetched is the plan's file (`Pure`); and a planned file is
still to be evaluated, staged or downloaded, or has its record, or the sync has
met an error (`Covered`). The shared index is only a hint, so what other syncs
wrote into it, or that it was damaged, plays no part. Only a publication writes
into a destination, under its lock, and what it writes was verified against the
plan.

### PutUpload

| Theorem | States |
|---|---|
| `EvidenceIsExact` | `Spec => []EvidenceExact` |
| `CleanupReclaims` | `Spec => []CleanedReclaims` |

Nothing the processes share is trusted, neither the staged file nor the journal.
An object is never replaced, and whoever commits has read back what it encoded
(`ObjectInv`); a process hashes its source before and after it encodes it, so
that with fewer than two edits what it encoded is the file of its intent
(`SourceInv`). `BoundInv`: parts go only to the upload bound to the cleanup row,
or the row is of no concern any more; URLs end with the intent and the cleanup
follows its end (`ExpiryInv`), so that no part arrives after the abort. `RunInv`:
a run that still holds the row has aborted the upload that is bound to it, and a
run that lost it cannot settle it.

### ManagementPlane, OperatorSessions

| Theorem | States |
|---|---|
| `ReceiptsAreHonest` | `Spec => []ReceiptsHonest` |
| `CallsAreAnsweredByReceipts` | `Spec => []AnsweredByReceipt` |
| `PagesAreContinuous` | `Spec => []PagesContinuous` |
| `BlocksHold` | `Spec => BlockHolds` |

`CreatedInv`: what was created and has its first revision is as it was created,
which is what the readback of a creation relies on. `CallInv`: a call in flight
carries a proposal of this behaviour, for a row that was there. `PageInv`: the
cursor of a page is past the client's position. `LimitInv`: a request in flight
read its clock at most `MaxDelay` ago, so a block ends at most `BlockSeconds +
MaxDelay` after the clock of the last request that touched its row, and the cron
does not retire the row before.

### DriverCredentials

| Theorem | States |
|---|---|
| `ScheduleFollows` | `Spec => []ScheduleTracksEnvelope` |
| `AccountIsKept` | `Spec => AuthorityKept` |
| `ReceiptsHoldCredentials` | `Spec => []ReceiptHoldsCredential` |
| `TokensAreSpentOnce` | `Spec => []SpentOnce` |

What a renewal or a replacement read before it called the provider is old when
it writes. `AuthorityInv` says what of it is still true: the revision it read is
at most the envelope's, and the account is the envelope's. `RotationInv`: the
last rotation is a renewal's or has a receipt, so a receipt whose UPDATE hit no
row was written in the second of another rotation. `FenceInv`: while every
renewal keeps to its claim (`LeaseInv`), whoever holds the current revision is
the one whose fence the claimed row carries (`WonInv`), so there is one of them.

### Model-checked and not proved

- Liveness (`Converges`, `GrantedSettles`, `RefreshSettles`,
  `RequestsTerminate`), which is out of the prover's reach.
- What a recursive definition computes, an induction over data:
  `WalkAssumption` and `TreesAssumption` state of `DataRoots` what the proofs
  use, and TLC evaluates them on the trees of the runs.

## 5. Plan

1. Provider inventory and quarantine as an extension of `VfsServerLifecycle`.
2. The Go transfer journal beside `PutUpload`.
3. The attenuation of tokens, as operators checked against a reference.

## 6. Not modelled

- Request signing, encryption, canonical encodings, Merkle arithmetic on bytes
  and the formats of manifests: pure functions, taken to be injective.
- Token attenuation and ACL inheritance: single SQL predicates; only their
  outcome, for the token and for the chain above it, may change between check
  and batch.
- Provider inventory, quarantine, transfer metrics, observability, HTTP
  routing, the web console, and the commands of the CLI that only relay a
  request.
- The Go packages, which repeat in another language protocols modelled here
  from the Rust client (journal, local driver) or are oracles for byte formats.
- The long poll of the catalog, beyond the answers it may give.
- The providers themselves, which appear only through the outcomes the code
  distinguishes.

## 7. How to run

    tlc -workers 2 -config MCPut.cfg MCVfsNamespace
    tlapm VfsNamespace_proofs.tla
    tlapm CatalogMaterialization_proofs.tla

and so on for the other configurations and `*_proofs` modules; the larger proofs
take some minutes each.

`PROJECT.json` lists for every run its module and configuration, for every
definition the source lines it models, and for every property a mutation of the
model that TLC must refute.
