------------------------ MODULE CatalogMaterialization ------------------------
(***************************************************************************)
(* The scheduled materializer of the VFS catalog                           *)
(* (control-plane/src/vfs_catalog_materialization.rs).                     *)
(*                                                                         *)
(* Each cron invocation is a run.  It reclaims at most one abandoned delta *)
(* and one abandoned checkpoint, claims the outbox row of the latest       *)
(* revision under a lease, reads the tree with two SELECTs, writes the     *)
(* checkpoint and an optional delta to R2, publishes both in one batch and *)
(* collapses and retires what is older.  Runs overlap, stall past their    *)
(* lease, fail and die between any two calls; each call to the database or *)
(* to R2 is one step.  A SELECT that only confirms the statement before it *)
(* is part of that step: what it adds is an error, and a run may fail at   *)
(* every step.                                                             *)
(*                                                                         *)
(* Moments are kept relative to the present: a lease or a retry is the     *)
(* time left until it, an age the time since.  A run compares them with    *)
(* the moment it took as `now', `age' ago.                                 *)
(***************************************************************************)
EXTENDS Integers, Sequences, FiniteSets, CatalogTree

CONSTANTS Trees, FirstTree, MaxRevision,
          Runs,         \* the invocations that may overlap
          Claim,        \* CLAIM_SECONDS
          Grace,        \* ORPHAN_GRACE_SECONDS
          RetryBase, RetryCap, \* retry_delay: first delay and ceiling
          Limit,        \* MAXIMUM_COLLAPSES_PER_RUN and ..._RETIREMENTS_PER_RUN
          MaxFaults     \* bound on failures, deaths and stalls together

ASSUME MaterializationAssumption ==
  /\ MaxRevision \in Nat \ {0} /\ FirstTree \in Trees
  /\ Claim \in Nat \ {0} /\ Grace \in Nat \ {0} /\ Limit \in Nat \ {0}
  /\ RetryBase \in Nat \ {0} /\ RetryCap \in Nat /\ MaxFaults \in Nat

\* The Merkle root of a tree determines it, as SHA-256 does not collide, and
\* every directory of a tree has one.
ASSUME TreesAssumption ==
  \A t \in Trees :
    /\ DOMAIN DataRoots(t) = Directories(t)
    /\ \A u \in Trees : DataRoots(t)[Root] = DataRoots(u)[Root] => t = u

VARIABLES
  history,    \* vfs_catalog_revisions: the tree each revision commits to
  head,       \* vfs_catalog_heads: the published revision, or 0
  published,  \* the revisions whose state is 'published'
  collapsed,  \* vfs_catalog_revision_collapses
  outbox,     \* vfs_catalog_outbox
  rows,       \* rows.checkpoint and rows.delta: the two artifact tables
  objects,    \* what R2 holds, by kind and revision
  run,        \* the invocations
  due,        \* the cron trigger has fired and no invocation has started yet
  faults      \* failures, deaths and stalls so far

vars == <<history, head, published, collapsed, outbox, rows, objects, run, due, faults>>

Kinds == {"checkpoint", "delta"}
Revisions == 1..Len(history)
MutationHead == Len(history)

\* A moment before every run began: a NULL retry_at, a lease long gone.
Past == -MaxFaults

NoRow == [state |-> "none", base |-> 0, version |-> 0, age |-> 0]
NoObject == [there |-> FALSE, version |-> 0, body |-> None]
NoReceipt == [revision |-> 0, version |-> 0]
NoDelta == [base |-> 0, version |-> 0, body |-> None]
Idle == [pc |-> "idle", revision |-> 0, owner |-> 0, age |-> 0, previous |-> NoReceipt,
         seen |-> 0, body |-> None, version |-> 0, delta |-> NoDelta,
         target |-> [revision |-> 0, state |-> "none"]]

\* A new revision's outbox row: pending, no lease and no retry.
Queued == [state |-> "pending", owner |-> 0, attempts |-> 0, lease |-> Past, retry |-> Past]

Init ==
  /\ history = <<FirstTree>>
  /\ head = 0
  /\ published = {}
  /\ collapsed = {}
  /\ outbox = <<Queued>>
  /\ rows = [k \in Kinds |-> <<NoRow>>]
  /\ objects = [k \in Kinds |-> <<NoObject>>]
  /\ run = [r \in Runs |-> Idle]
  /\ due = TRUE
  /\ faults = 0

-----------------------------------------------------------------------------
(* The namespace and the clock.                                            *)

\* Every mutation batch appends a revision, queues it and moves the head.
Mutate ==
  /\ MutationHead < MaxRevision
  /\ \E t \in Trees \ {history[MutationHead]} :
       FreshIdentities(history, t) /\ history' = Append(history, t)
  /\ outbox' = Append(outbox, Queued)
  /\ rows' = [k \in Kinds |-> Append(rows[k], NoRow)]
  /\ objects' = [k \in Kinds |-> Append(objects[k], NoObject)]
  /\ UNCHANGED <<head, published, collapsed, run, due, faults>>

Active(r) == run[r].pc # "idle"
Later(t) == IF t > Past THEN t - 1 ELSE Past
Older(a) == IF a < Grace + MaxFaults THEN a + 1 ELSE a

\* A cron interval passes, longer than a claim; the trigger fires.  A run that
\* is under way meanwhile has stalled.
Tick ==
  /\ IF \E r \in Runs : Active(r)
     THEN faults < MaxFaults /\ faults' = faults + 1
     ELSE faults' = faults
  /\ outbox' = [i \in Revisions |->
                  [outbox[i] EXCEPT !.lease = Later(@), !.retry = Later(@)]]
  /\ rows' = [k \in Kinds |-> [i \in Revisions |->
                IF rows[k][i] = NoRow THEN NoRow ELSE [rows[k][i] EXCEPT !.age = Older(@)]]]
  /\ run' = [r \in Runs |-> IF Active(r) THEN [run[r] EXCEPT !.age = @ + 1] ELSE run[r]]
  /\ due' = TRUE
  /\ UNCHANGED <<history, head, published, collapsed, objects>>

-----------------------------------------------------------------------------
(* Shared pieces.                                                          *)

\* The steps each kind of artifact has.
Sweeping   == [checkpoint |-> "sweep checkpoint",  delta |-> "sweep delta"]
Dropping   == [checkpoint |-> "drop checkpoint",   delta |-> "drop delta"]
Forgetting == [checkpoint |-> "forget checkpoint", delta |-> "forget delta"]
Recording  == [checkpoint |-> "record checkpoint", delta |-> "record delta"]
Storing    == [checkpoint |-> "store checkpoint",  delta |-> "store delta"]
Staging    == [checkpoint |-> "stage checkpoint",  delta |-> "stage delta"]

At(r, pc) == run[r].pc = pc
Goto(r, pc) == run' = [run EXCEPT ![r].pc = pc]
Put(table, k, i, v) == [table EXCEPT ![k] = [@ EXCEPT ![i] = v]]

\* R2 without the object; the versions it gave out are never given again.
Removed(k, i) == Put(objects, k, i, [NoObject EXCEPT !.version = objects[k][i].version])

\* Neither the published head nor the head of the namespace.
Unreachable(i) == i # head /\ i # MutationHead

\* The run holds the outbox row of its revision.
Owns(r) ==
  /\ outbox[run[r].revision].state = "claimed"
  /\ outbox[run[r].revision].owner = run[r].owner

\* The first n of S, oldest first and then by revision.
First(S, n, age) ==
  {i \in S : Cardinality({j \in S : age[j] > age[i] \/ (age[j] = age[i] /\ j < i)}) < n}

RetryDelay(attempts) ==
  LET exponent == IF attempts > 9 THEN 8 ELSE attempts - 1
      delay == RetryBase * 2 ^ exponent
  IN  IF delay > RetryCap THEN RetryCap ELSE delay

\* release_claim: only the owner gives the row back.
Released(r, retry) ==
  IF Owns(r)
  THEN [outbox EXCEPT ![run[r].revision] =
          [@ EXCEPT !.state = "pending", !.owner = 0, !.lease = Past, !.retry = retry]]
  ELSE outbox

-----------------------------------------------------------------------------
(* Cleanup of abandoned artifacts, at the start of a run.                  *)

Start(r) ==
  /\ At(r, "idle")
  /\ due
  /\ due' = FALSE
  /\ run' = [run EXCEPT ![r] = [Idle EXCEPT !.pc = "sweep delta"]]
  /\ UNCHANGED <<history, head, published, collapsed, outbox, rows, objects, faults>>

AfterSweep(k) == IF k = "delta" THEN "sweep checkpoint" ELSE "claim"

\* cleanup_one_delta and cleanup_one choose the oldest abandoned artifact.
Abandoned(r, k) ==
  {i \in Revisions :
     /\ rows[k][i].age >= Grace + run[r].age
     /\ \/ rows[k][i].state = "orphaned"
        \/ rows[k][i].state = "writing" /\ i # MutationHead
     /\ k = "checkpoint" => i # head}

Sweep(r, k) ==
  /\ At(r, Sweeping[k])
  /\ LET found == First(Abandoned(r, k), 1, [i \in Revisions |-> rows[k][i].age])
     IN  run' = IF found = {}
                THEN [run EXCEPT ![r].pc = AfterSweep(k)]
                ELSE LET i == CHOOSE x \in found : TRUE
                     IN  [run EXCEPT ![r].pc = Dropping[k],
                                     ![r].target = [revision |-> i, state |-> rows[k][i].state]]
  /\ UNCHANGED <<history, head, published, collapsed, outbox, rows, objects, due, faults>>

DropObject(r, k) ==
  /\ At(r, Dropping[k])
  /\ objects' = Removed(k, run[r].target.revision)
  /\ Goto(r, Forgetting[k])
  /\ UNCHANGED <<history, head, published, collapsed, outbox, rows, due, faults>>

\* The row goes only if it is still the one that was chosen.
ForgetRow(r, k) ==
  /\ At(r, Forgetting[k])
  /\ LET i == run[r].target.revision
     IN  rows' = IF /\ rows[k][i].state = run[r].target.state
                    /\ rows[k][i].age >= Grace + run[r].age
                    /\ k = "checkpoint" => i # head
                 THEN Put(rows, k, i, NoRow) ELSE rows
  /\ run' = [run EXCEPT ![r].pc = AfterSweep(k), ![r].target = Idle.target]
  /\ UNCHANGED <<history, head, published, collapsed, outbox, objects, due, faults>>

-----------------------------------------------------------------------------
(* The claim.                                                              *)

\* Claimable without taking over an expired claim.
ClaimablePending(r) ==
  /\ MutationHead \notin published
  /\ MutationHead \notin collapsed
  /\ outbox[MutationHead].state = "pending"
  /\ outbox[MutationHead].retry + run[r].age <= 0

Claimable(r) ==
  /\ MutationHead \notin published
  /\ MutationHead \notin collapsed
  /\ \/ outbox[MutationHead].state = "pending" /\ outbox[MutationHead].retry + run[r].age <= 0
     \/ outbox[MutationHead].state = "claimed" /\ outbox[MutationHead].lease + run[r].age <= 0

\* claim_latest: a fresh owner, here the number of the attempt.
ClaimLatest(r) ==
  /\ At(r, "claim")
  /\ IF Claimable(r)
     THEN LET attempt == outbox[MutationHead].attempts + 1
          IN  /\ outbox' = [outbox EXCEPT ![MutationHead] =
                    [state |-> "claimed", owner |-> attempt, attempts |-> attempt,
                     lease |-> Claim - run[r].age, retry |-> Past]]
              /\ run' = [run EXCEPT ![r].pc = "load", ![r].revision = MutationHead,
                                    ![r].owner = attempt]
     ELSE Goto(r, "collapse") /\ UNCHANGED outbox
  /\ UNCHANGED <<history, head, published, collapsed, rows, objects, due, faults>>

\* load_candidate: the claimed revision is still the pending head of the
\* namespace, and the lease outlives the moment `ago' before now.
Current(r, ago) ==
  /\ run[r].revision = MutationHead
  /\ run[r].revision \notin published
  /\ Owns(r)
  /\ outbox[run[r].revision].lease + ago > 0

LoadCandidate(r) ==
  /\ At(r, "load")
  /\ Goto(r, IF Current(r, run[r].age) THEN "previous" ELSE "unloadable")
  /\ UNCHANGED <<history, head, published, collapsed, outbox, rows, objects, due, faults>>

\* release_unloadable_claim: retried only while it is still the head.
ReleaseUnloadable(r) ==
  /\ At(r, "unloadable")
  /\ outbox' = Released(r, IF run[r].revision = MutationHead
                           THEN RetryDelay(outbox[run[r].revision].attempts) ELSE Past)
  /\ Goto(r, "collapse")
  /\ UNCHANGED <<history, head, published, collapsed, rows, objects, due, faults>>

-----------------------------------------------------------------------------
(* The checkpoint.                                                         *)

\* load_published_checkpoint: the receipt of the head before this revision.
ReadPrevious(r) ==
  /\ At(r, "previous")
  /\ run' = [run EXCEPT ![r].pc = "directories",
                        ![r].previous =
       IF head # 0 /\ head < run[r].revision /\ rows.checkpoint[head].state = "published"
       THEN [revision |-> head, version |-> rows.checkpoint[head].version] ELSE NoReceipt]
  /\ UNCHANGED <<history, head, published, collapsed, outbox, rows, objects, due, faults>>

ReadDirectories(r) ==
  /\ At(r, "directories")
  /\ run' = [run EXCEPT ![r].pc = "entries", ![r].seen = MutationHead]
  /\ UNCHANGED <<history, head, published, collapsed, outbox, rows, objects, due, faults>>

\* The checkpoint made of the directories read before and the entries read
\* now, under the root the revision committed.
Body(r) ==
  Assemble(run[r].revision, DataRoots(history[run[r].revision])[Root],
           DirectoryRows(history[run[r].seen]), EntryRows(history[MutationHead]))

\* assemble_checkpoint refuses a mixture of two trees.
ReadEntries(r) ==
  /\ At(r, "entries")
  /\ IF /\ NoForeignEntries(DirectoryRows(history[run[r].seen]), EntryRows(history[MutationHead]))
        /\ ValidCheckpoint(Body(r))
     THEN run' = [run EXCEPT ![r].pc = "record checkpoint", ![r].body = Body(r), ![r].seen = 0]
     ELSE Goto(r, "failed")
  /\ UNCHANGED <<history, head, published, collapsed, outbox, rows, objects, due, faults>>

-----------------------------------------------------------------------------
(* The three steps both artifacts share: row, object, staged row.          *)

Wrong(k) == IF k = "checkpoint" THEN "failed" ELSE "discard"

\* The insert trigger of the delta table: published base, staged target.
DeltaAdmitted(i, base) ==
  /\ rows.checkpoint[base].state = "published"
  /\ rows.checkpoint[i].state = "staged"
  /\ i \notin published

\* record_writing and record_delta_writing: insert or find the row.
RecordWriting(r, k) ==
  /\ At(r, Recording[k])
  /\ LET i    == run[r].revision
         base == IF k = "checkpoint" THEN 0 ELSE run[r].delta.base
         row  == IF rows[k][i].state = "none"
                 THEN [NoRow EXCEPT !.state = "writing", !.base = base, !.age = run[r].age]
                 ELSE rows[k][i]
     IN  IF k = "delta" /\ ~DeltaAdmitted(i, base)
         THEN UNCHANGED rows /\ Goto(r, Wrong(k))
         ELSE /\ rows' = Put(rows, k, i, row)
              /\ Goto(r, IF row.state \in {"writing", "staged"} /\ row.base = base
                         THEN Storing[k] ELSE Wrong(k))
  /\ UNCHANGED <<history, head, published, collapsed, outbox, objects, due, faults>>

\* store_immutable: a put that never overwrites; an object already there has
\* the same key, so the same bytes, and its version is taken.
StoreImmutable(r, k) ==
  /\ At(r, Storing[k])
  /\ LET i == run[r].revision
         o == IF objects[k][i].there THEN objects[k][i]
              ELSE [there |-> TRUE, version |-> objects[k][i].version + 1,
                    body |-> IF k = "checkpoint" THEN run[r].body ELSE run[r].delta.body]
     IN  /\ objects' = Put(objects, k, i, o)
         /\ run' = IF k = "checkpoint"
                   THEN [run EXCEPT ![r].pc = "stage checkpoint", ![r].version = o.version]
                   ELSE [run EXCEPT ![r].pc = "stage delta", ![r].delta = [@ EXCEPT !.version = o.version]]
  /\ UNCHANGED <<history, head, published, collapsed, outbox, rows, due, faults>>

\* mark_staged and mark_delta_staged: the row takes the stored version.
MarkStaged(r, k) ==
  /\ At(r, Staging[k])
  /\ LET i       == run[r].revision
         version == IF k = "checkpoint" THEN run[r].version ELSE run[r].delta.version
         row     == IF rows[k][i].state = "writing"
                    THEN [rows[k][i] EXCEPT !.state = "staged", !.version = version,
                                            !.age = run[r].age]
                    ELSE rows[k][i]
     IN  /\ rows' = Put(rows, k, i, row)
         /\ Goto(r, IF row.state # "staged" \/ row.version # version THEN Wrong(k)
                    ELSE IF k = "checkpoint" /\ run[r].previous # NoReceipt THEN "base"
                    ELSE "fence")
  /\ UNCHANGED <<history, head, published, collapsed, outbox, objects, due, faults>>

-----------------------------------------------------------------------------
(* The optional delta.                                                     *)

\* prepare_delta: no delta unless the base is in R2 under the version of its
\* receipt, and the delta is well formed and smaller than the checkpoint.
PrepareDelta(r) ==
  /\ At(r, "base")
  /\ LET receipt == run[r].previous
         base    == objects.checkpoint[receipt.revision]
         body    == BuildDelta(base.body, run[r].body)
     IN  IF ~base.there \/ base.version # receipt.version THEN Goto(r, "discard")
         ELSE IF ~ValidDelta(body) THEN Goto(r, "discard")
         ELSE IF DOMAIN body.dirs = DOMAIN run[r].body.dirs THEN Goto(r, "fence")
         ELSE run' = [run EXCEPT ![r].pc = "record delta",
                                 ![r].delta = [base |-> receipt.revision, version |-> 0,
                                               body |-> body]]
  /\ UNCHANGED <<history, head, published, collapsed, outbox, rows, objects, due, faults>>

\* A call of prepare_delta fails: the checkpoint goes on without a delta.
DeltaFails(r) ==
  /\ run[r].pc \in {"base", "record delta", "store delta", "stage delta"}
  /\ faults < MaxFaults
  /\ faults' = faults + 1
  /\ Goto(r, "discard")
  /\ UNCHANGED <<history, head, published, collapsed, outbox, rows, objects, due>>

\* discard_optional_delta: read the row.
DiscardDelta(r) ==
  /\ At(r, "discard")
  /\ run' = [run EXCEPT ![r].delta = NoDelta,
       ![r].pc = CASE rows.delta[run[r].revision].state = "writing" -> "discard object"
                   [] rows.delta[run[r].revision].state = "staged"  -> "orphan delta"
                   [] OTHER -> "fence"]
  /\ UNCHANGED <<history, head, published, collapsed, outbox, rows, objects, due, faults>>

DiscardObject(r) ==
  /\ At(r, "discard object")
  /\ objects' = Removed("delta", run[r].revision)
  /\ Goto(r, "discard row")
  /\ UNCHANGED <<history, head, published, collapsed, outbox, rows, due, faults>>

\* The row changes only if it is still in the state that was read.
DiscardRow(r) ==
  LET i == run[r].revision IN
  /\ \/ /\ At(r, "discard row")
        /\ rows' = IF rows.delta[i].state = "writing" THEN Put(rows, "delta", i, NoRow) ELSE rows
     \/ /\ At(r, "orphan delta")
        /\ rows' = IF rows.delta[i].state = "staged"
                   THEN Put(rows, "delta", i, [rows.delta[i] EXCEPT !.state = "orphaned", !.age = 0])
                   ELSE rows
  /\ Goto(r, "fence")
  /\ UNCHANGED <<history, head, published, collapsed, outbox, objects, due, faults>>

\* A call of the discard fails: it is logged and left to a later cleanup.
DiscardFails(r) ==
  /\ run[r].pc \in {"discard object", "discard row", "orphan delta"}
  /\ faults < MaxFaults
  /\ faults' = faults + 1
  /\ Goto(r, "fence")
  /\ UNCHANGED <<history, head, published, collapsed, outbox, rows, objects, due>>

-----------------------------------------------------------------------------
(* Publication.                                                            *)

\* The claim is checked again before the batch; from here on the run's `now'
\* is the moment of this check.
Fence(r) ==
  /\ At(r, "fence")
  /\ run' = [run EXCEPT ![r].pc = IF Current(r, 0) THEN "publish" ELSE "orphan", ![r].age = 0]
  /\ UNCHANGED <<history, head, published, collapsed, outbox, rows, objects, due, faults>>

\* MayPublish of a revision that need not be the latest any more.
MayPublishStale(r) ==
  /\ Owns(r)
  /\ run[r].revision \notin published
  /\ rows.checkpoint[run[r].revision].state = "staged"
  /\ rows.checkpoint[run[r].revision].version = run[r].version

\* The staged checkpoint and the claim are the ones this run made.
MayPublish(r) ==
  /\ Current(r, run[r].age)
  /\ rows.checkpoint[run[r].revision].state = "staged"
  /\ rows.checkpoint[run[r].revision].version = run[r].version

\* The delta statement of the batch finds its row.
DeltaStaged(r) ==
  LET row == rows.delta[run[r].revision]
  IN  /\ run[r].delta # NoDelta
      /\ row.state = "staged"
      /\ row.base = run[r].delta.base
      /\ row.version = run[r].delta.version

\* A trigger aborts the batch: a delta of a revision that is not published,
\* or a head that would not advance.
BatchAborts(r) ==
  LET i == run[r].revision
  IN  /\ ~MayPublish(r)
      /\ \/ DeltaStaged(r) /\ ~(i \in published /\ rows.checkpoint[i].state = "published")
         \/ i \in published /\ i = MutationHead

\* Revision, artifacts, head and outbox in one batch, then the verification.
Publish(r) ==
  /\ At(r, "publish")
  /\ LET i       == run[r].revision
         Mark(k) == [rows[k][i] EXCEPT !.state = "published", !.age = run[r].age]
     IN  /\ rows' = [k \in Kinds |->
              IF \/ k = "checkpoint" /\ MayPublish(r)
                 \/ k = "delta" /\ DeltaStaged(r) /\ ~BatchAborts(r)
              THEN [rows[k] EXCEPT ![i] = Mark(k)] ELSE rows[k]]
         /\ IF MayPublish(r)
            THEN /\ published' = published \cup {i}
                 /\ head' = i
                 /\ outbox' = [outbox EXCEPT ![i] =
                      [@ EXCEPT !.state = "done", !.owner = 0, !.lease = Past, !.retry = Past]]
            ELSE UNCHANGED <<published, head, outbox>>
         /\ Goto(r, IF MayPublish(r) THEN "collapse"
                    ELSE IF BatchAborts(r) THEN "failed" ELSE "orphan")
  /\ UNCHANGED <<history, collapsed, objects, due, faults>>

\* mark_orphaned: staged artifacts no head names.
MarkOrphaned(r) ==
  /\ At(r, "orphan")
  /\ LET i == run[r].revision
     IN  rows' = [k \in Kinds |->
           IF rows[k][i].state = "staged" /\ Unreachable(i)
           THEN [rows[k] EXCEPT ![i] = [@ EXCEPT !.state = "orphaned", !.age = run[r].age]]
           ELSE rows[k]]
  /\ Goto(r, "release")
  /\ UNCHANGED <<history, head, published, collapsed, outbox, objects, due, faults>>

ReleaseClaim(r) ==
  /\ At(r, "release")
  /\ outbox' = Released(r, Past)
  /\ Goto(r, "collapse")
  /\ UNCHANGED <<history, head, published, collapsed, rows, objects, due, faults>>

-----------------------------------------------------------------------------
(* History.                                                                *)

\* collapse_historical: older revisions that were never materialized are
\* resolved by the published head.
CollapseHistorical(r) ==
  /\ At(r, "collapse")
  /\ LET older == {i \in Revisions : i < head /\ i \notin published /\ i \notin collapsed}
         batch == {i \in older : Cardinality({j \in older : j < i}) < Limit}
     IN  /\ collapsed' = collapsed \cup batch
         /\ rows' = [k \in Kinds |-> [i \in Revisions |->
              IF i \in batch /\ rows[k][i].state = "staged"
              THEN [rows[k][i] EXCEPT !.state = "orphaned", !.age = 0] ELSE rows[k][i]]]
         /\ outbox' = [i \in Revisions |->
              IF i \in batch
              THEN [outbox[i] EXCEPT !.state = "done", !.owner = 0, !.lease = Past, !.retry = Past]
              ELSE outbox[i]]
  /\ Goto(r, "retire")
  /\ UNCHANGED <<history, head, published, objects, due, faults>>

\* retire_historical_artifacts: published artifacts no head names any more.
RetireHistorical(r) ==
  /\ At(r, "retire")
  /\ LET Retired(k) == First({i \in Revisions : rows[k][i].state = "published" /\ Unreachable(i)},
                             Limit, [i \in Revisions |-> rows[k][i].age])
     IN  rows' = [k \in Kinds |-> [i \in Revisions |->
           IF i \in Retired(k) THEN [rows[k][i] EXCEPT !.state = "orphaned", !.age = 0]
           ELSE rows[k][i]]]
  /\ run' = [run EXCEPT ![r] = Idle]
  /\ UNCHANGED <<history, head, published, collapsed, outbox, objects, due, faults>>

-----------------------------------------------------------------------------
(* Failure.                                                                *)

\* A call of materialize fails.
Fail(r) ==
  /\ run[r].pc \in {"previous", "directories", "entries", "record checkpoint",
                    "store checkpoint", "stage checkpoint", "fence", "publish", "orphan", "release"}
  /\ faults < MaxFaults
  /\ faults' = faults + 1
  /\ Goto(r, "failed")
  /\ UNCHANGED <<history, head, published, collapsed, outbox, rows, objects, due>>

\* The error leaves run: the claim is given back with a delay.
ReleaseFailed(r) ==
  /\ At(r, "failed")
  /\ outbox' = Released(r, RetryDelay(run[r].owner))
  /\ run' = [run EXCEPT ![r] = Idle]
  /\ UNCHANGED <<history, head, published, collapsed, rows, objects, due, faults>>

\* The platform ends the invocation: nothing more of it happens.
Die(r) ==
  /\ Active(r)
  /\ faults < MaxFaults
  /\ faults' = faults + 1
  /\ run' = [run EXCEPT ![r] = Idle]
  /\ UNCHANGED <<history, head, published, collapsed, outbox, rows, objects, due>>

-----------------------------------------------------------------------------
\* The steps of a run that nothing hinders.
Step(r) ==
  \/ \E k \in Kinds : \/ Sweep(r, k) \/ DropObject(r, k) \/ ForgetRow(r, k)
                      \/ RecordWriting(r, k) \/ StoreImmutable(r, k) \/ MarkStaged(r, k)
  \/ ClaimLatest(r) \/ LoadCandidate(r) \/ ReleaseUnloadable(r)
  \/ ReadPrevious(r) \/ ReadDirectories(r) \/ ReadEntries(r)
  \/ PrepareDelta(r) \/ DiscardDelta(r) \/ DiscardObject(r) \/ DiscardRow(r)
  \/ Fence(r) \/ Publish(r) \/ MarkOrphaned(r) \/ ReleaseClaim(r)
  \/ CollapseHistorical(r) \/ RetireHistorical(r) \/ ReleaseFailed(r)

Fault(r) == DeltaFails(r) \/ DiscardFails(r) \/ Fail(r) \/ Die(r)

Next == Mutate \/ Tick \/ \E r \in Runs : Start(r) \/ Step(r) \/ Fault(r)

\* The cron trigger keeps starting invocations, an invocation keeps making its
\* calls, and time passes.
Fairness ==
  /\ WF_vars(Tick)
  /\ WF_vars(\E r \in Runs : Start(r))
  /\ \A r \in Runs : WF_vars(Step(r))

Spec == Init /\ [][Next]_vars /\ Fairness
-----------------------------------------------------------------------------
Steps == {"idle", "sweep checkpoint", "sweep delta", "drop checkpoint", "drop delta",
          "forget checkpoint", "forget delta", "claim", "load", "unloadable", "previous",
          "directories", "entries", "record checkpoint", "store checkpoint", "stage checkpoint",
          "base", "record delta", "store delta", "stage delta", "discard", "discard object",
          "discard row", "orphan delta", "fence", "publish", "orphan", "release", "collapse",
          "retire", "failed"}

TypeOK ==
  /\ history \in Seq(Trees) /\ Len(history) \in 1..MaxRevision
  /\ head \in 0..Len(history) /\ published \subseteq Revisions /\ collapsed \subseteq Revisions
  /\ outbox \in [Revisions -> [state : {"pending", "claimed", "done"}, owner : Nat,
                               attempts : Nat, lease : Int, retry : Int]]
  /\ rows \in [Kinds -> [Revisions ->
                 [state : {"none", "writing", "staged", "published", "orphaned"},
                  base : Nat, version : Nat, age : Nat]]]
  /\ objects = [k \in Kinds |-> [i \in Revisions |-> objects[k][i]]]
  /\ \A k \in Kinds, i \in Revisions :
       /\ DOMAIN objects[k][i] = {"there", "version", "body"}
       /\ objects[k][i].there \in BOOLEAN /\ objects[k][i].version \in Nat
  /\ DOMAIN run = Runs
  /\ \A r \in Runs :
       /\ DOMAIN run[r] = DOMAIN Idle
       /\ run[r].pc \in Steps /\ run[r].revision \in 0..Len(history) /\ run[r].owner \in Nat
       /\ run[r].age \in Nat /\ run[r].version \in Nat /\ run[r].seen \in 0..Len(history)
       /\ run[r].previous \in [revision : 0..Len(history), version : Nat]
       /\ DOMAIN run[r].delta = {"base", "version", "body"}
       /\ run[r].delta.base \in Nat /\ run[r].delta.version \in Nat
       /\ run[r].target \in [revision : 0..Len(history), state : {"none", "writing", "orphaned"}]
  /\ due \in BOOLEAN /\ faults \in 0..MaxFaults

\* What delivery relies on: the checkpoint of the published head is in R2
\* under the version its row records, and its body is the tree of exactly that
\* revision, although the tree was read with two SELECTs while mutations went
\* on and other runs cleaned up.
CheckpointDeliverable ==
  head # 0 =>
    /\ rows.checkpoint[head].state = "published"
    /\ objects.checkpoint[head].there
    /\ objects.checkpoint[head].version = rows.checkpoint[head].version
    /\ objects.checkpoint[head].body = Checkpoint(head, history[head])

\* A delta that is stored for the published head under the version of its row
\* takes the checkpoint of its base to the checkpoint of the head.
DeltaLeadsToHead ==
  LET row == rows.delta[head]
      obj == objects.delta[head]
  IN  (head # 0 /\ row.state = "published" /\ obj.there /\ obj.version = row.version) =>
        LET base == Checkpoint(row.base, history[row.base])
        IN  /\ AppliesTo(base, base, obj.body)
            /\ Rebuilt(base, obj.body) = Checkpoint(head, history[head])

\* The published head can be delivered, as a checkpoint or as a delta: what is
\* stored for it is what its rows say and leads to its tree.  With the types.
HeadDeliverable == TypeOK /\ CheckpointDeliverable /\ DeltaLeadsToHead

\* What R2 holds, and the head's delta, as the readers of the catalog see them.
Stored == [i \in {j \in Revisions : objects.checkpoint[j].there} |-> objects.checkpoint[i].body]
HeadDelta ==
  IF head # 0 /\ rows.delta[head].state = "published"
  THEN [base |-> rows.delta[head].base,
        there |-> /\ objects.delta[head].there
                  /\ objects.delta[head].version = rows.delta[head].version]
  ELSE [base |-> 0, there |-> FALSE]

\* The refinement mapping to what the catalog promises.
Promise == INSTANCE CatalogPublisher WITH bucket <- Stored, delta <- HeadDelta

\* The materializer does nothing the readers of the catalog do not expect:
\* heads only advance to the latest revision, and never away from a stored
\* checkpoint.
KeepsPromise == Promise!PublisherSpec

\* Once the namespace rests and faults end, its last revision is published and
\* every older one is resolved, whatever the earlier runs left behind.
Converges ==
  <>[](head = MutationHead /\ \A i \in Revisions : outbox[i].state = "done")
=============================================================================
