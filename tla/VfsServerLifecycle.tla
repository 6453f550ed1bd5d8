-------------------------- MODULE VfsServerLifecycle --------------------------
(***************************************************************************)
(* The lifecycle of published provider objects: download plans with read   *)
(* leases on one side; on the other the cron that marks unreachable        *)
(* locations, creates delete tasks and deletes one object per run.         *)
(*                                                                         *)
(* A run captures its time once and uses it in every later statement, and  *)
(* cron invocations may overlap, so a run may be slow, stale or lost at    *)
(* any statement.  The namespace is reduced to what the lifecycle reads of *)
(* it: whether the version of a location is still pinned by an entry.      *)
(***************************************************************************)
EXTENDS Integers, FiniteSets

CONSTANTS
  Locations,    \* vfs_locations, one per published version
  Reads,        \* download plans
  Runs,         \* overlapping cron invocations
  None,
  Retention,    \* UNREACHABLE_RETENTION_SECONDS
  Grace,        \* DELETE_GRACE_SECONDS
  Claim,        \* CLAIM_SECONDS
  Delay,        \* what retry_delay adds
  Limit,        \* MAXIMUM_MARKS_PER_RUN, MAXIMUM_TASKS_PER_RUN
  MaxTime,      \* bound on the clock
  MaxDriver     \* bound on the revisions of the driver

ASSUME NoneAssumption == None \notin Locations
ASSUME TimeAssumption ==
  /\ Retention \in Nat /\ Grace \in Nat /\ Claim \in Nat \ {0}
  /\ Delay \in Nat \ {0} /\ Limit \in Nat \ {0} /\ MaxTime \in Nat
  /\ MaxDriver \in Nat \ {0}

VARIABLES
  clock,
  pinned,       \* does a live entry pin the version of the location?
  version,      \* vfs_file_versions.state
  location,     \* vfs_locations
  object,       \* does the provider hold the object?
  driver,       \* driver_instances; the server cannot reach an agent-host one
  read,         \* download requests and their vfs_read_leases rows
  task,         \* vfs_location_delete_tasks
  run           \* cron invocations

namespace == <<pinned, version>>
vars == <<clock, namespace, location, object, driver, read, task, run>>

-----------------------------------------------------------------------------
(* Rows *)

LocationRow(state, revision, deleteAfter) ==
  [state |-> state, revision |-> revision, deleteAfter |-> deleteAfter]
TaskRow(state, expected, driverRevision, deleteAfter, fence, lease, retry, error) ==
  [state |-> state, expected |-> expected, driverRevision |-> driverRevision,
   deleteAfter |-> deleteAfter, fence |-> fence, lease |-> lease,
   retry |-> retry, error |-> error]
NoTask == TaskRow("none", 0, 0, 0, 0, 0, 0, "none")

\* A download: none, loaded (planned), leased, done.
Read(state, l, expires) == [state |-> state, location |-> l, expires |-> expires]
NoRead == Read("none", None, 0)

\* now: captured at the start; id, fence, expected: the loaded DeleteTask.
Run(pc, now, id, fence, expected, outcome) ==
  [pc |-> pc, now |-> now, id |-> id, fence |-> fence, expected |-> expected,
   outcome |-> outcome]
NoRun == Run("idle", 0, None, 0, 0, "none")

\* Published and pinned; the driver is enabled, a provider's or on a host.
Init ==
  /\ clock = 0
  /\ pinned = [l \in Locations |-> TRUE]
  /\ version = [l \in Locations |-> "published"]
  /\ location = [l \in Locations |-> LocationRow("available", 1, 0)]
  /\ object = [l \in Locations |-> TRUE]
  /\ driver \in [enabled : {TRUE}, revision : {1}, local : BOOLEAN]
  /\ read = [d \in Reads |-> NoRead]
  /\ task = [l \in Locations |-> NoTask]
  /\ run = [r \in Runs |-> NoRun]

Tick ==
  /\ clock < MaxTime
  /\ clock' = clock + 1
  /\ UNCHANGED <<namespace, location, object, driver, read, task, run>>

-----------------------------------------------------------------------------
(* The namespace and the driver, as far as the lifecycle sees them *)

\* A put replaces the version: its location stays available, unreachable.
Replace(l) ==
  /\ pinned[l]
  /\ pinned' = [pinned EXCEPT ![l] = FALSE]
  /\ UNCHANGED <<clock, version, location, object, driver, read, task, run>>

\* remove_statements: entry, version and location in one batch.
Remove(l) ==
  /\ pinned[l]
  /\ pinned' = [pinned EXCEPT ![l] = FALSE]
  /\ version' = [version EXCEPT ![l] = "tombstoned"]
  /\ location' = [location EXCEPT ![l] =
       LocationRow("tombstoned", location[l].revision + 1, clock + Grace)]
  /\ UNCHANGED <<clock, object, driver, read, task, run>>

\* A driver is disabled, enabled or reconfigured: always a new revision.
ChangeDriver(enabled) ==
  /\ driver.revision < MaxDriver
  /\ driver' = [driver EXCEPT !.enabled = enabled, !.revision = @ + 1]
  /\ UNCHANGED <<clock, namespace, location, object, read, task, run>>

-----------------------------------------------------------------------------
(* Downloads *)

\* plan: the load requires a live entry, an available location and an enabled
\* driver; the token expires at e.
PlanDownload(d, l, e) ==
  /\ read[d].state = "none"
  /\ e > clock
  /\ pinned[l]
  /\ version[l] = "published"
  /\ location[l].state = "available"
  /\ driver.enabled
  /\ read' = [read EXCEPT ![d] = Read("loaded", l, e)]
  /\ UNCHANGED <<clock, namespace, location, object, driver, task, run>>

\* The INSERT ... SELECT re-reads version and location, not the entry; the
\* table's CHECK refuses a lease of a token that has expired.
MayLease(d) ==
  /\ version[read[d].location] = "published"
  /\ location[read[d].location].state = "available"
  /\ read[d].expires > clock

\* The lease is granted, or 409.
GrantLease(d) ==
  /\ read[d].state = "loaded"
  /\ read' = [read EXCEPT ![d] =
       Read(IF MayLease(d) THEN "leased" ELSE "done", @.location, @.expires)]
  /\ UNCHANGED <<clock, namespace, location, object, driver, task, run>>

\* complete, complete_batch: completed_at is set, again and again if repeated.
CompleteRead(d) ==
  /\ read[d].state = "leased"
  /\ read' = [read EXCEPT ![d] = Read("done", @.location, @.expires)]
  /\ UNCHANGED <<clock, namespace, location, object, driver, task, run>>

\* A lease protects its location until it is completed or expired at time t.
Leased(l, t) ==
  \E d \in Reads :
    read[d].state = "leased" /\ read[d].location = l /\ read[d].expires > t

-----------------------------------------------------------------------------
(* The cron run *)

Goto(r, pc) ==
  Run(pc, run[r].now, run[r].id, run[r].fence, run[r].expected, run[r].outcome)

StartRun(r) ==
  /\ run[r].pc = "idle"
  /\ run' = [run EXCEPT ![r] = Run("mark", clock, None, 0, 0, "none")]
  /\ UNCHANGED <<clock, namespace, location, object, driver, read, task>>

\* An invocation may be cut off at any statement.
LoseRun(r) ==
  /\ run[r].pc # "idle"
  /\ run' = [run EXCEPT ![r] = NoRun]
  /\ UNCHANGED <<clock, namespace, location, object, driver, read, task>>

\* safe_unreachable_vfs_locations
Unreachable ==
  {l \in Locations : /\ location[l].state = "available"
                     /\ version[l] = "published"
                     /\ driver.enabled
                     /\ ~pinned[l]}

\* LIMIT: as many of the candidates as one run takes.
Limited(S) ==
  {T \in SUBSET S : \/ T = S /\ Cardinality(S) <= Limit
                    \/ Cardinality(T) = Limit}

\* mark_unreachable
Mark(r) ==
  /\ run[r].pc = "mark"
  /\ \E S \in Limited(IF run[r].now >= Retention THEN Unreachable ELSE {}) :
       location' = [l \in Locations |->
         IF l \in S
           THEN LocationRow("tombstoned", location[l].revision + 1,
                            run[r].now + Grace)
           ELSE location[l]]
  /\ run' = [run EXCEPT ![r] = Goto(r, "create")]
  /\ UNCHANGED <<clock, namespace, object, driver, read, task>>

\* Mutation: the grace of the location is not copied into the task.
NewTaskNow(r, l) ==
  TaskRow("pending", location[l].revision, driver.revision, run[r].now, 0, 0, 0,
          "none")

\* The task pins the revisions of location and driver.
NewTask(r, l) ==
  TaskRow("pending", location[l].revision, driver.revision,
          location[l].deleteAfter, 0, 0, 0, "none")

\* create_tasks
CreateTasks(r) ==
  /\ run[r].pc = "create"
  /\ \E S \in Limited({l \in Locations : location[l].state = "tombstoned"
                                           /\ task[l] = NoTask}) :
       task' = [l \in Locations |-> IF l \in S THEN NewTask(r, l) ELSE task[l]]
  /\ run' = [run EXCEPT ![r] = Goto(r, "select")]
  /\ UNCHANGED <<clock, namespace, location, object, driver, read>>

\* delete_one: what the candidate query and the claim accept at time t.
Due(l, t) ==
  \/ task[l].state = "pending" /\ task[l].deleteAfter <= t
  \/ task[l].state = "retry" /\ task[l].retry <= t
  \/ task[l].state = "claimed" /\ task[l].lease <= t
QueueTime(l) == IF task[l].state = "retry" THEN task[l].retry ELSE task[l].deleteAfter

Candidates(t) ==
  {l \in Locations : Due(l, t) /\ \A k \in Locations :
     Due(k, t) => QueueTime(l) <= QueueTime(k)}

SelectTask(r) ==
  /\ run[r].pc = "select"
  /\ \/ /\ Candidates(run[r].now) = {}
        /\ run' = [run EXCEPT ![r] = NoRun]
     \/ \E l \in Candidates(run[r].now) :
          run' = [run EXCEPT ![r] = Run("claim", @.now, l, 0, 0, "none")]
  /\ UNCHANGED <<clock, namespace, location, object, driver, read, task>>

\* Mutation: the lease stays on the settled task.
SettledLeased(t, state, retry, error) ==
  TaskRow(state, t.expected, t.driverRevision, t.deleteAfter, t.fence, t.lease,
          retry, error)

Settled(t, state, retry, error) ==
  TaskRow(state, t.expected, t.driverRevision, t.deleteAfter, t.fence, 0, retry,
          error)

\* The claim's compare-and-swap; a run that lost it ends.
ClaimTask(r) ==
  LET l == run[r].id
      t == task[l]
  IN
  /\ run[r].pc = "claim"
  /\ IF Due(l, run[r].now)
       THEN /\ task' = [task EXCEPT ![l] =
                 TaskRow("claimed", t.expected, t.driverRevision, t.deleteAfter,
                         t.fence + 1, run[r].now + Claim, 0, "none")]
            /\ run' = [run EXCEPT ![r] = Goto(r, "fence")]
       ELSE UNCHANGED task /\ run' = [run EXCEPT ![r] = NoRun]
  /\ UNCHANGED <<clock, namespace, location, object, driver, read>>

\* load_claim_fencing, a read of its own: the fence of whoever holds the claim.
LoadFence(r) ==
  LET t == task[run[r].id] IN
  /\ run[r].pc = "fence"
  /\ run' = [run EXCEPT ![r] =
       IF t.state = "claimed" /\ t.lease > @.now
         THEN Run("load", @.now, @.id, t.fence, 0, "none")
         ELSE NoRun]
  /\ UNCHANGED <<clock, namespace, location, object, driver, read, task>>

\* Mutation: the final safety query forgets the read leases.
RevalidatedUnleased(r) ==
  LET l == run[r].id IN
  /\ task[l].state = "claimed"
  /\ task[l].lease > run[r].now
  /\ location[l].state = "tombstoned"
  /\ location[l].revision = task[l].expected
  /\ driver.enabled
  /\ driver.revision = task[l].driverRevision

\* The final safety query of load_revalidated.
Revalidated(r) ==
  LET l == run[r].id IN
  /\ task[l].state = "claimed"
  /\ task[l].lease > run[r].now
  /\ location[l].state = "tombstoned"
  /\ location[l].revision = task[l].expected
  /\ task[l].deleteAfter <= run[r].now
  /\ driver.enabled
  /\ driver.revision = task[l].driverRevision
  /\ ~Leased(l, run[r].now)

\* The fence and the revision come with the row; a task that fails the query is
\* blocked, and so is one on an agent-host driver.
LoadTask(r) ==
  LET l == run[r].id IN
  /\ run[r].pc = "load"
  /\ run' = [run EXCEPT ![r] =
       IF ~Revalidated(r)
         THEN Run("fail", @.now, l, @.fence, 0, "revalidation_failed")
       ELSE IF driver.local
         THEN Run("fail", @.now, l, task[l].fence, task[l].expected, "local_driver")
       ELSE Run("provider", @.now, l, task[l].fence, task[l].expected, "none")]
  /\ UNCHANGED <<clock, namespace, location, object, driver, read, task>>

\* Mutation: any answer of the provider counts as a deletion.
AfterProviderOk(outcome) == "complete"

\* Ok completes, everything else fails the task.
AfterProvider(outcome) == IF outcome = "ok" THEN "complete" ELSE "fail"

\* delete_object: deleted or already absent; refused for good (identity
\* mismatch, invalid credential); or an error, with or without effect.
DeleteObject(r) ==
  LET l == run[r].id IN
  /\ run[r].pc = "provider"
  /\ \E outcome \in {"ok", "blocked", "retry"}, gone \in BOOLEAN :
       /\ outcome = "ok" => gone
       /\ outcome = "blocked" => ~gone
       /\ object' = [object EXCEPT ![l] = @ /\ ~gone]
       /\ run' = [run EXCEPT ![r] = Run(AfterProvider(outcome), @.now, l,
                                        @.fence, @.expected, outcome)]
  /\ UNCHANGED <<clock, namespace, location, driver, read, task>>

\* complete: the batch that settles location and task.  The second statement
\* requires what the first one wrote, so they take effect together.
MayComplete(r) ==
  LET l == run[r].id IN
  /\ location[l].state = "tombstoned"
  /\ location[l].revision = run[r].expected
  /\ task[l].state = "claimed"
  /\ task[l].fence = run[r].fence
  /\ task[l].lease > run[r].now
  /\ task[l].expected = run[r].expected
  /\ ~Leased(l, run[r].now)

CompleteTask(r) ==
  LET l == run[r].id IN
  /\ run[r].pc = "complete"
  /\ IF MayComplete(r)
       THEN /\ location' = [location EXCEPT ![l] =
                 LocationRow("deleted", @.revision + 1, @.deleteAfter)]
            /\ task' = [task EXCEPT ![l] = Settled(@, "deleted", 0, "none")]
            /\ run' = [run EXCEPT ![r] = NoRun]
       ELSE /\ run' = [run EXCEPT ![r] =
                 Run("fail", @.now, l, @.fence, @.expected,
                     "completion_fence_changed")]
            /\ UNCHANGED <<location, task>>
  /\ UNCHANGED <<clock, namespace, object, driver, read>>

\* fail: only a retryable provider error is scheduled again.
FailTask(r) ==
  LET l == run[r].id
      state == IF run[r].outcome = "retry" THEN "retry" ELSE "blocked"
      retry == IF state = "retry" THEN run[r].now + Delay ELSE 0
  IN
  /\ run[r].pc = "fail"
  /\ task' = [task EXCEPT ![l] =
       IF @.state = "claimed" /\ @.fence = run[r].fence
         THEN Settled(@, state, retry, run[r].outcome)
         ELSE @]
  /\ run' = [run EXCEPT ![r] = NoRun]
  /\ UNCHANGED <<clock, namespace, location, object, driver, read>>

-----------------------------------------------------------------------------
RunStep(r) ==
  \/ Mark(r)
  \/ CreateTasks(r)
  \/ SelectTask(r)
  \/ ClaimTask(r)
  \/ LoadFence(r)
  \/ LoadTask(r)
  \/ DeleteObject(r)
  \/ CompleteTask(r)
  \/ FailTask(r)

Next ==
  \/ Tick
  \/ \E l \in Locations : Replace(l) \/ Remove(l)
  \/ \E enabled \in BOOLEAN : ChangeDriver(enabled)
  \/ \E d \in Reads, l \in Locations, e \in 1 .. MaxTime : PlanDownload(d, l, e)
  \/ \E d \in Reads : GrantLease(d) \/ CompleteRead(d)
  \/ \E r \in Runs : StartRun(r) \/ RunStep(r) \/ LoseRun(r)

Spec == Init /\ [][Next]_vars

-----------------------------------------------------------------------------
(* Types *)

LocationRows ==
  [state : {"available", "tombstoned", "deleted"}, revision : Nat,
   deleteAfter : Nat]
Errors ==
  {"none", "revalidation_failed", "local_driver", "ok", "blocked", "retry",
   "completion_fence_changed"}
TaskRows ==
  [state : {"none", "pending", "claimed", "retry", "blocked", "deleted"},
   expected : Nat, driverRevision : Nat, deleteAfter : Nat, fence : Nat,
   lease : Nat, retry : Nat, error : Errors]
ReadRows ==
  [state : {"none", "loaded", "leased", "done"}, location : Locations \cup {None},
   expires : Nat]
Acting == {"claim", "fence", "load", "provider", "complete", "fail"}
RunRows ==
  [pc : {"idle", "mark", "create", "select"} \cup Acting, now : Nat,
   id : Locations \cup {None}, fence : Nat, expected : Nat, outcome : Errors]

\* Every row has the shape of its table and keeps the table's CHECK that a lease
\* goes with a claim, a read and an acting run know their location, and no run
\* is ahead of the clock.
TypeOK ==
  /\ clock \in Nat
  /\ pinned \in [Locations -> BOOLEAN]
  /\ version \in [Locations -> {"published", "tombstoned"}]
  /\ location \in [Locations -> LocationRows]
  /\ object \in [Locations -> BOOLEAN]
  /\ driver \in [enabled : BOOLEAN, revision : Nat, local : BOOLEAN]
  /\ read \in [Reads -> ReadRows]
  /\ \A d \in Reads : read[d].state # "none" => read[d].location \in Locations
  /\ task \in [Locations -> TaskRows]
  /\ \A l \in Locations : (task[l].state = "claimed") <=> (task[l].lease > 0)
  /\ run \in [Runs -> RunRows]
  /\ \A r \in Runs : /\ run[r].pc \in Acting => run[r].id \in Locations
                     /\ run[r].now <= clock

-----------------------------------------------------------------------------
(* Safety *)

\* A direct read that holds a lease finds its object: the cron never deletes
\* under a live lease, although it checks the leases at its own, older time and
\* the provider call comes after the check.
LiveReadsKeepObject ==
  \A d \in Reads :
    read[d].state = "leased" /\ read[d].expires > clock =>
      object[read[d].location]

\* A location is recorded as deleted only when the provider does not hold the
\* object any more, whatever happened to the run that deleted it.
DeletedIsGone ==
  \A l \in Locations : location[l].state = "deleted" => ~object[l]

\* What a live entry pins stays available, and no object disappears before the
\* deadline its location was given when it became unreachable.
GraceKept ==
  \A l \in Locations :
    /\ pinned[l] => location[l].state = "available"
    /\ ~object[l] => /\ location[l].state # "available"
                     /\ location[l].deleteAfter <= clock

-----------------------------------------------------------------------------
(* What the documentation says and the code does not guarantee *)

\* 0040_vfs_server_lifecycle.sql: "abandoned clients can delay deletion, never
\* make a live read unsafe."  Then the final safety query would only block a
\* task, which is for ever, because of its driver and not because of a lease.
LeasesOnlyDelay ==
  \A l \in Locations :
    task[l].state = "blocked" /\ task[l].error = "revalidation_failed" =>
      driver.revision # task[l].driverRevision \/ ~driver.enabled
=============================================================================
