------------------------------ MODULE PutDeletion ------------------------------
(***************************************************************************)
(* Cleanup of uploads that were never published: the hygiene batch of the  *)
(* cron expires intents and creates delete tasks, and two kinds of workers *)
(* claim them: cron runs, and token clients over HTTP.                     *)
(*                                                                         *)
(* A claim is a lease with a fencing token.  A cron run uses the time it   *)
(* captured at its start in all its statements, while the view             *)
(* safe_vfs_put_delete_tasks uses the clock of the database.               *)
(***************************************************************************)
EXTENDS Integers, FiniteSets

CONSTANTS
  Intents,      \* put intents, each with a storage key of its own
  Clients,      \* VFS tokens
  Runs,         \* overlapping cron invocations
  NoOne,
  Grace,        \* VFS_PUT_DELETE_GRACE_SECONDS
  Claim,        \* CLAIM_SECONDS of the server, and a client's lease_seconds
  Delay,        \* what retry_delay adds
  Limit,        \* MAXIMUM_EXPIRED_PUTS_PER_RUN
  Lifetimes,    \* the possible expires_at of an intent
  MaxTime,      \* bound on the clock
  MaxDriver,    \* bound on the revisions of the driver
  MaxFence      \* bound on the fences that revalidations hand out

ASSUME PutDeletionAssumption ==
  /\ NoOne \notin Intents \cup Clients
  /\ Grace \in Nat /\ Claim \in Nat \ {0} /\ Delay \in Nat \ {0}
  /\ Limit \in Nat \ {0} /\ Lifetimes \subseteq Nat
  /\ MaxTime \in Nat /\ MaxDriver \in Nat \ {0} /\ MaxFence \in Nat

VARIABLES
  clock,
  intent,       \* vfs_put_intents
  evidence,     \* vfs_put_upload_evidence: the token that uploaded
  object,       \* does the provider hold the object?
  driver,       \* driver_instances
  task,         \* vfs_put_delete_tasks
  client,       \* what each token client does with the task it was given
  run           \* cron invocations

upload == <<intent, evidence>>
vars == <<clock, upload, object, driver, task, client, run>>

-----------------------------------------------------------------------------
(* Rows *)

IntentRow(state, expires) == [state |-> state, expires |-> expires]
TaskRow(state, driverRev, deleteAfter, owner, fence, lease, retry, blocked, checked) ==
  [state |-> state, driverRevision |-> driverRev,
   deleteAfter |-> deleteAfter, owner |-> owner, fence |-> fence,
   lease |-> lease, retry |-> retry, blocked |-> blocked,
   revalidated |-> checked]
NoTask == TaskRow("none", 0, 0, NoOne, 0, 0, 0, FALSE, FALSE)

\* Mutation: a claim keeps the fence of the previous claim.
ClaimedSameFence(t, owner, lease, revalidated) ==
  TaskRow("claimed", t.driverRevision, t.deleteAfter, owner, t.fence, lease,
          0, t.blocked, revalidated)

\* Mutation: the lease stays on the task when the claim ends.
ReleasedLeased(t, state, retry, blocked) ==
  TaskRow(state, t.driverRevision, t.deleteAfter, NoOne, t.fence, t.lease, retry,
          blocked, t.revalidated)

\* The columns a claim, a revalidation and the end of a claim write.
Claimed(t, owner, lease, revalidated) ==
  TaskRow("claimed", t.driverRevision, t.deleteAfter, owner, t.fence + 1, lease,
          0, t.blocked, revalidated)
Released(t, state, retry, blocked) ==
  TaskRow(state, t.driverRevision, t.deleteAfter, NoOne, t.fence, 0, retry,
          blocked, t.revalidated)

Run(pc, now, id, fence, outcome) ==
  [pc |-> pc, now |-> now, id |-> id, fence |-> fence, outcome |-> outcome]
NoRun == Run("idle", 0, NoOne, 0, "none")

\* now: the time of the claim request that is being answered, then of the answer
Client(pc, now, id, fence) ==
  [pc |-> pc, now |-> now, id |-> id, fence |-> fence]
NoClient == Client("idle", 0, NoOne, 0)

\* Prepared intents, nothing uploaded yet.
Init ==
  /\ clock = 0
  /\ intent \in [Intents -> {IntentRow("prepared", e) : e \in Lifetimes}]
  /\ evidence = [i \in Intents |-> NoOne]
  /\ object = [i \in Intents |-> FALSE]
  /\ driver = [enabled |-> TRUE, revision |-> 1]
  /\ task = [i \in Intents |-> NoTask]
  /\ client = [c \in Clients |-> NoClient]
  /\ run = [r \in Runs |-> NoRun]

Tick ==
  /\ clock < MaxTime
  /\ clock' = clock + 1
  /\ UNCHANGED <<upload, object, driver, task, client, run>>

ChangeDriver(enabled) ==
  /\ driver.revision < MaxDriver
  /\ driver' = [enabled |-> enabled, revision |-> driver.revision + 1]
  /\ UNCHANGED <<clock, upload, object, task, client, run>>

-----------------------------------------------------------------------------
(* Upload and publication, as far as the cleanup sees them *)

Committable(i) == intent[i].state = "prepared" /\ intent[i].expires > clock

\* The client has uploaded the object and records its evidence.
Upload(i, c) ==
  /\ Committable(i)
  /\ evidence[i] = NoOne
  /\ evidence' = [evidence EXCEPT ![i] = c]
  /\ object' = [object EXCEPT ![i] = TRUE]
  /\ UNCHANGED <<clock, intent, driver, task, client, run>>

\* Mutation: a commit planned in time is accepted after the intent expired.
MayCommitLate(i) == intent[i].state # "committed" /\ evidence[i] # NoOne

\* What the put batch demands of the intent.
MayCommit(i) == Committable(i) /\ evidence[i] # NoOne

\* The put batch: receipt, committed intent and location; the trigger on the
\* insert of the location supersedes a task that is not settled.
Commit(i) ==
  /\ MayCommit(i)
  /\ intent' = [intent EXCEPT ![i] = IntentRow("committed", @.expires)]
  /\ task' = [task EXCEPT ![i] =
       IF @.state \in {"pending", "claimed", "failed"}
         THEN Released(@, "superseded", 0, @.blocked)
         ELSE @]
  /\ UNCHANGED <<clock, evidence, object, driver, client, run>>

-----------------------------------------------------------------------------
(* The hygiene batch of a cron run *)

\* ORDER BY expires_at LIMIT: the oldest of the candidates.
Oldest(S) ==
  {T \in SUBSET S :
     /\ Cardinality(T) = IF Cardinality(S) <= Limit THEN Cardinality(S) ELSE Limit
     /\ \A i \in T, j \in S \ T : intent[i].expires <= intent[j].expires}

Overdue(t) == {i \in Intents : intent[i].state = "prepared" /\ intent[i].expires <= t}

\* What the SELECT of the task insert finds, tasks or not.
Abandoned(X) ==
  {i \in Intents : evidence[i] # NoOne /\ (intent[i].state = "expired" \/ i \in X)}

StartRun(r) ==
  /\ run[r].pc = "idle"
  /\ run' = [run EXCEPT ![r] = Run("hygiene", clock, NoOne, 0, "none")]
  /\ UNCHANGED <<clock, upload, object, driver, task, client>>

LoseRun(r) ==
  /\ run[r].pc # "idle"
  /\ run' = [run EXCEPT ![r] = NoRun]
  /\ UNCHANGED <<clock, upload, object, driver, task, client>>

\* Expire, then create tasks ON CONFLICT DO NOTHING, in one batch.
Hygiene(r) ==
  /\ run[r].pc = "hygiene"
  /\ \E X \in Oldest(Overdue(run[r].now)) :
       /\ intent' = [i \in Intents |->
            IF i \in X THEN IntentRow("expired", intent[i].expires) ELSE intent[i]]
       /\ \E S \in Oldest(Abandoned(X)) :
            task' = [i \in Intents |->
              IF i \in S /\ task[i] = NoTask
                THEN TaskRow("pending", driver.revision, intent[i].expires + Grace,
                             NoOne, 0, 0, 0, FALSE, FALSE)
                ELSE task[i]]
  /\ run' = [run EXCEPT ![r] = Run("select", @.now, NoOne, 0, "none")]
  /\ UNCHANGED <<clock, evidence, object, driver, client>>

-----------------------------------------------------------------------------
(* Who may claim *)

\* safe_vfs_put_delete_tasks, at the clock of the database
Safe(i) ==
  /\ task[i].state \in {"pending", "claimed", "failed"}
  /\ task[i].deleteAfter <= clock
  /\ intent[i].state = "expired"
  /\ driver.enabled
  /\ driver.revision = task[i].driverRevision

\* Claimable by the server at time t, by a client at time t.
ServerDue(i, t) ==
  /\ Safe(i)
  /\ ~task[i].blocked
  /\ \/ task[i].state = "pending" /\ task[i].deleteAfter <= t
     \/ task[i].state = "failed" /\ task[i].retry <= t
     \/ task[i].state = "claimed" /\ task[i].lease <= t
ClientDue(i, t) ==
  /\ Safe(i)
  /\ ~task[i].blocked
  /\ \/ task[i].state = "pending"
     \/ task[i].state = "failed" /\ task[i].retry <= t
     \/ task[i].state = "claimed" /\ task[i].lease <= t

-----------------------------------------------------------------------------
(* Server: delete_one_abandoned_put *)

QueueTime(i) == IF task[i].state = "failed" THEN task[i].retry ELSE task[i].deleteAfter
Candidates(t) ==
  {i \in Intents : ServerDue(i, t) /\ \A j \in Intents :
     ServerDue(j, t) => QueueTime(i) <= QueueTime(j)}

SelectTask(r) ==
  /\ run[r].pc = "select"
  /\ \/ /\ Candidates(run[r].now) = {}
        /\ run' = [run EXCEPT ![r] = NoRun]
     \/ \E i \in Candidates(run[r].now) :
          run' = [run EXCEPT ![r] = Run("claim", @.now, i, 0, "none")]
  /\ UNCHANGED <<clock, upload, object, driver, task, client>>

\* The claim is entered under the token that uploaded the object, revalidated.
ClaimTask(r) ==
  LET i == run[r].id IN
  /\ run[r].pc = "claim"
  /\ IF ServerDue(i, run[r].now)
       THEN /\ task' = [task EXCEPT ![i] =
                 Claimed(@, evidence[i], run[r].now + Claim, TRUE)]
            /\ run' = [run EXCEPT ![r] = Run("fence", @.now, i, 0, "none")]
       ELSE UNCHANGED task /\ run' = [run EXCEPT ![r] = NoRun]
  /\ UNCHANGED <<clock, upload, object, driver, client>>

\* load_claim_fencing
LoadFence(r) ==
  LET t == task[run[r].id] IN
  /\ run[r].pc = "fence"
  /\ run' = [run EXCEPT ![r] =
       IF t.state = "claimed" /\ t.lease > @.now
         THEN Run("load", @.now, @.id, t.fence, "none")
         ELSE NoRun]
  /\ UNCHANGED <<clock, upload, object, driver, task, client>>

\* load_abandoned_put; what is no longer safe is retried.
LoadTask(r) ==
  LET i == run[r].id IN
  /\ run[r].pc = "load"
  /\ run' = [run EXCEPT ![r] =
       IF task[i].state = "claimed" /\ task[i].lease > @.now /\ Safe(i)
         THEN Run("provider", @.now, i, task[i].fence, "none")
         ELSE Run("settle", @.now, i, @.fence, "retry")]
  /\ UNCHANGED <<clock, upload, object, driver, task, client>>

\* delete_through_driver: deleted or absent, refused for good, or an error with
\* or without effect.
DeleteObject(r) ==
  LET i == run[r].id IN
  /\ run[r].pc = "provider"
  /\ \E outcome \in {"ok", "blocked", "retry"}, gone \in BOOLEAN :
       /\ outcome = "ok" => gone
       /\ outcome = "blocked" => ~gone
       /\ object' = [object EXCEPT ![i] = @ /\ ~gone]
       /\ run' = [run EXCEPT ![r] = Run("settle", @.now, i, @.fence, outcome)]
  /\ UNCHANGED <<clock, upload, driver, task, client>>

\* Mutation: an error of the provider is taken for a deletion.
OutcomeAlwaysDeleted(t, outcome, now) == Released(t, "deleted", 0, FALSE)

\* complete_abandoned_put and fail_abandoned_put
Outcome(t, outcome, now) ==
  CASE outcome = "ok" -> Released(t, "deleted", 0, FALSE)
    [] outcome = "retry" -> Released(t, "failed", now + Delay, FALSE)
    [] OTHER -> Released(t, "failed", 0, TRUE)

\* The outcome is written under the fence; a completion must also be safe.
SettleTask(r) ==
  LET i == run[r].id IN
  /\ run[r].pc = "settle"
  /\ task' = [task EXCEPT ![i] =
       IF /\ @.state = "claimed" /\ @.fence = run[r].fence
          /\ run[r].outcome = "ok" => Safe(i)
         THEN Outcome(@, run[r].outcome, run[r].now)
         ELSE @]
  /\ run' = [run EXCEPT ![r] = NoRun]
  /\ UNCHANGED <<clock, upload, object, driver, client>>

-----------------------------------------------------------------------------
(* Clients: claim, revalidate, complete, fail *)

\* load_owned_task: the live claims entered under this token.
Owned(c, now) ==
  {i \in Intents : task[i].state = "claimed" /\ task[i].owner = c
                     /\ task[i].lease > now}

\* load_candidate: the first in the queue of what a client may claim.
ClientCandidates(t) ==
  {i \in Intents : ClientDue(i, t) /\ \A j \in Intents :
     ClientDue(j, t) => QueueTime(i) <= QueueTime(j)}

\* claim captures the time of the request ...
ClaimRequest(c) ==
  /\ client[c].pc = "idle"
  /\ client' = [client EXCEPT ![c] = Client("asked", clock, NoOne, 0)]
  /\ UNCHANGED <<clock, upload, object, driver, task, run>>

\* ... finds a claim that the token already owns, or else a candidate ...
ClaimSelect(c) ==
  LET now == client[c].now IN
  /\ client[c].pc = "asked"
  /\ \/ \E i \in Owned(c, now) :
          client' = [client EXCEPT ![c] = Client("loading", now, i, 0)]
     \/ /\ Owned(c, now) = {}
        /\ \E i \in ClientCandidates(now) :
             client' = [client EXCEPT ![c] = Client("claiming", now, i, 0)]
     \/ /\ Owned(c, now) \cup ClientCandidates(now) = {}
        /\ client' = [client EXCEPT ![c] = NoClient]
  /\ UNCHANGED <<clock, upload, object, driver, task, run>>

\* ... which it claims if it is still due ...
ClaimUpdate(c) ==
  LET k == client[c] IN
  /\ k.pc = "claiming"
  /\ IF ClientDue(k.id, k.now)
       THEN /\ task' = [task EXCEPT ![k.id] = Claimed(@, c, k.now + Claim, FALSE)]
            /\ client' = [client EXCEPT ![c].pc = "reload"]
       ELSE UNCHANGED task /\ client' = [client EXCEPT ![c] = NoClient]
  /\ UNCHANGED <<clock, upload, object, driver, run>>

\* ... finds again as a claim of its own ...
ClaimReload(c) ==
  LET k == client[c] IN
  /\ k.pc = "reload"
  /\ client' = [client EXCEPT ![c] =
       IF k.id \in Owned(c, k.now) THEN Client("loading", k.now, k.id, 0)
       ELSE NoClient]
  /\ UNCHANGED <<clock, upload, object, driver, task, run>>

\* ... and answers with the row load_task then finds, whoever claimed it since.
ClaimLoad(c) ==
  LET i == client[c].id IN
  /\ client[c].pc = "loading"
  /\ client' = [client EXCEPT ![c] = Client("claimed", clock, i, task[i].fence)]
  /\ UNCHANGED <<clock, upload, object, driver, task, run>>

\* Does the client's fence still hold the claim?
Holds(c) ==
  LET t == task[client[c].id] IN
  /\ t.state = "claimed"
  /\ t.owner = c
  /\ t.fence = client[c].fence

\* The time a handler of the client's next request may have captured: its
\* statement comes later.
RequestTimes(c) == client[c].now .. clock

\* Rotates the fence after the client's Stat; a refused client gives up.
Revalidate(c) ==
  LET i == client[c].id IN
  /\ client[c].pc = "claimed"
  /\ task[i].fence < MaxFence
  /\ \E now \in RequestTimes(c) :
       IF Holds(c) /\ task[i].lease > now /\ Safe(i)
         THEN /\ task' = [task EXCEPT ![i] = Claimed(@, c, now + Claim, TRUE)]
              /\ client' = [client EXCEPT ![c] =
                   Client("revalidated", clock, i, @.fence + 1)]
         ELSE UNCHANGED task /\ client' = [client EXCEPT ![c] = NoClient]
  /\ UNCHANGED <<clock, upload, object, driver, run>>

\* The client deletes the object itself, under its driver grant.
ClientDelete(c) ==
  /\ client[c].pc = "revalidated"
  /\ \/ /\ object' = [object EXCEPT ![client[c].id] = FALSE]
        /\ client' = [client EXCEPT ![c].pc = "deleted"]
     \/ /\ client' = [client EXCEPT ![c].pc = "failing"]
        /\ UNCHANGED object
  /\ UNCHANGED <<clock, upload, driver, task, run>>

MayComplete(c, now) ==
  LET t == task[client[c].id] IN
  Holds(c) /\ t.lease > now /\ t.revalidated /\ Safe(client[c].id)

\* complete: a settled task is replayed, a stale fence refused.
Complete(c) ==
  LET i == client[c].id IN
  /\ client[c].pc = "deleted"
  /\ \E now \in RequestTimes(c) :
       task' = [task EXCEPT ![i] =
         IF MayComplete(c, now) THEN Released(@, "deleted", 0, FALSE) ELSE @]
  /\ client' = [client EXCEPT ![c] = NoClient]
  /\ UNCHANGED <<clock, upload, object, driver, run>>

\* fail: needs the fence, but neither a live lease nor a safe task.
Fail(c) ==
  LET i == client[c].id IN
  /\ client[c].pc \in {"claimed", "failing"}
  /\ \E now \in RequestTimes(c) :
       task' = [task EXCEPT ![i] =
         IF Holds(c)
           THEN [Released(@, "failed", now + Delay, @.blocked)
                   EXCEPT !.revalidated = FALSE]
           ELSE @]
  /\ client' = [client EXCEPT ![c] = NoClient]
  /\ UNCHANGED <<clock, upload, object, driver, run>>

LoseClient(c) ==
  /\ client[c].pc # "idle"
  /\ client' = [client EXCEPT ![c] = NoClient]
  /\ UNCHANGED <<clock, upload, object, driver, task, run>>

-----------------------------------------------------------------------------
RunStep(r) ==
  \/ Hygiene(r)
  \/ SelectTask(r)
  \/ ClaimTask(r)
  \/ LoadFence(r)
  \/ LoadTask(r)
  \/ DeleteObject(r)
  \/ SettleTask(r)

ClientStep(c) ==
  \/ ClaimRequest(c)
  \/ ClaimSelect(c)
  \/ ClaimUpdate(c)
  \/ ClaimReload(c)
  \/ ClaimLoad(c)
  \/ Revalidate(c)
  \/ ClientDelete(c)
  \/ Complete(c)
  \/ Fail(c)
  \/ LoseClient(c)

Next ==
  \/ Tick
  \/ \E enabled \in BOOLEAN : ChangeDriver(enabled)
  \/ \E i \in Intents : Commit(i) \/ \E c \in Clients : Upload(i, c)
  \/ \E r \in Runs : StartRun(r) \/ RunStep(r) \/ LoseRun(r)
  \/ \E c \in Clients : ClientStep(c)

Spec == Init /\ [][Next]_vars

\* The cron fires again and again, and time passes.
FairSpec ==
  /\ Spec
  /\ WF_vars(Tick)
  /\ \A r \in Runs : WF_vars(StartRun(r)) /\ SF_vars(Hygiene(r))
                       /\ WF_vars(RunStep(r))

-----------------------------------------------------------------------------
(* Types *)

TaskRows ==
  [state : {"none", "pending", "claimed", "failed", "deleted", "superseded"},
   driverRevision : Nat, deleteAfter : Nat, owner : Clients \cup {NoOne},
   fence : Nat, lease : Nat, retry : Nat, blocked : BOOLEAN,
   revalidated : BOOLEAN]
Acting == {"claim", "fence", "load", "provider", "settle"}
Holding ==
  {"claiming", "reload", "loading", "claimed", "revalidated", "deleted",
   "failing"}

\* Rows have the shape of their tables and keep the table's CHECKs: owner and
\* lease exactly with a claim, which is never of a blocked task, and a retry
\* time exactly with an unblocked failure.
TypeOK ==
  /\ clock \in Nat
  /\ intent \in [Intents -> [state : {"prepared", "committed", "expired"},
                             expires : Nat]]
  /\ evidence \in [Intents -> Clients \cup {NoOne}]
  /\ object \in [Intents -> BOOLEAN]
  /\ driver \in [enabled : BOOLEAN, revision : Nat]
  /\ task \in [Intents -> TaskRows]
  /\ \A i \in Intents :
       /\ (task[i].state = "claimed") <=> (task[i].owner # NoOne)
       /\ (task[i].state = "claimed") <=> (task[i].lease > 0)
       /\ task[i].state = "claimed" => ~task[i].blocked
       /\ (task[i].state = "failed" /\ ~task[i].blocked) <=> (task[i].retry > 0)
       /\ task[i].state # "none" => evidence[i] # NoOne
  /\ client \in [Clients -> [pc : {"idle", "asked"} \cup Holding, now : Nat,
                             id : Intents \cup {NoOne}, fence : Nat]]
  /\ \A c \in Clients : client[c].pc \in Holding => client[c].id \in Intents
  /\ run \in [Runs -> [pc : {"idle", "hygiene", "select"} \cup Acting, now : Nat,
                       id : Intents \cup {NoOne}, fence : Nat,
                       outcome : {"none", "ok", "blocked", "retry"}]]
  /\ \A r \in Runs : run[r].pc \in Acting => run[r].id \in Intents

-----------------------------------------------------------------------------
(* Properties *)

\* A published object is never deleted: the cleanup works only on what was
\* abandoned, and what was abandoned is never published.
PublishedKept ==
  \A i \in Intents : intent[i].state = "committed" => object[i]

\* A task is recorded as deleted only when the object is gone, whichever worker
\* recorded it under whose fence.
DeletedIsGone == \A i \in Intents : task[i].state = "deleted" => ~object[i]

\* Two clients never delete under the same fence: of the claims a task goes
\* through, by lease expiry, failure and revalidation, each has its own fence.
ClientFencesAreExclusive ==
  \A c, k \in Clients :
    /\ c # k
    /\ client[c].pc \in {"revalidated", "deleted", "failing"}
    /\ client[k].pc \in {"revalidated", "deleted", "failing"}
    /\ client[c].id = client[k].id
    => client[c].fence # client[k].fence

\* 0036_vfs_put_delete_tasks.sql: "One expired or abandoned complete-object
\* upload maps to one fenced delete task."  The hygiene batch creates a task for
\* every upload that expired with evidence, sooner or later.
AbandonedGetsTask ==
  \A i \in Intents :
    (intent[i].state = "expired" /\ evidence[i] # NoOne) ~> (task[i] # NoTask)

\* 0040_vfs_server_lifecycle.sql: "Compatibility-era abandoned-Put tasks are now
\* claimed only by server cron."  Then a run that deletes within its lease would
\* still hold the claim.
ServerKeepsClaim ==
  \A r \in Runs :
    run[r].pc = "provider" /\ run[r].now + Claim > clock =>
      task[run[r].id].state # "claimed" \/ task[run[r].id].fence = run[r].fence
=============================================================================
