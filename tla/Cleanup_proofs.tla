---------------------------- MODULE Cleanup_proofs ----------------------------
(***************************************************************************)
(* Proofs about two cleanups that run beside the work they clean up after. *)
(*                                                                         *)
(* PutDeletion: the server deletes the objects of abandoned uploads; for   *)
(* any number of uploads, token clients and overlapping cron runs.         *)
(*                                                                         *)
(* CatalogClient: a client discards damaged nodes of its catalog store and *)
(* prunes those its head does not reach, while others plan from them; for  *)
(* any number of syncs, shards, trees, revisions and faults.               *)
(***************************************************************************)
EXTENDS PutDeletion, CatalogClient, TLAPS, SequenceTheorems, FiniteSetTheorems

-----------------------------------------------------------------------------
(***************************************************************************)
(* Abandoned uploads: PutDeletion                                          *)
(***************************************************************************)

-----------------------------------------------------------------------------
(* Type correctness *)

\* A row that a claim or the end of a claim writes is a row of the table.
LEMMA ClaimedRow ==
  ASSUME NEW t \in TaskRows, NEW c \in Clients, NEW lease \in Nat,
         NEW checked \in BOOLEAN
  PROVE Claimed(t, c, lease, checked) \in TaskRows
BY DEF Claimed, TaskRow, TaskRows

LEMMA ReleasedRow ==
  ASSUME NEW t \in TaskRows, NEW retry \in Nat, NEW blocked \in BOOLEAN,
         NEW state \in {"failed", "deleted", "superseded"}
  PROVE Released(t, state, retry, blocked) \in TaskRows
BY DEF Released, TaskRow, TaskRows

LEMMA TypeInit == Init => TypeOK
<1> SUFFICES ASSUME Init PROVE TypeOK
  OBVIOUS
<1>1. NoTask \in TaskRows
  BY DEF NoTask, TaskRow, TaskRows
<1> QED
  BY <1>1, PutDeletionAssumption
     DEF Init, TypeOK, IntentRow, NoTask, TaskRow, NoRun, Run, NoClient, Client,
         Acting, Holding

\* TypeOK of the rows of one table, for the actions that change only that.
TasksOK ==
  /\ task \in [Intents -> TaskRows]
  /\ \A i \in Intents :
       /\ (task[i].state = "claimed") <=> (task[i].owner # NoOne)
       /\ (task[i].state = "claimed") <=> (task[i].lease > 0)
       /\ task[i].state = "claimed" => ~task[i].blocked
       /\ (task[i].state = "failed" /\ ~task[i].blocked) <=> (task[i].retry > 0)
       /\ task[i].state # "none" => evidence[i] # NoOne
ClientsOK ==
  /\ client \in [Clients -> [pc : {"idle", "asked"} \cup Holding, now : Nat,
                             id : Intents \cup {NoOne}, fence : Nat]]
  /\ \A c \in Clients : client[c].pc \in Holding => client[c].id \in Intents
RunsOK ==
  /\ run \in [Runs -> [pc : {"idle", "hygiene", "select"} \cup Acting, now : Nat,
                       id : Intents \cup {NoOne}, fence : Nat,
                       outcome : {"none", "ok", "blocked", "retry"}]]
  /\ \A r \in Runs : run[r].pc \in Acting => run[r].id \in Intents
UploadsOK ==
  /\ clock \in Nat
  /\ intent \in [Intents -> [state : {"prepared", "committed", "expired"},
                             expires : Nat]]
  /\ evidence \in [Intents -> Clients \cup {NoOne}]
  /\ object \in [Intents -> BOOLEAN]
  /\ driver \in [enabled : BOOLEAN, revision : Nat]

LEMMA TypeParts ==
  ASSUME UploadsOK', TasksOK', ClientsOK', RunsOK' PROVE TypeOK'
BY DEF TypeOK, UploadsOK, TasksOK, ClientsOK, RunsOK

\* One task row is replaced by a claim.
LEMMA ClaimTasks ==
  ASSUME TypeOK, NEW i \in Intents, NEW c \in Clients, NEW lease \in Nat \ {0},
         NEW checked \in BOOLEAN, evidence[i] # NoOne, evidence' = evidence,
         ~task[i].blocked,
         task' = [task EXCEPT ![i] = Claimed(@, c, lease, checked)]
  PROVE TasksOK'
<1>1. task[i] \in TaskRows
  BY DEF TypeOK
<1>2. Claimed(task[i], c, lease, checked) \in TaskRows
  BY <1>1, ClaimedRow
<1>3. LET t == Claimed(task[i], c, lease, checked) IN
      /\ t.state = "claimed" /\ t.owner = c /\ t.lease = lease /\ t.retry = 0
      /\ t.blocked = task[i].blocked
  BY DEF Claimed, TaskRow
<1>4. c # NoOne
  BY PutDeletionAssumption
<1>5. task' \in [Intents -> TaskRows]
  BY <1>2 DEF TypeOK
<1>6. ASSUME NEW j \in Intents
      PROVE /\ (task'[j].state = "claimed") <=> (task'[j].owner # NoOne)
            /\ (task'[j].state = "claimed") <=> (task'[j].lease > 0)
            /\ task'[j].state = "claimed" => ~task'[j].blocked
            /\ (task'[j].state = "failed" /\ ~task'[j].blocked)
                 <=> (task'[j].retry > 0)
            /\ task'[j].state # "none" => evidence'[j] # NoOne
  <2>1. CASE j = i
    BY <2>1, <1>3, <1>4 DEF TypeOK
  <2>2. CASE j # i
    BY <2>2 DEF TypeOK
  <2> QED BY <2>1, <2>2
<1> QED BY <1>5, <1>6 DEF TasksOK

\* One task row is replaced by the end of a claim or by the trigger.
LEMMA ReleaseTasks ==
  ASSUME TypeOK, NEW i \in Intents, NEW retry \in Nat, NEW blocked \in BOOLEAN,
         NEW state \in {"failed", "deleted", "superseded"}, NEW t,
         (state = "failed" /\ ~blocked) <=> (retry > 0),
         t = Released(task[i], state, retry, blocked)
               \/ t = [Released(task[i], state, retry, blocked)
                         EXCEPT !.revalidated = FALSE],
         evidence[i] # NoOne, evidence' = evidence,
         task' = [task EXCEPT ![i] = t]
  PROVE TasksOK'
<1>1. task[i] \in TaskRows
  BY DEF TypeOK
<1>2. t \in TaskRows
  <2>1. Released(task[i], state, retry, blocked) \in TaskRows
    BY <1>1, ReleasedRow
  <2> QED BY <2>1 DEF TaskRows
<1>3. /\ t.state = state /\ t.owner = NoOne /\ t.lease = 0
      /\ t.retry = retry /\ t.blocked = blocked
  BY DEF Released, TaskRow
<1>4. task' \in [Intents -> TaskRows]
  BY <1>2 DEF TypeOK
<1>5. ASSUME NEW j \in Intents
      PROVE /\ (task'[j].state = "claimed") <=> (task'[j].owner # NoOne)
            /\ (task'[j].state = "claimed") <=> (task'[j].lease > 0)
            /\ task'[j].state = "claimed" => ~task'[j].blocked
            /\ (task'[j].state = "failed" /\ ~task'[j].blocked)
                 <=> (task'[j].retry > 0)
            /\ task'[j].state # "none" => evidence'[j] # NoOne
  <2>1. CASE j = i
    BY <2>1, <1>3 DEF TypeOK
  <2>2. CASE j # i
    BY <2>2 DEF TypeOK
  <2> QED BY <2>1, <2>2
<1> QED BY <1>4, <1>5 DEF TasksOK

\* What a run or a client holds when it touches a task.
LEMMA RunId ==
  ASSUME TypeOK, NEW r \in Runs, run[r].pc \in Acting
  PROVE run[r].id \in Intents
BY DEF TypeOK

LEMMA ClientId ==
  ASSUME TypeOK, NEW c \in Clients, client[c].pc \in Holding
  PROVE client[c].id \in Intents
BY DEF TypeOK

\* The next state of a run and of a client.
LEMMA RunRow ==
  ASSUME TypeOK, NEW r \in Runs, NEW pc, NEW id, NEW now \in Nat, NEW fence \in Nat,
         NEW outcome \in {"none", "ok", "blocked", "retry"},
         \/ pc \in {"idle", "hygiene", "select"} /\ id \in Intents \cup {NoOne}
         \/ pc \in Acting /\ id \in Intents,
         run' = [run EXCEPT ![r] = Run(pc, now, id, fence, outcome)]
  PROVE RunsOK'
BY DEF TypeOK, RunsOK, Run, Acting

LEMMA RunEnds ==
  ASSUME TypeOK, NEW r \in Runs, run' = [run EXCEPT ![r] = NoRun]
  PROVE RunsOK'
BY DEF TypeOK, RunsOK, NoRun, Run, Acting

LEMMA ClientRow ==
  ASSUME TypeOK, NEW c \in Clients, NEW pc, NEW id, NEW now \in Nat, NEW fence \in Nat,
         \/ pc \in {"idle", "asked"} /\ id \in Intents \cup {NoOne}
         \/ pc \in Holding /\ id \in Intents,
         client' = [client EXCEPT ![c] = Client(pc, now, id, fence)]
  PROVE ClientsOK'
BY DEF TypeOK, ClientsOK, Client, Holding

LEMMA ClientEnds ==
  ASSUME TypeOK, NEW c \in Clients, client' = [client EXCEPT ![c] = NoClient]
  PROVE ClientsOK'
BY DEF TypeOK, ClientsOK, NoClient, Client, Holding

LEMMA ClientMoves ==
  ASSUME TypeOK, NEW c \in Clients, client[c].pc \in Holding,
         NEW pc \in Holding, client' = [client EXCEPT ![c].pc = pc]
  PROVE ClientsOK'
BY SMTT(30) DEF TypeOK, ClientsOK, Holding

\* Uploads, clock and driver.
LEMMA TypeUpload ==
  ASSUME TypeOK,
         \/ Tick
         \/ \E enabled \in BOOLEAN : ChangeDriver(enabled)
         \/ \E i \in Intents : Commit(i) \/ \E c \in Clients : Upload(i, c)
  PROVE TypeOK'
<1>1. CASE Tick
  BY <1>1 DEF Tick, upload, TypeOK
<1>2. ASSUME NEW enabled \in BOOLEAN, ChangeDriver(enabled) PROVE TypeOK'
  BY <1>2 DEF ChangeDriver, upload, TypeOK
<1>3. ASSUME NEW i \in Intents, NEW c \in Clients, Upload(i, c) PROVE TypeOK'
  <2>1. c # NoOne
    BY PutDeletionAssumption
  <2> QED BY <1>3, <2>1 DEF Upload, TypeOK
<1>4. ASSUME NEW i \in Intents, Commit(i) PROVE TypeOK'
  <2>1. UploadsOK' /\ evidence' = evidence /\ evidence[i] # NoOne
    BY <1>4 DEF Commit, MayCommit, TypeOK, UploadsOK, IntentRow
  <2>2. ClientsOK' /\ RunsOK'
    BY <1>4 DEF Commit, TypeOK, ClientsOK, RunsOK
  <2>3. TasksOK'
    <3>1. CASE task[i].state \in {"pending", "claimed", "failed"}
      <4>1. task' = [task EXCEPT ![i] =
                       Released(task[i], "superseded", 0, task[i].blocked)]
        BY <1>4, <3>1 DEF Commit, TypeOK
      <4>2. task[i].blocked \in BOOLEAN
        BY DEF TypeOK, TaskRows
      <4>3. ("superseded" = "failed" /\ ~task[i].blocked) <=> (0 > 0)
        OBVIOUS
      <4> QED BY <2>1, <4>1, <4>2, <4>3, ReleaseTasks
    <3>2. CASE task[i].state \notin {"pending", "claimed", "failed"}
      BY <1>4, <2>1, <3>2 DEF Commit, TypeOK, TasksOK
    <3> QED BY <3>1, <3>2
  <2> QED BY <2>1, <2>2, <2>3, TypeParts
<1> QED BY <1>1, <1>2, <1>3, <1>4

\* The hygiene batch.
LEMMA TypeHygiene ==
  ASSUME TypeOK, NEW r \in Runs, Hygiene(r) PROVE TypeOK'
<1>1. PICK X \in Oldest(Overdue(run[r].now)) :
        /\ intent' = [i \in Intents |->
             IF i \in X THEN IntentRow("expired", intent[i].expires) ELSE intent[i]]
        /\ \E S \in Oldest(Abandoned(X)) :
             task' = [i \in Intents |->
               IF i \in S /\ task[i] = NoTask
                 THEN TaskRow("pending", driver.revision, intent[i].expires + Grace,
                              NoOne, 0, 0, 0, FALSE, FALSE)
                 ELSE task[i]]
  BY DEF Hygiene
<1>2. PICK S \in Oldest(Abandoned(X)) :
        task' = [i \in Intents |->
          IF i \in S /\ task[i] = NoTask
            THEN TaskRow("pending", driver.revision, intent[i].expires + Grace,
                         NoOne, 0, 0, 0, FALSE, FALSE)
            ELSE task[i]]
  BY <1>1
<1>3. UNCHANGED <<clock, evidence, object, driver, client>>
  BY DEF Hygiene
<1>4. UploadsOK'
  BY <1>1, <1>3 DEF TypeOK, UploadsOK, IntentRow
<1>5. TasksOK'
  <2>1. \A i \in S : evidence[i] # NoOne
    BY DEF Oldest, Abandoned
  <2>2. \A i \in Intents :
          TaskRow("pending", driver.revision, intent[i].expires + Grace,
                  NoOne, 0, 0, 0, FALSE, FALSE) \in TaskRows
    BY PutDeletionAssumption DEF TypeOK, TaskRow, TaskRows
  <2>3. task' \in [Intents -> TaskRows]
    BY <1>2, <2>2 DEF TypeOK
  <2>4. ASSUME NEW i \in Intents
        PROVE /\ (task'[i].state = "claimed") <=> (task'[i].owner # NoOne)
              /\ (task'[i].state = "claimed") <=> (task'[i].lease > 0)
              /\ task'[i].state = "claimed" => ~task'[i].blocked
              /\ (task'[i].state = "failed" /\ ~task'[i].blocked)
                   <=> (task'[i].retry > 0)
              /\ task'[i].state # "none" => evidence'[i] # NoOne
    <3>1. CASE i \in S /\ task[i] = NoTask
      BY <1>2, <1>3, <2>1, <3>1 DEF TaskRow
    <3>2. CASE ~(i \in S /\ task[i] = NoTask)
      BY <1>2, <1>3, <3>2 DEF TypeOK
    <3> QED BY <3>1, <3>2
  <2> QED BY <2>3, <2>4 DEF TasksOK
<1>6. ClientsOK'
  BY <1>3 DEF TypeOK, ClientsOK
<1>7. RunsOK'
  <2>1. run' = [run EXCEPT ![r] = Run("select", run[r].now, NoOne, 0, "none")]
    BY DEF Hygiene, TypeOK
  <2>2. run[r].now \in Nat
    BY DEF TypeOK
  <2> QED BY <2>1, <2>2, RunRow
<1> QED BY <1>4, <1>5, <1>6, <1>7, TypeParts

\* A step of a run that changes only the run.
LEMMA OnlyRun ==
  ASSUME TypeOK, UNCHANGED <<clock, upload, object, driver, task, client>>, RunsOK'
  PROVE TypeOK'
<1>1. UploadsOK' /\ TasksOK' /\ ClientsOK'
  BY DEF upload, TypeOK, UploadsOK, TasksOK, ClientsOK
<1> QED BY <1>1, TypeParts

LEMMA TypeClaimTask ==
  ASSUME TypeOK, NEW r \in Runs, ClaimTask(r) PROVE TypeOK'
<1> DEFINE i == run[r].id
<1>1. i \in Intents /\ run[r].now \in Nat
  BY RunId DEF ClaimTask, Acting, TypeOK
<1>2. UploadsOK' /\ ClientsOK' /\ evidence' = evidence
  BY DEF ClaimTask, upload, TypeOK, UploadsOK, ClientsOK
<1>3. CASE ServerDue(i, run[r].now)
  <2>1. evidence[i] \in Clients /\ evidence[i] # NoOne /\ ~task[i].blocked
    BY <1>1, <1>3 DEF ServerDue, Safe, TypeOK
  <2>2. run[r].now + Claim \in Nat \ {0}
    BY <1>1, PutDeletionAssumption
  <2>3. task' = [task EXCEPT ![i] =
                   Claimed(@, evidence[i], run[r].now + Claim, TRUE)]
    BY <1>3 DEF ClaimTask
  <2>4. TasksOK'
    BY <1>1, <1>2, <2>1, <2>2, <2>3, ClaimTasks
  <2>5. run' = [run EXCEPT ![r] = Run("fence", run[r].now, i, 0, "none")]
    BY <1>3 DEF ClaimTask, TypeOK
  <2>6. RunsOK'
    BY <1>1, <2>5, RunRow DEF Acting
  <2> QED BY <1>2, <2>4, <2>6, TypeParts
<1>4. CASE ~ServerDue(i, run[r].now)
  <2>1. UNCHANGED task /\ run' = [run EXCEPT ![r] = NoRun]
    BY <1>4 DEF ClaimTask
  <2>2. RunsOK'
    BY <2>1, RunEnds
  <2> QED BY <2>1, <2>2, OnlyRun DEF ClaimTask
<1> QED BY <1>3, <1>4

LEMMA TypeSettleTask ==
  ASSUME TypeOK, NEW r \in Runs, SettleTask(r) PROVE TypeOK'
<1> DEFINE i == run[r].id
           t == Outcome(task[i], run[r].outcome, run[r].now)
<1>1. /\ i \in Intents /\ run[r].now \in Nat
      /\ run[r].now + Delay \in Nat /\ run[r].now + Delay > 0
      /\ run[r].outcome \in {"none", "ok", "blocked", "retry"}
  BY RunId, PutDeletionAssumption DEF SettleTask, Acting, TypeOK
<1>2. UploadsOK' /\ ClientsOK' /\ evidence' = evidence
  BY DEF SettleTask, upload, TypeOK, UploadsOK, ClientsOK
<1>3. RunsOK'
  BY RunEnds DEF SettleTask
<1>4. TasksOK'
  <2>1. CASE task' = task
    BY <1>2, <2>1 DEF TypeOK, TasksOK
  <2>2. CASE task[i].state = "claimed" /\ task' = [task EXCEPT ![i] = t]
    <3>1. evidence[i] # NoOne
      BY <1>1, <2>2 DEF TypeOK
    <3>2. CASE run[r].outcome = "ok"
      <4>1. t = Released(task[i], "deleted", 0, FALSE)
        BY <3>2 DEF Outcome
      <4>2. ("deleted" = "failed" /\ ~FALSE) <=> (0 > 0)
        OBVIOUS
      <4> QED BY <1>1, <1>2, <2>2, <3>1, <4>1, <4>2, ReleaseTasks
    <3>3. CASE run[r].outcome = "retry"
      <4>1. t = Released(task[i], "failed", run[r].now + Delay, FALSE)
        BY <3>3 DEF Outcome
      <4>2. ("failed" = "failed" /\ ~FALSE) <=> (run[r].now + Delay > 0)
        BY <1>1
      <4> QED BY <1>1, <1>2, <2>2, <3>1, <4>1, <4>2, ReleaseTasks
    <3>4. CASE run[r].outcome \in {"none", "blocked"}
      <4>1. t = Released(task[i], "failed", 0, TRUE)
        BY <3>4 DEF Outcome
      <4>2. ("failed" = "failed" /\ ~TRUE) <=> (0 > 0)
        OBVIOUS
      <4> QED BY <1>1, <1>2, <2>2, <3>1, <4>1, <4>2, ReleaseTasks
    <3> QED BY <1>1, <3>2, <3>3, <3>4
  <2>3. \/ task' = task
        \/ task[i].state = "claimed" /\ task' = [task EXCEPT ![i] = t]
    BY <1>1 DEF SettleTask, TypeOK
  <2> QED BY <2>1, <2>2, <2>3
<1> QED BY <1>2, <1>3, <1>4, TypeParts

LEMMA TypeRun ==
  ASSUME TypeOK, NEW r \in Runs, StartRun(r) \/ RunStep(r) \/ LoseRun(r)
  PROVE TypeOK'
<1>0. clock \in Nat /\ run[r].now \in Nat /\ run[r].fence \in Nat
  BY DEF TypeOK
<1>1. CASE StartRun(r)
  <2>1. RunsOK'
    BY <1>0, <1>1, RunRow DEF StartRun
  <2> QED BY <1>1, <2>1, OnlyRun DEF StartRun
<1>2. CASE LoseRun(r)
  <2>1. RunsOK'
    BY <1>2, RunEnds DEF LoseRun
  <2> QED BY <1>2, <2>1, OnlyRun DEF LoseRun
<1>3. CASE Hygiene(r)
  BY <1>3, TypeHygiene
<1>4. CASE SelectTask(r)
  <2>1. CASE run' = [run EXCEPT ![r] = NoRun]
    BY <1>4, <2>1, RunEnds, OnlyRun DEF SelectTask
  <2>2. ASSUME NEW i \in Intents,
               run' = [run EXCEPT ![r] = Run("claim", run[r].now, i, 0, "none")]
        PROVE TypeOK'
    <3>1. RunsOK'
      BY <1>0, <2>2, RunRow DEF Acting
    <3> QED BY <1>4, <3>1, OnlyRun DEF SelectTask
  <2>3. \/ run' = [run EXCEPT ![r] = NoRun]
        \/ \E i \in Intents :
             run' = [run EXCEPT ![r] = Run("claim", run[r].now, i, 0, "none")]
    BY <1>4 DEF SelectTask, Candidates, TypeOK
  <2> QED BY <2>1, <2>2, <2>3
<1>5. CASE ClaimTask(r)
  BY <1>5, TypeClaimTask
<1>6. CASE LoadFence(r)
  <2>1. run[r].id \in Intents
    BY <1>6, RunId DEF LoadFence, Acting
  <2>2. task[run[r].id].fence \in Nat
    BY <2>1 DEF TypeOK, TaskRows
  <2>3. \/ run' = [run EXCEPT ![r] = NoRun]
        \/ run' = [run EXCEPT ![r] =
             Run("load", run[r].now, run[r].id, task[run[r].id].fence, "none")]
    BY <1>6 DEF LoadFence, TypeOK
  <2>4. RunsOK'
    BY <1>0, <2>1, <2>2, <2>3, RunRow, RunEnds DEF Acting
  <2> QED BY <1>6, <2>4, OnlyRun DEF LoadFence
<1>7. CASE LoadTask(r)
  <2>1. run[r].id \in Intents
    BY <1>7, RunId DEF LoadTask, Acting
  <2>2. task[run[r].id].fence \in Nat
    BY <2>1 DEF TypeOK, TaskRows
  <2>3. \/ run' = [run EXCEPT ![r] =
             Run("provider", run[r].now, run[r].id, task[run[r].id].fence, "none")]
        \/ run' = [run EXCEPT ![r] =
             Run("settle", run[r].now, run[r].id, run[r].fence, "retry")]
    BY <1>7 DEF LoadTask, TypeOK
  <2>4. RunsOK'
    BY <1>0, <2>1, <2>2, <2>3, RunRow DEF Acting
  <2> QED BY <1>7, <2>4, OnlyRun DEF LoadTask
<1>8. CASE DeleteObject(r)
  <2>1. run[r].id \in Intents
    BY <1>8, RunId DEF DeleteObject, Acting
  <2>2. PICK outcome \in {"ok", "blocked", "retry"}, gone \in BOOLEAN :
          /\ object' = [object EXCEPT ![run[r].id] = @ /\ ~gone]
          /\ run' = [run EXCEPT ![r] =
               Run("settle", @.now, run[r].id, @.fence, outcome)]
    BY <1>8 DEF DeleteObject
  <2>3. run' = [run EXCEPT ![r] =
               Run("settle", run[r].now, run[r].id, run[r].fence, outcome)]
    BY <2>2 DEF TypeOK
  <2>4. RunsOK'
    BY <1>0, <2>1, <2>3, RunRow DEF Acting
  <2>5. UploadsOK' /\ TasksOK' /\ ClientsOK'
    BY <1>8, <2>2 DEF DeleteObject, upload, TypeOK, UploadsOK, TasksOK, ClientsOK
  <2> QED BY <2>4, <2>5, TypeParts
<1>9. CASE SettleTask(r)
  BY <1>9, TypeSettleTask
<1> QED BY <1>1, <1>2, <1>3, <1>4, <1>5, <1>6, <1>7, <1>8, <1>9 DEF RunStep

\* A step of a client that changes only the client.
LEMMA OnlyClient ==
  ASSUME TypeOK, UNCHANGED <<clock, upload, object, driver, task, run>>, ClientsOK'
  PROVE TypeOK'
<1>1. UploadsOK' /\ TasksOK' /\ RunsOK'
  BY DEF upload, TypeOK, UploadsOK, TasksOK, RunsOK
<1> QED BY <1>1, TypeParts

LEMMA TypeClaim ==
  ASSUME TypeOK, NEW c \in Clients,
         \/ ClaimRequest(c) \/ ClaimSelect(c) \/ ClaimUpdate(c)
         \/ ClaimReload(c) \/ ClaimLoad(c)
  PROVE TypeOK'
<1>0. /\ clock \in Nat /\ client[c].now \in Nat /\ client[c].fence \in Nat
      /\ client[c].now + Claim \in Nat \ {0}
  BY PutDeletionAssumption DEF TypeOK
<1>1. CASE ClaimRequest(c)
  <2>1. ClientsOK'
    BY <1>0, <1>1, ClientRow DEF ClaimRequest
  <2> QED BY <1>1, <2>1, OnlyClient DEF ClaimRequest
<1>2. CASE ClaimSelect(c)
  <2>1. \/ client' = [client EXCEPT ![c] = NoClient]
        \/ \E i \in Intents, pc \in Holding :
             client' = [client EXCEPT ![c] = Client(pc, client[c].now, i, 0)]
    BY <1>2 DEF ClaimSelect, Owned, ClientCandidates, Holding
  <2>2. ClientsOK'
    BY <1>0, <2>1, ClientRow, ClientEnds
  <2> QED BY <1>2, <2>2, OnlyClient DEF ClaimSelect
<1>3. CASE ClaimUpdate(c)
  <2> DEFINE i == client[c].id
  <2>1. i \in Intents /\ client[c].pc \in Holding
    BY <1>3, ClientId DEF ClaimUpdate, Holding
  <2>2. CASE ClientDue(i, client[c].now)
    <3>1. task' = [task EXCEPT ![i] = Claimed(@, c, client[c].now + Claim, FALSE)]
      BY <1>3, <2>2 DEF ClaimUpdate
    <3>2. evidence[i] # NoOne /\ ~task[i].blocked
      BY <2>1, <2>2 DEF ClientDue, Safe, TypeOK
    <3>3. UploadsOK' /\ RunsOK' /\ evidence' = evidence
      BY <1>3 DEF ClaimUpdate, upload, TypeOK, UploadsOK, RunsOK
    <3>4. TasksOK'
      BY <1>0, <2>1, <3>1, <3>2, <3>3, ClaimTasks
    <3>5. client' = [client EXCEPT ![c].pc = "reload"]
      BY <1>3, <2>2 DEF ClaimUpdate
    <3>6. ClientsOK'
      BY <2>1, <3>5, ClientMoves DEF Holding
    <3> QED BY <3>3, <3>4, <3>6, TypeParts
  <2>3. CASE ~ClientDue(i, client[c].now)
    <3>1. ClientsOK'
      BY <1>3, <2>3, ClientEnds DEF ClaimUpdate
    <3> QED BY <1>3, <2>3, <3>1, OnlyClient DEF ClaimUpdate
  <2> QED BY <2>2, <2>3
<1>4. CASE ClaimReload(c)
  <2>1. client[c].id \in Intents
    BY <1>4, ClientId DEF ClaimReload, Holding
  <2>2. \/ client' = [client EXCEPT ![c] = NoClient]
        \/ client' = [client EXCEPT ![c] =
             Client("loading", client[c].now, client[c].id, 0)]
    BY <1>4 DEF ClaimReload
  <2>3. ClientsOK'
    BY <1>0, <2>1, <2>2, ClientRow, ClientEnds DEF Holding
  <2> QED BY <1>4, <2>3, OnlyClient DEF ClaimReload
<1>5. CASE ClaimLoad(c)
  <2>1. client[c].id \in Intents
    BY <1>5, ClientId DEF ClaimLoad, Holding
  <2>2. task[client[c].id].fence \in Nat
    BY <2>1 DEF TypeOK, TaskRows
  <2>3. client' = [client EXCEPT ![c] =
             Client("claimed", clock, client[c].id, task[client[c].id].fence)]
    BY <1>5 DEF ClaimLoad
  <2>4. ClientsOK'
    BY <1>0, <2>1, <2>2, <2>3, ClientRow DEF Holding
  <2> QED BY <1>5, <2>4, OnlyClient DEF ClaimLoad
<1> QED BY <1>1, <1>2, <1>3, <1>4, <1>5

LEMMA TypeRevalidate ==
  ASSUME TypeOK, NEW c \in Clients, Revalidate(c) PROVE TypeOK'
<1> DEFINE i == client[c].id
<1>1. /\ i \in Intents /\ clock \in Nat /\ client[c].now \in Nat
      /\ client[c].fence \in Nat /\ client[c].fence + 1 \in Nat
  BY ClientId DEF Revalidate, Holding, TypeOK
<1>2. CASE UNCHANGED task /\ client' = [client EXCEPT ![c] = NoClient]
  BY <1>2, ClientEnds, OnlyClient DEF Revalidate
<1>3. ASSUME NEW now \in RequestTimes(c), Holds(c),
             task' = [task EXCEPT ![i] = Claimed(@, c, now + Claim, TRUE)],
             client' = [client EXCEPT ![c] =
                          Client("revalidated", clock, i, @.fence + 1)]
      PROVE TypeOK'
  <2>1. now + Claim \in Nat \ {0}
    BY <1>1, PutDeletionAssumption DEF RequestTimes
  <2>2. evidence[i] # NoOne /\ ~task[i].blocked
    BY <1>1, <1>3 DEF Holds, TypeOK
  <2>3. UploadsOK' /\ RunsOK' /\ evidence' = evidence
    BY DEF Revalidate, upload, TypeOK, UploadsOK, RunsOK
  <2>4. TasksOK'
    BY <1>1, <1>3, <2>1, <2>2, <2>3, ClaimTasks
  <2>5. client' = [client EXCEPT ![c] =
                     Client("revalidated", clock, i, client[c].fence + 1)]
    BY <1>3 DEF TypeOK
  <2>6. ClientsOK'
    BY <1>1, <2>5, ClientRow DEF Holding
  <2> QED BY <2>3, <2>4, <2>6, TypeParts
<1> QED BY <1>2, <1>3 DEF Revalidate

LEMMA TypeClient ==
  ASSUME TypeOK, NEW c \in Clients, ClientStep(c) PROVE TypeOK'
<1> DEFINE i == client[c].id
<1>1. CASE ClientDelete(c)
  <2>1. i \in Intents /\ client[c].pc \in Holding
    BY <1>1, ClientId DEF ClientDelete, Holding
  <2>2. UploadsOK' /\ TasksOK' /\ RunsOK'
    BY <1>1, <2>1
       DEF ClientDelete, upload, TypeOK, UploadsOK, TasksOK, RunsOK
  <2>3. ClientsOK'
    BY <1>1, <2>1, ClientMoves DEF ClientDelete, Holding
  <2> QED BY <2>2, <2>3, TypeParts
<1>2. CASE Complete(c)
  <2>1. i \in Intents
    BY <1>2, ClientId DEF Complete, Holding
  <2>2. UploadsOK' /\ RunsOK' /\ evidence' = evidence
    BY <1>2 DEF Complete, upload, TypeOK, UploadsOK, RunsOK
  <2>3. ClientsOK'
    BY <1>2, ClientEnds DEF Complete
  <2>4. TasksOK'
    <3>1. CASE task' = task
      BY <2>2, <3>1 DEF TypeOK, TasksOK
    <3>2. CASE /\ Holds(c)
               /\ task' = [task EXCEPT ![i] = Released(@, "deleted", 0, FALSE)]
      <4>1. evidence[i] # NoOne
        BY <2>1, <3>2 DEF Holds, TypeOK
      <4>2. ("deleted" = "failed" /\ ~FALSE) <=> (0 > 0)
        OBVIOUS
      <4>3. task' = [task EXCEPT ![i] = Released(task[i], "deleted", 0, FALSE)]
        BY <3>2
      <4> QED BY <2>1, <2>2, <4>1, <4>2, <4>3, ReleaseTasks
    <3> QED BY <1>2, <3>1, <3>2 DEF Complete, MayComplete, TypeOK
  <2> QED BY <2>2, <2>3, <2>4, TypeParts
<1>3. CASE Fail(c)
  <2>1. i \in Intents /\ clock \in Nat /\ client[c].now \in Nat
    BY <1>3, ClientId DEF Fail, Holding, TypeOK
  <2>2. UploadsOK' /\ RunsOK' /\ evidence' = evidence
    BY <1>3 DEF Fail, upload, TypeOK, UploadsOK, RunsOK
  <2>3. ClientsOK'
    BY <1>3, ClientEnds DEF Fail
  <2>4. TasksOK'
    <3>1. CASE task' = task
      BY <2>2, <3>1 DEF TypeOK, TasksOK
    <3>2. ASSUME NEW now \in RequestTimes(c), Holds(c),
                 task' = [task EXCEPT ![i] =
                   [Released(@, "failed", now + Delay, @.blocked)
                      EXCEPT !.revalidated = FALSE]]
          PROVE TasksOK'
      <4>1. evidence[i] # NoOne
        BY <2>1, <3>2 DEF Holds, TypeOK
      <4>2. now + Delay \in Nat /\ now + Delay > 0
        BY <2>1, PutDeletionAssumption DEF RequestTimes
      <4>3. task[i].blocked = FALSE
        <5>1. task[i].state = "claimed" /\ task[i].blocked \in BOOLEAN
          BY <2>1, <3>2 DEF Holds, TypeOK, TaskRows
        <5> QED BY <2>1, <5>1 DEF TypeOK
      <4> QED BY <2>1, <2>2, <3>2, <4>1, <4>2, <4>3, ReleaseTasks
    <3> QED BY <1>3, <3>1, <3>2 DEF Fail, TypeOK
  <2> QED BY <2>2, <2>3, <2>4, TypeParts
<1>4. CASE LoseClient(c)
  BY <1>4, ClientEnds, OnlyClient DEF LoseClient
<1> QED BY <1>1, <1>2, <1>3, <1>4, TypeClaim, TypeRevalidate DEF ClientStep

\* Every row the cron, the handlers and their clients write has the shape of its
\* table and keeps the CHECKs of vfs_put_delete_tasks.
THEOREM TypeCorrect == Spec => []TypeOK
<1>1. TypeOK /\ [Next]_vars => TypeOK'
  <2> SUFFICES ASSUME TypeOK, [Next]_vars PROVE TypeOK'
    OBVIOUS
  <2>1. CASE UNCHANGED vars
    BY <2>1 DEF vars, upload, TypeOK
  <2> QED BY <2>1, TypeUpload, TypeRun, TypeClient DEF Next
<1> QED BY <1>1, TypeInit, PTL DEF Spec

-----------------------------------------------------------------------------
(* What the cleanup may delete *)

\* Abandoned for good, and deleted for good: a step undoes neither.
Doomed(i) == evidence[i] # NoOne /\ intent[i].state = "expired"
Gone(i) == evidence[i] # NoOne /\ ~object[i]

\* Only what is doomed goes, a worker deletes only what is doomed, and what a
\* worker is about to record or has recorded as deleted is gone.
CleanupInv ==
  /\ \A i \in Intents : Gone(i) => Doomed(i)
  /\ \A i \in Intents : intent[i].state = "committed" => evidence[i] # NoOne
  /\ \A i \in Intents : task[i].state = "deleted" => Gone(i)
  /\ \A r \in Runs : run[r].pc = "provider" => Doomed(run[r].id)
  /\ \A r \in Runs : run[r].pc = "settle" /\ run[r].outcome = "ok" => Gone(run[r].id)
  /\ \A c \in Clients : client[c].pc = "revalidated" => Doomed(client[c].id)
  /\ \A c \in Clients : client[c].pc = "deleted" => Gone(client[c].id)

\* What a step does to an intent, to its evidence and to the object.
LEMMA UploadSteps ==
  ASSUME TypeOK, CleanupInv, [Next]_vars, NEW i \in Intents
  PROVE /\ Doomed(i) => Doomed(i)'
        /\ Gone(i) => Gone(i)'
        /\ Gone(i)' => Gone(i) \/ Doomed(i)
        /\ intent'[i].state = "committed" => evidence'[i] # NoOne
<1>1. CASE UNCHANGED <<upload, object>>
  BY <1>1 DEF upload, Doomed, Gone, CleanupInv
<1>2. ASSUME NEW j \in Intents, NEW c \in Clients, Upload(j, c)
      PROVE /\ Doomed(i) => Doomed(i)'
            /\ Gone(i) => Gone(i)'
            /\ Gone(i)' => Gone(i) \/ Doomed(i)
            /\ intent'[i].state = "committed" => evidence'[i] # NoOne
  BY <1>2, PutDeletionAssumption
     DEF Upload, Committable, TypeOK, Doomed, Gone, CleanupInv
<1>3. ASSUME NEW j \in Intents, Commit(j)
      PROVE /\ Doomed(i) => Doomed(i)'
            /\ Gone(i) => Gone(i)'
            /\ Gone(i)' => Gone(i) \/ Doomed(i)
            /\ intent'[i].state = "committed" => evidence'[i] # NoOne
  BY <1>3
     DEF Commit, MayCommit, Committable, IntentRow, TypeOK, Doomed, Gone, CleanupInv
<1>4. ASSUME NEW r \in Runs, Hygiene(r)
      PROVE /\ Doomed(i) => Doomed(i)'
            /\ Gone(i) => Gone(i)'
            /\ Gone(i)' => Gone(i) \/ Doomed(i)
            /\ intent'[i].state = "committed" => evidence'[i] # NoOne
  <2>1. PICK X \in Oldest(Overdue(run[r].now)) :
          intent' = [j \in Intents |->
            IF j \in X THEN IntentRow("expired", intent[j].expires) ELSE intent[j]]
    BY <1>4 DEF Hygiene
  <2>2. UNCHANGED <<evidence, object>>
    BY <1>4 DEF Hygiene
  <2>3. intent'[i].state = "expired" \/ intent'[i] = intent[i]
    BY <2>1 DEF IntentRow
  <2>4. (intent[i].state = "expired" => intent'[i].state = "expired")
    BY <2>3
  <2>5. (intent'[i].state = "committed" => intent[i].state = "committed")
    BY <2>3
  <2> QED BY <2>2, <2>4, <2>5 DEF Doomed, Gone, CleanupInv
<1>5. ASSUME NEW r \in Runs, DeleteObject(r)
      PROVE /\ Doomed(i) => Doomed(i)'
            /\ Gone(i) => Gone(i)'
            /\ Gone(i)' => Gone(i) \/ Doomed(i)
            /\ intent'[i].state = "committed" => evidence'[i] # NoOne
  <2>1. Doomed(run[r].id) /\ UNCHANGED upload
    BY <1>5 DEF DeleteObject, CleanupInv
  <2>2. PICK gone \in BOOLEAN : object' = [object EXCEPT ![run[r].id] = @ /\ ~gone]
    BY <1>5 DEF DeleteObject
  <2>3. i # run[r].id => object'[i] = object[i]
    BY <2>2 DEF TypeOK
  <2>4. object'[i] => object[i]
    BY <2>2 DEF TypeOK
  <2> QED BY <2>1, <2>3, <2>4 DEF upload, Doomed, Gone, CleanupInv
<1>6. ASSUME NEW c \in Clients, ClientDelete(c)
      PROVE /\ Doomed(i) => Doomed(i)'
            /\ Gone(i) => Gone(i)'
            /\ Gone(i)' => Gone(i) \/ Doomed(i)
            /\ intent'[i].state = "committed" => evidence'[i] # NoOne
  <2>1. Doomed(client[c].id) /\ UNCHANGED upload
    BY <1>6 DEF ClientDelete, CleanupInv
  <2>2. i # client[c].id => object'[i] = object[i]
    BY <1>6 DEF ClientDelete, TypeOK
  <2>3. object'[i] => object[i]
    BY <1>6 DEF ClientDelete, TypeOK
  <2> QED BY <2>1, <2>2, <2>3 DEF upload, Doomed, Gone, CleanupInv
<1>7. \/ UNCHANGED <<upload, object>>
      \/ \E j \in Intents : Commit(j) \/ \E c \in Clients : Upload(j, c)
      \/ \E r \in Runs : Hygiene(r) \/ DeleteObject(r)
      \/ \E c \in Clients : ClientDelete(c)
  BY ZenonT(60) DEF Next, vars, Tick, ChangeDriver, StartRun, LoseRun, RunStep, SelectTask,
         ClaimTask, LoadFence, LoadTask, SettleTask, ClientStep, ClaimRequest,
         ClaimSelect, ClaimUpdate, ClaimReload, ClaimLoad, Revalidate, Complete,
         Fail, LoseClient
<1> QED BY <1>1, <1>2, <1>3, <1>4, <1>5, <1>6, <1>7

\* What is safe to claim is doomed.
LEMMA SafeIsDoomed ==
  ASSUME TypeOK, NEW i \in Intents, Safe(i) PROVE Doomed(i)
BY DEF Safe, TypeOK, Doomed

\* What a claim leaves of a task.
LEMMA ClaimWrites ==
  ASSUME TypeOK, NEW i \in Intents, NEW j, NEW owner, NEW lease, NEW checked,
         task' = [task EXCEPT ![j] = Claimed(@, owner, lease, checked)]
  PROVE \/ task'[i] = task[i]
        \/ task'[i].state = "claimed" /\ task'[i].fence = task[i].fence + 1
<1>1. task'[i] = task[i] \/ task'[i] = Claimed(task[i], owner, lease, checked)
  BY DEF TypeOK
<1> QED BY <1>1 DEF Claimed, TaskRow

\* A task becomes deleted only under a worker that saw its object go.
LEMMA TaskSteps ==
  ASSUME TypeOK, CleanupInv, [Next]_vars, NEW i \in Intents,
         task'[i].state = "deleted"
  PROVE Gone(i)
<1>1. CASE task[i].state = "deleted"
  BY <1>1 DEF CleanupInv
<1>2. ASSUME NEW r \in Runs, SettleTask(r), task[i].state # "deleted" PROVE Gone(i)
  <2>1. run[r].id = i /\ task'[i] = Outcome(task[i], run[r].outcome, run[r].now)
    BY <1>2 DEF SettleTask, TypeOK
  <2>2. run[r].outcome = "ok"
    BY <2>1 DEF Outcome, Released, TaskRow
  <2> QED BY <1>2, <2>1, <2>2 DEF SettleTask, CleanupInv
<1>3. ASSUME NEW c \in Clients, Complete(c), task[i].state # "deleted" PROVE Gone(i)
  <2>1. client[c].id = i
    BY <1>3 DEF Complete, TypeOK
  <2> QED BY <1>3, <2>1 DEF Complete, CleanupInv
<1>4. ASSUME NEW j \in Intents, Commit(j), task[i].state # "deleted" PROVE FALSE
  BY <1>4 DEF Commit, Released, TaskRow, TypeOK
<1>5. ASSUME NEW r \in Runs, Hygiene(r), task[i].state # "deleted" PROVE FALSE
  <2>1. PICK S : task' = [j \in Intents |->
          IF j \in S /\ task[j] = NoTask
            THEN TaskRow("pending", driver.revision, intent[j].expires + Grace,
                         NoOne, 0, 0, 0, FALSE, FALSE)
            ELSE task[j]]
    BY <1>5 DEF Hygiene
  <2> QED BY <1>5, <2>1 DEF TaskRow
<1>6. ASSUME NEW r \in Runs, ClaimTask(r), task[i].state # "deleted" PROVE FALSE
  BY <1>6 DEF ClaimTask, Claimed, TaskRow, TypeOK
<1>7. ASSUME NEW c \in Clients, ClaimUpdate(c), task[i].state # "deleted" PROVE FALSE
  <2>1. \/ task' = task
        \/ task' = [task EXCEPT ![client[c].id] =
                      Claimed(@, c, client[c].now + Claim, FALSE)]
    BY <1>7 DEF ClaimUpdate
  <2>2. task'[i] = task[i] \/ task'[i].state = "claimed"
    <3>1. CASE task' = task
      BY <3>1
    <3>2. CASE task' = [task EXCEPT ![client[c].id] =
                          Claimed(@, c, client[c].now + Claim, FALSE)]
      BY <3>2, ClaimWrites
    <3> QED BY <2>1, <3>1, <3>2
  <2> QED BY <1>7, <2>2
<1>8. ASSUME NEW c \in Clients, Revalidate(c), task[i].state # "deleted" PROVE FALSE
  <2>1. PICK now \in RequestTimes(c) :
          \/ task' = [task EXCEPT ![client[c].id] = Claimed(@, c, now + Claim, TRUE)]
          \/ task' = task
    BY <1>8 DEF Revalidate
  <2>2. task'[i] = task[i] \/ task'[i].state = "claimed"
    <3>1. CASE task' = task
      BY <3>1
    <3>2. CASE task' = [task EXCEPT ![client[c].id] = Claimed(@, c, now + Claim, TRUE)]
      BY <3>2, ClaimWrites
    <3> QED BY <2>1, <3>1, <3>2
  <2> QED BY <1>8, <2>2
<1>9. ASSUME NEW c \in Clients, Fail(c), task[i].state # "deleted" PROVE FALSE
  <2>1. PICK now \in RequestTimes(c) :
          task' = [task EXCEPT ![client[c].id] =
            IF Holds(c)
              THEN [Released(@, "failed", now + Delay, @.blocked)
                      EXCEPT !.revalidated = FALSE]
              ELSE @]
    BY <1>9 DEF Fail
  <2>2. \/ task'[i] = task[i]
        \/ task'[i] = [Released(task[i], "failed", now + Delay, task[i].blocked)
                         EXCEPT !.revalidated = FALSE]
    BY <2>1 DEF TypeOK
  <2> QED BY <1>9, <2>2 DEF Released, TaskRow
<1>10. \/ UNCHANGED task
       \/ \E j \in Intents : Commit(j)
       \/ \E r \in Runs : Hygiene(r) \/ ClaimTask(r) \/ SettleTask(r)
       \/ \E c \in Clients : ClaimUpdate(c) \/ Revalidate(c) \/ Complete(c) \/ Fail(c)
  BY DEF Next, vars, Tick, ChangeDriver, Upload, StartRun, LoseRun, RunStep,
         SelectTask, LoadFence, LoadTask, DeleteObject, ClientStep, ClaimRequest,
         ClaimSelect, ClaimReload, ClaimLoad, ClientDelete, LoseClient
<1> QED BY <1>1, <1>2, <1>3, <1>4, <1>5, <1>6, <1>7, <1>8, <1>9, <1>10

\* A run reaches the provider with a safe task, and settles a deletion after it.
LEMMA RunSteps ==
  ASSUME TypeOK, CleanupInv, [Next]_vars, NEW r \in Runs, NEW i \in Intents,
         run'[r].id = i
  PROVE /\ run'[r].pc = "provider" => Doomed(i)'
        /\ run'[r].pc = "settle" /\ run'[r].outcome = "ok" => Gone(i)'
<1>1. CASE run'[r] = run[r]
  <2>1. /\ run[r].pc = "provider" => Doomed(i)
        /\ run[r].pc = "settle" /\ run[r].outcome = "ok" => Gone(i)
    BY <1>1 DEF CleanupInv
  <2> QED BY <1>1, <2>1, UploadSteps
<1>2. CASE run'[r].pc \notin {"provider", "settle"}
  BY <1>2
<1>3. CASE LoadTask(r)
  <2>1. run[r].id = i
    BY <1>3 DEF LoadTask, TypeOK, Run
  <2>2. CASE Safe(i) /\ run'[r] =
               Run("provider", run[r].now, i, task[i].fence, "none")
    BY <2>2, SafeIsDoomed, UploadSteps DEF Run
  <2>3. CASE run'[r] = Run("settle", run[r].now, run[r].id, run[r].fence, "retry")
    BY <2>3 DEF Run
  <2> QED BY <1>3, <2>1, <2>2, <2>3 DEF LoadTask, TypeOK
<1>4. CASE DeleteObject(r)
  <2>1. run[r].id = i
    BY <1>4 DEF DeleteObject, TypeOK, Run
  <2>0. evidence[i] # NoOne /\ evidence' = evidence
    BY <1>4, <2>1 DEF DeleteObject, CleanupInv, Doomed, upload
  <2>2. PICK outcome \in {"ok", "blocked", "retry"}, gone \in BOOLEAN :
          /\ outcome = "ok" => gone
          /\ object' = [object EXCEPT ![run[r].id] = @ /\ ~gone]
          /\ run'[r] = Run("settle", run[r].now, run[r].id, run[r].fence, outcome)
    BY <1>4 DEF DeleteObject, TypeOK
  <2>3. run'[r].pc = "settle" /\ run'[r].outcome = outcome
    BY <2>2 DEF Run
  <2>4. outcome = "ok" => ~object'[i]
    BY <2>1, <2>2 DEF TypeOK
  <2> QED BY <2>0, <2>3, <2>4 DEF Gone
<1>5. \/ run'[r] = run[r] \/ run'[r].pc \notin {"provider", "settle"}
      \/ LoadTask(r) \/ DeleteObject(r)
  <2>1. CASE run' = run
    BY <2>1
  <2>2. ASSUME NEW q \in Runs, StartRun(q) \/ RunStep(q) \/ LoseRun(q)
        PROVE \/ run'[r] = run[r] \/ run'[r].pc \notin {"provider", "settle"}
              \/ LoadTask(r) \/ DeleteObject(r)
    <3>1. CASE q # r
      BY <2>2, <3>1, ZenonT(60) DEF StartRun, LoseRun, RunStep, Hygiene, SelectTask, ClaimTask,
           LoadFence, LoadTask, DeleteObject, SettleTask, TypeOK
    <3>2. CASE q = r /\ ~LoadTask(r) /\ ~DeleteObject(r)
      <4>1. CASE StartRun(r) \/ LoseRun(r) \/ SettleTask(r) \/ Hygiene(r)
        <5>1. \/ run'[r] = NoRun
              \/ run'[r] = Run("hygiene", clock, NoOne, 0, "none")
              \/ run'[r] = Run("select", run[r].now, NoOne, 0, "none")
          BY <4>1 DEF StartRun, LoseRun, SettleTask, Hygiene, TypeOK
        <5> QED BY <5>1 DEF NoRun, Run
      <4>2. CASE SelectTask(r)
        <5>1. \/ run'[r] = NoRun
              \/ \E j \in Intents : run'[r] = Run("claim", run[r].now, j, 0, "none")
          BY <4>2 DEF SelectTask, Candidates, TypeOK
        <5>2. CASE run'[r] = NoRun
          BY <5>2 DEF NoRun, Run
        <5>3. ASSUME NEW j \in Intents,
                     run'[r] = Run("claim", run[r].now, j, 0, "none")
              PROVE run'[r].pc = "claim"
          BY <5>3 DEF Run
        <5> QED BY <5>1, <5>2, <5>3
      <4>3. CASE ClaimTask(r)
        <5>1. \/ run'[r] = NoRun
              \/ run'[r] = Run("fence", run[r].now, run[r].id, 0, "none")
          BY <4>3 DEF ClaimTask, TypeOK
        <5> QED BY <5>1 DEF NoRun, Run
      <4>4. CASE LoadFence(r)
        BY <4>4 DEF LoadFence, NoRun, Run, TypeOK
      <4> QED BY <2>2, <3>2, <4>1, <4>2, <4>3, <4>4 DEF RunStep
    <3> QED BY <3>1, <3>2
  <2> QED BY <2>1, <2>2
     DEF Next, vars, Tick, ChangeDriver, Upload, Commit, ClientStep, ClaimRequest,
         ClaimSelect, ClaimUpdate, ClaimReload, ClaimLoad, Revalidate, ClientDelete,
         Complete, Fail, LoseClient
<1> QED BY <1>1, <1>2, <1>3, <1>4, <1>5

\* The steps that bring a client to a deletion or past it.
LEMMA ClientChanges ==
  ASSUME TypeOK, [Next]_vars, NEW c \in Clients
  PROVE \/ client'[c] = client[c]
        \/ client'[c].pc \notin {"revalidated", "deleted", "failing"}
        \/ Revalidate(c) \/ ClientDelete(c)
<1>1. CASE client' = client
  BY <1>1
<1>2. ASSUME NEW k \in Clients, ClientStep(k)
      PROVE \/ client'[c] = client[c]
            \/ client'[c].pc \notin {"revalidated", "deleted", "failing"}
            \/ Revalidate(c) \/ ClientDelete(c)
  <2>1. CASE k # c
    BY <1>2, <2>1 DEF ClientStep, ClaimRequest, ClaimSelect, ClaimUpdate,
         ClaimReload, ClaimLoad, Revalidate, ClientDelete, Complete, Fail,
         LoseClient, TypeOK
  <2>2. CASE k = c /\ ~Revalidate(c) /\ ~ClientDelete(c)
    <3>1. CASE ClaimRequest(c) \/ Complete(c) \/ Fail(c) \/ LoseClient(c)
      <4>1. \/ client'[c] = NoClient
            \/ client'[c] = Client("asked", clock, NoOne, 0)
        BY <3>1 DEF ClaimRequest, Complete, Fail, LoseClient, TypeOK
      <4> QED BY <4>1 DEF NoClient, Client
    <3>2. CASE ClaimSelect(c)
      <4>1. \/ client'[c] = NoClient
            \/ \E j \in Intents, pc \in {"loading", "claiming"} :
                 client'[c] = Client(pc, client[c].now, j, 0)
        BY <3>2 DEF ClaimSelect, Owned, ClientCandidates, TypeOK
      <4>2. CASE client'[c] = NoClient
        BY <4>2 DEF NoClient, Client
      <4>3. ASSUME NEW j \in Intents, NEW pc \in {"loading", "claiming"},
                   client'[c] = Client(pc, client[c].now, j, 0)
            PROVE client'[c].pc \in {"loading", "claiming"}
        BY <4>3 DEF Client
      <4> QED BY <4>1, <4>2, <4>3
    <3>3. CASE ClaimUpdate(c)
      <4>1. CASE client' = [client EXCEPT ![c] = NoClient]
        BY <4>1 DEF NoClient, Client, TypeOK
      <4>2. CASE client' = [client EXCEPT ![c].pc = "reload"]
        BY <4>2 DEF TypeOK
      <4> QED BY <3>3, <4>1, <4>2 DEF ClaimUpdate
    <3>4. CASE ClaimReload(c) \/ ClaimLoad(c)
      BY <3>4 DEF ClaimReload, ClaimLoad, NoClient, Client, TypeOK
    <3> QED BY <1>2, <2>2, <3>1, <3>2, <3>3, <3>4 DEF ClientStep
  <2> QED BY <2>1, <2>2
<1> QED BY <1>1, <1>2
   DEF Next, vars, Tick, ChangeDriver, Upload, Commit, StartRun, LoseRun, RunStep,
       Hygiene, SelectTask, ClaimTask, LoadFence, LoadTask, DeleteObject,
       SettleTask

\* A client reaches the deletion with a safe task, and reports it after it.
LEMMA ClientSteps ==
  ASSUME TypeOK, CleanupInv, [Next]_vars, NEW c \in Clients, NEW i \in Intents,
         client'[c].id = i
  PROVE /\ client'[c].pc = "revalidated" => Doomed(i)'
        /\ client'[c].pc = "deleted" => Gone(i)'
<1>1. CASE client'[c] = client[c]
  <2>1. /\ client[c].pc = "revalidated" => Doomed(i)
        /\ client[c].pc = "deleted" => Gone(i)
    BY <1>1 DEF CleanupInv
  <2> QED BY <1>1, <2>1, UploadSteps
<1>2. CASE client'[c].pc \notin {"revalidated", "deleted"}
  BY <1>2
<1>3. CASE Revalidate(c)
  <2>2. CASE Safe(client[c].id) /\ client'[c] =
               Client("revalidated", clock, client[c].id, client[c].fence + 1)
    <3>1. client[c].id = i /\ client'[c].pc = "revalidated"
      BY <2>2 DEF Client
    <3> QED BY <2>2, <3>1, SafeIsDoomed, UploadSteps
  <2>3. CASE client'[c] = NoClient
    BY <2>3 DEF NoClient, Client
  <2> QED BY <1>3, <2>2, <2>3 DEF Revalidate, TypeOK
<1>4. CASE ClientDelete(c)
  <2>2. client[c].id = i /\ client'[c].pc # "revalidated"
    BY <1>4 DEF ClientDelete, TypeOK
  <2>1. evidence[i] # NoOne /\ evidence' = evidence
    BY <1>4, <2>2 DEF ClientDelete, CleanupInv, Doomed, upload
  <2>3. client'[c].pc = "deleted" => ~object'[i]
    BY <1>4, <2>2 DEF ClientDelete, TypeOK
  <2> QED BY <2>1, <2>2, <2>3 DEF Gone
<1>5. \/ client'[c] = client[c] \/ client'[c].pc \notin {"revalidated", "deleted"}
      \/ Revalidate(c) \/ ClientDelete(c)
  BY ClientChanges
<1> QED BY <1>1, <1>2, <1>3, <1>4, <1>5

LEMMA CleanupInit == Init => CleanupInv
BY DEF Init, CleanupInv, Doomed, Gone, IntentRow, NoTask, TaskRow, NoRun, Run,
       NoClient, Client

LEMMA CleanupStep ==
  ASSUME TypeOK, TypeOK', CleanupInv, [Next]_vars PROVE CleanupInv'
<1>1. ASSUME NEW i \in Intents
      PROVE /\ Gone(i)' => Doomed(i)'
            /\ intent'[i].state = "committed" => evidence'[i] # NoOne
            /\ task'[i].state = "deleted" => Gone(i)'
  <2>1. Gone(i) => Doomed(i)
    BY DEF CleanupInv
  <2> QED BY <2>1, UploadSteps, TaskSteps
<1>2. ASSUME NEW r \in Runs
      PROVE /\ run'[r].pc = "provider" => Doomed(run[r].id)'
            /\ run'[r].pc = "settle" /\ run'[r].outcome = "ok" => Gone(run[r].id)'
  <2>1. CASE run'[r].id \in Intents
    <3>1. PICK i \in Intents : run'[r].id = i
      BY <2>1
    <3>2. /\ run'[r].pc = "provider" => Doomed(i)'
          /\ run'[r].pc = "settle" /\ run'[r].outcome = "ok" => Gone(i)'
      BY <3>1, RunSteps
    <3> QED BY <3>1, <3>2 DEF Doomed, Gone
  <2>2. CASE run'[r].pc \notin Acting
    BY <2>2 DEF Acting
  <2> QED BY <2>1, <2>2 DEF TypeOK
<1>3. ASSUME NEW c \in Clients
      PROVE /\ client'[c].pc = "revalidated" => Doomed(client[c].id)'
            /\ client'[c].pc = "deleted" => Gone(client[c].id)'
  <2>1. CASE client'[c].id \in Intents
    <3>1. PICK i \in Intents : client'[c].id = i
      BY <2>1
    <3>2. /\ client'[c].pc = "revalidated" => Doomed(i)'
          /\ client'[c].pc = "deleted" => Gone(i)'
      BY <3>1, ClientSteps
    <3> QED BY <3>1, <3>2 DEF Doomed, Gone
  <2>2. CASE client'[c].pc \notin Holding
    BY <2>2 DEF Holding
  <2> QED BY <2>1, <2>2 DEF TypeOK
<1> QED BY <1>1, <1>2, <1>3 DEF CleanupInv, Doomed, Gone

LEMMA CleanupCorrect == Spec => []CleanupInv
<1>1. TypeOK /\ TypeOK' /\ CleanupInv /\ [Next]_vars => CleanupInv'
  BY CleanupStep
<1> QED BY <1>1, CleanupInit, TypeCorrect, PTL DEF Spec

\* The cleanup never deletes a published object, whatever the order in which the
\* put batch, the hygiene batch, cron runs and token clients take their steps and
\* whichever of them stop, lose their lease or act on a stale row.
THEOREM PublishedIsKept == Spec => []PublishedKept
<1>1. CleanupInv => PublishedKept
  BY DEF CleanupInv, PublishedKept, Gone, Doomed
<1> QED BY <1>1, CleanupCorrect, PTL

\* A task that says deleted is about an object that is gone for good.
THEOREM DeletedObjectsAreGone == Spec => []DeletedIsGone
<1>1. CleanupInv => DeletedIsGone
  BY DEF CleanupInv, DeletedIsGone, Gone
<1> QED BY <1>1, CleanupCorrect, PTL

-----------------------------------------------------------------------------
(* Fences *)

\* A client that may delete has a fence that its task has handed out, and the
\* next one that the task hands out is larger.
Deleting == {"revalidated", "deleted", "failing"}
FenceInv ==
  /\ ClientFencesAreExclusive
  /\ \A c \in Clients : client[c].pc \in Deleting =>
       client[c].fence <= task[client[c].id].fence

\* No step takes a fence back.
LEMMA FencesGrow ==
  ASSUME TypeOK, [Next]_vars, NEW i \in Intents
  PROVE task'[i].fence >= task[i].fence
<1>0. task[i].fence \in Nat
  BY DEF TypeOK, TaskRows
<1>1. CASE task'[i] = task[i]
  BY <1>0, <1>1
<1>2. ASSUME NEW state, NEW retry, NEW blocked,
             \/ task'[i] = Released(task[i], state, retry, blocked)
             \/ task'[i] = [Released(task[i], state, retry, blocked)
                              EXCEPT !.revalidated = FALSE]
      PROVE task'[i].fence >= task[i].fence
  <2>1. task'[i].fence = task[i].fence
    BY <1>2 DEF Released, TaskRow
  <2> QED BY <1>0, <2>1
<1>3. ASSUME NEW owner, NEW lease, NEW checked, NEW j,
             task' = [task EXCEPT ![j] = Claimed(@, owner, lease, checked)]
      PROVE task'[i].fence >= task[i].fence
  <2>1. task'[i].fence = task[i].fence \/ task'[i].fence = task[i].fence + 1
    BY <1>3, ClaimWrites
  <2> QED BY <1>0, <2>1
<1>4. ASSUME NEW j \in Intents, Commit(j) PROVE task'[i].fence >= task[i].fence
  <2>1. \/ task'[i] = task[i]
        \/ task'[i] = Released(task[i], "superseded", 0, task[i].blocked)
    BY <1>4 DEF Commit, TypeOK
  <2> QED BY <1>1, <1>2, <2>1
<1>5. ASSUME NEW r \in Runs, Hygiene(r) PROVE task'[i].fence >= task[i].fence
  <2>1. PICK S : task' = [j \in Intents |->
          IF j \in S /\ task[j] = NoTask
            THEN TaskRow("pending", driver.revision, intent[j].expires + Grace,
                         NoOne, 0, 0, 0, FALSE, FALSE)
            ELSE task[j]]
    BY <1>5 DEF Hygiene
  <2>2. CASE i \in S /\ task[i] = NoTask
    BY <2>1, <2>2 DEF NoTask, TaskRow
  <2> QED BY <1>1, <2>1, <2>2
<1>6. ASSUME NEW r \in Runs, ClaimTask(r) PROVE task'[i].fence >= task[i].fence
  <2>1. \/ task' = task
        \/ task' = [task EXCEPT ![run[r].id] =
                      Claimed(@, evidence[run[r].id], run[r].now + Claim, TRUE)]
    BY <1>6 DEF ClaimTask
  <2>2. CASE task' = [task EXCEPT ![run[r].id] =
                        Claimed(@, evidence[run[r].id], run[r].now + Claim, TRUE)]
    BY <1>3, <2>2
  <2> QED BY <1>1, <2>1, <2>2
<1>7. ASSUME NEW r \in Runs, SettleTask(r) PROVE task'[i].fence >= task[i].fence
  <2>1. \/ task'[i] = task[i]
        \/ task'[i] = Outcome(task[i], run[r].outcome, run[r].now)
    BY <1>7 DEF SettleTask, TypeOK
  <2>2. \/ task'[i] = task[i]
        \/ task'[i] = Released(task[i], "deleted", 0, FALSE)
        \/ task'[i] = Released(task[i], "failed", run[r].now + Delay, FALSE)
        \/ task'[i] = Released(task[i], "failed", 0, TRUE)
    BY <2>1 DEF Outcome
  <2> QED BY <1>1, <1>2, <2>2
<1>8. ASSUME NEW c \in Clients, ClaimUpdate(c) PROVE task'[i].fence >= task[i].fence
  <2>1. \/ task' = task
        \/ task' = [task EXCEPT ![client[c].id] =
                      Claimed(@, c, client[c].now + Claim, FALSE)]
    BY <1>8 DEF ClaimUpdate
  <2>2. CASE task' = [task EXCEPT ![client[c].id] =
                        Claimed(@, c, client[c].now + Claim, FALSE)]
    BY <1>3, <2>2
  <2> QED BY <1>1, <2>1, <2>2
<1>9. ASSUME NEW c \in Clients, Revalidate(c) PROVE task'[i].fence >= task[i].fence
  <2>1. PICK now \in RequestTimes(c) :
          \/ task' = [task EXCEPT ![client[c].id] = Claimed(@, c, now + Claim, TRUE)]
          \/ task' = task
    BY <1>9 DEF Revalidate
  <2>2. CASE task' = [task EXCEPT ![client[c].id] = Claimed(@, c, now + Claim, TRUE)]
    BY <1>3, <2>2
  <2> QED BY <1>1, <2>1, <2>2
<1>10. ASSUME NEW c \in Clients, Complete(c) PROVE task'[i].fence >= task[i].fence
  <2>1. \/ task'[i] = task[i]
        \/ task'[i] = Released(task[i], "deleted", 0, FALSE)
    BY <1>10, ZenonT(60) DEF Complete, TypeOK
  <2> QED BY <1>1, <1>2, <2>1
<1>11. ASSUME NEW c \in Clients, Fail(c) PROVE task'[i].fence >= task[i].fence
  <2>1. PICK now \in RequestTimes(c) :
          task' = [task EXCEPT ![client[c].id] =
            IF Holds(c)
              THEN [Released(@, "failed", now + Delay, @.blocked)
                      EXCEPT !.revalidated = FALSE]
              ELSE @]
    BY <1>11 DEF Fail
  <2>2. \/ task'[i] = task[i]
        \/ task'[i] = [Released(task[i], "failed", now + Delay, task[i].blocked)
                         EXCEPT !.revalidated = FALSE]
    BY <2>1 DEF TypeOK
  <2> QED BY <1>1, <1>2, <2>2
<1>12. \/ UNCHANGED task
       \/ \E j \in Intents : Commit(j)
       \/ \E r \in Runs : Hygiene(r) \/ ClaimTask(r) \/ SettleTask(r)
       \/ \E c \in Clients : ClaimUpdate(c) \/ Revalidate(c) \/ Complete(c) \/ Fail(c)
  BY DEF Next, vars, Tick, ChangeDriver, Upload, StartRun, LoseRun, RunStep,
         SelectTask, LoadFence, LoadTask, DeleteObject, ClientStep, ClaimRequest,
         ClaimSelect, ClaimReload, ClaimLoad, ClientDelete, LoseClient
<1> QED BY <1>1, <1>4, <1>5, <1>6, <1>7, <1>8, <1>9, <1>10, <1>11, <1>12

\* A client that may delete after a step could delete before it under the same
\* fence, or has just been handed the next fence of its task.
LEMMA DeletingSteps ==
  ASSUME TypeOK, [Next]_vars, NEW c \in Clients, client'[c].pc \in Deleting
  PROVE \/ /\ client[c].pc \in Deleting
           /\ client'[c].id = client[c].id /\ client'[c].fence = client[c].fence
        \/ /\ client'[c].id = client[c].id /\ client[c].id \in Intents
           /\ client'[c].fence = task[client[c].id].fence + 1
           /\ task'[client[c].id].fence = task[client[c].id].fence + 1
           /\ \A k \in Clients \ {c} : client'[k] = client[k]
<1>1. CASE client'[c] = client[c]
  BY <1>1
<1>2. CASE client'[c].pc \notin Deleting
  BY <1>2
<1>3. CASE ClientDelete(c)
  <2>1. client[c].pc \in Deleting
    BY <1>3 DEF ClientDelete, Deleting
  <2>2. client'[c].id = client[c].id /\ client'[c].fence = client[c].fence
    BY <1>3 DEF ClientDelete, TypeOK
  <2> QED BY <2>1, <2>2
<1>4. CASE Revalidate(c)
  <2> DEFINE i == client[c].id
  <2>1. i \in Intents
    BY <1>4, ClientId DEF Revalidate, Holding
  <2>2. CASE client' = [client EXCEPT ![c] = NoClient]
    BY <2>2 DEF TypeOK, NoClient, Client, Deleting
  <2>3. ASSUME NEW now, Holds(c),
               task' = [task EXCEPT ![i] = Claimed(@, c, now + Claim, TRUE)],
               client' = [client EXCEPT ![c] =
                            Client("revalidated", clock, i, @.fence + 1)]
        PROVE /\ client'[c].id = i
              /\ client'[c].fence = task[i].fence + 1
              /\ task'[i].fence = task[i].fence + 1
              /\ \A k \in Clients \ {c} : client'[k] = client[k]
    <3>1. client'[c] = Client("revalidated", clock, i, client[c].fence + 1)
      BY <2>3 DEF TypeOK
    <3>2. client'[c].id = i /\ client'[c].fence = client[c].fence + 1
      BY <3>1 DEF Client
    <3>3. client[c].fence = task[i].fence
      BY <2>3 DEF Holds
    <3>4. task'[i] = Claimed(task[i], c, now + Claim, TRUE)
      BY <2>1, <2>3 DEF TypeOK
    <3>5. task'[i].fence = task[i].fence + 1
      BY <3>4 DEF Claimed, TaskRow
    <3>6. \A k \in Clients \ {c} : client'[k] = client[k]
      BY <2>3 DEF TypeOK
    <3> QED BY <3>2, <3>3, <3>5, <3>6
  <2> QED BY <1>4, <2>1, <2>2, <2>3 DEF Revalidate
<1>5. \/ client'[c] = client[c] \/ client'[c].pc \notin Deleting
      \/ Revalidate(c) \/ ClientDelete(c)
  BY ClientChanges DEF Deleting
<1> QED BY <1>1, <1>2, <1>3, <1>4, <1>5

LEMMA FenceStep ==
  ASSUME TypeOK, TypeOK', FenceInv, [Next]_vars PROVE FenceInv'
<1>1. ASSUME NEW c \in Clients, client'[c].pc \in Deleting
      PROVE client'[c].fence <= task'[client'[c].id].fence
  <2>1. /\ client[c].fence \in Nat /\ client'[c].id \in Intents
    BY <1>1, ClientId DEF TypeOK, Deleting, Holding
  <2>2. task[client'[c].id].fence \in Nat /\ task'[client'[c].id].fence \in Nat
    BY <2>1 DEF TypeOK, TaskRows
  <2>3. CASE /\ client[c].pc \in Deleting
             /\ client'[c].id = client[c].id /\ client'[c].fence = client[c].fence
    <3>1. client[c].fence <= task[client[c].id].fence
      BY <2>3 DEF FenceInv
    <3>2. PICK i \in Intents : i = client[c].id
      BY <2>1, <2>3
    <3>3. task'[i].fence >= task[i].fence
      BY FencesGrow
    <3> QED BY <2>1, <2>2, <2>3, <3>1, <3>2, <3>3
  <2>4. CASE /\ client'[c].id = client[c].id
             /\ client'[c].fence = task[client[c].id].fence + 1
             /\ task'[client[c].id].fence = task[client[c].id].fence + 1
    BY <2>2, <2>4
  <2> QED BY <1>1, <2>3, <2>4, DeletingSteps
<1>2. ASSUME NEW c \in Clients, NEW k \in Clients, c # k,
             client'[c].pc \in Deleting, client'[k].pc \in Deleting,
             client'[c].id = client'[k].id,
             client[c].pc \in Deleting \/ client[k].pc \in Deleting,
             client[c].pc \notin Deleting \/ client'[c].fence # client[c].fence
               \/ client'[c].id # client[c].id
      PROVE client'[c].fence # client'[k].fence
  <2>1. /\ client'[c].id = client[c].id /\ client[c].id \in Intents
        /\ client'[c].fence = task[client[c].id].fence + 1
        /\ client'[k] = client[k]
    BY <1>2, DeletingSteps
  <2>2. client[k].fence <= task[client[c].id].fence
    BY <1>2, <2>1 DEF FenceInv
  <2>3. client[k].fence \in Nat /\ task[client[c].id].fence \in Nat
    BY <2>1 DEF TypeOK, TaskRows
  <2> QED BY <2>1, <2>2, <2>3
<1>3. ASSUME NEW c \in Clients, NEW k \in Clients, c # k,
             client'[c].pc \in Deleting, client'[k].pc \in Deleting,
             client'[c].id = client'[k].id
      PROVE client'[c].fence # client'[k].fence
  <2>1. client[c].pc \in Deleting \/ client[k].pc \in Deleting
    BY <1>3, DeletingSteps
  <2>2. CASE \/ client[c].pc \notin Deleting \/ client'[c].fence # client[c].fence
             \/ client'[c].id # client[c].id
    BY <1>2, <1>3, <2>1, <2>2
  <2>3. CASE \/ client[k].pc \notin Deleting \/ client'[k].fence # client[k].fence
             \/ client'[k].id # client[k].id
    BY <1>2, <1>3, <2>1, <2>3
  <2>4. CASE /\ client[c].pc \in Deleting /\ client[k].pc \in Deleting
             /\ client'[c].fence = client[c].fence /\ client'[c].id = client[c].id
             /\ client'[k].fence = client[k].fence /\ client'[k].id = client[k].id
    BY <1>3, <2>4 DEF FenceInv, ClientFencesAreExclusive, Deleting
  <2> QED BY <2>2, <2>3, <2>4
<1> QED BY <1>1, <1>3 DEF FenceInv, ClientFencesAreExclusive, Deleting

\* The deletions of two clients can be told apart by their fences, however often
\* a task is claimed, failed, taken over and revalidated.
THEOREM FencesAreExclusive == Spec => []ClientFencesAreExclusive
<1>1. Init => FenceInv
  BY DEF Init, FenceInv, ClientFencesAreExclusive, Deleting, NoClient, Client
<1>2. TypeOK /\ TypeOK' /\ FenceInv /\ [Next]_vars => FenceInv'
  BY FenceStep
<1>3. FenceInv => ClientFencesAreExclusive
  BY DEF FenceInv
<1> QED BY <1>1, <1>2, <1>3, TypeCorrect, PTL DEF Spec

-----------------------------------------------------------------------------
(***************************************************************************)
(* The node store of a client: CatalogClient                               *)
(***************************************************************************)

(* The inductive invariant *)

\* The directories of a checkpoint or of a delta are records of four fields.
Plain(x) ==
  x = [parent |-> x.parent, name |-> x.name, dataRoot |-> x.dataRoot, entries |-> x.entries]
PlainDirs(dirs) == \A d \in DOMAIN dirs : Plain(dirs[d])

\* A checkpoint or a delta of a revision that exists.
OfHistory(c) == c.revision \in 1..Len(history) /\ PlainDirs(c.dirs)

CatalogInv ==
  /\ history \in Seq(Trees) /\ Len(history) > 0
  /\ head \in 0..Len(history)
  /\ head # 0 => head \in DOMAIN bucket
  /\ DOMAIN bucket \subseteq 1..Len(history)
  /\ \A r \in DOMAIN bucket : OfHistory(bucket[r])

\* The nodes of a head are there, or were damaged.
ClosureKept(dirs) == NodesOf(dirs) \subseteq nodes \cup lost

StoreInv ==
  /\ damaged \subseteq lost
  /\ HeadReadable => OfHistory(headFile) /\ ClosureKept(headFile.dirs)
  /\ cursor \in 0..(Shards - 1)
  /\ lock \in Syncs \cup {None}
  /\ faults \in 0..MaxFaults

Kinds == {"unavailable", "unchanged", "error", "full", "delta"}
Locked == {"base", "nodes", "prune", "unlock"}

\* A sync is a record of its thirteen fields.
Shaped(q) ==
  q = [pc |-> q.pc, condition |-> q.condition, response |-> q.response, target |-> q.target,
       todo |-> q.todo, bulk |-> q.bulk, from |-> q.from, names |-> q.names, dir |-> q.dir,
       fence |-> q.fence, pending |-> q.pending, plan |-> q.plan, at |-> q.at]

\* The record q of sync p is in order: what it received is of the history, it
\* holds the lock while it writes, and what it is about to make the head is
\* stored or still to be stored.
InOrder(p, q) ==
  /\ Shaped(q) /\ q.bulk \in BOOLEAN /\ q.at \in 0..Len(history)
  /\ q.response.kind \in {"full", "delta"} => OfHistory(q.response.body)
  /\ q.pc = "response" => q.response.kind \in Kinds
  /\ q.pc \in {"lock", "base"} => q.response.kind \in {"full", "delta"}
  /\ q.pc \in Locked => lock = p
  /\ q.pc \in {"nodes", "prune"} => OfHistory(q.target)
  /\ q.pc = "nodes" => NodesOf(q.target.dirs) \subseteq nodes \cup lost \cup q.todo
  /\ q.pc = "prune" => headFile \in {None, Garbled, q.target}

SyncsInv == DOMAIN sync = Syncs /\ \A p \in Syncs : InOrder(p, sync[p])

ClientInv == CatalogInv /\ StoreInv /\ SyncsInv

-----------------------------------------------------------------------------
(* Operators of the catalog *)

LEMMA CheckpointOfHistory ==
  ASSUME NEW tree, NEW r \in 1..Len(history) PROVE OfHistory(Checkpoint(r, tree))
<1>1. PICK rows : rows = DirectoryRows(tree) OBVIOUS
<1>2. PICK entries : entries = EntryRows(tree) OBVIOUS
<1>3. PICK root : root = DataRoots(tree)[Root] OBVIOUS
<1>4. PICK dirs : dirs = [d \in DOMAIN rows |->
                [parent |-> rows[d].parent, name |-> rows[d].name,
                 dataRoot |-> rows[d].dataRoot,
                 entries |-> IF d \in DOMAIN entries THEN entries[d] ELSE {}]]
  OBVIOUS
<1>5. ASSUME NEW d \in DOMAIN dirs PROVE Plain(dirs[d])
  <2>1. PICK e : e = IF d \in DOMAIN entries THEN entries[d] ELSE {} OBVIOUS
  <2>2. dirs[d] = [parent |-> rows[d].parent, name |-> rows[d].name,
                   dataRoot |-> rows[d].dataRoot, entries |-> e]
    BY <1>4, <2>1
  <2> QED BY <2>2 DEF Plain
<1>6. Checkpoint(r, tree) = [revision |-> r, root |-> Root, dataRoot |-> root, dirs |-> dirs]
  BY <1>1, <1>2, <1>3, <1>4 DEF Checkpoint, Assemble
<1> QED BY <1>5, <1>6 DEF OfHistory, PlainDirs

LEMMA DeltaOfHistory ==
  ASSUME NEW base, NEW target, OfHistory(target) PROVE OfHistory(BuildDelta(base, target))
<1>1. PICK S : S = {x \in DOMAIN target.dirs : Address(target.dirs, x) \notin Addresses(base.dirs)}
  OBVIOUS
<1>2. PICK dirs : dirs = [d \in S |-> target.dirs[d]] OBVIOUS
<1>3. BuildDelta(base, target).revision = target.revision /\ BuildDelta(base, target).dirs = dirs
  BY <1>1, <1>2 DEF BuildDelta
<1>4. ASSUME NEW d \in DOMAIN dirs PROVE Plain(dirs[d])
  <2>1. d \in DOMAIN target.dirs /\ dirs[d] = target.dirs[d] BY <1>1, <1>2
  <2> QED BY <2>1 DEF OfHistory, PlainDirs
<1> QED BY <1>3, <1>4 DEF OfHistory, PlainDirs

\* The nodes of a rebuilt checkpoint are nodes of its base or of the delta.
LEMMA RebuiltNodes ==
  ASSUME NEW base, NEW change, PlainDirs(base.dirs), OfHistory(change),
         AppliesTo(base, base, change)
  PROVE  /\ OfHistory(Rebuilt(base, change))
         /\ NodesOf(Rebuilt(base, change).dirs) \subseteq NodesOf(base.dirs) \cup NodesOf(change.dirs)
<1>1. PICK over : over = Overlay(base, change) OBVIOUS
<1>2. PICK visited : visited = Reached(over, change.root) OBVIOUS
<1>3. visited \subseteq DOMAIN over BY <1>1, <1>2 DEF AppliesTo
<1>4. DOMAIN over = DOMAIN base.dirs \cup DOMAIN change.dirs BY <1>1 DEF Overlay
<1>5. ASSUME NEW d \in DOMAIN over
      PROVE  \/ d \in DOMAIN change.dirs /\ over[d] = change.dirs[d]
             \/ d \in DOMAIN base.dirs /\ over[d] = base.dirs[d]
  BY <1>1, <1>4 DEF Overlay
<1>6. \A d \in DOMAIN over : Plain(over[d]) BY <1>5 DEF PlainDirs, OfHistory
<1> DEFINE Edge(d) == CHOOSE x \in visited \X UNION {over[y].entries : y \in visited} :
                        x[2] \in over[x[1]].entries /\ IsDirectory(x[2]) /\ x[2].id = d
           Placed(d) == IF d = change.root
                        THEN [over[d] EXCEPT !.parent = None, !.name = ""]
                        ELSE [over[d] EXCEPT !.parent = Edge(d)[1], !.name = Edge(d)[2].name]
<1>7. PICK target : target = Rebuilt(base, change) OBVIOUS
<1>8. Rebuilt(base, change) = [revision |-> change.revision, root |-> change.root,
                               dataRoot |-> change.dataRoot, dirs |-> [d \in visited |-> Placed(d)]]
  BY <1>1, <1>2 DEF Rebuilt
<1>9. \A d : \E a, b : Placed(d) = [over[d] EXCEPT !.parent = a, !.name = b]
  <2> SUFFICES ASSUME NEW d PROVE \E a, b : Placed(d) = [over[d] EXCEPT !.parent = a, !.name = b]
    OBVIOUS
  <2> HIDE DEF Edge
  <2>1. CASE d = change.root BY <2>1
  <2>2. CASE d # change.root
    <3>1. Placed(d) = [over[d] EXCEPT !.parent = Edge(d)[1], !.name = Edge(d)[2].name] BY <2>2
    <3> QED BY <3>1
  <2> QED BY <2>1, <2>2
<1> HIDE DEF Placed, Edge
<1>10. target.revision = change.revision /\ \A d \in visited : target.dirs[d] = Placed(d) BY <1>7, <1>8
<1>11. DOMAIN target.dirs = visited BY <1>7, <1>8
<1>12. ASSUME NEW d \in visited
       PROVE  Plain(target.dirs[d]) /\ target.dirs[d].dataRoot = over[d].dataRoot
  <2>1. PICK x : x = over[d] OBVIOUS
  <2>2. x = [parent |-> x.parent, name |-> x.name, dataRoot |-> x.dataRoot, entries |-> x.entries]
    BY <1>3, <1>6, <2>1 DEF Plain
  <2>3. PICK a, b : Placed(d) = [over[d] EXCEPT !.parent = a, !.name = b] BY <1>9, Zenon
  <2>4. target.dirs[d] = [x EXCEPT !.parent = a, !.name = b] BY <1>10, <2>1, <2>3
  <2>5. target.dirs[d] = [parent |-> a, name |-> b, dataRoot |-> x.dataRoot, entries |-> x.entries]
    BY <2>2, <2>4
  <2> QED BY <2>1, <2>5 DEF Plain
<1>13. OfHistory(target) BY <1>10, <1>11, <1>12 DEF OfHistory, PlainDirs
<1>14. ASSUME NEW n \in NodesOf(target.dirs) PROVE n \in NodesOf(base.dirs) \cup NodesOf(change.dirs)
  <2>1. PICK d \in visited : n = [id |-> d, root |-> target.dirs[d].dataRoot]
    BY <1>11 DEF NodesOf, Node
  <2>2. n = [id |-> d, root |-> over[d].dataRoot] BY <1>12, <2>1
  <2>3. d \in DOMAIN over BY <1>3
  <2> QED BY <1>5, <2>2, <2>3 DEF NodesOf, Node
<1> QED BY <1>7, <1>13, <1>14

-----------------------------------------------------------------------------
(* A sync that is not disturbed *)

Grows == Len(history) \in Nat /\ Len(history') \in Nat /\ Len(history) <= Len(history')

Undisturbed(q) ==
  /\ q.pc \in Locked => lock' = lock
  /\ q.pc = "nodes" => nodes \cup lost \subseteq nodes' \cup lost'
  /\ q.pc = "prune" => headFile' \in {headFile, None, Garbled}

LEMMA OfHistoryKept ==
  ASSUME NEW c, OfHistory(c), Grows PROVE OfHistory(c)'
BY DEF OfHistory, Grows, PlainDirs, Plain

LEMMA InOrderKept ==
  ASSUME NEW p, NEW q, InOrder(p, q), Undisturbed(q), Grows PROVE InOrder(p, q)'
<1>1. Shaped(q)' /\ q.bulk \in BOOLEAN BY DEF InOrder, Shaped
<1>2. q.at \in 0..Len(history') BY DEF InOrder, Grows
<1>3. q.response.kind \in {"full", "delta"} => OfHistory(q.response.body)'
  BY OfHistoryKept DEF InOrder
<1>4. q.pc \in {"nodes", "prune"} => OfHistory(q.target)' BY OfHistoryKept DEF InOrder
<1>5. /\ q.pc = "response" => q.response.kind \in Kinds
      /\ q.pc \in {"lock", "base"} => q.response.kind \in {"full", "delta"}
  BY DEF InOrder
<1>6. q.pc \in Locked => lock' = p BY DEF InOrder, Undisturbed
<1>7. q.pc = "nodes" => NodesOf(q.target.dirs) \subseteq nodes' \cup lost' \cup q.todo
  BY DEF InOrder, Undisturbed
<1>8. q.pc = "prune" => headFile' \in {None, Garbled, q.target} BY DEF InOrder, Undisturbed
<1> QED BY <1>1, <1>2, <1>3, <1>4, <1>5, <1>6, <1>7, <1>8 DEF InOrder, NodesOf, Node, Kinds, Garbled

CatalogStays == history' = history /\ head' = head /\ bucket' = bucket

LEMMA CatalogKept == ASSUME CatalogInv, CatalogStays PROVE CatalogInv' /\ Grows
<1>1. Len(history) \in Nat BY DEF CatalogInv
<1>2. Grows BY <1>1 DEF Grows, CatalogStays
<1> QED BY <1>2 DEF CatalogInv, CatalogStays, OfHistory, PlainDirs, Plain

\* A step of sync p.
Steps(p) ==
  /\ CatalogStays /\ StoreInv'
  /\ \E v : sync' = [sync EXCEPT ![p] = v] /\ InOrder(p, v)'
  /\ \A t \in Syncs \ {p} : Undisturbed(sync[t])

LEMMA StepsKeep == ASSUME ClientInv, NEW p \in Syncs, Steps(p) PROVE ClientInv'
<1>1. CatalogInv' /\ Grows BY CatalogKept DEF ClientInv, Steps
<1>2. PICK v : sync' = [sync EXCEPT ![p] = v] /\ InOrder(p, v)' BY DEF Steps
<1>3. DOMAIN sync = Syncs BY DEF ClientInv, SyncsInv
<1>4. DOMAIN sync' = Syncs /\ sync'[p] = v /\ \A t \in Syncs \ {p} : sync'[t] = sync[t]
  BY <1>2, <1>3
<1>5. ASSUME NEW t \in Syncs \ {p} PROVE InOrder(t, sync[t])'
  <2>1. PICK q : q = sync[t] OBVIOUS
  <2>2. InOrder(t, q) /\ Undisturbed(q) BY <2>1 DEF ClientInv, SyncsInv, Steps
  <2>3. InOrder(t, q)' BY <1>1, <2>2, InOrderKept
  <2> QED BY <1>4, <2>1, <2>3
<1>6. SyncsInv' BY <1>2, <1>4, <1>5 DEF SyncsInv
<1> QED BY <1>1, <1>6 DEF ClientInv, Steps

\* A step that keeps the store, and at most drops the head.
StoreStays ==
  /\ nodes \cup lost \subseteq nodes' \cup lost' /\ damaged' \subseteq lost'
  /\ headFile' \in {headFile, None, Garbled} /\ cursor' = cursor
  /\ faults' \in 0..MaxFaults

LEMMA StoreKept ==
  ASSUME StoreInv, StoreStays, Grows, lock' \in Syncs \cup {None} PROVE StoreInv'
<1>1. ASSUME HeadReadable' PROVE OfHistory(headFile)' /\ ClosureKept(headFile.dirs)'
  <2>1. headFile' = headFile /\ HeadReadable BY <1>1 DEF StoreStays, HeadReadable, Garbled
  <2>2. PICK c : c = headFile OBVIOUS
  <2>3. OfHistory(c) /\ NodesOf(c.dirs) \subseteq nodes \cup lost
    BY <2>1, <2>2 DEF StoreInv, ClosureKept
  <2>4. OfHistory(c)' BY <2>3, OfHistoryKept
  <2>5. NodesOf(c.dirs) \subseteq nodes' \cup lost' BY <2>3 DEF StoreStays
  <2> QED BY <2>1, <2>2, <2>4, <2>5 DEF ClosureKept, NodesOf, Node
<1> QED BY <1>1 DEF StoreInv, StoreStays

\* A sync that neither has the lock nor takes it.
Outside(v) ==
  /\ Shaped(v) /\ v.bulk \in BOOLEAN /\ v.at \in 0..Len(history)
  /\ v.response.kind \in {"full", "delta"} => OfHistory(v.response.body)
  /\ v.pc \notin Locked
  /\ v.pc = "response" => v.response.kind \in Kinds
  /\ v.pc = "lock" => v.response.kind \in {"full", "delta"}

LEMMA OutsideInOrder ==
  ASSUME CatalogInv, NEW p, NEW v, Outside(v), CatalogStays PROVE InOrder(p, v)'
<1>1. InOrder(p, v)
  BY DEF Outside, InOrder, Locked
<1>2. Undisturbed(v) BY DEF Outside, Undisturbed, Locked
<1> QED BY <1>1, <1>2, CatalogKept, InOrderKept

LEMMA OutsideSteps ==
  ASSUME ClientInv, NEW p \in Syncs, NEW v, Outside(v), CatalogStays, StoreStays, lock' = lock,
         sync' = [sync EXCEPT ![p] = v]
  PROVE  Steps(p)
<1>1. CatalogInv /\ StoreInv /\ Grows BY CatalogKept DEF ClientInv
<1>2. lock' \in Syncs \cup {None} BY <1>1 DEF StoreInv
<1>3. StoreInv' BY <1>1, <1>2, StoreKept
<1>4. InOrder(p, v)' BY <1>1, OutsideInOrder
<1>5. \A t \in Syncs \ {p} : Undisturbed(sync[t]) BY DEF Undisturbed, StoreStays
<1> QED BY <1>3, <1>4, <1>5 DEF Steps

\* Leaving the lock, or dying with it.
LEMMA LeavingSteps ==
  ASSUME ClientInv, NEW p \in Syncs, NEW v, Outside(v), CatalogStays, StoreStays,
         lock' = IF lock = p THEN None ELSE lock, sync' = [sync EXCEPT ![p] = v]
  PROVE  Steps(p)
<1>1. CatalogInv /\ StoreInv /\ Grows BY CatalogKept DEF ClientInv
<1>2. lock' \in Syncs \cup {None} BY <1>1 DEF StoreInv
<1>3. StoreInv' BY <1>1, <1>2, StoreKept
<1>4. InOrder(p, v)' BY <1>1, OutsideInOrder
<1>5. ASSUME NEW t \in Syncs \ {p} PROVE Undisturbed(sync[t])
  <2>1. sync[t].pc \in Locked => lock = t BY DEF ClientInv, SyncsInv, InOrder
  <2> QED BY <2>1 DEF Undisturbed, StoreStays
<1> QED BY <1>3, <1>4, <1>5 DEF Steps

LEMMA OtherSteps ==
  ASSUME ClientInv, NEW p \in Syncs, lock = p, NEW t \in Syncs \ {p} PROVE sync[t].pc \notin Locked
BY DEF ClientInv, SyncsInv, InOrder

-----------------------------------------------------------------------------
(* The steps of a sync *)

LEMMA Begun ==
  ASSUME ClientInv
  PROVE  /\ CatalogInv /\ StoreInv /\ DOMAIN sync = Syncs /\ \A p \in Syncs : InOrder(p, sync[p])
         /\ damaged \subseteq lost /\ faults \in 0..MaxFaults /\ lock \in Syncs \cup {None}
         /\ Len(history) \in Nat \ {0}
<1>1. history \in Seq(Trees) /\ Len(history) > 0 BY DEF ClientInv, CatalogInv
<1>2. Len(history) \in Nat BY <1>1
<1> QED BY <1>1, <1>2 DEF ClientInv, SyncsInv, StoreInv

LEMMA IdleShape ==
  /\ Shaped(Idle) /\ Idle.bulk = FALSE /\ Idle.at = 0 /\ Idle.response.kind = "none"
  /\ Idle.pc = "idle"
BY DEF Shaped, Idle

LEMMA FromIdle ==
  ASSUME ClientInv, NEW pc, pc \notin Locked \cup {"response", "lock"}, NEW condition,
         NEW bulk \in BOOLEAN,
         NEW v, v = [Idle EXCEPT !.pc = pc, !.condition = condition, !.bulk = bulk]
  PROVE  Outside(v)
<1>1. PICK i : i = Idle OBVIOUS
<1>2. Shaped(i) /\ i.at = 0 /\ i.response.kind = "none" BY <1>1, IdleShape
<1>3. /\ v.pc = pc /\ v.at = i.at /\ v.bulk = bulk /\ v.response = i.response /\ Shaped(v)
  BY <1>1, <1>2 DEF Shaped
<1>4. v.at \in 0..Len(history) BY <1>2, <1>3, Begun
<1> QED BY <1>2, <1>3, <1>4 DEF Outside

LEMMA IdleOutside ==
  ASSUME ClientInv
  PROVE  /\ Outside(Idle) /\ Outside(Failed)
         /\ \A b \in BOOLEAN : Outside([Idle EXCEPT !.pc = "root", !.bulk = b])
         /\ Outside([Idle EXCEPT !.pc = "root"])
<1>1. PICK i : i = Idle OBVIOUS
<1>2. Shaped(i) /\ i.bulk = FALSE /\ i.pc = "idle" BY <1>1, IdleShape
<1>3. i = [i EXCEPT !.pc = "idle", !.condition = i.condition, !.bulk = FALSE]
  BY <1>2 DEF Shaped
<1>4. Failed = [i EXCEPT !.pc = "failed", !.condition = i.condition, !.bulk = FALSE]
  BY <1>1, <1>2 DEF Shaped, Failed
<1>5. ASSUME NEW b \in BOOLEAN
      PROVE  [i EXCEPT !.pc = "root", !.bulk = b]
               = [i EXCEPT !.pc = "root", !.condition = i.condition, !.bulk = b]
  BY <1>2 DEF Shaped
<1>6. [i EXCEPT !.pc = "root"] = [i EXCEPT !.pc = "root", !.condition = i.condition, !.bulk = FALSE]
  BY <1>2 DEF Shaped
<1>7. ASSUME NEW pc \in {"idle", "failed", "root"}, NEW b \in BOOLEAN
      PROVE  Outside([i EXCEPT !.pc = pc, !.condition = i.condition, !.bulk = b])
  BY <1>1, <1>7, FromIdle DEF Locked
<1>8. Outside(Idle) BY <1>1, <1>3, <1>7
<1>9. Outside(Failed) BY <1>4, <1>7
<1>10. \A b \in BOOLEAN : Outside([i EXCEPT !.pc = "root", !.bulk = b]) BY <1>5, <1>7
<1>11. Outside([i EXCEPT !.pc = "root"]) BY <1>6, <1>7
<1> QED BY <1>1, <1>8, <1>9, <1>10, <1>11

\* Files that were damaged are discarded.
LEMMA Discarding ==
  ASSUME ClientInv, NEW D, nodes' = nodes \ (D \cap damaged) \/ nodes' = nodes,
         damaged' \subseteq damaged, lost' = lost, headFile' \in {headFile, None, Garbled},
         cursor' = cursor, faults' = faults
  PROVE  StoreStays
BY Begun DEF StoreStays

LEMMA CheckpointConditionSteps ==
  ASSUME ClientInv, NEW p \in Syncs, CheckpointCondition(p) PROVE Steps(p)
<1>1. PICK root : root = IF HeadReadable THEN {[id |-> headFile.root, root |-> headFile.dataRoot]} ELSE {}
  OBVIOUS
<1>2. PICK c : c = IF HeadReadable /\ \A n \in root : Present(n) THEN headFile ELSE None OBVIOUS
<1>3. PICK v : v = [Idle EXCEPT !.pc = "request", !.condition = c] OBVIOUS
<1>4. /\ nodes' = nodes \ (root \cap damaged) /\ damaged' = damaged \ root
      /\ headFile' = IF HeadReadable THEN headFile ELSE None
  BY <1>1 DEF CheckpointCondition
<1>5. CatalogStays /\ lock' = lock /\ lost' = lost /\ cursor' = cursor /\ faults' = faults
  BY DEF CheckpointCondition, CatalogStays, publisherVars
<1>6. sync' = [sync EXCEPT ![p] = v] BY <1>1, <1>2, <1>3 DEF CheckpointCondition, Become
<1>7. headFile' \in {headFile, None, Garbled} BY <1>4
<1>8. StoreStays BY <1>4, <1>5, <1>7, Discarding
<1>9. Outside(v)
  <2>1. PICK i : i = Idle OBVIOUS
  <2>2. Shaped(i) /\ i.bulk = FALSE BY <2>1, IdleShape
  <2>3. v = [i EXCEPT !.pc = "request", !.condition = c, !.bulk = FALSE]
    BY <1>3, <2>1, <2>2 DEF Shaped
  <2> QED BY <2>1, <2>3, FromIdle DEF Locked
<1> QED BY <1>5, <1>6, <1>8, <1>9, OutsideSteps

\* Steps that leave the store alone.
LEMMA QuietStore ==
  ASSUME ClientInv, UNCHANGED storeVars, faults' \in 0..MaxFaults PROVE StoreStays /\ lock' = lock
BY Begun DEF storeVars, StoreStays

LEMMA FaultBound ==
  ASSUME ClientInv, faults < MaxFaults, faults' = faults + 1 PROVE faults' \in 0..MaxFaults
BY Begun, ClientAssumption

LEMMA AnswersOfHistory ==
  ASSUME ClientInv, NEW c, NEW a \in Answers(c)
  PROVE  a.kind \in Kinds /\ (a.kind \in {"full", "delta"} => OfHistory(a.body))
<1>1. CASE ~Eligible
  <2>1. a = [kind |-> "unavailable"] BY <1>1 DEF Answers
  <2> QED BY <2>1 DEF Kinds
<1>2. CASE Eligible
  <2>1. head \in DOMAIN bucket BY <1>2, Begun DEF Eligible, CatalogInv
  <2>2. OfHistory(bucket[head]) BY <2>1, Begun DEF CatalogInv
  <2>3. OfHistory(BuildDelta(c, bucket[head])) BY <2>2, DeltaOfHistory
  <2>4. \/ a = [kind |-> "unavailable"] \/ a = [kind |-> "unchanged"] \/ a = [kind |-> "error"]
        \/ a = [kind |-> "delta", body |-> BuildDelta(c, bucket[head])]
        \/ a = [kind |-> "full", body |-> bucket[head]]
    BY <1>2 DEF Answers
  <2> QED BY <2>2, <2>3, <2>4 DEF Kinds
<1> QED BY <1>1, <1>2

\* An answer arrives.
LEMMA ResponseOutside ==
  ASSUME ClientInv, NEW p \in Syncs, NEW a, a.kind \in Kinds,
         a.kind \in {"full", "delta"} => OfHistory(a.body),
         NEW v, v = [sync[p] EXCEPT !.pc = "response", !.response = a]
  PROVE  Outside(v)
<1>1. PICK q : q = sync[p] OBVIOUS
<1>2. Shaped(q) /\ q.bulk \in BOOLEAN /\ q.at \in 0..Len(history) BY <1>1, Begun DEF InOrder
<1>3. /\ v.pc = "response" /\ v.response = a /\ v.at = q.at /\ v.bulk = q.bulk /\ Shaped(v)
  BY <1>1, <1>2 DEF Shaped
<1> QED BY <1>2, <1>3 DEF Outside, Locked

LEMMA DeliverSteps ==
  ASSUME ClientInv, NEW p \in Syncs, Deliver(p) PROVE Steps(p)
<1>1. PICK a \in Answers(sync[p].condition) :
        Become(p, [sync[p] EXCEPT !.pc = "response", !.response = a])
  BY DEF Deliver
<1>2. PICK v : v = [sync[p] EXCEPT !.pc = "response", !.response = a] OBVIOUS
<1>3. Outside(v) BY <1>2, AnswersOfHistory, ResponseOutside
<1>4. sync' = [sync EXCEPT ![p] = v] BY <1>1, <1>2 DEF Become
<1>5. CatalogStays /\ UNCHANGED storeVars /\ faults' = faults
  BY DEF Deliver, CatalogStays, publisherVars
<1>6. StoreStays /\ lock' = lock BY <1>5, Begun, QuietStore
<1> QED BY <1>3, <1>4, <1>5, <1>6, OutsideSteps

LEMMA LoseResponseSteps ==
  ASSUME ClientInv, NEW p \in Syncs, LoseResponse(p) PROVE Steps(p)
<1>1. PICK a : a = [kind |-> "unavailable"] OBVIOUS
<1>2. PICK v : v = [sync[p] EXCEPT !.pc = "response", !.response = a] OBVIOUS
<1>3. a.kind \in Kinds /\ ~(a.kind \in {"full", "delta"}) BY <1>1 DEF Kinds
<1>4. Outside(v) BY <1>2, <1>3, ResponseOutside
<1>5. sync' = [sync EXCEPT ![p] = v] BY <1>1, <1>2 DEF LoseResponse, Become
<1>6. CatalogStays /\ UNCHANGED storeVars BY DEF LoseResponse, CatalogStays, publisherVars
<1>7. faults' \in 0..MaxFaults BY FaultBound DEF LoseResponse
<1>8. StoreStays /\ lock' = lock BY <1>6, <1>7, QuietStore
<1> QED BY <1>4, <1>5, <1>6, <1>8, OutsideSteps

LEMMA ReceiveSteps ==
  ASSUME ClientInv, NEW p \in Syncs, Receive(p) PROVE Steps(p)
<1>1. PICK q : q = sync[p] OBVIOUS
<1>2. PICK a : a = q.response OBVIOUS
<1>3. q.pc = "response" BY <1>1 DEF Receive, At
<1>4. a.kind \in Kinds /\ (a.kind \in {"full", "delta"} => OfHistory(a.body))
  BY <1>1, <1>2, <1>3, Begun DEF InOrder
<1>5. CatalogStays /\ UNCHANGED storeVars /\ faults' = faults
  BY DEF Receive, CatalogStays, publisherVars
<1>6. StoreStays /\ lock' = lock BY <1>5, Begun, QuietStore
<1>7. PICK w : w = [Idle EXCEPT !.pc = "root"] OBVIOUS
<1>8. PICK b : b = [w EXCEPT !.bulk = TRUE] OBVIOUS
<1>9. PICK u : u = [Idle EXCEPT !.pc = "lock", !.response = a] OBVIOUS
<1>10. Outside(w) BY <1>7, IdleOutside
<1>11. Outside(b)
  <2>1. b = [Idle EXCEPT !.pc = "root", !.bulk = TRUE] BY <1>7, <1>8 DEF Idle
  <2> QED BY <2>1, IdleOutside
<1>12. ASSUME a.kind \in {"full", "delta"} PROVE Outside(u)
  <2>1. PICK i : i = Idle OBVIOUS
  <2>2. Shaped(i) /\ i.bulk = FALSE /\ i.at = 0 BY <2>1, IdleShape
  <2>3. /\ u.pc = "lock" /\ u.response = a /\ u.at = i.at /\ u.bulk = i.bulk /\ Shaped(u)
    BY <1>9, <2>1, <2>2 DEF Shaped
  <2>4. u.at \in 0..Len(history) BY <2>2, <2>3, Begun
  <2> QED BY <1>4, <1>12, <2>2, <2>3, <2>4 DEF Outside, Locked
<1>13. ASSUME NEW v, Outside(v), Become(p, v) PROVE Steps(p)
  BY <1>5, <1>6, <1>13, OutsideSteps DEF Become
<1> USE DEF Receive
<1>14. CASE a.kind = "unavailable"
  <2>1. Become(p, w) BY <1>1, <1>2, <1>7, <1>14
  <2> QED BY <1>10, <1>13, <2>1
<1>15. CASE a.kind = "unchanged"
  <2>1. Become(p, b) BY <1>1, <1>2, <1>7, <1>8, <1>15
  <2> QED BY <1>11, <1>13, <2>1
<1>16. CASE a.kind = "error"
  <2>1. Become(p, Failed) BY <1>1, <1>2, <1>16
  <2> QED BY <1>13, <2>1, IdleOutside
<1>17. CASE a.kind \in {"full", "delta"}
  <2>1. Become(p, u) \/ Become(p, w) BY <1>1, <1>2, <1>7, <1>9, <1>17
  <2> QED BY <1>10, <1>12, <1>13, <1>17, <2>1
<1> QED BY <1>4, <1>14, <1>15, <1>16, <1>17 DEF Kinds

LEMMA AcquireHeadLockSteps ==
  ASSUME ClientInv, NEW p \in Syncs, AcquireHeadLock(p) PROVE Steps(p)
<1>1. PICK q : q = sync[p] OBVIOUS
<1>2. PICK v : v = [q EXCEPT !.pc = "base"] OBVIOUS
<1>3. q.pc = "lock" /\ lock = None /\ lock' = p BY <1>1 DEF AcquireHeadLock, At
<1>4. InOrder(p, q) BY <1>1, Begun
<1>5. /\ v.pc = "base" /\ v.response = q.response /\ v.at = q.at /\ v.bulk = q.bulk /\ Shaped(v)
  BY <1>2, <1>4 DEF InOrder, Shaped
<1>6. CatalogStays /\ StoreStays
  BY Begun DEF AcquireHeadLock, CatalogStays, publisherVars, StoreStays
<1>7. Grows BY <1>6, Begun, CatalogKept
<1>8. StoreInv' BY <1>3, <1>6, <1>7, Begun, StoreKept
<1>9. InOrder(p, v)'
  <2>1. Shaped(v)' /\ v.bulk \in BOOLEAN /\ v.at \in 0..Len(history')
    BY <1>4, <1>5, <1>6 DEF InOrder, CatalogStays, Shaped
  <2>2. v.response.kind \in {"full", "delta"} BY <1>3, <1>4, <1>5 DEF InOrder
  <2>3. OfHistory(v.response.body) BY <1>4, <1>5, <2>2 DEF InOrder
  <2>4. OfHistory(v.response.body)' BY <1>7, <2>3, OfHistoryKept
  <2> QED BY <1>3, <1>5, <2>1, <2>2, <2>4 DEF InOrder
<1>10. ASSUME NEW t \in Syncs \ {p} PROVE Undisturbed(sync[t])
  <2>1. sync[t].pc \notin Locked BY <1>3, Begun, ClientAssumption DEF InOrder
  <2> QED BY <2>1 DEF Undisturbed, Locked
<1>11. sync' = [sync EXCEPT ![p] = v] BY <1>1, <1>2 DEF AcquireHeadLock, Goto, Become
<1> QED BY <1>6, <1>8, <1>9, <1>10, <1>11 DEF Steps

\* The lock is held and nobody else is disturbed.
LEMMA HoldingSteps ==
  ASSUME ClientInv, NEW p \in Syncs, lock = p, NEW v, sync' = [sync EXCEPT ![p] = v],
         InOrder(p, v)', CatalogStays, StoreInv'
  PROVE  Steps(p)
<1>1. \A t \in Syncs \ {p} : sync[t].pc \notin Locked BY OtherSteps
<1>2. \A t \in Syncs \ {p} : Undisturbed(sync[t]) BY <1>1 DEF Undisturbed, Locked
<1> QED BY <1>2 DEF Steps

\* Unlocked(p, pc): to "discard".
LEMMA UnlockedSteps ==
  ASSUME ClientInv, NEW p \in Syncs, sync[p].pc \in {"base", "nodes"}, Unlocked(p, "discard"),
         CatalogStays, StoreStays
  PROVE  Steps(p)
<1>1. PICK q : q = sync[p] OBVIOUS
<1>2. PICK v : v = [q EXCEPT !.pc = "discard"] OBVIOUS
<1>3. InOrder(p, q) BY <1>1, Begun
<1>4. /\ v.pc = "discard" /\ v.response = q.response /\ v.at = q.at /\ v.bulk = q.bulk /\ Shaped(v)
  BY <1>2, <1>3 DEF InOrder, Shaped
<1>5. Outside(v) BY <1>3, <1>4 DEF Outside, InOrder, Locked
<1>6. lock = p BY <1>1, <1>3 DEF InOrder, Locked
<1>7. lock' = IF lock = p THEN None ELSE lock BY <1>6 DEF Unlocked
<1>8. sync' = [sync EXCEPT ![p] = v] BY <1>1, <1>2 DEF Unlocked, Goto, Become
<1> QED BY <1>5, <1>7, <1>8, LeavingSteps

\* The nodes of a checkpoint are going to be stored.
LEMMA TargetSteps ==
  ASSUME ClientInv, NEW p \in Syncs, sync[p].pc = "base", NEW target, NEW todo,
         OfHistory(target), NodesOf(target.dirs) \subseteq nodes \cup lost \cup todo,
         Become(p, [sync[p] EXCEPT !.pc = "nodes", !.target = target, !.todo = todo,
                                   !.response = Idle.response]),
         lock' = lock, CatalogStays, StoreStays, nodes' = nodes, lost' = lost
  PROVE  Steps(p)
<1>1. PICK q : q = sync[p] OBVIOUS
<1>2. PICK i : i = Idle.response OBVIOUS
<1>3. PICK v : v = [q EXCEPT !.pc = "nodes", !.target = target, !.todo = todo, !.response = i]
  OBVIOUS
<1>4. InOrder(p, q) BY <1>1, Begun
<1>5. /\ v.pc = "nodes" /\ v.response = i /\ v.at = q.at /\ v.bulk = q.bulk /\ v.target = target
      /\ v.todo = todo /\ Shaped(v)
  BY <1>3, <1>4 DEF InOrder, Shaped
<1>6. v.response.kind = "none" BY <1>2, <1>5, IdleShape
<1>7. lock = p BY <1>1, <1>4 DEF InOrder, Locked
<1>8. Grows BY Begun, CatalogKept
<1>9. InOrder(p, v)
  <2>1. v.bulk \in BOOLEAN /\ v.at \in 0..Len(history) BY <1>4, <1>5 DEF InOrder
  <2> QED BY <1>5, <1>6, <1>7, <2>1 DEF InOrder
<1>10. Undisturbed(v) BY <1>5 DEF Undisturbed
<1>11. InOrder(p, v)' BY <1>8, <1>9, <1>10, InOrderKept
<1>12. StoreInv' BY <1>8, Begun, StoreKept
<1>13. sync' = [sync EXCEPT ![p] = v] BY <1>1, <1>2, <1>3 DEF Become
<1> QED BY <1>7, <1>11, <1>12, <1>13, HoldingSteps

LEMMA ChooseNodesSteps ==
  ASSUME ClientInv, NEW p \in Syncs, ChooseNodes(p) PROVE Steps(p)
<1>1. PICK a : a = sync[p].response OBVIOUS
<1>2. sync[p].pc = "base" BY DEF ChooseNodes, At
<1>3. a.kind \in {"full", "delta"} /\ OfHistory(a.body)
  BY <1>1, <1>2, Begun DEF InOrder
<1>4. CatalogStays /\ StoreStays /\ nodes' = nodes /\ lost' = lost
  BY Begun DEF ChooseNodes, CatalogStays, publisherVars, StoreStays
<1>5. CASE a.kind = "full"
  <2>1. /\ Become(p, [sync[p] EXCEPT !.pc = "nodes", !.target = a.body,
                                     !.todo = NodesOf(a.body.dirs), !.response = Idle.response])
        /\ lock' = lock
    BY <1>1, <1>5 DEF ChooseNodes
  <2> QED BY <1>2, <1>3, <1>4, <2>1, TargetSteps
<1>6. CASE a.kind # "full" /\ Reconstructible /\ AppliesTo(headFile, headFile, a.body)
  <2>1. PICK target : target = Rebuilt(headFile, a.body) OBVIOUS
  <2>2. /\ Become(p, [sync[p] EXCEPT !.pc = "nodes", !.target = target,
                                     !.todo = NodesOf(a.body.dirs), !.response = Idle.response])
        /\ lock' = lock
    BY <1>1, <1>6, <2>1 DEF ChooseNodes
  <2>3. PlainDirs(headFile.dirs) BY <1>6, Begun DEF Reconstructible, StoreInv, OfHistory
  <2>4. /\ OfHistory(target)
        /\ NodesOf(target.dirs) \subseteq NodesOf(headFile.dirs) \cup NodesOf(a.body.dirs)
    BY <1>3, <1>6, <2>1, <2>3, RebuiltNodes
  <2>5. NodesOf(headFile.dirs) \subseteq nodes BY <1>6 DEF Reconstructible, NodesOf, Present
  <2> QED BY <1>2, <1>4, <2>2, <2>4, <2>5, TargetSteps
<1>7. CASE a.kind # "full" /\ ~(Reconstructible /\ AppliesTo(headFile, headFile, a.body))
  <2>1. Unlocked(p, "discard") BY <1>1, <1>7 DEF ChooseNodes
  <2> QED BY <1>2, <1>4, <2>1, UnlockedSteps
<1> QED BY <1>5, <1>6, <1>7

LEMMA PublishNodeSteps ==
  ASSUME ClientInv, NEW p \in Syncs, PublishNode(p) PROVE Steps(p)
<1>1. PICK q : q = sync[p] OBVIOUS
<1>2. q.pc = "nodes" BY <1>1 DEF PublishNode, At
<1>3. PICK n \in q.todo : /\ nodes' = nodes \cup {n} /\ damaged' = damaged \ {n}
                          /\ Become(p, [q EXCEPT !.todo = q.todo \ {n}])
  BY <1>1 DEF PublishNode
<1>4. PICK v : v = [q EXCEPT !.todo = q.todo \ {n}] OBVIOUS
<1>5. InOrder(p, q) BY <1>1, Begun
<1>6. /\ v.pc = "nodes" /\ v.response = q.response /\ v.at = q.at /\ v.bulk = q.bulk
      /\ v.target = q.target /\ v.todo = q.todo \ {n} /\ Shaped(v)
  BY <1>2, <1>4, <1>5 DEF InOrder, Shaped
<1>7. /\ CatalogStays /\ lock' = lock /\ lost' = lost /\ headFile' = headFile /\ cursor' = cursor
      /\ faults' = faults
  BY DEF PublishNode, CatalogStays, publisherVars
<1>8. StoreStays BY <1>3, <1>7, Begun DEF StoreStays
<1>9. Grows BY <1>7, Begun, CatalogKept
<1>10. StoreInv' BY <1>7, <1>8, <1>9, Begun, StoreKept
<1>11. lock = p BY <1>2, <1>5 DEF InOrder, Locked
<1>12. InOrder(p, v)'
  <2>1. InOrder(p, q)'
    <3>1. Undisturbed(q) BY <1>3, <1>7 DEF Undisturbed
    <3> QED BY <1>5, <1>9, <3>1, InOrderKept
  <2>2. NodesOf(q.target.dirs) \subseteq nodes' \cup lost' \cup q.todo
    BY <1>2, <2>1 DEF InOrder, NodesOf, Node
  <2>3. NodesOf(v.target.dirs) \subseteq nodes' \cup lost' \cup v.todo BY <1>3, <1>6, <2>2
  <2>4. /\ v.bulk \in BOOLEAN /\ v.at \in 0..Len(history')
        /\ v.response.kind \in {"full", "delta"} => OfHistory(v.response.body)'
        /\ lock' = p /\ OfHistory(v.target)'
    <3>1. q.response.kind \in {"full", "delta"} => OfHistory(q.response.body) BY <1>5 DEF InOrder
    <3>2. OfHistory(q.target) BY <1>2, <1>5 DEF InOrder
    <3>3. q.response.kind \in {"full", "delta"} => OfHistory(q.response.body)'
      BY <1>9, <3>1, OfHistoryKept
    <3>4. OfHistory(q.target)' BY <1>9, <3>2, OfHistoryKept
    <3>5. q.bulk \in BOOLEAN /\ q.at \in 0..Len(history') BY <1>5, <1>7 DEF InOrder, CatalogStays
    <3> QED BY <1>6, <1>7, <1>11, <3>3, <3>4, <3>5
  <2>5. Shaped(v)' BY <1>6 DEF Shaped
  <2> QED BY <1>6, <2>3, <2>4, <2>5 DEF InOrder, NodesOf, Node
<1>13. sync' = [sync EXCEPT ![p] = v] BY <1>1, <1>3, <1>4 DEF Become
<1> QED BY <1>7, <1>10, <1>11, <1>12, <1>13, HoldingSteps

\* A sync that has the lock moves on.
LEMMA MovedInOrder ==
  ASSUME ClientInv, NEW p \in Syncs, NEW q, q = sync[p], q.pc \in {"nodes", "prune"}, Grows,
         NEW pc \in {"prune", "unlock"}, NEW v, v = [q EXCEPT !.pc = pc], lock' = p,
         pc = "prune" => headFile' = q.target
  PROVE  InOrder(p, v)'
<1>1. InOrder(p, q) BY Begun
<1>2. /\ v.pc = pc /\ v.response = q.response /\ v.at = q.at /\ v.bulk = q.bulk
      /\ v.target = q.target /\ Shaped(v)
  BY <1>1 DEF InOrder, Shaped
<1>3. q.response.kind \in {"full", "delta"} => OfHistory(q.response.body) BY <1>1 DEF InOrder
<1>4. OfHistory(q.target) BY <1>1 DEF InOrder
<1>5. q.response.kind \in {"full", "delta"} => OfHistory(q.response.body)' BY <1>3, OfHistoryKept
<1>6. OfHistory(q.target)' BY <1>4, OfHistoryKept
<1>7. q.bulk \in BOOLEAN /\ q.at \in 0..Len(history') BY <1>1 DEF InOrder, Grows
<1>8. Shaped(v)' BY <1>2 DEF Shaped
<1> QED BY <1>2, <1>5, <1>6, <1>7, <1>8 DEF InOrder

LEMMA PublishHeadFileSteps ==
  ASSUME ClientInv, NEW p \in Syncs, PublishHeadFile(p) PROVE Steps(p)
<1>1. PICK q : q = sync[p] OBVIOUS
<1>2. PICK target : target = q.target OBVIOUS
<1>3. q.pc = "nodes" /\ q.todo = {} BY <1>1 DEF PublishHeadFile, At
<1>4. InOrder(p, q) BY <1>1, Begun
<1>5. lock = p BY <1>3, <1>4 DEF InOrder, Locked
<1>6. /\ CatalogStays /\ nodes' = nodes /\ damaged' = damaged /\ lost' = lost /\ cursor' = cursor
      /\ faults' = faults
  BY DEF PublishHeadFile, CatalogStays, publisherVars
<1>7. Grows BY <1>6, Begun, CatalogKept
<1>8. CASE HeadReadable /\ headFile.revision > target.revision
  <2>1. headFile' = headFile /\ lock' = lock /\ Goto(p, "unlock")
    BY <1>1, <1>2, <1>8 DEF PublishHeadFile
  <2>2. PICK v : v = [q EXCEPT !.pc = "unlock"] OBVIOUS
  <2>3. InOrder(p, v)' BY <1>1, <1>3, <1>5, <1>7, <2>1, <2>2, MovedInOrder
  <2>4. StoreStays BY <1>6, <2>1, Begun DEF StoreStays
  <2>5. StoreInv' BY <1>7, <2>1, <2>4, Begun, StoreKept
  <2>6. sync' = [sync EXCEPT ![p] = v] BY <1>1, <2>1, <2>2 DEF Goto, Become
  <2> QED BY <1>5, <1>6, <2>3, <2>5, <2>6, HoldingSteps
<1>9. CASE /\ ~(HeadReadable /\ headFile.revision > target.revision)
           /\ HeadReadable /\ headFile.revision = target.revision /\ headFile # target
  <2>1. headFile' = headFile /\ Unlocked(p, "discard") BY <1>1, <1>2, <1>9 DEF PublishHeadFile
  <2>2. StoreStays BY <1>6, <2>1, Begun DEF StoreStays
  <2> QED BY <1>1, <1>3, <1>6, <2>1, <2>2, UnlockedSteps
<1>10. CASE /\ ~(HeadReadable /\ headFile.revision > target.revision)
            /\ ~(HeadReadable /\ headFile.revision = target.revision /\ headFile # target)
  <2>1. headFile' = target /\ lock' = lock /\ Goto(p, "prune")
    BY <1>1, <1>2, <1>10 DEF PublishHeadFile
  <2>2. PICK v : v = [q EXCEPT !.pc = "prune"] OBVIOUS
  <2>3. InOrder(p, v)' BY <1>1, <1>2, <1>3, <1>5, <1>7, <2>1, <2>2, MovedInOrder
  <2>4. OfHistory(target) /\ NodesOf(target.dirs) \subseteq nodes \cup lost
    BY <1>2, <1>3, <1>4 DEF InOrder
  <2>5. OfHistory(target)' BY <1>7, <2>4, OfHistoryKept
  <2>6. OfHistory(headFile)' /\ ClosureKept(headFile.dirs)'
    BY <1>6, <2>1, <2>4, <2>5 DEF ClosureKept, NodesOf, Node
  <2>7. StoreInv' BY <1>6, <2>1, <2>6, Begun DEF StoreInv
  <2>8. sync' = [sync EXCEPT ![p] = v] BY <1>1, <2>1, <2>2 DEF Goto, Become
  <2> QED BY <1>5, <1>6, <2>3, <2>7, <2>8, HoldingSteps
<1> QED BY <1>8, <1>9, <1>10

LEMMA NextShard == ASSUME NEW c \in 0..(Shards - 1) PROVE (c + 1) % Shards \in 0..(Shards - 1)
BY ClientAssumption

LEMMA PruneOneShardSteps ==
  ASSUME ClientInv, NEW p \in Syncs, PruneOneShard(p) PROVE Steps(p)
<1>1. PICK q : q = sync[p] OBVIOUS
<1>2. q.pc = "prune" BY <1>1 DEF PruneOneShard, At
<1>3. InOrder(p, q) BY <1>1, Begun
<1>4. lock = p /\ headFile \in {None, Garbled, q.target} BY <1>2, <1>3 DEF InOrder, Locked
<1>5. PICK stale : /\ stale \cap NodesOf(q.target.dirs) = {}
                   /\ nodes' = nodes \ stale /\ damaged' = damaged \ stale
  <2>1. PICK stale : stale = {n \in nodes : Shard(n) = cursor} \ NodesOf(q.target.dirs) OBVIOUS
  <2>2. nodes' = nodes \ stale /\ damaged' = damaged \ stale BY <1>1, <2>1 DEF PruneOneShard
  <2> QED BY <2>1, <2>2
<1>6. /\ CatalogStays /\ headFile' = headFile /\ lost' = lost /\ lock' = lock /\ faults' = faults
      /\ cursor' = (cursor + 1) % Shards
  BY DEF PruneOneShard, CatalogStays, publisherVars
<1>7. Grows BY <1>6, Begun, CatalogKept
<1>8. cursor' \in 0..(Shards - 1) BY <1>6, Begun, NextShard DEF StoreInv
<1>9. ASSUME HeadReadable' PROVE OfHistory(headFile)' /\ ClosureKept(headFile.dirs)'
  <2>1. HeadReadable /\ headFile = q.target BY <1>4, <1>6, <1>9 DEF HeadReadable, Garbled
  <2>2. PICK c : c = headFile OBVIOUS
  <2>3. OfHistory(c) /\ NodesOf(c.dirs) \subseteq nodes \cup lost
    BY <2>1, <2>2, Begun DEF StoreInv, ClosureKept
  <2>4. OfHistory(c)' BY <1>7, <2>3, OfHistoryKept
  <2>5. NodesOf(c.dirs) \subseteq nodes' \cup lost' BY <1>5, <1>6, <2>1, <2>2, <2>3
  <2> QED BY <1>6, <2>2, <2>4, <2>5 DEF ClosureKept, NodesOf, Node
<1>10. StoreInv' BY <1>5, <1>6, <1>8, <1>9, Begun DEF StoreInv
<1>11. PICK v : v = [q EXCEPT !.pc = "unlock"] OBVIOUS
<1>12. InOrder(p, v)' BY <1>1, <1>2, <1>4, <1>6, <1>7, <1>11, MovedInOrder
<1>13. sync' = [sync EXCEPT ![p] = v] BY <1>1, <1>11 DEF PruneOneShard, Goto, Become
<1> QED BY <1>4, <1>6, <1>10, <1>12, <1>13, HoldingSteps

LEMMA ReleaseHeadLockSteps ==
  ASSUME ClientInv, NEW p \in Syncs, ReleaseHeadLock(p) PROVE Steps(p)
<1>1. PICK v : v = [Idle EXCEPT !.pc = "root", !.bulk = TRUE] OBVIOUS
<1>2. Outside(v) BY <1>1, IdleOutside
<1>3. sync[p].pc = "unlock" BY DEF ReleaseHeadLock, At
<1>4. lock = p BY <1>3, Begun DEF InOrder, Locked
<1>5. lock' = IF lock = p THEN None ELSE lock BY <1>4 DEF ReleaseHeadLock
<1>6. CatalogStays /\ StoreStays
  BY Begun DEF ReleaseHeadLock, CatalogStays, publisherVars, StoreStays
<1>7. sync' = [sync EXCEPT ![p] = v] BY <1>1 DEF ReleaseHeadLock, Become
<1> QED BY <1>2, <1>5, <1>6, <1>7, LeavingSteps

LEMMA DiscardHeadSteps ==
  ASSUME ClientInv, NEW p \in Syncs, DiscardHead(p) PROVE Steps(p)
<1>1. PICK v : v = [Idle EXCEPT !.pc = "root"] OBVIOUS
<1>2. Outside(v) BY <1>1, IdleOutside
<1>3. CatalogStays /\ StoreStays /\ lock' = lock
  BY Begun DEF DiscardHead, CatalogStays, publisherVars, StoreStays
<1>4. sync' = [sync EXCEPT ![p] = v] BY <1>1 DEF DiscardHead, Become
<1> QED BY <1>2, <1>3, <1>4, OutsideSteps

LEMMA FinishSteps ==
  ASSUME ClientInv, NEW p \in Syncs, Finish(p) PROVE Steps(p)
<1>1. CatalogStays /\ UNCHANGED storeVars /\ faults' = faults
  BY DEF Finish, CatalogStays, publisherVars
<1>2. StoreStays /\ lock' = lock BY <1>1, Begun, QuietStore
<1>3. sync' = [sync EXCEPT ![p] = Idle] BY DEF Finish, Become
<1> QED BY <1>1, <1>2, <1>3, IdleOutside, OutsideSteps

LEMMA DieSteps ==
  ASSUME ClientInv, NEW p \in Syncs, Die(p) PROVE Steps(p)
<1>1. faults' \in 0..MaxFaults BY FaultBound DEF Die
<1>2. CatalogStays /\ StoreStays
  BY <1>1, Begun DEF Die, CatalogStays, publisherVars, StoreStays
<1>3. sync' = [sync EXCEPT ![p] = Idle] BY DEF Die, Become
<1>4. lock' = IF lock = p THEN None ELSE lock BY DEF Die
<1> QED BY <1>2, <1>3, <1>4, IdleOutside, LeavingSteps

-----------------------------------------------------------------------------
(* The traversal: nodes are kept, or discarded once damaged *)

\* What a traversal may change of its record.
Traverses(q, v) ==
  /\ Shaped(v) /\ v.bulk = q.bulk /\ v.response = q.response
  /\ v.at = q.at \/ v.at = Len(history)
  /\ v.pc \in {"walk", "tree", "planned"}

LEMMA TraversesOutside ==
  ASSUME ClientInv, NEW p \in Syncs, NEW q, q = sync[p], NEW v, Traverses(q, v) PROVE Outside(v)
<1>1. InOrder(p, q) /\ Len(history) \in Nat BY Begun
<1>2. v.at \in 0..Len(history) BY <1>1 DEF Traverses, InOrder
<1> QED BY <1>1, <1>2 DEF Traverses, InOrder, Outside, Locked

\* What the traversal leaves alone.
Traversal == UNCHANGED <<publisherVars, headFile, lost, cursor, lock, faults>>

LEMMA TraversalSteps ==
  ASSUME ClientInv, NEW p \in Syncs, Traversal, NEW v, Outside(v), Become(p, v),
         nodes \cup lost \subseteq nodes' \cup lost, damaged' \subseteq damaged
  PROVE  Steps(p)
<1>1. CatalogStays /\ lock' = lock BY DEF Traversal, CatalogStays, publisherVars
<1>2. StoreStays BY Begun DEF Traversal, StoreStays
<1> QED BY <1>1, <1>2, OutsideSteps DEF Become

LEMMA KeepSteps ==
  ASSUME ClientInv, NEW p \in Syncs, Traversal, NEW n, Keep(n), NEW v, Outside(v), Become(p, v)
  PROVE  Steps(p)
BY TraversalSteps DEF Keep

LEMMA LoadCatalogNodeSteps ==
  ASSUME ClientInv, NEW p \in Syncs, Traversal, NEW n, NEW v, Outside(v), LoadCatalogNode(p, n, v)
  PROVE  Steps(p)
<1>1. CASE CachedFor(p, n)
  <2>1. nodes' = nodes /\ damaged' = damaged /\ Become(p, v) BY <1>1 DEF LoadCatalogNode
  <2> QED BY <2>1, TraversalSteps
<1>2. CASE ~CachedFor(p, n) /\ PageMatches(n)
  <2>1. Keep(n) /\ Become(p, v) BY <1>2 DEF LoadCatalogNode
  <2> QED BY <2>1, KeepSteps
<1>3. CASE ~CachedFor(p, n) /\ ~PageMatches(n)
  <2>1. /\ nodes' = IF sync[p].bulk THEN nodes \ ({n} \cap damaged) ELSE nodes
        /\ damaged' = IF sync[p].bulk THEN damaged \ {n} ELSE damaged
        /\ Become(p, Failed)
    BY <1>3 DEF LoadCatalogNode
  <2>2. nodes \cup lost \subseteq nodes' \cup lost BY <2>1, Begun
  <2>3. damaged' \subseteq damaged BY <2>1
  <2> QED BY <2>1, <2>2, <2>3, IdleOutside, TraversalSteps
<1> QED BY <1>1, <1>2, <1>3

LEMMA FencedTraverses ==
  ASSUME NEW q, Shaped(q), NEW f, NEW n, NEW r, r = [q EXCEPT !.from = f]
  PROVE  Traverses(q, Fenced(r, n)) /\ Traverses(q, Fenced(q, n))
<1>1. Shaped(r) /\ r.bulk = q.bulk /\ r.response = q.response /\ r.at = q.at BY DEF Shaped
<1>2. ASSUME NEW s, Shaped(s), s.bulk = q.bulk, s.response = q.response, s.at = q.at
      PROVE  Traverses(q, Fenced(s, n))
  <2>1. PICK a : a = [id |-> n.id, root |-> n.root, revision |-> RevisionOf(n.id)] OBVIOUS
  <2>2. PICK b : b = Pending(<< >>, n) OBVIOUS
  <2>3. PICK c : c = Planned(<< >>, n) OBVIOUS
  <2>4. PICK d : d = Idle.dir OBVIOUS
  <2>5. PICK v : v = [s EXCEPT !.pc = "tree", !.fence = a, !.pending = b, !.plan = c,
                               !.names = << >>, !.dir = d]
    OBVIOUS
  <2>6. Fenced(s, n) = v BY <2>1, <2>2, <2>3, <2>4, <2>5 DEF Fenced
  <2>7. Shaped(v) /\ v.bulk = s.bulk /\ v.response = s.response /\ v.at = s.at /\ v.pc = "tree"
    BY <1>2, <2>5 DEF Shaped
  <2> QED BY <1>2, <2>6, <2>7 DEF Traverses
<1> QED BY <1>1, <1>2

LEMMA ReadRootSteps ==
  ASSUME ClientInv, NEW p \in Syncs, ReadRoot(p) PROVE Steps(p)
<1>1. PICK q : q = sync[p] OBVIOUS
<1>2. PICK n : n = [id |-> Root, root |-> DataRoots(Now)[Root]] OBVIOUS
<1>3. Traversal BY DEF ReadRoot, Traversal
<1>4. Shaped(q) BY <1>1, Begun DEF InOrder
<1>5. Keep(n) BY <1>2 DEF ReadRoot
<1>6. CASE Source = << >>
  <2>1. PICK r : r = [q EXCEPT !.from = MutationHead] OBVIOUS
  <2>2. PICK v : v = Fenced(r, n) OBVIOUS
  <2>3. Become(p, v) BY <1>1, <1>2, <1>6, <2>1, <2>2 DEF ReadRoot
  <2>4. Traverses(q, v) BY <1>4, <2>1, <2>2, FencedTraverses
  <2> QED BY <1>1, <1>3, <1>5, <2>3, <2>4, TraversesOutside, KeepSteps
<1>7. CASE Source # << >>
  <2>1. PICK v : v = [q EXCEPT !.pc = "walk", !.from = MutationHead, !.names = Source, !.dir = n]
    OBVIOUS
  <2>2. Become(p, v) BY <1>1, <1>2, <1>7, <2>1 DEF ReadRoot
  <2>3. Traverses(q, v) BY <1>4, <2>1 DEF Shaped, Traverses
  <2> QED BY <1>1, <1>3, <1>5, <2>2, <2>3, TraversesOutside, KeepSteps
<1> QED BY <1>6, <1>7

LEMMA WalkSourceSteps ==
  ASSUME ClientInv, NEW p \in Syncs, WalkSource(p) PROVE Steps(p)
<1>1. PICK q : q = sync[p] OBVIOUS
<1>2. Traversal BY DEF WalkSource, Traversal
<1>3. Shaped(q) /\ q.pc = "walk" BY <1>1, Begun DEF InOrder, WalkSource, At
<1>4. ASSUME Become(p, Failed), nodes' = nodes, damaged' = damaged PROVE Steps(p)
  BY <1>2, <1>4, IdleOutside, TraversalSteps
<1>5. PICK named : named = {e \in q.dir.root : e.name = Head(q.names) /\ IsDirectory(e)} OBVIOUS
<1>6. PICK e : e = CHOOSE x \in named : TRUE OBVIOUS
<1>7. PICK n : n = [id |-> e.id, root |-> e.root] OBVIOUS
<1>8. CASE named = {}
  BY <1>1, <1>4, <1>5, <1>8 DEF WalkSource
<1>9. CASE named # {} /\ Len(q.names) > 1
  <2>1. PICK v : v = [q EXCEPT !.dir = n, !.names = Tail(q.names)] OBVIOUS
  <2>2. LoadCatalogNode(p, n, v) BY <1>1, <1>5, <1>6, <1>7, <1>9, <2>1 DEF WalkSource
  <2>3. Traverses(q, v) BY <1>3, <2>1 DEF Shaped, Traverses
  <2> QED BY <1>1, <1>2, <2>2, <2>3, TraversesOutside, LoadCatalogNodeSteps
<1>10. CASE named # {} /\ ~(Len(q.names) > 1)
  <2>1. \/ Keep(n) /\ Become(p, Fenced(q, n))
        \/ Become(p, Failed) /\ nodes' = nodes /\ damaged' = damaged
    BY <1>1, <1>5, <1>6, <1>7, <1>10 DEF WalkSource
  <2>2. CASE Keep(n) /\ Become(p, Fenced(q, n))
    <3>1. Traverses(q, Fenced(q, n)) BY <1>3, FencedTraverses
    <3> QED BY <1>1, <1>2, <2>2, <3>1, TraversesOutside, KeepSteps
  <2> QED BY <1>4, <2>1, <2>2
<1> QED BY <1>8, <1>9, <1>10

LEMMA LoadPendingSteps ==
  ASSUME ClientInv, NEW p \in Syncs, LoadPending(p) PROVE Steps(p)
<1>1. PICK q : q = sync[p] OBVIOUS
<1>2. Traversal BY DEF LoadPending, Traversal
<1>3. Shaped(q) /\ q.pc = "tree" BY <1>1, Begun DEF InOrder, LoadPending, At
<1>4. PICK x \in q.pending :
        LoadCatalogNode(p, [id |-> x.id, root |-> x.root],
          [q EXCEPT !.pending = (q.pending \ {x}) \cup Pending(x.path, [id |-> x.id, root |-> x.root]),
                    !.plan = q.plan \cup Planned(x.path, [id |-> x.id, root |-> x.root])])
  BY <1>1 DEF LoadPending
<1>5. PICK n : n = [id |-> x.id, root |-> x.root] OBVIOUS
<1>6. PICK v : v = [q EXCEPT !.pending = (q.pending \ {x}) \cup Pending(x.path, n),
                             !.plan = q.plan \cup Planned(x.path, n)]
  OBVIOUS
<1>7. LoadCatalogNode(p, n, v) BY <1>4, <1>5, <1>6
<1>8. Traverses(q, v) BY <1>3, <1>6 DEF Shaped, Traverses
<1> QED BY <1>1, <1>2, <1>7, <1>8, TraversesOutside, LoadCatalogNodeSteps

LEMMA FinalFenceSteps ==
  ASSUME ClientInv, NEW p \in Syncs, FinalFence(p) PROVE Steps(p)
<1>1. PICK q : q = sync[p] OBVIOUS
<1>2. Shaped(q) BY <1>1, Begun DEF InOrder
<1>3. CatalogStays /\ UNCHANGED storeVars /\ faults' = faults
  BY DEF FinalFence, CatalogStays, publisherVars
<1>4. StoreStays /\ lock' = lock BY <1>3, Begun, QuietStore
<1>5. PICK v : v = [q EXCEPT !.pc = "planned", !.at = MutationHead] OBVIOUS
<1>6. Traverses(q, v) BY <1>2, <1>5 DEF Shaped, Traverses, MutationHead
<1>7. Outside(v) /\ Outside(Failed) BY <1>1, <1>6, TraversesOutside, IdleOutside
<1>8. Become(p, v) \/ Become(p, Failed) BY <1>1, <1>5 DEF FinalFence
<1> QED BY <1>3, <1>4, <1>7, <1>8, OutsideSteps DEF Become

-----------------------------------------------------------------------------
(* The catalog and the faults of the store *)

\* A step that no sync takes.
Elsewhere ==
  /\ CatalogInv' /\ Grows /\ StoreStays /\ lock' = lock /\ sync' = sync

LEMMA ElsewhereKeeps == ASSUME ClientInv, Elsewhere PROVE ClientInv'
<1>1. StoreInv' BY Begun, StoreKept DEF Elsewhere
<1>2. ASSUME NEW t \in Syncs PROVE InOrder(t, sync[t])'
  <2>1. PICK q : q = sync[t] OBVIOUS
  <2>2. InOrder(t, q) BY <2>1, Begun
  <2>3. Undisturbed(q) BY DEF Elsewhere, Undisturbed, StoreStays
  <2>4. InOrder(t, q)' BY <2>2, <2>3, InOrderKept DEF Elsewhere
  <2> QED BY <2>1, <2>4 DEF Elsewhere
<1>3. SyncsInv' BY <1>2, Begun DEF SyncsInv, Elsewhere
<1> QED BY <1>1, <1>3 DEF ClientInv, Elsewhere

LEMMA MutateCatalog == ASSUME CatalogInv, Mutate PROVE CatalogInv' /\ Grows
<1>1. history \in Seq(Trees) /\ Len(history) > 0 BY DEF CatalogInv
<1>2. PICK t \in Trees : history' = Append(history, t) BY DEF Mutate
<1>3. history' \in Seq(Trees) /\ Len(history') = Len(history) + 1 /\ Len(history) \in Nat
  BY <1>1, <1>2
<1>4. Grows BY <1>3 DEF Grows
<1>5. head' = head /\ bucket' = bucket BY DEF Mutate
<1>6. ASSUME NEW r \in DOMAIN bucket PROVE OfHistory(bucket[r])'
  <2>1. PICK c : c = bucket[r] OBVIOUS
  <2>2. OfHistory(c)' BY <1>4, <2>1, OfHistoryKept DEF CatalogInv
  <2> QED BY <1>5, <2>1, <2>2
<1>7. head \in 0..Len(history') /\ DOMAIN bucket \subseteq 1..Len(history')
  BY <1>3 DEF CatalogInv
<1> QED BY <1>3, <1>4, <1>5, <1>6, <1>7 DEF CatalogInv

\* Checkpoints come and go; the one of the head stays.
LEMMA BucketCatalog ==
  ASSUME CatalogInv, history' = history, head' \in 0..Len(history),
         head' # 0 => head' \in DOMAIN bucket', DOMAIN bucket' \subseteq 1..Len(history),
         \A r \in DOMAIN bucket' : OfHistory(bucket'[r])
  PROVE  CatalogInv' /\ Grows
<1>1. Len(history) \in Nat BY DEF CatalogInv
<1>2. Grows BY <1>1 DEF Grows
<1>3. ASSUME NEW r \in DOMAIN bucket' PROVE OfHistory(bucket[r])'
  <2>1. PICK c : c = bucket'[r] OBVIOUS
  <2>2. OfHistory(c)' BY <1>2, <1>3, <2>1, OfHistoryKept
  <2> QED BY <2>1, <2>2
<1> QED BY <1>2, <1>3 DEF CatalogInv

LEMMA StoreCheckpointCatalog ==
  ASSUME CatalogInv, NEW r \in 1..MutationHead, StoreCheckpoint(r) PROVE CatalogInv' /\ Grows
<1>1. PICK c : c = Checkpoint(r, history[r]) OBVIOUS
<1>2. PICK D : D = DOMAIN bucket \cup {r} OBVIOUS
<1>3. bucket' = [x \in D |-> IF x = r THEN c ELSE bucket[x]] BY <1>1, <1>2 DEF StoreCheckpoint
<1>4. OfHistory(c) BY <1>1, CheckpointOfHistory DEF MutationHead
<1>5. \A x \in DOMAIN bucket' : OfHistory(bucket'[x]) BY <1>2, <1>3, <1>4 DEF CatalogInv
<1>6. DOMAIN bucket' \subseteq 1..Len(history) /\ DOMAIN bucket \subseteq DOMAIN bucket'
  BY <1>2, <1>3 DEF CatalogInv, MutationHead
<1>7. history' = history /\ head' = head BY DEF StoreCheckpoint
<1>8. head' \in 0..Len(history) /\ (head' # 0 => head' \in DOMAIN bucket')
  BY <1>6, <1>7 DEF CatalogInv
<1> QED BY <1>5, <1>6, <1>7, <1>8, BucketCatalog

LEMMA DropCheckpointCatalog ==
  ASSUME CatalogInv, NEW r, DropCheckpoint(r) PROVE CatalogInv' /\ Grows
<1>1. PICK D : D = DOMAIN bucket \ {r} OBVIOUS
<1>2. bucket' = [x \in D |-> bucket[x]] BY <1>1 DEF DropCheckpoint
<1>3. \A x \in DOMAIN bucket' : OfHistory(bucket'[x]) BY <1>1, <1>2 DEF CatalogInv
<1>4. DOMAIN bucket' \subseteq 1..Len(history) BY <1>1, <1>2 DEF CatalogInv
<1>5. history' = history /\ head' = head /\ r # head BY DEF DropCheckpoint
<1>6. head' \in 0..Len(history) /\ (head' # 0 => head' \in DOMAIN bucket')
  BY <1>1, <1>2, <1>5 DEF CatalogInv
<1> QED BY <1>3, <1>4, <1>5, <1>6, BucketCatalog

LEMMA PublishHeadCatalog == ASSUME CatalogInv, PublishHead PROVE CatalogInv' /\ Grows
<1>1. history' = history /\ bucket' = bucket /\ head' = Len(history)
  BY DEF PublishHead, MutationHead
<1>2. Len(history) \in Nat /\ head' \in DOMAIN bucket'
  BY <1>1 DEF CatalogInv, PublishHead, MutationHead
<1>3. head' \in 0..Len(history) BY <1>1, <1>2
<1>4. DOMAIN bucket' \subseteq 1..Len(history) /\ \A r \in DOMAIN bucket' : OfHistory(bucket'[r])
  BY <1>1 DEF CatalogInv
<1> QED BY <1>1, <1>2, <1>3, <1>4, BucketCatalog

LEMMA PublisherCatalog == ASSUME CatalogInv, PublisherNext PROVE CatalogInv' /\ Grows
<1>1. CASE LateDelta \/ LoseDelta
  <2>1. CatalogStays BY <1>1 DEF LateDelta, LoseDelta, CatalogStays
  <2> QED BY <2>1, CatalogKept
<1> QED BY <1>1, MutateCatalog, StoreCheckpointCatalog, DropCheckpointCatalog, PublishHeadCatalog
        DEF PublisherNext

LEMMA PublishedElsewhere == ASSUME ClientInv, Published PROVE Elsewhere
<1>1. CatalogInv' /\ Grows BY Begun, PublisherCatalog DEF Published
<1>2. UNCHANGED storeVars /\ faults' = faults /\ sync' = sync BY DEF Published
<1>3. StoreStays /\ lock' = lock BY <1>2, Begun, QuietStore
<1> QED BY <1>1, <1>2, <1>3 DEF Elsewhere

LEMMA DamageHeadElsewhere == ASSUME ClientInv, DamageHead PROVE Elsewhere
<1>1. CatalogStays BY DEF DamageHead, CatalogStays, publisherVars
<1>2. CatalogInv' /\ Grows BY <1>1, Begun, CatalogKept
<1>3. faults' \in 0..MaxFaults BY FaultBound DEF DamageHead
<1>4. StoreStays /\ lock' = lock /\ sync' = sync BY <1>3, Begun DEF DamageHead, StoreStays
<1> QED BY <1>2, <1>4 DEF Elsewhere

LEMMA DamageNodeElsewhere == ASSUME ClientInv, NEW n, DamageNode(n) PROVE Elsewhere
<1>1. CatalogStays BY DEF DamageNode, CatalogStays, publisherVars
<1>2. CatalogInv' /\ Grows BY <1>1, Begun, CatalogKept
<1>3. faults' \in 0..MaxFaults BY FaultBound DEF DamageNode
<1>4. StoreStays /\ lock' = lock /\ sync' = sync BY <1>3, Begun DEF DamageNode, StoreStays
<1> QED BY <1>2, <1>4 DEF Elsewhere

LEMMA ClientStutters == ASSUME ClientInv, UNCHANGED clientVars PROVE Elsewhere
<1>1. CatalogStays /\ UNCHANGED storeVars /\ faults' = faults /\ sync' = sync
  BY DEF clientVars, publisherVars, CatalogStays
<1>2. CatalogInv' /\ Grows BY <1>1, Begun, CatalogKept
<1>3. StoreStays /\ lock' = lock BY <1>1, Begun, QuietStore
<1> QED BY <1>1, <1>2, <1>3 DEF Elsewhere

-----------------------------------------------------------------------------
(* The invariant *)

LEMMA ClientInvInit == ASSUME ClientInit PROVE ClientInv
<1>1. history \in Seq(Trees) /\ Len(history) = 1 /\ head = 0 /\ DOMAIN bucket = {}
  BY PublisherAssumption DEF ClientInit, PublisherInit
<1>2. CatalogInv BY <1>1 DEF CatalogInv
<1>3. ~HeadReadable BY DEF ClientInit, HeadReadable
<1>4. StoreInv BY <1>3, ClientAssumption DEF ClientInit, StoreInv
<1>5. PICK i : i = Idle OBVIOUS
<1>6. Shaped(i) /\ i.bulk = FALSE /\ i.at = 0 /\ i.response.kind = "none" /\ i.pc = "idle"
  BY <1>5, IdleShape
<1>7. DOMAIN sync = Syncs /\ \A p \in Syncs : sync[p] = i BY <1>5 DEF ClientInit
<1>8. ASSUME NEW p \in Syncs PROVE InOrder(p, i)
  <2>1. i.at \in 0..Len(history) BY <1>1, <1>6
  <2>2. i.bulk \in BOOLEAN BY <1>6
  <2> QED BY <1>6, <2>1, <2>2 DEF InOrder, Locked
<1> QED BY <1>2, <1>4, <1>7, <1>8 DEF ClientInv, SyncsInv

LEMMA ClientInvNext == ASSUME ClientInv, ClientNext PROVE ClientInv'
<1>1. ASSUME NEW p \in Syncs, SyncStep(p) PROVE ClientInv'
  <2>1. Steps(p)
    BY <1>1, CheckpointConditionSteps, DeliverSteps, LoseResponseSteps, ReceiveSteps,
       AcquireHeadLockSteps, ChooseNodesSteps, PublishNodeSteps, PublishHeadFileSteps,
       PruneOneShardSteps, ReleaseHeadLockSteps, DiscardHeadSteps, ReadRootSteps,
       WalkSourceSteps, LoadPendingSteps, FinalFenceSteps, FinishSteps, DieSteps DEF SyncStep
  <2> QED BY <2>1, StepsKeep
<1>2. CASE Published \/ DamageHead \/ \E n \in nodes \ damaged : DamageNode(n)
  <2>1. Elsewhere BY <1>2, PublishedElsewhere, DamageHeadElsewhere, DamageNodeElsewhere
  <2> QED BY <2>1, ElsewhereKeeps
<1> QED BY <1>1, <1>2 DEF ClientNext

\* What is known of the catalog, the store and the syncs of a token in every
\* state that is reached.
THEOREM ClientStaysInOrder == ClientSpec => []ClientInv
<1>1. ClientInit => ClientInv BY ClientInvInit
<1>2. ClientInv /\ [ClientNext]_clientVars => ClientInv'
  BY ClientInvNext, ClientStutters, ElsewhereKeeps
<1> QED BY <1>1, <1>2, PTL DEF ClientSpec

\* HeadClosure: the receipt in the store of a token speaks of nodes that are
\* there unless they were damaged, whatever syncs publish, prune, discard and
\* die at the same time.
THEOREM HeadKeepsClosure == ClientSpec => []HeadClosure
<1>1. ASSUME ClientInv PROVE HeadClosure
  <2>1. HeadReadable => /\ headFile.revision \in 1..MutationHead
                        /\ NodesOf(headFile.dirs) \subseteq nodes \cup lost
    BY <1>1, Begun DEF StoreInv, OfHistory, ClosureKept, MutationHead
  <2>2. head \in 0..MutationHead /\ DOMAIN bucket \subseteq 1..MutationHead
    BY <1>1, Begun DEF CatalogInv, MutationHead
  <2>3. \A p \in Syncs : sync[p].bulk \in BOOLEAN /\ sync[p].at \in 0..MutationHead
    BY <1>1, Begun DEF InOrder, MutationHead
  <2>4. cursor \in 0..(Shards - 1) /\ lock \in Syncs \cup {None} /\ faults \in 0..MaxFaults
    BY <1>1, Begun DEF StoreInv
  <2> QED BY <2>1, <2>2, <2>3, <2>4 DEF HeadClosure, ClientTypeOK
<1> QED BY <1>1, ClientStaysInOrder, PTL
-----------------------------------------------------------------------------
(* A plan is the subtree of one directory at one revision: the ways down *)

\* The entry of a link in the data root of its directory.
EntryOf(t, l) ==
  [name |-> l.name, kind |-> l.kind, id |-> l.id,
   root |-> IF IsDirectory(l) THEN DataRoots(t)[l.id] ELSE {}]

\* An item of the queue: a directory below another, its path and its root.
Below(t, from, path, d, root) ==
  /\ path \in Seq(STRING) /\ LeadsTo(t, from, path, d)
  /\ d \in Directories(t) /\ root = DataRoots(t)[d]

LEMMA TreeFacts ==
  ASSUME NEW t \in Trees
  PROVE  /\ IsFiniteSet(t) /\ Cardinality(t) \in Nat
         /\ \A l \in t : l.name \in STRING
         /\ \A d \in Directories(t) : Ways(t, d, Cardinality(t) + 1) = {}
         /\ \A d \in Directories(t) : DataRoots(t)[d] = {EntryOf(t, l) : l \in {k \in t : k.in = d}}
<1>1. IsFiniteSet(t) BY WalkAssumption
<1>2. \A d \in Directories(t) : DataRoots(t)[d] = {EntryOf(t, l) : l \in {k \in t : k.in = d}}
  BY WalkAssumption DEF EntryOf
<1> QED BY <1>1, <1>2, WalkAssumption, FS_CardinalityType

LEMMA WayFacts ==
  ASSUME NEW t, NEW from, NEW n \in Nat, NEW f \in Ways(t, from, n)
  PROVE  /\ f \in [1..n -> t] /\ DOMAIN f = 1..n
         /\ n > 0 => f[1].in = from
         /\ \A i \in 1..n : i > 1 => IsDirectory(f[i - 1]) /\ f[i].in = f[i - 1].id
<1>1. f \in [1..n -> t] BY DEF Ways
<1>2. \A i \in 1..n : IF i = 1 THEN f[i].in = from
                      ELSE IsDirectory(f[i - 1]) /\ f[i].in = f[i - 1].id
  BY DEF Ways
<1> QED BY <1>1, <1>2

LEMMA WayIntro ==
  ASSUME NEW t, NEW from, NEW n \in Nat, NEW f \in [1..n -> t],
         n > 0 => f[1].in = from,
         \A i \in 1..n : i > 1 => IsDirectory(f[i - 1]) /\ f[i].in = f[i - 1].id
  PROVE  f \in Ways(t, from, n)
BY DEF Ways

\* The first links of a way down are a way down.
LEMMA ShorterWay ==
  ASSUME NEW t, NEW from, NEW n \in Nat, NEW f \in Ways(t, from, n), NEW m \in 0..n
  PROVE  [i \in 1..m |-> f[i]] \in Ways(t, from, m)
<1>1. PICK g : g = [i \in 1..m |-> f[i]] OBVIOUS
<1>2. g \in [1..m -> t] BY <1>1, WayFacts
<1>3. m > 0 => g[1].in = from BY <1>1, WayFacts
<1>4. ASSUME NEW i \in 1..m, i > 1 PROVE IsDirectory(g[i - 1]) /\ g[i].in = g[i - 1].id
  <2>1. i \in 1..n /\ i - 1 \in 1..m BY <1>4
  <2>2. g[i] = f[i] /\ g[i - 1] = f[i - 1] BY <1>1, <2>1
  <2> QED BY <1>4, <2>1, <2>2, WayFacts
<1>5. m \in Nat OBVIOUS
<1>6. g \in Ways(t, from, m) BY <1>2, <1>3, <1>4, <1>5, WayIntro
<1> QED BY <1>1, <1>6

\* No way down has more links than its tree.
LEMMA WaysAreShort ==
  ASSUME NEW t \in Trees, NEW from \in Directories(t), NEW n \in Nat, NEW f \in Ways(t, from, n)
  PROVE  n <= Cardinality(t)
<1>1. PICK c : c = Cardinality(t) OBVIOUS
<1>2. c \in Nat BY <1>1, TreeFacts
<1>3. CASE n > c
  <2>1. c + 1 \in 0..n BY <1>2, <1>3
  <2>2. [i \in 1..(c + 1) |-> f[i]] \in Ways(t, from, c + 1) BY <2>1, ShorterWay
  <2> QED BY <1>1, <2>2, TreeFacts
<1> QED BY <1>1, <1>2, <1>3

LEMMA NoNames == ASSUME NEW f PROVE [i \in 1..0 |-> f[i].name] = << >>
<1>1. PICK g : g = [i \in 1..0 |-> f[i].name] OBVIOUS
<1>2. g \in [1..0 -> STRING] BY <1>1
<1>3. g \in Seq(STRING) /\ Len(g) = 0 BY <1>2
<1> QED BY <1>1, <1>3, EmptySeq

\* The names of a way and one more name.
LEMMA AppendName ==
  ASSUME NEW S, NEW n \in Nat, NEW path \in Seq(S), Len(path) = n, NEW s \in S,
         NEW g, g \in [1..(n + 1) -> S],
         \A i \in 1..n : g[i] = path[i], g[n + 1] = s
  PROVE  g = Append(path, s)
<1>1. PICK h : h = Append(path, s) OBVIOUS
<1>2. /\ h \in Seq(S) /\ Len(h) = Len(path) + 1 /\ h[Len(path) + 1] = s
      /\ \A i \in 1..Len(path) : h[i] = path[i]
  <2>1. h \in Seq(S) /\ Len(h) = Len(path) + 1 BY <1>1
  <2>2. h[Len(path) + 1] = s BY <1>1
  <2>3. \A i \in 1..Len(path) : h[i] = path[i] BY <1>1
  <2> QED BY <2>1, <2>2, <2>3
<1>3. Len(h) = n + 1 /\ h[n + 1] = s /\ \A i \in 1..n : h[i] = path[i] BY <1>2
<1>4. h \in [1..(n + 1) -> S] BY <1>2, <1>3, LenProperties
<1>5. ASSUME NEW i \in 1..(n + 1) PROVE g[i] = h[i]
  <2>1. i = n + 1 \/ i \in 1..n OBVIOUS
  <2> QED BY <1>3, <2>1
<1>6. g = [i \in 1..(n + 1) |-> g[i]] /\ h = [i \in 1..(n + 1) |-> h[i]] BY <1>4
<1>7. g = h BY <1>5, <1>6
<1> QED BY <1>1, <1>7

\* A link of the directory at the end of a path goes one step further.
Further(t, from, path, l) ==
  \E g \in Ways(t, from, Len(path) + 1) :
    NamesOf(g) = Append(path, l.name) /\ g[Len(path) + 1] = l

LEMMA OneFurther ==
  ASSUME NEW t \in Trees, NEW from, NEW path \in Seq(STRING), NEW d, LeadsTo(t, from, path, d),
         NEW l \in t, l.in = d
  PROVE  Further(t, from, path, l)
<1>1. PICK k, n : k = Len(path) /\ n = Len(path) + 1 OBVIOUS
<1>2. k \in Nat /\ n = k + 1 /\ n \in Nat BY <1>1
<1>3. PICK f \in Ways(t, from, k) :
        /\ path = NamesOf(f)
        /\ IF path = << >> THEN d = from ELSE IsDirectory(f[k]) /\ f[k].id = d
  BY <1>1 DEF LeadsTo
<1>4. f \in [1..k -> t] /\ DOMAIN f = 1..k BY <1>2, WayFacts
<1>5. \A i \in 1..k : path[i] = f[i].name BY <1>3, <1>4 DEF NamesOf
<1>6. IF k = 0 THEN d = from ELSE IsDirectory(f[k]) /\ f[k].id = d
  BY <1>1, <1>3, EmptySeq
<1>7. PICK g : g = [i \in 1..n |-> IF i = n THEN l ELSE f[i]] OBVIOUS
<1>8. g \in [1..n -> t] /\ DOMAIN g = 1..n BY <1>2, <1>4, <1>7
<1>9. g[n] = l /\ \A i \in 1..k : g[i] = f[i] BY <1>2, <1>7
<1>10. g[1].in = from
  <2>1. CASE k = 0 BY <1>2, <1>6, <1>9, <2>1
  <2>2. CASE k > 0
    <3>1. 1 \in 1..k /\ f[1].in = from BY <1>2, <2>2, WayFacts
    <3> QED BY <1>9, <3>1
  <2> QED BY <1>2, <2>1, <2>2
<1>11. ASSUME NEW i \in 1..n, i > 1 PROVE IsDirectory(g[i - 1]) /\ g[i].in = g[i - 1].id
  <2>1. i - 1 \in 1..k BY <1>2, <1>11
  <2>2. g[i - 1] = f[i - 1] BY <1>9, <2>1
  <2>3. CASE i = n
    <3>1. k # 0 /\ i - 1 = k BY <1>2, <1>11, <2>3
    <3> QED BY <1>6, <1>9, <2>2, <2>3, <3>1
  <2>4. CASE i # n
    <3>1. i \in 1..k BY <1>2, <2>4
    <3>2. IsDirectory(f[i - 1]) /\ f[i].in = f[i - 1].id BY <1>2, <1>11, <3>1, WayFacts
    <3> QED BY <1>9, <2>2, <3>1, <3>2
  <2> QED BY <2>3, <2>4
<1>12. g \in Ways(t, from, n) BY <1>2, <1>8, <1>10, <1>11, WayIntro
<1>13. NamesOf(g) = Append(path, l.name)
  <2>1. PICK names : names = NamesOf(g) OBVIOUS
  <2>2. names = [i \in 1..n |-> g[i].name] BY <1>8, <2>1 DEF NamesOf
  <2>3. \A x \in t : x.name \in STRING BY TreeFacts
  <2>4. names \in [1..(k + 1) -> STRING] BY <1>2, <1>8, <2>2, <2>3
  <2>5. \A i \in 1..k : names[i] = path[i] BY <1>2, <1>5, <1>9, <2>2
  <2>6. names[k + 1] = l.name BY <1>2, <1>9, <2>2
  <2> QED BY <1>1, <1>2, <2>1, <2>3, <2>4, <2>5, <2>6, AppendName
<1> QED BY <1>1, <1>9, <1>12, <1>13 DEF Further

LEMMA EmptyWay ==
  ASSUME NEW t, NEW from \in Directories(t)
  PROVE  Below(t, from, << >>, from, DataRoots(t)[from])
<1>1. PICK f : f = [i \in 1..0 |-> 0] OBVIOUS
<1>2. f \in [1..0 -> t] BY <1>1
<1>3. f \in Ways(t, from, 0) BY <1>2 DEF Ways
<1>4. NamesOf(f) = << >>
  <2>1. NamesOf(f) = [i \in 1..0 |-> f[i].name] BY <1>1 DEF NamesOf
  <2> QED BY <2>1, NoNames
<1>5. << >> \in Seq(STRING) /\ Len(<< >>) = 0 OBVIOUS
<1> QED BY <1>3, <1>4, <1>5 DEF Below, LeadsTo

\* An entry of a directory is a link of it.
LEMMA LinkOf ==
  ASSUME NEW t \in Trees, NEW from, NEW path, NEW d, NEW root, Below(t, from, path, d, root),
         NEW e \in root
  PROVE  \E l \in t : /\ l.in = d /\ e.name = l.name /\ e.id = l.id /\ e.name \in STRING
                      /\ IsDirectory(e) <=> IsDirectory(l)
                      /\ IsDirectory(e) => e.root = DataRoots(t)[l.id] /\ l.id \in Directories(t)
<1>1. root = {EntryOf(t, l) : l \in {k \in t : k.in = d}} BY TreeFacts DEF Below
<1>2. PICK l \in t : l.in = d /\ e = EntryOf(t, l) BY <1>1
<1>3. e.name = l.name /\ e.id = l.id /\ e.kind = l.kind BY <1>2 DEF EntryOf
<1>4. IsDirectory(l) => e.root = DataRoots(t)[l.id] BY <1>2 DEF EntryOf
<1>5. IsDirectory(e) <=> IsDirectory(l) BY <1>3 DEF IsDirectory
<1>6. IsDirectory(l) => l.id \in Directories(t) BY DEF Directories
<1> QED BY <1>2, <1>3, <1>4, <1>5, <1>6, TreeFacts

\* A link of a directory is an entry of it.
LEMMA EntryOfLink ==
  ASSUME NEW t \in Trees, NEW from, NEW path, NEW d, NEW root, Below(t, from, path, d, root),
         NEW l \in t, l.in = d
  PROVE  \E e \in root : /\ e.name = l.name /\ e.id = l.id
                         /\ IsDirectory(e) <=> IsDirectory(l)
                         /\ IsDirectory(l) => e.root = DataRoots(t)[l.id]
<1>1. root = {EntryOf(t, k) : k \in {k \in t : k.in = d}} BY TreeFacts DEF Below
<1>2. PICK e \in root : e = EntryOf(t, l) BY <1>1
<1>3. e.name = l.name /\ e.id = l.id /\ e.kind = l.kind BY <1>2 DEF EntryOf
<1>4. IsDirectory(l) => e.root = DataRoots(t)[l.id] BY <1>2 DEF EntryOf
<1>5. IsDirectory(e) <=> IsDirectory(l) BY <1>3 DEF IsDirectory
<1> QED BY <1>2, <1>3, <1>4, <1>5

\* A directory among the entries of one that is below is below.
LEMMA Descend ==
  ASSUME NEW t \in Trees, NEW from, NEW path, NEW d, NEW root, Below(t, from, path, d, root),
         NEW e \in root, IsDirectory(e)
  PROVE  Below(t, from, Append(path, e.name), e.id, e.root)
<1>1. PICK l \in t : /\ l.in = d /\ e.name = l.name /\ e.id = l.id /\ e.name \in STRING
                     /\ IsDirectory(l) /\ e.root = DataRoots(t)[l.id] /\ l.id \in Directories(t)
  BY LinkOf
<1>2. path \in Seq(STRING) /\ LeadsTo(t, from, path, d) BY DEF Below
<1>3. PICK n : n = Len(path) + 1 OBVIOUS
<1>4. PICK g \in Ways(t, from, n) : NamesOf(g) = Append(path, l.name) /\ g[n] = l
  <2>1. l \in t /\ l.in = d BY <1>1
  <2>2. Further(t, from, path, l) BY <1>2, <2>1, OneFurther
  <2> QED BY <1>3, <2>2 DEF Further
<1>5. PICK longer : longer = Append(path, e.name) OBVIOUS
<1>6. longer \in Seq(STRING) /\ Len(longer) = n BY <1>1, <1>2, <1>3, <1>5, AppendProperties
<1>7. longer # << >> BY <1>2, <1>3, <1>6
<1>8. LeadsTo(t, from, longer, e.id) BY <1>1, <1>4, <1>5, <1>6, <1>7 DEF LeadsTo
<1> QED BY <1>1, <1>5, <1>6, <1>8 DEF Below
-----------------------------------------------------------------------------
(* The queue and the plan of a walk *)

\* The file at the end of a way of n links, and the directory after m of them.
FileOf(f, n) == [path |-> NamesOf(f), version |-> f[n].id]
EndOf(from, f, m) == IF m = 0 THEN from ELSE f[m].id
StopAt(t, from, f, m) ==
  [path |-> [i \in 1..m |-> f[i].name], id |-> EndOf(from, f, m), root |-> DataRoots(t)[EndOf(from, f, m)]]

\* The ways of n links to a file.
FileWays(t, from, n) == {f \in Ways(t, from, n) : ~IsDirectory(f[n])}

\* In the tree t, every file below is planned, or a directory on its way is
\* still queued; and nothing else is planned or queued.
QueueBelow(t, from, pending) == \A x \in pending : Below(t, from, x.path, x.id, x.root)
PlanBelow(t, from, plan) ==
  \A y \in plan : \E n \in Nat \ {0} : \E f \in FileWays(t, from, n) : y = FileOf(f, n)
Covered(t, from, f, n, pending, plan) ==
  \/ FileOf(f, n) \in plan
  \/ \E m \in 0..(n - 1) : StopAt(t, from, f, m) \in pending
AllCovered(t, from, pending, plan) ==
  \A n \in Nat \ {0} : \A f \in FileWays(t, from, n) : Covered(t, from, f, n, pending, plan)
Walks(t, from, pending, plan) ==
  QueueBelow(t, from, pending) /\ PlanBelow(t, from, plan) /\ AllCovered(t, from, pending, plan)

LEMMA WalkBegins ==
  ASSUME NEW t, NEW from \in Directories(t)
  PROVE  Walks(t, from, {[path |-> << >>, id |-> from, root |-> DataRoots(t)[from]]}, {})
<1>1. PICK x : x = [path |-> << >>, id |-> from, root |-> DataRoots(t)[from]] OBVIOUS
<1>2. QueueBelow(t, from, {x}) BY <1>1, EmptyWay DEF QueueBelow
<1>3. PlanBelow(t, from, {}) BY DEF PlanBelow
<1>4. ASSUME NEW n \in Nat \ {0}, NEW f \in FileWays(t, from, n) PROVE Covered(t, from, f, n, {x}, {})
  <2>1. StopAt(t, from, f, 0) = x BY <1>1, NoNames DEF StopAt, EndOf
  <2>2. 0 \in 0..(n - 1) OBVIOUS
  <2> QED BY <2>1, <2>2 DEF Covered
<1>5. AllCovered(t, from, {x}, {}) BY <1>4 DEF AllCovered
<1> QED BY <1>1, <1>2, <1>3, <1>5 DEF Walks

LEMMA QueueLoads ==
  ASSUME NEW t \in Trees, NEW from, NEW pending, QueueBelow(t, from, pending),
         NEW x \in pending, NEW n, n.root = x.root
  PROVE  QueueBelow(t, from, (pending \ {x}) \cup Pending(x.path, n))
<1>1. Below(t, from, x.path, x.id, x.root) BY DEF QueueBelow
<1>2. ASSUME NEW y \in Pending(x.path, n) PROVE Below(t, from, y.path, y.id, y.root)
  <2>1. PICK e \in n.root : /\ IsDirectory(e)
                            /\ y = [path |-> Append(x.path, e.name), id |-> e.id, root |-> e.root]
    BY <1>2 DEF Pending
  <2>2. Below(t, from, Append(x.path, e.name), e.id, e.root) BY <1>1, <2>1, Descend
  <2> QED BY <2>1, <2>2
<1> QED BY <1>2 DEF QueueBelow

LEMMA PlanLoads ==
  ASSUME NEW t \in Trees, NEW from, NEW pending, QueueBelow(t, from, pending),
         NEW plan, PlanBelow(t, from, plan), NEW x \in pending, NEW n, n.root = x.root
  PROVE  PlanBelow(t, from, plan \cup Planned(x.path, n))
<1>1. Below(t, from, x.path, x.id, x.root) BY DEF QueueBelow
<1>2. x.path \in Seq(STRING) /\ LeadsTo(t, from, x.path, x.id) BY <1>1 DEF Below
<1>3. ASSUME NEW y \in Planned(x.path, n)
      PROVE  \E k \in Nat \ {0} : \E f \in FileWays(t, from, k) : y = FileOf(f, k)
  <2>1. PICK e \in n.root : ~IsDirectory(e) /\ y = [path |-> Append(x.path, e.name), version |-> e.id]
    BY <1>3 DEF Planned
  <2>2. PICK l \in t : /\ l.in = x.id /\ e.name = l.name /\ e.id = l.id /\ e.name \in STRING
                       /\ IsDirectory(e) <=> IsDirectory(l)
    BY <1>1, <2>1, LinkOf
  <2>3. PICK k : k = Len(x.path) + 1 OBVIOUS
  <2>4. k \in Nat \ {0} BY <1>2, <2>3
  <2>5. Further(t, from, x.path, l) BY <1>2, <2>2, OneFurther
  <2>6. PICK g \in Ways(t, from, k) : NamesOf(g) = Append(x.path, l.name) /\ g[k] = l
    BY <2>3, <2>5 DEF Further
  <2>7. g \in FileWays(t, from, k) BY <2>1, <2>2, <2>6 DEF FileWays
  <2>8. y = FileOf(g, k) BY <2>1, <2>2, <2>6 DEF FileOf
  <2> QED BY <2>4, <2>7, <2>8
<1> QED BY <1>3 DEF PlanBelow

\* Where a directory on the way to a file was queued, loading it plans the
\* file or queues the next directory on the way.
LEMMA NextStop ==
  ASSUME NEW t \in Trees, NEW from, NEW k \in Nat \ {0}, NEW f \in FileWays(t, from, k),
         NEW m \in 0..(k - 1), NEW x, x = StopAt(t, from, f, m),
         Below(t, from, x.path, x.id, x.root), NEW n, n.root = x.root
  PROVE  \/ FileOf(f, k) \in Planned(x.path, n)
         \/ m + 1 \in 0..(k - 1) /\ StopAt(t, from, f, m + 1) \in Pending(x.path, n)
<1>1. f \in Ways(t, from, k) /\ ~IsDirectory(f[k]) BY DEF FileWays
<1>2. f \in [1..k -> t] /\ DOMAIN f = 1..k BY <1>1, WayFacts
<1>3. PICK j : j = m + 1 OBVIOUS
<1>4. j \in 1..k /\ j \in Nat BY <1>3
<1>5. PICK l \in t : l = f[j] BY <1>2, <1>4
<1>6. l.in = x.id
  <2>1. x.id = EndOf(from, f, m) BY DEF StopAt
  <2>2. CASE m = 0
    <3>1. x.id = from /\ j = 1 BY <1>3, <2>1, <2>2 DEF EndOf
    <3> QED BY <1>1, <1>4, <1>5, <3>1, WayFacts
  <2>3. CASE m # 0
    <3>1. x.id = f[m].id /\ j > 1 /\ j - 1 = m BY <1>3, <2>1, <2>3 DEF EndOf
    <3>2. f[j].in = f[j - 1].id BY <1>1, <1>4, <3>1, WayFacts
    <3> QED BY <1>5, <3>1, <3>2
  <2> QED BY <2>2, <2>3
<1>7. PICK e \in x.root : /\ e.name = l.name /\ e.id = l.id
                          /\ IsDirectory(e) <=> IsDirectory(l)
                          /\ IsDirectory(l) => e.root = DataRoots(t)[l.id]
  BY <1>6, EntryOfLink
<1>8. PICK names : names = [i \in 1..j |-> f[i].name] OBVIOUS
<1>9. names = Append(x.path, e.name)
  <2>1. x.path = [i \in 1..m |-> f[i].name] BY DEF StopAt
  <2>2. \A i \in 1..k : f[i].name \in STRING BY <1>2, TreeFacts
  <2>3. names \in [1..(m + 1) -> STRING] BY <1>3, <1>4, <1>8, <2>2
  <2>4. x.path \in Seq(STRING) BY DEF Below
  <2>5. Len(x.path) = m /\ m \in Nat BY <2>1, <2>4, LenProperties
  <2>6. \A i \in 1..m : names[i] = x.path[i] BY <1>3, <1>8, <2>1
  <2>7. names[m + 1] = e.name BY <1>3, <1>4, <1>5, <1>7, <1>8
  <2>8. e.name \in STRING BY <1>4, <1>5, <1>7, <2>2
  <2> QED BY <2>3, <2>4, <2>5, <2>6, <2>7, <2>8, AppendName
<1>10. CASE j = k
  <2>1. NamesOf(f) = names BY <1>2, <1>8, <1>10 DEF NamesOf
  <2>2. FileOf(f, k) = [path |-> Append(x.path, e.name), version |-> e.id]
    BY <1>5, <1>7, <1>9, <1>10, <2>1 DEF FileOf
  <2>3. e \in n.root /\ ~IsDirectory(e) BY <1>1, <1>5, <1>7, <1>10
  <2> QED BY <2>2, <2>3 DEF Planned
<1>11. CASE j # k
  <2>1. j \in 0..(k - 1) /\ j # 0 BY <1>4, <1>11
  <2>2. IsDirectory(l)
    <3>1. j + 1 \in 1..k /\ j + 1 > 1 /\ (j + 1) - 1 = j BY <1>4, <2>1
    <3>2. IsDirectory(f[(j + 1) - 1]) BY <1>1, <3>1, WayFacts
    <3> QED BY <1>5, <3>1, <3>2
  <2>3. EndOf(from, f, j) = e.id BY <1>5, <1>7, <2>1 DEF EndOf
  <2>4. StopAt(t, from, f, j) = [path |-> names, id |-> e.id, root |-> DataRoots(t)[e.id]]
    BY <1>8, <2>3 DEF StopAt
  <2>5. DataRoots(t)[e.id] = e.root BY <1>7, <2>2
  <2>6. StopAt(t, from, f, j) = [path |-> Append(x.path, e.name), id |-> e.id, root |-> e.root]
    BY <1>9, <2>4, <2>5
  <2>7. e \in n.root /\ IsDirectory(e) BY <1>7, <2>2
  <2>8. StopAt(t, from, f, j) \in Pending(x.path, n) BY <2>6, <2>7 DEF Pending
  <2> QED BY <1>3, <2>1, <2>8
<1> QED BY <1>10, <1>11

LEMMA CoverLoads ==
  ASSUME NEW t \in Trees, NEW from, NEW pending, QueueBelow(t, from, pending),
         NEW plan, AllCovered(t, from, pending, plan), NEW x \in pending, NEW n, n.root = x.root
  PROVE  AllCovered(t, from, (pending \ {x}) \cup Pending(x.path, n), plan \cup Planned(x.path, n))
<1>1. PICK queue : queue = (pending \ {x}) \cup Pending(x.path, n) OBVIOUS
<1>2. PICK files : files = plan \cup Planned(x.path, n) OBVIOUS
<1>3. Below(t, from, x.path, x.id, x.root) BY DEF QueueBelow
<1>4. ASSUME NEW k \in Nat \ {0}, NEW f \in FileWays(t, from, k)
      PROVE  Covered(t, from, f, k, queue, files)
  <2>1. Covered(t, from, f, k, pending, plan) BY <1>4 DEF AllCovered
  <2>2. CASE FileOf(f, k) \in plan BY <1>2, <2>2 DEF Covered
  <2>3. ASSUME NEW m \in 0..(k - 1), StopAt(t, from, f, m) \in pending
        PROVE  Covered(t, from, f, k, queue, files)
    <3>1. CASE StopAt(t, from, f, m) # x BY <1>1, <2>3, <3>1 DEF Covered
    <3>2. CASE StopAt(t, from, f, m) = x
      <4>1. \/ FileOf(f, k) \in Planned(x.path, n)
            \/ m + 1 \in 0..(k - 1) /\ StopAt(t, from, f, m + 1) \in Pending(x.path, n)
        BY <1>3, <3>2, NextStop
      <4> QED BY <1>1, <1>2, <4>1 DEF Covered
    <3> QED BY <3>1, <3>2
  <2> QED BY <2>1, <2>2, <2>3 DEF Covered
<1>5. AllCovered(t, from, queue, files) BY <1>4 DEF AllCovered
<1> QED BY <1>1, <1>2, <1>5

LEMMA WalkLoads ==
  ASSUME NEW t \in Trees, NEW from, NEW pending, NEW plan, Walks(t, from, pending, plan),
         NEW x \in pending, NEW n, n.root = x.root
  PROVE  Walks(t, from, (pending \ {x}) \cup Pending(x.path, n), plan \cup Planned(x.path, n))
<1>1. QueueBelow(t, from, pending) /\ PlanBelow(t, from, plan) /\ AllCovered(t, from, pending, plan)
  BY DEF Walks
<1>2. QueueBelow(t, from, (pending \ {x}) \cup Pending(x.path, n)) BY <1>1, QueueLoads
<1>3. PlanBelow(t, from, plan \cup Planned(x.path, n)) BY <1>1, PlanLoads
<1>4. AllCovered(t, from, (pending \ {x}) \cup Pending(x.path, n), plan \cup Planned(x.path, n))
  BY <1>1, CoverLoads
<1> QED BY <1>2, <1>3, <1>4 DEF Walks

\* The directory that heads the queue is loaded.
LEMMA WalkStarts ==
  ASSUME NEW t \in Trees, NEW n, n.id \in Directories(t), n.root = DataRoots(t)[n.id]
  PROVE  Walks(t, n.id, Pending(<< >>, n), Planned(<< >>, n))
<1>1. PICK x : x = [path |-> << >>, id |-> n.id, root |-> DataRoots(t)[n.id]] OBVIOUS
<1>2. PICK queue : queue = {x} OBVIOUS
<1>3. Walks(t, n.id, queue, {}) BY <1>1, <1>2, WalkBegins
<1>4. x \in queue /\ n.root = x.root /\ x.path = << >> BY <1>1, <1>2
<1>5. Walks(t, n.id, (queue \ {x}) \cup Pending(x.path, n), {} \cup Planned(x.path, n))
  BY <1>3, <1>4, WalkLoads
<1>6. (queue \ {x}) \cup Pending(x.path, n) = Pending(x.path, n) BY <1>2
<1>7. {} \cup Planned(x.path, n) = Planned(x.path, n) OBVIOUS
<1> QED BY <1>4, <1>5, <1>6, <1>7

\* When the queue is empty, the plan is what is below.
LEMMA WalkEnds ==
  ASSUME NEW t \in Trees, NEW from \in Directories(t), NEW plan, Walks(t, from, {}, plan)
  PROVE  plan = FilesBelow(t, from)
<1>1. PICK c : c = Cardinality(t) OBVIOUS
<1>2. c \in Nat BY <1>1, TreeFacts
<1>3. \A y : y \in FilesBelow(t, from) <=>
        \E n \in 1..c : \E f \in FileWays(t, from, n) : y = FileOf(f, n)
  BY <1>1 DEF FilesBelow, FileWays, FileOf
<1>4. ASSUME NEW y \in plan PROVE y \in FilesBelow(t, from)
  <2>1. PICK n \in Nat \ {0} : \E f \in FileWays(t, from, n) : y = FileOf(f, n)
    BY <1>4 DEF Walks, PlanBelow
  <2>2. PICK f \in FileWays(t, from, n) : y = FileOf(f, n) BY <2>1
  <2>3. f \in Ways(t, from, n) BY <2>2 DEF FileWays
  <2>4. n <= c BY <1>1, <2>3, WaysAreShort
  <2>5. n \in 1..c BY <1>2, <2>4
  <2> QED BY <1>3, <2>2, <2>5
<1>5. ASSUME NEW y \in FilesBelow(t, from) PROVE y \in plan
  <2>1. PICK n \in 1..c : \E f \in FileWays(t, from, n) : y = FileOf(f, n) BY <1>3, <1>5
  <2>2. PICK f \in FileWays(t, from, n) : y = FileOf(f, n) BY <2>1
  <2>3. n \in Nat \ {0} BY <1>2
  <2>4. Covered(t, from, f, n, {}, plan) BY <2>2, <2>3 DEF Walks, AllCovered
  <2> QED BY <2>2, <2>4 DEF Covered
<1> QED BY <1>4, <1>5
-----------------------------------------------------------------------------
(* The inductive invariant of the walks *)

\* The directory of the tree t has the root of the node n.
Matches(t, n) == n.id \in Directories(t) /\ DataRoots(t)[n.id] = n.root

\* A sync on its way to the source stands at a prefix of its path in the tree
\* it read first.
OnSource(h, q) ==
  /\ q.from \in 1..Len(h) /\ q.names \in Seq(STRING) /\ Len(q.names) > 0
  /\ \E k \in Nat :
       /\ Len(q.names) + k = Len(Source)
       /\ \A i \in 1..Len(q.names) : q.names[i] = Source[k + i]
       /\ Below(h[q.from], Root, [i \in 1..k |-> Source[i]], q.dir.id, q.dir.root)

\* The fence is the source in that tree.
AtSource(h, q) == q.from \in 1..Len(h) /\ LeadsTo(h[q.from], Root, Source, q.fence.id)

\* The queue and the plan are right for every tree that has the fence's root:
\* which of them the final page will show is open.
WalksOn(q) ==
  \A t \in Trees : Matches(t, q.fence) => Walks(t, q.fence.id, q.pending, q.plan)

PlanInOrder(h, q) ==
  /\ q.pc = "walk" => OnSource(h, q)
  /\ q.pc \in {"tree", "planned"} => AtSource(h, q) /\ WalksOn(q)
  /\ q.pc = "planned" => q.pending = {} /\ q.at \in 1..Len(h) /\ Matches(h[q.at], q.fence)

PlansInv == \A p \in Syncs : PlanInOrder(history, sync[p])

\* The trees of revisions that were made stay.
Continues(h, g) ==
  /\ Len(h) \in Nat /\ Len(g) \in Nat /\ Len(h) <= Len(g)
  /\ \A i \in 1..Len(h) : g[i] = h[i]

LEMMA PlanKept ==
  ASSUME NEW h, NEW g, Continues(h, g), NEW q, PlanInOrder(h, q)
  PROVE  PlanInOrder(g, q)
<1>1. \A i \in 1..Len(h) : i \in 1..Len(g) /\ g[i] = h[i] BY DEF Continues
<1>2. OnSource(h, q) => OnSource(g, q) BY <1>1 DEF OnSource
<1>3. AtSource(h, q) => AtSource(g, q) BY <1>1 DEF AtSource
<1> QED BY <1>1, <1>2, <1>3 DEF PlanInOrder

Walking == {"walk", "tree", "planned"}

LEMMA NotWalking == ASSUME NEW h, NEW v, v.pc \notin Walking PROVE PlanInOrder(h, v)
BY DEF PlanInOrder, Walking

\* What one sync makes of its record.
Makes(p, v) == history' = history /\ Become(p, v)

LEMMA MakesKeeps ==
  ASSUME ClientInv, PlansInv, NEW p \in Syncs, NEW v, Makes(p, v), PlanInOrder(history, v)
  PROVE  PlansInv'
<1>1. ASSUME NEW t \in Syncs PROVE PlanInOrder(history', sync'[t])
  <2>1. sync' = [sync EXCEPT ![p] = v] /\ history' = history /\ DOMAIN sync = Syncs
    BY Begun DEF Makes, Become
  <2>2. CASE t = p
    <3>1. sync'[t] = v BY <2>1, <2>2
    <3> QED BY <2>1, <3>1
  <2>3. CASE t # p
    <3>1. sync'[t] = sync[t] BY <2>1, <2>3
    <3> QED BY <2>1, <3>1 DEF PlansInv
  <2> QED BY <2>2, <2>3
<1> QED BY <1>1 DEF PlansInv

LEMMA FailedKeeps ==
  ASSUME ClientInv, PlansInv, NEW p \in Syncs, Makes(p, Failed) PROVE PlansInv'
<1>1. Failed.pc \notin Walking BY DEF Failed, Idle, Walking
<1>2. PlanInOrder(history, Failed) BY <1>1, NotWalking
<1> QED BY <1>2, MakesKeeps

\* A sync that does not walk, before or after the step.
Stands(p) == history' = history /\ \E v : Become(p, v) /\ v.pc \notin Walking

LEMMA StandsKeeps == ASSUME ClientInv, PlansInv, NEW p \in Syncs, Stands(p) PROVE PlansInv'
<1>1. PICK v : Makes(p, v) /\ v.pc \notin Walking BY DEF Stands, Makes
<1>2. PlanInOrder(history, v) BY <1>1, NotWalking
<1> QED BY <1>1, <1>2, MakesKeeps

LEMMA GotoStands ==
  ASSUME ClientInv, NEW p \in Syncs, history' = history, NEW pc, pc \notin Walking, Goto(p, pc)
  PROVE  Stands(p)
<1>1. PICK q : q = sync[p] OBVIOUS
<1>2. Shaped(q) BY <1>1, Begun DEF InOrder
<1>3. PICK v : v = [q EXCEPT !.pc = pc] OBVIOUS
<1>4. v.pc = pc BY <1>2, <1>3 DEF Shaped
<1>5. Become(p, v) BY <1>1, <1>3 DEF Goto
<1> QED BY <1>4, <1>5 DEF Stands

LEMMA ResponseStands ==
  ASSUME ClientInv, NEW p \in Syncs, history' = history, NEW a,
         Become(p, [sync[p] EXCEPT !.pc = "response", !.response = a])
  PROVE  Stands(p)
<1>1. PICK q : q = sync[p] OBVIOUS
<1>2. Shaped(q) BY <1>1, Begun DEF InOrder
<1>3. PICK v : v = [q EXCEPT !.pc = "response", !.response = a] OBVIOUS
<1>4. v.pc = "response" BY <1>2, <1>3 DEF Shaped
<1>5. Become(p, v) BY <1>1, <1>3
<1> QED BY <1>4, <1>5 DEF Stands, Walking

\* The steps of the request and of its answer.
LEMMA RequestStands ==
  ASSUME ClientInv, NEW p \in Syncs,
         CheckpointCondition(p) \/ Deliver(p) \/ LoseResponse(p) \/ Receive(p)
  PROVE  Stands(p)
<1>1. CASE CheckpointCondition(p)
  <2>1. PICK c : Become(p, [Idle EXCEPT !.pc = "request", !.condition = c])
    BY <1>1 DEF CheckpointCondition
  <2>2. history' = history BY <1>1 DEF CheckpointCondition, publisherVars
  <2>3. [Idle EXCEPT !.pc = "request", !.condition = c].pc \notin Walking BY DEF Idle, Walking
  <2> QED BY <2>1, <2>2, <2>3 DEF Stands
<1>2. CASE Deliver(p)
  <2>1. history' = history BY <1>2 DEF Deliver, publisherVars
  <2>2. PICK a : Become(p, [sync[p] EXCEPT !.pc = "response", !.response = a])
    BY <1>2 DEF Deliver
  <2> QED BY <2>1, <2>2, ResponseStands
<1>3. CASE LoseResponse(p)
  <2>1. history' = history BY <1>3 DEF LoseResponse, publisherVars
  <2>2. Become(p, [sync[p] EXCEPT !.pc = "response", !.response = [kind |-> "unavailable"]])
    BY <1>3 DEF LoseResponse
  <2> QED BY <2>1, <2>2, ResponseStands
<1>4. CASE Receive(p)
  <2>1. history' = history BY <1>4 DEF Receive, publisherVars
  <2>2. PICK response : response = sync[p].response OBVIOUS
  <2>3. At(p, "response") BY <1>4 DEF Receive
  <2>4. response.kind \in Kinds BY <2>2, <2>3, Begun DEF InOrder, At
  <2>5. PICK without : without = [Idle EXCEPT !.pc = "root"] OBVIOUS
  <2>6. PICK verified : verified = [Idle EXCEPT !.pc = "lock", !.response = response] OBVIOUS
  <2>7. PICK bulk : bulk = [without EXCEPT !.bulk = TRUE] OBVIOUS
  <2>8. Become(p, without) \/ Become(p, bulk) \/ Become(p, Failed) \/ Become(p, verified)
    BY <1>4, <2>2, <2>4, <2>5, <2>6, <2>7 DEF Receive, Kinds
  <2>9. without.pc = "root" /\ bulk.pc = "root" /\ verified.pc = "lock" /\ Failed.pc = "failed"
    BY <2>5, <2>6, <2>7 DEF Idle, Failed
  <2> QED BY <2>1, <2>8, <2>9 DEF Stands, Walking
<1> QED BY <1>1, <1>2, <1>3, <1>4

\* The steps under the lock.
LEMMA PublicationStands ==
  ASSUME ClientInv, NEW p \in Syncs,
         AcquireHeadLock(p) \/ ChooseNodes(p) \/ PublishNode(p) \/ PublishHeadFile(p) \/ PruneOneShard(p)
  PROVE  Stands(p)
<1>1. PICK q : q = sync[p] OBVIOUS
<1>2. Shaped(q) BY <1>1, Begun DEF InOrder
<1>3. \A pc \in {"base", "discard", "unlock", "prune"} : pc \notin Walking BY DEF Walking
<1>4. CASE AcquireHeadLock(p)
  <2>1. history' = history /\ Goto(p, "base") BY <1>4 DEF AcquireHeadLock, publisherVars
  <2> QED BY <1>3, <2>1, GotoStands
<1>5. CASE ChooseNodes(p)
  <2>1. history' = history BY <1>5 DEF ChooseNodes, publisherVars
  <2>2. PICK a, b, c : \/ Goto(p, "discard")
                       \/ Become(p, [q EXCEPT !.pc = "nodes", !.target = a, !.todo = b, !.response = c])
    <3>1. CASE q.response.kind = "full" BY <1>1, <1>5, <3>1 DEF ChooseNodes
    <3>2. CASE q.response.kind # "full" BY <1>1, <1>5, <3>2 DEF ChooseNodes, Unlocked
    <3> QED BY <3>1, <3>2
  <2>3. PICK v : v = [q EXCEPT !.pc = "nodes", !.target = a, !.todo = b, !.response = c] OBVIOUS
  <2>4. v.pc \notin Walking BY <1>2, <2>3 DEF Shaped, Walking
  <2>5. CASE Become(p, v) BY <2>1, <2>4, <2>5 DEF Stands
  <2> QED BY <1>3, <2>1, <2>2, <2>3, <2>5, GotoStands
<1>6. CASE PublishNode(p)
  <2>1. history' = history /\ q.pc = "nodes" BY <1>1, <1>6 DEF PublishNode, publisherVars, At
  <2>2. PICK n : Become(p, [q EXCEPT !.todo = q.todo \ {n}]) BY <1>1, <1>6 DEF PublishNode
  <2>3. PICK v : v = [q EXCEPT !.todo = q.todo \ {n}] OBVIOUS
  <2>4. v.pc = q.pc BY <1>2, <2>3 DEF Shaped
  <2> QED BY <2>1, <2>2, <2>3, <2>4 DEF Stands, Walking
<1>7. CASE PublishHeadFile(p)
  <2>1. history' = history BY <1>7 DEF PublishHeadFile, publisherVars
  <2>2. Goto(p, "unlock") \/ Goto(p, "discard") \/ Goto(p, "prune")
    BY <1>7 DEF PublishHeadFile, Unlocked
  <2> QED BY <1>3, <2>1, <2>2, GotoStands
<1>8. CASE PruneOneShard(p)
  <2>1. history' = history /\ Goto(p, "unlock") BY <1>8 DEF PruneOneShard, publisherVars
  <2> QED BY <1>3, <2>1, GotoStands
<1> QED BY <1>4, <1>5, <1>6, <1>7, <1>8

\* The steps that begin afresh.
LEMMA AfreshStands ==
  ASSUME ClientInv, NEW p \in Syncs,
         ReleaseHeadLock(p) \/ DiscardHead(p) \/ Finish(p) \/ Die(p)
  PROVE  Stands(p)
<1>1. history' = history BY DEF ReleaseHeadLock, DiscardHead, Finish, Die, publisherVars
<1>2. PICK r : r = [Idle EXCEPT !.pc = "root", !.bulk = TRUE] OBVIOUS
<1>3. PICK d : d = [Idle EXCEPT !.pc = "root"] OBVIOUS
<1>4. r.pc = "root" /\ d.pc = "root" /\ Idle.pc = "idle" BY <1>2, <1>3 DEF Idle
<1>5. Become(p, r) \/ Become(p, d) \/ Become(p, Idle)
  BY <1>2, <1>3 DEF ReleaseHeadLock, DiscardHead, Finish, Die
<1> QED BY <1>1, <1>4, <1>5 DEF Stands, Walking

-----------------------------------------------------------------------------
(* The steps of a walk *)

LEMMA TreeOf ==
  ASSUME ClientInv, NEW i \in 1..Len(history) PROVE history[i] \in Trees
BY Begun, ElementOfSeq DEF CatalogInv

LEMMA LoadMakes ==
  ASSUME NEW p, NEW n, NEW v, history' = history, LoadCatalogNode(p, n, v)
  PROVE  Makes(p, v) \/ Makes(p, Failed)
BY DEF LoadCatalogNode, Makes

\* The page of the source is the fence.
LEMMA FencedInOrder ==
  ASSUME ClientInv, NEW s, Shaped(s), NEW n, s.from \in 1..Len(history),
         LeadsTo(history[s.from], Root, Source, n.id)
  PROVE  PlanInOrder(history, Fenced(s, n))
<1>1. PICK a : a = [id |-> n.id, root |-> n.root, revision |-> RevisionOf(n.id)] OBVIOUS
<1>2. PICK b : b = Pending(<< >>, n) OBVIOUS
<1>3. PICK c : c = Planned(<< >>, n) OBVIOUS
<1>4. PICK d : d = Idle.dir OBVIOUS
<1>5. PICK v : v = [s EXCEPT !.pc = "tree", !.fence = a, !.pending = b, !.plan = c,
                             !.names = << >>, !.dir = d]
  OBVIOUS
<1>6. Fenced(s, n) = v BY <1>1, <1>2, <1>3, <1>4, <1>5 DEF Fenced
<1>7. v.pc = "tree" /\ v.fence = a /\ v.pending = b /\ v.plan = c /\ v.from = s.from
  BY <1>5 DEF Shaped
<1>8. v.fence.id = n.id /\ v.fence.root = n.root BY <1>1, <1>7
<1>9. AtSource(history, v) BY <1>7, <1>8 DEF AtSource
<1>10. ASSUME NEW t \in Trees, Matches(t, v.fence) PROVE Walks(t, v.fence.id, v.pending, v.plan)
  <2>1. n.id \in Directories(t) /\ n.root = DataRoots(t)[n.id] BY <1>8, <1>10 DEF Matches
  <2>2. Walks(t, n.id, Pending(<< >>, n), Planned(<< >>, n)) BY <2>1, WalkStarts
  <2> QED BY <1>2, <1>3, <1>7, <1>8, <2>2
<1>11. WalksOn(v) BY <1>10 DEF WalksOn
<1> QED BY <1>6, <1>7, <1>9, <1>11 DEF PlanInOrder

LEMMA ReadRootKeeps ==
  ASSUME ClientInv, PlansInv, NEW p \in Syncs, ReadRoot(p) PROVE PlansInv'
<1>1. PICK q : q = sync[p] OBVIOUS
<1>2. PICK n : n = [id |-> Root, root |-> DataRoots(Now)[Root]] OBVIOUS
<1>3. PICK last : last = Len(history) OBVIOUS
<1>4. Shaped(q) /\ last \in 1..Len(history) BY <1>1, <1>3, Begun DEF InOrder
<1>5. Now = history[last] BY <1>3 DEF Now, MutationHead
<1>6. history' = history BY DEF ReadRoot, publisherVars
<1>7. Root \in Directories(Now) BY DEF Directories
<1>8. Below(Now, Root, << >>, Root, DataRoots(Now)[Root]) BY <1>7, EmptyWay
<1>9. CASE Source = << >>
  <2>1. PICK r : r = [q EXCEPT !.from = last] OBVIOUS
  <2>2. Shaped(r) /\ r.from = last BY <1>4, <2>1 DEF Shaped
  <2>3. LeadsTo(history[r.from], Root, Source, n.id) BY <1>2, <1>5, <1>8, <1>9, <2>2 DEF Below
  <2>4. PlanInOrder(history, Fenced(r, n)) BY <1>4, <2>2, <2>3, FencedInOrder
  <2>5. Makes(p, Fenced(r, n))
    BY <1>1, <1>2, <1>3, <1>6, <1>9, <2>1 DEF ReadRoot, Makes, MutationHead
  <2> QED BY <2>4, <2>5, MakesKeeps
<1>10. CASE Source # << >>
  <2>1. PICK v : v = [q EXCEPT !.pc = "walk", !.from = last, !.names = Source, !.dir = n] OBVIOUS
  <2>2. v.pc = "walk" /\ v.from = last /\ v.names = Source /\ v.dir = n
    BY <1>4, <2>1 DEF Shaped
  <2>3. Source \in Seq(STRING) BY ClientAssumption
  <2>4. Len(Source) > 0 /\ Len(Source) \in Nat BY <1>10, <2>3, EmptySeq
  <2>5. PICK k : k = 0 OBVIOUS
  <2>6. [i \in 1..k |-> Source[i]] = << >>
    <3>1. PICK g : g = [i \in 1..k |-> Source[i]] OBVIOUS
    <3>2. g \in [1..0 -> STRING] BY <2>5, <3>1
    <3>3. g \in Seq(STRING) /\ Len(g) = 0 BY <3>2
    <3> QED BY <3>1, <3>3, EmptySeq
  <2>7. Below(history[v.from], Root, [i \in 1..k |-> Source[i]], v.dir.id, v.dir.root)
    <3>1. history[v.from] = Now /\ v.dir.id = Root /\ v.dir.root = DataRoots(Now)[Root]
      BY <1>2, <1>5, <2>2
    <3> QED BY <1>8, <2>6, <3>1
  <2>8. \A i \in 1..Len(v.names) : v.names[i] = Source[k + i] BY <2>2, <2>4, <2>5
  <2>9. k \in Nat /\ Len(v.names) + k = Len(Source) BY <2>2, <2>4, <2>5
  <2>10. OnSource(history, v) BY <1>4, <2>2, <2>3, <2>4, <2>7, <2>8, <2>9 DEF OnSource
  <2>11. PlanInOrder(history, v) BY <2>2, <2>10 DEF PlanInOrder
  <2>12. Makes(p, v)
    BY <1>1, <1>2, <1>3, <1>6, <1>10, <2>1 DEF ReadRoot, Makes, MutationHead
  <2> QED BY <2>11, <2>12, MakesKeeps
<1> QED BY <1>9, <1>10

LEMMA WalkSourceKeeps ==
  ASSUME ClientInv, PlansInv, NEW p \in Syncs, WalkSource(p) PROVE PlansInv'
<1>1. PICK q : q = sync[p] OBVIOUS
<1>2. Shaped(q) /\ q.pc = "walk" BY <1>1, Begun DEF InOrder, WalkSource, At
<1>3. history' = history BY DEF WalkSource, publisherVars
<1>4. OnSource(history, q) BY <1>1, <1>2 DEF PlansInv, PlanInOrder
<1>5. PICK t \in Trees : t = history[q.from] BY <1>4, TreeOf DEF OnSource
<1>6. PICK k \in Nat :
        /\ Len(q.names) + k = Len(Source)
        /\ \A i \in 1..Len(q.names) : q.names[i] = Source[k + i]
        /\ Below(t, Root, [i \in 1..k |-> Source[i]], q.dir.id, q.dir.root)
  BY <1>4, <1>5 DEF OnSource
<1>7. q.from \in 1..Len(history) /\ q.names \in Seq(STRING) /\ Len(q.names) > 0
  BY <1>4 DEF OnSource
<1>8. PICK named : named = {e \in q.dir.root : e.name = Head(q.names) /\ IsDirectory(e)} OBVIOUS
<1>9. PICK e : e = CHOOSE x \in named : TRUE OBVIOUS
<1>10. PICK n : n = [id |-> e.id, root |-> e.root] OBVIOUS
<1>11. CASE named = {}
  <2>1. Makes(p, Failed) BY <1>1, <1>3, <1>8, <1>11 DEF WalkSource, Makes
  <2> QED BY <2>1, FailedKeeps
<1>12. ASSUME named # {}
       PROVE  Below(t, Root, [i \in 1..(k + 1) |-> Source[i]], n.id, n.root)
  <2>1. e \in named BY <1>9, <1>12
  <2>2. e \in q.dir.root /\ e.name = Head(q.names) /\ IsDirectory(e) BY <1>8, <2>1
  <2>3. PICK path : path = [i \in 1..k |-> Source[i]] OBVIOUS
  <2>4. Below(t, Root, Append(path, e.name), e.id, e.root) BY <1>6, <2>2, <2>3, Descend
  <2>5. e.name = Source[k + 1] /\ Head(q.names) = q.names[1] BY <1>6, <1>7, <2>2
  <2>6. Source \in Seq(STRING) BY ClientAssumption
  <2>7. k + 1 \in 1..Len(Source) /\ Len(q.names) \in Nat BY <1>6, <1>7, <2>6
  <2>8. PICK g : g = [i \in 1..(k + 1) |-> Source[i]] OBVIOUS
  <2>9. g \in [1..(k + 1) -> STRING] BY <2>6, <2>7, <2>8
  <2>10. path \in Seq(STRING) BY <1>6, <2>3 DEF Below
  <2>11. Len(path) = k BY <2>3, <2>10, LenProperties
  <2>12. g[k + 1] = e.name /\ \A i \in 1..k : g[i] = path[i] BY <2>3, <2>5, <2>8
  <2>13. e.name \in STRING BY <2>5, <2>6, <2>7
  <2>14. g = Append(path, e.name) BY <2>9, <2>10, <2>11, <2>12, <2>13, AppendName
  <2> QED BY <1>10, <2>4, <2>8, <2>14
<1>13. CASE named # {} /\ Len(q.names) > 1
  <2>1. PICK v : v = [q EXCEPT !.dir = n, !.names = Tail(q.names)] OBVIOUS
  <2>2. LoadCatalogNode(p, n, v) BY <1>1, <1>8, <1>9, <1>10, <1>13, <2>1 DEF WalkSource
  <2>3. v.pc = "walk" /\ v.dir = n /\ v.names = Tail(q.names) /\ v.from = q.from
    BY <1>2, <2>1 DEF Shaped
  <2>4. /\ Tail(q.names) \in Seq(STRING) /\ Len(Tail(q.names)) = Len(q.names) - 1
        /\ \A i \in 1..Len(Tail(q.names)) : Tail(q.names)[i] = q.names[i + 1]
    <3>1. q.names # << >> BY <1>13, EmptySeq
    <3> QED BY <1>7, <3>1, HeadTailProperties
  <2>5. PICK j \in Nat : j = k + 1 OBVIOUS
  <2>6. Len(q.names) \in Nat BY <1>7
  <2>7. Len(v.names) > 0 /\ Len(v.names) + j = Len(Source)
    <3>1. PICK a \in Nat : a = Len(q.names) BY <2>6
    <3>2. Len(v.names) = a - 1 /\ a > 1 BY <1>13, <2>3, <2>4, <3>1
    <3>3. Len(Source) = a + k BY <1>6, <3>1
    <3>4. (a - 1) + j = a + k BY <2>5
    <3> QED BY <3>2, <3>3, <3>4
  <2>8. ASSUME NEW i \in 1..Len(v.names) PROVE v.names[i] = Source[j + i]
    <3>1. i + 1 \in 1..Len(q.names) BY <2>3, <2>4, <2>6
    <3>2. v.names[i] = q.names[i + 1] BY <2>3, <2>4
    <3>3. q.names[i + 1] = Source[k + (i + 1)] BY <1>6, <3>1
    <3>4. k + (i + 1) = j + i BY <2>5, <2>6, <2>4, <2>3
    <3> QED BY <3>2, <3>3, <3>4
  <2>9. Below(history[v.from], Root, [i \in 1..j |-> Source[i]], v.dir.id, v.dir.root)
    BY <1>5, <1>12, <1>13, <2>3, <2>5
  <2>10. OnSource(history, v) BY <1>7, <2>3, <2>4, <2>7, <2>8, <2>9 DEF OnSource
  <2>11. PlanInOrder(history, v) BY <2>3, <2>10 DEF PlanInOrder
  <2>12. Makes(p, v) \/ Makes(p, Failed) BY <1>3, <2>2, LoadMakes
  <2> QED BY <2>11, <2>12, MakesKeeps, FailedKeeps
<1>14. CASE named # {} /\ ~(Len(q.names) > 1)
  <2>1. Makes(p, Fenced(q, n)) \/ Makes(p, Failed)
    BY <1>1, <1>3, <1>8, <1>9, <1>10, <1>14 DEF WalkSource, Makes
  <2>2. Source \in Seq(STRING) /\ Len(Source) \in Nat /\ Len(q.names) \in Nat
    BY <1>7, ClientAssumption
  <2>3. k + 1 = Len(Source) BY <1>6, <1>7, <1>14, <2>2
  <2>4. [i \in 1..(k + 1) |-> Source[i]] = Source BY <2>2, <2>3, LenProperties
  <2>5. LeadsTo(history[q.from], Root, Source, n.id) BY <1>5, <1>12, <1>14, <2>4 DEF Below
  <2>6. PlanInOrder(history, Fenced(q, n)) BY <1>2, <1>7, <2>5, FencedInOrder
  <2> QED BY <2>1, <2>6, MakesKeeps, FailedKeeps
<1> QED BY <1>11, <1>13, <1>14

LEMMA LoadPendingKeeps ==
  ASSUME ClientInv, PlansInv, NEW p \in Syncs, LoadPending(p) PROVE PlansInv'
<1>1. PICK q : q = sync[p] OBVIOUS
<1>2. history' = history BY DEF LoadPending, publisherVars
<1>3. Shaped(q) /\ q.pc = "tree" BY <1>1, Begun DEF InOrder, LoadPending, At
<1>4. PICK x \in q.pending :
        LoadCatalogNode(p, [id |-> x.id, root |-> x.root],
          [q EXCEPT !.pending = (q.pending \ {x}) \cup Pending(x.path, [id |-> x.id, root |-> x.root]),
                    !.plan = q.plan \cup Planned(x.path, [id |-> x.id, root |-> x.root])])
  BY <1>1 DEF LoadPending
<1>5. PICK n : n = [id |-> x.id, root |-> x.root] OBVIOUS
<1>6. PICK b : b = (q.pending \ {x}) \cup Pending(x.path, n) OBVIOUS
<1>7. PICK c : c = q.plan \cup Planned(x.path, n) OBVIOUS
<1>8. PICK v : v = [q EXCEPT !.pending = b, !.plan = c] OBVIOUS
<1>9. LoadCatalogNode(p, n, v) BY <1>4, <1>5, <1>6, <1>7, <1>8
<1>10. v.pc = "tree" /\ v.fence = q.fence /\ v.from = q.from /\ v.pending = b /\ v.plan = c
  BY <1>3, <1>8 DEF Shaped
<1>11. AtSource(history, q) /\ WalksOn(q) BY <1>1, <1>3 DEF PlansInv, PlanInOrder
<1>12. ASSUME NEW t \in Trees, Matches(t, v.fence) PROVE Walks(t, v.fence.id, v.pending, v.plan)
  <2>1. Walks(t, q.fence.id, q.pending, q.plan) BY <1>10, <1>11, <1>12 DEF WalksOn
  <2>2. n.root = x.root BY <1>5
  <2>3. Walks(t, q.fence.id, b, c) BY <1>6, <1>7, <2>1, <2>2, WalkLoads
  <2> QED BY <1>10, <2>3
<1>13. WalksOn(v) BY <1>12 DEF WalksOn
<1>14. AtSource(history, v) BY <1>10, <1>11 DEF AtSource
<1>15. PlanInOrder(history, v) BY <1>10, <1>13, <1>14 DEF PlanInOrder
<1>16. Makes(p, v) \/ Makes(p, Failed) BY <1>2, <1>9, LoadMakes
<1> QED BY <1>15, <1>16, MakesKeeps, FailedKeeps

LEMMA FinalFenceKeeps ==
  ASSUME ClientInv, PlansInv, NEW p \in Syncs, FinalFence(p) PROVE PlansInv'
<1>1. PICK q : q = sync[p] OBVIOUS
<1>2. history' = history BY DEF FinalFence, publisherVars
<1>3. Shaped(q) /\ q.pc = "tree" /\ q.pending = {}
  BY <1>1, Begun DEF InOrder, FinalFence, At
<1>4. PICK last : last = Len(history) OBVIOUS
<1>5. PICK v : v = [q EXCEPT !.pc = "planned", !.at = last] OBVIOUS
<1>6. \/ Makes(p, v) /\ PageMatches(q.fence)
      \/ Makes(p, Failed)
  BY <1>1, <1>2, <1>4, <1>5 DEF FinalFence, Makes, MutationHead
<1>7. /\ v.pc = "planned" /\ v.at = last /\ v.fence = q.fence /\ v.from = q.from
      /\ v.pending = q.pending /\ v.plan = q.plan
  BY <1>3, <1>5 DEF Shaped
<1>8. AtSource(history, q) /\ WalksOn(q) BY <1>1, <1>3 DEF PlansInv, PlanInOrder
<1>9. AtSource(history, v) /\ WalksOn(v) BY <1>7, <1>8 DEF AtSource, WalksOn
<1>10. last \in 1..Len(history) BY <1>4, Begun
<1>11. CASE Makes(p, v) /\ PageMatches(q.fence)
  <2>1. Matches(history[v.at], v.fence)
    BY <1>4, <1>7, <1>11 DEF PageMatches, Matches, Now, MutationHead
  <2>2. PlanInOrder(history, v) BY <1>3, <1>7, <1>9, <1>10, <2>1 DEF PlanInOrder
  <2> QED BY <1>11, <2>2, MakesKeeps
<1> QED BY <1>6, <1>11, FailedKeeps

-----------------------------------------------------------------------------
(* The theorem *)

LEMMA HistoryContinues ==
  ASSUME ClientInv, PublisherNext PROVE Continues(history, history')
<1>1. history \in Seq(Trees) /\ Len(history) \in Nat BY Begun DEF CatalogInv
<1>2. CASE Mutate
  <2>1. PICK t \in Trees : history' = Append(history, t) BY <1>2 DEF Mutate
  <2> QED BY <1>1, <2>1 DEF Continues
<1>3. CASE history' = history BY <1>1, <1>3 DEF Continues
<1> QED BY <1>2, <1>3
  DEF PublisherNext, StoreCheckpoint, DropCheckpoint, PublishHead, LateDelta, LoseDelta

LEMMA PlansElsewhere ==
  ASSUME PlansInv, sync' = sync, Continues(history, history') PROVE PlansInv'
<1>1. ASSUME NEW p \in Syncs PROVE PlanInOrder(history', sync'[p])
  BY PlanKept DEF PlansInv
<1> QED BY <1>1 DEF PlansInv

LEMMA PlansNext == ASSUME ClientInv, PlansInv, ClientNext PROVE PlansInv'
<1>1. Continues(history, history) BY Begun DEF Continues
<1>2. CASE Published
  BY <1>2, HistoryContinues, PlansElsewhere DEF Published
<1>3. CASE DamageHead \/ \E n \in nodes \ damaged : DamageNode(n)
  <2>1. sync' = sync /\ history' = history BY <1>3 DEF DamageHead, DamageNode, publisherVars
  <2> QED BY <1>1, <2>1, PlansElsewhere
<1>4. ASSUME NEW p \in Syncs, SyncStep(p) PROVE PlansInv'
  <2>1. CASE CheckpointCondition(p) \/ Deliver(p) \/ LoseResponse(p) \/ Receive(p)
    BY <2>1, RequestStands, StandsKeeps
  <2>2. CASE AcquireHeadLock(p) \/ ChooseNodes(p) \/ PublishNode(p) \/ PublishHeadFile(p) \/ PruneOneShard(p)
    BY <2>2, PublicationStands, StandsKeeps
  <2>3. CASE ReleaseHeadLock(p) \/ DiscardHead(p) \/ Finish(p) \/ Die(p)
    BY <2>3, AfreshStands, StandsKeeps
  <2>4. CASE ReadRoot(p) BY <2>4, ReadRootKeeps
  <2>5. CASE WalkSource(p) BY <2>5, WalkSourceKeeps
  <2>6. CASE LoadPending(p) BY <2>6, LoadPendingKeeps
  <2>7. CASE FinalFence(p) BY <2>7, FinalFenceKeeps
  <2> QED BY <1>4, <2>1, <2>2, <2>3, <2>4, <2>5, <2>6, <2>7 DEF SyncStep
<1> QED BY <1>2, <1>3, <1>4 DEF ClientNext

\* PlanIsSnapshot: a plan that is handed over is exactly the subtree of the
\* source at one revision, whichever of its nodes came from the store of the
\* token and whichever from live pages, and whatever was published, damaged or
\* pruned while it was assembled.
THEOREM PlansAreSnapshots == ClientSpec => []PlanIsSnapshot
<1>1. ClientInit => PlansInv
  <2>1. Idle.pc \notin Walking BY DEF Idle, Walking
  <2> QED BY <2>1, NotWalking DEF ClientInit, PlansInv
<1>2. ClientInv /\ PlansInv /\ [ClientNext]_clientVars => PlansInv'
  <2>1. ASSUME ClientInv, PlansInv, UNCHANGED clientVars PROVE PlansInv'
    <3>1. sync' = sync /\ history' = history BY <2>1 DEF clientVars, publisherVars
    <3>2. Continues(history, history) BY <2>1, Begun DEF Continues
    <3> QED BY <2>1, <3>1, <3>2, PlansElsewhere
  <2> QED BY <2>1, PlansNext
<1>3. ASSUME ClientInv, PlansInv PROVE PlanIsSnapshot
  <2>1. ASSUME NEW p \in Syncs, At(p, "planned")
        PROVE  /\ sync[p].fence.id \in Directories(history[sync[p].at])
               /\ sync[p].plan = FilesBelow(history[sync[p].at], sync[p].fence.id)
               /\ LeadsTo(history[sync[p].from], Root, Source, sync[p].fence.id)
    <3>1. PICK q : q = sync[p] OBVIOUS
    <3>2. q.pc = "planned" /\ PlanInOrder(history, q) BY <1>3, <2>1, <3>1 DEF At, PlansInv
    <3>3. /\ AtSource(history, q) /\ WalksOn(q) /\ q.pending = {} /\ q.at \in 1..Len(history)
          /\ Matches(history[q.at], q.fence)
      BY <3>2 DEF PlanInOrder
    <3>4. PICK t \in Trees : t = history[q.at] BY <1>3, <3>3, TreeOf
    <3>5. q.fence.id \in Directories(t) BY <3>3, <3>4 DEF Matches
    <3>6. Walks(t, q.fence.id, {}, q.plan) BY <3>3, <3>4 DEF WalksOn
    <3>7. q.plan = FilesBelow(t, q.fence.id) BY <3>5, <3>6, WalkEnds
    <3> QED BY <3>1, <3>3, <3>4, <3>5, <3>7 DEF AtSource
  <2> QED BY <2>1 DEF PlanIsSnapshot
<1> QED BY <1>1, <1>2, <1>3, ClientStaysInOrder, PTL DEF ClientSpec
=============================================================================
