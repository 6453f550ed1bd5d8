---------------------------- MODULE Download_proofs ----------------------------
(***************************************************************************)
(* Proofs about the two ends of a download.                                *)
(*                                                                         *)
(* The server's end, VfsServerLifecycle: an object that a download reads   *)
(* stays readable; for any number of locations, reads and overlapping cron *)
(* runs, any retention, grace, lease and delay, and a driver that changes  *)
(* as often as it likes.                                                   *)
(*                                                                         *)
(* The client's end, SyncToLocal: what is read ends in the directory of    *)
(* the user as the source had it; for any number of files, syncs and       *)
(* destinations, and any number of edits, failures and kills.              *)
(***************************************************************************)
EXTENDS VfsServerLifecycle, SyncToLocal, TLAPS, SequenceTheorems

-----------------------------------------------------------------------------
(***************************************************************************)
(* The server's end: VfsServerLifecycle                                    *)
(***************************************************************************)

-----------------------------------------------------------------------------
(* Type correctness *)

\* TypeOK by table, for the actions that change only one.
NamespaceOK ==
  /\ clock \in Nat
  /\ pinned \in [Locations -> BOOLEAN]
  /\ version \in [Locations -> {"published", "tombstoned"}]
  /\ location \in [Locations -> LocationRows]
  /\ object \in [Locations -> BOOLEAN]
  /\ driver \in [enabled : BOOLEAN, revision : Nat, local : BOOLEAN]
ReadsOK ==
  /\ read \in [Reads -> ReadRows]
  /\ \A d \in Reads : read[d].state # "none" => read[d].location \in Locations
TasksOK ==
  /\ task \in [Locations -> TaskRows]
  /\ \A l \in Locations : (task[l].state = "claimed") <=> (task[l].lease > 0)
RunsOK ==
  /\ run \in [Runs -> RunRows]
  /\ \A r \in Runs : /\ run[r].pc \in Acting => run[r].id \in Locations
                     /\ run[r].now <= clock

LEMMA TypeParts == TypeOK <=> NamespaceOK /\ ReadsOK /\ TasksOK /\ RunsOK
BY DEF TypeOK, NamespaceOK, ReadsOK, TasksOK, RunsOK

LEMMA TypePartsAfter ==
  ASSUME NamespaceOK', ReadsOK', TasksOK', RunsOK' PROVE TypeOK'
BY DEF TypeOK, NamespaceOK, ReadsOK, TasksOK, RunsOK

LEMMA NoRunRow == NoRun \in RunRows /\ NoRun.pc \notin Acting /\ NoRun.now = 0
BY DEF NoRun, Run, RunRows, Errors, Acting

LEMMA TypeInit == Init => TypeOK
<1> SUFFICES ASSUME Init PROVE TypeOK
  OBVIOUS
<1>1. LocationRow("available", 1, 0) \in LocationRows
  BY DEF LocationRow, LocationRows
<1>2. NoTask \in TaskRows /\ NoTask.state = "none" /\ NoTask.lease = 0
  BY DEF NoTask, TaskRow, TaskRows, Errors
<1>3. NoRead \in ReadRows /\ NoRead.state = "none"
  BY DEF NoRead, Read, ReadRows
<1> driver \in [enabled : BOOLEAN, revision : Nat, local : BOOLEAN]
  <2>1. driver \in [enabled : {TRUE}, revision : {1}, local : BOOLEAN]
    BY DEF Init
  <2>2. driver = [enabled |-> driver.enabled, revision |-> driver.revision,
                  local |-> driver.local]
    BY <2>1
  <2>3. driver.enabled \in {TRUE}
    BY <2>1
  <2>4. driver.enabled \in BOOLEAN
    BY <2>3, Zenon
  <2>5. driver.revision \in Nat /\ driver.local \in BOOLEAN
    BY <2>1
  <2> QED
    BY <2>2, <2>4, <2>5
<1>4. NamespaceOK /\ ReadsOK
  BY <1>1, <1>3 DEF Init, NamespaceOK, ReadsOK
<1>5. TasksOK /\ RunsOK
  BY <1>2, NoRunRow DEF Init, TasksOK, RunsOK
<1> QED
  BY <1>4, <1>5, TypeParts

\* The record of one run is replaced by one that acts on a known location.
LEMMA OneRun ==
  ASSUME RunsOK, NEW r \in Runs, NEW x \in RunRows, clock' = clock,
         x.pc \in Acting => x.id \in Locations, x.now <= clock,
         run' = [run EXCEPT ![r] = x]
  PROVE RunsOK'
BY DEF RunsOK

\* A row that a run writes into the table of tasks.
LEMMA OneTask ==
  ASSUME TasksOK, NEW l \in Locations, NEW t \in TaskRows,
         (t.state = "claimed") <=> (t.lease > 0), task' = [task EXCEPT ![l] = t]
  PROVE TasksOK'
BY DEF TasksOK

LEMMA TypeNamespace ==
  ASSUME TypeOK, Tick \/ (\E l \in Locations : Replace(l) \/ Remove(l))
                      \/ (\E enabled \in BOOLEAN : ChangeDriver(enabled))
  PROVE TypeOK'
<1> NamespaceOK /\ ReadsOK /\ TasksOK /\ RunsOK
  BY TypeParts
<1> USE TypePartsAfter
<1>1. CASE Tick
  BY <1>1 DEF Tick, namespace, NamespaceOK, ReadsOK, TasksOK, RunsOK, RunRows
<1>2. CASE \E l \in Locations : Replace(l)
  BY <1>2 DEF Replace, namespace, NamespaceOK, ReadsOK, TasksOK, RunsOK
<1>3. ASSUME NEW l \in Locations, Remove(l) PROVE TypeOK'
  <2>1. LocationRow("tombstoned", location[l].revision + 1, clock + Grace)
          \in LocationRows
    BY TimeAssumption DEF NamespaceOK, LocationRow, LocationRows
  <2>2. NamespaceOK'
    BY <1>3, <2>1 DEF Remove, NamespaceOK
  <2> QED
    BY <1>3, <2>2 DEF Remove, ReadsOK, TasksOK, RunsOK
<1>4. CASE \E enabled \in BOOLEAN : ChangeDriver(enabled)
  <2> PICK enabled \in BOOLEAN : ChangeDriver(enabled)
    BY <1>4
  <2>1. driver' \in [enabled : BOOLEAN, revision : Nat, local : BOOLEAN]
    <3>1. driver' = [enabled |-> enabled, revision |-> driver.revision + 1,
                     local |-> driver.local]
      BY DEF ChangeDriver, NamespaceOK
    <3>2. driver.revision + 1 \in Nat /\ driver.local \in BOOLEAN
      BY DEF NamespaceOK
    <3> QED
      BY <3>1, <3>2
  <2> QED
    BY <2>1 DEF ChangeDriver, namespace, NamespaceOK, ReadsOK, TasksOK, RunsOK
<1> QED
  BY <1>1, <1>2, <1>3, <1>4

LEMMA TypeRead ==
  ASSUME TypeOK, NEW d \in Reads,
         \/ \E l \in Locations, e \in 1 .. MaxTime : PlanDownload(d, l, e)
         \/ GrantLease(d) \/ CompleteRead(d)
  PROVE TypeOK'
<1> NamespaceOK /\ ReadsOK /\ TasksOK /\ RunsOK
  BY TypeParts
<1> USE TypePartsAfter
<1>1. CASE \E l \in Locations, e \in 1 .. MaxTime : PlanDownload(d, l, e)
  <2> PICK l \in Locations, e \in 1 .. MaxTime : PlanDownload(d, l, e)
    BY <1>1
  <2>1. Read("loaded", l, e) \in ReadRows /\ Read("loaded", l, e).location = l
    BY TimeAssumption DEF Read, ReadRows
  <2>2. ReadsOK'
    BY <2>1 DEF PlanDownload, ReadsOK
  <2> QED
    BY <2>2 DEF PlanDownload, namespace, NamespaceOK, TasksOK, RunsOK
<1>2. CASE GrantLease(d) \/ CompleteRead(d)
  <2>1. read[d] \in ReadRows /\ read[d].location \in Locations
    BY <1>2 DEF ReadsOK, GrantLease, CompleteRead
  <2>2. PICK state \in {"leased", "done"} :
          read' = [read EXCEPT ![d] = Read(state, @.location, @.expires)]
    BY <1>2 DEF GrantLease, CompleteRead
  <2>3. LET x == Read(state, read[d].location, read[d].expires)
        IN  x \in ReadRows /\ x.location \in Locations
    BY <2>1 DEF Read, ReadRows
  <2>4. ReadsOK'
    BY <2>2, <2>3 DEF ReadsOK
  <2> QED
    BY <1>2, <2>4
       DEF GrantLease, CompleteRead, namespace, NamespaceOK, TasksOK, RunsOK
<1> QED
  BY <1>1, <1>2

\* The steps of a run that leave the database alone.
LEMMA TypeRunAlone ==
  ASSUME TypeOK, NEW r \in Runs,
         StartRun(r) \/ LoseRun(r) \/ SelectTask(r) \/ LoadFence(r) \/ LoadTask(r)
  PROVE TypeOK'
<1> NamespaceOK /\ ReadsOK /\ TasksOK /\ RunsOK
  BY TypeParts
<1> USE TypePartsAfter, NoRunRow
<1>1. run[r] \in RunRows /\ run[r].now <= clock /\ 0 <= clock
  BY DEF RunsOK, NamespaceOK
<1>2. CASE StartRun(r)
  <2>1. LET x == Run("mark", clock, None, 0, 0, "none")
        IN  x \in RunRows /\ x.pc \notin Acting /\ x.now <= clock
    BY DEF Run, RunRows, Errors, Acting, NamespaceOK
  <2> QED
    BY <1>2, <2>1, OneRun
       DEF StartRun, namespace, NamespaceOK, ReadsOK, TasksOK
<1>3. CASE LoseRun(r)
  <2>1. RunsOK'
    BY <1>1, <1>3, OneRun DEF LoseRun
  <2> QED
    BY <1>3, <2>1 DEF LoseRun, namespace, NamespaceOK, ReadsOK, TasksOK
<1>4. CASE SelectTask(r)
  <2>1. ASSUME NEW l \in Locations
        PROVE LET x == Run("claim", run[r].now, l, 0, 0, "none")
              IN  x \in RunRows /\ x.id = l /\ x.now <= clock
    BY <1>1 DEF Run, RunRows, Errors, Acting
  <2>2. Candidates(run[r].now) \subseteq Locations
    BY DEF Candidates
  <2>3. ASSUME run' = [run EXCEPT ![r] = NoRun] PROVE RunsOK'
    BY <1>1, <1>4, <2>3, OneRun DEF SelectTask
  <2>4. ASSUME NEW l \in Candidates(run[r].now),
               run' = [run EXCEPT ![r] = Run("claim", @.now, l, 0, 0, "none")]
        PROVE RunsOK'
    <3> DEFINE x == Run("claim", run[r].now, l, 0, 0, "none")
    <3>1. x \in RunRows /\ x.id \in Locations /\ x.now <= clock
      BY <2>1, <2>2
    <3>2. run' = [run EXCEPT ![r] = x] /\ clock' = clock
      BY <1>4, <2>4 DEF SelectTask
    <3> QED
      BY <3>1, <3>2, OneRun
  <2>5. RunsOK'
    BY <1>4, <2>3, <2>4 DEF SelectTask
  <2> QED
    BY <1>4, <2>5 DEF SelectTask, namespace, NamespaceOK, ReadsOK, TasksOK
<1>5. CASE LoadFence(r) \/ LoadTask(r)
  <2>1. run[r].id \in Locations
    BY <1>5 DEF RunsOK, Acting, LoadFence, LoadTask
  <2>2. task[run[r].id].fence \in Nat /\ task[run[r].id].expected \in Nat
    BY <2>1 DEF TasksOK, TaskRows
  <2>3. ASSUME NEW pc \in {"load", "fail", "provider"}, NEW fence \in Nat,
               NEW expected \in Nat,
               NEW outcome \in {"none", "revalidation_failed", "local_driver"}
        PROVE LET x == Run(pc, run[r].now, run[r].id, fence, expected, outcome)
              IN  x \in RunRows /\ x.id \in Locations /\ x.now <= clock
    BY <1>1, <2>1 DEF Run, RunRows, Errors, Acting
  <2>4. run[r].fence \in Nat
    BY <1>1 DEF RunRows
  <2>5. CASE LoadFence(r)
    <3> DEFINE t == task[run[r].id]
               x == IF t.state = "claimed" /\ t.lease > run[r].now
                      THEN Run("load", run[r].now, run[r].id, t.fence, 0, "none")
                      ELSE NoRun
    <3>2. x \in RunRows /\ (x.pc \in Acting => x.id \in Locations) /\ x.now <= clock
      BY <1>1, <2>2, <2>3
    <3>3. run' = [run EXCEPT ![r] = x] /\ clock' = clock
      BY <2>5 DEF LoadFence
    <3>1. RunsOK'
      BY <3>2, <3>3, OneRun
    <3> QED
      BY <2>5, <3>1 DEF LoadFence, namespace, NamespaceOK, ReadsOK, TasksOK
  <2>6. CASE LoadTask(r)
    <3> DEFINE l == run[r].id
               x == IF ~Revalidated(r)
                      THEN Run("fail", run[r].now, l, run[r].fence, 0,
                               "revalidation_failed")
                    ELSE IF driver.local
                      THEN Run("fail", run[r].now, l, task[l].fence,
                               task[l].expected, "local_driver")
                    ELSE Run("provider", run[r].now, l, task[l].fence,
                             task[l].expected, "none")
    <3>2. x \in RunRows /\ x.id \in Locations /\ x.now <= clock
      <4>1. CASE ~Revalidated(r)
        BY <2>3, <2>4, <4>1
      <4>2. CASE Revalidated(r) /\ driver.local
        BY <2>2, <2>3, <4>2
      <4>3. CASE Revalidated(r) /\ ~driver.local
        BY <2>2, <2>3, <4>3
      <4> QED
        BY <4>1, <4>2, <4>3
    <3>3. run' = [run EXCEPT ![r] = x] /\ clock' = clock
      BY <2>6 DEF LoadTask
    <3>1. RunsOK'
      BY <3>2, <3>3, OneRun
    <3> QED
      BY <2>6, <3>1 DEF LoadTask, namespace, NamespaceOK, ReadsOK, TasksOK
  <2> QED
    BY <1>5, <2>5, <2>6
<1> QED
  BY <1>2, <1>3, <1>4, <1>5

\* The steps of a run that write tasks, locations or the provider.
LEMMA TypeRunWrites ==
  ASSUME TypeOK, NEW r \in Runs,
         \/ Mark(r) \/ CreateTasks(r) \/ ClaimTask(r) \/ DeleteObject(r)
         \/ CompleteTask(r) \/ FailTask(r)
  PROVE TypeOK'
<1> NamespaceOK /\ ReadsOK /\ TasksOK /\ RunsOK
  BY TypeParts
<1> USE TypePartsAfter, NoRunRow
<1>1. run[r] \in RunRows /\ run[r].now <= clock /\ 0 <= clock
  BY DEF RunsOK, NamespaceOK
<1>2. ASSUME NEW pc \in {"create", "select", "fence"},
             pc = "fence" => run[r].id \in Locations,
             run' = [run EXCEPT ![r] = Goto(r, pc)], clock' = clock
      PROVE RunsOK'
  <2>1. /\ Goto(r, pc) \in RunRows
        /\ Goto(r, pc).pc \in Acting => Goto(r, pc).id \in Locations
        /\ Goto(r, pc).now <= clock
    BY <1>1, <1>2 DEF Goto, Run, RunRows, Acting
  <2> QED
    BY <1>2, <2>1, OneRun
<1>3. CASE Mark(r)
  <2> PICK S \in SUBSET Locations :
        location' = [l \in Locations |->
          IF l \in S
            THEN LocationRow("tombstoned", location[l].revision + 1,
                             run[r].now + Grace)
            ELSE location[l]]
    BY <1>3 DEF Mark, Limited, Unreachable
  <2>1. ASSUME NEW l \in Locations
        PROVE LocationRow("tombstoned", location[l].revision + 1, run[r].now + Grace)
                \in LocationRows
    BY <1>1, TimeAssumption DEF NamespaceOK, LocationRow, LocationRows, RunRows
  <2>2. location' \in [Locations -> LocationRows]
    BY <2>1 DEF NamespaceOK
  <2>3. RunsOK'
    BY <1>2, <1>3 DEF Mark
  <2> QED
    BY <1>3, <2>2, <2>3 DEF Mark, namespace, NamespaceOK, ReadsOK, TasksOK
<1>4. CASE CreateTasks(r)
  <2> PICK S \in SUBSET Locations :
        task' = [l \in Locations |-> IF l \in S THEN NewTask(r, l) ELSE task[l]]
    BY <1>4 DEF CreateTasks, Limited
  <2>1. ASSUME NEW l \in Locations
        PROVE NewTask(r, l) \in TaskRows /\ NewTask(r, l).state = "pending"
                /\ NewTask(r, l).lease = 0
    BY DEF NamespaceOK, LocationRows, NewTask, TaskRow, TaskRows, Errors
  <2>2. TasksOK'
    BY <2>1 DEF TasksOK
  <2>3. RunsOK'
    BY <1>2, <1>4 DEF CreateTasks
  <2> QED
    BY <1>4, <2>2, <2>3 DEF CreateTasks, namespace, NamespaceOK, ReadsOK
<1> DEFINE l == run[r].id
<1>5. CASE ClaimTask(r)
  <2>1. l \in Locations
    BY <1>5 DEF ClaimTask, RunsOK, Acting
  <2> DEFINE t == TaskRow("claimed", task[l].expected, task[l].driverRevision,
                          task[l].deleteAfter, task[l].fence + 1,
                          run[r].now + Claim, 0, "none")
  <2>2. t \in TaskRows /\ t.state = "claimed" /\ t.lease > 0
    BY <1>1, <2>1, TimeAssumption DEF TasksOK, TaskRow, TaskRows, RunRows, Errors
  <2>3. CASE Due(l, run[r].now)
    <3>1. task' = [task EXCEPT ![l] = t] /\ run' = [run EXCEPT ![r] = Goto(r, "fence")]
            /\ clock' = clock
      BY <1>5, <2>3 DEF ClaimTask
    <3>2. TasksOK'
      BY <2>1, <2>2, <3>1, OneTask
    <3>3. RunsOK'
      BY <1>2, <2>1, <3>1
    <3> QED
      BY <1>5, <3>2, <3>3 DEF ClaimTask, namespace, NamespaceOK, ReadsOK
  <2>4. CASE ~Due(l, run[r].now)
    <3>1. task' = task /\ run' = [run EXCEPT ![r] = NoRun] /\ clock' = clock
      BY <1>5, <2>4 DEF ClaimTask
    <3>2. RunsOK'
      BY <1>1, <3>1, OneRun
    <3> QED
      BY <1>5, <3>1, <3>2 DEF ClaimTask, namespace, NamespaceOK, ReadsOK, TasksOK
  <2> QED
    BY <2>3, <2>4
<1>6. CASE DeleteObject(r)
  <2>1. l \in Locations
    BY <1>6 DEF DeleteObject, RunsOK, Acting
  <2> PICK outcome \in {"ok", "blocked", "retry"}, gone \in BOOLEAN :
        /\ object' = [object EXCEPT ![l] = @ /\ ~gone]
        /\ run' = [run EXCEPT ![r] = Run(AfterProvider(outcome), @.now, l, @.fence,
                                        @.expected, outcome)]
    BY <1>6 DEF DeleteObject
  <2> DEFINE x == Run(AfterProvider(outcome), run[r].now, l, run[r].fence,
                      run[r].expected, outcome)
  <2>2. x \in RunRows /\ x.id \in Locations /\ x.now <= clock
    BY <1>1, <2>1 DEF Run, RunRows, Errors, Acting, AfterProvider
  <2>3. RunsOK'
    BY <1>6, <2>2, OneRun DEF DeleteObject
  <2>4. object' \in [Locations -> BOOLEAN]
    BY DEF NamespaceOK
  <2> QED
    BY <1>6, <2>3, <2>4 DEF DeleteObject, namespace, NamespaceOK, ReadsOK, TasksOK
<1>7. CASE CompleteTask(r)
  <2>1. l \in Locations
    BY <1>7 DEF CompleteTask, RunsOK, Acting
  <2>2. CASE MayComplete(r)
    <3> DEFINE x == LocationRow("deleted", location[l].revision + 1,
                                location[l].deleteAfter)
               s == Settled(task[l], "deleted", 0, "none")
    <3>1. x \in LocationRows
      BY <2>1 DEF NamespaceOK, LocationRow, LocationRows
    <3>2. s \in TaskRows /\ (s.state = "claimed" <=> s.lease > 0)
      <4>1. task[l] \in TaskRows /\ "none" \in Errors
        BY <2>1 DEF TasksOK, Errors
      <4> QED
        BY <4>1 DEF Settled, TaskRow, TaskRows
    <3>3. /\ location' = [location EXCEPT ![l] = x]
          /\ task' = [task EXCEPT ![l] = s]
          /\ run' = [run EXCEPT ![r] = NoRun] /\ clock' = clock
      BY <1>7, <2>2 DEF CompleteTask
    <3>4. RunsOK'
      BY <1>1, <3>3, OneRun
    <3>5. TasksOK'
      BY <2>1, <3>2, <3>3, OneTask
    <3> QED
      BY <1>7, <2>1, <3>1, <3>3, <3>4, <3>5
         DEF CompleteTask, namespace, NamespaceOK, ReadsOK
  <2>3. CASE ~MayComplete(r)
    <3> DEFINE x == Run("fail", run[r].now, l, run[r].fence, run[r].expected,
                        "completion_fence_changed")
    <3>1. x \in RunRows /\ x.id \in Locations /\ x.now <= clock
      BY <1>1, <2>1 DEF Run, RunRows, Errors, Acting
    <3>2. run' = [run EXCEPT ![r] = x] /\ clock' = clock /\ UNCHANGED <<location, task>>
      BY <1>7, <2>3 DEF CompleteTask
    <3>3. RunsOK'
      BY <3>1, <3>2, OneRun
    <3> QED
      BY <1>7, <3>2, <3>3 DEF CompleteTask, namespace, NamespaceOK, ReadsOK, TasksOK
  <2> QED
    BY <2>2, <2>3
<1>8. CASE FailTask(r)
  <2>1. l \in Locations
    BY <1>8 DEF FailTask, RunsOK, Acting
  <2> DEFINE state == IF run[r].outcome = "retry" THEN "retry" ELSE "blocked"
             retry == IF state = "retry" THEN run[r].now + Delay ELSE 0
             s == Settled(task[l], state, retry, run[r].outcome)
             held == task[l].state = "claimed" /\ task[l].fence = run[r].fence
  <2>2. state \in {"retry", "blocked"} /\ retry \in Nat /\ run[r].outcome \in Errors
    BY <1>1, TimeAssumption DEF RunRows
  <2>3. task[l] \in TaskRows
    BY <2>1 DEF TasksOK
  <2>4. s \in TaskRows /\ s.state = state /\ s.lease = 0
    BY <2>2, <2>3 DEF Settled, TaskRow, TaskRows
  <2>5. task' = [task EXCEPT ![l] = IF held THEN s ELSE task[l]]
    BY <1>8 DEF FailTask
  <2>6. TasksOK'
    BY <2>1, <2>2, <2>4, <2>5 DEF TasksOK
  <2>7. RunsOK'
    BY <1>1, <1>8, OneRun DEF FailTask
  <2> QED
    BY <1>8, <2>6, <2>7 DEF FailTask, namespace, NamespaceOK, ReadsOK
<1> QED
  BY <1>3, <1>4, <1>5, <1>6, <1>7, <1>8

LEMMA TypeStep == TypeOK /\ [Next]_vars => TypeOK'
<1> SUFFICES ASSUME TypeOK, [Next]_vars PROVE TypeOK'
  OBVIOUS
<1>1. CASE UNCHANGED vars
  BY <1>1 DEF vars, namespace, TypeOK
<1> QED
  BY <1>1, TypeNamespace, TypeRead, TypeRunAlone, TypeRunWrites DEF Next, RunStep

\* The rows of every table keep their shape and their CHECKs, a read and an
\* acting run know their location, and no run is ahead of the clock.
THEOREM TypeCorrect == Spec => []TypeOK
BY TypeInit, TypeStep, PTL DEF Spec

-----------------------------------------------------------------------------
(* The inductive invariant *)

\* A task carries the deadline of its location, and a run that is about to call
\* the provider has seen that deadline pass.
GraceInv ==
  /\ GraceKept
  /\ \A l \in Locations : task[l].state # "none" =>
       /\ location[l].state # "available"
       /\ task[l].deleteAfter = location[l].deleteAfter
  /\ \A r \in Runs : run[r].pc = "provider" =>
       /\ location[run[r].id].state # "available"
       /\ location[run[r].id].deleteAfter <= run[r].now

\* A run settles a deletion only after the object is gone.
GoneInv ==
  /\ DeletedIsGone
  /\ \A r \in Runs : run[r].pc = "complete" => ~object[run[r].id]

\* No lease that outlives the moment a run captured is on the location it is
\* about to delete: there was none at the check, and none is granted after it.
LeaseInv ==
  /\ LiveReadsKeepObject
  /\ \A r \in Runs, d \in Reads :
       run[r].pc = "provider" /\ read[d].state = "leased"
         /\ read[d].location = run[r].id => read[d].expires <= run[r].now

IInv == TypeOK /\ GraceInv /\ GoneInv /\ LeaseInv

LEMMA InvInit == Init => IInv
<1> SUFFICES ASSUME Init PROVE IInv
  OBVIOUS
<1>1. TypeOK
  BY TypeInit
<1>2. /\ \A r \in Runs : run[r].pc = "idle"
      /\ \A l \in Locations : location[l].state = "available" /\ task[l].state = "none"
                               /\ object[l]
  BY DEF Init, NoRun, Run, LocationRow, NoTask, TaskRow
<1>3. \A d \in Reads : read[d].state = "none"
  BY DEF Init, NoRead, Read
<1> QED
  BY <1>1, <1>2, <1>3
     DEF IInv, GraceInv, GraceKept, GoneInv, DeletedIsGone, LeaseInv,
         LiveReadsKeepObject

\* Time does not run backwards.
LEMMA ClockStep == ASSUME TypeOK, [Next]_vars PROVE clock <= clock'
<1>1. CASE Tick
  BY <1>1 DEF Tick, TypeOK
<1>2. CASE clock' = clock
  BY <1>2 DEF TypeOK
<1> QED
  BY <1>1, <1>2, ZenonT(60)
     DEF Next, RunStep, vars, Replace, Remove, ChangeDriver, PlanDownload, GrantLease,
         CompleteRead, StartRun, LoseRun, Mark, CreateTasks, SelectTask, ClaimTask,
         LoadFence, LoadTask, DeleteObject, CompleteTask, FailTask

\* What a step may do to a location: it becomes unreachable, once, or a run
\* that is past the provider settles it.  No entry ever pins it again.
LocationMoves(l) ==
  /\ pinned'[l] => pinned[l]
  /\ \/ location'[l] = location[l]
     \/ /\ location[l].state = "available" /\ ~pinned'[l]
        /\ location'[l].state = "tombstoned"
     \/ /\ location[l].state = "tombstoned" /\ location'[l].state = "deleted"
        /\ location'[l].deleteAfter = location[l].deleteAfter
        /\ \E r \in Runs : run[r].pc = "complete" /\ run[r].id = l

LEMMA LocationStep ==
  ASSUME IInv, [Next]_vars, NEW l \in Locations PROVE LocationMoves(l)
<1> TypeOK
  BY DEF IInv
<1> location \in [Locations -> LocationRows] /\ pinned \in [Locations -> BOOLEAN]
  BY DEF TypeOK
<1>1. ASSUME NEW k \in Locations, Replace(k) PROVE LocationMoves(l)
  BY <1>1 DEF Replace, LocationMoves
<1>2. ASSUME NEW k \in Locations, Remove(k) PROVE LocationMoves(l)
  <2>1. location[k].state = "available"
    BY <1>2 DEF Remove, IInv, GraceInv, GraceKept
  <2> QED
    BY <1>2, <2>1 DEF Remove, LocationMoves, LocationRow
<1>3. ASSUME NEW r \in Runs, Mark(r) PROVE LocationMoves(l)
  <2> PICK S \in SUBSET Unreachable :
        location' = [k \in Locations |->
          IF k \in S
            THEN LocationRow("tombstoned", location[k].revision + 1,
                             run[r].now + Grace)
            ELSE location[k]]
    BY <1>3 DEF Mark, Limited
  <2> QED
    BY <1>3 DEF Mark, namespace, Unreachable, LocationMoves, LocationRow
<1>4. ASSUME NEW r \in Runs, CompleteTask(r) PROVE LocationMoves(l)
  <2>1. run[r].id \in Locations
    BY <1>4 DEF TypeOK, CompleteTask, Acting
  <2> QED
    BY <1>4, <2>1
       DEF CompleteTask, MayComplete, namespace, LocationMoves, LocationRow
<1>5. CASE location' = location /\ pinned' = pinned
  BY <1>5 DEF LocationMoves
<1> QED
  BY <1>1, <1>2, <1>3, <1>4, <1>5, ZenonT(60)
     DEF Next, RunStep, vars, namespace, Tick, ChangeDriver, PlanDownload, GrantLease,
         CompleteRead, StartRun, LoseRun, CreateTasks, SelectTask, ClaimTask,
         LoadFence, LoadTask, DeleteObject, FailTask

\* A location that is not available keeps its deadline and never comes back.
LEMMA DeadlineStays ==
  ASSUME IInv, [Next]_vars, NEW l \in Locations, location[l].state # "available"
  PROVE /\ location'[l].state # "available"
        /\ location'[l].deleteAfter = location[l].deleteAfter
BY LocationStep DEF LocationMoves

\* Objects only disappear, and only under a run that is at the provider.
LEMMA ObjectStep ==
  ASSUME IInv, [Next]_vars, NEW l \in Locations
  PROVE /\ ~object[l] => ~object'[l]
        /\ ~object'[l] /\ object[l] =>
             \E r \in Runs : run[r].pc = "provider" /\ run[r].id = l
<1>1. ASSUME NEW r \in Runs, DeleteObject(r)
      PROVE /\ ~object[l] => ~object'[l]
            /\ ~object'[l] /\ object[l] => run[r].pc = "provider" /\ run[r].id = l
  <2>1. object \in [Locations -> BOOLEAN]
    BY DEF IInv, TypeOK
  <2> PICK gone \in BOOLEAN : object' = [object EXCEPT ![run[r].id] = @ /\ ~gone]
    BY <1>1 DEF DeleteObject
  <2>2. CASE run[r].id = l
    BY <1>1, <2>1, <2>2 DEF DeleteObject
  <2>3. CASE run[r].id # l
    BY <2>1, <2>3
  <2> QED
    BY <2>2, <2>3
<1>2. (\A r \in Runs : ~DeleteObject(r)) => object' = object
  BY ZenonT(60) DEF Next, RunStep, vars, Tick, Replace, Remove, ChangeDriver, PlanDownload,
         GrantLease, CompleteRead, StartRun, LoseRun, Mark, CreateTasks, SelectTask,
         ClaimTask, LoadFence, LoadTask, CompleteTask, FailTask
<1> QED
  BY <1>1, <1>2

\* A lease is new only on an available location.
LEMMA ReadStep ==
  ASSUME IInv, [Next]_vars, NEW d \in Reads, read'[d].state = "leased"
  PROVE \/ read'[d] = read[d]
        \/ /\ read'[d].location \in Locations
           /\ location[read'[d].location].state = "available"
           /\ location' = location /\ object' = object /\ run' = run
<1> read \in [Reads -> ReadRows]
  BY DEF IInv, TypeOK
<1>1. ASSUME NEW e \in Reads, NEW l \in Locations, NEW x \in 1 .. MaxTime,
             PlanDownload(e, l, x)
      PROVE read'[d] = read[d]
  BY <1>1 DEF PlanDownload, Read
<1>2. ASSUME NEW e \in Reads, CompleteRead(e) PROVE read'[d] = read[d]
  BY <1>2 DEF CompleteRead, Read
<1>3. ASSUME NEW e \in Reads, GrantLease(e), read'[d] # read[d]
      PROVE /\ read'[d].location \in Locations
            /\ location[read'[d].location].state = "available"
            /\ location' = location /\ object' = object /\ run' = run
  <2>1. d = e
    BY <1>3 DEF GrantLease
  <2>2. read[d].location \in Locations
    BY <1>3, <2>1 DEF GrantLease, IInv, TypeOK
  <2>3. read'[d].location = read[d].location /\ MayLease(d)
    BY <1>3, <2>1 DEF GrantLease, Read
  <2> QED
    BY <1>3, <2>2, <2>3 DEF GrantLease, MayLease
<1>4. CASE read' = read
  BY <1>4
<1> QED
  BY <1>1, <1>2, <1>3, <1>4, ZenonT(60)
     DEF Next, RunStep, vars, Tick, Replace, Remove, ChangeDriver, StartRun, LoseRun,
         Mark, CreateTasks, SelectTask, ClaimTask, LoadFence, LoadTask, DeleteObject,
         CompleteTask, FailTask

\* A run gets to the provider by the final safety query, and past it only when
\* the object is gone.
LEMMA RunMoves ==
  ASSUME IInv, [Next]_vars, NEW r \in Runs, run'[r] # run[r]
  PROVE /\ run'[r].pc = "provider" =>
             /\ LoadTask(r) /\ Revalidated(r)
             /\ run'[r].id = run[r].id /\ run'[r].now = run[r].now
        /\ run'[r].pc = "complete" =>
             /\ run'[r].id \in Locations /\ ~object'[run'[r].id]
<1> run \in [Runs -> RunRows]
  BY DEF IInv, TypeOK
<1> DEFINE Goal ==
        /\ run'[r].pc = "provider" =>
             /\ LoadTask(r) /\ Revalidated(r)
             /\ run'[r].id = run[r].id /\ run'[r].now = run[r].now
        /\ run'[r].pc = "complete" =>
             /\ run'[r].id \in Locations /\ ~object'[run'[r].id]
<1>1. ASSUME NEW q \in Runs, StartRun(q) \/ LoseRun(q) PROVE Goal
  BY <1>1 DEF StartRun, LoseRun, Run, NoRun
<1>2. ASSUME NEW q \in Runs, Mark(q) \/ CreateTasks(q) PROVE Goal
  BY <1>2 DEF Mark, CreateTasks, Goto, Run
<1>3. ASSUME NEW q \in Runs, SelectTask(q) \/ ClaimTask(q) PROVE Goal
  BY <1>3 DEF SelectTask, ClaimTask, Goto, Run, NoRun
<1>4. ASSUME NEW q \in Runs, LoadFence(q) PROVE Goal
  BY <1>4 DEF LoadFence, Run, NoRun
<1>5. ASSUME NEW q \in Runs, LoadTask(q) PROVE Goal
  BY <1>5 DEF LoadTask, Run
<1>6. ASSUME NEW q \in Runs, DeleteObject(q) PROVE Goal
  <2>1. q = r
    BY <1>6 DEF DeleteObject
  <2>2. run[r].id \in Locations /\ object \in [Locations -> BOOLEAN]
    BY <1>6, <2>1 DEF DeleteObject, IInv, TypeOK, Acting
  <2> PICK outcome \in {"ok", "blocked", "retry"}, gone \in BOOLEAN :
        /\ outcome = "ok" => gone
        /\ object' = [object EXCEPT ![run[r].id] = @ /\ ~gone]
        /\ run' = [run EXCEPT ![r] = Run(AfterProvider(outcome), @.now, run[r].id,
                                        @.fence, @.expected, outcome)]
    BY <1>6, <2>1 DEF DeleteObject
  <2>3. run'[r].pc = AfterProvider(outcome) /\ run'[r].id = run[r].id
    BY DEF Run
  <2>4. AfterProvider(outcome) # "provider"
    BY DEF AfterProvider
  <2>5. AfterProvider(outcome) = "complete" => gone
    BY DEF AfterProvider
  <2>6. gone => ~object'[run[r].id]
    BY <2>2
  <2> QED
    BY <2>2, <2>3, <2>4, <2>5, <2>6
<1>7. ASSUME NEW q \in Runs, CompleteTask(q) \/ FailTask(q) PROVE Goal
  BY <1>7 DEF CompleteTask, FailTask, Run, NoRun
<1> QED
  BY <1>1, <1>2, <1>3, <1>4, <1>5, <1>6, <1>7
     DEF Next, RunStep, vars, Tick, Replace, Remove, ChangeDriver, PlanDownload,
         GrantLease, CompleteRead

\* A task is created with the deadline of a tombstoned location and keeps it.
LEMMA TaskStep ==
  ASSUME IInv, [Next]_vars, NEW l \in Locations, task'[l].state # "none"
  PROVE \/ task[l].state # "none" /\ task'[l].deleteAfter = task[l].deleteAfter
        \/ /\ location[l].state = "tombstoned" /\ location' = location
           /\ task'[l].deleteAfter = location[l].deleteAfter
<1> DEFINE Goal ==
        \/ task[l].state # "none" /\ task'[l].deleteAfter = task[l].deleteAfter
        \/ /\ location[l].state = "tombstoned" /\ location' = location
           /\ task'[l].deleteAfter = location[l].deleteAfter
<1> task \in [Locations -> TaskRows] /\ run \in [Runs -> RunRows]
  BY DEF IInv, TypeOK
<1>1. ASSUME NEW r \in Runs, CreateTasks(r) PROVE Goal
  <2> PICK S \in SUBSET {k \in Locations : location[k].state = "tombstoned"} :
        task' = [k \in Locations |-> IF k \in S THEN NewTask(r, k) ELSE task[k]]
    BY <1>1 DEF CreateTasks, Limited
  <2> QED
    BY <1>1 DEF CreateTasks, NewTask, TaskRow
<1>2. ASSUME NEW r \in Runs, ClaimTask(r) PROVE Goal
  <2>1. CASE Due(run[r].id, run[r].now)
    <3>1. Due(run[r].id, run[r].now) => task[run[r].id].state # "none"
      BY DEF Due
    <3> QED
      BY <1>2, <2>1, <3>1 DEF ClaimTask, TaskRow
  <2>2. CASE ~Due(run[r].id, run[r].now)
    BY <1>2, <2>2 DEF ClaimTask
  <2> QED
    BY <2>1, <2>2
<1>3. ASSUME NEW r \in Runs, CompleteTask(r) PROVE Goal
  BY <1>3 DEF CompleteTask, MayComplete, Settled, TaskRow
<1>4. ASSUME NEW r \in Runs, FailTask(r) PROVE Goal
  BY <1>4 DEF FailTask, Settled, TaskRow
<1>5. CASE task' = task
  BY <1>5
<1> QED
  BY <1>1, <1>2, <1>3, <1>4, <1>5
     DEF Next, RunStep, vars, Tick, Replace, Remove, ChangeDriver, PlanDownload,
         GrantLease, CompleteRead, StartRun, LoseRun, Mark, SelectTask, LoadFence,
         LoadTask, DeleteObject

\* The query a run takes to the provider saw the deadline of the location pass
\* and no lease that outlives the run's moment.
LEMMA RevalidatedIsSafe ==
  ASSUME IInv, NEW r \in Runs, LoadTask(r), Revalidated(r)
  PROVE /\ run[r].id \in Locations
        /\ location[run[r].id].state # "available"
        /\ location[run[r].id].deleteAfter <= run[r].now
        /\ \A d \in Reads : read[d].state = "leased" /\ read[d].location = run[r].id =>
             read[d].expires <= run[r].now
<1>1. run[r].id \in Locations
  BY DEF LoadTask, IInv, TypeOK, Acting
<1>2. task[run[r].id].deleteAfter = location[run[r].id].deleteAfter
  BY <1>1 DEF Revalidated, IInv, GraceInv
<1>3. ASSUME NEW d \in Reads, read[d].state = "leased", read[d].location = run[r].id
      PROVE read[d].expires <= run[r].now
  <2>1. ~(read[d].expires > run[r].now)
    BY <1>3 DEF Revalidated, Leased
  <2>2. read[d].expires \in Nat /\ run[r].now \in Nat
    BY DEF IInv, TypeOK, ReadRows, RunRows
  <2> QED
    BY <2>1, <2>2
<1> QED
  BY <1>1, <1>2, <1>3 DEF Revalidated

LEMMA GraceStep == IInv /\ [Next]_vars => GraceInv'
<1> SUFFICES ASSUME IInv, [Next]_vars PROVE GraceInv'
  OBVIOUS
<1> TypeOK /\ TypeOK' /\ clock <= clock'
  BY TypeStep, ClockStep DEF IInv
<1>1. ASSUME NEW l \in Locations PROVE pinned'[l] => location'[l].state = "available"
  BY LocationStep DEF LocationMoves, IInv, GraceInv, GraceKept
<1>2. ASSUME NEW l \in Locations, ~object'[l]
      PROVE location'[l].state # "available" /\ location'[l].deleteAfter <= clock'
  <2>1. location[l].state # "available" /\ location[l].deleteAfter <= clock
    <3>1. CASE ~object[l]
      BY <3>1 DEF IInv, GraceInv, GraceKept
    <3>2. CASE object[l]
      <4> PICK r \in Runs : run[r].pc = "provider" /\ run[r].id = l
        BY <1>2, <3>2, ObjectStep
      <4>1. location[l].state # "available" /\ location[l].deleteAfter <= run[r].now
        BY DEF IInv, GraceInv
      <4>2. /\ run[r].now <= clock /\ run[r].now \in Nat /\ clock \in Nat
            /\ location[l].deleteAfter \in Nat
        BY DEF TypeOK, RunRows, LocationRows
      <4> QED
        BY <4>1, <4>2
    <3> QED
      BY <3>1, <3>2
  <2>2. location'[l].deleteAfter = location[l].deleteAfter
    BY <2>1, DeadlineStays
  <2>3. location[l].deleteAfter \in Nat /\ clock \in Nat /\ clock' \in Nat
    BY DEF TypeOK, LocationRows
  <2> QED
    BY <2>1, <2>2, <2>3, DeadlineStays
<1>3. ASSUME NEW l \in Locations, task'[l].state # "none"
      PROVE /\ location'[l].state # "available"
            /\ task'[l].deleteAfter = location'[l].deleteAfter
  <2>1. CASE task[l].state # "none" /\ task'[l].deleteAfter = task[l].deleteAfter
    BY <2>1, DeadlineStays DEF IInv, GraceInv
  <2> QED
    BY <1>3, <2>1, TaskStep
<1>4. ASSUME NEW r \in Runs, run'[r].pc = "provider"
      PROVE /\ location'[run'[r].id].state # "available"
            /\ location'[run'[r].id].deleteAfter <= run'[r].now
  <2>1. /\ run'[r].id = run[r].id /\ run'[r].now = run[r].now
        /\ run[r].id \in Locations
        /\ location[run[r].id].state # "available"
        /\ location[run[r].id].deleteAfter <= run[r].now
    <3>1. CASE run'[r] = run[r]
      BY <1>4, <3>1 DEF IInv, GraceInv, TypeOK, Acting
    <3>2. CASE run'[r] # run[r]
      BY <1>4, <3>2, RunMoves, RevalidatedIsSafe
    <3> QED
      BY <3>1, <3>2
  <2> QED
    BY <2>1, DeadlineStays
<1> QED
  BY <1>1, <1>2, <1>3, <1>4 DEF GraceInv, GraceKept

LEMMA GoneStep == IInv /\ [Next]_vars => GoneInv'
<1> SUFFICES ASSUME IInv, [Next]_vars PROVE GoneInv'
  OBVIOUS
<1>1. ASSUME NEW l \in Locations, location'[l].state = "deleted" PROVE ~object'[l]
  BY <1>1, LocationStep, ObjectStep DEF LocationMoves, IInv, GoneInv, DeletedIsGone
<1>2. ASSUME NEW r \in Runs, run'[r].pc = "complete" PROVE ~object'[run'[r].id]
  <2>1. CASE run'[r] = run[r]
    <3>1. run[r].id \in Locations /\ ~object[run[r].id]
      BY <1>2, <2>1 DEF IInv, GoneInv, TypeOK, Acting
    <3> QED
      BY <2>1, <3>1, ObjectStep
  <2>2. CASE run'[r] # run[r]
    BY <1>2, <2>2, RunMoves
  <2> QED
    BY <2>1, <2>2
<1> QED
  BY <1>1, <1>2 DEF GoneInv, DeletedIsGone

LEMMA LeaseStep == IInv /\ [Next]_vars => LeaseInv'
<1> SUFFICES ASSUME IInv, [Next]_vars PROVE LeaseInv'
  OBVIOUS
<1> TypeOK /\ TypeOK' /\ clock <= clock'
  BY TypeStep, ClockStep DEF IInv
<1>1. ASSUME NEW d \in Reads, read'[d].state = "leased", read'[d].expires > clock'
      PROVE object'[read'[d].location]
  <2>1. CASE read'[d] = read[d]
    <3> DEFINE l == read[d].location
    <3>1. l \in Locations /\ read[d].expires \in Nat /\ clock \in Nat /\ clock' \in Nat
      BY <1>1, <2>1 DEF TypeOK, ReadRows
    <3>2. read[d].expires > clock
      BY <1>1, <2>1, <3>1
    <3>3. object[l]
      BY <1>1, <2>1, <3>2 DEF IInv, LeaseInv, LiveReadsKeepObject
    <3>4. SUFFICES ASSUME ~object'[l] PROVE FALSE
      BY <2>1
    <3> PICK r \in Runs : run[r].pc = "provider" /\ run[r].id = l
      BY <3>1, <3>3, <3>4, ObjectStep
    <3>5. read[d].expires <= run[r].now
      BY <1>1, <2>1 DEF IInv, LeaseInv
    <3>6. run[r].now <= clock /\ run[r].now \in Nat
      BY DEF TypeOK, RunRows
    <3> QED
      BY <3>1, <3>2, <3>5, <3>6
  <2>2. CASE read'[d] # read[d]
    <3>1. /\ read'[d].location \in Locations /\ object' = object
          /\ location[read'[d].location].state = "available"
      BY <1>1, <2>2, ReadStep
    <3> QED
      BY <3>1 DEF IInv, GraceInv, GraceKept
  <2> QED
    BY <2>1, <2>2
<1>2. ASSUME NEW r \in Runs, NEW d \in Reads, run'[r].pc = "provider",
             read'[d].state = "leased", read'[d].location = run'[r].id
      PROVE read'[d].expires <= run'[r].now
  <2>1. CASE read'[d] # read[d]
    <3>1. location[run[r].id].state = "available" /\ run' = run
      BY <1>2, <2>1, ReadStep
    <3> QED
      BY <1>2, <3>1 DEF IInv, GraceInv
  <2>2. CASE read'[d] = read[d] /\ run'[r] = run[r]
    BY <1>2, <2>2 DEF IInv, LeaseInv
  <2>3. CASE read'[d] = read[d] /\ run'[r] # run[r]
    BY <1>2, <2>3, RunMoves, RevalidatedIsSafe
  <2> QED
    BY <2>1, <2>2, <2>3
<1> QED
  BY <1>1, <1>2 DEF LeaseInv, LiveReadsKeepObject

LEMMA Invariance == Spec => []IInv
<1>1. IInv /\ [Next]_vars => IInv'
  BY TypeStep, GraceStep, GoneStep, LeaseStep DEF IInv
<1> QED
  BY InvInit, <1>1, PTL DEF Spec

-----------------------------------------------------------------------------
(* Theorems *)

\* A read that holds a live lease finds its object, although the cron checks
\* the leases at a moment it captured before and calls the provider later.
THEOREM ReadsKeepTheirObject == Spec => []LiveReadsKeepObject
<1>1. IInv => LiveReadsKeepObject
  BY DEF IInv, LeaseInv
<1> QED
  BY Invariance, <1>1, PTL

\* What is recorded as deleted is gone, whatever became of the run that
\* called the provider.
THEOREM DeletedObjectsAreGone == Spec => []DeletedIsGone
<1>1. IInv => DeletedIsGone
  BY DEF IInv, GoneInv
<1> QED
  BY Invariance, <1>1, PTL

\* Pinned locations stay available and no object disappears before the
\* deadline of its location, however stale the run that deletes it.
THEOREM DeadlinesAreKept == Spec => []GraceKept
<1>1. IInv => GraceKept
  BY DEF IInv, GraceInv
<1> QED
  BY Invariance, <1>1, PTL

-----------------------------------------------------------------------------
(***************************************************************************)
(* The client's end: SyncToLocal                                           *)
(***************************************************************************)

(* The inductive invariant *)

WithPlan == {"local", "watch", "download", "final", "write", "done"}
PublishedAll == {"final", "write", "done"}

\* A path that a record speaks of holds the file of the plan, unless the user
\* has been there.
Holds(q, p) ==
  q.records[p] # Absent =>
    /\ q.records[p] = q.plan[p]
    /\ local[q.dest][p] = q.plan[p] \/ p \in edited[q.dest]

\* Every file of the plan is still to be done, or has its record.
Covered(q, p) ==
  q.plan[p] # Absent =>
    p \in q.todo \cup q.staged \cup q.downloads \cup q.leased \/ q.records[p] # Absent \/ q.error

\* What is about to be published is the file of the plan.
Pure(q, p) ==
  /\ p \in q.todo \cup q.staged => q.plan[p] # Absent
  /\ q.fetched[p] # Absent => q.fetched[p] = q.plan[p]

Blank(q) ==
  /\ q.todo = {} /\ q.staged = {} /\ q.downloads = {} /\ q.leased = {} /\ q.error = FALSE
  /\ q.fetched = Empty /\ q.records = Empty

\* The record q of sync s is in order.
Good(s, q) ==
  /\ q.pc # "idle" => q.dest \in Destinations /\ lock[q.dest] = s
  /\ q.pc \in {"state", "tree"} => Blank(q)
  /\ q.pc \in WithPlan =>
       /\ q.fence \in 1..Len(history) /\ q.plan = history[q.fence]
       /\ \A p \in Paths : Holds(q, p) /\ Covered(q, p) /\ Pure(q, p)
  /\ q.pc = "local" => q.leased = {}
  /\ q.pc \in {"watch", "download"} => q.todo = {} /\ q.staged = {} /\ q.error = FALSE
  /\ q.pc \in PublishedAll => \A p \in Paths : q.plan[p] # Absent => q.records[p] # Absent

GoodInv == \A s \in Syncs : Good(s, sync[s])

SyncInv == SyncTypeOK /\ GoodInv

-----------------------------------------------------------------------------
(* Types *)

LEMMA Assumed ==
  /\ FirstTree \in Trees /\ Nil \notin Syncs /\ Absent \notin Versions
  /\ \A t \in Trees : t \in Files
BY SyncAssumption DEF Files

LEMMA EmptyType == Empty \in Files /\ Empty \in [Paths -> Content]
BY DEF Empty, Files, Content

LEMMA IdleType ==
  /\ Idle \in SyncRecords /\ Idle.pc = "idle" /\ Blank(Idle)
  /\ Idle.watch = FALSE /\ Idle.fetching = {} /\ Idle.previous = Nil /\ Idle.plan = Empty
  /\ Idle.fence = 0
<1>1. Idle \in SyncRecords BY EmptyType DEF Idle, SyncRecords
<1> QED BY <1>1 DEF Idle, Blank

LEMMA ReturnedType ==
  ASSUME SyncTypeOK, NEW s \in Syncs, NEW pc \in {"failed", "state"}, NEW v,
         v = [Idle EXCEPT !.pc = pc, !.dest = sync[s].dest]
  PROVE  v \in SyncRecords /\ v.pc = pc /\ v.dest = sync[s].dest
<1>1. sync[s].dest \in Destinations \cup {Nil} BY DEF SyncTypeOK, SyncRecords
<1>2. PICK i : i = Idle OBVIOUS
<1>3. i \in SyncRecords BY <1>2, IdleType
<1> QED BY <1>1, <1>2, <1>3 DEF SyncRecords

LEMMA TreeType ==
  ASSUME SyncTypeOK
  PROVE  /\ Revision \in Nat \ {0} /\ Revision = Len(history)
         /\ \A r \in 1..Len(history) : history[r] \in Files
<1>1. history \in Seq(Trees) /\ Len(history) > 0 BY DEF SyncTypeOK, Revision
<1>2. Len(history) \in Nat BY <1>1
<1>3. \A r \in 1..Len(history) : history[r] \in Trees BY <1>1
<1> QED BY <1>1, <1>2, <1>3, Assumed DEF Revision

-----------------------------------------------------------------------------
(* A sync that is not disturbed *)

\* Nothing takes the lock of q; what changes in its destination is the user's.
Undisturbed(q) ==
  q.pc # "idle" =>
    /\ lock'[q.dest] = lock[q.dest]
    /\ edited[q.dest] \subseteq edited'[q.dest]
    /\ \A p \in Paths : local'[q.dest][p] = local[q.dest][p] \/ p \in edited'[q.dest]

HistoryGrows ==
  /\ Len(history') \in Nat /\ Len(history) \in Nat /\ Len(history) <= Len(history')
  /\ \A r \in 1..Len(history) : history'[r] = history[r]

LEMMA GoodKept ==
  ASSUME NEW s, NEW q, q.fence \in Nat, Good(s, q), Undisturbed(q), HistoryGrows PROVE Good(s, q)'
<1>1. q.pc # "idle" => q.dest \in Destinations /\ lock'[q.dest] = s
  BY DEF Good, Undisturbed
<1>2. ASSUME q.pc \in WithPlan PROVE q.fence \in 1..Len(history') /\ q.plan = history'[q.fence]
  <2>1. q.fence \in 1..Len(history) /\ q.plan = history[q.fence] BY <1>2 DEF Good
  <2> QED BY <2>1 DEF HistoryGrows
<1>3. ASSUME q.pc \in WithPlan, NEW p \in Paths PROVE Holds(q, p)' /\ Covered(q, p)' /\ Pure(q, p)'
  <2>1. Holds(q, p) /\ Covered(q, p) /\ Pure(q, p) BY <1>3 DEF Good
  <2>2. Holds(q, p)' BY <1>3, <2>1 DEF Holds, Undisturbed, WithPlan
  <2> QED BY <2>1, <2>2 DEF Covered, Pure
<1>4. /\ q.pc \in {"state", "tree"} => Blank(q)
      /\ q.pc = "local" => q.leased = {}
      /\ q.pc \in {"watch", "download"} => q.todo = {} /\ q.staged = {} /\ q.error = FALSE
      /\ q.pc \in PublishedAll => \A p \in Paths : q.plan[p] # Absent => q.records[p] # Absent
  BY DEF Good
<1> QED BY <1>1, <1>2, <1>3, <1>4 DEF Good, Blank, Empty

\* A step of sync s: it takes a record that is in order afterwards, and no
\* other sync is disturbed.
Advances(s) ==
  /\ \E v \in SyncRecords : sync' = [sync EXCEPT ![s] = v] /\ Good(s, v)'
  /\ \A t \in Syncs \ {s} : Undisturbed(sync[t])
  /\ HistoryGrows

Quiet == local' = local /\ edited' = edited /\ lock' = lock /\ history' = history

LEMMA HistoryStays == ASSUME SyncTypeOK, history' = history PROVE HistoryGrows
BY TreeType DEF HistoryGrows

LEMMA QuietUndisturbed == ASSUME Quiet, NEW q PROVE Undisturbed(q)
BY DEF Quiet, Undisturbed

\* A step that touches nothing but the record.
LEMMA QuietAdvances ==
  ASSUME SyncTypeOK, NEW s \in Syncs, Quiet, NEW v \in SyncRecords, sync' = [sync EXCEPT ![s] = v],
         Good(s, v)
  PROVE  Advances(s)
<1>1. HistoryGrows BY HistoryStays DEF Quiet
<1>2. v.fence \in Nat BY DEF SyncRecords
<1>3. Undisturbed(v) BY QuietUndisturbed
<1>4. Good(s, v)' BY <1>1, <1>2, <1>3, GoodKept
<1>5. \A t \in Syncs \ {s} : Undisturbed(sync[t]) BY QuietUndisturbed
<1> QED BY <1>1, <1>4, <1>5 DEF Advances

-----------------------------------------------------------------------------
(* The steps of a sync *)

\* Errors: what is left is the lock of the destination.
LEMMA ReturnedGood ==
  ASSUME SyncTypeOK, GoodInv, NEW s \in Syncs, sync[s].pc # "idle"
  PROVE  Returned(s, "failed") \in SyncRecords /\ Good(s, Returned(s, "failed"))
<1>1. PICK v : v = [Idle EXCEPT !.pc = "failed", !.dest = sync[s].dest] OBVIOUS
<1>2. v \in SyncRecords /\ v.pc = "failed" /\ v.dest = sync[s].dest BY <1>1, ReturnedType
<1>3. sync[s].dest \in Destinations /\ lock[sync[s].dest] = s BY DEF GoodInv, Good
<1>4. Good(s, v) BY <1>2, <1>3 DEF Good, WithPlan, PublishedAll
<1> QED BY <1>1, <1>2, <1>4 DEF Returned

LEMMA FailedAdvances ==
  ASSUME SyncTypeOK, GoodInv, NEW s \in Syncs, sync[s].pc # "idle", Quiet,
         Become(s, Returned(s, "failed"))
  PROVE  Advances(s)
BY ReturnedGood, QuietAdvances DEF Become

LEMMA OpenStateAdvances ==
  ASSUME SyncTypeOK, GoodInv, NEW s \in Syncs, OpenState(s) PROVE Advances(s)
<1>1. PICK q : q = sync[s] OBVIOUS
<1>2. q \in SyncRecords /\ Good(s, q) /\ q.pc = "state"
  BY <1>1 DEF SyncTypeOK, GoodInv, OpenState, At
<1>3. PICK v : v = [q EXCEPT !.pc = "tree", !.previous = index] OBVIOUS
<1>4. index \in Files \cup {Nil} BY DEF SyncTypeOK
<1>5. v \in SyncRecords /\ v.pc = "tree" /\ v.dest = q.dest BY <1>2, <1>3, <1>4 DEF SyncRecords
<1>6. Blank(v) BY <1>2, <1>3 DEF SyncRecords, Good, Blank
<1>7. Good(s, v) BY <1>2, <1>5, <1>6 DEF Good, WithPlan, PublishedAll
<1>8. Quiet /\ sync' = [sync EXCEPT ![s] = v] BY <1>1, <1>3 DEF OpenState, Become, Quiet
<1> QED BY <1>5, <1>7, <1>8, QuietAdvances

LEMMA PlanTreeAdvances ==
  ASSUME SyncTypeOK, GoodInv, NEW s \in Syncs, PlanTree(s) PROVE Advances(s)
<1>1. PICK q : q = sync[s] OBVIOUS
<1>2. q \in SyncRecords /\ Good(s, q) /\ q.pc = "tree" BY <1>1 DEF SyncTypeOK, GoodInv, PlanTree, At
<1>3. PICK t : t = history[Revision] OBVIOUS
<1>4. PICK todo : todo = {p \in Paths : t[p] # Absent} OBVIOUS
<1>5. Revision \in 1..Len(history) /\ Revision \in Nat /\ t \in Files BY <1>3, TreeType
<1>6. PICK v : v = [q EXCEPT !.pc = "local", !.plan = t, !.fence = Revision, !.todo = todo] OBVIOUS
<1>7. v \in SyncRecords BY <1>2, <1>4, <1>5, <1>6 DEF SyncRecords
<1>8. /\ v.pc = "local" /\ v.dest = q.dest /\ v.plan = t /\ v.fence = Revision /\ v.todo = todo
      /\ v.staged = q.staged /\ v.leased = q.leased /\ v.fetched = q.fetched /\ v.records = q.records
  BY <1>2, <1>6 DEF SyncRecords
<1>9. q.staged = {} /\ q.leased = {} /\ q.fetched = Empty /\ q.records = Empty
  BY <1>2 DEF Good, Blank
<1>10. ASSUME NEW p \in Paths PROVE Holds(v, p) /\ Covered(v, p) /\ Pure(v, p)
  <2>1. v.records[p] = Absent /\ v.fetched[p] = Absent BY <1>8, <1>9 DEF Empty
  <2>2. p \in v.todo <=> v.plan[p] # Absent BY <1>4, <1>8
  <2> QED BY <1>8, <1>9, <2>1, <2>2 DEF Holds, Covered, Pure
<1>11. Good(s, v)
  BY <1>2, <1>3, <1>5, <1>8, <1>9, <1>10 DEF Good, WithPlan, PublishedAll
<1>12. Quiet /\ sync' = [sync EXCEPT ![s] = v] BY <1>1, <1>3, <1>4, <1>6 DEF PlanTree, Become, Quiet
<1> QED BY <1>7, <1>11, <1>12, QuietAdvances

\* What a sync with a plan knows of its record.
InPlan(s, q) ==
  /\ q \in SyncRecords /\ q.dest \in Destinations /\ lock[q.dest] = s
  /\ q.fence \in 1..Len(history) /\ q.plan = history[q.fence]
  /\ q.plan \in Files /\ q.records \in Files /\ q.fetched \in [Paths -> Content]
  /\ \A p \in Paths : Holds(q, p) /\ Covered(q, p) /\ Pure(q, p)
  /\ q.pc = "local" => q.leased = {}
  /\ q.pc \in {"watch", "download"} => q.todo = {} /\ q.staged = {} /\ q.error = FALSE
  /\ q.pc \in PublishedAll => \A p \in Paths : q.plan[p] # Absent => q.records[p] # Absent

LEMMA PlanFacts ==
  ASSUME SyncTypeOK, GoodInv, NEW s \in Syncs, NEW q, q = sync[s], q.pc \in WithPlan
  PROVE  InPlan(s, q)
<1>1. q \in SyncRecords /\ Good(s, q) BY DEF SyncTypeOK, GoodInv
<1>2. q.plan \in Files /\ q.records \in Files /\ q.fetched \in [Paths -> Content]
  BY <1>1 DEF SyncRecords
<1>3. q.pc # "idle" BY DEF WithPlan
<1> QED BY <1>1, <1>2, <1>3 DEF Good, InPlan

\* The plan, its fence and the destination stay.
SamePlan(q, v) == v.dest = q.dest /\ v.plan = q.plan /\ v.fence = q.fence

LEMMA PlanGood ==
  ASSUME NEW s, NEW q, InPlan(s, q), NEW v, SamePlan(q, v), v.pc \in WithPlan,
         \A p \in Paths : Holds(v, p) /\ Covered(v, p) /\ Pure(v, p),
         v.pc = "local" => v.leased = {},
         v.pc \in {"watch", "download"} => v.todo = {} /\ v.staged = {} /\ v.error = FALSE,
         v.pc \in PublishedAll => \A p \in Paths : v.plan[p] # Absent => v.records[p] # Absent
  PROVE  Good(s, v)
BY DEF InPlan, SamePlan, Good, WithPlan

LEMMA EvaluateAdvances ==
  ASSUME SyncTypeOK, GoodInv, NEW s \in Syncs, NEW p \in Paths, Evaluate(s, p) PROVE Advances(s)
<1>1. PICK q : q = sync[s] OBVIOUS
<1>2. q.pc = "local" /\ p \in q.todo BY <1>1 DEF Evaluate, At
<1>3. /\ q \in SyncRecords /\ q.dest \in Destinations /\ lock[q.dest] = s
      /\ q.fence \in 1..Len(history) /\ q.plan = history[q.fence]
      /\ q.plan \in Files /\ q.records \in Files /\ q.fetched \in [Paths -> Content]
      /\ \A x \in Paths : Holds(q, x) /\ Covered(q, x) /\ Pure(q, x)
      /\ q.leased = {}
  BY <1>1, <1>2, PlanFacts DEF WithPlan, InPlan
<1>4. PICK r : r = [q EXCEPT !.todo = q.todo \ {p}] OBVIOUS
<1>5. r \in SyncRecords BY <1>3, <1>4 DEF SyncRecords
<1>6. /\ r.pc = "local" /\ r.dest = q.dest /\ r.plan = q.plan /\ r.fence = q.fence
      /\ r.todo = q.todo \ {p} /\ r.staged = q.staged /\ r.downloads = q.downloads
      /\ r.leased = {} /\ r.error = q.error /\ r.fetched = q.fetched /\ r.records = q.records
  BY <1>2, <1>3, <1>4 DEF SyncRecords
<1>7. Quiet BY DEF Evaluate, Quiet
<1>8. PICK a : a = q.plan[p] OBVIOUS
<1>9. a \in Versions \cup {Absent} BY <1>3, <1>8 DEF Files
<1>10. CASE Recorded(s, p) /\ Matches(Here(s)[p], q.plan[p])
  <2>1. PICK v : v = [r EXCEPT !.records[p] = a] OBVIOUS
  <2>2. PICK f : f = [q.records EXCEPT ![p] = a] OBVIOUS
  <2>3. f \in Files BY <1>3, <1>9, <2>2 DEF Files
  <2>4. v = [r EXCEPT !.records = f] BY <1>6, <2>1, <2>2
  <2>5. v \in SyncRecords BY <1>5, <2>3, <2>4 DEF SyncRecords
  <2>6. /\ v.pc = "local" /\ v.dest = q.dest /\ v.plan = q.plan /\ v.fence = q.fence
        /\ v.todo = q.todo \ {p} /\ v.staged = q.staged /\ v.downloads = q.downloads
        /\ v.leased = {} /\ v.error = q.error /\ v.fetched = q.fetched /\ v.records = f
    BY <1>5, <1>6, <2>4 DEF SyncRecords
  <2>7. local[q.dest][p] = q.plan[p] BY <1>1, <1>10 DEF Matches, Here
  <2>8. q.plan[p] # Absent BY <1>2, <1>3 DEF Pure
  <2>9. \A x \in Paths : f[x] = IF x = p THEN q.plan[p] ELSE q.records[x]
    BY <1>3, <1>8, <2>2 DEF Files
  <2>10. ASSUME NEW x \in Paths PROVE Holds(v, x) /\ Covered(v, x) /\ Pure(v, x)
    BY <1>3, <2>6, <2>7, <2>8, <2>9 DEF Holds, Covered, Pure
  <2>11. Good(s, v) BY <1>3, <2>6, <2>10 DEF Good, WithPlan, PublishedAll
  <2>12. sync' = [sync EXCEPT ![s] = v] BY <1>1, <1>4, <1>8, <1>10, <2>1 DEF Evaluate, Become
  <2> QED BY <1>7, <2>5, <2>11, <2>12, QuietAdvances
<1>11. CASE /\ ~(Recorded(s, p) /\ Matches(Here(s)[p], q.plan[p]))
            /\ \E x \in Relocated(s, p) : Matches(Here(s)[x], q.plan[p])
  <2>1. PICK v : v = [r EXCEPT !.staged = r.staged \cup {p}] OBVIOUS
  <2>2. v \in SyncRecords BY <1>5, <2>1 DEF SyncRecords
  <2>3. /\ v.pc = "local" /\ v.dest = q.dest /\ v.plan = q.plan /\ v.fence = q.fence
        /\ v.todo = q.todo \ {p} /\ v.staged = q.staged \cup {p} /\ v.downloads = q.downloads
        /\ v.leased = {} /\ v.error = q.error /\ v.fetched = q.fetched /\ v.records = q.records
    BY <1>5, <1>6, <2>1 DEF SyncRecords
  <2>4. ASSUME NEW x \in Paths PROVE Holds(v, x) /\ Covered(v, x) /\ Pure(v, x)
    BY <1>2, <1>3, <2>3 DEF Holds, Covered, Pure
  <2>5. Good(s, v) BY <1>3, <2>3, <2>4 DEF Good, WithPlan, PublishedAll
  <2>6. sync' = [sync EXCEPT ![s] = v] BY <1>1, <1>4, <1>11, <2>1 DEF Evaluate, Become
  <2> QED BY <1>7, <2>2, <2>5, <2>6, QuietAdvances
<1>12. CASE /\ ~(Recorded(s, p) /\ Matches(Here(s)[p], q.plan[p]))
            /\ ~(\E x \in Relocated(s, p) : Matches(Here(s)[x], q.plan[p]))
  <2>1. PICK v : v = [r EXCEPT !.downloads = r.downloads \cup {p}] OBVIOUS
  <2>2. v \in SyncRecords BY <1>5, <2>1 DEF SyncRecords
  <2>3. /\ v.pc = "local" /\ v.dest = q.dest /\ v.plan = q.plan /\ v.fence = q.fence
        /\ v.todo = q.todo \ {p} /\ v.staged = q.staged /\ v.downloads = q.downloads \cup {p}
        /\ v.leased = {} /\ v.error = q.error /\ v.fetched = q.fetched /\ v.records = q.records
    BY <1>5, <1>6, <2>1 DEF SyncRecords
  <2>4. ASSUME NEW x \in Paths PROVE Holds(v, x) /\ Covered(v, x) /\ Pure(v, x)
    BY <1>2, <1>3, <2>3 DEF Holds, Covered, Pure
  <2>5. Good(s, v) BY <1>3, <2>3, <2>4 DEF Good, WithPlan, PublishedAll
  <2>6. sync' = [sync EXCEPT ![s] = v] BY <1>1, <1>4, <1>12, <2>1 DEF Evaluate, Become
  <2> QED BY <1>7, <2>2, <2>5, <2>6, QuietAdvances
<1> QED BY <1>10, <1>11, <1>12

LEMMA EvaluateFailsAdvances ==
  ASSUME SyncTypeOK, GoodInv, NEW s \in Syncs, NEW p \in Paths, EvaluateFails(s, p)
  PROVE  Advances(s)
<1>1. PICK q : q = sync[s] OBVIOUS
<1>2. q.pc = "local" BY <1>1 DEF EvaluateFails, At
<1>3. InPlan(s, q) BY <1>1, <1>2, PlanFacts DEF WithPlan
<1>4. PICK v : v = [q EXCEPT !.todo = q.todo \ {p}, !.staged = q.staged \ {p}, !.error = TRUE]
  OBVIOUS
<1>5. v \in SyncRecords BY <1>3, <1>4 DEF InPlan, SyncRecords
<1>6. /\ SamePlan(q, v) /\ v.pc = "local" /\ v.todo = q.todo \ {p} /\ v.staged = q.staged \ {p}
      /\ v.error = TRUE /\ v.leased = q.leased /\ v.fetched = q.fetched /\ v.records = q.records
  BY <1>2, <1>3, <1>4 DEF InPlan, SyncRecords, SamePlan
<1>7. ASSUME NEW x \in Paths PROVE Holds(v, x) /\ Covered(v, x) /\ Pure(v, x)
  <2>1. Holds(q, x) /\ Pure(q, x) BY <1>3 DEF InPlan
  <2> QED BY <1>6, <2>1 DEF SamePlan, Holds, Covered, Pure
<1>8. v.leased = {} BY <1>2, <1>3, <1>6 DEF InPlan
<1>9. Good(s, v) BY <1>3, <1>6, <1>7, <1>8, PlanGood DEF WithPlan, PublishedAll
<1>10. Quiet /\ sync' = [sync EXCEPT ![s] = v] BY <1>1, <1>4 DEF EvaluateFails, Become, Quiet
<1> QED BY <1>5, <1>9, <1>10, QuietAdvances

\* Another sync has another destination.
LEMMA OtherDestination ==
  ASSUME SyncTypeOK, GoodInv, NEW s \in Syncs, NEW t \in Syncs \ {s}, sync[s].pc # "idle",
         sync[t].pc # "idle"
  PROVE  /\ sync[t].dest # sync[s].dest /\ sync[t].dest \in Destinations
         /\ sync[s].dest \in Destinations
BY DEF GoodInv, Good

\* A sync writes one file of its own destination.
LEMMA WriteUndisturbed ==
  ASSUME SyncTypeOK, GoodInv, NEW s \in Syncs, NEW p \in Paths, NEW c, Write(s, p, c),
         sync[s].pc # "idle", edited' = edited, lock' = lock
  PROVE  \A t \in Syncs \ {s} : Undisturbed(sync[t])
<1> SUFFICES ASSUME NEW t \in Syncs \ {s}, sync[t].pc # "idle"
             PROVE  local'[sync[t].dest] = local[sync[t].dest]
  BY DEF Undisturbed
<1>1. PICK d : d = sync[s].dest OBVIOUS
<1>2. PICK e : e = sync[t].dest OBVIOUS
<1>3. d # e /\ e \in Destinations BY <1>1, <1>2, OtherDestination
<1>4. PICK f : local' = [local EXCEPT ![d] = f] BY <1>1 DEF Write
<1>5. local \in [Destinations -> [Paths -> Content]] BY DEF SyncTypeOK
<1> QED BY <1>2, <1>3, <1>4, <1>5

\* What a write leaves in the destination.
LEMMA WriteHere ==
  ASSUME SyncTypeOK, NEW s \in Syncs, NEW p \in Paths, NEW c, Write(s, p, c), sync[s].dest \in Destinations,
         NEW x \in Paths
  PROVE  local'[sync[s].dest][x] = IF x = p THEN c ELSE local[sync[s].dest][x]
<1>1. PICK d : d = sync[s].dest OBVIOUS
<1>2. local \in [Destinations -> [Paths -> Content]] BY DEF SyncTypeOK
<1>3. PICK f : f = [local[d] EXCEPT ![p] = c] OBVIOUS
<1>4. local' = [local EXCEPT ![d] = f] BY <1>1, <1>3 DEF Write
<1>5. local'[d] = f BY <1>1, <1>2, <1>4
<1>6. local[d] \in [Paths -> Content] BY <1>1, <1>2
<1>7. f[x] = IF x = p THEN c ELSE local[d][x] BY <1>3, <1>6
<1> QED BY <1>1, <1>5, <1>7

\* One file of the plan is published and gets its record.
Publishes(q, v, p) ==
  /\ SamePlan(q, v) /\ v.pc = q.pc /\ q.pc \in {"local", "download"} /\ q.plan[p] # Absent
  /\ v.todo = q.todo /\ v.staged \subseteq q.staged /\ q.staged \subseteq v.staged \cup {p}
  /\ v.downloads = q.downloads /\ v.leased = q.leased /\ v.error = q.error
  /\ \A x \in Paths : v.fetched[x] = q.fetched[x] \/ v.fetched[x] = Absent
  /\ v.records = [q.records EXCEPT ![p] = q.plan[p]]

LEMMA PublishAdvances ==
  ASSUME SyncTypeOK, GoodInv, NEW s \in Syncs, NEW q, q = sync[s], InPlan(s, q),
         NEW p \in Paths, NEW v \in SyncRecords, Publishes(q, v, p), Write(s, p, q.plan[p]),
         edited' = edited, lock' = lock, history' = history, sync' = [sync EXCEPT ![s] = v]
  PROVE  Advances(s)
<1> USE DEF Publishes
<1>1. HistoryGrows BY HistoryStays
<1>2. sync[s].pc # "idle" OBVIOUS
<1>3. \A t \in Syncs \ {s} : Undisturbed(sync[t]) BY <1>2, WriteUndisturbed
<1>4. q.dest \in Destinations BY DEF InPlan
<1>5. \A x \in Paths : local'[q.dest][x] = IF x = p THEN q.plan[p] ELSE local[q.dest][x]
  BY <1>4, WriteHere
<1>6. \A x \in Paths : v.records[x] = IF x = p THEN q.plan[p] ELSE q.records[x]
  BY DEF InPlan, Files
<1>7. ASSUME NEW x \in Paths PROVE Holds(v, x)' /\ Covered(v, x)' /\ Pure(v, x)'
  <2>1. Holds(q, x) /\ Covered(q, x) /\ Pure(q, x) BY DEF InPlan
  <2>2. Holds(v, x)' BY <1>5, <1>6, <2>1 DEF Holds, SamePlan
  <2>3. Covered(v, x)' BY <1>6, <2>1 DEF Covered, SamePlan
  <2>4. Pure(v, x)' BY <2>1 DEF Pure, SamePlan
  <2> QED BY <2>2, <2>3, <2>4
<1>8. Good(s, v)'
  <2>1. v.dest \in Destinations /\ lock'[v.dest] = s BY DEF SamePlan, InPlan
  <2>2. v.fence \in 1..Len(history') /\ v.plan = history'[v.fence] BY DEF SamePlan, InPlan
  <2>3. v.pc = "local" => v.leased = {} BY DEF InPlan
  <2>4. v.pc \in {"watch", "download"} => v.todo = {} /\ v.staged = {} /\ v.error = FALSE
    BY DEF InPlan
  <2> QED BY <1>7, <2>1, <2>2, <2>3, <2>4 DEF Good, WithPlan, PublishedAll
<1> QED BY <1>1, <1>3, <1>8 DEF Advances

LEMMA PublishStagedAdvances ==
  ASSUME SyncTypeOK, GoodInv, NEW s \in Syncs, NEW p \in Paths, PublishStaged(s, p)
  PROVE  Advances(s)
<1>1. PICK q : q = sync[s] OBVIOUS
<1>2. q.pc = "local" /\ p \in q.staged BY <1>1 DEF PublishStaged, At
<1>3. InPlan(s, q) BY <1>1, <1>2, PlanFacts DEF WithPlan
<1>4. PICK f : f = [q.records EXCEPT ![p] = q.plan[p]] OBVIOUS
<1>5. f \in Files BY <1>3, <1>4 DEF InPlan, Files
<1>6. PICK v : v = [q EXCEPT !.staged = q.staged \ {p}, !.records = f] OBVIOUS
<1>7. v \in SyncRecords BY <1>3, <1>5, <1>6 DEF InPlan, SyncRecords
<1>8. /\ SamePlan(q, v) /\ v.pc = q.pc /\ v.todo = q.todo /\ v.staged = q.staged \ {p}
      /\ v.downloads = q.downloads /\ v.leased = q.leased /\ v.error = q.error
      /\ v.fetched = q.fetched /\ v.records = f
  BY <1>3, <1>6 DEF InPlan, SyncRecords, SamePlan
<1>9. q.plan[p] # Absent BY <1>2, <1>3 DEF InPlan, Pure
<1>10. Write(s, p, q.plan[p]) /\ edited' = edited /\ lock' = lock /\ history' = history
  BY <1>1 DEF PublishStaged
<1>11. sync' = [sync EXCEPT ![s] = v] BY <1>1, <1>4, <1>6 DEF PublishStaged, Become
<1>12. v.staged \subseteq q.staged /\ q.staged \subseteq v.staged \cup {p} BY <1>8
<1>13. Publishes(q, v, p) BY <1>2, <1>4, <1>8, <1>9, <1>12 DEF Publishes
<1> QED BY <1>1, <1>3, <1>7, <1>10, <1>11, <1>13, PublishAdvances

LEMMA PublishDownloadAdvances ==
  ASSUME SyncTypeOK, GoodInv, NEW s \in Syncs, NEW p \in Paths, PublishDownload(s, p)
  PROVE  Advances(s)
<1>1. PICK q : q = sync[s] OBVIOUS
<1>2. q.pc = "download" /\ q.fetched[p] # Absent BY <1>1 DEF PublishDownload, At
<1>3. InPlan(s, q) BY <1>1, <1>2, PlanFacts DEF WithPlan
<1>4. PICK f : f = [q.records EXCEPT ![p] = q.plan[p]] OBVIOUS
<1>5. f \in Files BY <1>3, <1>4 DEF InPlan, Files
<1>6. PICK g : g = [q.fetched EXCEPT ![p] = Absent] OBVIOUS
<1>7. g \in [Paths -> Content] BY <1>3, <1>6 DEF InPlan, Content
<1>8. PICK v : v = [q EXCEPT !.fetched = g, !.records = f] OBVIOUS
<1>9. v \in SyncRecords BY <1>3, <1>5, <1>7, <1>8 DEF InPlan, SyncRecords
<1>10. /\ SamePlan(q, v) /\ v.pc = q.pc /\ v.todo = q.todo /\ v.staged = q.staged
       /\ v.downloads = q.downloads /\ v.leased = q.leased /\ v.error = q.error
       /\ v.fetched = g /\ v.records = f
  BY <1>3, <1>8 DEF InPlan, SyncRecords, SamePlan
<1>11. q.fetched[p] = q.plan[p] BY <1>2, <1>3 DEF InPlan, Pure
<1>12. q.plan[p] # Absent BY <1>2, <1>11
<1>13. Write(s, p, q.plan[p]) /\ edited' = edited /\ lock' = lock /\ history' = history
  BY <1>1, <1>11 DEF PublishDownload
<1>14. sync' = [sync EXCEPT ![s] = v] BY <1>1, <1>4, <1>6, <1>8 DEF PublishDownload, Become
<1>15. \A x \in Paths : v.fetched[x] = q.fetched[x] \/ v.fetched[x] = Absent
  BY <1>3, <1>6, <1>10 DEF InPlan
<1>16. v.staged \subseteq q.staged /\ q.staged \subseteq v.staged \cup {p} BY <1>10
<1>17. Publishes(q, v, p) BY <1>2, <1>4, <1>10, <1>12, <1>15, <1>16 DEF Publishes
<1> QED BY <1>1, <1>3, <1>9, <1>13, <1>14, <1>17, PublishAdvances

LEMMA LocalDoneAdvances ==
  ASSUME SyncTypeOK, GoodInv, NEW s \in Syncs, LocalDone(s) PROVE Advances(s)
<1>1. PICK q : q = sync[s] OBVIOUS
<1>2. q.pc = "local" /\ q.todo = {} /\ q.staged = {} BY <1>1 DEF LocalDone, At
<1>3. InPlan(s, q) BY <1>1, <1>2, PlanFacts DEF WithPlan
<1>4. Quiet BY DEF LocalDone, Quiet
<1>5. CASE q.error
  <2>1. Become(s, Returned(s, "failed")) BY <1>1, <1>5 DEF LocalDone
  <2> QED BY <1>1, <1>2, <1>4, <2>1, FailedAdvances
<1>6. CASE ~q.error
  <2>1. PICK pc : pc = IF q.downloads = {} THEN "final" ELSE "watch" OBVIOUS
  <2>2. PICK v : v = [q EXCEPT !.pc = pc] OBVIOUS
  <2>3. pc \in {"final", "watch"} BY <2>1
  <2>4. v \in SyncRecords BY <1>3, <2>2, <2>3 DEF InPlan, SyncRecords
  <2>5. /\ SamePlan(q, v) /\ v.pc = pc /\ v.todo = q.todo /\ v.staged = q.staged
        /\ v.downloads = q.downloads /\ v.leased = q.leased /\ v.error = q.error
        /\ v.fetched = q.fetched /\ v.records = q.records
    BY <1>3, <2>2 DEF InPlan, SyncRecords, SamePlan
  <2>6. q.error = FALSE /\ q.leased = {}
    <3>1. q.error \in BOOLEAN BY <1>3 DEF InPlan, SyncRecords
    <3> QED BY <1>2, <1>3, <1>6, <3>1 DEF InPlan
  <2>7. ASSUME NEW x \in Paths PROVE Holds(v, x) /\ Covered(v, x) /\ Pure(v, x)
    <3>1. Holds(q, x) /\ Covered(q, x) /\ Pure(q, x) BY <1>3 DEF InPlan
    <3> QED BY <2>5, <3>1 DEF SamePlan, Holds, Covered, Pure
  <2>8. ASSUME pc = "final", NEW x \in Paths, v.plan[x] # Absent PROVE v.records[x] # Absent
    <3>1. q.downloads = {} BY <2>1, <2>8
    <3> QED BY <1>2, <2>5, <2>6, <2>7, <2>8, <3>1 DEF Covered
  <2>9. Good(s, v)
    BY <1>2, <1>3, <2>3, <2>5, <2>6, <2>7, <2>8, PlanGood DEF WithPlan, PublishedAll
  <2>10. sync' = [sync EXCEPT ![s] = v] BY <1>1, <1>6, <2>1, <2>2 DEF LocalDone, Become
  <2> QED BY <1>4, <2>4, <2>9, <2>10, QuietAdvances
<1> QED BY <1>5, <1>6

\* A sync whose plan stays while files are fetched: nothing that was to be done
\* is forgotten, and it gets no record.
Continues(q, v) ==
  /\ SamePlan(q, v) /\ v.records = q.records
  /\ v.todo = q.todo /\ v.staged = q.staged /\ v.error = q.error
  /\ \A x \in Paths : v.fetched[x] # Absent => v.fetched[x] = q.plan[x]
  /\ \/ /\ q.pc \in {"watch", "download"} /\ v.pc = "download"
        /\ q.downloads \cup q.leased \subseteq v.downloads \cup v.leased
     \/ /\ v.pc \in PublishedAll
        /\ \A x \in Paths : q.plan[x] # Absent => q.records[x] # Absent

LEMMA ContinuesAdvances ==
  ASSUME SyncTypeOK, NEW s \in Syncs, NEW q, q = sync[s], InPlan(s, q), Quiet,
         NEW v \in SyncRecords, Continues(q, v), sync' = [sync EXCEPT ![s] = v]
  PROVE  Advances(s)
<1>1. SamePlan(q, v) /\ v.records = q.records BY DEF Continues
<1>2. ASSUME NEW x \in Paths PROVE Holds(v, x) /\ Covered(v, x) /\ Pure(v, x)
  <2>1. Holds(q, x) /\ Covered(q, x) /\ Pure(q, x) BY DEF InPlan
  <2>2. Holds(v, x) BY <1>1, <2>1 DEF Holds, SamePlan
  <2>3. Pure(v, x) BY <2>1 DEF Continues, Pure, SamePlan
  <2>4. Covered(v, x) BY <2>1 DEF Continues, Covered, SamePlan
  <2> QED BY <2>2, <2>3, <2>4
<1>3. v.pc \in {"download", "final", "write", "done"} BY DEF Continues, PublishedAll
<1>4. v.pc = "download" => v.todo = {} /\ v.staged = {} /\ v.error = FALSE
  BY DEF Continues, InPlan, PublishedAll
<1>5. v.pc \in PublishedAll => \A x \in Paths : v.plan[x] # Absent => v.records[x] # Absent
  BY <1>1 DEF Continues, PublishedAll, SamePlan
<1>6. Good(s, v) BY <1>1, <1>2, <1>3, <1>4, <1>5, PlanGood DEF WithPlan
<1> QED BY <1>6, QuietAdvances

\* What a sync that downloads knows of what it fetched.
LEMMA FetchedPure ==
  ASSUME NEW s, NEW q, InPlan(s, q), NEW x \in Paths, q.fetched[x] # Absent
  PROVE  q.fetched[x] = q.plan[x]
BY DEF InPlan, Pure

LEMMA OpenWatchAdvances ==
  ASSUME SyncTypeOK, GoodInv, NEW s \in Syncs, OpenWatch(s) PROVE Advances(s)
<1>1. PICK q : q = sync[s] OBVIOUS
<1>2. q.pc = "watch" BY <1>1 DEF OpenWatch, At
<1>3. InPlan(s, q) BY <1>1, <1>2, PlanFacts DEF WithPlan
<1>4. Quiet BY DEF OpenWatch, Quiet
<1>5. ASSUME NEW w \in BOOLEAN, NEW v, v = [q EXCEPT !.pc = "download", !.watch = w],
             sync' = [sync EXCEPT ![s] = v]
      PROVE  Advances(s)
  <2>1. v \in SyncRecords BY <1>3, <1>5 DEF InPlan, SyncRecords
  <2>2. /\ SamePlan(q, v) /\ v.pc = "download" /\ v.todo = q.todo /\ v.staged = q.staged
        /\ v.downloads = q.downloads /\ v.leased = q.leased /\ v.error = q.error
        /\ v.fetched = q.fetched /\ v.records = q.records
    BY <1>3, <1>5 DEF InPlan, SyncRecords, SamePlan
  <2>3. Continues(q, v) BY <1>2, <1>3, <2>2, FetchedPure DEF Continues
  <2> QED BY <1>1, <1>3, <1>4, <1>5, <2>1, <2>3, ContinuesAdvances
<1>6. CASE Proceed(s, "download")
  <2>1. q \in SyncRecords /\ q.watch \in BOOLEAN BY <1>3 DEF InPlan, SyncRecords
  <2>2. PICK v : v = [q EXCEPT !.pc = "download"] OBVIOUS
  <2>3. v = [q EXCEPT !.pc = "download", !.watch = q.watch] BY <2>1, <2>2 DEF SyncRecords
  <2>4. sync' = [sync EXCEPT ![s] = v] BY <1>1, <1>6, <2>2 DEF Proceed, Become
  <2> QED BY <1>5, <2>1, <2>3, <2>4
<1>7. CASE ~Proceed(s, "download") /\ Revision = q.fence
  <2>1. PICK v : v = [q EXCEPT !.pc = "download", !.watch = TRUE] OBVIOUS
  <2>2. sync' = [sync EXCEPT ![s] = v] BY <1>1, <1>7, <2>1 DEF OpenWatch, Become
  <2> QED BY <1>5, <2>1, <2>2
<1>8. CASE ~Proceed(s, "download") /\ Revision # q.fence
  <2>1. Become(s, Returned(s, "failed")) BY <1>1, <1>8 DEF OpenWatch
  <2> QED BY <1>1, <1>2, <1>4, <2>1, FailedAdvances
<1> QED BY <1>6, <1>7, <1>8

LEMMA WatchEventAdvances ==
  ASSUME SyncTypeOK, GoodInv, NEW s \in Syncs, WatchEvent(s) PROVE Advances(s)
<1>1. sync[s].pc # "idle" /\ Become(s, Returned(s, "failed")) BY DEF WatchEvent, At, Abort
<1>2. Quiet BY DEF WatchEvent, Quiet
<1> QED BY <1>1, <1>2, FailedAdvances

LEMMA FailAdvances ==
  ASSUME SyncTypeOK, GoodInv, NEW s \in Syncs, Fail(s) PROVE Advances(s)
<1>1. sync[s].pc # "idle" /\ Become(s, Returned(s, "failed")) BY DEF Fail, Abort
<1>2. Quiet BY DEF Fail, Quiet
<1> QED BY <1>1, <1>2, FailedAdvances

LEMMA WatchLostAdvances ==
  ASSUME SyncTypeOK, GoodInv, NEW s \in Syncs, WatchLost(s) PROVE Advances(s)
<1>1. PICK q : q = sync[s] OBVIOUS
<1>2. q.pc = "download" BY <1>1 DEF WatchLost, At
<1>3. InPlan(s, q) BY <1>1, <1>2, PlanFacts DEF WithPlan
<1>4. PICK v : v = [q EXCEPT !.watch = FALSE] OBVIOUS
<1>5. v \in SyncRecords BY <1>3, <1>4 DEF InPlan, SyncRecords
<1>6. /\ SamePlan(q, v) /\ v.pc = q.pc /\ v.todo = q.todo /\ v.staged = q.staged
      /\ v.downloads = q.downloads /\ v.leased = q.leased /\ v.error = q.error
      /\ v.fetched = q.fetched /\ v.records = q.records
  BY <1>3, <1>4 DEF InPlan, SyncRecords, SamePlan
<1>7. Continues(q, v) BY <1>2, <1>3, <1>6, FetchedPure DEF Continues
<1>8. Quiet /\ sync' = [sync EXCEPT ![s] = v] BY <1>1, <1>4 DEF WatchLost, Become, Quiet
<1> QED BY <1>1, <1>3, <1>5, <1>7, <1>8, ContinuesAdvances

LEMMA PrepareAdvances ==
  ASSUME SyncTypeOK, GoodInv, NEW s \in Syncs, NEW p \in Paths, Prepare(s, p) PROVE Advances(s)
<1>1. PICK q : q = sync[s] OBVIOUS
<1>2. q.pc = "download" BY <1>1 DEF Prepare, At
<1>3. InPlan(s, q) BY <1>1, <1>2, PlanFacts DEF WithPlan
<1>4. PICK v : v = [q EXCEPT !.downloads = q.downloads \ {p}, !.leased = q.leased \cup {p}] OBVIOUS
<1>5. v \in SyncRecords BY <1>3, <1>4 DEF InPlan, SyncRecords
<1>6. /\ SamePlan(q, v) /\ v.pc = q.pc /\ v.todo = q.todo /\ v.staged = q.staged
      /\ v.downloads = q.downloads \ {p} /\ v.leased = q.leased \cup {p} /\ v.error = q.error
      /\ v.fetched = q.fetched /\ v.records = q.records
  BY <1>3, <1>4 DEF InPlan, SyncRecords, SamePlan
<1>7. q.downloads \cup q.leased \subseteq v.downloads \cup v.leased BY <1>6
<1>8. Continues(q, v) BY <1>2, <1>3, <1>6, <1>7, FetchedPure DEF Continues
<1>9. Quiet /\ sync' = [sync EXCEPT ![s] = v] BY <1>1, <1>4 DEF Prepare, Become, Quiet
<1> QED BY <1>1, <1>3, <1>5, <1>8, <1>9, ContinuesAdvances

LEMMA LockStagingAdvances ==
  ASSUME SyncTypeOK, GoodInv, NEW s \in Syncs, NEW p \in Paths, LockStaging(s, p) PROVE Advances(s)
<1>1. PICK q : q = sync[s] OBVIOUS
<1>2. q.pc = "download" BY <1>1 DEF LockStaging, At
<1>3. InPlan(s, q) BY <1>1, <1>2, PlanFacts DEF WithPlan
<1>4. PICK v : v = [q EXCEPT !.fetching = q.fetching \cup {p}] OBVIOUS
<1>5. v \in SyncRecords BY <1>3, <1>4 DEF InPlan, SyncRecords
<1>6. /\ SamePlan(q, v) /\ v.pc = q.pc /\ v.todo = q.todo /\ v.staged = q.staged
      /\ v.downloads = q.downloads /\ v.leased = q.leased /\ v.error = q.error
      /\ v.fetched = q.fetched /\ v.records = q.records
  BY <1>3, <1>4 DEF InPlan, SyncRecords, SamePlan
<1>7. Continues(q, v) BY <1>2, <1>3, <1>6, FetchedPure DEF Continues
<1>8. Quiet /\ sync' = [sync EXCEPT ![s] = v] BY <1>1, <1>4 DEF LockStaging, Become, Quiet
<1> QED BY <1>1, <1>3, <1>5, <1>7, <1>8, ContinuesAdvances

LEMMA FinishFetchAdvances ==
  ASSUME SyncTypeOK, GoodInv, NEW s \in Syncs, NEW p \in Paths, NEW c, FinishFetch(s, p, c)
  PROVE  Advances(s)
<1>1. PICK q : q = sync[s] OBVIOUS
<1>2. q.pc = "download" BY <1>1 DEF FinishFetch, At
<1>3. InPlan(s, q) BY <1>1, <1>2, PlanFacts DEF WithPlan
<1>4. Quiet BY DEF FinishFetch, Quiet
<1>5. CASE ~Verified(s, p, c)
  <2>1. Become(s, Returned(s, "failed")) BY <1>5 DEF FinishFetch, Abort
  <2> QED BY <1>1, <1>2, <1>4, <2>1, FailedAdvances
<1>6. CASE Verified(s, p, c)
  <2>1. c = q.plan[p] BY <1>1, <1>6 DEF Verified, Matches
  <2>2. q.plan[p] \in Versions \cup {Absent} BY <1>3 DEF InPlan, Files
  <2>3. PICK g : g = [q.fetched EXCEPT ![p] = c] OBVIOUS
  <2>4. g \in [Paths -> Content] BY <1>3, <2>1, <2>2, <2>3 DEF InPlan, Content
  <2>5. \A x \in Paths : g[x] = IF x = p THEN q.plan[p] ELSE q.fetched[x]
    BY <1>3, <2>1, <2>3 DEF InPlan
  <2>6. PICK v : v = [q EXCEPT !.fetching = q.fetching \ {p}, !.fetched = g] OBVIOUS
  <2>7. v \in SyncRecords BY <1>3, <2>4, <2>6 DEF InPlan, SyncRecords
  <2>8. /\ SamePlan(q, v) /\ v.pc = q.pc /\ v.todo = q.todo /\ v.staged = q.staged
        /\ v.downloads = q.downloads /\ v.leased = q.leased /\ v.error = q.error
        /\ v.fetched = g /\ v.records = q.records
    BY <1>3, <2>6 DEF InPlan, SyncRecords, SamePlan
  <2>9. \A x \in Paths : v.fetched[x] # Absent => v.fetched[x] = q.plan[x]
    BY <1>3, <2>5, <2>8, FetchedPure
  <2>10. Continues(q, v) BY <1>2, <2>8, <2>9 DEF Continues
  <2>11. sync' = [sync EXCEPT ![s] = v] BY <1>1, <1>6, <2>3, <2>6 DEF FinishFetch, Become
  <2> QED BY <1>1, <1>3, <1>4, <2>7, <2>10, <2>11, ContinuesAdvances
<1> QED BY <1>5, <1>6

LEMMA CompleteLeasesAdvances ==
  ASSUME SyncTypeOK, GoodInv, NEW s \in Syncs, CompleteLeases(s) PROVE Advances(s)
<1>1. PICK q : q = sync[s] OBVIOUS
<1>2. /\ q.pc = "download" /\ q.downloads = {}
      /\ \A p \in q.leased : q.records[p] # Absent
  BY <1>1 DEF CompleteLeases, At
<1>3. InPlan(s, q) BY <1>1, <1>2, PlanFacts DEF WithPlan
<1>4. PICK v : v = [q EXCEPT !.pc = "final", !.leased = {}, !.watch = FALSE] OBVIOUS
<1>5. v \in SyncRecords BY <1>3, <1>4 DEF InPlan, SyncRecords
<1>6. /\ SamePlan(q, v) /\ v.pc = "final" /\ v.todo = q.todo /\ v.staged = q.staged
      /\ v.error = q.error /\ v.fetched = q.fetched /\ v.records = q.records
  BY <1>3, <1>4 DEF InPlan, SyncRecords, SamePlan
<1>7. ASSUME NEW x \in Paths, q.plan[x] # Absent PROVE q.records[x] # Absent
  <2>1. Covered(q, x) /\ q.todo = {} /\ q.staged = {} /\ q.error = FALSE BY <1>2, <1>3 DEF InPlan
  <2> QED BY <1>2, <1>7, <2>1 DEF Covered
<1>8. Continues(q, v) BY <1>3, <1>6, <1>7, FetchedPure DEF Continues, PublishedAll
<1>9. Quiet /\ sync' = [sync EXCEPT ![s] = v] BY <1>1, <1>4 DEF CompleteLeases, Become, Quiet
<1> QED BY <1>1, <1>3, <1>5, <1>8, <1>9, ContinuesAdvances

\* A sync that published everything goes on.
LEMMA GotoAdvances ==
  ASSUME SyncTypeOK, GoodInv, NEW s \in Syncs, sync[s].pc \in PublishedAll, NEW pc \in PublishedAll,
         Proceed(s, pc), Quiet
  PROVE  Advances(s)
<1>1. PICK q : q = sync[s] OBVIOUS
<1>2. InPlan(s, q) BY <1>1, PlanFacts DEF WithPlan, PublishedAll
<1>3. PICK v : v = [q EXCEPT !.pc = pc] OBVIOUS
<1>4. pc \in {"final", "write", "done"} BY DEF PublishedAll
<1>5. v \in SyncRecords BY <1>2, <1>3, <1>4 DEF InPlan, SyncRecords
<1>6. /\ SamePlan(q, v) /\ v.pc = pc /\ v.todo = q.todo /\ v.staged = q.staged
      /\ v.error = q.error /\ v.fetched = q.fetched /\ v.records = q.records
  BY <1>2, <1>3 DEF InPlan, SyncRecords, SamePlan
<1>7. \A x \in Paths : q.plan[x] # Absent => q.records[x] # Absent BY <1>1, <1>2 DEF InPlan
<1>8. Continues(q, v) BY <1>2, <1>6, <1>7, FetchedPure DEF Continues
<1>9. sync' = [sync EXCEPT ![s] = v] BY <1>1, <1>3 DEF Proceed, Become
<1> QED BY <1>1, <1>2, <1>5, <1>8, <1>9, ContinuesAdvances

LEMMA FinalFenceAdvances ==
  ASSUME SyncTypeOK, GoodInv, NEW s \in Syncs, FinalFence(s) PROVE Advances(s)
<1>1. sync[s].pc = "final" BY DEF FinalFence, At
<1>2. Quiet BY DEF FinalFence, Quiet
<1>3. CASE Revision = sync[s].fence
  <2>1. Proceed(s, "write") BY <1>3 DEF FinalFence
  <2> QED BY <1>1, <1>2, <2>1, GotoAdvances DEF PublishedAll
<1>4. CASE Revision # sync[s].fence
  <2>1. Become(s, Returned(s, "failed")) BY <1>4 DEF FinalFence
  <2> QED BY <1>1, <1>2, <2>1, FailedAdvances
<1> QED BY <1>3, <1>4

LEMMA WriteStateAdvances ==
  ASSUME SyncTypeOK, GoodInv, NEW s \in Syncs, WriteState(s) PROVE Advances(s)
<1>1. sync[s].pc = "write" /\ Proceed(s, "done") BY DEF WriteState, At
<1>2. Quiet BY DEF WriteState, Quiet
<1> QED BY <1>1, <1>2, GotoAdvances DEF PublishedAll

\* A sync ends: its destination is free.
LEMMA ReleaseAdvances ==
  ASSUME SyncTypeOK, GoodInv, NEW s \in Syncs, sync[s].pc # "idle", Become(s, Idle),
         lock' = [lock EXCEPT ![sync[s].dest] = Nil], local' = local, edited' = edited,
         history' = history
  PROVE  Advances(s)
<1>1. HistoryGrows BY HistoryStays
<1>2. PICK i : i = Idle OBVIOUS
<1>3. i \in SyncRecords /\ i.pc = "idle" BY <1>2, IdleType
<1>4. Good(s, i)' BY <1>3 DEF Good, WithPlan, PublishedAll
<1>5. ASSUME NEW t \in Syncs \ {s}, sync[t].pc # "idle"
      PROVE  lock'[sync[t].dest] = lock[sync[t].dest]
  <2>1. sync[t].dest # sync[s].dest /\ sync[t].dest \in Destinations BY <1>5, OtherDestination
  <2>2. lock \in [Destinations -> Syncs \cup {Nil}] BY DEF SyncTypeOK
  <2> QED BY <2>1, <2>2
<1>6. \A t \in Syncs \ {s} : Undisturbed(sync[t]) BY <1>5 DEF Undisturbed
<1>7. sync' = [sync EXCEPT ![s] = i] BY <1>2 DEF Become
<1> QED BY <1>1, <1>3, <1>4, <1>6, <1>7 DEF Advances

LEMMA ReturnAdvances ==
  ASSUME SyncTypeOK, GoodInv, NEW s \in Syncs, Return(s) PROVE Advances(s)
BY ReleaseAdvances DEF Return

LEMMA KillAdvances ==
  ASSUME SyncTypeOK, GoodInv, NEW s \in Syncs, Kill(s) PROVE Advances(s)
BY ReleaseAdvances DEF Kill, At

LEMMA StartAdvances ==
  ASSUME SyncTypeOK, GoodInv, NEW s \in Syncs, NEW d \in Destinations, Start(s, d) PROVE Advances(s)
<1>1. HistoryGrows BY HistoryStays DEF Start
<1>2. PICK i : i = Idle OBVIOUS
<1>3. PICK v : v = [i EXCEPT !.pc = "state", !.dest = d] OBVIOUS
<1>4. i \in SyncRecords /\ Blank(i) BY <1>2, IdleType
<1>5. v \in SyncRecords /\ v.pc = "state" /\ v.dest = d BY <1>3, <1>4 DEF SyncRecords
<1>6. Blank(v) BY <1>3, <1>4 DEF SyncRecords, Blank
<1>7. lock \in [Destinations -> Syncs \cup {Nil}] /\ edited \in [Destinations -> SUBSET Paths]
  BY DEF SyncTypeOK
<1>8. lock'[d] = s BY <1>7 DEF Start
<1>9. Blank(v)' BY <1>6 DEF Blank, Empty
<1>10. Good(s, v)' BY <1>5, <1>8, <1>9 DEF Good, WithPlan, PublishedAll
<1>11. ASSUME NEW t \in Syncs \ {s}, sync[t].pc # "idle" PROVE Undisturbed(sync[t])
  <2>1. sync[t].dest \in Destinations /\ lock[sync[t].dest] = t BY <1>11 DEF GoodInv, Good
  <2>2. lock[d] = Nil BY DEF Start
  <2>3. sync[t].dest # d BY <2>1, <2>2, Assumed
  <2>4. lock'[sync[t].dest] = lock[sync[t].dest] BY <1>7, <2>1, <2>3 DEF Start
  <2>5. edited'[sync[t].dest] = edited[sync[t].dest] BY <1>7, <2>1, <2>3 DEF Start
  <2>6. local' = local BY DEF Start
  <2> QED BY <2>4, <2>5, <2>6 DEF Undisturbed
<1>12. \A t \in Syncs \ {s} : Undisturbed(sync[t]) BY <1>11 DEF Undisturbed
<1>13. sync' = [sync EXCEPT ![s] = v] BY <1>2, <1>3 DEF Start, Become
<1> QED BY <1>1, <1>5, <1>10, <1>12, <1>13 DEF Advances

-----------------------------------------------------------------------------
(* The others: the source, the user, `fs get' *)

\* A step that no sync takes and that disturbs none.
Passes == sync' = sync /\ HistoryGrows /\ \A t \in Syncs : Undisturbed(sync[t])

LEMMA MutatePasses ==
  ASSUME SyncTypeOK, Mutate
  PROVE  Passes /\ history' \in Seq(Trees) /\ Len(history') > 0
<1>1. history \in Seq(Trees) /\ Len(history) > 0 BY DEF SyncTypeOK, Revision
<1>2. PICK t \in Trees : history' = Append(history, t) BY DEF Mutate
<1>3. history' \in Seq(Trees) /\ Len(history') = Len(history) + 1 /\ Len(history) \in Nat
  BY <1>1, <1>2
<1>4. \A r \in 1..Len(history) : history'[r] = history[r] BY <1>1, <1>2
<1>5. HistoryGrows BY <1>3, <1>4 DEF HistoryGrows
<1>6. sync' = sync /\ \A u \in Syncs : Undisturbed(sync[u]) BY DEF Mutate, Undisturbed
<1> QED BY <1>1, <1>3, <1>5, <1>6 DEF Passes

LEMMA DamageIndexPasses == ASSUME SyncTypeOK, DamageIndex PROVE Passes
<1>1. HistoryGrows BY HistoryStays DEF DamageIndex
<1> QED BY <1>1 DEF DamageIndex, Passes, Undisturbed

\* The user or `fs get' writes one file.
Touches(d, p, c) ==
  /\ c \in Content
  /\ local' = [local EXCEPT ![d][p] = c]
  /\ edited' = [edited EXCEPT ![d] = @ \cup {p}]
  /\ lock' = lock /\ history' = history /\ sync' = sync

LEMMA TouchesPasses ==
  ASSUME SyncTypeOK, GoodInv, NEW d \in Destinations, NEW p \in Paths, NEW c, Touches(d, p, c)
  PROVE  /\ Passes
         /\ local' \in [Destinations -> [Paths -> Content]]
         /\ edited' \in [Destinations -> SUBSET Paths]
<1>1. HistoryGrows BY HistoryStays DEF Touches
<1>2. /\ local \in [Destinations -> [Paths -> Content]]
      /\ edited \in [Destinations -> SUBSET Paths]
  BY DEF SyncTypeOK
<1>3. PICK f : f = [local[d] EXCEPT ![p] = c] OBVIOUS
<1>4. f \in [Paths -> Content] BY <1>2, <1>3 DEF Touches
<1>5. local' = [local EXCEPT ![d] = f] BY <1>3 DEF Touches
<1>6. PICK e : e = edited[d] \cup {p} OBVIOUS
<1>7. edited' = [edited EXCEPT ![d] = e] BY <1>6 DEF Touches
<1>8. e \subseteq Paths /\ edited[d] \subseteq e BY <1>2, <1>6
<1>9. ASSUME NEW t \in Syncs, sync[t].pc # "idle" PROVE Undisturbed(sync[t])
  <2>1. PICK x : x = sync[t].dest OBVIOUS
  <2>2. x \in Destinations BY <1>9, <2>1 DEF GoodInv, Good
  <2>3. edited[x] \subseteq edited'[x] BY <1>2, <1>7, <1>8, <2>2
  <2>4. ASSUME NEW y \in Paths PROVE local'[x][y] = local[x][y] \/ y \in edited'[x]
    <3>1. CASE x # d BY <1>2, <1>5, <2>2, <3>1
    <3>2. CASE x = d
      <4>1. local'[x] = f /\ edited'[x] = e BY <1>2, <1>5, <1>7, <3>2
      <4>2. y # p => f[y] = local[d][y] BY <1>2, <1>3
      <4> QED BY <1>6, <3>2, <4>1, <4>2
    <3> QED BY <3>1, <3>2
  <2> QED BY <2>1, <2>3, <2>4 DEF Undisturbed, Touches
<1>10. sync' = sync /\ \A t \in Syncs : Undisturbed(sync[t]) BY <1>9 DEF Undisturbed, Touches
<1>11. Passes BY <1>1, <1>10 DEF Passes
<1>12. local' \in [Destinations -> [Paths -> Content]] BY <1>2, <1>4, <1>5
<1>13. edited' \in [Destinations -> SUBSET Paths] BY <1>2, <1>7, <1>8
<1> QED BY <1>11, <1>12, <1>13

LEMMA EditTouches ==
  ASSUME SyncTypeOK, NEW d \in Destinations, NEW p \in Paths, Edit(d, p)
  PROVE  \E c \in Content : Touches(d, p, c)
BY DEF Edit, Touches, Content

LEMMA GetFileTouches ==
  ASSUME SyncTypeOK, NEW d \in Destinations, NEW p \in Paths, GetFile(d, p)
  PROVE  \E c \in Content : Touches(d, p, c)
<1>1. history[Revision] \in Files BY TreeType
<1>2. history[Revision][p] \in Content BY <1>1 DEF Files, Content
<1> QED BY <1>2 DEF GetFile, Touches

-----------------------------------------------------------------------------
(* Types of the shared state *)

SharedTyped ==
  /\ history' \in Seq(Trees) /\ Len(history') > 0
  /\ local' \in [Destinations -> [Paths -> Content]]
  /\ edited' \in [Destinations -> SUBSET Paths]
  /\ index' \in Files \cup {Nil}
  /\ lock' \in [Destinations -> Syncs \cup {Nil}]
  /\ staging' \in [Versions -> Syncs \cup {Nil}]

LEMMA SharedBefore ==
  ASSUME SyncTypeOK
  PROVE  /\ history \in Seq(Trees) /\ Len(history) > 0
         /\ local \in [Destinations -> [Paths -> Content]]
         /\ edited \in [Destinations -> SUBSET Paths]
         /\ index \in Files \cup {Nil}
         /\ lock \in [Destinations -> Syncs \cup {Nil}]
         /\ staging \in [Versions -> Syncs \cup {Nil}]
BY DEF SyncTypeOK, Revision

LEMMA FreeStagingType ==
  ASSUME SyncTypeOK, NEW s \in Syncs, FreeStaging(s)
  PROVE  staging' \in [Versions -> Syncs \cup {Nil}]
BY SharedBefore DEF FreeStaging

\* Steps that leave the shared state alone, but for the staging directories.
LEMMA SharedKept ==
  ASSUME SyncTypeOK, NEW s \in Syncs, Quiet, index' = index, staging' = staging \/ FreeStaging(s)
  PROVE  SharedTyped
BY SharedBefore, FreeStagingType DEF SharedTyped, Quiet

LEMMA StepKeepsTypes ==
  ASSUME SyncTypeOK, GoodInv, NEW s \in Syncs, Step(s) PROVE SharedTyped
<1> USE DEF Quiet
<1>1. CASE \/ OpenState(s) \/ PlanTree(s) \/ LocalDone(s) \/ OpenWatch(s) \/ WatchEvent(s)
           \/ CompleteLeases(s) \/ FinalFence(s)
  BY <1>1, SharedKept DEF OpenState, PlanTree, LocalDone, OpenWatch, WatchEvent, CompleteLeases,
                          FinalFence, Abort
<1>2. CASE WriteState(s)
  <2>1. sync[s].records \in Files BY DEF SyncTypeOK, SyncRecords
  <2> QED BY <1>2, <2>1, SharedBefore DEF WriteState, SharedTyped
<1>3. CASE Return(s) BY <1>3, SharedBefore DEF Return, SharedTyped
<1>4. ASSUME NEW p \in Paths, Evaluate(s, p) \/ Prepare(s, p) PROVE SharedTyped
  BY <1>4, SharedKept DEF Evaluate, Prepare
<1>5. ASSUME NEW p \in Paths, LockStaging(s, p) PROVE SharedTyped
  <2>1. staging' \in [Versions -> Syncs \cup {Nil}] BY <1>5, SharedBefore DEF LockStaging
  <2> QED BY <1>5, <2>1, SharedBefore DEF LockStaging, SharedTyped
<1>6. ASSUME NEW p \in Paths, FinishFetch(s, p, sync[s].plan[p]) PROVE SharedTyped
  <2>1. staging' \in [Versions -> Syncs \cup {Nil}]
    BY <1>6, SharedBefore, FreeStagingType DEF FinishFetch, Abort
  <2> QED BY <1>6, <2>1, SharedBefore DEF FinishFetch, SharedTyped
<1>7. ASSUME NEW p \in Paths, NEW c \in Content, Write(s, p, c)
      PROVE  local' \in [Destinations -> [Paths -> Content]]
  <2>1. PICK f : f = [local[sync[s].dest] EXCEPT ![p] = c] OBVIOUS
  <2>2. sync[s].dest \in Destinations => f \in [Paths -> Content] BY <2>1, SharedBefore
  <2>3. local' = [local EXCEPT ![sync[s].dest] = f] BY <1>7, <2>1 DEF Write
  <2> QED BY <2>2, <2>3, SharedBefore
<1>8. ASSUME NEW p \in Paths, PublishStaged(s, p) PROVE SharedTyped
  <2>1. sync[s].plan \in Files BY DEF SyncTypeOK, SyncRecords
  <2>2. sync[s].plan[p] \in Content BY <2>1 DEF Files, Content
  <2>3. local' \in [Destinations -> [Paths -> Content]] BY <1>7, <1>8, <2>2 DEF PublishStaged
  <2> QED BY <1>8, <2>3, SharedBefore DEF PublishStaged, SharedTyped
<1>9. ASSUME NEW p \in Paths, PublishDownload(s, p) PROVE SharedTyped
  <2>1. sync[s].fetched \in [Paths -> Content] BY DEF SyncTypeOK, SyncRecords
  <2>2. local' \in [Destinations -> [Paths -> Content]] BY <1>7, <1>9, <2>1 DEF PublishDownload
  <2> QED BY <1>9, <2>2, SharedBefore DEF PublishDownload, SharedTyped
<1> QED BY <1>1, <1>2, <1>3, <1>4, <1>5, <1>6, <1>8, <1>9 DEF Step

LEMMA TroubleKeepsTypes ==
  ASSUME SyncTypeOK, NEW s \in Syncs, Trouble(s) PROVE SharedTyped
<1> USE DEF Quiet
<1>1. CASE WatchLost(s) \/ Fail(s) BY <1>1, SharedKept DEF WatchLost, Fail, Abort
<1>2. CASE Kill(s)
  <2>1. staging' \in [Versions -> Syncs \cup {Nil}] BY <1>2, FreeStagingType DEF Kill
  <2> QED BY <1>2, <2>1, SharedBefore DEF Kill, SharedTyped
<1>3. ASSUME NEW p \in Paths, EvaluateFails(s, p) PROVE SharedTyped
  BY <1>3, SharedKept DEF EvaluateFails
<1>4. ASSUME NEW p \in Paths, FinishFetch(s, p, Foreign) PROVE SharedTyped
  <2>1. staging' \in [Versions -> Syncs \cup {Nil}]
    BY <1>4, SharedBefore, FreeStagingType DEF FinishFetch, Abort
  <2> QED BY <1>4, <2>1, SharedBefore DEF FinishFetch, SharedTyped
<1> QED BY <1>1, <1>2, <1>3, <1>4 DEF Trouble

LEMMA StartKeepsTypes ==
  ASSUME SyncTypeOK, NEW s \in Syncs, NEW d \in Destinations, Start(s, d) PROVE SharedTyped
BY SharedBefore DEF Start, SharedTyped

-----------------------------------------------------------------------------
(* The invariant *)

LEMMA AdvancesKeeps ==
  ASSUME SyncInv, NEW s \in Syncs, Advances(s), SharedTyped PROVE SyncInv'
<1>1. PICK v \in SyncRecords : sync' = [sync EXCEPT ![s] = v] /\ Good(s, v)' BY DEF Advances
<1>2. sync \in [Syncs -> SyncRecords] BY DEF SyncInv, SyncTypeOK
<1>3. sync' \in [Syncs -> SyncRecords] /\ sync'[s] = v /\ \A t \in Syncs \ {s} : sync'[t] = sync[t]
  BY <1>1, <1>2
<1>4. ASSUME NEW t \in Syncs \ {s} PROVE Good(t, sync[t])'
  <2>1. PICK q : q = sync[t] OBVIOUS
  <2>2. q.fence \in Nat BY <1>2, <2>1 DEF SyncRecords
  <2>3. Good(t, q) /\ Undisturbed(q) /\ HistoryGrows BY <2>1 DEF SyncInv, GoodInv, Advances
  <2>4. Good(t, q)' BY <2>2, <2>3, GoodKept
  <2> QED BY <1>3, <2>1, <2>4
<1>5. GoodInv' BY <1>1, <1>3, <1>4 DEF GoodInv
<1>6. SyncTypeOK' BY <1>3 DEF SyncTypeOK, SharedTyped, Revision
<1> QED BY <1>5, <1>6 DEF SyncInv

LEMMA PassesKeeps ==
  ASSUME SyncInv, Passes, SharedTyped PROVE SyncInv'
<1>1. sync \in [Syncs -> SyncRecords] BY DEF SyncInv, SyncTypeOK
<1>2. ASSUME NEW t \in Syncs PROVE Good(t, sync[t])'
  <2>1. PICK q : q = sync[t] OBVIOUS
  <2>2. q.fence \in Nat BY <1>1, <2>1 DEF SyncRecords
  <2>3. Good(t, q) /\ Undisturbed(q) /\ HistoryGrows BY <2>1 DEF SyncInv, GoodInv, Passes
  <2>4. Good(t, q)' BY <2>2, <2>3, GoodKept
  <2> QED BY <2>1, <2>4 DEF Passes
<1>3. GoodInv' BY <1>2 DEF GoodInv
<1>4. SyncTypeOK' BY <1>1 DEF SyncTypeOK, SharedTyped, Revision, Passes
<1> QED BY <1>3, <1>4 DEF SyncInv

LEMMA SyncInvInit == SyncInit => SyncInv
<1> SUFFICES ASSUME SyncInit PROVE SyncInv OBVIOUS
<1> USE DEF SyncInit
<1>1. history \in Seq(Trees) /\ Len(history) = 1 BY Assumed
<1>2. sync \in [Syncs -> SyncRecords] BY IdleType
<1>3. local \in [Destinations -> [Paths -> Content]] BY EmptyType
<1>4. SyncTypeOK BY <1>1, <1>2, <1>3 DEF SyncTypeOK, Revision
<1>5. ASSUME NEW s \in Syncs PROVE Good(s, sync[s])
  BY IdleType DEF Good, WithPlan, PublishedAll
<1> QED BY <1>4, <1>5 DEF SyncInv, GoodInv

LEMMA SyncInvNext == ASSUME SyncInv, SyncNext PROVE SyncInv'
<1>1. SyncTypeOK /\ GoodInv BY DEF SyncInv
<1>2. ASSUME NEW s \in Syncs, Step(s) PROVE SyncInv'
  <2>1. SharedTyped BY <1>1, <1>2, StepKeepsTypes
  <2>2. Advances(s)
    BY <1>1, <1>2, OpenStateAdvances, PlanTreeAdvances, LocalDoneAdvances, OpenWatchAdvances,
       WatchEventAdvances, CompleteLeasesAdvances, FinalFenceAdvances, WriteStateAdvances,
       ReturnAdvances, EvaluateAdvances, PublishStagedAdvances, PrepareAdvances,
       LockStagingAdvances, FinishFetchAdvances, PublishDownloadAdvances DEF Step
  <2> QED BY <2>1, <2>2, AdvancesKeeps
<1>3. ASSUME NEW s \in Syncs, Trouble(s) PROVE SyncInv'
  <2>1. SharedTyped BY <1>1, <1>3, TroubleKeepsTypes
  <2>2. Advances(s)
    BY <1>1, <1>3, WatchLostAdvances, FailAdvances, KillAdvances, EvaluateFailsAdvances,
       FinishFetchAdvances DEF Trouble
  <2> QED BY <2>1, <2>2, AdvancesKeeps
<1>4. ASSUME NEW s \in Syncs, NEW d \in Destinations, Start(s, d) PROVE SyncInv'
  <2>1. SharedTyped BY <1>1, <1>4, StartKeepsTypes
  <2>2. Advances(s) BY <1>1, <1>4, StartAdvances
  <2> QED BY <2>1, <2>2, AdvancesKeeps
<1>5. CASE Mutate
  <2>1. Passes /\ history' \in Seq(Trees) /\ Len(history') > 0 BY <1>1, <1>5, MutatePasses
  <2>2. SharedTyped BY <1>1, <1>5, <2>1, SharedBefore DEF Mutate, SharedTyped
  <2> QED BY <2>1, <2>2, PassesKeeps
<1>6. CASE DamageIndex
  <2>1. Passes BY <1>1, <1>6, DamageIndexPasses
  <2>2. SharedTyped BY <1>1, <1>6, SharedBefore DEF DamageIndex, SharedTyped
  <2> QED BY <2>1, <2>2, PassesKeeps
<1>7. ASSUME NEW d \in Destinations, NEW p \in Paths, Edit(d, p) \/ GetFile(d, p) PROVE SyncInv'
  <2>1. PICK c \in Content : Touches(d, p, c) BY <1>1, <1>7, EditTouches, GetFileTouches
  <2>2. /\ Passes /\ local' \in [Destinations -> [Paths -> Content]]
        /\ edited' \in [Destinations -> SUBSET Paths]
    BY <1>1, <2>1, TouchesPasses
  <2>3. history' = history /\ index' = index /\ lock' = lock /\ staging' = staging
    BY <1>7 DEF Edit, GetFile
  <2>4. SharedTyped BY <1>1, <2>2, <2>3, SharedBefore DEF SharedTyped
  <2> QED BY <2>2, <2>4, PassesKeeps
<1> QED BY <1>2, <1>3, <1>4, <1>5, <1>6, <1>7 DEF SyncNext

LEMMA SyncInvStutters == ASSUME SyncInv, UNCHANGED syncVars PROVE SyncInv'
<1>1. SyncTypeOK BY DEF SyncInv
<1>2. Quiet /\ sync' = sync /\ index' = index /\ staging' = staging BY DEF syncVars, Quiet
<1>3. Passes BY <1>1, <1>2, HistoryStays, QuietUndisturbed DEF Passes, Quiet
<1>4. SharedTyped BY <1>1, <1>2, SharedBefore DEF SharedTyped, Quiet
<1> QED BY <1>3, <1>4, PassesKeeps

\* What is known of every state a behaviour of the program reaches.
THEOREM SyncsStayInOrder == SyncSpec => []SyncInv
<1>1. SyncInit => SyncInv BY SyncInvInit
<1>2. SyncInv /\ [SyncNext]_syncVars => SyncInv' BY SyncInvNext, SyncInvStutters
<1> QED BY <1>1, <1>2, PTL DEF SyncSpec

\* SyncedExactly: a sync that reports success left every file of the source, as
\* it was at the sync's fence, in the destination, but for the paths the user
\* touched meanwhile, for any number of syncs, destinations, files, faults and
\* revisions.
THEOREM SyncsAreExact == SyncSpec => []SyncedExactly
<1>1. ASSUME SyncInv PROVE SyncedExactly
  <2>1. SyncTypeOK BY <1>1 DEF SyncInv
  <2>2. ASSUME NEW s \in Syncs, At(s, "done"), NEW p \in Paths, sync[s].plan[p] # Absent
        PROVE  local[sync[s].dest][p] = sync[s].plan[p] \/ p \in edited[sync[s].dest]
    <3>1. Good(s, sync[s]) BY <1>1 DEF SyncInv, GoodInv
    <3>2. sync[s].records[p] # Absent BY <2>2, <3>1 DEF Good, PublishedAll, At
    <3>3. Holds(sync[s], p) BY <2>2, <3>1 DEF Good, WithPlan, At
    <3> QED BY <3>2, <3>3 DEF Holds
  <2> QED BY <2>1, <2>2 DEF SyncedExactly
<1> QED BY <1>1, SyncsStayInOrder, PTL

-----------------------------------------------------------------------------
(* What a sync writes *)

\* Of the steps of the syncs, only the two publications write local files.
LEMMA OnlyPublishersWrite ==
  ASSUME [SyncNext]_syncVars, sync' # sync, local' # local
  PROVE  \E s \in Syncs, x \in Paths : PublishStaged(s, x) \/ PublishDownload(s, x)
<1>1. SyncNext /\ ~Mutate /\ ~DamageIndex BY DEF syncVars, Mutate, DamageIndex
<1>2. ~(\E d \in Destinations, p \in Paths : Edit(d, p) \/ GetFile(d, p)) BY DEF Edit, GetFile
<1>3. PICK s \in Syncs : Step(s) \/ Trouble(s) \/ \E d \in Destinations : Start(s, d)
  BY <1>1, <1>2 DEF SyncNext
<1>4. ~(\E d \in Destinations : Start(s, d)) BY DEF Start
<1>5. ~Trouble(s)
  <2>1. ~WatchLost(s) /\ ~Fail(s) /\ ~Kill(s) BY DEF WatchLost, Fail, Kill
  <2>2. \A p \in Paths : ~EvaluateFails(s, p) /\ ~FinishFetch(s, p, Foreign)
    BY DEF EvaluateFails, FinishFetch
  <2> QED BY <2>1, <2>2 DEF Trouble
<1>6. ~OpenState(s) /\ ~PlanTree(s) /\ ~LocalDone(s) /\ ~OpenWatch(s) /\ ~WatchEvent(s)
  BY DEF OpenState, PlanTree, LocalDone, OpenWatch, WatchEvent
<1>7. ~CompleteLeases(s) /\ ~FinalFence(s) /\ ~WriteState(s) /\ ~Return(s)
  BY DEF CompleteLeases, FinalFence, WriteState, Return
<1>8. \A p \in Paths : /\ ~Evaluate(s, p) /\ ~Prepare(s, p) /\ ~LockStaging(s, p)
                       /\ ~FinishFetch(s, p, sync[s].plan[p])
  BY DEF Evaluate, Prepare, LockStaging, FinishFetch
<1> QED BY <1>3, <1>4, <1>5, <1>6, <1>7, <1>8 DEF Step

\* One publication: the file of the plan, which is a revision of the source.
LEMMA PublishIsOfSource ==
  ASSUME SyncInv, NEW s \in Syncs, NEW x \in Paths, NEW q, q = sync[s], InPlan(s, q),
         q.plan[x] # Absent, Write(s, x, q.plan[x]),
         NEW d \in Destinations, NEW p \in Paths, local'[d][p] # local[d][p]
  PROVE  (\E r \in 1..Revision : history[r][p] = local'[d][p]) /\ local'[d][p] # Absent
<1>1. SyncTypeOK /\ q.dest \in Destinations BY DEF SyncInv, InPlan
<1>2. d = q.dest
  <2>1. PICK f : local' = [local EXCEPT ![q.dest] = f] BY DEF Write
  <2>2. local \in [Destinations -> [Paths -> Content]] BY <1>1, SharedBefore
  <2> QED BY <2>1, <2>2
<1>3. local'[q.dest][p] = IF p = x THEN q.plan[x] ELSE local[q.dest][p] BY <1>1, WriteHere
<1>4. p = x /\ local'[d][p] = q.plan[p] BY <1>2, <1>3
<1>5. q.fence \in 1..Revision /\ q.plan = history[q.fence] BY DEF InPlan, Revision
<1> QED BY <1>4, <1>5

\* OnlySourceContent: whatever a sync writes is what the source had at that
\* path in some revision; a sync removes nothing.
THEOREM OnlySourceIsPublished == SyncSpec => OnlySourceContent
<1>1. ASSUME SyncInv, [SyncNext]_syncVars, sync' # sync, NEW d \in Destinations, NEW p \in Paths,
             local'[d][p] # local[d][p]
      PROVE  (\E r \in 1..Revision : history[r][p] = local'[d][p]) /\ local'[d][p] # Absent
  <2>1. SyncTypeOK /\ GoodInv BY <1>1 DEF SyncInv
  <2>2. \E s \in Syncs, x \in Paths : PublishStaged(s, x) \/ PublishDownload(s, x)
    BY <1>1, OnlyPublishersWrite
  <2>3. PICK s \in Syncs, x \in Paths : PublishStaged(s, x) \/ PublishDownload(s, x) BY <2>2
  <2>4. PICK q : q = sync[s] OBVIOUS
  <2>5. q.pc \in WithPlan BY <2>3, <2>4 DEF PublishStaged, PublishDownload, At, WithPlan
  <2>6. InPlan(s, q) BY <2>1, <2>4, <2>5, PlanFacts
  <2>7. Pure(q, x) BY <2>6 DEF InPlan
  <2>8. q.plan[x] # Absent /\ Write(s, x, q.plan[x])
    BY <2>3, <2>4, <2>7 DEF PublishStaged, PublishDownload, Pure
  <2> QED BY <1>1, <2>4, <2>6, <2>8, PublishIsOfSource
<1>2. ASSUME SyncInv, [SyncNext]_syncVars
      PROVE  [sync' # sync =>
               \A d \in Destinations, p \in Paths : local'[d][p] # local[d][p] =>
                  /\ \E r \in 1..Revision : history[r][p] = local'[d][p]
                  /\ local'[d][p] # Absent]_syncVars
  BY <1>1, <1>2
<1> QED BY <1>2, SyncsStayInOrder, PTL DEF SyncSpec, OnlySourceContent
=============================================================================
