------------------------- MODULE VfsNamespace_proofs -------------------------
(***************************************************************************)
(* The rows of the namespace protocol keep their shapes, and what it       *)
(* guarantees, for any number of directories, names, intents and requests. *)
(*                                                                         *)
(* First the history of puts: the evidence of a publication, settled       *)
(* intents, replaced versions and receipts.  Then the tree: its Merkle     *)
(* roots, its links and what its entries lead to.                          *)
(*                                                                         *)
(* A planner reads rows and entries at different moments, and a removal is *)
(* not even compared with the rows it was planned on.  The argument about  *)
(* the tree is one about revisions: a directory's entries change only      *)
(* together with its revision.  So an update whose directory still shows   *)
(* the planned revision finds the entries it was computed from, and one    *)
(* whose directory has moved on to the planned root changes nothing.       *)
(***************************************************************************)
EXTENDS VfsNamespace, FiniteSetTheorems, TLAPS

-----------------------------------------------------------------------------
(* Types *)

LEMMA ConstructorsTyped ==
  /\ IsDir(NoDir)
  /\ IsEntry(NoEntry)
  /\ IsTask(NoTask)
  /\ IsWalk(NoWalk)
  /\ \A d \in Dirs : IsUpdate(NoSteps[d])
BY DEF IsDir, NoDir, DirRow, IsEntry, NoEntry, EntryRow, IsTask, NoTask, Task,
       IsWalk, NoWalk, Walk, IsUpdate, NoSteps, NoUpdate, Update

LEMMA InitTyped == Init => TypeOK
<1> SUFFICES ASSUME Init PROVE TypeOK
  OBVIOUS
<1>1. SeedRevision \in Nat
  BY FS_CardinalityType, SeedAssumption DEF SeedRevision
<1>2. ASSUME NEW n \in Names PROVE IsEntry(SeedEntries[n])
  <2>1. CASE \E s \in Seeds : SeedName[s] = n
    <3> DEFINE c == CHOOSE s \in Seeds : SeedName[s] = n
    <3>1. c \in Seeds /\ SeedEntries[n] = EntryRow("directory", c, EmptyRoot, 1)
      BY <2>1 DEF SeedEntries
    <3>2. c \in Dirs
      BY <3>1, RootAssumption
    <3> HIDE DEF c
    <3> QED BY <3>1, <3>2 DEF IsEntry, EntryRow
  <2>2. CASE ~\E s \in Seeds : SeedName[s] = n
    BY <2>2, ConstructorsTyped DEF SeedEntries
  <2> QED BY <2>1, <2>2
<1>3. SeedRevision \in Nat /\ \A n \in Names : IsEntry(SeedEntries[n])
  BY <1>1, <1>2
<1>4. \A d \in Dirs : IsDir(dir[d])
  BY <1>3, RootAssumption, SeedAssumption, ConstructorsTyped
  DEF Init, IsDir, DirRow
<1>5. DatabaseOK
  <2>1. dir = [d \in Dirs |-> dir[d]]
    BY DEF Init
  <2>2. entry = [d \in Dirs |-> [n \in Names |-> entry[d][n]]]
    BY DEF Init, SeedEntries
  <2>3. \A d \in Dirs, n \in Names : IsEntry(entry[d][n])
    BY <1>3, ConstructorsTyped DEF Init
  <2>4. file \in [Intents -> FileRows]
    BY DEF Init, NoFile, FileRow, FileRows
  <2>5. version \in [Intents -> {"none", "published", "tombstoned"}]
    BY DEF Init
  <2>6. /\ intent \in [Intents -> IntentRows]
        /\ \A i \in Intents : intent[i].state = "none"
    BY DEF Init, NoIntent, IntentRow, IntentRows
  <2>7. evidence \in [Intents -> Commits \cup {None}]
    BY DEF Init
  <2>8. receipt \in [Intents \cup Keys -> ReceiptRows]
    BY DEF Init, NoReceipt, ReceiptRow, ReceiptRows
  <2>9. /\ head = [revision |-> head.revision, root |-> head.root]
        /\ head.revision \in Nat
        /\ authorized \subseteq Authority
    BY <1>3 DEF Init
  <2> QED BY <1>4, <2>1, <2>2, <2>3, <2>4, <2>5, <2>6, <2>7, <2>8, <2>9
          DEF DatabaseOK
<1>6. \A w \in Workers : RequestOK(w)
  BY ConstructorsTyped DEF Init, RequestOK, Walking, NoTask, Task
<1>7. /\ pc \in [Workers -> PCs]
      /\ task = [w \in Workers |-> task[w]]
      /\ walk = [w \in Workers |-> walk[w]]
      /\ steps = [w \in Workers |-> [d \in Dirs |-> steps[w][d]]]
      /\ attempt \in [Workers -> 0 .. MaxAttempts - 1]
  BY BoundAssumption DEF Init, PCs, Walking, NoSteps
<1> QED BY <1>5, <1>6, <1>7 DEF TypeOK

-----------------------------------------------------------------------------
(* Steps of the control flow keep the request variables typed. *)

\* The part of TypeOK about requests.
RequestsOK ==
  /\ pc \in [Workers -> PCs]
  /\ task = [w \in Workers |-> task[w]]
  /\ walk = [w \in Workers |-> walk[w]]
  /\ steps = [w \in Workers |-> [d \in Dirs |-> steps[w][d]]]
  /\ attempt \in [Workers -> 0 .. MaxAttempts - 1]
  /\ \A w \in Workers : RequestOK(w)

LEMMA TypeOKParts == TypeOK <=> DatabaseOK /\ RequestsOK
BY DEF TypeOK, RequestsOK

LEMMA FinishTyped ==
  ASSUME RequestsOK, NEW w \in Workers, Finish(w)
  PROVE RequestsOK'
<1>1. /\ pc' \in [Workers -> PCs]
      /\ attempt' \in [Workers -> 0 .. MaxAttempts - 1]
  BY BoundAssumption DEF RequestsOK, Finish, PCs, Walking
<1>4. /\ task' = [v \in Workers |-> task'[v]]
      /\ walk' = [v \in Workers |-> walk'[v]]
  BY DEF RequestsOK, Finish
<1>2. steps' = [v \in Workers |-> [d \in Dirs |-> steps'[v][d]]]
  BY DEF RequestsOK, Finish, NoSteps
<1>3. ASSUME NEW v \in Workers PROVE RequestOK(v)'
  <2>1. CASE v = w
    <3>1. /\ task'[w] = NoTask /\ walk'[w] = NoWalk /\ steps'[w] = NoSteps
          /\ pc'[w] = "idle"
      BY DEF RequestsOK, Finish
    <3> QED BY <2>1, <3>1, ConstructorsTyped DEF RequestOK, Walking
  <2>2. CASE v # w
    BY <2>2 DEF RequestsOK, Finish, RequestOK
  <2> QED BY <2>1, <2>2
<1> QED BY <1>1, <1>2, <1>3, <1>4 DEF RequestsOK

LEMMA PlanTyped ==
  ASSUME RequestsOK, NEW w \in Workers, NEW t, IsTask(t), t.op # "none",
         Plan(w, t), task' = [task EXCEPT ![w] = t],
         attempt' \in [Workers -> 0 .. MaxAttempts - 1]
  PROVE RequestsOK'
<1>1. /\ pc' \in [Workers -> PCs]
      /\ task' = [v \in Workers |-> task'[v]]
      /\ walk' = [v \in Workers |-> walk'[v]]
  BY DEF RequestsOK, Plan, PlanStart, PCs, Walking
<1>2. steps' = [v \in Workers |-> [d \in Dirs |-> steps'[v][d]]]
  BY DEF RequestsOK, Plan, NoSteps
<1>3. ASSUME NEW v \in Workers PROVE RequestOK(v)'
  <2>1. CASE v = w
    <3>1. /\ task'[w] = t /\ walk'[w] = Walk(t.dir, None, None, NoDir)
          /\ steps'[w] = NoSteps
          /\ pc'[w] = PlanStart(t)
      BY DEF RequestsOK, Plan
    <3>2. t.dir \in Dirs
      BY DEF IsTask
    <3>3. IsWalk(walk'[w]) /\ walk'[w].at \in Dirs
      BY <3>1, <3>2, ConstructorsTyped DEF IsWalk, Walk
    <3> QED BY <2>1, <3>1, <3>3, ConstructorsTyped
            DEF RequestOK, Walking, PlanStart
  <2>2. CASE v # w
    BY <2>2 DEF RequestsOK, Plan, RequestOK
  <2> QED BY <2>1, <2>2
<1> QED BY <1>1, <1>2, <1>3 DEF RequestsOK

LEMMA RebaseTyped ==
  ASSUME RequestsOK, NEW w \in Workers, pc[w] # "idle", Rebase(w)
  PROVE RequestsOK'
<1>1. IsTask(task[w]) /\ task[w].op # "none"
  BY DEF RequestsOK, RequestOK
<1>2. CASE attempt[w] + 1 < MaxAttempts
  <2>1. /\ attempt' = [attempt EXCEPT ![w] = @ + 1]
        /\ Plan(w, task[w])
        /\ task' = task
    BY <1>2 DEF Rebase
  <2>2. attempt' \in [Workers -> 0 .. MaxAttempts - 1]
    BY <1>2, <2>1, BoundAssumption DEF RequestsOK
  <2>3. task' = [task EXCEPT ![w] = task[w]]
    BY <2>1 DEF RequestsOK
  <2> QED BY <1>1, <2>1, <2>2, <2>3, PlanTyped
<1>3. CASE ~(attempt[w] + 1 < MaxAttempts)
  BY <1>3, FinishTyped DEF Rebase
<1> QED BY <1>2, <1>3

\* A step of one request that only moves its pc.
LEMMA MoveTyped ==
  ASSUME RequestsOK, NEW w \in Workers, NEW p \in PCs, pc[w] # "idle",
         pc' = [pc EXCEPT ![w] = p],
         UNCHANGED <<task, walk, steps, attempt>>,
         p \notin {"evidence", "file", "empty"},
         p \in Walking => walk[w].at \in Dirs
  PROVE RequestsOK'
<1>1. pc' \in [Workers -> PCs]
  BY DEF RequestsOK
<1>2. ASSUME NEW v \in Workers PROVE RequestOK(v)'
  BY DEF RequestsOK, RequestOK, Walking
<1> QED BY <1>1, <1>2 DEF RequestsOK

-----------------------------------------------------------------------------
(* The batch writes rows of the right shape. *)

LEMMA NextRowTyped ==
  ASSUME NEW r, IsDir(r), NEW state \in {"none", "active", "tombstoned"}, NEW root
  PROVE IsDir(DirRow(state, r.parent, r.name, root, r.revision + 1))
BY DEF IsDir, DirRow

LEMMA SubjectDirsTyped ==
  ASSUME DatabaseOK, NEW t, IsTask(t), t.op # "none"
  PROVE /\ SubjectDirs(t) = [d \in Dirs |-> SubjectDirs(t)[d]]
        /\ \A d \in Dirs : IsDir(SubjectDirs(t)[d])
<1>1. dir = [d \in Dirs |-> dir[d]] /\ \A d \in Dirs : IsDir(dir[d])
  BY DEF DatabaseOK
<1>2. CASE t.op = "mkdir"
  <2>1. SubjectDirs(t) =
          [dir EXCEPT ![t.subject] = DirRow("active", t.dir, t.name, EmptyRoot, 1)]
    BY <1>2 DEF SubjectDirs
  <2>2. IsDir(DirRow("active", t.dir, t.name, EmptyRoot, 1))
    BY <1>2 DEF IsTask, IsDir, DirRow
  <2> QED BY <1>1, <2>1, <2>2
<1>3. CASE t.op = "remove" /\ t.kind = "directory"
  <2>1. SubjectDirs(t) = [d \in Dirs |->
            IF d = t.subject /\ dir[d].state = "active"
              THEN DirRow("tombstoned", dir[d].parent, dir[d].name, dir[d].root,
                          dir[d].revision + 1)
              ELSE dir[d]]
    BY <1>3 DEF SubjectDirs
  <2>2. \A d \in Dirs : IsDir(DirRow("tombstoned", dir[d].parent, dir[d].name,
                                     dir[d].root, dir[d].revision + 1))
    BY <1>1 DEF IsDir, DirRow
  <2> QED BY <1>1, <2>1, <2>2
<1>4. CASE t.op # "mkdir" /\ ~(t.op = "remove" /\ t.kind = "directory")
  <2>1. SubjectDirs(t) = dir
    BY <1>4 DEF SubjectDirs
  <2> QED BY <1>1, <2>1
<1> QED BY <1>2, <1>3, <1>4

LEMMA BatchDirsTyped ==
  ASSUME DatabaseOK, NEW w \in Workers, RequestOK(w), task[w].op # "none"
  PROVE /\ BatchDirs(w) = [d \in Dirs |-> BatchDirs(w)[d]]
        /\ \A d \in Dirs : IsDir(BatchDirs(w)[d])
<1> DEFINE before == SubjectDirs(task[w])
<1>1. \A d \in Dirs : IsDir(before[d])
  BY SubjectDirsTyped DEF RequestOK
<1>2. \A d \in Dirs : IsUpdate(steps[w][d])
  BY DEF RequestOK
<1>3. BatchDirs(w) = [d \in Dirs |->
         IF /\ steps[w][d].revision > 0
            /\ before[d].revision = steps[w][d].revision
            /\ before[d].root = steps[w][d].root
           THEN DirRow(before[d].state, before[d].parent, before[d].name,
                       steps[w][d].new, before[d].revision + 1)
           ELSE before[d]]
  BY DEF BatchDirs
<1>4. ASSUME NEW d \in Dirs
      PROVE IsDir(DirRow(before[d].state, before[d].parent, before[d].name,
                         steps[w][d].new, before[d].revision + 1))
  <2>1. IsDir(before[d])
    BY <1>1
  <2> HIDE DEF before
  <2> QED BY <2>1, NextRowTyped DEF IsDir
<1> HIDE DEF before
<1> QED BY <1>1, <1>3, <1>4

LEMMA TargetEntryTyped ==
  ASSUME NEW t, IsTask(t), t.op # "none"
  PROVE IsEntry(TargetEntry(t))
<1>1. CASE t.op = "remove"
  BY <1>1, ConstructorsTyped DEF TargetEntry
<1>2. CASE t.op # "remove"
  <2>1. TargetEntry(t) = EntryRow(t.kind, t.subject, t.pin, t.expected + 1)
    BY <1>2 DEF TargetEntry
  <2>2. /\ t.expected + 1 \in Nat
        /\ \/ t.kind = "file" /\ t.subject \in Intents /\ t.pin \in Intents
           \/ t.kind = "directory" /\ t.subject \in Dirs
    BY <1>2 DEF IsTask, NoTask, Task
  <2> QED BY <2>1, <2>2 DEF IsEntry, EntryRow
<1> QED BY <1>1, <1>2

LEMMA BatchEntriesTyped ==
  ASSUME DatabaseOK, NEW w \in Workers, RequestOK(w), task[w].op # "none"
  PROVE /\ BatchEntries(w) = [d \in Dirs |-> [n \in Names |-> BatchEntries(w)[d][n]]]
        /\ \A d \in Dirs, n \in Names : IsEntry(BatchEntries(w)[d][n])
<1>1. IsEntry(TargetEntry(task[w]))
  BY TargetEntryTyped DEF RequestOK
<1>2. ASSUME NEW d \in Dirs, NEW n \in Names, LinkFires(w, d, n)
      PROVE IsEntry(EntryRow("directory", steps[w][d].child,
                     steps[w][steps[w][d].child].new, entry[d][n].revision + 1))
  <2>1. steps[w][d].child \in Dirs /\ entry[d][n].revision \in Nat
    BY <1>2 DEF LinkFires, RequestOK, IsUpdate, DatabaseOK, IsEntry
  <2> QED BY <2>1 DEF IsEntry, EntryRow
<1>3. \A d \in Dirs, n \in Names : IsEntry(entry[d][n])
  BY DEF DatabaseOK
<1>4. BatchEntries(w) = [d \in Dirs |-> [n \in Names |-> BatchEntries(w)[d][n]]]
  BY DEF BatchEntries
<1>5. ASSUME NEW d \in Dirs, NEW n \in Names PROVE IsEntry(BatchEntries(w)[d][n])
  <2>1. BatchEntries(w)[d][n] =
          IF /\ d = task[w].dir /\ n = task[w].name
             /\ TargetMatches(task[w], entry[d][n])
            THEN TargetEntry(task[w])
          ELSE IF LinkFires(w, d, n)
            THEN EntryRow("directory", steps[w][d].child,
                     steps[w][steps[w][d].child].new, entry[d][n].revision + 1)
          ELSE entry[d][n]
    BY DEF BatchEntries
  <2> QED BY <1>1, <1>2, <1>3, <2>1
<1> QED BY <1>4, <1>5

LEMMA CommitTyped ==
  ASSUME TypeOK, NEW w \in Workers, task[w].op # "none",
         CommitNamespace(w)
  PROVE /\ dir' = [d \in Dirs |-> dir'[d]] /\ \A d \in Dirs : IsDir(dir'[d])
        /\ entry' = [d \in Dirs |-> [n \in Names |-> entry'[d][n]]]
        /\ \A d \in Dirs, n \in Names : IsEntry(entry'[d][n])
        /\ receipt' \in [Intents \cup Keys -> ReceiptRows]
        /\ head' = [revision |-> head'.revision, root |-> head'.root]
        /\ head'.revision \in Nat
<1>1. DatabaseOK /\ RequestOK(w)
  BY DEF TypeOK
<1>2. dir' = BatchDirs(w) /\ entry' = BatchEntries(w)
  BY DEF CommitNamespace
<1>3. head' = [revision |-> head.revision + 1, root |-> steps[w][Root].new]
  BY DEF CommitNamespace
<1>4. head.revision \in Nat
  BY <1>1 DEF DatabaseOK
<1>5. ReceiptRow(task[w].op, task[w].commit, head.revision + 1) \in ReceiptRows
  BY <1>1, <1>4 DEF RequestOK, IsTask, ReceiptRow, ReceiptRows, NoTask, Task
<1>6. receipt' \in [Intents \cup Keys -> ReceiptRows]
  BY <1>1, <1>5 DEF CommitNamespace, DatabaseOK
<1>7. /\ dir' = [d \in Dirs |-> dir'[d]] /\ \A d \in Dirs : IsDir(dir'[d])
  BY <1>1, <1>2, BatchDirsTyped
<1>8. /\ entry' = [d \in Dirs |-> [n \in Names |-> entry'[d][n]]]
      /\ \A d \in Dirs, n \in Names : IsEntry(entry'[d][n])
  BY <1>1, <1>2, BatchEntriesTyped
<1> QED BY <1>3, <1>4, <1>6, <1>7, <1>8

-----------------------------------------------------------------------------
(* Every action keeps the types. *)

\* An intent row is replaced by another one; nothing else in the database moves.
LEMMA IntentStepTyped ==
  ASSUME TypeOK, NEW i \in Intents, NEW r \in IntentRows,
         r.dir \in Dirs, r.name \in Names, r.file \in Intents,
         intent' = [intent EXCEPT ![i] = r],
         UNCHANGED <<dir, entry, file, version, evidence, receipt, head,
                     authorized, pc, task, planner, attempt>>
  PROVE TypeOK'
<1>1. RequestsOK'
  BY TypeOKParts DEF RequestsOK, RequestOK, planner
<1>2. intent' \in [Intents -> IntentRows]
  BY DEF TypeOK, DatabaseOK
<1>3. DatabaseOK'
  BY <1>2 DEF TypeOK, DatabaseOK
<1> QED BY <1>1, <1>3, TypeOKParts DEF TypeOK, RequestsOK

LEMMA PrepareTyped ==
  ASSUME TypeOK, NEW i \in Intents, NEW d \in Dirs, NEW n \in Names,
         Prepare(i, d, n)
  PROVE TypeOK'
<1> DEFINE e == entry[d][n]
<1>1. IsEntry(e)
  BY DEF TypeOK, DatabaseOK
<1>2. CASE e.kind = "absent"
  <2> DEFINE r == IntentRow("prepared", d, n, i, 0, 0, None, FALSE)
  <2>1. r \in IntentRows /\ r.dir \in Dirs /\ r.name \in Names /\ r.file \in Intents
    BY DEF IntentRow, IntentRows
  <2>2. /\ intent' = [intent EXCEPT ![i] = r]
        /\ UNCHANGED <<dir, entry, file, version, evidence, receipt, head,
                       authorized, pc, task, planner, attempt>>
    BY <1>2 DEF Prepare
  <2> HIDE DEF r
  <2> QED BY <2>1, <2>2, IntentStepTyped
<1>3. CASE e.kind # "absent"
  <2> DEFINE r == IntentRow("prepared", d, n, e.subject, e.revision,
                            file[e.subject].revision, e.pin, FALSE)
  <2>1. e.kind = "file" /\ e.subject \in Intents /\ e.pin \in Intents
          /\ e.revision \in Nat
    BY <1>1, <1>3 DEF Prepare, IsEntry, NoEntry, EntryRow
  <2>2. file[e.subject].revision \in Nat
    BY <2>1 DEF TypeOK, DatabaseOK, FileRows
  <2>3. /\ intent' = [intent EXCEPT ![i] = r]
        /\ UNCHANGED <<dir, entry, file, version, evidence, receipt, head,
                       authorized, pc, task, planner, attempt>>
    BY <1>3 DEF Prepare
  <2> HIDE DEF e
  <2>4. r \in IntentRows /\ r.dir \in Dirs /\ r.name \in Names /\ r.file \in Intents
    BY <2>1, <2>2 DEF IntentRow, IntentRows
  <2> HIDE DEF r
  <2> QED BY <2>3, <2>4, IntentStepTyped
<1> QED BY <1>2, <1>3

LEMMA LapseTyped ==
  ASSUME TypeOK, NEW i \in Intents, Lapse(i) \/ ExpireIntent(i)
  PROVE TypeOK'
<1> DEFINE old == intent[i]
<1>1. /\ old \in IntentRows
      /\ old.dir \in Dirs /\ old.name \in Names /\ old.file \in Intents
  BY DEF TypeOK, DatabaseOK, Lapse, ExpireIntent
<1>2. PICK r \in {WithLapsed(old), WithState(old, "expired")} :
         /\ intent' = [intent EXCEPT ![i] = r]
         /\ UNCHANGED <<dir, entry, file, version, evidence, receipt, head,
                        authorized, pc, task, planner, attempt>>
  BY DEF Lapse, ExpireIntent
<1> HIDE DEF old
<1>3. /\ WithLapsed(old) \in IntentRows
      /\ WithLapsed(old).dir \in Dirs
      /\ WithLapsed(old).name \in Names
      /\ WithLapsed(old).file \in Intents
  BY <1>1 DEF IntentRows, WithLapsed, IntentRow
<1>4. /\ WithState(old, "expired") \in IntentRows
      /\ WithState(old, "expired").dir \in Dirs
      /\ WithState(old, "expired").name \in Names
      /\ WithState(old, "expired").file \in Intents
  BY <1>1 DEF IntentRows, WithState, IntentRow
<1> QED BY <1>2, <1>3, <1>4, IntentStepTyped

\* The steps of a request that leave the database alone only have to keep the
\* request variables typed.
LEMMA DatabaseKept ==
  ASSUME TypeOK, RequestsOK', UNCHANGED <<database, authorized>>
  PROVE TypeOK'
<1>1. DatabaseOK'
  BY DEF TypeOK, DatabaseOK, database
<1> QED BY <1>1 DEF TypeOK, RequestsOK

LEMMA StartPutTyped ==
  ASSUME TypeOK, NEW w \in Workers, NEW i \in Intents, NEW c \in Commits,
         StartPut(w, i, c)
  PROVE TypeOK'
<1> DEFINE t == Task("put", i, intent[i].dir, intent[i].name,
                     intent[i].expected, "file", intent[i].file, i, c)
<1>1. /\ intent[i].dir \in Dirs /\ intent[i].name \in Names
      /\ intent[i].file \in Intents /\ intent[i].expected \in Nat
  BY DEF StartPut, Committable, TypeOK, DatabaseOK, IntentRows
<1>2. IsTask(t) /\ t.op = "put"
  BY <1>1 DEF IsTask, Task
<1>3. task' = [task EXCEPT ![w] = t] /\ pc' = [pc EXCEPT ![w] = "evidence"]
        /\ UNCHANGED <<walk, steps, attempt>>
  BY DEF StartPut, planner
<1> HIDE DEF t
<1>4. pc' \in [Workers -> PCs]
  BY <1>3 DEF TypeOK, PCs
<1>5. task' = [v \in Workers |-> task'[v]]
  BY <1>3 DEF TypeOK
<1>6. ASSUME NEW v \in Workers PROVE RequestOK(v)'
  BY <1>2, <1>3 DEF TypeOK, RequestOK, Walking
<1>7. RequestsOK'
  BY <1>3, <1>4, <1>5, <1>6 DEF RequestsOK, TypeOK
<1> QED BY <1>7, DatabaseKept DEF StartPut

LEMMA StartMkdirTyped ==
  ASSUME TypeOK, NEW w \in Workers, NEW k \in Keys, NEW d \in Dirs,
         NEW n \in Names, NEW c \in Dirs, StartMkdir(w, k, d, n, c)
  PROVE TypeOK'
<1> DEFINE t == Task("mkdir", k, d, n, 0, "directory", c, EmptyRoot, None)
<1>1. IsTask(t) /\ t.op # "none"
  BY DEF IsTask, Task
<1>2. Plan(w, t) /\ task' = [task EXCEPT ![w] = t] /\ attempt' = attempt
        /\ UNCHANGED <<database, authorized>>
  BY DEF StartMkdir
<1> HIDE DEF t
<1>3. RequestsOK /\ attempt' \in [Workers -> 0 .. MaxAttempts - 1]
  BY <1>2, TypeOKParts DEF RequestsOK
<1>4. RequestsOK'
  BY <1>1, <1>2, <1>3, PlanTyped
<1> QED BY <1>2, <1>4, DatabaseKept

LEMMA StartRemoveTyped ==
  ASSUME TypeOK, NEW w \in Workers, NEW k \in Keys, NEW d \in Dirs,
         NEW n \in Names, StartRemove(w, k, d, n)
  PROVE TypeOK'
<1> DEFINE e == entry[d][n]
           t == Task("remove", k, d, n, e.revision, e.kind, e.subject, e.pin, None)
<1>1. IsEntry(e) /\ e.kind # "absent"
  BY DEF TypeOK, DatabaseOK, StartRemove
<1>2. /\ task' = [task EXCEPT ![w] = t] /\ attempt' = attempt
      /\ UNCHANGED <<database, authorized>>
      /\ IF e.kind = "directory"
           THEN pc' = [pc EXCEPT ![w] = "empty"] /\ UNCHANGED planner
           ELSE Plan(w, t)
  BY DEF StartRemove
<1>3. IsTask(t) /\ t.op = "remove" /\ t.kind = e.kind
  <2> HIDE DEF e
  <2> QED BY <1>1 DEF IsTask, Task, IsEntry, NoEntry, EntryRow
<1> HIDE DEF t, e
<1>4. RequestsOK /\ attempt' \in [Workers -> 0 .. MaxAttempts - 1]
  BY <1>2, TypeOKParts DEF RequestsOK
<1>5. CASE e.kind = "directory"
  <2>1. pc' = [pc EXCEPT ![w] = "empty"] /\ UNCHANGED <<walk, steps>>
    BY <1>2, <1>5 DEF planner
  <2>2. pc' \in [Workers -> PCs]
    BY <2>1 DEF TypeOK, PCs
  <2>3. task' = [v \in Workers |-> task'[v]]
    BY <1>2 DEF TypeOK
  <2>4. ASSUME NEW v \in Workers PROVE RequestOK(v)'
    BY <1>2, <1>3, <1>5, <2>1 DEF TypeOK, RequestOK, Walking
  <2>5. RequestsOK'
    BY <1>2, <2>1, <2>2, <2>3, <2>4 DEF RequestsOK, TypeOK
  <2> QED BY <1>2, <2>5, DatabaseKept
<1>6. CASE e.kind # "directory"
  <2>1. RequestsOK'
    BY <1>2, <1>3, <1>4, <1>6, PlanTyped
  <2> QED BY <1>2, <2>1, DatabaseKept
<1> QED BY <1>5, <1>6

LEMMA RecordEvidenceTyped ==
  ASSUME TypeOK, NEW w \in Workers, RecordEvidence(w)
  PROVE TypeOK'
<1> DEFINE t == task[w]
           kept == IF evidence[t.key] = None /\ Committable(t.key)
                     THEN t.commit ELSE evidence[t.key]
<1>1. IsTask(t) /\ t.op = "put"
  BY DEF RecordEvidence, TypeOK, RequestOK
<1>2. t.key \in Intents /\ t.commit \in Commits
  BY <1>1 DEF IsTask, NoTask, Task
<1>3. kept \in Commits \cup {None}
  BY <1>2 DEF TypeOK, DatabaseOK
<1>4. /\ evidence' = [evidence EXCEPT ![t.key] = kept]
      /\ UNCHANGED <<dir, entry, file, version, intent, receipt, head, authorized>>
      /\ IF kept = t.commit
           THEN Plan(w, t) /\ UNCHANGED <<task, attempt>>
           ELSE Finish(w)
  BY DEF RecordEvidence
<1> HIDE DEF kept
<1>5. DatabaseOK'
  <2>1. evidence' \in [Intents -> Commits \cup {None}]
    BY <1>3, <1>4 DEF TypeOK, DatabaseOK
  <2> QED BY <1>4, <2>1 DEF TypeOK, DatabaseOK
<1>6. RequestsOK
  BY TypeOKParts
<1>7. CASE kept = t.commit
  <2>1. Plan(w, t) /\ task' = [task EXCEPT ![w] = t]
          /\ attempt' \in [Workers -> 0 .. MaxAttempts - 1]
    BY <1>4, <1>7 DEF TypeOK
  <2> HIDE DEF t
  <2>2. RequestsOK'
    BY <1>1, <1>6, <2>1, PlanTyped
  <2> QED BY <1>5, <2>2 DEF TypeOK, RequestsOK
<1>8. CASE kept # t.commit
  <2>1. RequestsOK'
    BY <1>4, <1>6, <1>8, FinishTyped
  <2> QED BY <1>5, <2>1 DEF TypeOK, RequestsOK
<1> QED BY <1>7, <1>8

LEMMA PlanFileTyped ==
  ASSUME TypeOK, NEW w \in Workers, PlanFile(w)
  PROVE TypeOK'
<1>1. RequestsOK /\ walk[w].at \in Dirs /\ pc[w] # "idle"
  BY TypeOKParts DEF PlanFile, TypeOK, RequestOK
<1>2. CASE FileUnchanged(task[w].key)
  <2>1. pc' = [pc EXCEPT ![w] = "row"] /\ UNCHANGED <<task, walk, steps, attempt>>
    BY <1>2 DEF PlanFile, planner
  <2>2. RequestsOK'
    BY <1>1, <2>1, MoveTyped DEF PCs, Walking
  <2> QED BY <2>2, DatabaseKept DEF PlanFile
<1>3. CASE ~FileUnchanged(task[w].key)
  <2>1. RequestsOK'
    BY <1>1, <1>3, FinishTyped DEF PlanFile
  <2> QED BY <2>1, DatabaseKept DEF PlanFile
<1> QED BY <1>2, <1>3

LEMMA CheckEmptyTyped ==
  ASSUME TypeOK, NEW w \in Workers, CheckEmpty(w)
  PROVE TypeOK'
<1>1. RequestsOK /\ IsTask(task[w]) /\ task[w].op # "none"
  BY TypeOKParts DEF CheckEmpty, TypeOK, RequestOK
<1>2. CASE HasNoEntry(entry[task[w].subject])
  <2>1. Plan(w, task[w]) /\ task' = [task EXCEPT ![w] = task[w]]
          /\ attempt' \in [Workers -> 0 .. MaxAttempts - 1]
    BY <1>2 DEF CheckEmpty, TypeOK
  <2>2. RequestsOK'
    BY <1>1, <2>1, PlanTyped
  <2> QED BY <2>2, DatabaseKept DEF CheckEmpty
<1>3. CASE ~HasNoEntry(entry[task[w].subject])
  <2>1. RequestsOK'
    BY <1>1, <1>3, FinishTyped DEF CheckEmpty
  <2> QED BY <2>1, DatabaseKept DEF CheckEmpty
<1> QED BY <1>2, <1>3

\* A step of one request that moves its pc, its cursor and its plan.
LEMMA WalkTyped ==
  ASSUME RequestsOK, NEW w \in Workers, NEW p \in Walking, NEW k, NEW s,
         pc[w] # "idle", IsWalk(k), k.at \in Dirs,
         s = [d \in Dirs |-> s[d]], \A d \in Dirs : IsUpdate(s[d]),
         pc' = [pc EXCEPT ![w] = p],
         walk' = [walk EXCEPT ![w] = k],
         steps' = [steps EXCEPT ![w] = s],
         UNCHANGED <<task, attempt>>
  PROVE RequestsOK'
<1>1. /\ pc' \in [Workers -> PCs]
      /\ walk' = [v \in Workers |-> walk'[v]]
  BY DEF RequestsOK, PCs
<1>2. steps' = [v \in Workers |-> [d \in Dirs |-> steps'[v][d]]]
  BY DEF RequestsOK
<1>3. ASSUME NEW v \in Workers PROVE RequestOK(v)'
  <2>1. CASE v = w
    <3>1. walk'[w] = k /\ steps'[w] = s /\ pc'[w] = p /\ task'[w] = task[w]
      BY DEF RequestsOK
    <3>2. p \notin {"idle", "evidence", "file", "empty"}
      BY DEF Walking
    <3>3. IsTask(task[w]) /\ task[w].op # "none"
      BY DEF RequestsOK, RequestOK
    <3> QED BY <2>1, <3>1, <3>2, <3>3 DEF RequestOK
  <2>2. CASE v # w
    BY <2>2 DEF RequestsOK, RequestOK
  <2> QED BY <2>1, <2>2
<1> QED BY <1>1, <1>2, <1>3 DEF RequestsOK

LEMMA PlanRowTyped ==
  ASSUME TypeOK, NEW w \in Workers, PlanRow(w)
  PROVE TypeOK'
<1> DEFINE d == walk[w].at
           k == Walk(d, walk[w].child, walk[w].name, dir[d])
           go == /\ Cardinality(Planned(steps[w])) < MaxDepth
                 /\ d \notin Planned(steps[w])
                 /\ dir[d].state = "active"
<1>1. RequestsOK /\ d \in Dirs /\ IsWalk(walk[w]) /\ pc[w] # "idle"
  BY TypeOKParts DEF PlanRow, TypeOK, RequestOK, Walking
<1>2. IsDir(dir[d])
  BY <1>1 DEF TypeOK, DatabaseOK
<1>3. IsWalk(k) /\ k.at \in Dirs
  BY <1>1, <1>2 DEF IsWalk, Walk
<1>4. /\ UNCHANGED <<database, authorized>>
      /\ IF go
           THEN /\ pc' = [pc EXCEPT ![w] = "entries"]
                /\ walk' = [walk EXCEPT ![w] = k]
                /\ UNCHANGED <<task, steps, attempt>>
           ELSE Finish(w)
  BY DEF PlanRow
<1>5. /\ steps[w] = [e \in Dirs |-> steps[w][e]]
      /\ \A e \in Dirs : IsUpdate(steps[w][e])
      /\ steps = [steps EXCEPT ![w] = steps[w]]
  BY DEF TypeOK, RequestOK
<1> HIDE DEF go, k
<1>6. CASE go
  <2>1. /\ pc' = [pc EXCEPT ![w] = "entries"]
        /\ walk' = [walk EXCEPT ![w] = k]
        /\ steps' = [steps EXCEPT ![w] = steps[w]]
        /\ UNCHANGED <<task, attempt>>
    BY <1>4, <1>5, <1>6
  <2>2. "entries" \in Walking
    BY DEF Walking
  <2>3. RequestsOK'
    BY <1>1, <1>3, <1>5, <2>1, <2>2, WalkTyped
  <2> QED BY <1>4, <2>3, DatabaseKept
<1>7. CASE ~go
  <2>1. RequestsOK'
    BY <1>1, <1>4, <1>7, FinishTyped
  <2> QED BY <1>4, <2>1, DatabaseKept
<1> QED BY <1>6, <1>7

LEMMA PlanMismatchTyped ==
  ASSUME TypeOK, NEW w \in Workers, PlanMismatch(w)
  PROVE TypeOK'
<1>1. RequestsOK /\ walk[w].at \in Dirs /\ pc[w] # "idle"
  BY TypeOKParts DEF PlanMismatch, TypeOK, RequestOK, Walking
<1>2. /\ pc' = [pc EXCEPT ![w] = "reload"]
      /\ UNCHANGED <<task, walk, steps, attempt>>
      /\ UNCHANGED <<database, authorized>>
  BY DEF PlanMismatch, planner
<1>3. RequestsOK'
  BY <1>1, <1>2, MoveTyped DEF PCs, Walking
<1> QED BY <1>2, <1>3, DatabaseKept

LEMMA PlanReloadTyped ==
  ASSUME TypeOK, NEW w \in Workers, PlanReload(w)
  PROVE TypeOK'
<1>1. RequestsOK /\ walk[w].at \in Dirs /\ pc[w] # "idle"
  BY TypeOKParts DEF PlanReload, TypeOK, RequestOK, Walking
<1>2. UNCHANGED <<database, authorized>>
  BY DEF PlanReload
<1>3. CASE SameSnapshot(w)
  <2>1. /\ pc' = [pc EXCEPT ![w] = "corrupt"]
        /\ UNCHANGED <<task, walk, steps, attempt>>
    BY <1>3 DEF PlanReload, planner
  <2>2. RequestsOK'
    BY <1>1, <2>1, MoveTyped DEF PCs, Walking
  <2> QED BY <1>2, <2>2, DatabaseKept
<1>4. CASE ~SameSnapshot(w)
  <2>1. RequestsOK'
    BY <1>1, <1>4, RebaseTyped DEF PlanReload
  <2> QED BY <1>2, <2>1, DatabaseKept
<1> QED BY <1>3, <1>4

LEMMA FinishKeepsTypes ==
  ASSUME TypeOK, NEW w \in Workers, Finish(w), UNCHANGED <<database, authorized>>
  PROVE TypeOK'
<1>1. RequestsOK'
  BY TypeOKParts, FinishTyped
<1> QED BY <1>1, DatabaseKept

LEMMA PlanStepTyped ==
  ASSUME TypeOK, NEW w \in Workers, PlanStep(w)
  PROVE TypeOK'
<1> DEFINE k == walk[w]
           u == Update(k.row.revision, k.row.root, StepNewRoot(w), k.child,
                       StepName(w), StepEntry(w).revision)
           s == [steps[w] EXCEPT ![k.at] = u]
<1>1. /\ RequestsOK /\ k.at \in Dirs /\ IsWalk(k) /\ pc[w] # "idle"
      /\ IsTask(task[w]) /\ task[w].op # "none"
  BY TypeOKParts DEF PlanStep, TypeOK, RequestOK, Walking
<1>2. StepName(w) \in Names
  BY <1>1 DEF StepName, IsWalk, IsTask
<1>3. StepEntry(w).revision \in Nat
  <2>1. IsEntry(StepEntry(w))
    BY <1>1, <1>2 DEF StepEntry, TypeOK, DatabaseOK
  <2> QED BY <2>1 DEF IsEntry
<1>4. /\ k.row.revision \in Nat /\ k.child \in Dirs \cup {None}
      /\ k.row.parent \in Dirs \cup {None} /\ k.row.name \in Names \cup {None}
      /\ k.row.parent # None => k.row.name \in Names
  BY <1>1 DEF IsWalk, IsDir
<1> HIDE DEF k
<1>5. IsUpdate(u)
  BY <1>2, <1>3, <1>4 DEF IsUpdate, Update
<1>6. /\ steps[w] = [d \in Dirs |-> steps[w][d]]
      /\ \A d \in Dirs : IsUpdate(steps[w][d])
  BY DEF TypeOK, RequestOK
<1>7. /\ UNCHANGED <<database, authorized, task, attempt>>
      /\ steps' = [steps EXCEPT ![w] = s]
      /\ IF k.row.parent = None
           THEN pc' = [pc EXCEPT ![w] = "batch"] /\ walk' = walk
           ELSE /\ pc' = [pc EXCEPT ![w] = "row"]
                /\ walk' = [walk EXCEPT ![w] =
                              Walk(k.row.parent, k.at, k.row.name, NoDir)]
  BY DEF PlanStep, k
<1> HIDE DEF u
<1>8. s = [d \in Dirs |-> s[d]] /\ \A d \in Dirs : IsUpdate(s[d])
  BY <1>1, <1>5, <1>6
<1> HIDE DEF s
<1>9. "batch" \in Walking /\ "row" \in Walking
  BY DEF Walking
<1>10. CASE k.row.parent = None
  <2>1. walk' = [walk EXCEPT ![w] = k] /\ pc' = [pc EXCEPT ![w] = "batch"]
    BY <1>7, <1>10 DEF TypeOK, k
  <2>2. RequestsOK'
    BY <1>1, <1>7, <1>8, <1>9, <2>1, WalkTyped
  <2> QED BY <1>7, <2>2, DatabaseKept
<1>11. CASE k.row.parent # None
  <2> DEFINE up == Walk(k.row.parent, k.at, k.row.name, NoDir)
  <2>1. IsWalk(up) /\ up.at \in Dirs
    BY <1>1, <1>4, <1>11, ConstructorsTyped DEF IsWalk, Walk
  <2>2. walk' = [walk EXCEPT ![w] = up] /\ pc' = [pc EXCEPT ![w] = "row"]
    BY <1>7, <1>11
  <2> HIDE DEF up
  <2>3. RequestsOK'
    BY <1>1, <1>7, <1>8, <1>9, <2>1, <2>2, WalkTyped
  <2> QED BY <1>7, <2>3, DatabaseKept
<1> QED BY <1>10, <1>11

LEMMA RefusedBatchTyped ==
  ASSUME TypeOK, NEW w \in Workers, RefusedBatch(w)
  PROVE TypeOK'
<1>1. RequestsOK /\ pc[w] # "idle"
  BY TypeOKParts DEF RefusedBatch
<1>2. Finish(w) \/ Rebase(w)
  BY DEF RefusedBatch
<1>3. RequestsOK'
  BY <1>1, <1>2, FinishTyped, RebaseTyped
<1> QED BY <1>3, DatabaseKept DEF RefusedBatch

\* What the three batches have in common: the namespace rows, the receipt and
\* the head are typed, and the request is over.
LEMMA BatchTyped ==
  ASSUME TypeOK, NEW w \in Workers, pc[w] = "batch", CommitNamespace(w),
         Finish(w), authorized' = authorized,
         evidence' = evidence,
         file' \in [Intents -> FileRows],
         version' \in [Intents -> {"none", "published", "tombstoned"}],
         intent' \in [Intents -> IntentRows],
         \A i \in Intents : intent'[i].state # "none" =>
           /\ intent'[i].dir \in Dirs
           /\ intent'[i].name \in Names
           /\ intent'[i].file \in Intents
  PROVE TypeOK'
<1>1. RequestsOK'
  BY TypeOKParts, FinishTyped
<1>2. task[w].op # "none"
  BY DEF TypeOK, RequestOK
<1>3. /\ dir' = [d \in Dirs |-> dir'[d]] /\ \A d \in Dirs : IsDir(dir'[d])
      /\ entry' = [d \in Dirs |-> [n \in Names |-> entry'[d][n]]]
      /\ \A d \in Dirs, n \in Names : IsEntry(entry'[d][n])
      /\ receipt' \in [Intents \cup Keys -> ReceiptRows]
      /\ head' = [revision |-> head'.revision, root |-> head'.root]
      /\ head'.revision \in Nat
  BY <1>2, CommitTyped
<1>4. evidence' \in [Intents -> Commits \cup {None}] /\ authorized' \subseteq Authority
  BY DEF TypeOK, DatabaseOK
<1>5. DatabaseOK'
  BY <1>3, <1>4 DEF DatabaseOK
<1> QED BY <1>1, <1>5 DEF TypeOK, RequestsOK

LEMMA PutBatchTyped ==
  ASSUME TypeOK, NEW w \in Workers, PutBatch(w)
  PROVE TypeOK'
<1> DEFINE t == task[w]
           old == intent[t.key]
           r == WithState(old, "committed")
           f == FileRow("active", t.pin, old.fileRevision + 1)
<1>1. t.key \in Intents /\ t.subject \in Intents /\ t.pin \in Intents
  BY DEF PutBatch, TypeOK, RequestOK, IsTask, NoTask, Task
<1>2. /\ old \in IntentRows
      /\ old.dir \in Dirs /\ old.name \in Names /\ old.file \in Intents
  BY <1>1 DEF PutBatch, PutCommits, Committable, TypeOK, DatabaseOK
<1>3. /\ pc[w] = "batch" /\ CommitNamespace(w) /\ Finish(w)
      /\ UNCHANGED <<evidence, authorized>>
      /\ file' = [file EXCEPT ![t.subject] = f]
      /\ version' = [version EXCEPT ![t.pin] = "published"]
      /\ intent' = [intent EXCEPT ![t.key] = r]
  BY DEF PutBatch
<1> HIDE DEF t, old
<1>4. f \in FileRows
  BY <1>1, <1>2 DEF FileRow, FileRows, IntentRows
<1>5. r \in IntentRows /\ r.dir \in Dirs /\ r.name \in Names /\ r.file \in Intents
  BY <1>2 DEF IntentRows, WithState, IntentRow
<1> HIDE DEF f, r
<1>6. file' \in [Intents -> FileRows]
  BY <1>3, <1>4 DEF TypeOK, DatabaseOK
<1>7. version' \in [Intents -> {"none", "published", "tombstoned"}]
  BY <1>3 DEF TypeOK, DatabaseOK
<1>8. intent' \in [Intents -> IntentRows]
  BY <1>3, <1>5 DEF TypeOK, DatabaseOK
<1>9. \A i \in Intents : intent'[i].state # "none" =>
        /\ intent'[i].dir \in Dirs
        /\ intent'[i].name \in Names
        /\ intent'[i].file \in Intents
  BY <1>3, <1>5 DEF TypeOK, DatabaseOK
<1> QED BY <1>3, <1>6, <1>7, <1>8, <1>9, BatchTyped

LEMMA MkdirBatchTyped ==
  ASSUME TypeOK, NEW w \in Workers, MkdirBatch(w)
  PROVE TypeOK'
<1>1. /\ pc[w] = "batch" /\ CommitNamespace(w) /\ Finish(w)
      /\ UNCHANGED <<file, version, intent, evidence, authorized>>
  BY DEF MkdirBatch
<1>2. /\ file' \in [Intents -> FileRows]
      /\ version' \in [Intents -> {"none", "published", "tombstoned"}]
      /\ intent' \in [Intents -> IntentRows]
  BY <1>1 DEF TypeOK, DatabaseOK
<1>3. \A i \in Intents : intent'[i].state # "none" =>
        /\ intent'[i].dir \in Dirs
        /\ intent'[i].name \in Names
        /\ intent'[i].file \in Intents
  BY <1>1 DEF TypeOK, DatabaseOK
<1> QED BY <1>1, <1>2, <1>3, BatchTyped

LEMMA RemoveBatchTyped ==
  ASSUME TypeOK, NEW w \in Workers, RemoveBatch(w)
  PROVE TypeOK'
<1>1. /\ pc[w] = "batch" /\ CommitNamespace(w) /\ Finish(w)
      /\ UNCHANGED <<intent, evidence, authorized>>
  BY DEF RemoveBatch
<1>2. file' \in [Intents -> FileRows]
  <2>1. ASSUME NEW f \in Intents
        PROVE FileRow("tombstoned", None, file[f].revision + 1) \in FileRows
    <3>1. file[f].revision \in Nat
      BY DEF TypeOK, DatabaseOK, FileRows
    <3> QED BY <3>1 DEF FileRow, FileRows
  <2> QED BY <2>1 DEF RemoveBatch, TypeOK, DatabaseOK
<1>3. version' \in [Intents -> {"none", "published", "tombstoned"}]
  BY DEF RemoveBatch, TypeOK, DatabaseOK
<1>4. intent' \in [Intents -> IntentRows]
  BY <1>1 DEF TypeOK, DatabaseOK
<1>5. \A i \in Intents : intent'[i].state # "none" =>
        /\ intent'[i].dir \in Dirs
        /\ intent'[i].name \in Names
        /\ intent'[i].file \in Intents
  BY <1>1 DEF TypeOK, DatabaseOK
<1> QED BY <1>1, <1>2, <1>3, <1>4, <1>5, BatchTyped

LEMMA NextTyped == TypeOK /\ [Next]_vars => TypeOK'
<1> SUFFICES ASSUME TypeOK, [Next]_vars PROVE TypeOK'
  OBVIOUS
<1>1. ASSUME NEW i \in Intents, NEW d \in Dirs, NEW n \in Names, Prepare(i, d, n)
      PROVE TypeOK'
  BY <1>1, PrepareTyped
<1>2. ASSUME NEW i \in Intents, Lapse(i) \/ ExpireIntent(i) PROVE TypeOK'
  BY <1>2, LapseTyped
<1>3. CASE Revoke \/ RevokeParent
  <2>0. authorized' \subseteq Authority
    BY <1>3 DEF Revoke, RevokeParent, Authority
  <2>1. DatabaseOK'
    BY <1>3, <2>0 DEF Revoke, RevokeParent, database, TypeOK, DatabaseOK
  <2>2. RequestsOK'
    BY <1>3 DEF Revoke, RevokeParent, planner, TypeOK, RequestsOK, RequestOK
  <2> QED BY <2>1, <2>2 DEF TypeOK, RequestsOK
<1>4. ASSUME NEW w \in Workers, Start(w) PROVE TypeOK'
  BY <1>4, StartPutTyped, StartMkdirTyped, StartRemoveTyped DEF Start
<1>5. ASSUME NEW w \in Workers, Step(w) PROVE TypeOK'
  <2>1. CASE PlanRefused(w)
    BY <2>1, FinishKeepsTypes DEF PlanRefused
  <2> QED BY <1>5, <2>1, RecordEvidenceTyped, PlanFileTyped, CheckEmptyTyped,
             PlanRowTyped, PlanMismatchTyped, PlanStepTyped, PlanReloadTyped,
             PutBatchTyped, MkdirBatchTyped, RemoveBatchTyped, RefusedBatchTyped
          DEF Step
<1>6. ASSUME NEW w \in Workers, Crash(w) PROVE TypeOK'
  BY <1>6, FinishKeepsTypes DEF Crash
<1>7. CASE UNCHANGED vars
  BY <1>7 DEF vars, database, planner, TypeOK, DatabaseOK, RequestOK
<1> QED BY <1>1, <1>2, <1>3, <1>4, <1>5, <1>6, <1>7 DEF Next

\* Every row written by the handlers and their batches has the shape of its
\* table, and a request that plans always knows its task and its cursor.
THEOREM TypeCorrect == Spec => []TypeOK
BY InitTyped, NextTyped, PTL DEF Spec

-----------------------------------------------------------------------------
(* The history of puts *)

\* A publication has its evidence, and the evidence is a commit identity.
EvidenceInv ==
  /\ PublishedAsEvidenced
  /\ \A i \in Intents : receipt[i] # NoReceipt => evidence[i] # None

\* A request that commits an intent works on the file the intent was prepared
\* for: the intent row its handler loaded is never rewritten.
TaskInv ==
  \A w \in Workers :
    task[w].op = "put" =>
      /\ intent[task[w].key].state # "none"
      /\ task[w].subject = intent[task[w].key].file

\* Whatever an active file or a prepared intent names as current was published.
CurrentInv ==
  /\ \A f \in Intents : file[f].state = "active" =>
       file[f].current \in Intents /\ version[file[f].current] # "none"
  /\ \A i \in Intents : intent[i].current # None =>
       version[intent[i].current] # "none"

\* The version a committed put replaced is not the current one any more, and
\* never becomes it again.
ReplacedInv ==
  \A i \in Intents : intent[i].state = "committed" =>
    /\ file[intent[i].file].state # "none"
    /\ file[intent[i].file].state = "active" =>
         file[intent[i].file].current # intent[i].current

HistoryInv ==
  EvidenceInv /\ TaskInv /\ CurrentInv /\ ReplacedInv /\ NoLostUpdate

LEMMA InitHistory == Init => HistoryInv
<1> SUFFICES ASSUME Init PROVE HistoryInv
  OBVIOUS
<1>1. EvidenceInv
  BY DEF Init, EvidenceInv, PublishedAsEvidenced, NoIntent, IntentRow
<1>2. TaskInv
  BY DEF Init, TaskInv, NoTask, Task
<1>3. CurrentInv
  BY DEF Init, CurrentInv, NoFile, FileRow, NoIntent, IntentRow
<1>4. ReplacedInv /\ NoLostUpdate
  BY DEF Init, ReplacedInv, NoLostUpdate, NoIntent, IntentRow
<1> QED BY <1>1, <1>2, <1>3, <1>4 DEF HistoryInv

\* Steps that touch no put row, and start no put, keep the invariant.
LEMMA QuietStep ==
  ASSUME HistoryInv, UNCHANGED <<intent, file, version, evidence>>,
         \A i \in Intents : receipt'[i] = receipt[i],
         \A v \in Workers : task'[v] = task[v] \/ task'[v].op # "put"
  PROVE HistoryInv'
<1>1. EvidenceInv'
  BY DEF HistoryInv, EvidenceInv, PublishedAsEvidenced
<1>2. TaskInv'
  BY DEF HistoryInv, TaskInv
<1>3. CurrentInv' /\ ReplacedInv' /\ NoLostUpdate'
  BY DEF HistoryInv, CurrentInv, ReplacedInv, NoLostUpdate
<1> QED BY <1>1, <1>2, <1>3 DEF HistoryInv

\* The end of a request forgets its task.
LEMMA FinishTask ==
  ASSUME TypeOK, NEW w \in Workers, Finish(w)
  PROVE \A v \in Workers : task'[v] = task[v] \/ task'[v].op # "put"
BY DEF TypeOK, Finish, NoTask, Task

LEMMA RebaseTask ==
  ASSUME TypeOK, NEW w \in Workers, Rebase(w)
  PROVE \A v \in Workers : task'[v] = task[v] \/ task'[v].op # "put"
BY FinishTask DEF Rebase

LEMMA PrepareHistory ==
  ASSUME TypeOK, HistoryInv, NEW i \in Intents, NEW d \in Dirs, NEW n \in Names,
         Prepare(i, d, n)
  PROVE HistoryInv'
<1> DEFINE e == entry[d][n]
<1>1. /\ UNCHANGED <<file, version, evidence, receipt, task>>
      /\ intent[i].state = "none"
      /\ \A j \in Intents : j # i => intent'[j] = intent[j]
      /\ intent'[i].state = "prepared"
  BY DEF Prepare, TypeOK, DatabaseOK, IntentRow
<1>2. intent'[i].current # None =>
        /\ intent'[i].current \in Intents
        /\ version[intent'[i].current] # "none"
  <2>1. IsEntry(e)
    BY DEF TypeOK, DatabaseOK
  <2>2. CASE e.kind = "absent"
    BY <2>2 DEF Prepare, TypeOK, DatabaseOK, IntentRow
  <2>3. CASE e.kind # "absent"
    <3>1. e.kind = "file" /\ e.subject \in Intents
      BY <2>1, <2>3 DEF Prepare, IsEntry, NoEntry, EntryRow
    <3>2. file[e.subject].state = "active" /\ file[e.subject].current = e.pin
      BY <3>1 DEF Prepare
    <3>3. intent'[i].current = e.pin
      BY <2>3 DEF Prepare, TypeOK, DatabaseOK, IntentRow
    <3> QED BY <3>1, <3>2, <3>3 DEF HistoryInv, CurrentInv
  <2> QED BY <2>2, <2>3
<1>3. EvidenceInv'
  BY <1>1 DEF HistoryInv, EvidenceInv, PublishedAsEvidenced
<1>4. TaskInv'
  <2> SUFFICES ASSUME NEW w \in Workers, task[w].op = "put"
               PROVE /\ intent'[task[w].key].state # "none"
                     /\ task[w].subject = intent'[task[w].key].file
    BY <1>1 DEF TaskInv
  <2>1. task[w].key \in Intents
    BY DEF TypeOK, RequestOK, IsTask, NoTask, Task
  <2> QED BY <1>1, <2>1 DEF HistoryInv, TaskInv
<1>5. CurrentInv'
  BY <1>1, <1>2 DEF HistoryInv, CurrentInv
<1>6. ReplacedInv'
  BY <1>1 DEF HistoryInv, ReplacedInv
<1>7. NoLostUpdate'
  BY <1>1 DEF HistoryInv, NoLostUpdate
<1> QED BY <1>3, <1>4, <1>5, <1>6, <1>7 DEF HistoryInv

LEMMA LapseHistory ==
  ASSUME TypeOK, HistoryInv, NEW i \in Intents, Lapse(i) \/ ExpireIntent(i)
  PROVE HistoryInv'
<1>1. /\ UNCHANGED <<file, version, evidence, receipt, task>>
      /\ intent[i].state = "prepared"
      /\ \A j \in Intents : j # i => intent'[j] = intent[j]
      /\ intent'[i].state \in {"prepared", "expired"}
      /\ intent'[i].current = intent[i].current
      /\ intent'[i].file = intent[i].file
  BY DEF Lapse, ExpireIntent, TypeOK, DatabaseOK, WithLapsed, WithState, IntentRow
<1>2. EvidenceInv'
  BY <1>1 DEF HistoryInv, EvidenceInv, PublishedAsEvidenced
<1>3. TaskInv'
  <2> SUFFICES ASSUME NEW w \in Workers, task[w].op = "put"
               PROVE /\ intent'[task[w].key].state # "none"
                     /\ task[w].subject = intent'[task[w].key].file
    BY <1>1 DEF TaskInv
  <2>1. task[w].key \in Intents
    BY DEF TypeOK, RequestOK, IsTask, NoTask, Task
  <2> QED BY <1>1, <2>1 DEF HistoryInv, TaskInv
<1>4. CurrentInv'
  BY <1>1 DEF HistoryInv, CurrentInv
<1>5. ReplacedInv'
  BY <1>1 DEF HistoryInv, ReplacedInv
<1>6. NoLostUpdate'
  BY <1>1 DEF HistoryInv, NoLostUpdate
<1> QED BY <1>2, <1>3, <1>4, <1>5, <1>6 DEF HistoryInv

LEMMA StartPutHistory ==
  ASSUME TypeOK, HistoryInv, NEW w \in Workers, NEW i \in Intents,
         NEW c \in Commits, StartPut(w, i, c)
  PROVE HistoryInv'
<1>1. UNCHANGED <<intent, file, version, evidence, receipt>>
  BY DEF StartPut, database
<1>2. /\ \A v \in Workers : v # w => task'[v] = task[v]
      /\ task'[w].key = i /\ task'[w].subject = intent[i].file
      /\ intent[i].state = "prepared"
  BY DEF StartPut, Committable, TypeOK, Task
<1>3. TaskInv'
  BY <1>1, <1>2 DEF HistoryInv, TaskInv
<1>4. EvidenceInv'
  BY <1>1 DEF HistoryInv, EvidenceInv, PublishedAsEvidenced
<1>5. CurrentInv' /\ ReplacedInv' /\ NoLostUpdate'
  BY <1>1 DEF HistoryInv, CurrentInv, ReplacedInv, NoLostUpdate
<1> QED BY <1>3, <1>4, <1>5 DEF HistoryInv

LEMMA RecordEvidenceHistory ==
  ASSUME TypeOK, HistoryInv, NEW w \in Workers, RecordEvidence(w)
  PROVE HistoryInv'
<1>1. /\ UNCHANGED <<intent, file, version, receipt>>
      /\ Finish(w) \/ task' = task
  BY DEF RecordEvidence
<1>2. \A v \in Workers : task'[v] = task[v] \/ task'[v].op # "put"
  BY <1>1, FinishTask
<1>3. \A i \in Intents : evidence[i] # None => evidence'[i] = evidence[i]
  BY DEF RecordEvidence, TypeOK, DatabaseOK
<1>4. EvidenceInv'
  BY <1>1, <1>3 DEF HistoryInv, EvidenceInv, PublishedAsEvidenced
<1>5. TaskInv'
  BY <1>1, <1>2 DEF HistoryInv, TaskInv
<1>6. CurrentInv' /\ ReplacedInv' /\ NoLostUpdate'
  BY <1>1 DEF HistoryInv, CurrentInv, ReplacedInv, NoLostUpdate
<1> QED BY <1>4, <1>5, <1>6 DEF HistoryInv

\* A put that commits replaces the version its intent was prepared against:
\* no committed put can have replaced that version before.
LEMMA PutBatchHistory ==
  ASSUME TypeOK, HistoryInv, NEW w \in Workers, PutBatch(w)
  PROVE HistoryInv'
<1> DEFINE j == task[w].key
           f == intent[j].file
<1>1. /\ j \in Intents /\ task[w].pin = j /\ task[w].subject = f /\ f \in Intents
      /\ task[w].commit \in Commits
  <2>1. task[w].op = "put"
    BY DEF PutBatch
  <2>2. task[w].subject \in Intents
    BY <2>1 DEF TypeOK, RequestOK, IsTask, NoTask, Task
  <2> QED BY <2>1, <2>2
          DEF TypeOK, RequestOK, IsTask, NoTask, Task, HistoryInv, TaskInv
<1>2. /\ intent[j].state = "prepared" /\ FileUnchanged(j)
      /\ evidence[j] = task[w].commit
  BY DEF PutBatch, PutCommits, Committable
<1>3. version[j] = "none"
  BY <1>1, <1>2 DEF HistoryInv, EvidenceInv, PublishedAsEvidenced
<1>4. /\ file'[f].state = "active" /\ file'[f].current = j
      /\ \A g \in Intents : g # f => file'[g] = file[g]
  BY <1>1 DEF PutBatch, TypeOK, DatabaseOK, FileRow
<1>5. version'[j] = "published" /\ \A v \in Intents : v # j => version'[v] = version[v]
  BY <1>1 DEF PutBatch, TypeOK, DatabaseOK
<1>6. /\ intent'[j].state = "committed" /\ intent'[j].file = f
      /\ intent'[j].current = intent[j].current
      /\ \A i \in Intents : i # j => intent'[i] = intent[i]
  BY <1>1 DEF PutBatch, TypeOK, DatabaseOK, WithState, IntentRow
<1>7. /\ evidence' = evidence
      /\ receipt'[j].commit = task[w].commit
      /\ receipt'[j].op = "put"
      /\ \A i \in Intents : i # j => receipt'[i] = receipt[i]
  BY <1>1 DEF PutBatch, CommitNamespace, TypeOK, DatabaseOK, ReceiptRow
<1>8. \A i \in Intents : intent[i].current # j
  BY <1>1, <1>3, NoneAssumption DEF HistoryInv, CurrentInv
<1>9. \A i \in Intents :
        intent[i].state = "committed" /\ intent[i].file = f =>
          intent[i].current # intent[j].current
  <2> SUFFICES ASSUME NEW i \in Intents, intent[i].state = "committed",
                      intent[i].file = f
               PROVE intent[i].current # intent[j].current
    OBVIOUS
  <2>1. /\ file[f].state # "none"
        /\ file[f].state = "active" => file[f].current # intent[i].current
    BY DEF HistoryInv, ReplacedInv
  <2>2. file[f] = FileRow("active", intent[j].current, intent[j].fileRevision)
    BY <1>2, <2>1 DEF FileUnchanged, NoFile, FileRow
  <2> QED BY <2>1, <2>2 DEF FileRow
<1> HIDE DEF j, f
<1>10. EvidenceInv'
  <2>1. receipt'[j] # NoReceipt
    BY <1>7 DEF NoReceipt, ReceiptRow
  <2>2. evidence[j] # None
    BY <1>1, <1>2, NoneAssumption
  <2> QED BY <1>1, <1>2, <1>5, <1>6, <1>7, <2>1, <2>2
          DEF HistoryInv, EvidenceInv, PublishedAsEvidenced
<1>11. TaskInv'
  <2> SUFFICES ASSUME NEW v \in Workers, task'[v].op = "put"
               PROVE /\ intent'[task'[v].key].state # "none"
                     /\ task'[v].subject = intent'[task'[v].key].file
    BY DEF TaskInv
  <2>1. task'[v] = task[v]
    BY FinishTask DEF PutBatch
  <2>2. task[v].key \in Intents
    BY <2>1 DEF TypeOK, RequestOK, IsTask, NoTask, Task
  <2>3. /\ intent[task[v].key].state # "none"
        /\ task[v].subject = intent[task[v].key].file
    BY <2>1 DEF HistoryInv, TaskInv
  <2> QED BY <1>6, <2>1, <2>2, <2>3 DEF f
<1>12. CurrentInv'
  <2>1. ASSUME NEW g \in Intents, file'[g].state = "active"
        PROVE file'[g].current \in Intents /\ version'[file'[g].current] # "none"
    BY <1>1, <1>4, <1>5, <2>1 DEF HistoryInv, CurrentInv
  <2>2. ASSUME NEW i \in Intents, intent'[i].current # None
        PROVE version'[intent'[i].current] # "none"
    <3>1. /\ intent'[i].current = intent[i].current
          /\ intent[i].current \in Intents \cup {None}
      BY <1>6 DEF TypeOK, DatabaseOK, IntentRows
    <3> QED BY <1>5, <2>2, <3>1 DEF HistoryInv, CurrentInv
  <2> QED BY <2>1, <2>2 DEF CurrentInv
<1>13. ReplacedInv'
  <2> SUFFICES ASSUME NEW i \in Intents, intent'[i].state = "committed"
               PROVE /\ file'[intent'[i].file].state # "none"
                     /\ file'[intent'[i].file].state = "active" =>
                          file'[intent'[i].file].current # intent'[i].current
    BY DEF ReplacedInv
  <2>1. intent'[i].file = intent[i].file /\ intent'[i].current = intent[i].current
    BY <1>6 DEF f
  <2>2. CASE intent[i].file = f
    BY <1>4, <1>8, <2>1, <2>2
  <2>3. CASE intent[i].file # f
    <3>1. i # j /\ intent[i].state = "committed"
      BY <1>6, <2>3 DEF f
    <3>2. intent[i].file \in Intents
      BY <3>1 DEF TypeOK, DatabaseOK
    <3> QED BY <1>4, <2>1, <2>3, <3>1, <3>2 DEF HistoryInv, ReplacedInv
  <2> QED BY <2>2, <2>3
<1>14. NoLostUpdate'
  BY <1>1, <1>6, <1>9 DEF HistoryInv, NoLostUpdate
<1> QED BY <1>10, <1>11, <1>12, <1>13, <1>14 DEF HistoryInv

LEMMA MkdirBatchHistory ==
  ASSUME TypeOK, HistoryInv, NEW w \in Workers, MkdirBatch(w)
  PROVE HistoryInv'
<1>1. task[w].key \in Keys
  BY DEF MkdirBatch, TypeOK, RequestOK, IsTask, NoTask, Task
<1>2. \A i \in Intents : receipt'[i] = receipt[i]
  BY <1>1, IdentityAssumption DEF MkdirBatch, CommitNamespace, TypeOK, DatabaseOK
<1>3. UNCHANGED <<intent, file, version, evidence>> /\ Finish(w)
  BY DEF MkdirBatch
<1> QED BY <1>2, <1>3, FinishTask, QuietStep

LEMMA RemoveBatchHistory ==
  ASSUME TypeOK, HistoryInv, NEW w \in Workers, RemoveBatch(w)
  PROVE HistoryInv'
<1>1. task[w].key \in Keys
  BY DEF RemoveBatch, TypeOK, RequestOK, IsTask, NoTask, Task
<1>2. \A i \in Intents : receipt'[i] = receipt[i]
  BY <1>1, IdentityAssumption DEF RemoveBatch, CommitNamespace, TypeOK, DatabaseOK
<1>3. UNCHANGED <<intent, evidence>> /\ Finish(w)
  BY DEF RemoveBatch
<1>4. \A v \in Intents : (version'[v] = "none") <=> (version[v] = "none")
  BY DEF RemoveBatch
<1>5. \A f \in Intents :
        \/ file'[f] = file[f]
        \/ file[f].state = "active" /\ file'[f].state = "tombstoned"
  BY DEF RemoveBatch, FileRow
<1>6. EvidenceInv'
  BY <1>2, <1>3, <1>4 DEF HistoryInv, EvidenceInv, PublishedAsEvidenced
<1>7. TaskInv'
  BY <1>3, FinishTask DEF HistoryInv, TaskInv
<1>8. CurrentInv'
  <2>1. ASSUME NEW f \in Intents, file'[f].state = "active"
        PROVE file'[f].current \in Intents /\ version'[file'[f].current] # "none"
    <3>1. file'[f] = file[f]
      BY <1>5, <2>1
    <3> QED BY <1>4, <2>1, <3>1 DEF HistoryInv, CurrentInv
  <2>2. ASSUME NEW i \in Intents, intent'[i].current # None
        PROVE version'[intent'[i].current] # "none"
    <3>1. intent[i].current \in Intents
      BY <1>3, <2>2 DEF TypeOK, DatabaseOK, IntentRows
    <3> QED BY <1>3, <1>4, <2>2, <3>1 DEF HistoryInv, CurrentInv
  <2> QED BY <2>1, <2>2 DEF CurrentInv
<1>9. ReplacedInv'
  <2> SUFFICES ASSUME NEW i \in Intents, intent'[i].state = "committed"
               PROVE /\ file'[intent'[i].file].state # "none"
                     /\ file'[intent'[i].file].state = "active" =>
                          file'[intent'[i].file].current # intent'[i].current
    BY DEF ReplacedInv
  <2>1. intent[i].file \in Intents
    BY <1>3 DEF TypeOK, DatabaseOK
  <2> QED BY <1>3, <1>5, <2>1 DEF HistoryInv, ReplacedInv
<1>10. NoLostUpdate'
  BY <1>3 DEF HistoryInv, NoLostUpdate
<1> QED BY <1>6, <1>7, <1>8, <1>9, <1>10 DEF HistoryInv

\* The steps that read, plan or fail change no put row.
LEMMA ReadingStep ==
  ASSUME TypeOK, NEW w \in Workers,
         \/ PlanFile(w) \/ CheckEmpty(w) \/ PlanRow(w) \/ PlanMismatch(w)
         \/ PlanRefused(w) \/ PlanStep(w) \/ PlanReload(w) \/ RefusedBatch(w)
         \/ Crash(w)
  PROVE /\ UNCHANGED <<intent, file, version, evidence, receipt, head, authorized>>
        /\ \A v \in Workers : task'[v] = task[v] \/ task'[v].op # "put"
<1>1. UNCHANGED <<intent, file, version, evidence, receipt, head, authorized>>
  BY DEF PlanFile, CheckEmpty, PlanRow, PlanMismatch, PlanRefused, PlanStep,
         PlanReload, RefusedBatch, Crash, database
<1>2. Finish(w) \/ Rebase(w) \/ task' = task
  BY DEF PlanFile, CheckEmpty, PlanRow, PlanMismatch, PlanRefused, PlanStep,
         PlanReload, RefusedBatch, Crash
<1> QED BY <1>1, <1>2, FinishTask, RebaseTask

LEMMA NextHistory == TypeOK /\ HistoryInv /\ [Next]_vars => HistoryInv'
<1> SUFFICES ASSUME TypeOK, HistoryInv, [Next]_vars PROVE HistoryInv'
  OBVIOUS
<1>1. ASSUME NEW i \in Intents, NEW d \in Dirs, NEW n \in Names, Prepare(i, d, n)
      PROVE HistoryInv'
  BY <1>1, PrepareHistory
<1>2. ASSUME NEW i \in Intents, Lapse(i) \/ ExpireIntent(i) PROVE HistoryInv'
  BY <1>2, LapseHistory
<1>3. CASE Revoke \/ RevokeParent
  BY <1>3, QuietStep DEF Revoke, RevokeParent, database
<1>4. ASSUME NEW w \in Workers, Start(w) PROVE HistoryInv'
  <2>1. ASSUME NEW k \in Keys, NEW d \in Dirs, NEW n \in Names, NEW c \in Dirs,
               StartMkdir(w, k, d, n, c)
        PROVE HistoryInv'
    <3>1. \A v \in Workers : task'[v] = task[v] \/ task'[v].op # "put"
      BY <2>1 DEF StartMkdir, TypeOK, Task
    <3> QED BY <2>1, <3>1, QuietStep DEF StartMkdir, database
  <2>2. ASSUME NEW k \in Keys, NEW d \in Dirs, NEW n \in Names,
               StartRemove(w, k, d, n)
        PROVE HistoryInv'
    <3>1. \A v \in Workers : task'[v] = task[v] \/ task'[v].op # "put"
      BY <2>2 DEF StartRemove, TypeOK, Task
    <3> QED BY <2>2, <3>1, QuietStep DEF StartRemove, database
  <2> QED BY <1>4, <2>1, <2>2, StartPutHistory DEF Start
<1>5. ASSUME NEW w \in Workers, Step(w) PROVE HistoryInv'
  <2>1. CASE \/ PlanFile(w) \/ CheckEmpty(w) \/ PlanRow(w) \/ PlanMismatch(w)
             \/ PlanRefused(w) \/ PlanStep(w) \/ PlanReload(w) \/ RefusedBatch(w)
    BY <2>1, ReadingStep, QuietStep
  <2> QED BY <1>5, <2>1, RecordEvidenceHistory, PutBatchHistory,
             MkdirBatchHistory, RemoveBatchHistory DEF Step
<1>6. ASSUME NEW w \in Workers, Crash(w) PROVE HistoryInv'
  BY <1>6, ReadingStep, QuietStep
<1>7. CASE UNCHANGED vars
  BY <1>7, QuietStep DEF vars, database
<1> QED BY <1>1, <1>2, <1>3, <1>4, <1>5, <1>6, <1>7 DEF Next

LEMMA HistoryInvariant == Spec => []HistoryInv
BY InitTyped, NextTyped, InitHistory, NextHistory, PTL DEF Spec

\* A put is published for the commit identity its evidence recorded first, and
\* its intent and version are committed and published together or not at all,
\* however commits, retries, expiry and revocation interleave.
THEOREM PublicationHasEvidence == Spec => []PublishedAsEvidenced
<1>1. HistoryInv => PublishedAsEvidenced
  BY DEF HistoryInv, EvidenceInv
<1> QED BY <1>1, HistoryInvariant, PTL

\* No two committed puts replaced the same version of a file.
THEOREM UpdatesAreNotLost == Spec => []NoLostUpdate
<1>1. HistoryInv => NoLostUpdate
  BY DEF HistoryInv
<1> QED BY <1>1, HistoryInvariant, PTL

-----------------------------------------------------------------------------
(* What a step may never do *)

\* The intents a step may change, and the versions it may publish.
LEMMA SettledStep ==
  ASSUME TypeOK, Next, NEW i \in Intents,
         intent[i].state \in {"committed", "expired"}
  PROVE /\ intent'[i].state = intent[i].state
        /\ version[i] = "none" => version'[i] = "none"
<1>1. ASSUME NEW j \in Intents, NEW d \in Dirs, NEW n \in Names, Prepare(j, d, n)
      PROVE intent'[i] = intent[i] /\ version' = version
  BY <1>1 DEF Prepare, TypeOK, DatabaseOK
<1>2. ASSUME NEW j \in Intents, Lapse(j) \/ ExpireIntent(j)
      PROVE intent'[i] = intent[i] /\ version' = version
  BY <1>2 DEF Lapse, ExpireIntent, TypeOK, DatabaseOK
<1>3. CASE Revoke \/ RevokeParent
  BY <1>3 DEF Revoke, RevokeParent, database
<1>4. ASSUME NEW w \in Workers, Start(w)
      PROVE intent' = intent /\ version' = version
  BY <1>4 DEF Start, StartPut, StartMkdir, StartRemove, database
<1>5. ASSUME NEW w \in Workers, PutBatch(w)
      PROVE intent'[i] = intent[i] /\ version'[i] = version[i]
  <2>1. task[w].key \in Intents /\ task[w].pin = task[w].key
    BY <1>5 DEF PutBatch, TypeOK, RequestOK, IsTask, NoTask, Task
  <2>2. i # task[w].key
    BY <1>5 DEF PutBatch, PutCommits, Committable
  <2> QED BY <1>5, <2>1, <2>2 DEF PutBatch, TypeOK, DatabaseOK
<1>6. ASSUME NEW w \in Workers, RemoveBatch(w)
      PROVE intent' = intent /\ (version[i] = "none" => version'[i] = "none")
  BY <1>6 DEF RemoveBatch
<1>7. ASSUME NEW w \in Workers, RecordEvidence(w) \/ MkdirBatch(w)
      PROVE intent' = intent /\ version' = version
  BY <1>7 DEF RecordEvidence, MkdirBatch
<1> QED BY <1>1, <1>2, <1>3, <1>4, <1>5, <1>6, <1>7, ReadingStep DEF Next, Step

\* An expired or committed intent keeps its state and publishes nothing new,
\* even if a request planned its commit before the expiry.
THEOREM SettledIntentsAreFinal == Spec => SettledIntentsStay
<1>1. TypeOK /\ [Next]_vars =>
        [\A i \in Intents :
           intent[i].state \in {"committed", "expired"} =>
             /\ intent'[i].state = intent[i].state
             /\ version[i] = "none" => version'[i] = "none"]_vars
  BY SettledStep
<1> QED BY <1>1, TypeCorrect, PTL DEF Spec, SettledIntentsStay

-----------------------------------------------------------------------------
(* Receipts and catalog revisions *)

LEMMA InitReceipts == Init => ReceiptsAreHistory
<1> SUFFICES ASSUME Init PROVE ReceiptsAreHistory
  OBVIOUS
<1>1. SeedRevision \in Nat
  BY FS_CardinalityType, SeedAssumption DEF SeedRevision
<1>2. \A k \in Intents \cup Keys : receipt[k] = NoReceipt
  BY DEF Init
<1>3. SeedRevision + 1 .. head.revision = {}
  BY <1>1 DEF Init
<1> QED BY <1>2, <1>3 DEF ReceiptsAreHistory

\* A committed batch appends one receipt at the next revision.
LEMMA CommitReceipts ==
  ASSUME TypeOK, ReceiptsAreHistory, NEW k \in Intents \cup Keys, NEW r,
         r # NoReceipt, r.revision = head.revision + 1,
         receipt[k] = NoReceipt, head.revision >= SeedRevision,
         receipt' = [receipt EXCEPT ![k] = r],
         head'.revision = head.revision + 1
  PROVE ReceiptsAreHistory' /\ head'.revision >= SeedRevision
<1> DEFINE Ks == Intents \cup Keys
           old == {receipt[l].revision : l \in {m \in Ks : receipt[m] # NoReceipt}}
           new == {receipt'[l].revision : l \in {m \in Ks : receipt'[m] # NoReceipt}}
<1>1. head.revision \in Nat /\ SeedRevision \in Nat
  BY FS_CardinalityType, SeedAssumption DEF SeedRevision, TypeOK, DatabaseOK
<1>2. receipt'[k] = r /\ \A l \in Ks : l # k => receipt'[l] = receipt[l]
  BY DEF TypeOK, DatabaseOK
<1>3. old = SeedRevision + 1 .. head.revision
  BY DEF ReceiptsAreHistory
<1>4. \A l \in Ks : receipt[l] # NoReceipt => receipt[l].revision \in old
  OBVIOUS
<1>5. new = old \cup {head.revision + 1}
  <2>1. ASSUME NEW x \in new PROVE x \in old \cup {head.revision + 1}
    BY <1>2
  <2>2. ASSUME NEW x \in old PROVE x \in new
    BY <1>2
  <2>3. head.revision + 1 \in new
    BY <1>2
  <2> QED BY <2>1, <2>2, <2>3
<1> HIDE DEF old, new
<1>6. new = SeedRevision + 1 .. head.revision + 1
  BY <1>1, <1>3, <1>5
<1>7. ASSUME NEW l \in Ks, NEW m \in Ks, l # m, receipt'[l] # NoReceipt
      PROVE receipt'[l].revision # receipt'[m].revision
  <2>1. NoReceipt.revision = 0
    BY DEF NoReceipt, ReceiptRow
  <2>2. ASSUME NEW q \in Ks, receipt[q] # NoReceipt
        PROVE receipt[q].revision # head.revision + 1
    BY <1>1, <1>3, <1>4, <2>2
  <2>3. CASE l = k
    <3>1. receipt'[m] = receipt[m] /\ receipt'[l] = r
      BY <1>2, <1>7, <2>3
    <3>2. CASE receipt[m] = NoReceipt
      BY <1>1, <2>1, <3>1, <3>2
    <3> QED BY <2>2, <3>1, <3>2
  <2>4. CASE l # k /\ m = k
    BY <1>2, <1>7, <2>2, <2>4
  <2>5. CASE l # k /\ m # k
    BY <1>2, <1>7, <2>5 DEF ReceiptsAreHistory
  <2> QED BY <2>3, <2>4, <2>5
<1> QED BY <1>1, <1>6, <1>7 DEF ReceiptsAreHistory, new

\* The history only grows.
HeadInv == ReceiptsAreHistory /\ head.revision >= SeedRevision

LEMMA NextReceipts == TypeOK /\ HeadInv /\ [Next]_vars => HeadInv'
<1> SUFFICES ASSUME TypeOK, HeadInv, [Next]_vars PROVE HeadInv'
  OBVIOUS
<1>1. ASSUME UNCHANGED <<receipt, head>> PROVE HeadInv'
  BY <1>1 DEF HeadInv, ReceiptsAreHistory
<1>2. ASSUME NEW w \in Workers, PutBatch(w) \/ MkdirBatch(w) \/ RemoveBatch(w)
      PROVE HeadInv'
  <2> DEFINE r == ReceiptRow(task[w].op, task[w].commit, head.revision + 1)
  <2>1. /\ CommitNamespace(w)
        /\ receipt[task[w].key] = NoReceipt
        /\ task[w].op \in {"put", "mkdir", "remove"}
    BY <1>2 DEF PutBatch, PutCommits, MkdirBatch, MkdirCommits, RemoveBatch,
                RemoveCommits
  <2>2. task[w].key \in Intents \cup Keys
    BY <2>1 DEF TypeOK, RequestOK, IsTask, NoTask, Task
  <2>3. /\ receipt' = [receipt EXCEPT ![task[w].key] = r]
        /\ head'.revision = head.revision + 1
    BY <2>1 DEF CommitNamespace
  <2>4. r # NoReceipt /\ r.revision = head.revision + 1
    BY <2>1 DEF NoReceipt, ReceiptRow
  <2> HIDE DEF r
  <2> QED BY <2>1, <2>2, <2>3, <2>4, CommitReceipts DEF HeadInv
<1>3. ASSUME NEW i \in Intents, NEW d \in Dirs, NEW n \in Names, Prepare(i, d, n)
      PROVE HeadInv'
  BY <1>1, <1>3 DEF Prepare
<1>4. ASSUME NEW i \in Intents, Lapse(i) \/ ExpireIntent(i) PROVE HeadInv'
  BY <1>1, <1>4 DEF Lapse, ExpireIntent
<1>5. CASE Revoke \/ RevokeParent \/ UNCHANGED vars
  BY <1>1, <1>5 DEF Revoke, RevokeParent, database, vars
<1>6. ASSUME NEW w \in Workers, Start(w) PROVE HeadInv'
  BY <1>1, <1>6 DEF Start, StartPut, StartMkdir, StartRemove, database
<1>7. ASSUME NEW w \in Workers, RecordEvidence(w) PROVE HeadInv'
  BY <1>1, <1>7 DEF RecordEvidence
<1>8. ASSUME NEW w \in Workers,
             \/ PlanFile(w) \/ CheckEmpty(w) \/ PlanRow(w) \/ PlanMismatch(w)
             \/ PlanRefused(w) \/ PlanStep(w) \/ PlanReload(w) \/ RefusedBatch(w)
             \/ Crash(w)
      PROVE HeadInv'
  BY <1>1, <1>8, ReadingStep
<1> QED BY <1>2, <1>3, <1>4, <1>5, <1>6, <1>7, <1>8 DEF Next, Step

\* Receipts are the history of the catalog: every revision after the bootstrap
\* belongs to exactly one receipt, so a retried or raced request mutates once.
THEOREM ReceiptsAreTheHistory == Spec => []ReceiptsAreHistory
<1>1. Init => HeadInv
  <2>1. ASSUME Init PROVE head.revision = SeedRevision /\ SeedRevision \in Nat
    BY <2>1, FS_CardinalityType, SeedAssumption DEF SeedRevision, Init
  <2> QED BY <2>1, InitReceipts DEF HeadInv
<1>2. HeadInv => ReceiptsAreHistory
  BY DEF HeadInv
<1> QED BY <1>1, <1>2, TypeCorrect, NextReceipts, PTL DEF Spec

-----------------------------------------------------------------------------
(* The tree: the invariant *)

\* The digest of a directory after one name is given another entry.
Replaced(root, n, e) ==
  {x \in root : x[1] # n} \cup
    (IF e.kind = "absent" THEN {} ELSE {<<n, e.kind, e.subject, e.pin>>})

\* The entry a planned update puts under its name.
PlannedEntry(w, d) ==
  LET u == steps[w][d] IN
  IF u.child = None
    THEN TargetEntry(task[w])
    ELSE EntryRow("directory", u.child, steps[w][u.child].new, 0)

\* Rows of directories: an unused identity is blank, a used one has a revision
\* and, but for the root, a parent.
DirInv ==
  /\ \A d \in Dirs :
       IF dir[d].state = "none"
         THEN dir[d] = NoDir
         ELSE dir[d].revision > 0 /\ (dir[d].parent = None <=> d = Root)

\* A planned update and what has become of its directory since the row was
\* read: its revision never goes back; at the planned revision the entries are
\* the ones read; one revision later with the planned root, somebody else has
\* made the same update.
UpdateInv(w, d) ==
  LET u == steps[w][d] IN
  /\ task[w].op # "none" /\ dir[d].state # "none"
  /\ u.name \in Names
  /\ u.new = Replaced(u.root, u.name, PlannedEntry(w, d))
  /\ u.new # u.root
  /\ (u.child = None) <=> (d = task[w].dir)
  /\ u.child = None => u.name = task[w].name
  /\ u.child # None =>
       /\ u.child \in Planned(steps[w])
       /\ dir[u.child].state # "none"
       /\ dir[u.child].parent = d /\ dir[u.child].name = u.name
       /\ \E x \in u.root : x[1] = u.name /\ x[2] = "directory" /\ x[3] = u.child
  /\ dir[d].revision >= u.revision
  /\ dir[d].revision = u.revision =>
       dir[d].root = u.root /\ entry[d][u.name].revision = u.link
  /\ dir[d].revision = u.revision + 1 /\ dir[d].root = u.new /\ u.child # None =>
       entry[d][u.name].revision # u.link

\* The plan is a chain from the target directory up to the one the walk came
\* from, and in the end to the root.
PlanInv(w) ==
  /\ \A d \in Dirs : IF d \in Planned(steps[w]) THEN UpdateInv(w, d)
                                               ELSE steps[w][d] = NoUpdate
  /\ Planned(steps[w]) # {} => task[w].dir \in Planned(steps[w])
  /\ \A c \in Planned(steps[w]) :
       \/ c = IF pc[w] = "batch" THEN Root ELSE walk[w].child
       \/ \E d \in Planned(steps[w]) : steps[w][d].child = c
  /\ pc[w] \in {"idle", "evidence", "empty"} => Planned(steps[w]) = {}
  /\ pc[w] = "batch" => Root \in Planned(steps[w])

\* The cursor of the walk and the row it has loaded.
WalkInv(w) ==
  LET k == walk[w] IN
  /\ pc[w] \in {"file", "row", "entries", "reload"} =>
       IF k.child = None
         THEN Planned(steps[w]) = {} /\ k.at = task[w].dir
         ELSE /\ k.child \in Planned(steps[w])
              /\ dir[k.child].state # "none"
              /\ dir[k.child].parent = k.at /\ dir[k.child].name = k.name
  /\ pc[w] = "file" => k.child = None
  /\ pc[w] \in {"entries", "reload"} =>
       /\ k.at \notin Planned(steps[w])
       /\ k.row.state # "none" /\ k.row.revision > 0
       /\ dir[k.at].state # "none"
       /\ dir[k.at].parent = k.row.parent /\ dir[k.at].name = k.row.name
       /\ dir[k.at].revision >= k.row.revision
       /\ dir[k.at].revision = k.row.revision => dir[k.at].root = k.row.root
  /\ pc[w] = "reload" => dir[k.at].revision > k.row.revision
  /\ pc[w] # "corrupt"

\* A removal of a directory knows the place of its link.
RemovalInv(w) ==
  task[w].op = "remove" /\ task[w].kind = "directory" =>
    /\ dir[task[w].subject].state # "none"
    /\ dir[task[w].subject].parent = task[w].dir
    /\ dir[task[w].subject].name = task[w].name

TreeInv ==
  /\ MerkleConsistent
  /\ DirInv
  /\ NoStrandedEntries
  /\ \A w \in Workers : PlanInv(w) /\ WalkInv(w) /\ RemovalInv(w)

\* The intent names this place / this file.
PlacedAt(i, d, n) ==
  intent[i].state # "none" /\ intent[i].dir = d /\ intent[i].name = n
VersionOf(v, f) == intent[v].state # "none" /\ intent[v].file = f

\* Every file has one place for life, the one its first intent names.
PlacedIntents ==
  \A i \in Intents : intent[i].state # "none" =>
    PlacedAt(intent[i].file, intent[i].dir, intent[i].name)
PlacedEntries ==
  \A d \in Dirs, n \in Names : entry[d][n].kind = "file" =>
    /\ PlacedAt(entry[d][n].subject, d, n)
    /\ VersionOf(entry[d][n].pin, entry[d][n].subject)
PlacedTasks ==
  \A w \in Workers :
    /\ task[w].op = "put" => PlacedAt(task[w].key, task[w].dir, task[w].name)
    /\ task[w].op = "remove" /\ task[w].kind = "file" =>
         /\ PlacedAt(task[w].subject, task[w].dir, task[w].name)
         /\ VersionOf(task[w].pin, task[w].subject)
PlaceInv == PlacedIntents /\ PlacedEntries /\ PlacedTasks

PinInv == PlaceInv /\ EntryPinsPublished

-----------------------------------------------------------------------------
(* The digest of a directory *)

LEMMA DigestOf ==
  ASSUME NEW es, NEW x
  PROVE x \in DirectoryRoot(es) <=>
          \E m \in Names : /\ es[m].kind # "absent"
                           /\ x = <<m, es[m].kind, es[m].subject, es[m].pin>>
BY DEF DirectoryRoot

\* At most one element of a digest carries a name: that of the entry there.
LEMMA DigestName ==
  ASSUME NEW es, NEW n \in Names, NEW x \in DirectoryRoot(es), x[1] = n
  PROVE /\ es[n].kind # "absent" /\ x[2] = es[n].kind
        /\ x[3] = es[n].subject /\ x[4] = es[n].pin
<1>1. PICK m \in Names : /\ es[m].kind # "absent"
                         /\ x = <<m, es[m].kind, es[m].subject, es[m].pin>>
  BY DigestOf
<1> QED BY <1>1

LEMMA DigestHas ==
  ASSUME NEW es, NEW n \in Names, es[n].kind # "absent"
  PROVE <<n, es[n].kind, es[n].subject, es[n].pin>> \in DirectoryRoot(es)
BY DEF DirectoryRoot

\* Replacing an entry replaces its element of the digest.
LEMMA DigestReplace ==
  ASSUME NEW es, NEW fs, NEW n \in Names, NEW e,
         \A m \in Names : m # n => fs[m] = es[m],
         fs[n].kind = e.kind, fs[n].subject = e.subject, fs[n].pin = e.pin
  PROVE DirectoryRoot(fs) = Replaced(DirectoryRoot(es), n, e)
<1>1. ASSUME NEW x \in DirectoryRoot(fs)
      PROVE x \in Replaced(DirectoryRoot(es), n, e)
  <2>1. PICK m \in Names : /\ fs[m].kind # "absent"
                           /\ x = <<m, fs[m].kind, fs[m].subject, fs[m].pin>>
    BY <1>1, DigestOf
  <2>2. CASE m = n
    BY <2>1, <2>2 DEF Replaced
  <2>3. CASE m # n
    <3>1. x \in DirectoryRoot(es)
      BY <2>1, <2>3, DigestOf
    <3> QED BY <3>1, <2>1, <2>3 DEF Replaced
  <2> QED BY <2>2, <2>3
<1>2. ASSUME NEW x \in Replaced(DirectoryRoot(es), n, e)
      PROVE x \in DirectoryRoot(fs)
  <2>1. CASE x \in DirectoryRoot(es) /\ x[1] # n
    <3>1. PICK m \in Names : /\ es[m].kind # "absent"
                             /\ x = <<m, es[m].kind, es[m].subject, es[m].pin>>
      BY <2>1, DigestOf
    <3>2. m # n
      BY <3>1, <2>1
    <3>3. fs[m] = es[m]
      BY <3>2
    <3> QED BY <3>1, <3>3, DigestOf
  <2>2. CASE e.kind # "absent" /\ x = <<n, e.kind, e.subject, e.pin>>
    BY <2>2, DigestOf
  <2> QED BY <1>2, <2>1, <2>2 DEF Replaced
<1> QED BY <1>1, <1>2

\* What a directory shows under a name whose entry was replaced.
LEMMA ReplacedName ==
  ASSUME NEW es, NEW n \in Names, NEW root, NEW e,
         DirectoryRoot(es) = Replaced(root, n, e)
  PROVE /\ e.kind = "absent" => es[n].kind = "absent"
        /\ e.kind # "absent" => /\ es[n].kind = e.kind
                                /\ es[n].subject = e.subject
                                /\ es[n].pin = e.pin
<1>1. CASE e.kind = "absent"
  <2>1. \A x \in DirectoryRoot(es) : x[1] # n
    BY <1>1 DEF Replaced
  <2>2. ASSUME es[n].kind # "absent" PROVE FALSE
    <3> DEFINE x == <<n, es[n].kind, es[n].subject, es[n].pin>>
    <3>1. x[1] = n
      OBVIOUS
    <3>2. x \in DirectoryRoot(es)
      BY <2>2, DigestHas
    <3> HIDE DEF x
    <3> QED BY <3>1, <3>2, <2>1
  <2> QED BY <2>2, <1>1
<1>2. CASE e.kind # "absent"
  <2> DEFINE x == <<n, e.kind, e.subject, e.pin>>
  <2>1. x \in DirectoryRoot(es)
    BY <1>2 DEF Replaced
  <2>2. x[1] = n /\ x[2] = e.kind /\ x[3] = e.subject /\ x[4] = e.pin
    OBVIOUS
  <2> HIDE DEF x
  <2> QED BY <2>1, <2>2, <1>2, DigestName
<1> QED BY <1>1, <1>2

\* Replacing an entry by one with the same content leaves the digest.
LEMMA ReplacedSame ==
  ASSUME NEW es, NEW n \in Names, NEW e,
         es[n].kind = e.kind, es[n].subject = e.subject, es[n].pin = e.pin
  PROVE Replaced(DirectoryRoot(es), n, e) = DirectoryRoot(es)
BY DigestReplace

-----------------------------------------------------------------------------
(* A committing batch *)

\* The batch of one of the three protocols commits.
Committing(w) ==
  \/ PutBatch(w)
  \/ MkdirBatch(w)
  \/ RemoveBatch(w)

\* The planned row is still the current one, so the update takes effect.
Applied(w, d) ==
  d \in Planned(steps[w]) /\ dir[d].revision = steps[w][d].revision

\* The statement on the removed directory takes effect.
Tombstones(w, d) ==
  /\ task[w].op = "remove" /\ task[w].kind = "directory"
  /\ d = task[w].subject /\ dir[d].state = "active"

Creates(w, d) == task[w].op = "mkdir" /\ d = task[w].subject

LEMMA CommittingFacts ==
  ASSUME TypeOK, TreeInv, NEW w \in Workers, Committing(w)
  PROVE /\ pc[w] = "batch" /\ task[w].op # "none"
        /\ task[w].dir \in Dirs /\ task[w].name \in Names
        /\ dir' = BatchDirs(w) /\ entry' = BatchEntries(w)
        /\ head'.root = steps[w][Root].new
        /\ PlanIsApplied(w) /\ WrittenLinksMirrorChildren(w)
        /\ Finish(w)
        /\ Root \in Planned(steps[w]) /\ task[w].dir \in Planned(steps[w])
        /\ task[w].op # "remove" => /\ PlanIsCurrent(w)
                                    /\ dir[task[w].dir].state = "active"
                                    /\ TargetMatches(task[w], entry[task[w].dir][task[w].name])
        /\ task[w].op = "mkdir" => dir[task[w].subject] = NoDir
        /\ task[w].op = "remove" =>
             /\ BatchEntries(w)[task[w].dir][task[w].name] = NoEntry
             /\ task[w].kind = "directory" => HasNoEntry(BatchEntries(w)[task[w].subject])
<1>1. pc[w] = "batch" /\ CommitNamespace(w) /\ Finish(w)
  BY DEF Committing, PutBatch, MkdirBatch, RemoveBatch
<1>2. /\ task[w].op # "none" /\ task[w].dir \in Dirs /\ task[w].name \in Names
  BY <1>1 DEF TypeOK, RequestOK, IsTask
<1>3. /\ dir' = BatchDirs(w) /\ entry' = BatchEntries(w)
      /\ head'.root = steps[w][Root].new
  BY <1>1 DEF CommitNamespace
<1>4. /\ Root \in Planned(steps[w]) /\ task[w].dir \in Planned(steps[w])
  BY <1>1 DEF TreeInv, PlanInv
<1>5. /\ PlanIsApplied(w) /\ WrittenLinksMirrorChildren(w)
      /\ task[w].op # "remove" => /\ PlanIsCurrent(w)
                                  /\ dir[task[w].dir].state = "active"
                                  /\ TargetMatches(task[w], entry[task[w].dir][task[w].name])
      /\ task[w].op = "mkdir" => dir[task[w].subject] = NoDir
      /\ task[w].op = "remove" =>
           /\ BatchEntries(w)[task[w].dir][task[w].name] = NoEntry
           /\ task[w].kind = "directory" => HasNoEntry(BatchEntries(w)[task[w].subject])
  BY DEF Committing, PutBatch, MkdirBatch, RemoveBatch, PutCommits, MkdirCommits,
         RemoveCommits
<1> QED BY <1>1, <1>2, <1>3, <1>4, <1>5

\* The updates of a plan, one fact per use.
LEMMA PlannedFacts ==
  ASSUME TypeOK, TreeInv, NEW w \in Workers, NEW d \in Planned(steps[w])
  PROVE /\ d \in Dirs /\ UpdateInv(w, d)
        /\ steps[w][d].revision \in Nat /\ steps[w][d].revision > 0
        /\ steps[w][d].link \in Nat
        /\ dir[d].revision \in Nat /\ dir[d].revision > 0
        /\ dir[d].root = DirectoryRoot(entry[d])
<1>1. d \in Dirs /\ steps[w][d].revision > 0
  BY DEF Planned
<1>2. UpdateInv(w, d)
  BY <1>1 DEF TreeInv, PlanInv
<1>3. IsUpdate(steps[w][d]) /\ IsDir(dir[d])
  BY <1>1 DEF TypeOK, RequestOK, DatabaseOK
<1>4. dir[d].revision > 0
  BY <1>1, <1>2 DEF UpdateInv, TreeInv, DirInv
<1>5. dir[d].root = DirectoryRoot(entry[d])
  BY <1>1 DEF TreeInv, MerkleConsistent
<1> QED BY <1>1, <1>2, <1>3, <1>4, <1>5 DEF IsUpdate, IsDir

LEMMA UnplannedFacts ==
  ASSUME TreeInv, NEW w \in Workers, NEW d \in Dirs, d \notin Planned(steps[w])
  PROVE steps[w][d] = NoUpdate
BY DEF TreeInv, PlanInv

\* A removed directory is never on the path of its own removal: its planned
\* root would have to be the one it had.
LEMMA RemovedIsNotPlanned ==
  ASSUME TypeOK, TreeInv, NEW w \in Workers, Committing(w), NEW d \in Dirs,
         Tombstones(w, d)
  PROVE d \notin Planned(steps[w])
<1> SUFFICES ASSUME d \in Planned(steps[w]) PROVE FALSE
  OBVIOUS
<1> DEFINE u == steps[w][d]
           r == DirRow("tombstoned", dir[d].parent, dir[d].name, dir[d].root,
                       dir[d].revision + 1)
<1>1. /\ UpdateInv(w, d) /\ u.revision \in Nat /\ dir[d].revision \in Nat
  BY PlannedFacts
<1>2. SubjectDirs(task[w])[d] = r
  BY DEF SubjectDirs, Tombstones
<1>3. dir[d].revision >= u.revision /\ u.new # u.root
      /\ (dir[d].revision = u.revision => dir[d].root = u.root)
  BY <1>1 DEF UpdateInv
<1>4. r.revision = dir[d].revision + 1 /\ r.root = dir[d].root
  BY DEF DirRow
<1>5. BatchDirs(w)[d] = r
  <2>1. r.revision # u.revision
    BY <1>1, <1>3, <1>4
  <2> QED BY <2>1, <1>2 DEF BatchDirs
<1>6. BatchDirs(w)[d].revision = u.revision + 1 /\ BatchDirs(w)[d].root = u.new
  BY CommittingFacts DEF PlanIsApplied
<1> QED BY <1>1, <1>3, <1>4, <1>5, <1>6

\* What the batch makes of a row: a new directory, a tombstone, the planned
\* update, or nothing.
LEMMA BatchRow ==
  ASSUME TypeOK, TreeInv, NEW w \in Workers, Committing(w), NEW d \in Dirs
  PROVE /\ Creates(w, d) =>
             /\ dir[d] = NoDir /\ d \notin Planned(steps[w])
             /\ dir'[d] = DirRow("active", task[w].dir, task[w].name, EmptyRoot, 1)
        /\ Tombstones(w, d) =>
             /\ d \notin Planned(steps[w])
             /\ dir'[d] = DirRow("tombstoned", dir[d].parent, dir[d].name,
                                 dir[d].root, dir[d].revision + 1)
        /\ Applied(w, d) =>
             /\ ~Creates(w, d) /\ ~Tombstones(w, d)
             /\ dir[d].root = steps[w][d].root
             /\ dir'[d] = DirRow(dir[d].state, dir[d].parent, dir[d].name,
                                 steps[w][d].new, dir[d].revision + 1)
        /\ ~Creates(w, d) /\ ~Tombstones(w, d) /\ ~Applied(w, d) =>
             dir'[d] = dir[d]
<1> DEFINE u == steps[w][d]
           before == SubjectDirs(task[w])[d]
<1>1. dir'[d] = IF u.revision > 0 /\ before.revision = u.revision /\ before.root = u.root
                  THEN DirRow(before.state, before.parent, before.name, u.new,
                              before.revision + 1)
                  ELSE before
  BY CommittingFacts DEF BatchDirs
<1>2. d \notin Planned(steps[w]) => u = NoUpdate
  BY UnplannedFacts
<1>3. NoUpdate.revision = 0
  BY DEF NoUpdate, Update
<1>4. d \notin Planned(steps[w]) => dir'[d] = before
  <2> HIDE DEF u, before
  <2> QED BY <1>1, <1>2, <1>3
<1>5. ASSUME Creates(w, d)
      PROVE /\ dir[d] = NoDir /\ d \notin Planned(steps[w])
            /\ dir'[d] = DirRow("active", task[w].dir, task[w].name, EmptyRoot, 1)
  <2>1. dir[d] = NoDir
    BY <1>5, CommittingFacts DEF Creates
  <2>2. d \notin Planned(steps[w])
    <3>1. dir[d].state = "none"
      BY <2>1 DEF NoDir, DirRow
    <3> QED BY <3>1, PlannedFacts DEF UpdateInv
  <2>3. before = DirRow("active", task[w].dir, task[w].name, EmptyRoot, 1)
    BY <1>5 DEF Creates, SubjectDirs, TypeOK, DatabaseOK
  <2> HIDE DEF before
  <2> QED BY <1>4, <2>1, <2>2, <2>3
<1>6. ASSUME Tombstones(w, d)
      PROVE /\ d \notin Planned(steps[w])
            /\ dir'[d] = DirRow("tombstoned", dir[d].parent, dir[d].name,
                                dir[d].root, dir[d].revision + 1)
  <2>1. d \notin Planned(steps[w])
    BY <1>6, RemovedIsNotPlanned
  <2>2. before = DirRow("tombstoned", dir[d].parent, dir[d].name,
                        dir[d].root, dir[d].revision + 1)
    BY <1>6 DEF Tombstones, SubjectDirs
  <2> HIDE DEF before
  <2> QED BY <1>4, <2>1, <2>2
<1>7. ASSUME ~Creates(w, d), ~Tombstones(w, d) PROVE before = dir[d]
  <2>1. CASE task[w].op = "mkdir"
    BY <1>7, <2>1 DEF Creates, SubjectDirs, TypeOK, DatabaseOK
  <2>2. CASE task[w].op = "remove" /\ task[w].kind = "directory"
    BY <1>7, <2>2 DEF Tombstones, SubjectDirs
  <2>3. CASE task[w].op # "mkdir" /\ ~(task[w].op = "remove" /\ task[w].kind = "directory")
    BY <2>3 DEF SubjectDirs
  <2> QED BY <2>1, <2>2, <2>3
<1>8. ASSUME Applied(w, d)
      PROVE /\ ~Creates(w, d) /\ ~Tombstones(w, d)
            /\ dir[d].root = u.root
            /\ dir'[d] = DirRow(dir[d].state, dir[d].parent, dir[d].name,
                                u.new, dir[d].revision + 1)
  <2>1. d \in Planned(steps[w]) /\ dir[d].revision = u.revision
    BY <1>8 DEF Applied
  <2>2. ~Creates(w, d) /\ ~Tombstones(w, d)
    BY <2>1, <1>5, <1>6
  <2>3. dir[d].root = u.root /\ u.revision > 0
    BY <2>1, PlannedFacts DEF UpdateInv
  <2>4. before = dir[d]
    BY <2>2, <1>7
  <2> HIDE DEF before, u
  <2> QED BY <1>1, <2>1, <2>2, <2>3, <2>4
<1>9. ASSUME ~Creates(w, d), ~Tombstones(w, d), ~Applied(w, d)
      PROVE dir'[d] = dir[d]
  <2>1. before = dir[d]
    BY <1>9, <1>7
  <2>2. CASE d \in Planned(steps[w])
    <3>1. dir[d].revision # u.revision
      BY <1>9, <2>2 DEF Applied
    <3> HIDE DEF before, u
    <3> QED BY <1>1, <2>1, <3>1
  <2>3. CASE d \notin Planned(steps[w])
    <3> HIDE DEF before
    <3> QED BY <1>4, <2>1, <2>3
  <2> QED BY <2>2, <2>3
<1> HIDE DEF u, before
<1> QED BY <1>5, <1>6, <1>8, <1>9 DEF u

\* The same, field by field.
LEMMA BatchFields ==
  ASSUME TypeOK, TreeInv, NEW w \in Workers, Committing(w), NEW d \in Dirs
  PROVE /\ Creates(w, d) =>
             /\ dir[d].state = "none" /\ dir[d].root = EmptyRoot
             /\ dir'[d].state = "active" /\ dir'[d].parent = task[w].dir
             /\ dir'[d].root = EmptyRoot /\ dir'[d].revision = 1
        /\ Tombstones(w, d) =>
             /\ dir'[d].state = "tombstoned" /\ dir'[d].parent = dir[d].parent
             /\ dir'[d].name = dir[d].name /\ dir'[d].root = dir[d].root
             /\ dir'[d].revision = dir[d].revision + 1
        /\ Applied(w, d) =>
             /\ dir'[d].state = dir[d].state /\ dir'[d].parent = dir[d].parent
             /\ dir'[d].name = dir[d].name /\ dir'[d].root = steps[w][d].new
             /\ dir'[d].revision = dir[d].revision + 1
<1>1. ASSUME NEW state, NEW parent, NEW name, NEW root, NEW revision, NEW r,
             r = DirRow(state, parent, name, root, revision)
      PROVE /\ r.state = state /\ r.parent = parent /\ r.name = name
            /\ r.root = root /\ r.revision = revision
  BY <1>1 DEF DirRow
<1>2. Creates(w, d) =>
        /\ dir[d].state = "none" /\ dir[d].root = EmptyRoot
        /\ dir'[d].state = "active" /\ dir'[d].parent = task[w].dir
        /\ dir'[d].root = EmptyRoot /\ dir'[d].revision = 1
  <2> SUFFICES ASSUME Creates(w, d)
               PROVE /\ dir[d].state = "none" /\ dir[d].root = EmptyRoot
                     /\ dir'[d].state = "active" /\ dir'[d].parent = task[w].dir
                     /\ dir'[d].root = EmptyRoot /\ dir'[d].revision = 1
    OBVIOUS
  <2>1. dir[d] = DirRow("none", None, None, EmptyRoot, 0)
    BY BatchRow DEF NoDir, EmptyRoot
  <2>2. dir'[d] = DirRow("active", task[w].dir, task[w].name, EmptyRoot, 1)
    BY BatchRow
  <2> QED BY <2>1, <2>2, <1>1
<1>3. Tombstones(w, d) =>
        /\ dir'[d].state = "tombstoned" /\ dir'[d].parent = dir[d].parent
        /\ dir'[d].name = dir[d].name /\ dir'[d].root = dir[d].root
        /\ dir'[d].revision = dir[d].revision + 1
  BY BatchRow, <1>1
<1>4. Applied(w, d) =>
        /\ dir'[d].state = dir[d].state /\ dir'[d].parent = dir[d].parent
        /\ dir'[d].name = dir[d].name /\ dir'[d].root = steps[w][d].new
        /\ dir'[d].revision = dir[d].revision + 1
  BY BatchRow, <1>1
<1> QED BY <1>2, <1>3, <1>4

\* An update that is not applied was made by somebody else: only a removal,
\* which is not compared with the rows it was planned on, gets through then.
LEMMA SkippedUpdate ==
  ASSUME TypeOK, TreeInv, NEW w \in Workers, Committing(w),
         NEW d \in Planned(steps[w]), ~Applied(w, d)
  PROVE /\ task[w].op = "remove"
        /\ dir[d].revision = steps[w][d].revision + 1
        /\ dir[d].root = steps[w][d].new
<1>1. d \in Dirs
  BY DEF Planned
<1>2. dir'[d] = dir[d]
  BY <1>1, BatchRow
<1>3. dir'[d].revision = steps[w][d].revision + 1 /\ dir'[d].root = steps[w][d].new
  BY CommittingFacts DEF PlanIsApplied
<1>4. task[w].op # "remove" => dir[d].revision = steps[w][d].revision
  BY CommittingFacts DEF PlanIsCurrent
<1> QED BY <1>2, <1>3, <1>4 DEF Applied

\* The planned directories below the target are on the path by their link.
LEMMA LinkName ==
  ASSUME TypeOK, TreeInv, NEW w \in Workers, NEW d \in Planned(steps[w]),
         steps[w][d].child # None, dir[d].root = steps[w][d].root
  PROVE /\ steps[w][d].name \in Names
        /\ entry[d][steps[w][d].name].kind = "directory"
        /\ entry[d][steps[w][d].name].subject = steps[w][d].child
<1> DEFINE u == steps[w][d]
<1>1. UpdateInv(w, d) /\ u.root = DirectoryRoot(entry[d])
  BY PlannedFacts
<1>2. u.name \in Names
  BY <1>1 DEF UpdateInv
<1>3. PICK x \in u.root : x[1] = u.name /\ x[2] = "directory" /\ x[3] = u.child
  BY <1>1 DEF UpdateInv
<1> QED BY <1>1, <1>2, <1>3, DigestName

\* The target directory: the target entry and nothing else.
LEMMA BatchTarget ==
  ASSUME TypeOK, TreeInv, NEW w \in Workers, Committing(w)
  PROVE /\ entry'[task[w].dir][task[w].name] = TargetEntry(task[w])
        /\ \A n \in Names : n # task[w].name =>
             entry'[task[w].dir][n] = entry[task[w].dir][n]
<1> DEFINE t == task[w]
<1>1. /\ t.dir \in Dirs /\ t.name \in Names /\ t.dir \in Planned(steps[w])
      /\ entry' = BatchEntries(w)
  BY CommittingFacts
<1>2. steps[w][t.dir].child = None
  BY <1>1, PlannedFacts DEF UpdateInv
<1>3. \A n \in Names : ~LinkFires(w, t.dir, n)
  BY <1>2 DEF LinkFires
<1>4. \A n \in Names :
        entry'[t.dir][n] = IF n = t.name /\ TargetMatches(t, entry[t.dir][n])
                             THEN TargetEntry(t) ELSE entry[t.dir][n]
  BY <1>1, <1>3 DEF BatchEntries
<1>5. t.op # "remove" => TargetMatches(t, entry[t.dir][t.name])
  BY CommittingFacts
<1>6. t.op = "remove" => entry'[t.dir][t.name] = NoEntry /\ TargetEntry(t) = NoEntry
  BY <1>1, CommittingFacts DEF TargetEntry
<1> HIDE DEF t
<1> QED BY <1>1, <1>4, <1>5, <1>6 DEF t

\* Any other directory: the link of its planned child.
LEMMA BatchLink ==
  ASSUME TypeOK, TreeInv, NEW w \in Workers, Committing(w), NEW d \in Dirs,
         d # task[w].dir, NEW n \in Names
  PROVE entry'[d][n] =
          IF LinkFires(w, d, n)
            THEN EntryRow("directory", steps[w][d].child,
                          steps[w][steps[w][d].child].new, entry[d][n].revision + 1)
            ELSE entry[d][n]
<1>1. entry' = BatchEntries(w)
  BY CommittingFacts
<1> QED BY <1>1 DEF BatchEntries

LEMMA EntriesAreFunctions ==
  ASSUME TypeOK, NEW d \in Dirs
  PROVE entry[d] = [n \in Names |-> entry[d][n]]
<1>1. entry = [c \in Dirs |-> [n \in Names |-> entry[c][n]]]
  BY DEF TypeOK, DatabaseOK
<1> QED BY <1>1

LEMMA EntriesAreFunctionsAfter ==
  ASSUME TypeOK', NEW d \in Dirs
  PROVE entry'[d] = [n \in Names |-> entry'[d][n]]
<1>1. entry' = [c \in Dirs |-> [n \in Names |-> entry'[c][n]]]
  BY DEF TypeOK, DatabaseOK
<1> QED BY <1>1

\* A directory's entries change only together with its row.
LEMMA BatchKeeps ==
  ASSUME TypeOK, TreeInv, TypeOK', NEW w \in Workers, Committing(w), NEW d \in Dirs,
         ~Applied(w, d)
  PROVE entry'[d] = entry[d]
<1> SUFFICES ASSUME NEW n \in Names PROVE entry'[d][n] = entry[d][n]
  BY EntriesAreFunctions, EntriesAreFunctionsAfter
<1> DEFINE u == steps[w][d]
<1>1. CASE d \notin Planned(steps[w])
  <2>1. u.child = None
    BY <1>1, UnplannedFacts DEF NoUpdate, Update
  <2>2. d # task[w].dir /\ ~LinkFires(w, d, n)
    BY <1>1, <2>1, CommittingFacts DEF LinkFires
  <2> QED BY <2>2, BatchLink
<1>2. CASE d \in Planned(steps[w])
  <2>1. /\ task[w].op = "remove" /\ dir[d].revision = u.revision + 1
        /\ dir[d].root = u.new
    BY <1>2, SkippedUpdate
  <2>2. UpdateInv(w, d) /\ dir[d].root = DirectoryRoot(entry[d])
    BY <1>2, PlannedFacts
  <2>3. CASE u.child = None
    <3>1. d = task[w].dir /\ u.name = task[w].name /\ u.name \in Names
      BY <2>2, <2>3 DEF UpdateInv
    <3>2. DirectoryRoot(entry[d]) = Replaced(u.root, u.name, NoEntry)
      BY <2>1, <2>2, <2>3 DEF UpdateInv, PlannedEntry, TargetEntry
    <3>3. entry[d][u.name].kind = "absent"
      BY <3>1, <3>2, ReplacedName DEF NoEntry, EntryRow
    <3>4. entry[d][u.name] = NoEntry
      BY <3>1, <3>3 DEF TypeOK, DatabaseOK, IsEntry
    <3>5. entry'[d][u.name] = NoEntry
      BY <3>1, <2>1, BatchTarget DEF TargetEntry
    <3> QED BY <3>1, <3>4, <3>5, BatchTarget
  <2>4. CASE u.child # None
    <3>1. d # task[w].dir /\ entry[d][u.name].revision # u.link
      BY <2>1, <2>2, <2>4 DEF UpdateInv
    <3>2. ~LinkFires(w, d, n)
      BY <3>1 DEF LinkFires
    <3> QED BY <3>1, <3>2, BatchLink
  <2> QED BY <2>3, <2>4
<1> QED BY <1>1, <1>2

\* An applied update puts the planned entry under its name and no other.
LEMMA BatchApplies ==
  ASSUME TypeOK, TreeInv, NEW w \in Workers, Committing(w), NEW d \in Dirs,
         Applied(w, d)
  PROVE /\ steps[w][d].name \in Names
        /\ \A n \in Names : n # steps[w][d].name => entry'[d][n] = entry[d][n]
        /\ entry'[d][steps[w][d].name].kind = PlannedEntry(w, d).kind
        /\ entry'[d][steps[w][d].name].subject = PlannedEntry(w, d).subject
        /\ entry'[d][steps[w][d].name].pin = PlannedEntry(w, d).pin
        /\ steps[w][d].child = None =>
             /\ d = task[w].dir /\ steps[w][d].name = task[w].name
             /\ entry'[d][steps[w][d].name] = TargetEntry(task[w])
        /\ steps[w][d].child # None =>
             /\ d # task[w].dir
             /\ entry[d][steps[w][d].name].kind = "directory"
             /\ entry'[d][steps[w][d].name].revision =
                  entry[d][steps[w][d].name].revision + 1
<1> DEFINE u == steps[w][d]
<1>1. /\ d \in Planned(steps[w]) /\ dir[d].revision = u.revision
      /\ UpdateInv(w, d) /\ u.name \in Names
  BY PlannedFacts DEF Applied, UpdateInv
<1>2. CASE u.child = None
  <2>1. d = task[w].dir /\ u.name = task[w].name
    BY <1>1, <1>2 DEF UpdateInv
  <2>2. PlannedEntry(w, d) = TargetEntry(task[w])
    BY <1>2 DEF PlannedEntry
  <2> HIDE DEF u
  <2> QED BY <1>1, <1>2, <2>1, <2>2, BatchTarget DEF u
<1>3. CASE u.child # None
  <2> DEFINE e == EntryRow("directory", u.child, steps[w][u.child].new,
                           entry[d][u.name].revision + 1)
  <2>1. d # task[w].dir /\ dir[d].root = u.root /\ entry[d][u.name].revision = u.link
    BY <1>1, <1>3 DEF UpdateInv
  <2>2. entry[d][u.name].kind = "directory" /\ entry[d][u.name].subject = u.child
    BY <1>1, <1>3, <2>1, LinkName
  <2>3. LinkFires(w, d, u.name) /\ \A n \in Names : n # u.name => ~LinkFires(w, d, n)
    BY <1>3, <2>1, <2>2 DEF LinkFires
  <2>4. entry'[d][u.name] = e /\ \A n \in Names : n # u.name => entry'[d][n] = entry[d][n]
    BY <1>1, <2>1, <2>3, BatchLink
  <2>5. /\ e.kind = PlannedEntry(w, d).kind /\ e.subject = PlannedEntry(w, d).subject
        /\ e.pin = PlannedEntry(w, d).pin
        /\ e.revision = entry[d][u.name].revision + 1
    BY <1>3 DEF PlannedEntry, EntryRow
  <2> HIDE DEF u, e
  <2> QED BY <1>1, <1>3, <2>1, <2>2, <2>4, <2>5 DEF u
<1> QED BY <1>2, <1>3

-----------------------------------------------------------------------------
(* A committing batch keeps the tree *)

LEMMA BatchMerkleRoots ==
  ASSUME TypeOK, TreeInv, TypeOK', NEW w \in Workers, Committing(w), NEW d \in Dirs
  PROVE dir'[d].root = DirectoryRoot(entry'[d])
<1> DEFINE u == steps[w][d]
<1>1. dir[d].root = DirectoryRoot(entry[d])
  BY DEF TreeInv, MerkleConsistent
<1>2. CASE Applied(w, d)
  <2>1. dir'[d].root = u.new /\ dir[d].root = u.root
    BY <1>2, BatchFields, BatchRow
  <2>2. u.new = Replaced(u.root, u.name, PlannedEntry(w, d))
    BY <1>2, PlannedFacts DEF Applied, UpdateInv
  <2>3. DirectoryRoot(entry'[d]) =
          Replaced(DirectoryRoot(entry[d]), u.name, PlannedEntry(w, d))
    <3>1. /\ u.name \in Names
          /\ \A n \in Names : n # u.name => entry'[d][n] = entry[d][n]
          /\ entry'[d][u.name].kind = PlannedEntry(w, d).kind
          /\ entry'[d][u.name].subject = PlannedEntry(w, d).subject
          /\ entry'[d][u.name].pin = PlannedEntry(w, d).pin
      BY <1>2, BatchApplies
    <3> HIDE DEF u
    <3> QED BY <3>1, DigestReplace
  <2> QED BY <1>1, <2>1, <2>2, <2>3
<1>3. CASE ~Applied(w, d)
  <2>1. entry'[d] = entry[d]
    BY <1>3, BatchKeeps
  <2>2. dir'[d].root = dir[d].root
    <3>1. CASE Creates(w, d)
      BY <3>1, BatchFields
    <3>2. CASE Tombstones(w, d)
      BY <3>2, BatchFields
    <3>3. CASE ~Creates(w, d) /\ ~Tombstones(w, d)
      BY <3>3, <1>3, BatchRow
    <3> QED BY <3>1, <3>2, <3>3
  <2> QED BY <1>1, <2>1, <2>2
<1> QED BY <1>2, <1>3

\* A link that the batch does not write leads to a child it does not change:
\* the plan is a chain, so the link of a changed child is planned too.
LEMMA KeptLink ==
  ASSUME TypeOK, TreeInv, TypeOK', NEW w \in Workers, Committing(w), NEW d \in Dirs,
         NEW n \in Names, entry'[d][n] = entry[d][n], entry[d][n].kind = "directory"
  PROVE /\ entry[d][n].subject \in Dirs
        /\ dir'[entry[d][n].subject] = dir[entry[d][n].subject]
<1> DEFINE c == entry[d][n].subject
           u == steps[w][d]
<1>1. c \in Dirs
  <2>1. IsEntry(entry[d][n])
    BY DEF TypeOK, DatabaseOK
  <2> QED BY <2>1 DEF IsEntry, NoEntry, EntryRow
<1>2. dir[c].state = "active" /\ dir[c].parent = d /\ dir[c].name = n
      /\ dir[c].root = entry[d][n].pin
  BY DEF TreeInv, MerkleConsistent
<1>3. ~Creates(w, c)
  BY <1>2, <1>1, BatchFields
<1>4. ~Tombstones(w, c)
  <2> SUFFICES ASSUME Tombstones(w, c) PROVE FALSE
    OBVIOUS
  <2>1. d = task[w].dir /\ n = task[w].name /\ task[w].op = "remove"
    BY <1>2 DEF Tombstones, TreeInv, RemovalInv
  <2>2. entry'[d][n] = NoEntry
    BY <2>1, BatchTarget DEF TargetEntry
  <2> QED BY <2>2 DEF NoEntry, EntryRow
<1>5. ~Applied(w, c)
  <2> SUFFICES ASSUME Applied(w, c) PROVE FALSE
    OBVIOUS
  <2>1. /\ c \in Planned(steps[w]) /\ dir[c].root = steps[w][c].root
        /\ steps[w][c].new # steps[w][c].root
    BY <1>1, BatchRow, PlannedFacts DEF Applied, UpdateInv
  <2>2. c # Root
    BY <1>2, <1>1, NoneAssumption DEF TreeInv, DirInv
  <2>3. PICK p \in Planned(steps[w]) : steps[w][p].child = c
    BY <2>1, <2>2, CommittingFacts, ZenonT(60) DEF TreeInv, PlanInv
  <2>4. p = d /\ u.name = n /\ u.child = c /\ c # None
    BY <2>3, <1>1, <1>2, PlannedFacts, NoneAssumption DEF UpdateInv
  <2>5. CASE Applied(w, d)
    <3>1. entry'[d][n].revision = entry[d][n].revision + 1
      BY <2>4, <2>5, BatchApplies
    <3>2. entry[d][n].revision \in Nat
      BY DEF TypeOK, DatabaseOK, IsEntry
    <3> QED BY <3>1, <3>2
  <2>6. CASE ~Applied(w, d)
    <3>1. dir[d].root = u.new
      BY <2>3, <2>4, <2>6, SkippedUpdate
    <3>2. DirectoryRoot(entry[d]) = Replaced(u.root, n, PlannedEntry(w, d))
      BY <2>3, <2>4, <3>1, PlannedFacts DEF UpdateInv
    <3>3. PlannedEntry(w, d).kind = "directory" /\ PlannedEntry(w, d).pin = steps[w][c].new
      BY <2>4 DEF PlannedEntry, EntryRow
    <3>4. entry[d][n].pin = steps[w][c].new
      BY <3>2, <3>3, ReplacedName
    <3> QED BY <3>4, <1>2, <2>1
  <2> QED BY <2>5, <2>6
<1> QED BY <1>1, <1>3, <1>4, <1>5, BatchRow

LEMMA BatchMerkle ==
  ASSUME TypeOK, TreeInv, TypeOK', NEW w \in Workers, Committing(w)
  PROVE MerkleConsistent'
<1>1. \A d \in Dirs : dir'[d].root = DirectoryRoot(entry'[d])
  BY BatchMerkleRoots
<1>2. ASSUME NEW d \in Dirs, NEW n \in Names, entry'[d][n].kind = "directory"
      PROVE LET c == dir'[entry'[d][n].subject] IN
            c.state = "active" /\ c.parent = d /\ c.name = n
              /\ c.root = entry'[d][n].pin
  <2>1. CASE entry'[d][n] = entry[d][n]
    <3>1. dir'[entry[d][n].subject] = dir[entry[d][n].subject]
      BY <1>2, <2>1, KeptLink
    <3>2. LET c == dir[entry[d][n].subject] IN
            c.state = "active" /\ c.parent = d /\ c.name = n
              /\ c.root = entry[d][n].pin
      BY <1>2, <2>1 DEF TreeInv, MerkleConsistent
    <3> QED BY <2>1, <3>1, <3>2
  <2>2. CASE entry'[d][n] # entry[d][n]
    <3> DEFINE s == entry'[d][n].subject
    <3>1. dir'[s] = DirRow("active", d, n, entry'[d][n].pin, dir'[s].revision)
      BY <1>2, <2>2, CommittingFacts DEF WrittenLinksMirrorChildren
    <3> HIDE DEF s
    <3>2. dir'[s].state = "active" /\ dir'[s].parent = d /\ dir'[s].name = n
            /\ dir'[s].root = entry'[d][n].pin
      BY <3>1 DEF DirRow
    <3> QED BY <3>2 DEF s
  <2> QED BY <2>1, <2>2
<1>3. head'.root = dir'[Root].root
  BY CommittingFacts DEF PlanIsApplied
<1> QED BY <1>1, <1>2, <1>3 DEF MerkleConsistent

\* A row that exists keeps its place; it is left alone or gets the next revision.
LEMMA BatchMoves ==
  ASSUME TypeOK, TreeInv, TypeOK', NEW w \in Workers, Committing(w), NEW d \in Dirs,
         dir[d].state # "none"
  PROVE /\ dir'[d].state # "none"
        /\ dir'[d].parent = dir[d].parent /\ dir'[d].name = dir[d].name
        /\ dir[d].revision \in Nat
        /\ \/ dir'[d] = dir[d] /\ entry'[d] = entry[d]
           \/ dir'[d].revision = dir[d].revision + 1
<1>1. ~Creates(w, d)
  BY BatchFields
<1>2. dir[d].revision \in Nat
  BY DEF TypeOK, DatabaseOK, IsDir
<1>3. CASE Tombstones(w, d)
  BY <1>2, <1>3, BatchFields
<1>4. CASE Applied(w, d)
  BY <1>2, <1>4, BatchFields
<1>5. CASE ~Tombstones(w, d) /\ ~Applied(w, d)
  BY <1>1, <1>2, <1>5, BatchRow, BatchKeeps
<1> QED BY <1>3, <1>4, <1>5

LEMMA BatchDirInv ==
  ASSUME TypeOK, TreeInv, TypeOK', NEW w \in Workers, Committing(w)
  PROVE DirInv'
<1> SUFFICES ASSUME NEW d \in Dirs
             PROVE IF dir'[d].state = "none"
                     THEN dir'[d] = NoDir
                     ELSE dir'[d].revision > 0 /\ (dir'[d].parent = None <=> d = Root)
  BY DEF DirInv
<1>1. IF dir[d].state = "none"
        THEN dir[d] = NoDir
        ELSE dir[d].revision > 0 /\ (dir[d].parent = None <=> d = Root)
  BY DEF TreeInv, DirInv
<1>2. CASE dir[d].state # "none"
  BY <1>1, <1>2, BatchMoves
<1>3. CASE dir[d].state = "none"
  <2>1. ~Tombstones(w, d) /\ ~Applied(w, d)
    BY <1>3, PlannedFacts DEF Tombstones, Applied, UpdateInv
  <2>2. CASE Creates(w, d)
    <3>1. /\ dir'[d].state = "active" /\ dir'[d].revision = 1
          /\ dir'[d].parent = task[w].dir
      BY <2>2, BatchFields
    <3>2. task[w].dir # None
      BY CommittingFacts, NoneAssumption
    <3>3. d # Root
      BY <2>2, BatchRow, CommittingFacts
    <3> QED BY <3>1, <3>2, <3>3
  <2>3. CASE ~Creates(w, d)
    BY <1>1, <1>3, <2>1, <2>3, BatchRow
  <2> QED BY <2>2, <2>3
<1> QED BY <1>2, <1>3

LEMMA BatchStranded ==
  ASSUME TypeOK, TreeInv, TypeOK', NEW w \in Workers, Committing(w)
  PROVE NoStrandedEntries'
<1> SUFFICES ASSUME NEW d \in Dirs, NEW n \in Names, entry'[d][n] # NoEntry
             PROVE dir'[d].state = "active"
  BY DEF NoStrandedEntries
<1>1. ~Tombstones(w, d)
  BY CommittingFacts DEF Tombstones, HasNoEntry
<1>2. dir[d].state = "active" => dir'[d].state = "active"
  BY <1>1, BatchRow, BatchFields
<1>3. entry[d][n] # NoEntry => dir[d].state = "active"
  BY DEF TreeInv, NoStrandedEntries
<1>4. CASE entry'[d][n] = entry[d][n]
  BY <1>2, <1>3, <1>4
<1>5. CASE entry'[d][n] # entry[d][n]
  <2>1. Applied(w, d)
    BY <1>5, BatchKeeps
  <2>2. n = steps[w][d].name
    BY <1>5, <2>1, BatchApplies
  <2>3. CASE steps[w][d].child = None
    <3>1. d = task[w].dir /\ task[w].op # "remove"
      BY <2>1, <2>2, <2>3, BatchApplies DEF TargetEntry
    <3> QED BY <3>1, <1>2, CommittingFacts
  <2>4. CASE steps[w][d].child # None
    <3>1. entry[d][n].kind = "directory"
      BY <2>1, <2>2, <2>4, BatchApplies
    <3>2. entry[d][n] # NoEntry
      BY <3>1 DEF NoEntry, EntryRow
    <3> QED BY <3>2, <1>2, <1>3
  <2> QED BY <2>3, <2>4
<1> QED BY <1>4, <1>5

-----------------------------------------------------------------------------
(* A committing batch and the plans of the others *)

\* If somebody else's update gives a directory the planned root, it has written
\* the link too, and so moved the link's revision.
LEMMA RacedLink ==
  ASSUME TypeOK, TreeInv, TypeOK', NEW w \in Workers, Committing(w),
         NEW v \in Workers, NEW d \in Planned(steps[v]),
         steps[v][d].child # None,
         dir'[d].revision = steps[v][d].revision + 1, dir'[d].root = steps[v][d].new
  PROVE entry'[d][steps[v][d].name].revision # steps[v][d].link
<1> DEFINE u == steps[v][d]
           e == entry[d][u.name]
           f == entry'[d][u.name]
<1>1. /\ d \in Dirs /\ UpdateInv(v, d) /\ u.revision \in Nat
      /\ dir[d].root = DirectoryRoot(entry[d])
  BY PlannedFacts
<1>2. dir[d].state # "none" /\ u.name \in Names
  BY <1>1 DEF UpdateInv
<1>3. CASE dir'[d] = dir[d] /\ entry'[d] = entry[d]
  BY <1>1, <1>3 DEF UpdateInv
<1>4. CASE dir'[d].revision = dir[d].revision + 1
  <2>1. dir[d].revision = u.revision
    BY <1>1, <1>2, <1>4, BatchMoves
  <2>2. dir[d].root = u.root /\ e.revision = u.link
    BY <1>1, <2>1 DEF UpdateInv
  <2>3. e.kind = "directory" /\ e.subject = u.child
    BY <2>2, LinkName
  <2> DEFINE p == PlannedEntry(v, d)
  <2>4. p.kind = "directory" /\ p.subject = u.child
    BY DEF PlannedEntry, EntryRow
  <2>5. DirectoryRoot(entry'[d]) = Replaced(u.root, u.name, p)
    BY <1>1, BatchMerkleRoots DEF UpdateInv
  <2>6. f.kind = "directory" /\ f.subject = p.subject /\ f.pin = p.pin
    <3> HIDE DEF p, u
    <3> QED BY <1>2, <2>4, <2>5, ReplacedName
  <2>7. f # e
    <3> SUFFICES ASSUME f = e PROVE FALSE
      OBVIOUS
    <3>1. e.kind = p.kind /\ e.subject = p.subject /\ e.pin = p.pin
      BY <2>4, <2>6
    <3>2. Replaced(DirectoryRoot(entry[d]), u.name, p) = DirectoryRoot(entry[d])
      <4> HIDE DEF p
      <4> QED BY <1>2, <3>1, ReplacedSame
    <3> QED BY <1>1, <2>2, <3>2 DEF UpdateInv
  <2>8. Applied(w, d)
    BY <1>1, <2>7, BatchKeeps
  <2>9. u.name = steps[w][d].name
    BY <1>1, <1>2, <2>7, <2>8, BatchApplies
  <2>10. CASE steps[w][d].child = None
    <3>1. d = task[w].dir /\ u.name = task[w].name /\ f = TargetEntry(task[w])
      BY <1>1, <2>8, <2>9, <2>10, BatchApplies
    <3>2. task[w].op # "remove"
      BY <3>1, <2>6 DEF TargetEntry, NoEntry, EntryRow
    <3>3. task[w].kind = "directory"
      BY <3>1, <3>2, <2>6 DEF TargetEntry, EntryRow
    <3>4. task[w].op = "mkdir"
      <4>1. IsTask(task[w]) /\ task[w].op # "none"
        BY CommittingFacts DEF TypeOK, RequestOK
      <4> QED BY <3>2, <3>3, <4>1 DEF IsTask, NoTask, Task
    <3>5. e.kind = "absent"
      BY <3>1, <3>4, CommittingFacts, ZenonT(60) DEF TargetMatches
    <3> QED BY <2>3, <3>5
  <2>11. CASE steps[w][d].child # None
    <3>1. f.revision = e.revision + 1
      BY <1>1, <2>8, <2>9, <2>11, BatchApplies
    <3>2. e.revision \in Nat
      BY <1>1, <1>2 DEF TypeOK, DatabaseOK, IsEntry
    <3> QED BY <3>1, <3>2, <2>2
  <2> QED BY <2>10, <2>11
<1> QED BY <1>1, <1>2, <1>3, <1>4, BatchMoves

LEMMA OtherUpdate ==
  ASSUME TypeOK, TreeInv, TypeOK', NEW w \in Workers, Committing(w),
         NEW v \in Workers, NEW d \in Planned(steps[v]),
         task'[v] = task[v], steps'[v] = steps[v]
  PROVE UpdateInv(v, d)'
<1> DEFINE u == steps[v][d]
<1>1. /\ d \in Dirs /\ UpdateInv(v, d) /\ u.revision \in Nat
      /\ steps'[v][d] = u
  BY PlannedFacts
<1>2. PlannedEntry(v, d)' = PlannedEntry(v, d)
  BY DEF PlannedEntry, TargetEntry
<1>3. /\ dir'[d].state # "none" /\ dir[d].revision \in Nat
      /\ \/ dir'[d] = dir[d] /\ entry'[d] = entry[d]
         \/ dir'[d].revision = dir[d].revision + 1
  BY <1>1, BatchMoves DEF UpdateInv
<1>4. /\ dir'[d].revision >= u.revision
      /\ dir'[d].revision = u.revision =>
           dir'[d].root = u.root /\ entry'[d][u.name].revision = u.link
  BY <1>1, <1>3 DEF UpdateInv
<1>5. u.child # None =>
        /\ u.child \in Planned(steps'[v])
        /\ dir'[u.child].state # "none"
        /\ dir'[u.child].parent = d /\ dir'[u.child].name = u.name
        /\ \E x \in u.root : x[1] = u.name /\ x[2] = "directory" /\ x[3] = u.child
  <2> SUFFICES ASSUME u.child # None
               PROVE /\ u.child \in Planned(steps'[v])
                     /\ dir'[u.child].state # "none"
                     /\ dir'[u.child].parent = d /\ dir'[u.child].name = u.name
                     /\ \E x \in u.root : x[1] = u.name /\ x[2] = "directory" /\ x[3] = u.child
    OBVIOUS
  <2>1. /\ u.child \in Planned(steps[v]) /\ dir[u.child].state # "none"
        /\ dir[u.child].parent = d /\ dir[u.child].name = u.name
        /\ \E x \in u.root : x[1] = u.name /\ x[2] = "directory" /\ x[3] = u.child
    BY <1>1 DEF UpdateInv
  <2>2. u.child \in Dirs
    BY <2>1 DEF Planned
  <2> QED BY <2>1, <2>2, BatchMoves
<1>6. dir'[d].revision = u.revision + 1 /\ dir'[d].root = u.new /\ u.child # None =>
        entry'[d][u.name].revision # u.link
  BY RacedLink
<1>7. /\ task'[v].op # "none" /\ u.name \in Names
      /\ u.new = Replaced(u.root, u.name, PlannedEntry(v, d)') /\ u.new # u.root
      /\ (u.child = None) <=> (d = task'[v].dir)
      /\ u.child = None => u.name = task'[v].name
  BY <1>1, <1>2 DEF UpdateInv
<1> HIDE DEF u
<1> QED BY <1>1, <1>3, <1>4, <1>5, <1>6, <1>7 DEF UpdateInv

LEMMA OtherPlan ==
  ASSUME TypeOK, TreeInv, TypeOK', NEW w \in Workers, Committing(w),
         NEW v \in Workers, task'[v] = task[v], steps'[v] = steps[v],
         walk'[v] = walk[v], pc'[v] = pc[v]
  PROVE PlanInv(v)' /\ WalkInv(v)' /\ RemovalInv(v)'
<1>1. PlanInv(v) /\ WalkInv(v) /\ RemovalInv(v)
  BY DEF TreeInv
<1>2. PlanInv(v)'
  <2>1. \A d \in Dirs : IF d \in Planned(steps'[v]) THEN UpdateInv(v, d)'
                                                    ELSE steps'[v][d] = NoUpdate
    BY <1>1, OtherUpdate DEF PlanInv
  <2> QED BY <1>1, <2>1 DEF PlanInv
<1>3. WalkInv(v)'
  <2> DEFINE k == walk[v]
  <2>1. ASSUME pc[v] \in {"file", "row", "entries", "reload"}
        PROVE IF k.child = None
                THEN Planned(steps[v]) = {} /\ k.at = task[v].dir
                ELSE /\ k.child \in Planned(steps[v])
                     /\ dir'[k.child].state # "none"
                     /\ dir'[k.child].parent = k.at /\ dir'[k.child].name = k.name
    <3>1. k.child # None => k.child \in Dirs
      BY <1>1, <2>1 DEF WalkInv, Planned
    <3> QED BY <1>1, <2>1, <3>1, BatchMoves DEF WalkInv
  <2>2. ASSUME pc[v] \in {"entries", "reload"}
        PROVE /\ k.at \notin Planned(steps[v])
              /\ k.row.state # "none" /\ k.row.revision > 0
              /\ dir'[k.at].state # "none"
              /\ dir'[k.at].parent = k.row.parent /\ dir'[k.at].name = k.row.name
              /\ dir'[k.at].revision >= k.row.revision
              /\ dir'[k.at].revision = k.row.revision => dir'[k.at].root = k.row.root
              /\ pc[v] = "reload" => dir'[k.at].revision > k.row.revision
    <3>1. k.at \in Dirs /\ k.row.revision \in Nat
      BY <2>2 DEF TypeOK, RequestOK, Walking, IsWalk, IsDir
    <3>2. /\ k.at \notin Planned(steps[v])
          /\ k.row.state # "none" /\ k.row.revision > 0
          /\ dir[k.at].state # "none"
          /\ dir[k.at].parent = k.row.parent /\ dir[k.at].name = k.row.name
          /\ dir[k.at].revision >= k.row.revision
          /\ dir[k.at].revision = k.row.revision => dir[k.at].root = k.row.root
          /\ pc[v] = "reload" => dir[k.at].revision > k.row.revision
      BY <1>1, <2>2 DEF WalkInv
    <3>3. /\ dir'[k.at].state # "none"
          /\ dir'[k.at].parent = dir[k.at].parent /\ dir'[k.at].name = dir[k.at].name
          /\ dir[k.at].revision \in Nat
          /\ \/ dir'[k.at] = dir[k.at]
             \/ dir'[k.at].revision = dir[k.at].revision + 1
      BY <3>1, <3>2, BatchMoves
    <3> HIDE DEF k
    <3> QED BY <3>1, <3>2, <3>3
  <2> HIDE DEF k
  <2> QED BY <1>1, <2>1, <2>2 DEF WalkInv, k
<1>4. RemovalInv(v)'
  <2> SUFFICES ASSUME task[v].op = "remove", task[v].kind = "directory"
               PROVE /\ dir'[task[v].subject].state # "none"
                     /\ dir'[task[v].subject].parent = task[v].dir
                     /\ dir'[task[v].subject].name = task[v].name
    BY DEF RemovalInv
  <2>1. task[v].subject \in Dirs
    <3>1. IsTask(task[v])
      BY DEF TypeOK, RequestOK
    <3> QED BY <3>1 DEF IsTask, NoTask, Task
  <2>2. /\ dir[task[v].subject].state # "none"
        /\ dir[task[v].subject].parent = task[v].dir
        /\ dir[task[v].subject].name = task[v].name
    BY <1>1 DEF RemovalInv
  <2> QED BY <2>1, <2>2, BatchMoves
<1> QED BY <1>2, <1>3, <1>4

\* A request that has nothing planned: answered, or at the start of a plan.
LEMMA NothingPlanned ==
  /\ Planned(NoSteps) = {}
  /\ \A d \in Dirs : NoSteps[d] = NoUpdate
BY DEF Planned, NoSteps, NoUpdate, Update

LEMMA FinishedPlan ==
  ASSUME TypeOK, NEW w \in Workers, Finish(w)
  PROVE PlanInv(w)' /\ WalkInv(w)' /\ RemovalInv(w)'
<1>1. pc'[w] = "idle" /\ task'[w] = NoTask /\ steps'[w] = NoSteps
  BY DEF TypeOK, Finish
<1>2. NoTask.op = "none"
  BY DEF NoTask, Task
<1> QED BY <1>1, <1>2, NothingPlanned DEF PlanInv, WalkInv, RemovalInv

LEMMA FinishOthers ==
  ASSUME TypeOK, NEW w \in Workers, Finish(w), NEW v \in Workers, v # w
  PROVE /\ task'[v] = task[v] /\ steps'[v] = steps[v]
        /\ walk'[v] = walk[v] /\ pc'[v] = pc[v]
BY DEF TypeOK, Finish

LEMMA BatchTree ==
  ASSUME TypeOK, TreeInv, TypeOK', NEW w \in Workers, Committing(w)
  PROVE TreeInv'
<1>1. Finish(w)
  BY CommittingFacts
<1>2. ASSUME NEW v \in Workers
      PROVE PlanInv(v)' /\ WalkInv(v)' /\ RemovalInv(v)'
  <2>1. CASE v = w
    BY <1>1, <2>1, FinishedPlan
  <2>2. CASE v # w
    BY <1>1, <2>2, FinishOthers, OtherPlan
  <2> QED BY <2>1, <2>2
<1> QED BY <1>2, BatchMerkle, BatchDirInv, BatchStranded DEF TreeInv

-----------------------------------------------------------------------------
(* The planner *)

LEMMA KeptPlan ==
  ASSUME TreeInv, NEW v \in Workers, UNCHANGED <<dir, entry>>,
         task'[v] = task[v], steps'[v] = steps[v], walk'[v] = walk[v], pc'[v] = pc[v]
  PROVE PlanInv(v)' /\ WalkInv(v)' /\ RemovalInv(v)'
<1>1. PlanInv(v) /\ WalkInv(v) /\ RemovalInv(v)
  BY DEF TreeInv
<1>2. \A d \in Dirs : UpdateInv(v, d) => UpdateInv(v, d)'
  BY DEF UpdateInv, PlannedEntry, TargetEntry
<1>3. PlanInv(v)'
  BY <1>1, <1>2 DEF PlanInv
<1>4. WalkInv(v)' /\ RemovalInv(v)'
  BY <1>1 DEF WalkInv, RemovalInv
<1> QED BY <1>3, <1>4

\* A step that reads the tree concerns only the request that takes it.
LEMMA ReadTree ==
  ASSUME TreeInv, UNCHANGED <<dir, entry, head>>, NEW w \in Workers,
         \A v \in Workers : v # w => /\ task'[v] = task[v] /\ steps'[v] = steps[v]
                                     /\ walk'[v] = walk[v] /\ pc'[v] = pc[v],
         PlanInv(w)', WalkInv(w)', RemovalInv(w)'
  PROVE TreeInv'
<1>1. \A v \in Workers : PlanInv(v)' /\ WalkInv(v)' /\ RemovalInv(v)'
  BY KeptPlan
<1>2. MerkleConsistent' /\ DirInv' /\ NoStrandedEntries'
  BY DEF TreeInv, MerkleConsistent, DirInv, NoStrandedEntries
<1> QED BY <1>1, <1>2 DEF TreeInv

LEMMA FinishTree ==
  ASSUME TypeOK, TreeInv, UNCHANGED <<dir, entry, head>>, NEW w \in Workers, Finish(w)
  PROVE TreeInv'
BY FinishedPlan, FinishOthers, ReadTree

\* The planner starts for a task whose removal, if it is one, is well placed.
LEMMA PlanTree ==
  ASSUME TypeOK, TreeInv, UNCHANGED <<dir, entry, head>>, NEW w \in Workers, NEW t,
         Plan(w, t), task' = [task EXCEPT ![w] = t], RemovalInv(w)'
  PROVE TreeInv'
<1>1. /\ \A v \in Workers : v # w =>
           /\ task'[v] = task[v] /\ steps'[v] = steps[v]
           /\ walk'[v] = walk[v] /\ pc'[v] = pc[v]
      /\ steps'[w] = NoSteps /\ task'[w] = t
      /\ walk'[w] = Walk(t.dir, None, None, NoDir)
      /\ pc'[w] \in {"file", "row"}
  BY DEF TypeOK, Plan, PlanStart
<1>2. PlanInv(w)'
  BY <1>1, NothingPlanned DEF PlanInv
<1>3. WalkInv(w)'
  <2>1. walk'[w].child = None /\ walk'[w].at = t.dir
    BY <1>1 DEF Walk
  <2> QED BY <1>1, <2>1, NothingPlanned DEF WalkInv
<1> QED BY <1>1, <1>2, <1>3, ReadTree

LEMMA PlanAgainTree ==
  ASSUME TypeOK, TreeInv, UNCHANGED <<dir, entry, head, task>>, NEW w \in Workers,
         Plan(w, task[w])
  PROVE TreeInv'
<1>1. task' = [task EXCEPT ![w] = task[w]]
  BY DEF TypeOK
<1>2. RemovalInv(w)'
  BY DEF TreeInv, RemovalInv
<1> QED BY <1>1, <1>2, PlanTree

LEMMA RebaseTree ==
  ASSUME TypeOK, TreeInv, UNCHANGED <<dir, entry, head>>, NEW w \in Workers, Rebase(w)
  PROVE TreeInv'
BY FinishTree, PlanAgainTree DEF Rebase

LEMMA StartPutTree ==
  ASSUME TypeOK, TreeInv, NEW w \in Workers, NEW i \in Intents, NEW c \in Commits,
         StartPut(w, i, c)
  PROVE TreeInv'
<1>1. UNCHANGED <<dir, entry, head, walk, steps>> /\ pc[w] = "idle"
  BY DEF StartPut, database, planner
<1>2. /\ \A v \in Workers : v # w => task'[v] = task[v] /\ pc'[v] = pc[v]
      /\ pc'[w] = "evidence" /\ task'[w].op = "put"
  BY DEF TypeOK, StartPut, Task
<1>3. Planned(steps[w]) = {} /\ \A d \in Dirs : steps[w][d] = NoUpdate
  BY <1>1 DEF TreeInv, PlanInv
<1>4. PlanInv(w)' /\ WalkInv(w)' /\ RemovalInv(w)'
  BY <1>1, <1>2, <1>3 DEF PlanInv, WalkInv, RemovalInv
<1> QED BY <1>1, <1>2, <1>4, ReadTree

LEMMA StartMkdirTree ==
  ASSUME TypeOK, TreeInv, NEW w \in Workers, NEW k \in Keys, NEW d \in Dirs,
         NEW n \in Names, NEW c \in Dirs, StartMkdir(w, k, d, n, c)
  PROVE TreeInv'
<1> DEFINE t == Task("mkdir", k, d, n, 0, "directory", c, EmptyRoot, None)
<1>1. /\ UNCHANGED <<dir, entry, head>> /\ Plan(w, t)
      /\ task' = [task EXCEPT ![w] = t]
  BY DEF StartMkdir, database
<1>2. t.op = "mkdir"
  BY DEF Task
<1> HIDE DEF t
<1>3. RemovalInv(w)'
  BY <1>1, <1>2 DEF RemovalInv, TypeOK
<1> QED BY <1>1, <1>3, PlanTree

LEMMA StartRemoveTree ==
  ASSUME TypeOK, TreeInv, NEW w \in Workers, NEW k \in Keys, NEW d \in Dirs,
         NEW n \in Names, StartRemove(w, k, d, n)
  PROVE TreeInv'
<1> DEFINE e == entry[d][n]
           t == Task("remove", k, d, n, e.revision, e.kind, e.subject, e.pin, None)
<1>1. /\ UNCHANGED <<dir, entry, head>> /\ pc[w] = "idle"
      /\ task' = [task EXCEPT ![w] = t]
      /\ \/ /\ e.kind = "directory" /\ pc' = [pc EXCEPT ![w] = "empty"]
            /\ UNCHANGED <<walk, steps>>
         \/ Plan(w, t)
  BY DEF StartRemove, database, planner
<1>2. /\ t.dir = d /\ t.name = n /\ t.kind = e.kind /\ t.subject = e.subject
  BY DEF Task
<1> HIDE DEF t
<1>3. task'[w] = t
  BY <1>1 DEF TypeOK
<1>4. RemovalInv(w)'
  <2>1. e.kind = "directory" =>
          /\ dir[e.subject].state = "active" /\ dir[e.subject].parent = d
          /\ dir[e.subject].name = n
    BY DEF TreeInv, MerkleConsistent
  <2> HIDE DEF e
  <2> QED BY <1>1, <1>2, <1>3, <2>1 DEF RemovalInv
<1>5. CASE Plan(w, t)
  BY <1>1, <1>4, <1>5, PlanTree
<1>6. CASE pc' = [pc EXCEPT ![w] = "empty"] /\ UNCHANGED <<walk, steps>>
  <2>1. /\ \A v \in Workers : v # w => task'[v] = task[v] /\ pc'[v] = pc[v]
        /\ pc'[w] = "empty"
    BY <1>1, <1>6 DEF TypeOK
  <2>2. Planned(steps[w]) = {} /\ \A c \in Dirs : steps[w][c] = NoUpdate
    BY <1>1 DEF TreeInv, PlanInv
  <2>3. PlanInv(w)' /\ WalkInv(w)'
    BY <1>6, <2>1, <2>2 DEF PlanInv, WalkInv
  <2> QED BY <1>1, <1>4, <1>6, <2>1, <2>3, ReadTree
<1> QED BY <1>1, <1>5, <1>6

LEMMA RecordEvidenceTree ==
  ASSUME TypeOK, TreeInv, NEW w \in Workers, RecordEvidence(w)
  PROVE TreeInv'
<1>1. /\ UNCHANGED <<dir, entry, head>>
      /\ Finish(w) \/ (Plan(w, task[w]) /\ task' = task)
  BY DEF RecordEvidence
<1> QED BY <1>1, FinishTree, PlanAgainTree

LEMMA PlanFileTree ==
  ASSUME TypeOK, TreeInv, NEW w \in Workers, PlanFile(w)
  PROVE TreeInv'
<1>1. /\ UNCHANGED <<dir, entry, head>> /\ pc[w] = "file"
      /\ Finish(w) \/ (pc' = [pc EXCEPT ![w] = "row"] /\ UNCHANGED <<task, walk, steps>>)
  BY DEF PlanFile, database, planner
<1>2. CASE Finish(w)
  BY <1>1, <1>2, FinishTree
<1>3. CASE pc' = [pc EXCEPT ![w] = "row"] /\ UNCHANGED <<task, walk, steps>>
  <2>1. pc'[w] = "row" /\ \A v \in Workers : v # w => pc'[v] = pc[v]
    BY <1>3 DEF TypeOK
  <2>2. PlanInv(w) /\ WalkInv(w) /\ RemovalInv(w)
    BY DEF TreeInv
  <2>3. walk[w].child = None /\ Planned(steps[w]) = {}
    BY <1>1, <2>2 DEF WalkInv
  <2>4. PlanInv(w)'
    BY <1>3, <2>1, <2>2, <2>3 DEF PlanInv
  <2>5. WalkInv(w)' /\ RemovalInv(w)'
    BY <1>1, <1>3, <2>1, <2>2 DEF WalkInv, RemovalInv
  <2> QED BY <1>1, <1>3, <2>1, <2>4, <2>5, ReadTree
<1> QED BY <1>1, <1>2, <1>3

LEMMA CheckEmptyTree ==
  ASSUME TypeOK, TreeInv, NEW w \in Workers, CheckEmpty(w)
  PROVE TreeInv'
<1>1. /\ UNCHANGED <<dir, entry, head>>
      /\ Finish(w) \/ (Plan(w, task[w]) /\ task' = task)
  BY DEF CheckEmpty, database
<1> QED BY <1>1, FinishTree, PlanAgainTree

LEMMA PlanRowTree ==
  ASSUME TypeOK, TreeInv, NEW w \in Workers, PlanRow(w)
  PROVE TreeInv'
<1> DEFINE d == walk[w].at
<1>1. UNCHANGED <<dir, entry, head>> /\ pc[w] = "row"
  BY DEF PlanRow, database
<1>2. CASE Finish(w)
  BY <1>1, <1>2, FinishTree
<1>3. CASE /\ d \notin Planned(steps[w]) /\ dir[d].state = "active"
           /\ pc' = [pc EXCEPT ![w] = "entries"]
           /\ walk' = [walk EXCEPT ![w] = Walk(d, @.child, @.name, dir[d])]
           /\ UNCHANGED <<task, steps>>
  <2>1. /\ pc'[w] = "entries" /\ \A v \in Workers : v # w =>
             pc'[v] = pc[v] /\ walk'[v] = walk[v]
        /\ walk'[w] = Walk(d, walk[w].child, walk[w].name, dir[d])
    BY <1>3 DEF TypeOK
  <2>2. /\ walk'[w].at = d /\ walk'[w].child = walk[w].child
        /\ walk'[w].name = walk[w].name /\ walk'[w].row = dir[d]
    BY <2>1 DEF Walk
  <2>3. PlanInv(w) /\ WalkInv(w) /\ RemovalInv(w)
    BY DEF TreeInv
  <2>4. PlanInv(w)'
    <3>1. \A c \in Dirs : UpdateInv(w, c) => UpdateInv(w, c)'
      BY <1>1, <1>3 DEF UpdateInv, PlannedEntry, TargetEntry
    <3> QED BY <1>1, <1>3, <2>1, <2>2, <2>3, <3>1 DEF PlanInv
  <2>5. d \in Dirs /\ IsDir(dir[d])
    BY <1>1 DEF TypeOK, DatabaseOK, RequestOK, Walking
  <2>6. dir[d].revision \in Nat /\ dir[d].revision > 0
    BY <1>3, <2>5 DEF TreeInv, DirInv, IsDir
  <2>7. WalkInv(w)'
    <3>1. IF walk[w].child = None
            THEN Planned(steps[w]) = {} /\ walk[w].at = task[w].dir
            ELSE /\ walk[w].child \in Planned(steps[w])
                 /\ dir[walk[w].child].state # "none"
                 /\ dir[walk[w].child].parent = walk[w].at
                 /\ dir[walk[w].child].name = walk[w].name
      BY <1>1, <2>3 DEF WalkInv
    <3>2. IF walk'[w].child = None
            THEN Planned(steps'[w]) = {} /\ walk'[w].at = task'[w].dir
            ELSE /\ walk'[w].child \in Planned(steps'[w])
                 /\ dir'[walk'[w].child].state # "none"
                 /\ dir'[walk'[w].child].parent = walk'[w].at
                 /\ dir'[walk'[w].child].name = walk'[w].name
      BY <1>1, <1>3, <2>2, <3>1 DEF Planned
    <3>3. /\ walk'[w].at \notin Planned(steps'[w])
          /\ walk'[w].row.state # "none" /\ walk'[w].row.revision > 0
          /\ dir'[walk'[w].at] = walk'[w].row
      BY <1>1, <1>3, <2>2, <2>6 DEF Planned
    <3>4. dir'[walk'[w].at].revision >= walk'[w].row.revision
      BY <1>1, <2>2, <2>6
    <3>5. pc'[w] \notin {"file", "reload", "corrupt"}
      BY <2>1
    <3> QED BY <3>2, <3>3, <3>4, <3>5 DEF WalkInv
  <2>8. RemovalInv(w)'
    BY <1>1, <1>3, <2>3 DEF RemovalInv
  <2> QED BY <1>1, <1>3, <2>1, <2>4, <2>7, <2>8, ReadTree
<1> QED BY <1>2, <1>3 DEF PlanRow

\* Row and entries disagree: by the Merkle invariant the row has moved on.
LEMMA PlanMismatchTree ==
  ASSUME TypeOK, TreeInv, NEW w \in Workers, PlanMismatch(w)
  PROVE TreeInv'
<1> DEFINE k == walk[w]
<1>1. /\ UNCHANGED <<dir, entry, head, task, walk, steps>> /\ pc[w] = "entries"
      /\ ~EntriesMatchRow(w)
  BY DEF PlanMismatch, database, planner
<1>2. pc'[w] = "reload" /\ \A v \in Workers : v # w => pc'[v] = pc[v]
  BY DEF PlanMismatch, TypeOK
<1>3. PlanInv(w) /\ WalkInv(w) /\ RemovalInv(w)
  BY DEF TreeInv
<1>4. PlanInv(w)' /\ RemovalInv(w)'
  <2>1. \A c \in Dirs : UpdateInv(w, c) => UpdateInv(w, c)'
    BY <1>1 DEF UpdateInv, PlannedEntry, TargetEntry
  <2> QED BY <1>1, <1>2, <1>3, <2>1 DEF PlanInv, RemovalInv
<1>5. k.at \in Dirs /\ k.row.revision \in Nat /\ dir[k.at].revision \in Nat
  BY <1>1 DEF TypeOK, DatabaseOK, RequestOK, Walking, IsWalk, IsDir
<1>6. dir[k.at].root # k.row.root
  BY <1>1, <1>5 DEF EntriesMatchRow, TreeInv, MerkleConsistent
<1>7. dir[k.at].revision > k.row.revision
  BY <1>1, <1>3, <1>5, <1>6 DEF WalkInv
<1>8. WalkInv(w)'
  BY <1>1, <1>2, <1>3, <1>7 DEF WalkInv
<1> QED BY <1>1, <1>2, <1>4, <1>8, ReadTree

LEMMA PlanReloadTree ==
  ASSUME TypeOK, TreeInv, NEW w \in Workers, PlanReload(w)
  PROVE TreeInv'
<1>1. UNCHANGED <<dir, entry, head>> /\ pc[w] = "reload"
  BY DEF PlanReload, database
<1>2. walk[w].at \in Dirs /\ dir[walk[w].at].revision \in Nat
  BY <1>1 DEF TypeOK, DatabaseOK, RequestOK, Walking, IsDir
<1>3. ~SameSnapshot(w)
  BY <1>1, <1>2 DEF SameSnapshot, TreeInv, WalkInv
<1> QED BY <1>1, <1>3, RebaseTree DEF PlanReload

\* One more directory of the path.
LEMMA PlanStepTree ==
  ASSUME TypeOK, TreeInv, NEW w \in Workers, PlanStep(w)
  PROVE TreeInv'
<1> DEFINE k == walk[w]
           n == StepName(w)
           e == StepEntry(w)
           u == Update(k.row.revision, k.row.root, StepNewRoot(w), k.child, n, e.revision)
<1>1. /\ UNCHANGED <<dir, entry, head, task>> /\ pc[w] = "entries"
      /\ EntriesMatchRow(w) /\ StepMatches(w) /\ StepNewRoot(w) # k.row.root
      /\ steps' = [steps EXCEPT ![w] = [@ EXCEPT ![k.at] = u]]
      /\ \/ /\ k.row.parent = None
            /\ pc' = [pc EXCEPT ![w] = "batch"] /\ UNCHANGED walk
         \/ /\ k.row.parent # None
            /\ pc' = [pc EXCEPT ![w] = "row"]
            /\ walk' = [walk EXCEPT ![w] = Walk(k.row.parent, k.at, k.row.name, NoDir)]
  BY DEF PlanStep, database
<1>2. PlanInv(w) /\ WalkInv(w) /\ RemovalInv(w)
  BY DEF TreeInv
<1>3. /\ k.at \in Dirs /\ k.row.revision \in Nat /\ IsTask(task[w])
      /\ task[w].op # "none" /\ IsWalk(k) /\ IsDir(k.row)
  BY <1>1 DEF TypeOK, RequestOK, Walking, IsWalk, IsDir
<1>4. n \in Names
  BY <1>3 DEF StepName, IsTask, IsWalk
<1>5. /\ \A v \in Workers : v # w => steps'[v] = steps[v] /\ pc'[v] = pc[v] /\ walk'[v] = walk[v]
      /\ steps'[w][k.at] = u
      /\ \A d \in Dirs : d # k.at => steps'[w][d] = steps[w][d]
      /\ \/ k.row.parent = None /\ pc'[w] = "batch"
         \/ /\ k.row.parent # None /\ pc'[w] = "row"
            /\ walk'[w] = Walk(k.row.parent, k.at, k.row.name, NoDir)
  <2>1. steps = [v \in Workers |-> [d \in Dirs |-> steps[v][d]]]
    BY DEF TypeOK
  <2>2. steps'[w] = [steps[w] EXCEPT ![k.at] = u] /\ \A v \in Workers : v # w => steps'[v] = steps[v]
    <3> HIDE DEF u
    <3> QED BY <1>1, <2>1
  <2>3. steps[w] = [d \in Dirs |-> steps[w][d]]
    BY <2>1
  <2>4. steps'[w][k.at] = u /\ \A d \in Dirs : d # k.at => steps'[w][d] = steps[w][d]
    <3> HIDE DEF u, k
    <3> QED BY <1>3, <2>2, <2>3
  <2> QED BY <1>1, <2>2, <2>4 DEF TypeOK
<1>6. /\ u.revision = k.row.revision /\ u.root = k.row.root /\ u.new = StepNewRoot(w)
      /\ u.child = k.child /\ u.name = n /\ u.link = e.revision
  BY DEF Update
<1> HIDE DEF u
<1>7. /\ k.row.revision > 0 /\ k.at \notin Planned(steps[w])
      /\ dir[k.at].state # "none"
      /\ dir[k.at].parent = k.row.parent /\ dir[k.at].name = k.row.name
      /\ dir[k.at].revision >= k.row.revision
      /\ k.child = None => Planned(steps[w]) = {} /\ k.at = task[w].dir
      /\ k.child # None => /\ k.child \in Planned(steps[w]) /\ dir[k.child].state # "none"
                           /\ dir[k.child].parent = k.at /\ dir[k.child].name = k.name
  BY <1>1, <1>2 DEF WalkInv
<1>8. Planned(steps'[w]) = Planned(steps[w]) \cup {k.at}
  BY <1>3, <1>5, <1>6, <1>7 DEF Planned
<1>9. k.child # None => k.child # k.at /\ k.child \in Dirs
  BY <1>7 DEF Planned
<1>10. dir[k.at].root = k.row.root /\ k.row.root = DirectoryRoot(entry[k.at])
  BY <1>1, <1>3 DEF EntriesMatchRow, TreeInv, MerkleConsistent
<1>. PICK at \in Dirs : at = k.at
  BY <1>3
<1>11. UpdateInv(w, at)'
  <2>1. u.new = Replaced(u.root, n, PlannedEntry(w, at)')
    <3> DEFINE p == PlannedEntry(w, at)'
               f == StepNewEntry(w)
               fs == [entry[k.at] EXCEPT ![n] = f]
    <3>1. f.kind = p.kind /\ f.subject = p.subject /\ f.pin = p.pin
      <4>1. CASE k.child = None
        <5>1. f = TargetEntry(task[w])
          BY <4>1 DEF StepNewEntry
        <5>2. p = TargetEntry(task'[w])
          BY <4>1, <1>5, <1>6 DEF PlannedEntry
        <5>3. TargetEntry(task'[w]) = TargetEntry(task[w])
          BY <1>1
        <5> QED BY <5>1, <5>2, <5>3
      <4>2. CASE k.child # None
        <5>1. p = EntryRow("directory", k.child, steps'[w][k.child].new, 0)
          BY <4>2, <1>5, <1>6 DEF PlannedEntry
        <5>2. f = EntryRow("directory", k.child, steps[w][k.child].new, e.revision + 1)
          BY <4>2 DEF StepNewEntry
        <5>3. steps'[w][k.child] = steps[w][k.child]
          BY <1>5, <1>9, <4>2
        <5> HIDE DEF p, f
        <5> QED BY <5>1, <5>2, <5>3 DEF EntryRow
      <4> QED BY <4>1, <4>2
    <3>2. fs[n] = f /\ \A m \in Names : m # n => fs[m] = entry[k.at][m]
      <4>1. entry[k.at] = [m \in Names |-> entry[k.at][m]]
        BY <1>3, EntriesAreFunctions
      <4> HIDE DEF f, n, k
      <4> QED BY <1>4, <4>1
    <3>3. StepNewRoot(w) = DirectoryRoot(fs)
      BY DEF StepNewRoot
    <3> HIDE DEF p, f, fs, n
    <3>4. DirectoryRoot(fs) = Replaced(DirectoryRoot(entry[k.at]), n, p)
      BY <1>4, <3>1, <3>2, DigestReplace
    <3> QED BY <1>6, <1>10, <3>3, <3>4 DEF p
  <2>2. u.new # u.root
    BY <1>1, <1>6
  <2>3. /\ (u.child = None) <=> (k.at = task[w].dir)
        /\ u.child = None => n = task[w].name
    BY <1>2, <1>6, <1>7 DEF StepName, PlanInv
  <2>4. u.child # None =>
          /\ u.child \in Planned(steps'[w])
          /\ dir[u.child].state # "none"
          /\ dir[u.child].parent = k.at /\ dir[u.child].name = n
          /\ \E x \in u.root : x[1] = n /\ x[2] = "directory" /\ x[3] = u.child
    <3> SUFFICES ASSUME u.child # None
                 PROVE /\ u.child \in Planned(steps'[w])
                       /\ dir[u.child].state # "none"
                       /\ dir[u.child].parent = k.at /\ dir[u.child].name = n
                       /\ \E x \in u.root : x[1] = n /\ x[2] = "directory" /\ x[3] = u.child
      OBVIOUS
    <3>1. /\ e.kind = "directory" /\ e.subject = k.child /\ n = k.name
      BY <1>1, <1>6 DEF StepMatches, StepName
    <3>2. <<n, e.kind, e.subject, e.pin>> \in DirectoryRoot(entry[k.at])
      BY <1>4, <3>1, DigestHas DEF StepEntry
    <3>3. \E x \in u.root : x[1] = n /\ x[2] = "directory" /\ x[3] = u.child
      <4> DEFINE x == <<n, e.kind, e.subject, e.pin>>
      <4>1. x[1] = n /\ x[2] = "directory" /\ x[3] = u.child
        BY <3>1, <1>6
      <4> HIDE DEF x
      <4> QED BY <4>1, <3>2, <1>6, <1>10 DEF x
    <3> QED BY <1>6, <1>7, <1>8, <3>1, <3>3
  <2>5. /\ dir[k.at].root # u.new /\ dir[k.at].root = u.root
        /\ entry[k.at][n].revision = u.link
    BY <1>6, <1>10, <2>2 DEF StepEntry
  <2> HIDE DEF k, n, e
  <2> QED BY <1>1, <1>3, <1>4, <1>5, <1>6, <1>7, <2>1, <2>2, <2>3, <2>4, <2>5
          DEF UpdateInv
<1>12. ASSUME NEW d \in Planned(steps[w]) PROVE UpdateInv(w, d)'
  <2>1. d \in Dirs /\ UpdateInv(w, d) /\ d # k.at
    BY <1>7, PlannedFacts
  <2>2. steps'[w][d] = steps[w][d]
    BY <1>5, <2>1
  <2>3. steps[w][d].child # None =>
          /\ steps[w][d].child \in Planned(steps'[w])
          /\ steps'[w][steps[w][d].child] = steps[w][steps[w][d].child]
    <3>1. steps[w][d].child # None => steps[w][d].child \in Planned(steps[w])
      BY <2>1 DEF UpdateInv
    <3>2. steps[w][d].child # None => steps[w][d].child # k.at /\ steps[w][d].child \in Dirs
      BY <3>1, <1>7 DEF Planned
    <3> QED BY <1>5, <1>8, <3>1, <3>2
  <2>4. PlannedEntry(w, d)' = PlannedEntry(w, d)
    BY <1>1, <2>2, <2>3 DEF PlannedEntry, TargetEntry
  <2> QED BY <1>1, <2>1, <2>2, <2>3, <2>4 DEF UpdateInv
<1>13. PlanInv(w)'
  <2>1. \A d \in Dirs : IF d \in Planned(steps'[w]) THEN UpdateInv(w, d)'
                                                    ELSE steps'[w][d] = NoUpdate
    BY <1>2, <1>5, <1>8, <1>11, <1>12 DEF PlanInv
  <2>2. task[w].dir \in Planned(steps'[w])
    BY <1>2, <1>7, <1>8 DEF PlanInv
  <2>3. pc'[w] = "batch" => k.at = Root
    BY <1>3, <1>5, <1>7 DEF TreeInv, DirInv
  <2>4. pc'[w] # "batch" => walk'[w].child = k.at
    BY <1>5 DEF Walk
  <2>5. ASSUME NEW c \in Planned(steps'[w])
        PROVE \/ c = IF pc'[w] = "batch" THEN Root ELSE walk'[w].child
              \/ \E d \in Planned(steps'[w]) : steps'[w][d].child = c
    <3>1. CASE c = k.at
      BY <2>3, <2>4, <3>1
    <3>2. CASE c # k.at /\ c = k.child
      <4>1. k.at \in Planned(steps'[w]) /\ steps'[w][k.at].child = c
        BY <1>5, <1>6, <1>8, <3>2
      <4> QED BY <4>1
    <3>3. CASE c # k.at /\ c # k.child
      <4>1. PICK d \in Planned(steps[w]) : steps[w][d].child = c
        BY <1>1, <1>2, <1>8, <2>5, <3>3 DEF PlanInv
      <4>2. d \in Planned(steps'[w]) /\ steps'[w][d] = steps[w][d]
        BY <1>5, <1>7, <1>8, <4>1 DEF Planned
      <4> QED BY <4>1, <4>2
    <3> QED BY <3>1, <3>2, <3>3
  <2>6. pc'[w] \in {"batch", "row"}
    BY <1>5
  <2> QED BY <1>1, <1>8, <2>1, <2>2, <2>3, <2>5, <2>6 DEF PlanInv
<1>14. WalkInv(w)'
  <2>1. CASE pc'[w] = "batch"
    BY <2>1 DEF WalkInv
  <2>2. CASE k.row.parent # None /\ pc'[w] = "row" /\ walk'[w] = Walk(k.row.parent, k.at, k.row.name, NoDir)
    <3>1. walk'[w].at = k.row.parent /\ walk'[w].child = k.at /\ walk'[w].name = k.row.name
      BY <2>2 DEF Walk
    <3>2. k.at # None
      BY <1>3, NoneAssumption
    <3> HIDE DEF k
    <3> QED BY <1>1, <1>7, <1>8, <2>2, <3>1, <3>2 DEF WalkInv
  <2> QED BY <1>5, <2>1, <2>2
<1>15. RemovalInv(w)'
  BY <1>1, <1>2 DEF RemovalInv
<1> QED BY <1>1, <1>5, <1>13, <1>14, <1>15, ReadTree

-----------------------------------------------------------------------------
(* The tree, always *)

LEMMA InitTree == Init => TreeInv
<1> SUFFICES ASSUME Init PROVE TreeInv
  OBVIOUS
<1>1. SeedRevision \in Nat /\ SeedRevision > 0
  BY FS_CardinalityType, SeedAssumption DEF SeedRevision
<1>2. /\ \A d \in Dirs : entry[d] = IF d = Root THEN SeedEntries ELSE [n \in Names |-> NoEntry]
      /\ \A d \in Dirs : dir[d] =
           IF d = Root
             THEN DirRow("active", None, None, DirectoryRoot(SeedEntries), SeedRevision)
           ELSE IF d \in Seeds THEN DirRow("active", Root, SeedName[d], EmptyRoot, 1)
           ELSE NoDir
      /\ head.root = DirectoryRoot(SeedEntries)
  BY DEF Init
<1>3. \A d \in Dirs :
        /\ d = Root => /\ dir[d].state = "active" /\ dir[d].parent = None
                       /\ dir[d].root = DirectoryRoot(SeedEntries)
                       /\ dir[d].revision = SeedRevision
        /\ d # Root /\ d \in Seeds =>
             /\ dir[d].state = "active" /\ dir[d].parent = Root
             /\ dir[d].name = SeedName[d] /\ dir[d].root = EmptyRoot
             /\ dir[d].revision = 1
        /\ d # Root /\ d \notin Seeds =>
             dir[d] = NoDir /\ dir[d].state = "none" /\ dir[d].root = EmptyRoot
  <2> SUFFICES ASSUME NEW d \in Dirs
               PROVE
        /\ d = Root => /\ dir[d].state = "active" /\ dir[d].parent = None
                       /\ dir[d].root = DirectoryRoot(SeedEntries)
                       /\ dir[d].revision = SeedRevision
        /\ d # Root /\ d \in Seeds =>
             /\ dir[d].state = "active" /\ dir[d].parent = Root
             /\ dir[d].name = SeedName[d] /\ dir[d].root = EmptyRoot
             /\ dir[d].revision = 1
        /\ d # Root /\ d \notin Seeds =>
             dir[d] = NoDir /\ dir[d].state = "none" /\ dir[d].root = EmptyRoot
    OBVIOUS
  <2>1. CASE d = Root
    <3>1. dir[d] = DirRow("active", None, None, DirectoryRoot(SeedEntries), SeedRevision)
      BY <1>2, <2>1
    <3> QED BY <2>1, <3>1 DEF DirRow
  <2>2. CASE d # Root /\ d \in Seeds
    <3>1. dir[d] = DirRow("active", Root, SeedName[d], EmptyRoot, 1)
      BY <1>2, <2>2
    <3> QED BY <2>2, <3>1 DEF DirRow
  <2>3. CASE d # Root /\ d \notin Seeds
    <3>1. dir[d] = NoDir
      BY <1>2, <2>3
    <3> QED BY <2>3, <3>1 DEF DirRow, NoDir, EmptyRoot
  <2> QED BY <2>1, <2>2, <2>3
<1>4. NoEntry.kind = "absent"
  BY DEF NoEntry, EntryRow
<1>5. DirectoryRoot([n \in Names |-> NoEntry]) = EmptyRoot
  BY <1>4 DEF DirectoryRoot, EmptyRoot
<1>6. \A d \in Dirs : dir[d].root = DirectoryRoot(entry[d])
  BY <1>2, <1>3, <1>5
<1>7. ASSUME NEW n \in Names, SeedEntries[n].kind = "directory"
      PROVE LET c == SeedEntries[n].subject IN
            c \in Seeds /\ SeedName[c] = n /\ SeedEntries[n].pin = EmptyRoot
  <2> DEFINE c == CHOOSE s \in Seeds : SeedName[s] = n
  <2>1. \E s \in Seeds : SeedName[s] = n
    BY <1>4, <1>7 DEF SeedEntries
  <2>2. c \in Seeds /\ SeedName[c] = n /\ SeedEntries[n] = EntryRow("directory", c, EmptyRoot, 1)
    BY <2>1 DEF SeedEntries
  <2> HIDE DEF c
  <2> QED BY <2>2 DEF EntryRow
<1>8. \A d \in Dirs, n \in Names :
        entry[d][n].kind = "directory" =>
          LET c == dir[entry[d][n].subject] IN
          c.state = "active" /\ c.parent = d /\ c.name = n
            /\ c.root = entry[d][n].pin
  <2> SUFFICES ASSUME NEW d \in Dirs, NEW n \in Names, entry[d][n].kind = "directory"
               PROVE LET c == dir[entry[d][n].subject] IN
                     c.state = "active" /\ c.parent = d /\ c.name = n
                       /\ c.root = entry[d][n].pin
    OBVIOUS
  <2>1. d = Root /\ entry[d] = SeedEntries
    BY <1>2, <1>4
  <2> DEFINE s == SeedEntries[n].subject
  <2>2. s \in Seeds /\ SeedName[s] = n /\ SeedEntries[n].pin = EmptyRoot
    BY <1>7, <2>1
  <2>3. s \in Dirs /\ s # Root
    BY <2>2, RootAssumption
  <2> QED BY <1>3, <2>1, <2>2, <2>3
<1>9. MerkleConsistent
  BY <1>2, <1>3, <1>6, <1>8, RootAssumption DEF MerkleConsistent
<1>10. DirInv
  BY <1>1, <1>3, RootAssumption, NoneAssumption DEF DirInv
<1>11. NoStrandedEntries
  BY <1>2, <1>3, <1>4 DEF NoStrandedEntries
<1>12. ASSUME NEW w \in Workers PROVE PlanInv(w) /\ WalkInv(w) /\ RemovalInv(w)
  <2>1. pc[w] = "idle" /\ task[w] = NoTask /\ steps[w] = NoSteps
    BY DEF Init
  <2>2. NoTask.op = "none"
    BY DEF NoTask, Task
  <2> QED BY <2>1, <2>2, NothingPlanned DEF PlanInv, WalkInv, RemovalInv
<1> QED BY <1>9, <1>10, <1>11, <1>12 DEF TreeInv

LEMMA UnchangedTree ==
  ASSUME TreeInv, UNCHANGED <<dir, entry, head, pc, task, walk, steps>>
  PROVE TreeInv'
<1>1. \A v \in Workers : PlanInv(v)' /\ WalkInv(v)' /\ RemovalInv(v)'
  BY KeptPlan
<1>2. MerkleConsistent' /\ DirInv' /\ NoStrandedEntries'
  BY DEF TreeInv, MerkleConsistent, DirInv, NoStrandedEntries
<1> QED BY <1>1, <1>2 DEF TreeInv

LEMMA NextTree == TypeOK /\ TreeInv /\ [Next]_vars => TreeInv'
<1> SUFFICES ASSUME TypeOK, TreeInv, [Next]_vars PROVE TreeInv'
  OBVIOUS
<1>0. TypeOK'
  BY NextTyped
<1>1. ASSUME NEW i \in Intents, NEW d \in Dirs, NEW n \in Names, Prepare(i, d, n)
      PROVE TreeInv'
  BY <1>1, UnchangedTree DEF Prepare, planner
<1>2. ASSUME NEW i \in Intents, Lapse(i) \/ ExpireIntent(i) PROVE TreeInv'
  BY <1>2, UnchangedTree DEF Lapse, ExpireIntent, planner
<1>3. CASE Revoke \/ RevokeParent
  BY <1>3, UnchangedTree DEF Revoke, RevokeParent, database, planner
<1>4. ASSUME NEW w \in Workers, Start(w) PROVE TreeInv'
  BY <1>4, StartPutTree, StartMkdirTree, StartRemoveTree DEF Start
<1>5. ASSUME NEW w \in Workers, Step(w) PROVE TreeInv'
  <2>1. CASE PlanRefused(w)
    <3>1. Finish(w) /\ UNCHANGED <<dir, entry, head>>
      BY <2>1 DEF PlanRefused, database
    <3> QED BY <3>1, FinishTree
  <2>2. CASE RefusedBatch(w)
    <3>1. (Finish(w) \/ Rebase(w)) /\ UNCHANGED <<dir, entry, head>>
      BY <2>2 DEF RefusedBatch, database
    <3> QED BY <3>1, FinishTree, RebaseTree
  <2>3. CASE PutBatch(w) \/ MkdirBatch(w) \/ RemoveBatch(w)
    BY <1>0, <2>3, BatchTree DEF Committing
  <2> QED BY <1>5, <2>1, <2>2, <2>3, RecordEvidenceTree, PlanFileTree,
             CheckEmptyTree, PlanRowTree, PlanMismatchTree, PlanStepTree,
             PlanReloadTree DEF Step
<1>6. ASSUME NEW w \in Workers, Crash(w) PROVE TreeInv'
  <2>1. Finish(w) /\ UNCHANGED <<dir, entry, head>>
    BY <1>6 DEF Crash, database
  <2> QED BY <2>1, FinishTree
<1>7. CASE UNCHANGED vars
  BY <1>7, UnchangedTree DEF vars, database, planner
<1> QED BY <1>1, <1>2, <1>3, <1>4, <1>5, <1>6, <1>7 DEF Next

LEMMA TreeInvariant == Spec => []TreeInv
BY InitTyped, NextTyped, InitTree, NextTree, PTL DEF Spec

\* Every directory's stored root is the digest of its entries, every link
\* mirrors its active child, and the catalog head carries the root of the tree,
\* however requests interleave between their reads and their batches.
THEOREM TreeIsConsistent == Spec => []MerkleConsistent
<1>1. TreeInv => MerkleConsistent
  BY DEF TreeInv
<1> QED BY <1>1, TreeInvariant, PTL

\* A planner that sees row and entries disagree has met contention: it never
\* reports a corrupt directory.
THEOREM NoFalseCorruption == Spec => []NeverCorrupt
<1>1. TreeInv => NeverCorrupt
  BY DEF TreeInv, WalkInv, NeverCorrupt
<1> QED BY <1>1, TreeInvariant, PTL

-----------------------------------------------------------------------------
(* What the file entries lead to *)

\* An intent row keeps its place and its file.
IntentsGrow ==
  \A i \in Intents : intent[i].state # "none" =>
    /\ intent'[i].state # "none" /\ intent'[i].dir = intent[i].dir
    /\ intent'[i].name = intent[i].name /\ intent'[i].file = intent[i].file

LEMMA PlacesStay ==
  ASSUME IntentsGrow, NEW i \in Intents
  PROVE /\ \A d, n : PlacedAt(i, d, n) =>
             intent'[i].state # "none" /\ intent'[i].dir = d /\ intent'[i].name = n
        /\ \A f : VersionOf(i, f) => intent'[i].state # "none" /\ intent'[i].file = f
BY DEF IntentsGrow, PlacedAt, VersionOf

\* The identities of a file entry and of a task about a file.
LEMMA FileEntryTyped ==
  ASSUME TypeOK, NEW d \in Dirs, NEW n \in Names, entry[d][n].kind = "file"
  PROVE entry[d][n].subject \in Intents /\ entry[d][n].pin \in Intents
<1>1. IsEntry(entry[d][n])
  BY DEF TypeOK, DatabaseOK
<1> QED BY <1>1 DEF IsEntry, NoEntry, EntryRow

LEMMA FileTaskTyped ==
  ASSUME TypeOK, NEW w \in Workers
  PROVE /\ task[w].op = "put" => /\ task[w].key \in Intents /\ task[w].subject \in Intents
                                 /\ task[w].pin = task[w].key /\ task[w].kind = "file"
        /\ task[w].op = "mkdir" => task[w].kind = "directory"
        /\ task[w].op = "remove" /\ task[w].kind = "file" =>
             task[w].subject \in Intents /\ task[w].pin \in Intents
        /\ task[w].op \in {"none", "put", "mkdir", "remove"}
<1>1. IsTask(task[w])
  BY DEF TypeOK, RequestOK
<1> QED BY <1>1 DEF IsTask, NoTask, Task

\* Which file entries a batch leaves: the others, and the one of a put.
LEMMA BatchFileEntry ==
  ASSUME TypeOK, TreeInv, NEW w \in Workers, Committing(w), NEW d \in Dirs,
         NEW n \in Names, entry'[d][n].kind = "file"
  PROVE \/ /\ d = task[w].dir /\ n = task[w].name /\ task[w].op = "put"
           /\ entry'[d][n].subject = task[w].subject /\ entry'[d][n].pin = task[w].pin
        \/ /\ ~(d = task[w].dir /\ n = task[w].name)
           /\ entry'[d][n] = entry[d][n]
<1>1. CASE d = task[w].dir /\ n = task[w].name
  <2>1. entry'[d][n] = TargetEntry(task[w])
    BY <1>1, BatchTarget
  <2>2. task[w].op # "remove"
    BY <2>1 DEF TargetEntry, NoEntry, EntryRow
  <2>3. /\ entry'[d][n].kind = task[w].kind /\ entry'[d][n].subject = task[w].subject
        /\ entry'[d][n].pin = task[w].pin
    BY <2>1, <2>2 DEF TargetEntry, EntryRow
  <2>4. task[w].op = "put"
    BY <2>2, <2>3, FileTaskTyped, CommittingFacts
  <2> QED BY <1>1, <2>3, <2>4
<1>2. CASE d = task[w].dir /\ n # task[w].name
  BY <1>2, BatchTarget
<1>3. CASE d # task[w].dir
  <2>1. ~LinkFires(w, d, n)
    <3> SUFFICES ASSUME LinkFires(w, d, n) PROVE FALSE
      OBVIOUS
    <3>1. entry'[d][n] = EntryRow("directory", steps[w][d].child,
                           steps[w][steps[w][d].child].new, entry[d][n].revision + 1)
      BY <1>3, BatchLink
    <3> QED BY <3>1 DEF EntryRow
  <2> QED BY <1>3, <2>1, BatchLink
<1> QED BY <1>1, <1>2, <1>3

LEMMA PlacedIntentsKept ==
  ASSUME TypeOK, PlacedIntents, IntentsGrow,
         \A i \in Intents : intent'[i].state # "none" => intent[i].state # "none"
  PROVE PlacedIntents'
<1> SUFFICES ASSUME NEW i \in Intents, intent'[i].state # "none"
             PROVE /\ intent'[intent'[i].file].state # "none"
                   /\ intent'[intent'[i].file].dir = intent'[i].dir
                   /\ intent'[intent'[i].file].name = intent'[i].name
  BY DEF PlacedIntents, PlacedAt
<1>1. /\ intent[i].state # "none" /\ intent'[i].dir = intent[i].dir
      /\ intent'[i].name = intent[i].name /\ intent'[i].file = intent[i].file
      /\ intent[i].file \in Intents
  BY DEF IntentsGrow, TypeOK, DatabaseOK
<1>2. PlacedAt(intent[i].file, intent[i].dir, intent[i].name)
  BY <1>1 DEF PlacedIntents
<1> QED BY <1>1, <1>2, PlacesStay

LEMMA PlacedEntriesKept ==
  ASSUME TypeOK, PlacedEntries, IntentsGrow, NEW d \in Dirs, NEW n \in Names,
         entry'[d][n].kind = "file", entry'[d][n] = entry[d][n]
  PROVE /\ PlacedAt(entry[d][n].subject, d, n)
        /\ VersionOf(entry[d][n].pin, entry[d][n].subject)
        /\ intent'[entry'[d][n].subject].state # "none"
        /\ intent'[entry'[d][n].subject].dir = d
        /\ intent'[entry'[d][n].subject].name = n
        /\ intent'[entry'[d][n].pin].state # "none"
        /\ intent'[entry'[d][n].pin].file = entry'[d][n].subject
<1>1. entry[d][n].subject \in Intents /\ entry[d][n].pin \in Intents
  BY FileEntryTyped
<1>2. /\ PlacedAt(entry[d][n].subject, d, n)
      /\ VersionOf(entry[d][n].pin, entry[d][n].subject)
  BY DEF PlacedEntries
<1> QED BY <1>1, <1>2, PlacesStay

LEMMA PlacedTasksKept ==
  ASSUME TypeOK, PlacedTasks, IntentsGrow, NEW w \in Workers,
         task'[w] = task[w] \/ task'[w].op \in {"none", "mkdir"}
  PROVE /\ task'[w].op = "put" =>
             /\ intent'[task'[w].key].state # "none"
             /\ intent'[task'[w].key].dir = task'[w].dir
             /\ intent'[task'[w].key].name = task'[w].name
        /\ task'[w].op = "remove" /\ task'[w].kind = "file" =>
             /\ intent'[task'[w].subject].state # "none"
             /\ intent'[task'[w].subject].dir = task'[w].dir
             /\ intent'[task'[w].subject].name = task'[w].name
             /\ intent'[task'[w].pin].state # "none"
             /\ intent'[task'[w].pin].file = task'[w].subject
<1>1. CASE task'[w] = task[w]
  <2>1. CASE task[w].op = "put"
    BY <1>1, <2>1, FileTaskTyped, PlacesStay DEF PlacedTasks
  <2>2. CASE task[w].op = "remove" /\ task[w].kind = "file"
    BY <1>1, <2>2, FileTaskTyped, PlacesStay DEF PlacedTasks
  <2> QED BY <1>1, <2>1, <2>2
<1>2. CASE task'[w].op \in {"none", "mkdir"}
  BY <1>2
<1> QED BY <1>1, <1>2

\* A step that neither publishes nor tombstones, and prepares nothing.
LEMMA QuietPins ==
  ASSUME TypeOK, PinInv, IntentsGrow,
         \A i \in Intents : intent'[i].state # "none" => intent[i].state # "none",
         UNCHANGED <<entry, file, version>>,
         \A v \in Workers : task'[v] = task[v] \/ task'[v].op \in {"none", "mkdir"}
  PROVE PinInv'
<1>1. PlacedIntents'
  BY PlacedIntentsKept DEF PinInv, PlaceInv
<1>2. PlacedEntries'
  <2>1. ASSUME NEW d \in Dirs, NEW n \in Names, entry'[d][n].kind = "file"
        PROVE /\ intent'[entry'[d][n].subject].state # "none"
              /\ intent'[entry'[d][n].subject].dir = d
              /\ intent'[entry'[d][n].subject].name = n
              /\ intent'[entry'[d][n].pin].state # "none"
              /\ intent'[entry'[d][n].pin].file = entry'[d][n].subject
    BY <2>1, PlacedEntriesKept DEF PinInv, PlaceInv
  <2> QED BY <2>1 DEF PlacedEntries, PlacedAt, VersionOf
<1>3. PlacedTasks'
  BY PlacedTasksKept DEF PinInv, PlaceInv, PlacedTasks, PlacedAt, VersionOf
<1>4. EntryPinsPublished'
  BY DEF PinInv, EntryPinsPublished
<1> QED BY <1>1, <1>2, <1>3, <1>4 DEF PinInv, PlaceInv

\* Two entries of one file, or of one version of it, are at one place.
LEMMA OnePlace ==
  ASSUME NEW d, NEW n, NEW c, NEW m, NEW i, PlacedAt(i, d, n), PlacedAt(i, c, m)
  PROVE d = c /\ n = m
BY DEF PlacedAt

LEMMA BatchPins ==
  ASSUME TypeOK, HistoryInv, TreeInv, PinInv, NEW w \in Workers, Committing(w)
  PROVE PinInv'
<1> DEFINE t == task[w]
<1>1. Finish(w) /\ t.dir \in Dirs /\ t.name \in Names
  BY CommittingFacts
<1>2. \A v \in Workers : task'[v] = task[v] \/ task'[v].op \in {"none", "mkdir"}
  BY <1>1 DEF TypeOK, Finish, NoTask, Task
<1>3. /\ IntentsGrow
      /\ \A i \in Intents : intent'[i].state # "none" => intent[i].state # "none"
  <2>1. CASE PutBatch(w)
    <3>1. t.key \in Intents /\ intent[t.key].state # "none"
      BY <2>1, FileTaskTyped DEF PutBatch, HistoryInv, TaskInv
    <3>2. /\ \A i \in Intents : i # t.key => intent'[i] = intent[i]
          /\ intent'[t.key] = WithState(intent[t.key], "committed")
      BY <2>1, <3>1 DEF PutBatch, TypeOK, DatabaseOK
    <3>3. /\ intent'[t.key].state = "committed" /\ intent'[t.key].dir = intent[t.key].dir
          /\ intent'[t.key].name = intent[t.key].name
          /\ intent'[t.key].file = intent[t.key].file
      BY <3>2 DEF WithState, IntentRow
    <3> QED BY <3>1, <3>2, <3>3 DEF IntentsGrow
  <2>2. CASE intent' = intent
    BY <2>2 DEF IntentsGrow
  <2> QED BY <2>1, <2>2 DEF Committing, MkdirBatch, RemoveBatch
<1>4. PlacedIntents'
  BY <1>3, PlacedIntentsKept DEF PinInv, PlaceInv
<1>5. PlacedTasks'
  BY <1>2, <1>3, PlacedTasksKept DEF PinInv, PlaceInv, PlacedTasks, PlacedAt, VersionOf
<1>6. t.op = "put" =>
        /\ t.key \in Intents /\ t.subject \in Intents /\ t.pin = t.key
        /\ t.subject = intent[t.key].file
        /\ PlacedAt(t.key, t.dir, t.name) /\ VersionOf(t.key, t.subject)
        /\ PlacedAt(t.subject, t.dir, t.name)
  <2> SUFFICES ASSUME t.op = "put"
               PROVE /\ t.key \in Intents /\ t.subject \in Intents /\ t.pin = t.key
                     /\ t.subject = intent[t.key].file
                     /\ PlacedAt(t.key, t.dir, t.name) /\ VersionOf(t.key, t.subject)
                     /\ PlacedAt(t.subject, t.dir, t.name)
    OBVIOUS
  <2>1. /\ t.key \in Intents /\ t.subject \in Intents /\ t.pin = t.key
        /\ t.subject = intent[t.key].file /\ intent[t.key].state # "none"
    BY FileTaskTyped DEF HistoryInv, TaskInv
  <2>2. PlacedAt(t.key, t.dir, t.name)
    BY DEF PinInv, PlaceInv, PlacedTasks
  <2>3. PlacedAt(t.subject, t.dir, t.name)
    BY <2>1, <2>2 DEF PinInv, PlaceInv, PlacedIntents, PlacedAt
  <2> QED BY <2>1, <2>2, <2>3 DEF VersionOf
<1>7. ASSUME NEW d \in Dirs, NEW n \in Names, entry'[d][n].kind = "file"
      PROVE /\ intent'[entry'[d][n].subject].state # "none"
            /\ intent'[entry'[d][n].subject].dir = d
            /\ intent'[entry'[d][n].subject].name = n
            /\ intent'[entry'[d][n].pin].state # "none"
            /\ intent'[entry'[d][n].pin].file = entry'[d][n].subject
            /\ file'[entry'[d][n].subject].state = "active"
            /\ file'[entry'[d][n].subject].current = entry'[d][n].pin
            /\ version'[entry'[d][n].pin] = "published"
  <2> DEFINE s == entry'[d][n].subject
             p == entry'[d][n].pin
  <2>1. CASE d = t.dir /\ n = t.name /\ t.op = "put" /\ s = t.subject /\ p = t.pin
    <3>1. /\ intent'[s].state # "none" /\ intent'[s].dir = d /\ intent'[s].name = n
          /\ intent'[p].state # "none" /\ intent'[p].file = s
      <4> HIDE DEF s, p
      <4> QED BY <1>3, <1>6, <2>1, PlacesStay
    <3>2. PutBatch(w)
      BY <2>1 DEF Committing, MkdirBatch, RemoveBatch
    <3>3. /\ file'[t.subject] = FileRow("active", t.pin, intent[t.key].fileRevision + 1)
          /\ version'[t.pin] = "published"
      BY <1>6, <2>1, <3>2 DEF PutBatch, TypeOK, DatabaseOK
    <3>4. file'[t.subject].state = "active" /\ file'[t.subject].current = t.pin
      BY <3>3 DEF FileRow
    <3> QED BY <2>1, <3>1, <3>3, <3>4
  <2>2. CASE ~(d = t.dir /\ n = t.name) /\ entry'[d][n] = entry[d][n]
    <3>1. /\ s \in Intents /\ p \in Intents
          /\ PlacedAt(s, d, n) /\ VersionOf(p, s)
          /\ intent'[s].state # "none" /\ intent'[s].dir = d /\ intent'[s].name = n
          /\ intent'[p].state # "none" /\ intent'[p].file = s
      BY <1>3, <1>7, <2>2, FileEntryTyped, PlacedEntriesKept DEF PinInv, PlaceInv
    <3>2. file[s].state = "active" /\ file[s].current = p /\ version[p] = "published"
      BY <1>7, <2>2 DEF PinInv, EntryPinsPublished
    <3> HIDE DEF s, p
    <3>3. file'[s] = file[s] /\ version'[p] = version[p]
      <4>1. CASE PutBatch(w)
        <5>1. t.op = "put"
          BY <4>1 DEF PutBatch
        <5>2. s # t.subject
          BY <1>6, <2>2, <3>1, <5>1, OnePlace
        <5>3. p # t.pin
          BY <1>6, <3>1, <5>1, <5>2 DEF VersionOf
        <5> QED BY <3>1, <4>1, <5>2, <5>3 DEF PutBatch, TypeOK, DatabaseOK
      <4>2. CASE MkdirBatch(w)
        BY <4>2 DEF MkdirBatch
      <4>3. CASE RemoveBatch(w)
        <5>1. t.op = "remove"
          BY <4>3 DEF RemoveBatch
        <5>2. t.kind = "file" => PlacedAt(t.subject, t.dir, t.name) /\ VersionOf(t.pin, t.subject)
          BY <5>1 DEF PinInv, PlaceInv, PlacedTasks
        <5>3. t.kind = "file" => s # t.subject
          BY <2>2, <3>1, <5>2, OnePlace
        <5>4. t.kind = "file" => p # t.pin
          BY <3>1, <5>2, <5>3 DEF VersionOf
        <5> HIDE DEF t
        <5> QED BY <3>1, <4>3, <5>3, <5>4 DEF RemoveBatch, t
      <4> QED BY <4>1, <4>2, <4>3 DEF Committing
    <3> QED BY <3>1, <3>2, <3>3 DEF s, p
  <2> HIDE DEF s, p
  <2> QED BY <1>7, <2>1, <2>2, BatchFileEntry DEF s, p
<1>8. PlacedEntries' /\ EntryPinsPublished'
  BY <1>7 DEF PlacedEntries, PlacedAt, VersionOf, EntryPinsPublished
<1> QED BY <1>4, <1>5, <1>8 DEF PinInv, PlaceInv

LEMMA PreparePins ==
  ASSUME TypeOK, PinInv, NEW i \in Intents, NEW d \in Dirs, NEW n \in Names,
         Prepare(i, d, n)
  PROVE PinInv'
<1> DEFINE e == entry[d][n]
<1>1. /\ UNCHANGED <<entry, file, version, task>> /\ intent[i].state = "none"
      /\ \A j \in Intents : j # i => intent'[j] = intent[j]
      /\ e.kind # "directory"
  BY DEF Prepare, TypeOK, DatabaseOK
<1>2. IntentsGrow
  BY <1>1 DEF IntentsGrow
<1>3. IsEntry(e)
  BY DEF TypeOK, DatabaseOK
<1>4. /\ intent'[i].state = "prepared" /\ intent'[i].dir = d /\ intent'[i].name = n
      /\ e.kind = "absent" => intent'[i].file = i
      /\ e.kind # "absent" => intent'[i].file = e.subject
  <2>1. CASE e.kind = "absent"
    <3>1. intent'[i] = IntentRow("prepared", d, n, i, 0, 0, None, FALSE)
      BY <2>1 DEF Prepare, TypeOK, DatabaseOK
    <3> QED BY <2>1, <3>1 DEF IntentRow
  <2>2. CASE e.kind # "absent"
    <3>1. intent'[i] = IntentRow("prepared", d, n, e.subject, e.revision,
                                 file[e.subject].revision, e.pin, FALSE)
      BY <2>2 DEF Prepare, TypeOK, DatabaseOK
    <3> QED BY <2>2, <3>1 DEF IntentRow
  <2> QED BY <2>1, <2>2
<1>5. e.kind # "absent" => e.kind = "file" /\ e.subject \in Intents /\ PlacedAt(e.subject, d, n)
  <2>1. e.kind # "absent" => e.kind = "file"
    BY <1>1, <1>3 DEF IsEntry, NoEntry, EntryRow
  <2> QED BY <2>1, FileEntryTyped DEF PinInv, PlaceInv, PlacedEntries
<1>6. PlacedIntents'
  <2>1. ASSUME NEW j \in Intents, intent'[j].state # "none"
        PROVE /\ intent'[intent'[j].file].state # "none"
              /\ intent'[intent'[j].file].dir = intent'[j].dir
              /\ intent'[intent'[j].file].name = intent'[j].name
    <3>1. CASE j = i /\ e.kind = "absent"
      BY <1>4, <3>1
    <3>2. CASE j = i /\ e.kind # "absent"
      <4> HIDE DEF e
      <4> QED BY <1>2, <1>4, <1>5, <3>2, PlacesStay
    <3>3. CASE j # i
      <4>1. intent'[j] = intent[j] /\ intent[j].file \in Intents
        BY <1>1, <2>1, <3>3 DEF TypeOK, DatabaseOK
      <4>2. PlacedAt(intent[j].file, intent[j].dir, intent[j].name)
        BY <2>1, <4>1 DEF PinInv, PlaceInv, PlacedIntents
      <4> QED BY <1>2, <4>1, <4>2, PlacesStay
    <3> QED BY <3>1, <3>2, <3>3
  <2> QED BY <2>1 DEF PlacedIntents, PlacedAt
<1>7. PlacedEntries'
  BY <1>1, <1>2, PlacedEntriesKept DEF PinInv, PlaceInv, PlacedEntries, PlacedAt, VersionOf
<1>8. PlacedTasks'
  BY <1>1, <1>2, PlacedTasksKept DEF PinInv, PlaceInv, PlacedTasks, PlacedAt, VersionOf
<1>9. EntryPinsPublished'
  BY <1>1 DEF PinInv, EntryPinsPublished
<1> QED BY <1>6, <1>7, <1>8, <1>9 DEF PinInv, PlaceInv

\* A request that starts a put or a removal takes its place from what it loads.
LEMMA StartPins ==
  ASSUME TypeOK, PinInv, NEW w \in Workers, UNCHANGED <<intent, entry, file, version>>,
         \A v \in Workers : v # w => task'[v] = task[v],
         task'[w].op = "put" => PlacedAt(task'[w].key, task'[w].dir, task'[w].name),
         task'[w].op = "remove" /\ task'[w].kind = "file" =>
           /\ PlacedAt(task'[w].subject, task'[w].dir, task'[w].name)
           /\ VersionOf(task'[w].pin, task'[w].subject)
  PROVE PinInv'
<1>1. PlacedIntents' /\ PlacedEntries' /\ EntryPinsPublished'
  BY DEF PinInv, PlaceInv, PlacedIntents, PlacedEntries, PlacedAt, VersionOf,
         EntryPinsPublished
<1>2. PlacedTasks'
  BY DEF PinInv, PlaceInv, PlacedTasks, PlacedAt, VersionOf
<1> QED BY <1>1, <1>2 DEF PinInv, PlaceInv

LEMMA StartPutPins ==
  ASSUME TypeOK, PinInv, NEW w \in Workers, NEW i \in Intents, NEW c \in Commits,
         StartPut(w, i, c)
  PROVE PinInv'
<1> DEFINE t == Task("put", i, intent[i].dir, intent[i].name, intent[i].expected,
                     "file", intent[i].file, i, c)
<1>1. /\ UNCHANGED <<intent, entry, file, version>> /\ intent[i].state # "none"
      /\ task' = [task EXCEPT ![w] = t]
  BY DEF StartPut, database, Committable
<1>2. t.op = "put" /\ t.key = i /\ t.dir = intent[i].dir /\ t.name = intent[i].name
  BY DEF Task
<1> HIDE DEF t
<1>3. task'[w] = t /\ \A v \in Workers : v # w => task'[v] = task[v]
  BY <1>1 DEF TypeOK
<1>4. PlacedAt(i, intent[i].dir, intent[i].name)
  BY <1>1 DEF PlacedAt
<1> QED BY <1>1, <1>2, <1>3, <1>4, StartPins

LEMMA StartRemovePins ==
  ASSUME TypeOK, PinInv, NEW w \in Workers, NEW k \in Keys, NEW d \in Dirs,
         NEW n \in Names, StartRemove(w, k, d, n)
  PROVE PinInv'
<1> DEFINE e == entry[d][n]
           t == Task("remove", k, d, n, e.revision, e.kind, e.subject, e.pin, None)
<1>1. /\ UNCHANGED <<intent, entry, file, version>>
      /\ task' = [task EXCEPT ![w] = t]
  BY DEF StartRemove, database
<1>2. /\ t.op = "remove" /\ t.dir = d /\ t.name = n /\ t.kind = e.kind
      /\ t.subject = e.subject /\ t.pin = e.pin
  BY DEF Task
<1> HIDE DEF t
<1>3. task'[w] = t /\ \A v \in Workers : v # w => task'[v] = task[v]
  BY <1>1 DEF TypeOK
<1>4. e.kind = "file" => PlacedAt(e.subject, d, n) /\ VersionOf(e.pin, e.subject)
  BY DEF PinInv, PlaceInv, PlacedEntries
<1> HIDE DEF e
<1> QED BY <1>1, <1>2, <1>3, <1>4, StartPins

LEMMA InitPins == Init => PinInv
<1> SUFFICES ASSUME Init PROVE PinInv
  OBVIOUS
<1>1. \A i \in Intents : intent[i].state = "none"
  BY DEF Init, NoIntent, IntentRow
<1>2. \A w \in Workers : task[w].op = "none"
  BY DEF Init, NoTask, Task
<1>3. ASSUME NEW d \in Dirs, NEW n \in Names PROVE entry[d][n].kind # "file"
  <2>1. entry[d][n] = NoEntry \/ entry[d][n] = SeedEntries[n]
    BY DEF Init
  <2>2. SeedEntries[n] = NoEntry \/ \E s : SeedEntries[n] = EntryRow("directory", s, EmptyRoot, 1)
    BY DEF SeedEntries
  <2>3. NoEntry.kind = "absent" /\ \A s : EntryRow("directory", s, EmptyRoot, 1).kind = "directory"
    BY DEF NoEntry, EntryRow
  <2> QED BY <2>1, <2>2, <2>3
<1> QED BY <1>1, <1>2, <1>3
        DEF PinInv, PlaceInv, PlacedIntents, PlacedEntries, PlacedTasks, EntryPinsPublished

LEMMA NextPins == TypeOK /\ HistoryInv /\ TreeInv /\ PinInv /\ [Next]_vars => PinInv'
<1> SUFFICES ASSUME TypeOK, HistoryInv, TreeInv, PinInv, [Next]_vars PROVE PinInv'
  OBVIOUS
<1>1. ASSUME UNCHANGED <<intent, entry, file, version>>,
             \A v \in Workers : task'[v] = task[v] \/ task'[v].op \in {"none", "mkdir"}
      PROVE PinInv'
  <2>1. IntentsGrow
    BY <1>1 DEF IntentsGrow
  <2> QED BY <1>1, <2>1, QuietPins
<1>2. ASSUME NEW w \in Workers, Finish(w)
      PROVE \A v \in Workers : task'[v] = task[v] \/ task'[v].op \in {"none", "mkdir"}
  BY <1>2 DEF TypeOK, Finish, NoTask, Task
<1>3. ASSUME NEW i \in Intents, Lapse(i) \/ ExpireIntent(i) PROVE PinInv'
  <2>1. /\ UNCHANGED <<entry, file, version, task>> /\ intent[i].state = "prepared"
        /\ \A j \in Intents : j # i => intent'[j] = intent[j]
        /\ intent'[i] \in {WithLapsed(intent[i]), WithState(intent[i], "expired")}
    BY <1>3 DEF Lapse, ExpireIntent, TypeOK, DatabaseOK
  <2>2. /\ intent'[i].state # "none" /\ intent'[i].dir = intent[i].dir
        /\ intent'[i].name = intent[i].name /\ intent'[i].file = intent[i].file
    <3>1. CASE intent'[i] = WithLapsed(intent[i])
      BY <2>1, <3>1 DEF WithLapsed, IntentRow
    <3>2. CASE intent'[i] = WithState(intent[i], "expired")
      BY <3>2 DEF WithState, IntentRow
    <3> QED BY <2>1, <3>1, <3>2
  <2>3. /\ IntentsGrow
        /\ \A j \in Intents : intent'[j].state # "none" => intent[j].state # "none"
    BY <2>1, <2>2 DEF IntentsGrow
  <2> QED BY <2>1, <2>3, QuietPins
<1>4. CASE Revoke \/ RevokeParent
  BY <1>1, <1>4 DEF Revoke, RevokeParent, database
<1>5. ASSUME NEW w \in Workers, Start(w) PROVE PinInv'
  <2>1. ASSUME NEW k \in Keys, NEW d \in Dirs, NEW n \in Names, NEW c \in Dirs,
               StartMkdir(w, k, d, n, c)
        PROVE PinInv'
    <3>1. \A v \in Workers : task'[v] = task[v] \/ task'[v].op \in {"none", "mkdir"}
      BY <2>1 DEF StartMkdir, TypeOK, Task
    <3> QED BY <1>1, <2>1, <3>1 DEF StartMkdir, database
  <2> QED BY <1>5, <2>1, StartPutPins, StartRemovePins DEF Start
<1>6. ASSUME NEW w \in Workers, Step(w) PROVE PinInv'
  <2>1. CASE RecordEvidence(w)
    <3>1. UNCHANGED <<intent, entry, file, version>> /\ (Finish(w) \/ task' = task)
      BY <2>1 DEF RecordEvidence
    <3> QED BY <1>1, <1>2, <3>1
  <2>2. CASE \/ PlanFile(w) \/ CheckEmpty(w) \/ PlanRow(w) \/ PlanMismatch(w)
             \/ PlanRefused(w) \/ PlanStep(w) \/ PlanReload(w) \/ RefusedBatch(w)
    <3>1. UNCHANGED <<intent, entry, file, version>>
      BY <2>2 DEF PlanFile, CheckEmpty, PlanRow, PlanMismatch, PlanRefused, PlanStep,
                  PlanReload, RefusedBatch, database
    <3>2. Finish(w) \/ task' = task
      BY <2>2 DEF PlanFile, CheckEmpty, PlanRow, PlanMismatch, PlanRefused, PlanStep,
                  PlanReload, RefusedBatch, Rebase
    <3> QED BY <1>1, <1>2, <3>1, <3>2
  <2>3. CASE PutBatch(w) \/ MkdirBatch(w) \/ RemoveBatch(w)
    BY <2>3, BatchPins DEF Committing
  <2> QED BY <1>6, <2>1, <2>2, <2>3 DEF Step
<1>7. ASSUME NEW w \in Workers, Crash(w) PROVE PinInv'
  BY <1>1, <1>2, <1>7 DEF Crash, database
<1>8. CASE UNCHANGED vars
  BY <1>1, <1>8 DEF vars, database
<1> QED BY <1>3, <1>4, <1>5, <1>6, <1>7, <1>8, PreparePins DEF Next

\* No entry dangles: only active directories have entries, and every file entry
\* pins the current, published version of an active file, however a removal and
\* the puts and mkdirs below or beside it interleave.
THEOREM EntriesNeverDangle == Spec => []NoDanglingEntries
<1>1. TreeInv /\ PinInv => NoDanglingEntries
  BY DEF TreeInv, PinInv, NoDanglingEntries
<1> QED BY <1>1, TypeCorrect, HistoryInvariant, TreeInvariant, InitPins, NextPins, PTL
        DEF Spec

-----------------------------------------------------------------------------
(* The authority of a commit *)

\* Only the three batches write a receipt, each for the key of its task.
LEMMA ReceiptStep ==
  ASSUME TypeOK, Next, NEW k \in Intents \cup Keys, receipt'[k] # receipt[k]
  PROVE \E w \in Workers :
          /\ PutBatch(w) \/ MkdirBatch(w) \/ RemoveBatch(w)
          /\ receipt'[k] = ReceiptRow(task[w].op, task[w].commit, head.revision + 1)
<1>1. PICK w \in Workers : PutBatch(w) \/ MkdirBatch(w) \/ RemoveBatch(w)
  <2>1. ASSUME NEW w \in Workers, Step(w), receipt' # receipt
        PROVE PutBatch(w) \/ MkdirBatch(w) \/ RemoveBatch(w)
    <3>1. ~RecordEvidence(w)
      BY <2>1 DEF RecordEvidence
    <3>2. ~(\/ PlanFile(w) \/ CheckEmpty(w) \/ PlanRow(w) \/ PlanMismatch(w)
            \/ PlanRefused(w) \/ PlanStep(w) \/ PlanReload(w) \/ RefusedBatch(w))
      BY <2>1, ReadingStep
    <3> QED BY <2>1, <3>1, <3>2 DEF Step
  <2>2. ASSUME NEW w \in Workers, Start(w) \/ Crash(w) PROVE receipt' = receipt
    BY <2>2 DEF Start, StartPut, StartMkdir, StartRemove, Crash, database
  <2>3. ASSUME NEW i \in Intents, Lapse(i) \/ ExpireIntent(i) PROVE receipt' = receipt
    BY <2>3 DEF Lapse, ExpireIntent
  <2>4. ASSUME NEW i \in Intents, NEW d \in Dirs, NEW n \in Names, Prepare(i, d, n)
        PROVE receipt' = receipt
    BY <2>4 DEF Prepare
  <2>5. Revoke \/ RevokeParent => receipt' = receipt
    BY DEF Revoke, RevokeParent, database
  <2> QED BY <2>1, <2>2, <2>3, <2>4, <2>5 DEF Next
<1>2. task[w].key \in Intents \cup Keys
  BY <1>1 DEF PutBatch, MkdirBatch, RemoveBatch, TypeOK, RequestOK, IsTask, NoTask, Task
<1>3. CommitNamespace(w)
  BY <1>1 DEF PutBatch, MkdirBatch, RemoveBatch
<1>4. receipt'[k] = ReceiptRow(task[w].op, task[w].commit, head.revision + 1)
  BY <1>2, <1>3 DEF CommitNamespace, TypeOK, DatabaseOK
<1> QED BY <1>1, <1>4

\* What the commit still needed of the authority, by operation.
Fenced(k) ==
  receipt'[k] # receipt[k] =>
    /\ receipt'[k].op = "put" => TokenHolds
    /\ receipt'[k].op = "mkdir" => ChainHolds

LEMMA FencedStep ==
  ASSUME TypeOK, Next, NEW k \in Intents \cup Keys
  PROVE Fenced(k)
<1> SUFFICES ASSUME receipt'[k] # receipt[k]
             PROVE /\ receipt'[k].op = "put" => TokenHolds
                   /\ receipt'[k].op = "mkdir" => ChainHolds
  BY DEF Fenced
<1>1. PICK w \in Workers :
        /\ PutBatch(w) \/ MkdirBatch(w) \/ RemoveBatch(w)
        /\ receipt'[k] = ReceiptRow(task[w].op, task[w].commit, head.revision + 1)
  BY ReceiptStep
<1>2. receipt'[k].op = task[w].op
  BY <1>1 DEF ReceiptRow
<1>3. CASE PutBatch(w)
  BY <1>2, <1>3 DEF PutBatch, PutCommits
<1>4. CASE MkdirBatch(w)
  BY <1>2, <1>4 DEF MkdirBatch, MkdirCommits
<1>5. CASE RemoveBatch(w)
  BY <1>2, <1>5 DEF RemoveBatch
<1> QED BY <1>1, <1>3, <1>4, <1>5

\* No put commits once the token's own row, its principal or the ACL grant is
\* gone, and no mkdir once a token above it is revoked either, whatever was
\* authorized and planned before.
THEOREM AuthorityIsFenced == Spec => AuthorityFence
<1>1. TypeOK /\ [Next]_vars => [\A k \in Intents \cup Keys : Fenced(k)]_vars
  BY FencedStep
<1> QED BY <1>1, TypeCorrect, PTL DEF Spec, AuthorityFence, Fenced
=============================================================================
