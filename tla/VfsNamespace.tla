----------------------------- MODULE VfsNamespace -----------------------------
(***************************************************************************)
(* The mutable namespace of the control plane: the handlers that publish a *)
(* file (prepare, then commit), create a directory and remove an entry.    *)
(*                                                                         *)
(* Every handler is a sequence of separate D1 statements: it reads the     *)
(* rows and the entries of one directory after the other on the path to    *)
(* the root, computes the new Merkle root of each, and hands the result to *)
(* one D1 batch.  Only the batch is atomic, so requests interleave at      *)
(* every read.  The batch's compare-and-swap statements match no row when  *)
(* the row has moved on, and the guard triggers of the migrations decide   *)
(* whether the batch as a whole commits.                                   *)
(*                                                                         *)
(* A worker is one HTTP request in flight.  All requests carry the same    *)
(* bearer token, whose authority may be withdrawn at any time.             *)
(*                                                                         *)
(* A digest is modelled by what it covers: the root of a directory is the  *)
(* set of (name, kind, identity, pinned content) of its entries, so equal  *)
(* digests are equal contents (no hash collisions).                        *)
(***************************************************************************)
EXTENDS Integers, FiniteSets

CONSTANTS
  Dirs,         \* directory identities; the unused ones are fresh UUIDs
  Root,         \* the filesystem root
  Seeds,        \* directories that already exist below the root
  SeedName,     \* their names
  Names,        \* entry names
  Intents,      \* put intents; also the identities of file and version minted
  Keys,         \* idempotency keys of mkdir and remove requests
  Commits,      \* commit identities (SHA-256 of a commit request)
  Workers,      \* requests in flight
  None,
  MaxAttempts,  \* MAXIMUM_COMMIT_REBASE_ATTEMPTS
  MaxDepth      \* MAXIMUM_DIRECTORY_DEPTH

ASSUME RootAssumption == Root \in Dirs /\ Seeds \subseteq Dirs \ {Root}
ASSUME SeedAssumption ==
  /\ SeedName \in [Seeds -> Names]
  /\ \A s, t \in Seeds : SeedName[s] = SeedName[t] => s = t
  /\ IsFiniteSet(Seeds)
ASSUME NoneAssumption ==
  None \notin Dirs \cup Names \cup Intents \cup Keys \cup Commits
ASSUME IdentityAssumption == Intents \cap Keys = {}
ASSUME BoundAssumption == MaxAttempts \in Nat \ {0} /\ MaxDepth \in Nat \ {0}

VARIABLES
  dir,          \* vfs_directories
  entry,        \* vfs_directory_entries
  file,         \* vfs_files
  version,      \* vfs_file_versions, with the one vfs_locations row of each
  intent,       \* vfs_put_intents
  evidence,     \* vfs_put_upload_evidence
  receipt,      \* put, mkdir and remove receipts
  head,         \* vfs_catalog_mutation_heads with its vfs_catalog_revisions row
  authorized,   \* what is left of the bearer token's authority
  pc,           \* where each request is in its handler
  task,         \* what the request asks for and what its handler loaded first
  walk,         \* the root planner: the directory it is at
  steps,        \* the root planner: the directory and link updates so far
  attempt       \* the rebase attempts used

database == <<dir, entry, file, version, intent, evidence, receipt, head>>
planner == <<walk, steps>>
vars == <<database, authorized, pc, task, planner, attempt>>

-----------------------------------------------------------------------------
(* Rows *)

DirRow(state, parent, name, root, revision) ==
  [state |-> state, parent |-> parent, name |-> name, root |-> root,
   revision |-> revision]
NoDir == DirRow("none", None, None, {}, 0)

\* pin: the version of a file entry, the data root of a child directory
EntryRow(kind, subject, pin, revision) ==
  [kind |-> kind, subject |-> subject, pin |-> pin, revision |-> revision]
NoEntry == EntryRow("absent", None, None, 0)

FileRow(state, current, revision) ==
  [state |-> state, current |-> current, revision |-> revision]
NoFile == FileRow("none", None, 0)

\* lapsed: expires_at has passed
IntentRow(state, d, n, f, expected, fileRevision, current, lapsed) ==
  [state |-> state, dir |-> d, name |-> n, file |-> f, expected |-> expected,
   fileRevision |-> fileRevision, current |-> current, lapsed |-> lapsed]
NoIntent == IntentRow("none", None, None, None, 0, 0, None, FALSE)

ReceiptRow(op, commit, revision) ==
  [op |-> op, commit |-> commit, revision |-> revision]
NoReceipt == ReceiptRow("none", None, 0)

\* One directory update of a plan and the link update made in that directory:
\* the entry of the child the walk came from, by name and expected revision.
Update(revision, root, new, child, name, link) ==
  [revision |-> revision, root |-> root, new |-> new, child |-> child,
   name |-> name, link |-> link]
NoUpdate == Update(0, {}, {}, None, None, 0)
NoSteps == [d \in Dirs |-> NoUpdate]
Planned(s) == {d \in Dirs : s[d].revision > 0}

\* at: the directory under the cursor; child, name: where the walk came from;
\* row: the vfs_directories row of at, once it is loaded.
Walk(at, child, name, row) ==
  [at |-> at, child |-> child, name |-> name, row |-> row]
NoWalk == Walk(None, None, None, NoDir)

Task(op, key, d, n, expected, kind, subject, pin, commit) ==
  [op |-> op, key |-> key, dir |-> d, name |-> n, expected |-> expected,
   kind |-> kind, subject |-> subject, pin |-> pin, commit |-> commit]
NoTask == Task("none", None, None, None, 0, "absent", None, None, None)

\* directory_root: the digest covers name, kind, identity and pinned content of
\* every entry, and no revision.
DirectoryRoot(es) ==
  {<<n, es[n].kind, es[n].subject, es[n].pin>> :
     n \in {m \in Names : es[m].kind # "absent"}}
EmptyRoot == {}

\* What the bearer token's authority rests on.  "token": its own row is sealed,
\* neither revoked nor expired, its principal is active and the ACL grants the
\* action.  "parents": the same columns of every token it was attenuated from.
Authority == {"token", "parents"}

\* The put's queries and triggers join the token's own row only; authenticate,
\* vfs_access::authorized and the mkdir's trigger also walk the token_chain.
TokenHolds == "token" \in authorized
ChainHolds == TokenHolds /\ "parents" \in authorized

-----------------------------------------------------------------------------
(* A bootstrapped filesystem in which the seed directories were created. *)

SeedEntries ==
  [n \in Names |->
     IF \E s \in Seeds : SeedName[s] = n
       THEN EntryRow("directory", CHOOSE s \in Seeds : SeedName[s] = n,
                     EmptyRoot, 1)
       ELSE NoEntry]

SeedRevision == 1 + Cardinality(Seeds)

Init ==
  /\ dir = [d \in Dirs |->
       IF d = Root
         THEN DirRow("active", None, None, DirectoryRoot(SeedEntries),
                     SeedRevision)
       ELSE IF d \in Seeds
         THEN DirRow("active", Root, SeedName[d], EmptyRoot, 1)
       ELSE NoDir]
  /\ entry = [d \in Dirs |->
       IF d = Root THEN SeedEntries ELSE [n \in Names |-> NoEntry]]
  /\ file = [f \in Intents |-> NoFile]
  /\ version = [v \in Intents |-> "none"]
  /\ intent = [i \in Intents |-> NoIntent]
  /\ evidence = [i \in Intents |-> None]
  /\ receipt = [k \in Intents \cup Keys |-> NoReceipt]
  /\ head = [revision |-> SeedRevision, root |-> DirectoryRoot(SeedEntries)]
  /\ authorized = Authority
  /\ pc = [w \in Workers |-> "idle"]
  /\ task = [w \in Workers |-> NoTask]
  /\ walk = [w \in Workers |-> NoWalk]
  /\ steps = [w \in Workers |-> NoSteps]
  /\ attempt = [w \in Workers |-> 0]

-----------------------------------------------------------------------------
(* Control flow of a request *)

\* The handler returns, whatever it answers.
Finish(w) ==
  /\ pc' = [pc EXCEPT ![w] = "idle"]
  /\ task' = [task EXCEPT ![w] = NoTask]
  /\ walk' = [walk EXCEPT ![w] = NoWalk]
  /\ steps' = [steps EXCEPT ![w] = NoSteps]
  /\ attempt' = [attempt EXCEPT ![w] = 0]

\* Put plans start at the file row, the others at the target directory.
PlanStart(t) == IF t.op = "put" THEN "file" ELSE "row"

\* The planner starts (again) at the target directory with an empty plan.
Plan(w, t) ==
  /\ pc' = [pc EXCEPT ![w] = PlanStart(t)]
  /\ walk' = [walk EXCEPT ![w] = Walk(t.dir, None, None, NoDir)]
  /\ steps' = [steps EXCEPT ![w] = NoSteps]

\* Mutation: the rebase loop is not bounded.
RebaseForever(w) ==
  /\ attempt' = [attempt EXCEPT ![w] = IF @ < MaxAttempts THEN @ + 1 ELSE @]
  /\ Plan(w, task[w])
  /\ UNCHANGED task

\* `continue` in the rebase loop: one more attempt, or 409 "remained contended".
Rebase(w) ==
  IF attempt[w] + 1 < MaxAttempts
    THEN /\ attempt' = [attempt EXCEPT ![w] = @ + 1]
         /\ Plan(w, task[w])
         /\ UNCHANGED task
    ELSE Finish(w)

\* The request is lost (the isolate is evicted, the client disconnects); the
\* client may send it again with the same intent or key.
Crash(w) ==
  /\ pc[w] # "idle"
  /\ Finish(w)
  /\ UNCHANGED <<database, authorized>>

\* The token is revoked or expires, its principal is disabled, or the ACL no
\* longer grants the action.  No query passes without these.
Revoke ==
  /\ TokenHolds
  /\ authorized' = {}
  /\ UNCHANGED <<database, pc, task, planner, attempt>>

\* A token of the chain above is revoked: an UPDATE of that one row, which
\* leaves the rows of its descendants alone.
RevokeParent ==
  /\ ChainHolds
  /\ authorized' = {"token"}
  /\ UNCHANGED <<database, pc, task, planner, attempt>>

-----------------------------------------------------------------------------
(* Put: preparation, upload evidence, expiry *)

\* POST prepare.  The insert trigger repeats every precondition, so the handler
\* takes effect at its INSERT; the chain was walked when the request came in.
Prepare(i, d, n) ==
  LET e == entry[d][n] IN
  /\ TokenHolds
  /\ intent[i].state = "none"
  /\ dir[d].state = "active"
  /\ e.kind = "file" => /\ file[e.subject].state = "active"
                        /\ file[e.subject].current = e.pin
  /\ e.kind # "directory"
  /\ intent' = [intent EXCEPT ![i] =
       IF e.kind = "absent"
         THEN IntentRow("prepared", d, n, i, 0, 0, None, FALSE)
         ELSE IntentRow("prepared", d, n, e.subject, e.revision,
                        file[e.subject].revision, e.pin, FALSE)]
  /\ UNCHANGED <<dir, entry, file, version, evidence, receipt, head,
                 authorized, pc, task, planner, attempt>>

WithState(r, state) ==
  IntentRow(state, r.dir, r.name, r.file, r.expected, r.fileRevision,
            r.current, r.lapsed)
WithLapsed(r) ==
  IntentRow(r.state, r.dir, r.name, r.file, r.expected, r.fileRevision,
            r.current, TRUE)

\* Time passes expires_at.
Lapse(i) ==
  /\ intent[i].state = "prepared"
  /\ ~intent[i].lapsed
  /\ intent' = [intent EXCEPT ![i] = WithLapsed(@)]
  /\ UNCHANGED <<dir, entry, file, version, evidence, receipt, head,
                 authorized, pc, task, planner, attempt>>

\* Metadata hygiene of the cron: prepared and past expires_at becomes expired.
ExpireIntent(i) ==
  /\ intent[i].state = "prepared"
  /\ intent[i].lapsed
  /\ intent' = [intent EXCEPT ![i] = WithState(@, "expired")]
  /\ UNCHANGED <<dir, entry, file, version, evidence, receipt, head,
                 authorized, pc, task, planner, attempt>>

Committable(i) == intent[i].state = "prepared" /\ ~intent[i].lapsed

\* POST commit up to the manifest validation.  With a receipt the handler only
\* replays it; otherwise the intent must be committable and the token, whose
\* chain authenticate has walked, authorized.
StartPut(w, i, c) ==
  /\ pc[w] = "idle"
  /\ receipt[i] = NoReceipt
  /\ Committable(i)
  /\ ChainHolds
  /\ pc' = [pc EXCEPT ![w] = "evidence"]
  /\ task' = [task EXCEPT ![w] =
       Task("put", i, intent[i].dir, intent[i].name, intent[i].expected,
            "file", intent[i].file, i, c)]
  /\ UNCHANGED <<database, authorized, planner, attempt>>

\* Mutation: ON CONFLICT DO UPDATE, the last commit identity wins.
RecordEvidenceLast(w) ==
  /\ pc[w] = "evidence"
  /\ evidence' = [evidence EXCEPT ![task[w].key] = task[w].commit]
  /\ Plan(w, task[w])
  /\ UNCHANGED <<dir, entry, file, version, intent, receipt, head, authorized,
                 task, attempt>>

\* INSERT ... ON CONFLICT DO NOTHING under the trigger that requires a
\* committable intent, then the reload: the first commit identity is kept.
RecordEvidence(w) ==
  LET t == task[w]
      first == evidence[t.key] = None /\ Committable(t.key)
      kept == IF first THEN t.commit ELSE evidence[t.key]
  IN
  /\ pc[w] = "evidence"
  /\ evidence' = [evidence EXCEPT ![t.key] = kept]
  /\ IF kept = t.commit
       THEN Plan(w, t) /\ UNCHANGED <<task, attempt>>
       ELSE Finish(w)
  /\ UNCHANGED <<dir, entry, file, version, intent, receipt, head, authorized>>

\* The file precondition of plan_directory_roots.
FileUnchanged(i) ==
  IF intent[i].expected = 0
    THEN file[intent[i].file] = NoFile
    ELSE file[intent[i].file] =
           FileRow("active", intent[i].current, intent[i].fileRevision)

PlanFile(w) ==
  /\ pc[w] = "file"
  /\ IF FileUnchanged(task[w].key)
       THEN /\ pc' = [pc EXCEPT ![w] = "row"]
            /\ UNCHANGED <<task, planner, attempt>>
       ELSE Finish(w)
  /\ UNCHANGED <<database, authorized>>

-----------------------------------------------------------------------------
(* Mkdir and remove, up to the planner *)

\* Authorization, receipt replay and the load of the parent; the child's
\* identity is a fresh UUID.
StartMkdir(w, k, d, n, c) ==
  LET t == Task("mkdir", k, d, n, 0, "directory", c, EmptyRoot, None) IN
  /\ pc[w] = "idle"
  /\ ChainHolds
  /\ receipt[k] = NoReceipt
  /\ dir[d].state = "active"
  /\ dir[c].state = "none"
  /\ \A v \in Workers : task[v].op = "mkdir" => task[v].subject # c
  /\ task' = [task EXCEPT ![w] = t]
  /\ Plan(w, t)
  /\ UNCHANGED <<database, authorized, attempt>>

\* Authorization, receipt replay and load_entry; the client names the revision
\* it saw, so only a request for the current revision goes on.
StartRemove(w, k, d, n) ==
  LET e == entry[d][n]
      t == Task("remove", k, d, n, e.revision, e.kind, e.subject, e.pin, None)
  IN
  /\ pc[w] = "idle"
  /\ ChainHolds
  /\ receipt[k] = NoReceipt
  /\ dir[d].state = "active"
  /\ e.kind # "absent"
  /\ task' = [task EXCEPT ![w] = t]
  /\ IF e.kind = "directory"
       THEN /\ pc' = [pc EXCEPT ![w] = "empty"]
            /\ UNCHANGED planner
       ELSE Plan(w, t)
  /\ UNCHANGED <<database, authorized, attempt>>

\* Mutation: only file entries are counted.
HasNoFile(es) == \A n \in Names : es[n].kind # "file"

\* No row of vfs_directory_entries belongs to the directory.
HasNoEntry(es) == \A n \in Names : es[n] = NoEntry

\* directory_is_empty, a read of its own.
CheckEmpty(w) ==
  /\ pc[w] = "empty"
  /\ IF HasNoEntry(entry[task[w].subject])
       THEN Plan(w, task[w]) /\ UNCHANGED <<task, attempt>>
       ELSE Finish(w)
  /\ UNCHANGED <<database, authorized>>

-----------------------------------------------------------------------------
(* The root planner: plan_directory_roots, plan_new_child_directory_roots and *)
(* plan_entry_removal_roots walk from the target directory to the root.       *)

\* Loads the row of the directory under the cursor; a missing or inactive one
\* changes the precondition, a chain too deep or cyclic is an error.
PlanRow(w) ==
  LET d == walk[w].at IN
  /\ pc[w] = "row"
  /\ IF /\ Cardinality(Planned(steps[w])) < MaxDepth
        /\ d \notin Planned(steps[w])
        /\ dir[d].state = "active"
       THEN /\ pc' = [pc EXCEPT ![w] = "entries"]
            /\ walk' = [walk EXCEPT ![w] = Walk(d, @.child, @.name, dir[d])]
            /\ UNCHANGED <<task, steps, attempt>>
       ELSE Finish(w)
  /\ UNCHANGED <<database, authorized>>

\* Is this the entry the request may replace or remove?
TargetMatches(t, e) ==
  CASE t.op = "remove" -> e.kind # "absent" /\ e.revision = t.expected
    [] t.op = "mkdir"  -> e.kind = "absent"
    [] OTHER -> IF t.expected = 0
                  THEN e.kind = "absent"
                  ELSE e = EntryRow("file", t.subject, intent[t.key].current,
                                    t.expected)

\* The entry the request leaves under the target name.
TargetEntry(t) ==
  IF t.op = "remove"
    THEN NoEntry
    ELSE EntryRow(t.kind, t.subject, t.pin, t.expected + 1)

\* The name the step at the cursor replaces, the entry there, its successor.
StepName(w) == IF walk[w].child = None THEN task[w].name ELSE walk[w].name
StepEntry(w) == entry[walk[w].at][StepName(w)]
StepMatches(w) ==
  IF walk[w].child = None
    THEN TargetMatches(task[w], StepEntry(w))
    ELSE StepEntry(w).kind = "directory" /\ StepEntry(w).subject = walk[w].child
StepNewEntry(w) ==
  IF walk[w].child = None
    THEN TargetEntry(task[w])
    ELSE EntryRow("directory", walk[w].child, steps[w][walk[w].child].new,
                  StepEntry(w).revision + 1)
StepNewRoot(w) ==
  DirectoryRoot([entry[walk[w].at] EXCEPT ![StepName(w)] = StepNewEntry(w)])

\* The entries are a second read: do they still hash to the row's root?
EntriesMatchRow(w) == DirectoryRoot(entry[walk[w].at]) = walk[w].row.root

PlanMismatch(w) ==
  /\ pc[w] = "entries"
  /\ ~EntriesMatchRow(w)
  /\ pc' = [pc EXCEPT ![w] = "reload"]
  /\ UNCHANGED <<database, authorized, task, planner, attempt>>

\* PreconditionChanged, or the error for a root that would not change.
PlanRefused(w) ==
  /\ pc[w] = "entries"
  /\ EntriesMatchRow(w)
  /\ ~(StepMatches(w) /\ StepNewRoot(w) # walk[w].row.root)
  /\ Finish(w)
  /\ UNCHANGED <<database, authorized>>

\* One DirectoryUpdate (and LinkUpdate) is added; up to the parent, or done.
PlanStep(w) ==
  LET k == walk[w] IN
  /\ pc[w] = "entries"
  /\ EntriesMatchRow(w)
  /\ StepMatches(w)
  /\ StepNewRoot(w) # k.row.root
  /\ steps' = [steps EXCEPT ![w] = [@ EXCEPT ![k.at] =
       Update(k.row.revision, k.row.root, StepNewRoot(w), k.child, StepName(w),
              StepEntry(w).revision)]]
  /\ IF k.row.parent = None
       THEN /\ pc' = [pc EXCEPT ![w] = "batch"]
            /\ UNCHANGED walk
       ELSE /\ pc' = [pc EXCEPT ![w] = "row"]
            /\ walk' = [walk EXCEPT ![w] =
                          Walk(k.row.parent, k.at, k.row.name, NoDir)]
  /\ UNCHANGED <<database, authorized, task, attempt>>

\* Mutation: the snapshot comparison forgets root, revision and state.
SamePath(w) ==
  /\ dir[walk[w].at].parent = walk[w].row.parent
  /\ dir[walk[w].at].name = walk[w].row.name

\* same_directory_snapshot
SameSnapshot(w) == dir[walk[w].at] = walk[w].row

\* directory_snapshot_changed: a changed row is contention; an unchanged one
\* means that the stored root is wrong, which is a hard error.
PlanReload(w) ==
  /\ pc[w] = "reload"
  /\ IF SameSnapshot(w)
       THEN /\ pc' = [pc EXCEPT ![w] = "corrupt"]
            /\ UNCHANGED <<task, planner, attempt>>
       ELSE Rebase(w)
  /\ UNCHANGED <<database, authorized>>

-----------------------------------------------------------------------------
(* The batch *)

\* The statements before the directory updates that touch vfs_directories.
SubjectDirs(t) ==
  CASE t.op = "mkdir" ->
         [dir EXCEPT ![t.subject] = DirRow("active", t.dir, t.name, EmptyRoot, 1)]
    [] t.op = "remove" /\ t.kind = "directory" ->
         [d \in Dirs |->
            IF d = t.subject /\ dir[d].state = "active"
              THEN DirRow("tombstoned", dir[d].parent, dir[d].name, dir[d].root,
                          dir[d].revision + 1)
              ELSE dir[d]]
    [] OTHER -> dir

\* UPDATE vfs_directories ... WHERE id, revision and data_root as planned:
\* a row that has moved on is silently left alone.
BatchDirs(w) ==
  LET before == SubjectDirs(task[w]) IN
  [d \in Dirs |->
     LET r == before[d]
         u == steps[w][d]
     IN IF u.revision > 0 /\ r.revision = u.revision /\ r.root = u.root
          THEN DirRow(r.state, r.parent, r.name, u.new, r.revision + 1)
          ELSE r]

\* UPDATE vfs_directory_entries ... WHERE the link is the one that was read.
LinkFires(w, d, n) ==
  LET u == steps[w][d]
      e == entry[d][n]
  IN /\ u.child # None
     /\ u.name = n
     /\ e.kind = "directory"
     /\ e.subject = u.child
     /\ e.revision = u.link

\* The insert, update or delete of the target entry, and the link updates.
BatchEntries(w) ==
  LET t == task[w] IN
  [d \in Dirs |-> [n \in Names |->
     IF d = t.dir /\ n = t.name /\ TargetMatches(t, entry[d][n])
       THEN TargetEntry(t)
     ELSE IF LinkFires(w, d, n)
       THEN EntryRow("directory", steps[w][d].child,
                     steps[w][steps[w][d].child].new, entry[d][n].revision + 1)
     ELSE entry[d][n]]]

\* Triggers validate_vfs_directory_entry and validate_vfs_directory_entry_update:
\* a directory entry that is written must mirror its active child.
WrittenLinksMirrorChildren(w) ==
  \A d \in Dirs, n \in Names :
    LET e == BatchEntries(w)[d][n] IN
    e # entry[d][n] /\ e.kind = "directory" =>
      BatchDirs(w)[e.subject] =
        DirRow("active", d, n, e.pin, BatchDirs(w)[e.subject].revision)

\* Triggers on the insert of put and mkdir directory updates: every planned row
\* is current and the updates form an ancestor chain.
PlanIsCurrent(w) ==
  \A d \in Planned(steps[w]) :
    LET u == steps[w][d] IN
    /\ dir[d].revision = u.revision
    /\ dir[d].root = u.root
    /\ u.child # None => dir[u.child].parent = d

\* Final triggers of all three protocols: every planned directory carries the
\* next revision and its new root.
PlanIsApplied(w) ==
  /\ Planned(steps[w]) # {}
  /\ \A d \in Planned(steps[w]) :
       /\ BatchDirs(w)[d].revision = steps[w][d].revision + 1
       /\ BatchDirs(w)[d].root = steps[w][d].new

\* Final triggers of put and mkdir: the links carry the new roots.
LinksCarryNewRoots(w) ==
  \A d \in Planned(steps[w]) :
    LET c == steps[w][d].child IN
    c # None =>
      LET e == BatchEntries(w)[d][BatchDirs(w)[c].name] IN
      e.kind = "directory" /\ e.subject = c /\ e.pin = steps[w][c].new

\* Mutation: no trigger checks the optimistic proof of a put.
PutCommitsUnproved(w) ==
  /\ receipt[task[w].key] = NoReceipt
  /\ Committable(task[w].key)
  /\ evidence[task[w].key] = task[w].commit
  /\ TokenHolds

\* Mutation: the expiry is only checked before planning.
PutCommitsLate(w) ==
  LET t == task[w] IN
  /\ receipt[t.key] = NoReceipt
  /\ evidence[t.key] = t.commit
  /\ TokenHolds
  /\ PlanIsCurrent(w)
  /\ FileUnchanged(t.key)
  /\ TargetMatches(t, entry[t.dir][t.name])
  /\ PlanIsApplied(w)
  /\ LinksCarryNewRoots(w)

\* The conditions under which the put batch commits.  Of the authority, the
\* trigger re-reads the token's own row, its principal and the ACL.
PutCommits(w) ==
  LET t == task[w] IN
  /\ receipt[t.key] = NoReceipt
  /\ Committable(t.key)
  /\ evidence[t.key] = t.commit
  /\ TokenHolds
  /\ PlanIsCurrent(w)
  /\ dir[t.dir].state = "active"
  /\ FileUnchanged(t.key)
  /\ TargetMatches(t, entry[t.dir][t.name])
  /\ WrittenLinksMirrorChildren(w)
  /\ PlanIsApplied(w)
  /\ LinksCarryNewRoots(w)

\* UNIQUE (filesystem_id, parent_id, name) counts tombstoned directories too.
NameNeverUsed(d, n) ==
  \A c \in Dirs : dir[c].state # "none" => ~(dir[c].parent = d /\ dir[c].name = n)

\* Mutation: the trigger re-reads the token's own row, not the chain above it.
MkdirCommitsUnchained(w) ==
  LET t == task[w] IN
  /\ receipt[t.key] = NoReceipt
  /\ TokenHolds
  /\ PlanIsCurrent(w)
  /\ dir[t.subject] = NoDir
  /\ NameNeverUsed(t.dir, t.name)
  /\ TargetMatches(t, entry[t.dir][t.name])
  /\ PlanIsApplied(w)

\* The conditions under which the mkdir batch commits.
MkdirCommits(w) ==
  LET t == task[w] IN
  /\ receipt[t.key] = NoReceipt
  /\ ChainHolds
  /\ PlanIsCurrent(w)
  /\ dir[t.dir].state = "active"
  /\ dir[t.subject] = NoDir
  /\ NameNeverUsed(t.dir, t.name)
  /\ TargetMatches(t, entry[t.dir][t.name])
  /\ WrittenLinksMirrorChildren(w)
  /\ PlanIsApplied(w)
  /\ LinksCarryNewRoots(w)

\* Mutation: no unique index on the idempotency key.
RemoveCommitsAgain(w) ==
  /\ PlanIsApplied(w)
  /\ BatchEntries(w)[task[w].dir][task[w].name] = NoEntry

\* The conditions under which the remove batch commits: the unique key and the
\* receipt trigger.  Neither the authority nor the planned rows are re-read.
RemoveCommits(w) ==
  LET t == task[w] IN
  /\ receipt[t.key] = NoReceipt
  /\ WrittenLinksMirrorChildren(w)
  /\ PlanIsApplied(w)
  /\ BatchEntries(w)[t.dir][t.name] = NoEntry
  /\ t.kind = "directory" =>
       /\ BatchDirs(w)[t.subject].state = "tombstoned"
       /\ HasNoEntry(BatchEntries(w)[t.subject])

BatchCommits(w) ==
  CASE task[w].op = "put" -> PutCommits(w)
    [] task[w].op = "mkdir" -> MkdirCommits(w)
    [] OTHER -> RemoveCommits(w)

\* What the three batches share: directories, entries, the catalog revision
\* with its mutation head, the receipt.
CommitNamespace(w) ==
  /\ dir' = BatchDirs(w)
  /\ entry' = BatchEntries(w)
  /\ head' = [revision |-> head.revision + 1, root |-> steps[w][Root].new]
  /\ receipt' = [receipt EXCEPT ![task[w].key] =
       ReceiptRow(task[w].op, task[w].commit, head.revision + 1)]

\* commit_statements: file, version and location, then the namespace.
PutBatch(w) ==
  LET t == task[w] IN
  /\ pc[w] = "batch"
  /\ t.op = "put"
  /\ PutCommits(w)
  /\ CommitNamespace(w)
  /\ file' = [file EXCEPT ![t.subject] =
       FileRow("active", t.pin, intent[t.key].fileRevision + 1)]
  /\ version' = [version EXCEPT ![t.pin] = "published"]
  /\ intent' = [intent EXCEPT ![t.key] = WithState(@, "committed")]
  /\ Finish(w)
  /\ UNCHANGED <<evidence, authorized>>

MkdirBatch(w) ==
  /\ pc[w] = "batch"
  /\ task[w].op = "mkdir"
  /\ MkdirCommits(w)
  /\ CommitNamespace(w)
  /\ Finish(w)
  /\ UNCHANGED <<file, version, intent, evidence, authorized>>

\* remove_statements: the file and version named by the entry that was loaded
\* before planning are tombstoned where they are still in the expected state.
RemoveBatch(w) ==
  LET t == task[w] IN
  /\ pc[w] = "batch"
  /\ t.op = "remove"
  /\ RemoveCommits(w)
  /\ CommitNamespace(w)
  /\ file' = [f \in Intents |->
       IF /\ t.kind = "file" /\ f = t.subject
          /\ file[f].state = "active" /\ file[f].current = t.pin
         THEN FileRow("tombstoned", None, file[f].revision + 1)
         ELSE file[f]]
  /\ version' = [v \in Intents |->
       IF t.kind = "file" /\ v = t.pin /\ version[v] = "published"
         THEN "tombstoned"
         ELSE version[v]]
  /\ Finish(w)
  /\ UNCHANGED <<intent, evidence, authorized>>

\* The batch aborts.  A receipt is replayed, a put that lost its intent state
\* stops, everything else plans again.
RefusedBatch(w) ==
  LET t == task[w] IN
  /\ pc[w] = "batch"
  /\ ~BatchCommits(w)
  /\ IF \/ receipt[t.key] # NoReceipt
        \/ t.op = "put" /\ intent[t.key].state # "prepared"
       THEN Finish(w)
       ELSE Rebase(w)
  /\ UNCHANGED <<database, authorized>>

-----------------------------------------------------------------------------
\* The steps a request in flight takes.
Step(w) ==
  \/ RecordEvidence(w)
  \/ PlanFile(w)
  \/ CheckEmpty(w)
  \/ PlanRow(w)
  \/ PlanMismatch(w)
  \/ PlanRefused(w)
  \/ PlanStep(w)
  \/ PlanReload(w)
  \/ PutBatch(w)
  \/ MkdirBatch(w)
  \/ RemoveBatch(w)
  \/ RefusedBatch(w)

Start(w) ==
  \/ \E i \in Intents, c \in Commits : StartPut(w, i, c)
  \/ \E k \in Keys, d \in Dirs, n \in Names, c \in Dirs :
       StartMkdir(w, k, d, n, c)
  \/ \E k \in Keys, d \in Dirs, n \in Names : StartRemove(w, k, d, n)

Next ==
  \/ \E i \in Intents, d \in Dirs, n \in Names : Prepare(i, d, n)
  \/ \E i \in Intents : Lapse(i) \/ ExpireIntent(i)
  \/ Revoke \/ RevokeParent
  \/ \E w \in Workers : Start(w) \/ Step(w) \/ Crash(w)

Spec == Init /\ [][Next]_vars

\* A request in flight is run to its answer by the Worker runtime.
Fairness == \A w \in Workers : WF_vars(Step(w))
FairSpec == Spec /\ Fairness

-----------------------------------------------------------------------------
(* Types.  Roots are sets of unbounded nesting, so rows that hold one are *)
(* described by their shape.                                              *)

IsDir(r) ==
  /\ r = DirRow(r.state, r.parent, r.name, r.root, r.revision)
  /\ r.state \in {"none", "active", "tombstoned"}
  /\ r.parent \in Dirs \cup {None}
  /\ r.name \in Names \cup {None}
  /\ r.parent # None => r.name \in Names
  /\ r.revision \in Nat

IsEntry(e) ==
  /\ e = EntryRow(e.kind, e.subject, e.pin, e.revision)
  /\ \/ e = NoEntry
     \/ e.kind = "file" /\ e.subject \in Intents /\ e.pin \in Intents
     \/ e.kind = "directory" /\ e.subject \in Dirs
  /\ e.revision \in Nat

IsTask(t) ==
  /\ t = Task(t.op, t.key, t.dir, t.name, t.expected, t.kind, t.subject, t.pin,
              t.commit)
  /\ \/ t = NoTask
     \/ /\ t.op = "put" /\ t.key \in Intents /\ t.commit \in Commits
        /\ t.kind = "file" /\ t.subject \in Intents /\ t.pin = t.key
     \/ /\ t.op = "mkdir" /\ t.key \in Keys /\ t.commit = None
        /\ t.kind = "directory" /\ t.subject \in Dirs /\ t.pin = EmptyRoot
     \/ /\ t.op = "remove" /\ t.key \in Keys /\ t.commit = None
        /\ \/ t.kind = "file" /\ t.subject \in Intents /\ t.pin \in Intents
           \/ t.kind = "directory" /\ t.subject \in Dirs
  /\ t.op # "none" => t.dir \in Dirs /\ t.name \in Names
  /\ t.expected \in Nat

IsUpdate(u) ==
  /\ u = Update(u.revision, u.root, u.new, u.child, u.name, u.link)
  /\ u.revision \in Nat
  /\ u.child \in Dirs \cup {None}
  /\ u.name \in Names \cup {None}
  /\ u.link \in Nat

IsWalk(k) ==
  /\ k = Walk(k.at, k.child, k.name, k.row)
  /\ k.at \in Dirs \cup {None}
  /\ k.child \in Dirs \cup {None}
  /\ k.name \in Names \cup {None}
  /\ k.child # None => k.name \in Names
  /\ IsDir(k.row)

IntentRows ==
  [state : {"none", "prepared", "committed", "expired"},
   dir : Dirs \cup {None}, name : Names \cup {None},
   file : Intents \cup {None}, expected : Nat, fileRevision : Nat,
   current : Intents \cup {None}, lapsed : BOOLEAN]
FileRows ==
  [state : {"none", "active", "tombstoned"}, current : Intents \cup {None},
   revision : Nat]
ReceiptRows ==
  [op : {"none", "put", "mkdir", "remove"}, commit : Commits \cup {None},
   revision : Nat]
Walking == {"row", "entries", "reload", "batch", "corrupt"}
PCs == {"idle", "evidence", "file", "empty"} \cup Walking

DatabaseOK ==
  /\ dir = [d \in Dirs |-> dir[d]] /\ \A d \in Dirs : IsDir(dir[d])
  /\ entry = [d \in Dirs |-> [n \in Names |-> entry[d][n]]]
  /\ \A d \in Dirs, n \in Names : IsEntry(entry[d][n])
  /\ file \in [Intents -> FileRows]
  /\ version \in [Intents -> {"none", "published", "tombstoned"}]
  /\ intent \in [Intents -> IntentRows]
  /\ \A i \in Intents : intent[i].state # "none" =>
       /\ intent[i].dir \in Dirs
       /\ intent[i].name \in Names
       /\ intent[i].file \in Intents
  /\ evidence \in [Intents -> Commits \cup {None}]
  /\ receipt \in [Intents \cup Keys -> ReceiptRows]
  /\ head = [revision |-> head.revision, root |-> head.root]
  /\ head.revision \in Nat
  /\ authorized \subseteq Authority

RequestOK(w) ==
  /\ IsTask(task[w])
  /\ IsWalk(walk[w])
  /\ \A d \in Dirs : IsUpdate(steps[w][d])
  /\ pc[w] # "idle" => task[w].op # "none"
  /\ pc[w] \in {"evidence", "file"} => task[w].op = "put"
  /\ pc[w] = "empty" => task[w].op = "remove" /\ task[w].kind = "directory"
  /\ pc[w] \in Walking \cup {"file"} => walk[w].at \in Dirs

\* Every variable holds rows of its table; a request that walks knows its task
\* and its cursor, and its pc fits the operation it runs.
TypeOK ==
  /\ DatabaseOK
  /\ pc \in [Workers -> PCs]
  /\ task = [w \in Workers |-> task[w]]
  /\ walk = [w \in Workers |-> walk[w]]
  /\ steps = [w \in Workers |-> [d \in Dirs |-> steps[w][d]]]
  /\ attempt \in [Workers -> 0 .. MaxAttempts - 1]
  /\ \A w \in Workers : RequestOK(w)

-----------------------------------------------------------------------------
(* Safety *)

\* Every directory's stored root is the digest of its entries, every directory
\* entry mirrors the one active child it names, and the published catalog head
\* carries the root of the root directory.  The planners compute the roots from
\* reads of different moments, so this is what the batch has to defend.
MerkleConsistent ==
  /\ \A d \in Dirs : dir[d].root = DirectoryRoot(entry[d])
  /\ \A d \in Dirs, n \in Names :
       entry[d][n].kind = "directory" =>
         LET c == dir[entry[d][n].subject] IN
         c.state = "active" /\ c.parent = d /\ c.name = n
           /\ c.root = entry[d][n].pin
  /\ head.root = dir[Root].root

\* The planner never meets a directory whose stored root differs from its
\* entries while its row is unchanged ("root does not match its entries"):
\* what the torn read of row and entries sees is always contention.
NeverCorrupt == \A w \in Workers : pc[w] # "corrupt"

\* Only an active directory has entries: a put or mkdir below a directory that
\* is being removed and the removal never both commit.
NoStrandedEntries ==
  \A d \in Dirs, n \in Names :
    entry[d][n] # NoEntry => dir[d].state = "active"

\* Every file entry pins the current, published version of an active file, so
\* nothing readable is handed to the delayed deletion.
EntryPinsPublished ==
  \A d \in Dirs, n \in Names :
    entry[d][n].kind = "file" =>
      /\ file[entry[d][n].subject].state = "active"
      /\ file[entry[d][n].subject].current = entry[d][n].pin
      /\ version[entry[d][n].pin] = "published"

\* No entry dangles: the directory that holds it is active, and so is the file
\* it leads to.
NoDanglingEntries == NoStrandedEntries /\ EntryPinsPublished

\* Two committed puts of the same file never replaced the same version: no
\* update is lost however the two commits interleave.
NoLostUpdate ==
  \A i, j \in Intents :
    /\ i # j
    /\ intent[i].state = "committed"
    /\ intent[j].state = "committed"
    /\ intent[i].file = intent[j].file
    => intent[i].current # intent[j].current

\* Receipts are the history of the catalog: each carries a revision of its own
\* and together they are the revisions after the bootstrap, so a key or intent
\* that is retried, or raced by its own retry, mutates the namespace once.
ReceiptsAreHistory ==
  /\ {receipt[k].revision : k \in {l \in Intents \cup Keys :
          receipt[l] # NoReceipt}} = SeedRevision + 1 .. head.revision
  /\ \A k, l \in Intents \cup Keys :
       /\ k # l
       /\ receipt[k] # NoReceipt
       => receipt[k].revision # receipt[l].revision

\* A put is published for exactly the commit identity recorded as evidence
\* before publication, and its intent is committed then and only then.
PublishedAsEvidenced ==
  \A i \in Intents :
    /\ receipt[i] # NoReceipt => receipt[i].commit = evidence[i]
    /\ (receipt[i] # NoReceipt) <=> (intent[i].state = "committed")
    /\ (version[i] # "none") <=> (intent[i].state = "committed")

\* A settled intent stays settled: an expired one never publishes, even if its
\* commit was planned before it expired, so the cleanup may delete its object.
SettledIntentsStay ==
  [][\A i \in Intents :
       intent[i].state \in {"committed", "expired"} =>
         /\ intent'[i].state = intent[i].state
         /\ version[i] = "none" => version'[i] = "none"]_vars

\* A lost authority fences what was authorized and planned before: no put
\* commits once its token, its principal or the ACL grant is gone, and no mkdir
\* once anything in the token's chain is.
AuthorityFence ==
  [][\A k \in Intents \cup Keys :
       receipt'[k] # receipt[k] =>
         /\ receipt'[k].op = "put" => TokenHolds
         /\ receipt'[k].op = "mkdir" => ChainHolds]_vars

\* Every request is answered: contention costs at most MaxAttempts plans.
RequestsTerminate ==
  \A w \in Workers : pc[w] # "idle" ~> pc[w] = "idle"

-----------------------------------------------------------------------------
(* What the documentation says and the code does not guarantee *)

\* vfs_namespace_mutation.rs: "Atomically removes one exact file or empty
\* directory from the namespace."  If a removal only ever removed the file it
\* loaded, an active file would always keep its entry.  The planner identifies
\* the entry by name and revision, and revisions restart at 1 for a new entry.
NoOrphanedFile ==
  \A f \in Intents :
    file[f].state = "active" =>
      \E d \in Dirs, n \in Names :
        entry[d][n].kind = "file" /\ entry[d][n].subject = f

\* vfs_tokens.rs: "repeated inside every mutation commit. A child token fails
\* when any token in its attenuation chain is revoked".  No put would commit
\* once a token above its own is revoked.
ChainFencesPuts ==
  [][\A i \in Intents : receipt'[i] # receipt[i] => ChainHolds]_vars

\* docs/vfs-v2.md: "Changes to the same entry produce an explicit conflict."
\* Of two removals of one entry the second would be refused, so every removal
\* receipt would come with the removal of an entry.
RemovalRemoves ==
  [][\A k \in Keys :
       receipt'[k] # receipt[k] /\ receipt'[k].op = "remove" =>
         \E d \in Dirs, n \in Names :
           entry[d][n] # NoEntry /\ entry'[d][n] = NoEntry]_vars

\* plan_new_child_directory_roots: "a concurrent namespace mutation invalidates
\* it and causes the caller to re-plan."  A plan that nothing has invalidated
\* would commit; it is refused for ever when a removed directory had the name.
CurrentMkdirCommits ==
  \A w \in Workers :
    /\ pc[w] = "batch"
    /\ task[w].op = "mkdir"
    /\ receipt[task[w].key] = NoReceipt
    /\ ChainHolds
    /\ PlanIsCurrent(w)
    => MkdirCommits(w)
=============================================================================
