-------------------------------- MODULE VfsTree --------------------------------
(***************************************************************************)
(* The tree of directories as several kinds of request change it at once:  *)
(* rename between two branches, put, mkdir and remove; the drivers that    *)
(* back the directories (mounts) and their ACL rows, replaced by revision; *)
(* and the console's reads of a directory in several statements.           *)
(*                                                                         *)
(* VfsNamespace models one branch with its Merkle roots.  Here a revision  *)
(* stands for the root that goes with it: every statement that writes      *)
(* data_root also raises the revision.  A batch is one transaction; what   *)
(* a handler reads before it is a step of its own wherever a change in     *)
(* between can matter.  Every request is authorised and every driver       *)
(* enabled throughout.                                                     *)
(***************************************************************************)
EXTENDS Integers, FiniteSets

CONSTANTS
  Dirs,      \* directory identities
  Root,      \* the root of the filesystem
  Nowhere,   \* no directory, no driver, no subject
  Born,      \* directories that exist at first, children of the root
  Names,     \* entry names, integers for their order
  Named,     \* the names of Born
  Drivers,
  Home,      \* the default driver of the root
  Subjects,  \* principals and groups with grants
  Mutators,  \* put, mkdir, remove and rename requests
  Policies,  \* a client's list and replacement of one policy
  Readers,   \* directory reads of the console
  Attempts,  \* MAXIMUM_REBASE_ATTEMPTS
  MaxDepth   \* MAXIMUM_DIRECTORY_DEPTH

ASSUME VfsTreeAssumption ==
  /\ Root \in Dirs /\ Born \subseteq Dirs \ {Root} /\ Home \in Drivers
  /\ Nowhere \notin Dirs \cup Drivers \cup Mutators /\ Dirs \cap Mutators = {}
  /\ IsFiniteSet(Dirs) /\ IsFiniteSet(Names) /\ Names \subseteq Nat
  /\ \A d \in Born : Named[d] \in Names
  /\ \A c, d \in Born : Named[c] = Named[d] => c = d
  /\ {Attempts, MaxDepth} \subseteq Nat \ {0}

VARIABLES
  dir,     \* rows of vfs_directories with their driver, mount and grants
  entry,   \* rows of vfs_directory_entries
  req,     \* mutations in flight
  pol,     \* policy replacements in flight
  rd,      \* reads in flight
  mislaid  \* history: a removal deleted the entry of another subject

vars == <<dir, entry, req, pol, rd, mislaid>>

-----------------------------------------------------------------------------
(* Rows *)

\* place and acl are placement_revision and acl_revision; mount is the kind
\* of the row in vfs_directory_mounts.
Directory(parent, name, driver, mount) ==
  [state |-> "active", parent |-> parent, name |-> name, rev |-> 1,
   place |-> 2, driver |-> driver, mount |-> mount, acl |-> 1, grants |-> {}]

Unborn == [Directory(Nowhere, 0, Nowhere, "inherited") EXCEPT !.state = "none"]

\* on is the driver that holds the pinned version of a file.
Entry(kind, subject, rev, on) == [kind |-> kind, subject |-> subject, rev |-> rev, on |-> on]
NoEntry == Entry("absent", Nowhere, 0, Nowhere)

Active(d) == d \in Dirs /\ dir[d].state = "active"

\* The recursive CTE over parent_id, the directory and what lies above it:
\* what no set leaves out that holds the directory and its members' parents.
Ancestors(d) ==
  {x \in Dirs : \A S \in SUBSET (Dirs \ {x}) :
     d \in S => \E y \in S : dir[y].parent \notin S \cup {Nowhere}}

\* The recursive CTE over active children.
Descendants(d) == {x \in Dirs : d \in Ancestors(x) /\ (x = d \/ Active(x))}

HasNoEntry(d) == \A n \in Names : entry[d][n] = NoEntry

\* No entry in the directory or in an active directory below it.
HoldsNothing(d) == \A x \in Descendants(d) : HasNoEntry(x)

\* UNIQUE (filesystem_id, parent_id, name), which tombstoned rows keep.
NameFree(d, n) == \A x \in Dirs : ~(dir[x].parent = d /\ dir[x].name = n)

-----------------------------------------------------------------------------
(* Requests *)

\* dst and dname are the destination of a rename.  rows holds the revision of
\* each directory loaded for the plan (0: not loaded), chain the directories
\* of the branch that is being walked and at the next one to load.
Mutation(op, d, n, e, dst, dname) ==
  [pc |-> "walk", op |-> op, dir |-> d, name |-> n, loaded |-> e, dst |-> dst,
   dname |-> dname, leg |-> "source", at |-> d, chain |-> {},
   rows |-> [x \in Dirs |-> 0], tries |-> 0]

\* op tells what the client will ask for, "none" that it asks for nothing.
NewMutation(op) ==
  [Mutation(op, Nowhere, 0, NoEntry, Nowhere, 0) EXCEPT
     !.pc = IF op = "none" THEN "done" ELSE "new"]
EndMutation(r) == req' = [req EXCEPT ![r] = NewMutation("none")]

\* listed holds the rows a client has seen, was those its batch replaced.
Policy(pc, kind, d, rev) ==
  [pc |-> pc, kind |-> kind, dir |-> d, rev |-> rev, listed |-> {}, was |-> {},
   want |-> Nowhere, mount |-> "inherited"]

NewPolicy(kind) == Policy(IF kind = "none" THEN "done" ELSE "new", kind, Nowhere, 0)

\* view is what was read, snap the directory at the read of its path, got the
\* entries of the pages so far.
Read(pc, d, view) == [pc |-> pc, dir |-> d, view |-> view, snap |-> view, got |-> {}]
NoView ==
  [revs |-> <<0, 0, 0>>, parent |-> Nowhere, name |-> 0, counts |-> <<0, 0, 0>>, path |-> {},
   driver |-> Nowhere, mount |-> "inherited", entries |-> {}]
NewRead(pc) == Read(pc, Nowhere, NoView)

-----------------------------------------------------------------------------
(* A bootstrapped filesystem: every directory of Born is empty and either  *)
(* inherits the root's driver or is a mount of another.                    *)

InitDirs ==
  {[d \in Dirs |->
      IF d = Root THEN Directory(Nowhere, 0, Home, "default")
      ELSE IF d \notin Born THEN Unborn
      ELSE Directory(Root, Named[d], on[d], IF on[d] = Home THEN "inherited" ELSE "mount")] :
   on \in [Born -> Drivers]}

InitEntry(d, n) ==
  IF d = Root /\ \E c \in Born : Named[c] = n
    THEN Entry("directory", CHOOSE c \in Born : Named[c] = n, 1, Nowhere)
    ELSE NoEntry

Init ==
  /\ dir \in InitDirs
  /\ entry = [d \in Dirs |-> [n \in Names |-> InitEntry(d, n)]]
  /\ req \in [Mutators -> {NewMutation(op) : op \in {"none", "put", "mkdir", "remove", "rename"}}]
  /\ pol \in [Policies -> {NewPolicy(kind) : kind \in {"none", "placement", "acl"}}]
  /\ rd \in [Readers -> {NewRead(pc) : pc \in {"done", "new"}}]
  /\ mislaid = FALSE

-----------------------------------------------------------------------------
(* Mutations up to the planner.  A request that a check refuses ends with  *)
(* an error and changes nothing, so only those that go on are steps.       *)

\* prepare: the entry is absent or a file, and the intent takes the driver of
\* the directory.  A new file gets a fresh identity.
StartPut(r, d, n) ==
  LET e == entry[d][n]
      subject == IF e = NoEntry THEN r ELSE e.subject
  IN
  /\ req[r].op = "put"
  /\ Active(d)
  /\ e.kind # "directory"
  /\ req' = [req EXCEPT ![r] =
       Mutation("put", d, n, Entry("file", subject, e.rev, dir[d].driver), Nowhere, 0)]

\* load_parent; the child gets a fresh identity.
StartMkdir(r, d, n, c) ==
  /\ req[r].op = "mkdir"
  /\ Active(d)
  /\ dir[c] = Unborn
  /\ \A q \in Mutators : req[q].op = "mkdir" => req[q].loaded.subject # c
  /\ req' = [req EXCEPT ![r] =
       Mutation("mkdir", d, n, Entry("directory", c, 0, Nowhere), Nowhere, 0)]

\* remove: load_entry, directory_is_empty, is_explicit.
StartRemove(r, d, n) ==
  LET e == entry[d][n] IN
  /\ req[r].op = "remove"
  /\ e # NoEntry
  /\ e.kind = "directory" => HasNoEntry(e.subject) /\ dir[e.subject].mount # "mount"
  /\ req' = [req EXCEPT ![r] = Mutation("remove", d, n, e, Nowhere, 0)]

\* rename: load_entry, load_directory_filesystem, same_effective_driver,
\* is_explicit.
StartRename(r, s, n, d, m) ==
  LET e == entry[s][n] IN
  /\ req[r].op = "rename"
  /\ <<s, n>> # <<d, m>>
  /\ e # NoEntry
  /\ dir[d].state # "none"
  /\ dir[s].driver = dir[d].driver
  /\ e.kind = "directory" => dir[e.subject].mount # "mount"
  /\ req' = [req EXCEPT ![r] = Mutation("rename", s, n, e, d, m)]

Start(r) ==
  /\ req[r].pc = "new"
  /\ \/ \E d \in Dirs, n \in Names :
          \/ StartPut(r, d, n)
          \/ StartRemove(r, d, n)
          \/ \E c \in Dirs : StartMkdir(r, d, n, c)
          \/ \E e \in Dirs, m \in Names : StartRename(r, d, n, e, m)
  /\ UNCHANGED <<dir, entry, pol, rd, mislaid>>

-----------------------------------------------------------------------------
(* The planners *)

\* load_directory and, for a rename, load_ancestor_chain: one row per step,
\* the source branch first.  The first load of a directory counts.
Walk(r) ==
  LET q == req[r]
      row == dir[q.at]
      on == [q EXCEPT !.chain = @ \cup {q.at}, !.rows[q.at] = IF @ = 0 THEN row.rev ELSE @]
  IN
  /\ q.pc = "walk"
  /\ row.state = "active"
  /\ Cardinality(q.chain) < MaxDepth
  /\ q.at \notin q.chain
  /\ req' = [req EXCEPT ![r] =
       IF row.parent # Nowhere THEN [on EXCEPT !.at = row.parent]
       ELSE IF q.op = "rename" /\ q.leg = "source"
              THEN [on EXCEPT !.leg = "destination", !.at = q.dst, !.chain = {}]
              ELSE [on EXCEPT !.pc = "plan"]]
  /\ UNCHANGED <<dir, entry, pol, rd, mislaid>>

\* The branch ends in a removed directory, has a cycle or is too deep.
WalkRefused(r) ==
  LET q == req[r] IN
  /\ q.pc = "walk"
  /\ \/ dir[q.at].state # "active"
     \/ Cardinality(q.chain) = MaxDepth
     \/ q.at \in q.chain
  /\ EndMutation(r)
  /\ UNCHANGED <<dir, entry, pol, rd, mislaid>>

LoadedDirs(q) == {x \in Dirs : q.rows[x] # 0}

\* The entries of every loaded directory still hash to the root of its row.
RowsCurrent(q) == \A x \in LoadedDirs(q) : dir[x].rev = q.rows[x]

\* The preconditions of the planners.  An entry is known by name and revision.
Plannable(q) ==
  LET e == entry[q.dir][q.name] IN
  CASE q.op = "put"    -> e.kind # "directory" /\ e.rev = q.loaded.rev
    [] q.op = "mkdir"  -> e = NoEntry
    [] q.op = "remove" -> e.rev = q.loaded.rev
    [] q.op = "rename" -> /\ e.rev = q.loaded.rev
                          /\ entry[q.dst][q.dname] = NoEntry
                          /\ e.kind = "directory" => e.subject \notin q.chain

\* Another attempt, from the first row.
Rebase(r) ==
  LET q == req[r] IN
  IF q.tries + 1 < Attempts
    THEN req' = [req EXCEPT ![r] =
           [Mutation(q.op, q.dir, q.name, q.loaded, q.dst, q.dname) EXCEPT !.tries = q.tries + 1]]
    ELSE EndMutation(r)

Plan(r) ==
  LET q == req[r] IN
  /\ q.pc = "plan"
  /\ IF ~RowsCurrent(q) THEN Rebase(r)
     ELSE IF Plannable(q) THEN req' = [req EXCEPT ![r].pc = "batch"]
     ELSE EndMutation(r)
  /\ UNCHANGED <<dir, entry, pol, rd, mislaid>>

-----------------------------------------------------------------------------
(* The batches *)

\* The guarded UPDATE of every planned directory.
Bumped(q) == [x \in Dirs |-> IF q.rows[x] = 0 THEN dir[x] ELSE [dir[x] EXCEPT !.rev = @ + 1]]

\* The UPDATE of the links to the planned directories.
Relinked(q) ==
  [d \in Dirs |-> [n \in Names |->
     IF entry[d][n].kind = "directory" /\ q.rows[entry[d][n].subject] # 0
       THEN [entry[d][n] EXCEPT !.rev = @ + 1]
       ELSE entry[d][n]]]

\* Mutation: the commit does not look at the placement again.
PutCommitsAnywhere(q) == Active(q.dir) /\ RowsCurrent(q) /\ Plannable(q)

\* validate_vfs_put_commit: the intent's driver still backs the directory.
PutCommits(q) ==
  /\ Active(q.dir) /\ dir[q.dir].driver = q.loaded.on
  /\ RowsCurrent(q)
  /\ Plannable(q)

\* The unique indexes and the mkdir receipt.
MkdirCommits(q) ==
  /\ Active(q.dir)
  /\ dir[q.loaded.subject] = Unborn
  /\ NameFree(q.dir, q.name)
  /\ RowsCurrent(q)

\* validate_vfs_remove_mount_insert and validate_vfs_remove_receipt.
RemoveCommits(q) ==
  /\ RowsCurrent(q)
  /\ q.loaded.kind = "directory" =>
       dir[q.loaded.subject].mount # "mount" /\ HasNoEntry(q.loaded.subject)

\* validate_vfs_rename_mount_insert: one driver, and not a mount.
RenameKeepsDriver(q) ==
  /\ dir[q.dir].driver = dir[q.dst].driver
  /\ q.loaded.kind = "directory" => dir[q.loaded.subject].mount # "mount"

\* The subject of the entry is the one that was loaded: a file has one entry
\* and a published version, a directory its parent and name.
SourceIsLoaded(q) == entry[q.dir][q.name] = q.loaded

\* UNIQUE (parent_id, name) and reject_vfs_directory_cycle_update.
MoveAllowed(q) ==
  q.loaded.kind = "directory" =>
    NameFree(q.dst, q.dname) /\ q.loaded.subject \notin Ancestors(q.dst)

\* Mutation: the receipt trigger does not look at the planned directories.
RenameCommitsStale(q) ==
  /\ RenameKeepsDriver(q)
  /\ SourceIsLoaded(q) /\ entry[q.dst][q.dname] = NoEntry
  /\ MoveAllowed(q)

\* The rename triggers, validate_vfs_rename_receipt last.
RenameCommits(q) ==
  /\ RenameKeepsDriver(q)
  /\ SourceIsLoaded(q) /\ entry[q.dst][q.dname] = NoEntry
  /\ MoveAllowed(q)
  /\ RowsCurrent(q)

Commits(q) ==
  CASE q.op = "put"    -> PutCommits(q)
    [] q.op = "mkdir"  -> MkdirCommits(q)
    [] q.op = "remove" -> RemoveCommits(q)
    [] q.op = "rename" -> RenameCommits(q)

\* commit_statements: the entry pins the new version.
PutBatch(r) ==
  LET q == req[r] IN
  /\ q.pc = "batch" /\ q.op = "put" /\ Commits(q)
  /\ dir' = Bumped(q)
  /\ entry' = [Relinked(q) EXCEPT ![q.dir][q.name] = [q.loaded EXCEPT !.rev = @ + 1]]
  /\ EndMutation(r)
  /\ UNCHANGED <<pol, rd, mislaid>>

\* create_statements: the placement is copied from the parent's row.
MkdirBatch(r) ==
  LET q == req[r] IN
  /\ q.pc = "batch" /\ q.op = "mkdir" /\ Commits(q)
  /\ dir' = [Bumped(q) EXCEPT ![q.loaded.subject] =
       Directory(q.dir, q.name, dir[q.dir].driver, "inherited")]
  /\ entry' = [Relinked(q) EXCEPT ![q.dir][q.name] = [q.loaded EXCEPT !.rev = 1]]
  /\ EndMutation(r)
  /\ UNCHANGED <<pol, rd, mislaid>>

\* remove_statements: the entry goes by name and revision, the directory by
\* the identity that was loaded.
RemoveBatch(r) ==
  LET q == req[r]
      removed(x) == q.loaded.kind = "directory" /\ x = q.loaded.subject /\ Active(x)
  IN
  /\ q.pc = "batch" /\ q.op = "remove" /\ Commits(q)
  /\ dir' = [x \in Dirs |->
       IF removed(x) THEN [dir[x] EXCEPT !.state = "tombstoned", !.rev = @ + 1]
                     ELSE Bumped(q)[x]]
  /\ entry' = [Relinked(q) EXCEPT ![q.dir][q.name] = NoEntry]
  /\ mislaid' = (mislaid \/ entry[q.dir][q.name].subject # q.loaded.subject)
  /\ EndMutation(r)
  /\ UNCHANGED <<pol, rd>>

\* rename_statements.
RenameBatch(r) ==
  LET q == req[r]
      moved(x) == q.loaded.kind = "directory" /\ x = q.loaded.subject
  IN
  /\ q.pc = "batch" /\ q.op = "rename" /\ Commits(q)
  /\ dir' = [x \in Dirs |->
       IF moved(x) THEN [dir[x] EXCEPT !.parent = q.dst, !.name = q.dname, !.rev = @ + 1]
                   ELSE Bumped(q)[x]]
  /\ entry' = [Relinked(q) EXCEPT ![q.dir][q.name] = NoEntry,
                                  ![q.dst][q.dname] = [q.loaded EXCEPT !.rev = @ + 1]]
  /\ EndMutation(r)
  /\ UNCHANGED <<pol, rd, mislaid>>

\* The batch aborts and the handler plans again.
RefusedBatch(r) ==
  /\ req[r].pc = "batch"
  /\ ~Commits(req[r])
  /\ Rebase(r)
  /\ UNCHANGED <<dir, entry, pol, rd, mislaid>>

-----------------------------------------------------------------------------
(* Policies *)

Revision(kind, d) == IF kind = "placement" THEN dir[d].place ELSE dir[d].acl
PolicyRows(kind, d) == IF kind = "placement" THEN {<<dir[d].driver, dir[d].mount>>} ELSE dir[d].grants

\* load_policy of list_placements and list_acl.
List(p, d) ==
  LET kind == pol[p].kind IN
  /\ pol[p].pc = "new"
  /\ Active(d)
  /\ pol' = [pol EXCEPT ![p] = Policy("list", kind, d, Revision(kind, d))]
  /\ UNCHANGED <<dir, entry, req, rd, mislaid>>

\* The rows of the answer, in a statement of their own.
ListRows(p) ==
  /\ pol[p].pc = "list"
  /\ pol' = [pol EXCEPT ![p].pc = "listed", ![p].listed = PolicyRows(pol[p].kind, pol[p].dir)]
  /\ UNCHANGED <<dir, entry, req, rd, mislaid>>

Nested(d) == \E x \in Ancestors(d) \ {d} : dir[x].mount = "mount"

\* vfs_mounts::desired; "none" when the mount is refused.
Desired(d, driver) ==
  IF dir[d].parent = Nowhere THEN "default"
  ELSE IF dir[dir[d].parent].driver = driver THEN "inherited"
  ELSE IF Nested(d) THEN "none"
  ELSE "mount"

\* vfs_mounts::change_is_safe, and validate_vfs_mount_policy_intent_insert.
ChangeIsSafe(d, driver) == dir[d].driver = driver \/ HoldsNothing(d)

\* replace_placements up to its batch: the client sends the revision it listed.
StartPlacement(p, driver) ==
  LET q == pol[p] IN
  /\ q.pc = "listed" /\ q.kind = "placement"
  /\ Active(q.dir) /\ dir[q.dir].place = q.rev
  /\ Desired(q.dir, driver) # "none"
  /\ ChangeIsSafe(q.dir, driver)
  /\ pol' = [pol EXCEPT ![p].pc = "batch", ![p].want = driver,
                        ![p].mount = Desired(q.dir, driver)]
  /\ UNCHANGED <<dir, entry, req, rd, mislaid>>

\* replace_acl up to its batch: one subject's grants are given or taken.
StartAcl(p, subject) ==
  LET q == pol[p] IN
  /\ q.pc = "listed" /\ q.kind = "acl"
  /\ Active(q.dir) /\ dir[q.dir].acl = q.rev
  /\ pol' = [pol EXCEPT ![p].pc = "batch", ![p].want = subject]
  /\ UNCHANGED <<dir, entry, req, rd, mislaid>>

\* Mutation: the intent does not check the revision again.
IntentHoldsAnyRevision(q) ==
  /\ Active(q.dir)
  /\ q.kind = "placement" => ChangeIsSafe(q.dir, q.want)

\* The triggers on the insert of the intent.
IntentHolds(q) ==
  /\ Active(q.dir)
  /\ Revision(q.kind, q.dir) = q.rev
  /\ q.kind = "placement" => ChangeIsSafe(q.dir, q.want)

\* validate_vfs_directory_mount_insert and validate_vfs_mount_policy_commit.
MountHolds(q) ==
  CASE q.mount = "default"   -> q.dir = Root
    [] q.mount = "mount"     -> q.dir # Root /\ HasNoEntry(q.dir) /\ ~Nested(q.dir)
    [] q.mount = "inherited" -> q.dir # Root /\ dir[dir[q.dir].parent].driver = q.want

\* The receipt and the committed intent.
Committed(p) ==
  pol' = [pol EXCEPT ![p].pc = "committed", ![p].was = PolicyRows(pol[p].kind, pol[p].dir)]

\* The driver row is deleted and inserted, each time with a new revision.
PlacementBatch(p) ==
  LET q == pol[p] IN
  /\ q.pc = "batch" /\ q.kind = "placement"
  /\ IntentHolds(q) /\ MountHolds(q)
  /\ dir' = [dir EXCEPT ![q.dir].driver = q.want, ![q.dir].mount = q.mount, ![q.dir].place = @ + 2]
  /\ Committed(p)
  /\ UNCHANGED <<entry, req, rd, mislaid>>

\* The subject's grant is deleted or inserted, which raises the revision.
AclBatch(p) ==
  LET q == pol[p]
      held == dir[q.dir].grants
  IN
  /\ q.pc = "batch" /\ q.kind = "acl"
  /\ IntentHolds(q)
  /\ dir' = [dir EXCEPT
       ![q.dir].grants = IF q.want \in held THEN held \ {q.want} ELSE held \cup {q.want},
       ![q.dir].acl = @ + 1]
  /\ Committed(p)
  /\ UNCHANGED <<entry, req, rd, mislaid>>

\* 409: the handler does not try again.
RefusedPolicy(p) ==
  LET q == pol[p] IN
  /\ q.pc = "batch"
  /\ ~(IntentHolds(q) /\ (q.kind = "placement" => MountHolds(q)))
  /\ pol' = [pol EXCEPT ![p] = NewPolicy("none")]
  /\ UNCHANGED <<dir, entry, req, rd, mislaid>>

-----------------------------------------------------------------------------
(* The console's reads of a directory *)

EntriesOf(d) == {<<n, entry[d][n]>> : n \in {m \in Names : entry[d][m] # NoEntry}}
Path(d) == {<<x, dir[x].name>> : x \in Ancestors(d)}
Revisions(d) == <<dir[d].rev, dir[d].acl, dir[d].place>>

\* Children, directories below, files below.
Counts(d) ==
  <<Cardinality({x \in Dirs : Active(x) /\ dir[x].parent = d}),
    Cardinality(Descendants(d)) - 1,
    Cardinality({f \in Descendants(d) \X Names : entry[f[1]][f[2]].kind = "file"})>>

Snapshot(d) ==
  [revs |-> Revisions(d), parent |-> dir[d].parent, name |-> dir[d].name, counts |-> Counts(d),
   path |-> Path(d), driver |-> dir[d].driver, mount |-> dir[d].mount,
   entries |-> EntriesOf(d)]

\* One statement of the read: pc names the next one.
ReadStep(x, from, to, view) ==
  /\ rd[x].pc = from
  /\ rd' = [rd EXCEPT ![x].pc = to, ![x].view = view]
  /\ UNCHANGED <<dir, entry, req, pol, mislaid>>

ReadRow(x, d) ==
  /\ rd[x].pc = "new"
  /\ Active(d)
  /\ rd' = [rd EXCEPT ![x] = Read("path", d,
       [NoView EXCEPT !.revs = Revisions(d), !.parent = dir[d].parent, !.name = dir[d].name,
                      !.counts = Counts(d)])]
  /\ UNCHANGED <<dir, entry, req, pol, mislaid>>

\* The breadcrumbs.
ReadPath(x) ==
  LET d == rd[x].dir IN
  /\ rd[x].pc = "path"
  /\ rd' = [rd EXCEPT ![x].pc = "placement", ![x].view.path = Path(d), ![x].snap = Snapshot(d)]
  /\ UNCHANGED <<dir, entry, req, pol, mislaid>>

ReadPlacement(x) ==
  ReadStep(x, "placement", "mount", [rd[x].view EXCEPT !.driver = dir[rd[x].dir].driver])

\* The relation of the driver that was read; no row when it has changed.
ReadMount(x) ==
  /\ rd[x].pc = "mount"
  /\ dir[rd[x].dir].driver = rd[x].view.driver
  /\ ReadStep(x, "mount", "entries", [rd[x].view EXCEPT !.mount = dir[rd[x].dir].mount])

MountGone(x) ==
  /\ rd[x].pc = "mount"
  /\ dir[rd[x].dir].driver # rd[x].view.driver
  /\ ReadStep(x, "mount", "done", rd[x].view)

ReadEntries(x) ==
  ReadStep(x, "entries", "fence", [rd[x].view EXCEPT !.entries = EntriesOf(rd[x].dir)])

\* Mutation: the fence leaves the placement out.
FenceMatchesEntries(x) ==
  LET d == rd[x].dir IN
  /\ Active(d)
  /\ dir[d].rev = rd[x].view.revs[1] /\ dir[d].acl = rd[x].view.revs[2]

\* directory_fence_matches.
FenceMatches(x) == Active(rd[x].dir) /\ Revisions(rd[x].dir) = rd[x].view.revs

ReadFence(x) ==
  ReadStep(x, "fence", IF FenceMatches(x) THEN "answered" ELSE "done", rd[x].view)

\* directory_entries at the revision of the answer: the revision is read
\* before the page and after it.
RevisionMatches(x) == Active(rd[x].dir) /\ dir[rd[x].dir].rev = rd[x].view.revs[1]

PageCheck(x) ==
  ReadStep(x, "answered", IF RevisionMatches(x) THEN "page" ELSE "done", rd[x].view)

\* ORDER BY kind, name, where "directory" < "file".
Before(a, b) ==
  \/ a[2].kind = "directory" /\ b[2].kind = "file"
  \/ a[2].kind = b[2].kind /\ a[1] < b[1]

\* The entries after the cursor, a page of one.
Rest(x) ==
  {e \in EntriesOf(rd[x].dir) : \A g \in rd[x].got : Before(g, e)}
FirstOf(es) == {e \in es : \A f \in es : f = e \/ Before(e, f)}

PageRows(x) ==
  /\ rd[x].pc = "page"
  /\ rd' = [rd EXCEPT ![x].got = @ \cup FirstOf(Rest(x)),
                      ![x].pc = IF Cardinality(Rest(x)) > 1 THEN "more" ELSE "last"]
  /\ UNCHANGED <<dir, entry, req, pol, mislaid>>

PageFence(x) ==
  LET next == IF rd[x].pc = "more" THEN "answered" ELSE "complete" IN
  /\ rd[x].pc \in {"more", "last"}
  /\ ReadStep(x, rd[x].pc, IF RevisionMatches(x) THEN next ELSE "done", rd[x].view)

-----------------------------------------------------------------------------
Mutate(r) ==
  \/ Start(r)
  \/ Walk(r)
  \/ WalkRefused(r)
  \/ Plan(r)
  \/ PutBatch(r)
  \/ MkdirBatch(r)
  \/ RemoveBatch(r)
  \/ RenameBatch(r)
  \/ RefusedBatch(r)

Replace(p) ==
  \/ \E d \in Dirs : List(p, d)
  \/ ListRows(p)
  \/ \E driver \in Drivers : StartPlacement(p, driver)
  \/ \E s \in Subjects : StartAcl(p, s)
  \/ PlacementBatch(p)
  \/ AclBatch(p)
  \/ RefusedPolicy(p)

Inspect(x) ==
  \/ \E d \in Dirs : ReadRow(x, d)
  \/ ReadPath(x)
  \/ ReadPlacement(x)
  \/ ReadMount(x)
  \/ MountGone(x)
  \/ ReadEntries(x)
  \/ ReadFence(x)
  \/ PageCheck(x)
  \/ PageRows(x)
  \/ PageFence(x)

Next ==
  \/ \E r \in Mutators : Mutate(r)
  \/ \E p \in Policies : Replace(p)
  \/ \E x \in Readers : Inspect(x)

Spec == Init /\ [][Next]_vars

-----------------------------------------------------------------------------
(* Properties *)

\* The columns of the rows, and the fields of the requests.
DirectoryRows ==
  [state : {"none", "active", "tombstoned"}, parent : Dirs \cup {Nowhere},
   name : Names \cup {0}, rev : Nat \ {0}, place : Nat, driver : Drivers \cup {Nowhere},
   mount : {"default", "mount", "inherited"}, acl : Nat, grants : SUBSET Subjects]

EntryRows ==
  [kind : {"absent", "file", "directory"}, subject : Dirs \cup Mutators \cup {Nowhere},
   rev : Nat, on : Drivers \cup {Nowhere}]

Mutations ==
  [pc : {"new", "walk", "plan", "batch", "done"},
   op : {"none", "put", "mkdir", "remove", "rename"}, dir : Dirs \cup {Nowhere},
   name : Names \cup {0}, loaded : EntryRows, dst : Dirs \cup {Nowhere},
   dname : Names \cup {0}, leg : {"source", "destination"}, at : Dirs \cup {Nowhere},
   chain : SUBSET Dirs, rows : [Dirs -> Nat], tries : 0 .. Attempts - 1]

RowSets ==
  (SUBSET ((Drivers \cup {Nowhere}) \X {"default", "mount", "inherited"})) \cup (SUBSET Subjects)

PolicyRequests ==
  [pc : {"new", "list", "listed", "batch", "committed", "done"},
   kind : {"none", "placement", "acl"}, dir : Dirs \cup {Nowhere}, rev : Nat,
   listed : RowSets, was : RowSets, want : Drivers \cup Subjects \cup {Nowhere},
   mount : {"default", "mount", "inherited"}]

Views ==
  [revs : Nat \X Nat \X Nat, parent : Dirs \cup {Nowhere}, name : Names \cup {0},
   counts : Int \X Int \X Int, path : SUBSET (Dirs \X (Names \cup {0})),
   driver : Drivers \cup {Nowhere}, mount : {"default", "mount", "inherited"},
   entries : SUBSET (Names \X EntryRows)]

Reads ==
  [pc : {"new", "path", "placement", "mount", "entries", "fence", "answered", "page", "more",
         "last", "complete", "done"},
   dir : Dirs \cup {Nowhere}, view : Views, snap : Views, got : SUBSET (Names \X EntryRows)]

\* The rows have their columns, a request stands at a step of its handler, and
\* no handler plans more often than its loop allows.
TypeOK ==
  /\ dir \in [Dirs -> DirectoryRows] /\ entry \in [Dirs -> [Names -> EntryRows]]
  /\ req \in [Mutators -> Mutations]
  /\ pol \in [Policies -> PolicyRequests]
  /\ rd \in [Readers -> Reads]
  /\ mislaid \in BOOLEAN

\* The directories stay one tree however renames, removals and creations
\* interleave: from every active directory the parents lead to the root, its
\* parent is active and holds its only entry, and a removed directory holds
\* and has none.  A removal that took the entry of another subject, because
\* the planner knows entries by name and revision only, breaks this.  With the types.
TreeShape ==
  TypeOK /\ (~mislaid =>
    /\ \A d \in Dirs \ {Root} : Active(d) =>
         /\ Root \in Ancestors(d)
         /\ Active(dir[d].parent)
         /\ entry[dir[d].parent][dir[d].name].subject = d
    /\ \A d \in Dirs, n \in Names : entry[d][n] # NoEntry =>
         /\ Active(d)
         /\ entry[d][n].kind = "directory" =>
              LET c == entry[d][n].subject IN
              Active(c) /\ dir[c].parent = d /\ dir[c].name = n)

\* What replace_placements, mkdir and rename keep between them: the root has
\* the default, a directory without a mount has its parent's driver, a mount
\* has another and lies under no other mount.
MountsSound ==
  ~mislaid =>
    \A d \in Dirs : Active(d) =>
      CASE dir[d].mount = "default"   -> d = Root
        [] dir[d].mount = "inherited" -> d # Root /\ dir[d].driver = dir[dir[d].parent].driver
        [] dir[d].mount = "mount"     -> /\ d # Root /\ ~Nested(d)
                                         /\ dir[d].driver # dir[dir[d].parent].driver

\* Every file of a directory lies on the driver that backs the directory now:
\* no put that was prepared before a change of driver, and no rename across
\* one, gets its entry in.
EntriesBacked ==
  \A d \in Dirs, n \in Names :
    entry[d][n].kind = "file" => entry[d][n].on = dir[d].driver

\* Directories, mounts and files agree on their drivers, although the checks
\* of a change of driver, a rename and a put precede their batches.
DriversAgree == MountsSound /\ EntriesBacked

\* A committed replacement replaced the very rows its client had listed,
\* although the list takes its revision and its rows in two statements.
ReplacesWhatWasListed ==
  \A p \in Policies : pol[p].pc = "committed" => pol[p].was = pol[p].listed

\* An answered read is the directory as it was at one instant, the read of
\* its path, and the pages that follow add up to the same entries.  A removal
\* that took the entry of another subject tombstones a directory without
\* raising the revisions above it, and the fence of a read does not see it.
ReadIsSnapshot ==
  ~mislaid => \A x \in Readers :
    /\ rd[x].pc \in {"answered", "page", "more", "last", "complete"} => rd[x].view = rd[x].snap
    /\ rd[x].pc = "complete" => rd[x].got = rd[x].snap.entries
=============================================================================
