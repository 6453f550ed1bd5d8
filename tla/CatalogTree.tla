----------------------------- MODULE CatalogTree -----------------------------
(***************************************************************************)
(* The portable catalog of skydriver-sdk-core: a complete checkpoint of a  *)
(* directory tree and the hash-linked delta between two checkpoints.       *)
(*                                                                         *)
(* A tree is a set of links [in, name, kind, id]: directory `in' holds     *)
(* `name', a file whose version is `id' or the directory `id'.  SHA-256 is *)
(* taken to be injective: the data root of a directory is the set of its   *)
(* entries, each with the root of what it names, and the digest of a       *)
(* checkpoint body is the checkpoint itself.  Sorting, the size bounds and *)
(* the JSON encoding are left out.                                         *)
(***************************************************************************)
EXTENDS Naturals, Sequences, FiniteSets

CONSTANTS Root,   \* the identity of the root directory of the filesystem
          None    \* an absent parent

\* What a link says, and what an entry adds to it: the root it commits to.
IsDirectory(e) == e.kind = "directory"

\* The active directories of a tree.
Directories(tree) == {Root} \cup {l.id : l \in {k \in tree : IsDirectory(k)}}

\* The Merkle root of every directory: its entries, a directory among them
\* with its own root.
DataRoots(tree) ==
  LET root[d \in Directories(tree)] ==
        { [name |-> l.name, kind |-> l.kind, id |-> l.id,
           root |-> IF IsDirectory(l) THEN root[l.id] ELSE {}]
          : l \in {k \in tree : k.in = d} }
  IN  root

\* The rows of vfs_directories and of vfs_directory_entries for a tree.
DirectoryRows(tree) ==
  LET roots == DataRoots(tree)
  IN  [d \in Directories(tree) |->
         IF d = Root
         THEN [parent |-> None, name |-> "", dataRoot |-> roots[Root]]
         ELSE LET l == CHOOSE k \in tree : IsDirectory(k) /\ k.id = d
              IN  [parent |-> l.in, name |-> l.name, dataRoot |-> roots[d]]]

EntryRows(tree) == DataRoots(tree)

\* The checkpoint the two sets of rows make up.
Assemble(revision, rootData, rows, entries) ==
  [ revision |-> revision, root |-> Root, dataRoot |-> rootData,
    dirs |-> [d \in DOMAIN rows |->
                [parent |-> rows[d].parent, name |-> rows[d].name,
                 dataRoot |-> rows[d].dataRoot,
                 entries |-> IF d \in DOMAIN entries THEN entries[d] ELSE {}]] ]

\* Every entry names a directory row that was read.
NoForeignEntries(rows, entries) ==
  \A d \in DOMAIN entries : entries[d] # {} => d \in DOMAIN rows

\* The checkpoint of a tree at a revision.
Checkpoint(revision, tree) ==
  Assemble(revision, DataRoots(tree)[Root], DirectoryRows(tree), EntryRows(tree))

\* The identity of a removed directory is never given to another one.
FreshIdentities(trees, tree) ==
  \A i \in 1..Len(trees) :
    Directories(tree) \cap Directories(trees[i]) \subseteq Directories(trees[Len(trees)])

-----------------------------------------------------------------------------
Children(dirs, d) ==
  IF d \in DOMAIN dirs THEN {e.id : e \in {x \in dirs[d].entries : IsDirectory(x)}} ELSE {}

\* The directories a walk from `from' reaches: those no set leaves out that
\* holds `from' and what its directories have below them.
Reached(dirs, from) ==
  LET below     == [d \in DOMAIN dirs |-> Children(dirs, d)]
      near      == {from} \cup DOMAIN dirs \cup UNION {below[d] : d \in DOMAIN dirs}
      Closed(S) == \A d \in S \cap DOMAIN dirs : below[d] \subseteq S
  IN  {x \in near : \A S \in SUBSET (near \ {x}) : from \in S => ~Closed(S)}

\* A directory's name order, its entries and its root agree.
ValidDirectory(d, dir) ==
  /\ dir.parent # d
  /\ \A e, f \in dir.entries : e.name = f.name => e = f
  /\ dir.entries = dir.dataRoot

\* Every edge of the tree is stored at both ends, and the walk from the root
\* meets every directory once.
ValidCheckpoint(cp) ==
  /\ cp.revision > 0
  /\ \A d \in DOMAIN cp.dirs : ValidDirectory(d, cp.dirs[d])
  /\ cp.root \in DOMAIN cp.dirs
  /\ cp.dirs[cp.root].parent = None
  /\ cp.dirs[cp.root].name = ""
  /\ cp.dirs[cp.root].dataRoot = cp.dataRoot
  /\ \A d \in DOMAIN cp.dirs : \A e \in cp.dirs[d].entries :
        IsDirectory(e) =>
          /\ e.id \in DOMAIN cp.dirs
          /\ cp.dirs[e.id].parent = d
          /\ cp.dirs[e.id].name = e.name
          /\ cp.dirs[e.id].dataRoot = e.root
  /\ Reached(cp.dirs, cp.root) = DOMAIN cp.dirs

-----------------------------------------------------------------------------
\* The content address of a directory: its identity and its root.
Address(dirs, d) == <<d, dirs[d].dataRoot>>
Addresses(dirs) == {Address(dirs, d) : d \in DOMAIN dirs}

\* Mutation: a node is left out when its directory, not its content, is known.
BuildDeltaByIdentity(base, target) ==
  [ baseRevision |-> base.revision, baseRoot |-> base.root,
    baseDataRoot |-> base.dataRoot, baseSha |-> base,
    revision |-> target.revision, root |-> target.root,
    dataRoot |-> target.dataRoot, sha |-> target,
    dirs |-> [d \in {target.root} \cup (DOMAIN target.dirs \ DOMAIN base.dirs) |-> target.dirs[d]] ]

\* The nodes of the target that the base does not hold.
BuildDelta(base, target) ==
  [ baseRevision |-> base.revision, baseRoot |-> base.root,
    baseDataRoot |-> base.dataRoot, baseSha |-> base,
    revision |-> target.revision, root |-> target.root,
    dataRoot |-> target.dataRoot, sha |-> target,
    dirs |-> [d \in {x \in DOMAIN target.dirs :
                       Address(target.dirs, x) \notin Addresses(base.dirs)}
                |-> target.dirs[d]] ]

\* What a receiver can check of a delta on its own.
ValidDelta(delta) ==
  /\ delta.revision > delta.baseRevision
  /\ delta.baseRoot = delta.root
  /\ DOMAIN delta.dirs # {}
  /\ \A d \in DOMAIN delta.dirs : ValidDirectory(d, delta.dirs[d])

\* The nodes a receiver has once it overlays the delta on its base.
Overlay(base, delta) ==
  [d \in DOMAIN base.dirs \cup DOMAIN delta.dirs |->
     IF d \in DOMAIN delta.dirs THEN delta.dirs[d] ELSE base.dirs[d]]

\* The target that follows from the overlay: parents and names come from the
\* edges of the walk, never from the reused base nodes.
Rebuilt(base, delta) ==
  LET nodes   == Overlay(base, delta)
      visited == Reached(nodes, delta.root)
      Edge(d) == CHOOSE x \in visited \X UNION {nodes[y].entries : y \in visited} :
                   x[2] \in nodes[x[1]].entries /\ IsDirectory(x[2]) /\ x[2].id = d
  IN  [ revision |-> delta.revision, root |-> delta.root, dataRoot |-> delta.dataRoot,
        dirs |-> [d \in visited |->
                    IF d = delta.root
                    THEN [nodes[d] EXCEPT !.parent = None, !.name = ""]
                    ELSE [nodes[d] EXCEPT !.parent = Edge(d)[1], !.name = Edge(d)[2].name]] ]

\* The delta applies to this base: it is the base it was built from, the walk
\* finds every node under the root its parent commits to, and the rebuilt
\* checkpoint has the digest the delta names.
AppliesTo(base, baseSha, delta) ==
  LET nodes   == Overlay(base, delta)
      visited == Reached(nodes, delta.root)
      target  == Rebuilt(base, delta)
  IN  /\ ValidDelta(delta)
      /\ baseSha = delta.baseSha
      /\ base.revision = delta.baseRevision
      /\ base.root = delta.baseRoot
      /\ base.dataRoot = delta.baseDataRoot
      /\ visited \subseteq DOMAIN nodes
      /\ delta.root \in DOMAIN nodes
      /\ nodes[delta.root].dataRoot = delta.dataRoot
      /\ \A d \in visited : \A e \in nodes[d].entries :
            IsDirectory(e) => nodes[e.id].dataRoot = e.root
      /\ DOMAIN delta.dirs \subseteq visited
      /\ ValidCheckpoint(target)
      /\ target = delta.sha
=============================================================================
