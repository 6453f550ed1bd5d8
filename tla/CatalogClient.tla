---------------------------- MODULE CatalogClient ----------------------------
(***************************************************************************)
(* The readers of the catalog: checkpoint delivery on the server           *)
(* (vfs_catalog_delivery.rs), the client's transport (vfs.rs), its private *)
(* store of content-addressed nodes and the head receipt (catalog.rs), and *)
(* the planning of a sync (plan_tree and source_catalog of sync.rs).       *)
(*                                                                         *)
(* Several syncs of one token, in several processes, share a store.  Only  *)
(* the update of the head holds the store's lock; nodes are read, written  *)
(* and discarded without it.  A node or the head may be damaged on disk, a *)
(* response may be lost, and a process may die between two file            *)
(* operations.  The catalog itself is CatalogPublisher.                    *)
(***************************************************************************)
EXTENDS CatalogPublisher

CONSTANTS Syncs,     \* the syncs that share the store
          Source,    \* the path that is synchronized, a sequence of names
          Shards,    \* the shards of the node directory
          MaxFaults  \* bound on damage, losses and deaths together

ASSUME ClientAssumption ==
  /\ None \notin Syncs
  /\ Source \in Seq(STRING)
  /\ Shards \in Nat \ {0}
  /\ MaxFaults \in Nat

\* The ways of n links down from a directory: every link is of the directory
\* that the one before it names.
Ways(tree, from, n) ==
  {f \in [1..n -> tree] :
     \A i \in 1..n : IF i = 1 THEN f[i].in = from
                     ELSE IsDirectory(f[i - 1]) /\ f[i].in = f[i - 1].id}
NamesOf(f) == [i \in DOMAIN f |-> f[i].name]

\* The namespace takes finite trees, in which no way down returns to where it
\* was.  The last conjunct is the equation that defines DataRoots, which is
\* recursive.
ASSUME WalkAssumption ==
  \A t \in Trees :
    /\ IsFiniteSet(t)
    /\ \A l \in t : l.name \in STRING
    /\ \A d \in Directories(t) :
         /\ Ways(t, d, Cardinality(t) + 1) = {}
         /\ DataRoots(t)[d] =
              {[name |-> l.name, kind |-> l.kind, id |-> l.id,
                root |-> IF IsDirectory(l) THEN DataRoots(t)[l.id] ELSE {}] : l \in {k \in t : k.in = d}}

VARIABLES
  headFile,  \* head.json: the receipt of the checkpoint the store holds, or None
  nodes,     \* the node files: set of [id, root]
  damaged,   \* the node files that no longer decode
  lost,      \* the nodes that were ever damaged
  cursor,    \* gc.cursor
  lock,      \* the sync that holds head.lock, or None
  sync,      \* the syncs
  faults

storeVars == <<headFile, nodes, damaged, lost, cursor, lock>>
clientVars == <<publisherVars, storeVars, sync, faults>>

\* The node file of a directory of a checkpoint.
Node(dirs, d) == [id |-> d, root |-> dirs[d].dataRoot]
NodesOf(dirs) == {Node(dirs, d) : d \in DOMAIN dirs}

\* The shard of a node: the first byte of its root.
Shard(n) == Cardinality(n.root) % Shards

NoFence == [id |-> None, root |-> {}, revision |-> 0]
Idle == [pc |-> "idle", condition |-> None, response |-> [kind |-> "none"],
         target |-> None, todo |-> {}, bulk |-> FALSE, from |-> 0,
         names |-> << >>, dir |-> [id |-> None, root |-> {}],
         fence |-> NoFence, pending |-> {}, plan |-> {}, at |-> 0]

\* The error is returned.
Failed == [Idle EXCEPT !.pc = "failed"]

ClientInit ==
  /\ PublisherInit
  /\ headFile = None
  /\ nodes = {}
  /\ damaged = {}
  /\ lost = {}
  /\ cursor = 0
  /\ lock = None
  /\ sync = [p \in Syncs |-> Idle]
  /\ faults = 0

At(p, pc) == sync[p].pc = pc
Become(p, s) == sync' = [sync EXCEPT ![p] = s]
Goto(p, pc) == Become(p, [sync[p] EXCEPT !.pc = pc])

-----------------------------------------------------------------------------
(* The store.                                                              *)

Present(n) == n \in nodes /\ n \notin damaged
Garbled == [revision |-> 0]
HeadReadable == headFile # None /\ headFile # Garbled

\* checkpoint_condition: the receipt, if it and its root node can be read.
CheckpointCondition(p) ==
  /\ At(p, "idle")
  /\ LET root == IF HeadReadable THEN {[id |-> headFile.root, root |-> headFile.dataRoot]} ELSE {}
     IN  /\ headFile' = IF HeadReadable THEN headFile ELSE None
         /\ nodes' = nodes \ (root \cap damaged)
         /\ damaged' = damaged \ root
         /\ Become(p, [Idle EXCEPT !.pc = "request",
                         !.condition = IF HeadReadable /\ \A n \in root : Present(n)
                                       THEN headFile ELSE None])
  /\ UNCHANGED <<publisherVars, lost, cursor, lock, faults>>

-----------------------------------------------------------------------------
(* Delivery.                                                               *)

\* eligible_checkpoint: the published head is the live tree.
Eligible == head # 0 /\ history[head] = history[MutationHead]

\* requested_delta: the client's base is exactly the delta's.
DeltaRequested(condition) ==
  /\ condition # None
  /\ delta.base # 0
  /\ condition = Checkpoint(delta.base, history[delta.base])

\* What the server answers; a token that may not read the whole tree, or the
\* tree of a narrow root, gets no checkpoint.
Answers(condition) ==
  IF ~Eligible THEN {[kind |-> "unavailable"]}
  ELSE {[kind |-> "unavailable"],
        IF condition = bucket[head] THEN [kind |-> "unchanged"]
        ELSE IF DeltaRequested(condition)
        THEN IF delta.there
             THEN [kind |-> "delta", body |-> BuildDelta(condition, bucket[head])]
             ELSE [kind |-> "error"]
        ELSE [kind |-> "full", body |-> bucket[head]]}

Deliver(p) ==
  /\ At(p, "request")
  /\ \E a \in Answers(sync[p].condition) :
        Become(p, [sync[p] EXCEPT !.pc = "response", !.response = a])
  /\ UNCHANGED <<publisherVars, storeVars, faults>>

\* The request or its answer is lost; the sync goes on without a checkpoint.
LoseResponse(p) ==
  /\ At(p, "request")
  /\ faults < MaxFaults
  /\ faults' = faults + 1
  /\ Become(p, [sync[p] EXCEPT !.pc = "response", !.response = [kind |-> "unavailable"]])
  /\ UNCHANGED <<publisherVars, storeVars>>

\* catalog_checkpoint of the client, and what sync_to_local makes of it: a
\* response that does not verify is no checkpoint, an error of the server
\* ends the sync.
Receive(p) ==
  LET response  == sync[p].response
      Without   == [Idle EXCEPT !.pc = "root"]
      Verified  == [Idle EXCEPT !.pc = "lock", !.response = response]
  IN
  /\ At(p, "response")
  /\ Become(p,
       CASE response.kind = "unavailable" -> Without
         [] response.kind = "unchanged"   -> [Without EXCEPT !.bulk = TRUE]
         [] response.kind = "error"       -> Failed
         [] response.kind = "full"        ->
              IF ValidCheckpoint(response.body) THEN Verified ELSE Without
         [] response.kind = "delta"       ->
              IF ValidDelta(response.body) /\ response.body.baseSha = sync[p].condition
              THEN Verified ELSE Without)
  /\ UNCHANGED <<publisherVars, storeVars, faults>>

-----------------------------------------------------------------------------
(* Publication into the store, under head.lock.                            *)

AcquireHeadLock(p) ==
  /\ At(p, "lock")
  /\ lock = None
  /\ lock' = p
  /\ Goto(p, "base")
  /\ UNCHANGED <<publisherVars, headFile, nodes, damaged, lost, cursor, faults>>

\* Leaving publish_checkpoint or apply_delta releases the lock.
Unlocked(p, pc) == lock' = None /\ Goto(p, pc)

\* reconstruct_checkpoint: the closure of the local head, if every node loads.
Reconstructible ==
  HeadReadable /\ \A d \in DOMAIN headFile.dirs : Present(Node(headFile.dirs, d))

\* publish_checkpoint stores every node, apply_delta those the delta carries,
\* after it has rebuilt and verified the target from the local base.
ChooseNodes(p) ==
  LET response == sync[p].response IN
  /\ At(p, "base")
  /\ IF response.kind = "full"
     THEN /\ Become(p, [sync[p] EXCEPT !.pc = "nodes", !.target = response.body,
                                       !.todo = NodesOf(response.body.dirs),
                                       !.response = Idle.response])
          /\ UNCHANGED lock
     ELSE IF Reconstructible /\ AppliesTo(headFile, headFile, response.body)
     THEN /\ Become(p, [sync[p] EXCEPT !.pc = "nodes",
                                       !.target = Rebuilt(headFile, response.body),
                                       !.todo = NodesOf(response.body.dirs),
                                       !.response = Idle.response])
          /\ UNCHANGED lock
     ELSE Unlocked(p, "discard")
  /\ UNCHANGED <<publisherVars, headFile, nodes, damaged, lost, cursor, faults>>

\* publish_node: a file that does not decode is discarded and written again.
PublishNode(p) ==
  /\ At(p, "nodes")
  /\ \E n \in sync[p].todo :
       /\ nodes' = nodes \cup {n}
       /\ damaged' = damaged \ {n}
       /\ Become(p, [sync[p] EXCEPT !.todo = @ \ {n}])
  /\ UNCHANGED <<publisherVars, headFile, lost, cursor, lock, faults>>

\* The head is written before the nodes it speaks of.
PublishHeadFileEarly(p) ==
  /\ At(p, "nodes")
  /\ IF HeadReadable /\ headFile.revision > sync[p].target.revision
     THEN UNCHANGED headFile ELSE headFile' = sync[p].target
  /\ Goto(p, IF sync[p].todo = {} THEN "prune" ELSE "nodes")
  /\ UNCHANGED <<publisherVars, nodes, damaged, lost, cursor, lock, faults>>

\* publish_head_locked: never back to an older revision.
PublishHeadFile(p) ==
  LET target == sync[p].target IN
  /\ At(p, "nodes")
  /\ sync[p].todo = {}
  /\ IF HeadReadable /\ headFile.revision > target.revision
     THEN /\ UNCHANGED <<headFile, lock>>
          /\ Goto(p, "unlock")
     ELSE IF HeadReadable /\ headFile.revision = target.revision /\ headFile # target
     THEN /\ UNCHANGED headFile
          /\ Unlocked(p, "discard")
     ELSE /\ headFile' = target
          /\ UNCHANGED lock
          /\ Goto(p, "prune")
  /\ UNCHANGED <<publisherVars, nodes, damaged, lost, cursor, faults>>

\* prune_one_shard: node files of the shard that the new head does not reach.
PruneOneShard(p) ==
  /\ At(p, "prune")
  /\ LET stale == {n \in nodes : Shard(n) = cursor} \ NodesOf(sync[p].target.dirs)
     IN  /\ nodes' = nodes \ stale
         /\ damaged' = damaged \ stale
  /\ cursor' = (cursor + 1) % Shards
  /\ Goto(p, "unlock")
  /\ UNCHANGED <<publisherVars, headFile, lost, lock, faults>>

ReleaseHeadLock(p) ==
  /\ At(p, "unlock")
  /\ lock' = None
  /\ Become(p, [Idle EXCEPT !.pc = "root", !.bulk = TRUE])
  /\ UNCHANGED <<publisherVars, headFile, nodes, damaged, lost, cursor, faults>>

\* The store could not be updated: its head is dropped, without the lock.
DiscardHead(p) ==
  /\ At(p, "discard")
  /\ headFile' = None
  /\ Become(p, [Idle EXCEPT !.pc = "root"])
  /\ UNCHANGED <<publisherVars, nodes, damaged, lost, cursor, lock, faults>>

-----------------------------------------------------------------------------
(* Traversal.  A live page is read in one step: pages after the first are  *)
(* refused unless the directory still has the first one's revision, and    *)
(* the entries unless they hash to the page's root.                        *)

Now == history[MutationHead]

\* The row of a directory at a revision, and how often it has changed.
RowAt(i, d) == IF d \in Directories(history[i]) THEN DirectoryRows(history[i])[d] ELSE None
RevisionOf(d) == Cardinality({i \in 2..MutationHead : RowAt(i, d) # RowAt(i - 1, d)})

\* validate_page_identity: the directory is live with the expected root.
PageMatches(n) == n.id \in Directories(Now) /\ DataRoots(Now)[n.id] = n.root

\* load_catalog_from_first: the verified entries are kept as a node.
Keep(n) == nodes' = nodes \cup {n} /\ damaged' = damaged \ {n}

\* load_catalog_node: the store answers only a sync whose checkpoint the
\* server authorized; anything else is a page with the expected root.
CachedFor(p, n) == sync[p].bulk /\ Present(n)
LoadCatalogNode(p, n, then) ==
  IF CachedFor(p, n) THEN UNCHANGED <<nodes, damaged>> /\ Become(p, then)
  ELSE IF PageMatches(n) THEN Keep(n) /\ Become(p, then)
  ELSE /\ nodes' = IF sync[p].bulk THEN nodes \ ({n} \cap damaged) ELSE nodes
       /\ damaged' = IF sync[p].bulk THEN damaged \ {n} ELSE damaged
       /\ Become(p, Failed)

\* What one loaded directory adds to the queue and to the plan.
Pending(path, n) ==
  {[path |-> Append(path, e.name), id |-> e.id, root |-> e.root] : e \in {x \in n.root : IsDirectory(x)}}
Planned(path, n) ==
  {[path |-> Append(path, e.name), version |-> e.id] : e \in {x \in n.root : ~IsDirectory(x)}}

\* The fence is the page of the source; its node heads the queue.
Fenced(s, n) ==
  [s EXCEPT !.pc = "tree", !.fence = [id |-> n.id, root |-> n.root, revision |-> RevisionOf(n.id)],
            !.pending = Pending(<< >>, n), !.plan = Planned(<< >>, n),
            !.names = << >>, !.dir = Idle.dir]

\* source_catalog: the live root page, and its node.
ReadRoot(p) ==
  /\ At(p, "root")
  /\ LET n == [id |-> Root, root |-> DataRoots(Now)[Root]]
     IN  /\ Keep(n)
         /\ Become(p, IF Source = << >>
                      THEN Fenced([sync[p] EXCEPT !.from = MutationHead], n)
                      ELSE [sync[p] EXCEPT !.pc = "walk", !.from = MutationHead,
                                           !.names = Source, !.dir = n])
  /\ UNCHANGED <<publisherVars, headFile, lost, cursor, lock, faults>>

\* One component of the source path; the last is read as a live page whose
\* root must be the one its parent named.
WalkSource(p) ==
  /\ At(p, "walk")
  /\ LET named == {e \in sync[p].dir.root : e.name = Head(sync[p].names) /\ IsDirectory(e)}
     IN  IF named = {} THEN Become(p, Failed) /\ UNCHANGED <<nodes, damaged>>
         ELSE LET e == CHOOSE x \in named : TRUE
                  n == [id |-> e.id, root |-> e.root]
              IN  IF Len(sync[p].names) > 1
                  THEN LoadCatalogNode(p, n, [sync[p] EXCEPT !.dir = n, !.names = Tail(@)])
                  ELSE IF PageMatches(n) THEN Keep(n) /\ Become(p, Fenced(sync[p], n))
                  ELSE Become(p, Failed) /\ UNCHANGED <<nodes, damaged>>
  /\ UNCHANGED <<publisherVars, headFile, lost, cursor, lock, faults>>

\* plan_tree: the directories of a level are loaded in any order.
LoadPending(p) ==
  /\ At(p, "tree")
  /\ \E q \in sync[p].pending :
       LET n == [id |-> q.id, root |-> q.root]
       IN  LoadCatalogNode(p, n, [sync[p] EXCEPT !.pending = (@ \ {q}) \cup Pending(q.path, n),
                                                 !.plan = @ \cup Planned(q.path, n)])
  /\ UNCHANGED <<publisherVars, headFile, lost, cursor, lock, faults>>

\* The plan is handed over without the final page.
FinalFenceSkipped(p) ==
  /\ At(p, "tree")
  /\ sync[p].pending = {}
  /\ Become(p, [sync[p] EXCEPT !.pc = "planned", !.at = MutationHead])
  /\ UNCHANGED <<publisherVars, storeVars, faults>>

\* The final page: same root, same revision.
FinalFence(p) ==
  /\ At(p, "tree")
  /\ sync[p].pending = {}
  /\ Become(p, IF PageMatches(sync[p].fence) /\ RevisionOf(sync[p].fence.id) = sync[p].fence.revision
               THEN [sync[p] EXCEPT !.pc = "planned", !.at = MutationHead]
               ELSE Failed)
  /\ UNCHANGED <<publisherVars, storeVars, faults>>

\* The plan is handed to the transfers, or the error to the caller.
Finish(p) ==
  /\ sync[p].pc \in {"planned", "failed"}
  /\ Become(p, Idle)
  /\ UNCHANGED <<publisherVars, storeVars, faults>>

-----------------------------------------------------------------------------
(* Faults of the local store and of the processes.                         *)

DamageNode(n) ==
  /\ faults < MaxFaults
  /\ faults' = faults + 1
  /\ damaged' = damaged \cup {n}
  /\ lost' = lost \cup {n}
  /\ UNCHANGED <<publisherVars, headFile, nodes, cursor, lock, sync>>

DamageHead ==
  /\ HeadReadable
  /\ faults < MaxFaults
  /\ faults' = faults + 1
  /\ headFile' = Garbled
  /\ UNCHANGED <<publisherVars, nodes, damaged, lost, cursor, lock, sync>>

\* A killed process leaves its files; the system drops its lock.
Die(p) ==
  /\ ~At(p, "idle")
  /\ faults < MaxFaults
  /\ faults' = faults + 1
  /\ lock' = IF lock = p THEN None ELSE lock
  /\ Become(p, Idle)
  /\ UNCHANGED <<publisherVars, headFile, nodes, damaged, lost, cursor>>

-----------------------------------------------------------------------------
Published == PublisherNext /\ UNCHANGED <<storeVars, sync, faults>>

SyncStep(p) ==
  \/ CheckpointCondition(p) \/ Deliver(p) \/ LoseResponse(p) \/ Receive(p)
  \/ AcquireHeadLock(p) \/ ChooseNodes(p) \/ PublishNode(p) \/ PublishHeadFile(p)
  \/ PruneOneShard(p) \/ ReleaseHeadLock(p) \/ DiscardHead(p)
  \/ ReadRoot(p) \/ WalkSource(p) \/ LoadPending(p) \/ FinalFence(p) \/ Finish(p) \/ Die(p)

ClientNext ==
  \/ Published
  \/ \E p \in Syncs : SyncStep(p)
  \/ DamageHead \/ \E n \in nodes \ damaged : DamageNode(n)

ClientSpec == ClientInit /\ [][ClientNext]_clientVars
-----------------------------------------------------------------------------
ClientTypeOK ==
  /\ head \in 0..MutationHead
  /\ DOMAIN bucket \subseteq 1..MutationHead
  /\ HeadReadable => headFile.revision \in 1..MutationHead
  /\ cursor \in 0..(Shards - 1)
  /\ lock \in Syncs \cup {None}
  /\ faults \in 0..MaxFaults
  /\ \A p \in Syncs : sync[p].bulk \in BOOLEAN /\ sync[p].at \in 0..MutationHead

\* The files below a directory of a tree, with their paths.
FilesBelow(tree, from) ==
  UNION {{[path |-> NamesOf(f), version |-> f[n].id] :
            f \in {g \in Ways(tree, from, n) : ~IsDirectory(g[n])}} : n \in 1..Cardinality(tree)}

\* The path leads from one directory of a tree to another.
LeadsTo(tree, from, path, d) ==
  \E f \in Ways(tree, from, Len(path)) :
    /\ path = NamesOf(f)
    /\ IF path = << >> THEN d = from ELSE IsDirectory(f[Len(path)]) /\ f[Len(path)].id = d

\* A plan assembled from cached nodes, deltas and live pages while the tree
\* changes is the whole subtree of one directory at one revision, and that
\* directory was the source when the walk began.
PlanIsSnapshot ==
  \A p \in Syncs : At(p, "planned") =>
    /\ sync[p].fence.id \in Directories(history[sync[p].at])
    /\ sync[p].plan = FilesBelow(history[sync[p].at], sync[p].fence.id)
    /\ LeadsTo(history[sync[p].from], Root, Source, sync[p].fence.id)

\* The receipt in the store speaks of nodes that are there: no publication,
\* pruning or crash leaves a head whose closure is incomplete.  Only damage
\* takes nodes from it.  With the types.
HeadClosure ==
  /\ ClientTypeOK
  /\ HeadReadable => NodesOf(headFile.dirs) \subseteq nodes \cup lost

\* A missing delta is no reason to fail: the checkpoint is always there.
DeltaNeverRequired == \A p \in Syncs : sync[p].response.kind # "error"
=============================================================================
