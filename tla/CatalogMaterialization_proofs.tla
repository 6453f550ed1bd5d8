--------------------- MODULE CatalogMaterialization_proofs ---------------------
(***************************************************************************)
(* Proofs about the materializer, for every number of overlapping runs,    *)
(* revisions and faults, every lease, grace and limit, and every set of    *)
(* trees whose Merkle roots tell them apart:                               *)
(*   - it implements CatalogPublisher, what the readers of the catalog     *)
(*     rely on;                                                            *)
(*   - the checkpoint of the published head is always in R2, complete and  *)
(*     of exactly that revision, and a delta stored for it takes the       *)
(*     checkpoint of its base to that one.                                 *)
(***************************************************************************)
EXTENDS CatalogMaterialization, TLAPS, SequenceTheorems

-----------------------------------------------------------------------------
(* The inductive invariant *)

Before == {"idle", "claim", "sweep checkpoint", "sweep delta", "drop checkpoint", "drop delta",
           "forget checkpoint", "forget delta"}
Early == Before \cup {"load", "unloadable", "previous"}
Held == Steps \ (Before \cup {"collapse", "retire"})
Bodied == {"record checkpoint", "store checkpoint", "stage checkpoint", "base"}
Deltaed == {"record delta", "store delta", "stage delta"}

\* The delta that takes the checkpoint of one revision to that of another.
DeltaOf(b, i) == BuildDelta(Checkpoint(b, history[b]), Checkpoint(i, history[i]))

\* What a run knows.  A checkpoint it will remove is neither published nor of
\* the latest revision, so it never becomes the published one; the object it
\* stored for the latest revision is still there; the body it assembled from
\* two SELECTs is the checkpoint of its revision.
RunInv(x) ==
  /\ x.pc \in Held => x.revision \in Revisions /\ x.owner > 0
  /\ x.pc = "entries" => x.seen \in Revisions
  /\ x.pc \in {"drop checkpoint", "drop delta", "forget checkpoint", "forget delta"} =>
       x.target.revision \in Revisions
  /\ x.pc = "drop checkpoint" => x.target.revision \notin {head, MutationHead}
  /\ x.pc = "stage checkpoint" /\ x.revision = MutationHead =>
       /\ objects.checkpoint[x.revision].there
       /\ objects.checkpoint[x.revision].version = x.version
  /\ x.pc \in Bodied => x.body = Checkpoint(x.revision, history[x.revision])
  /\ x.pc \in Early => x.previous = NoReceipt
  /\ x.pc = "base" => x.previous # NoReceipt
  /\ x.previous # NoReceipt =>
       x.revision \in Revisions /\ x.previous.revision \in 1..(x.revision - 1)
  /\ x.pc \in Deltaed => x.delta # NoDelta
  /\ x.delta # NoDelta =>
       /\ x.previous # NoReceipt /\ x.delta.base = x.previous.revision
       /\ x.delta.version <= objects.delta[x.revision].version
       /\ x.delta.body = DeltaOf(x.delta.base, x.revision)

\* The checkpoint of the latest revision stays from the moment it is staged.
CheckpointInv ==
  /\ head # 0 => head \in published
  /\ \A i \in Revisions : rows.checkpoint[i].state = "orphaned" => i # MutationHead
  /\ rows.checkpoint[MutationHead].state = "staged" =>
       /\ objects.checkpoint[MutationHead].there
       /\ objects.checkpoint[MutationHead].version = rows.checkpoint[MutationHead].version
  /\ CheckpointDeliverable
  /\ \A i \in Revisions : objects.checkpoint[i].there =>
       objects.checkpoint[i].body = Checkpoint(i, history[i])

\* R2 gives no version twice, so an object that comes back is not the one a
\* row was staged or published with.
DeltaInv ==
  \A i \in Revisions :
    /\ rows.delta[i].state = "published" => i \in published
    /\ rows.delta[i].version <= objects.delta[i].version
    /\ rows.delta[i].state # "none" => rows.delta[i].base \in 1..(i - 1)
    /\ objects.delta[i].there =>
         \E b \in 1..(i - 1) : /\ objects.delta[i].body = DeltaOf(b, i)
                               /\ objects.delta[i].body.baseRevision = b

\* Somebody took revision b as the base of revision i.
BaseClaim(i, b) ==
  \/ \E r \in Runs : /\ run[r].previous # NoReceipt
                     /\ run[r].revision = i /\ run[r].previous.revision = b
  \/ rows.delta[i].state # "none" /\ rows.delta[i].base = b
  \/ objects.delta[i].there /\ objects.delta[i].body.baseRevision = b

\* The base of a revision is the head before it: all who took one took the same.
BaseInv ==
  /\ \A i, b \in Revisions : BaseClaim(i, b) => b = head \/ head >= i
  /\ \A i, b, c \in Revisions : BaseClaim(i, b) /\ BaseClaim(i, c) => b = c

OutboxInv == \A i \in Revisions : outbox[i].state = "claimed" => outbox[i].attempts > 0

IInv ==
  /\ TypeOK /\ OutboxInv /\ (\A r \in Runs : RunInv(run[r]))
  /\ CheckpointInv /\ DeltaInv /\ BaseInv

-----------------------------------------------------------------------------
(* Records and tables *)

RunFields == {"pc", "revision", "owner", "age", "previous", "seen", "body", "version", "delta",
              "target"}
DeltaFields == {"base", "version", "body"}
ObjectFields == {"there", "version", "body"}

RowSet == [state : {"none", "writing", "staged", "published", "orphaned"},
           base : Nat, version : Nat, age : Nat]
JobSet == [state : {"pending", "claimed", "done"}, owner : Nat, attempts : Nat,
           lease : Int, retry : Int]

RunTyped(x) ==
  /\ DOMAIN x = RunFields
  /\ x.pc \in Steps /\ x.revision \in 0..Len(history) /\ x.owner \in Nat
  /\ x.age \in Nat /\ x.version \in Nat /\ x.seen \in 0..Len(history)
  /\ x.previous \in [revision : 0..Len(history), version : Nat]
  /\ DOMAIN x.delta = DeltaFields /\ x.delta.base \in Nat /\ x.delta.version \in Nat
  /\ x.target \in [revision : 0..Len(history), state : {"none", "writing", "orphaned"}]

ObjectTyped(o) == DOMAIN o = ObjectFields /\ o.there \in BOOLEAN /\ o.version \in Nat

\* The types, by variable.
HistoryOK ==
  /\ history \in Seq(Trees) /\ Len(history) \in 1..MaxRevision
  /\ head \in 0..Len(history) /\ published \subseteq Revisions /\ collapsed \subseteq Revisions
OutboxOK == outbox \in [Revisions -> JobSet] /\ OutboxInv
RowsOK == rows \in [Kinds -> [Revisions -> RowSet]]
ObjectsOK ==
  /\ objects = [k \in Kinds |-> [i \in Revisions |-> objects[k][i]]]
  /\ DOMAIN objects = Kinds
  /\ \A k \in Kinds : /\ DOMAIN objects[k] = Revisions
                      /\ \A i \in Revisions : ObjectTyped(objects[k][i])
RunsOK == DOMAIN run = Runs /\ \A r \in Runs : RunTyped(run[r])

LEMMA IdleFields == DOMAIN Idle = RunFields
BY DEF Idle, RunFields

LEMMA SplitTypes ==
  TypeOK /\ OutboxInv <=>
    /\ HistoryOK /\ OutboxOK /\ RowsOK /\ ObjectsOK /\ RunsOK
    /\ due \in BOOLEAN /\ faults \in 0..MaxFaults
BY IdleFields, SMTT(30)
   DEF TypeOK, HistoryOK, OutboxOK, RowsOK, ObjectsOK, RunsOK, RunTyped, ObjectTyped,
       RowSet, JobSet, DeltaFields, ObjectFields

LEMMA JoinTypes ==
  /\ HistoryOK' /\ OutboxOK' /\ RowsOK' /\ ObjectsOK' /\ RunsOK'
  /\ due' \in BOOLEAN /\ faults' \in 0..MaxFaults
  => TypeOK' /\ OutboxInv'
BY IdleFields, SMTT(30)
   DEF TypeOK, HistoryOK, OutboxOK, RowsOK, ObjectsOK, RunsOK, RunTyped, ObjectTyped,
       RowSet, JobSet, DeltaFields, ObjectFields

LEMMA Constants ==
  /\ MaxRevision \in Nat /\ Claim \in Nat /\ Grace \in Nat /\ Limit \in Nat
  /\ RetryBase \in Nat /\ RetryCap \in Nat /\ MaxFaults \in Nat /\ Past \in Int
  /\ FirstTree \in Trees /\ MaxRevision > 0
BY MaterializationAssumption DEF Past

LEMMA KindsAre == Kinds = {"checkpoint", "delta"}
BY DEF Kinds

LEMMA StepsOf ==
  /\ Sweeping["checkpoint"] = "sweep checkpoint" /\ Sweeping["delta"] = "sweep delta"
  /\ Dropping["checkpoint"] = "drop checkpoint" /\ Dropping["delta"] = "drop delta"
  /\ Forgetting["checkpoint"] = "forget checkpoint" /\ Forgetting["delta"] = "forget delta"
  /\ Recording["checkpoint"] = "record checkpoint" /\ Recording["delta"] = "record delta"
  /\ Storing["checkpoint"] = "store checkpoint" /\ Storing["delta"] = "store delta"
  /\ Staging["checkpoint"] = "stage checkpoint" /\ Staging["delta"] = "stage delta"
BY DEF Sweeping, Dropping, Forgetting, Recording, Storing, Staging

LEMMA Numbered ==
  ASSUME HistoryOK
  PROVE  /\ Len(history) \in Nat /\ Len(history) > 0 /\ MutationHead = Len(history)
         /\ Revisions = 1..Len(history) /\ MutationHead \in Revisions /\ Revisions \subseteq Nat
         /\ head # 0 => head \in Revisions
BY Constants DEF HistoryOK, MutationHead, Revisions

LEMMA EmptyTyped ==
  /\ NoRow \in RowSet /\ NoRow.state = "none" /\ NoRow.version = 0
  /\ ObjectTyped(NoObject) /\ NoObject.there = FALSE /\ NoObject.version = 0
  /\ Queued \in JobSet /\ Queued.state = "pending"
BY Constants DEF NoRow, RowSet, NoObject, ObjectTyped, ObjectFields, Queued, JobSet

LEMMA IdleTyped ==
  ASSUME HistoryOK
  PROVE  /\ RunTyped(Idle) /\ Idle.pc = "idle" /\ Idle.previous = NoReceipt
         /\ Idle.delta = NoDelta /\ RunInv(Idle)
<1>1. /\ Idle.pc = "idle" /\ Idle.previous = NoReceipt /\ Idle.delta = NoDelta
      /\ Idle.revision = 0 /\ Idle.owner = 0 /\ Idle.age = 0 /\ Idle.version = 0 /\ Idle.seen = 0
      /\ Idle.target = [revision |-> 0, state |-> "none"]
  BY DEF Idle
<1>2. /\ NoReceipt \in [revision : 0..Len(history), version : Nat]
      /\ Idle.target \in [revision : 0..Len(history), state : {"none", "writing", "orphaned"}]
  BY <1>1, Numbered DEF NoReceipt
<1>3. DOMAIN NoDelta = DeltaFields /\ NoDelta.base = 0 /\ NoDelta.version = 0
  BY DEF NoDelta, DeltaFields
<1>4. RunTyped(Idle)
  BY <1>1, <1>2, <1>3, IdleFields, Numbered DEF RunTyped, Steps
<1>5. RunInv(Idle)
  BY <1>1 DEF RunInv, Held, Early, Before, Bodied, Deltaed
<1> QED BY <1>1, <1>4, <1>5

LEMMA IdleTypedNext ==
  ASSUME HistoryOK'
  PROVE  RunTyped(Idle)' /\ RunInv(Idle)'
<1>0. Len(history') \in Nat
  BY Constants DEF HistoryOK
<1>1. /\ Idle.pc = "idle" /\ Idle.previous = NoReceipt /\ Idle.delta = NoDelta
      /\ Idle.revision = 0 /\ Idle.owner = 0 /\ Idle.age = 0 /\ Idle.version = 0 /\ Idle.seen = 0
      /\ Idle.target = [revision |-> 0, state |-> "none"]
  BY DEF Idle
<1>2. /\ NoReceipt \in [revision : 0..Len(history'), version : Nat]
      /\ Idle.target \in [revision : 0..Len(history'), state : {"none", "writing", "orphaned"}]
  BY <1>0, <1>1 DEF NoReceipt
<1>3. DOMAIN NoDelta = DeltaFields /\ NoDelta.base = 0 /\ NoDelta.version = 0
  BY DEF NoDelta, DeltaFields
<1>4. RunTyped(Idle)'
  BY <1>0, <1>1, <1>2, <1>3, IdleFields DEF RunTyped, Steps
<1>5. RunInv(Idle)'
  BY <1>1 DEF RunInv, Held, Early, Before, Bodied, Deltaed
<1> QED BY <1>4, <1>5

-----------------------------------------------------------------------------
(* Two SELECTs *)

\* A mixture that passes validation is the checkpoint of the revision: the
\* roots of its directories add up to the root the revision committed, and the
\* entries are those the roots commit to.
LEMMA ValidMixture ==
  ASSUME NEW i, NEW t \in Trees, NEW u \in Trees, NEW entries,
         ValidCheckpoint(Assemble(i, DataRoots(t)[Root], DirectoryRows(u), entries))
  PROVE  Assemble(i, DataRoots(t)[Root], DirectoryRows(u), entries) = Checkpoint(i, t)
<1> DEFINE body == Assemble(i, DataRoots(t)[Root], DirectoryRows(u), entries)
           table == DirectoryRows(u)
           of(d) == IF d \in DOMAIN entries THEN entries[d] ELSE {}
<1>1. /\ body.root = Root /\ body.dataRoot = DataRoots(t)[Root]
      /\ body.dirs = [d \in DOMAIN table |-> [parent |-> table[d].parent, name |-> table[d].name,
                                              dataRoot |-> table[d].dataRoot, entries |-> of(d)]]
  BY DEF Assemble
<1>2. /\ DOMAIN table = Directories(u) /\ Root \in Directories(u)
      /\ \A d \in Directories(u) : table[d].dataRoot = DataRoots(u)[d]
  BY DEF DirectoryRows, Directories
<1>3. /\ \A d \in DOMAIN body.dirs : body.dirs[d].entries = body.dirs[d].dataRoot
      /\ body.dirs[body.root].dataRoot = body.dataRoot
  BY DEF ValidCheckpoint, ValidDirectory
<1>4. DataRoots(u)[Root] = DataRoots(t)[Root]
  BY <1>1, <1>2, <1>3
<1>5. u = t
  BY <1>4, TreesAssumption
<1>6. ASSUME NEW d \in DOMAIN table PROVE of(d) = table[d].dataRoot
  <2> HIDE DEF of, table, body
  <2>1. d \in DOMAIN body.dirs
    BY <1>1
  <2>2. PICK x : x = [parent |-> table[d].parent, name |-> table[d].name,
                      dataRoot |-> table[d].dataRoot, entries |-> of(d)]
    OBVIOUS
  <2>3. x.entries = of(d) /\ x.dataRoot = table[d].dataRoot
    BY <2>2
  <2>4. body.dirs[d] = x
    BY <1>1, <2>2
  <2> QED BY <1>3, <2>1, <2>3, <2>4
<1>7. ASSUME NEW d \in DOMAIN table
      PROVE  of(d) = IF d \in DOMAIN EntryRows(t) THEN EntryRows(t)[d] ELSE {}
  <2>1. DOMAIN EntryRows(t) = Directories(t)
    BY TreesAssumption DEF EntryRows
  <2>2. EntryRows(t)[d] = DataRoots(t)[d]
    BY DEF EntryRows
  <2> HIDE DEF of, table
  <2> QED BY <1>2, <1>5, <1>6, <2>1, <2>2
<1>8. body = Assemble(i, DataRoots(t)[Root], table, EntryRows(t))
  <2> HIDE DEF of, table
  <2>1. body = [revision |-> i, root |-> Root, dataRoot |-> DataRoots(t)[Root],
                dirs |-> [d \in DOMAIN table |->
                            [parent |-> table[d].parent, name |-> table[d].name,
                             dataRoot |-> table[d].dataRoot, entries |-> of(d)]]]
    BY DEF Assemble, of, table
  <2>2. Assemble(i, DataRoots(t)[Root], table, EntryRows(t)) =
          [revision |-> i, root |-> Root, dataRoot |-> DataRoots(t)[Root],
           dirs |-> [d \in DOMAIN table |->
                       [parent |-> table[d].parent, name |-> table[d].name,
                        dataRoot |-> table[d].dataRoot,
                        entries |-> IF d \in DOMAIN EntryRows(t) THEN EntryRows(t)[d] ELSE {}]]]
    BY DEF Assemble
  <2> HIDE DEF body
  <2> QED BY <1>7, <2>1, <2>2
<1> QED BY <1>5, <1>8 DEF Checkpoint

-----------------------------------------------------------------------------
(* Deltas *)

\* The fields of a checkpoint and of a directory in it.
Shaped(cp) ==
  /\ cp = [revision |-> cp.revision, root |-> Root, dataRoot |-> cp.dataRoot, dirs |-> cp.dirs]
  /\ cp.dirs = [d \in DOMAIN cp.dirs |-> [parent |-> cp.dirs[d].parent, name |-> cp.dirs[d].name,
                   dataRoot |-> cp.dirs[d].dataRoot, entries |-> cp.dirs[d].entries]]

\* A set that holds the start and what lies below its members holds all that
\* is reached.
LEMMA ReachedIn ==
  ASSUME NEW dirs, NEW from, NEW S, from \in S,
         \A d \in S \cap DOMAIN dirs : Children(dirs, d) \subseteq S
  PROVE  Reached(dirs, from) \subseteq S
<1> DEFINE below == [d \in DOMAIN dirs |-> Children(dirs, d)]
           near == {from} \cup DOMAIN dirs \cup UNION {below[d] : d \in DOMAIN dirs}
           Closed(T) == \A d \in T \cap DOMAIN dirs : below[d] \subseteq T
<1>1. SUFFICES ASSUME NEW x \in Reached(dirs, from), x \notin S PROVE FALSE
  OBVIOUS
<1>2. x \in near /\ \A T \in SUBSET (near \ {x}) : from \in T => ~Closed(T)
  BY DEF Reached
<1>3. \A d \in DOMAIN dirs : below[d] = Children(dirs, d) /\ below[d] \subseteq near
  OBVIOUS
<1>4. from \in near
  OBVIOUS
<1> HIDE DEF below, near
<1>5. S \cap near \in SUBSET (near \ {x}) /\ from \in S \cap near
  BY <1>1, <1>4
<1>6. Closed(S \cap near)
  BY <1>3
<1> QED BY <1>2, <1>5, <1>6

\* The walk of a checkpoint reaches its directories: a set of them that holds
\* the root and what lies below its members is all of them.
LEMMA ReachedAll ==
  ASSUME NEW dirs, NEW from, Reached(dirs, from) = DOMAIN dirs,
         NEW S \in SUBSET DOMAIN dirs, from \in S,
         \A d \in S : Children(dirs, d) \subseteq S
  PROVE  S = DOMAIN dirs
BY ReachedIn

\* Conversely.
LEMMA ReachedIs ==
  ASSUME NEW dirs, NEW from, NEW V \in SUBSET DOMAIN dirs, from \in V,
         \A d \in V : Children(dirs, d) \subseteq V,
         \A S \in SUBSET V :
           (from \in S /\ \A d \in S : Children(dirs, d) \subseteq S) => S = V
  PROVE  Reached(dirs, from) = V
<1> DEFINE below == [d \in DOMAIN dirs |-> Children(dirs, d)]
           near == {from} \cup DOMAIN dirs \cup UNION {below[d] : d \in DOMAIN dirs}
           Closed(T) == \A d \in T \cap DOMAIN dirs : below[d] \subseteq T
<1>1. Reached(dirs, from) \subseteq V
  BY ReachedIn
<1>2. ASSUME NEW x \in V PROVE x \in Reached(dirs, from)
  <2>1. V \subseteq near
    OBVIOUS
  <2>2. \A d \in DOMAIN dirs : below[d] = Children(dirs, d)
    OBVIOUS
  <2>3. ASSUME NEW T \in SUBSET (near \ {x}), from \in T, Closed(T) PROVE FALSE
    <3> HIDE DEF below, near
    <3>1. T \cap V \in SUBSET V /\ from \in T \cap V
      BY <2>3
    <3>2. \A d \in T \cap V : Children(dirs, d) \subseteq T \cap V
      BY <2>2, <2>3
    <3>3. T \cap V = V
      BY <3>1, <3>2
    <3> QED BY <1>2, <3>3
  <2>4. x \in near
    BY <2>1
  <2> QED BY <2>3, <2>4 DEF Reached
<1> QED BY <1>1, <1>2

LEMMA DeltaFieldsAre ==
  ASSUME NEW base, NEW target, NEW delta, delta = BuildDelta(base, target)
  PROVE  /\ delta.baseRevision = base.revision /\ delta.baseRoot = base.root
         /\ delta.baseDataRoot = base.dataRoot /\ delta.baseSha = base
         /\ delta.revision = target.revision /\ delta.root = target.root
         /\ delta.dataRoot = target.dataRoot /\ delta.sha = target
         /\ DOMAIN delta.dirs = {x \in DOMAIN target.dirs :
                                   Address(target.dirs, x) \notin Addresses(base.dirs)}
         /\ \A d \in DOMAIN delta.dirs : delta.dirs[d] = target.dirs[d]
BY DEF BuildDelta

\* What the overlay has of the target: all its directories, each with the
\* target's root and entries, the reused nodes of the base among them.
LEMMA OverlayHolds ==
  ASSUME NEW base, NEW target, ValidCheckpoint(base), ValidCheckpoint(target)
  PROVE  LET nodes == Overlay(base, BuildDelta(base, target)) IN
         /\ DOMAIN target.dirs \subseteq DOMAIN nodes
         /\ \A d \in DOMAIN target.dirs :
              /\ nodes[d].dataRoot = target.dirs[d].dataRoot
              /\ nodes[d].entries = target.dirs[d].entries
              /\ nodes[d] = target.dirs[d] \/ (d \in DOMAIN base.dirs /\ nodes[d] = base.dirs[d])
<1>1. PICK delta : delta = BuildDelta(base, target)
  OBVIOUS
<1>2. PICK nodes : nodes = Overlay(base, delta)
  OBVIOUS
<1>3. /\ DOMAIN delta.dirs = {x \in DOMAIN target.dirs :
                                Address(target.dirs, x) \notin Addresses(base.dirs)}
      /\ \A d \in DOMAIN delta.dirs : delta.dirs[d] = target.dirs[d]
  BY <1>1, DeltaFieldsAre
<1>4. /\ DOMAIN nodes = DOMAIN base.dirs \cup DOMAIN delta.dirs
      /\ \A d \in DOMAIN delta.dirs : nodes[d] = delta.dirs[d]
      /\ \A d \in DOMAIN base.dirs \ DOMAIN delta.dirs : nodes[d] = base.dirs[d]
  BY <1>2 DEF Overlay
<1>5. ASSUME NEW d \in DOMAIN target.dirs
      PROVE  /\ d \in DOMAIN nodes
             /\ nodes[d].dataRoot = target.dirs[d].dataRoot
             /\ nodes[d].entries = target.dirs[d].entries
             /\ nodes[d] = target.dirs[d] \/ (d \in DOMAIN base.dirs /\ nodes[d] = base.dirs[d])
  <2>1. CASE d \in DOMAIN delta.dirs
    BY <1>3, <1>4, <2>1
  <2>2. CASE d \notin DOMAIN delta.dirs
    <3>1. <<d, target.dirs[d].dataRoot>> \in Addresses(base.dirs)
      BY <1>3, <2>2 DEF Address
    <3>2. PICK y \in DOMAIN base.dirs : <<d, target.dirs[d].dataRoot>> = <<y, base.dirs[y].dataRoot>>
      BY <3>1 DEF Addresses, Address
    <3>3. d \in DOMAIN base.dirs /\ base.dirs[d].dataRoot = target.dirs[d].dataRoot
      BY <3>2
    <3>4. nodes[d] = base.dirs[d]
      BY <1>4, <2>2, <3>3
    <3>5. base.dirs[d].entries = base.dirs[d].dataRoot
      BY <3>3 DEF ValidCheckpoint, ValidDirectory
    <3>6. target.dirs[d].entries = target.dirs[d].dataRoot
      BY DEF ValidCheckpoint, ValidDirectory
    <3> QED BY <1>4, <3>3, <3>4, <3>5, <3>6
  <2> QED BY <2>1, <2>2
<1> QED BY <1>1, <1>2, <1>5

LEMMA ValidIs ==
  ASSUME NEW cp, ValidCheckpoint(cp)
  PROVE  /\ cp.root \in DOMAIN cp.dirs
         /\ cp.dirs[cp.root].parent = None /\ cp.dirs[cp.root].name = ""
         /\ cp.dirs[cp.root].dataRoot = cp.dataRoot
         /\ \A d \in DOMAIN cp.dirs : \A e \in cp.dirs[d].entries :
              IsDirectory(e) => e.id \in DOMAIN cp.dirs
         /\ Reached(cp.dirs, cp.root) = DOMAIN cp.dirs
BY DEF ValidCheckpoint

LEMMA ValidEdge ==
  ASSUME NEW cp, ValidCheckpoint(cp), NEW d \in DOMAIN cp.dirs, NEW e \in cp.dirs[d].entries,
         IsDirectory(e)
  PROVE  /\ e.id \in DOMAIN cp.dirs /\ cp.dirs[e.id].parent = d
         /\ cp.dirs[e.id].name = e.name /\ cp.dirs[e.id].dataRoot = e.root
BY DEF ValidCheckpoint

\* The walk of the overlay meets the directories of the target and no other.
LEMMA OverlayReached ==
  ASSUME NEW base, NEW target, ValidCheckpoint(base), ValidCheckpoint(target)
  PROVE  Reached(Overlay(base, BuildDelta(base, target)), target.root) = DOMAIN target.dirs
<1>1. PICK nodes : nodes = Overlay(base, BuildDelta(base, target))
  OBVIOUS
<1>2. /\ DOMAIN target.dirs \subseteq DOMAIN nodes
      /\ \A d \in DOMAIN target.dirs : nodes[d].entries = target.dirs[d].entries
  BY <1>1, OverlayHolds
<1>3. \A d \in DOMAIN target.dirs : Children(nodes, d) = Children(target.dirs, d)
  BY <1>2 DEF Children
<1>4. target.root \in DOMAIN target.dirs /\ Reached(target.dirs, target.root) = DOMAIN target.dirs
  BY ValidIs
<1>5. \A d \in DOMAIN target.dirs : Children(nodes, d) \subseteq DOMAIN target.dirs
  <2>1. \A d \in DOMAIN target.dirs : \A e \in target.dirs[d].entries :
           IsDirectory(e) => e.id \in DOMAIN target.dirs
    BY ValidIs
  <2>2. \A d \in DOMAIN target.dirs : Children(target.dirs, d) \subseteq DOMAIN target.dirs
    BY <2>1 DEF Children
  <2> QED BY <1>3, <2>2
<1>6. ASSUME NEW S \in SUBSET DOMAIN target.dirs, target.root \in S,
             \A d \in S : Children(nodes, d) \subseteq S
      PROVE  S = DOMAIN target.dirs
  <2>1. \A d \in S : Children(target.dirs, d) \subseteq S
    BY <1>3, <1>6
  <2> QED BY <1>4, <1>6, <2>1, ReachedAll
<1>7. Reached(nodes, target.root) = DOMAIN target.dirs
  BY <1>2, <1>4, <1>5, <1>6, ReachedIs
<1> QED BY <1>1, <1>7

\* Every directory of a checkpoint but the root is below another.
LEMMA HasEdge ==
  ASSUME NEW cp, ValidCheckpoint(cp), NEW d \in DOMAIN cp.dirs, d # cp.root
  PROVE  \E p \in DOMAIN cp.dirs : \E e \in cp.dirs[p].entries : IsDirectory(e) /\ e.id = d
<1> SUFFICES ASSUME \A p \in DOMAIN cp.dirs : \A e \in cp.dirs[p].entries :
                      IsDirectory(e) => e.id # d
             PROVE  FALSE
  OBVIOUS
<1>1. PICK S : S = DOMAIN cp.dirs \ {d}
  OBVIOUS
<1>2. cp.root \in S /\ S \in SUBSET DOMAIN cp.dirs
  BY <1>1, ValidIs
<1>3. \A p \in S : Children(cp.dirs, p) \subseteq S
  <2>1. \A p \in DOMAIN cp.dirs : \A e \in cp.dirs[p].entries :
           IsDirectory(e) => e.id \in DOMAIN cp.dirs
    BY ValidIs
  <2> QED BY <1>1, <2>1 DEF Children
<1>4. S = DOMAIN cp.dirs
  BY <1>2, <1>3, ReachedAll, ValidIs
<1> QED BY <1>1, <1>4

\* A node under another parent and name.
LEMMA Renamed ==
  ASSUME NEW x, NEW y,
         x = [parent |-> x.parent, name |-> x.name, dataRoot |-> x.dataRoot, entries |-> x.entries],
         y = [parent |-> y.parent, name |-> y.name, dataRoot |-> y.dataRoot, entries |-> y.entries],
         y.dataRoot = x.dataRoot, y.entries = x.entries
  PROVE  [y EXCEPT !.parent = x.parent, !.name = x.name] = x
<1>1. PICK z : z = [y EXCEPT !.parent = x.parent, !.name = x.name]
  OBVIOUS
<1>2. DOMAIN y = {"parent", "name", "dataRoot", "entries"} /\ DOMAIN x = DOMAIN y
  OBVIOUS
<1>3. z = [f \in DOMAIN x |-> z[f]]
  BY <1>1, <1>2
<1>4. x = [f \in DOMAIN x |-> x[f]]
  OBVIOUS
<1>5. \A f \in DOMAIN x : z[f] = x[f]
  BY <1>1, <1>2
<1> QED BY <1>1, <1>3, <1>4, <1>5

\* What follows from the overlay is the target: the reused nodes of the base
\* get the parents and the names of the target.
LEMMA RebuiltIs ==
  ASSUME NEW base, NEW target, ValidCheckpoint(base), ValidCheckpoint(target),
         Shaped(base), Shaped(target)
  PROVE  Rebuilt(base, BuildDelta(base, target)) = target
<1>1. PICK delta : delta = BuildDelta(base, target)
  OBVIOUS
<1>2. PICK nodes : nodes = Overlay(base, delta)
  OBVIOUS
<1>3. /\ delta.root = target.root /\ delta.revision = target.revision
      /\ delta.dataRoot = target.dataRoot
  BY <1>1, DeltaFieldsAre
<1>4. PICK visited : visited = Reached(nodes, delta.root)
  OBVIOUS
<1>5. visited = DOMAIN target.dirs
  BY <1>1, <1>2, <1>3, <1>4, OverlayReached
<1>6. \A d \in DOMAIN target.dirs :
        /\ nodes[d].dataRoot = target.dirs[d].dataRoot
        /\ nodes[d].entries = target.dirs[d].entries
        /\ nodes[d] = target.dirs[d] \/ (d \in DOMAIN base.dirs /\ nodes[d] = base.dirs[d])
  BY <1>1, <1>2, OverlayHolds
<1> DEFINE Edge(d) == CHOOSE x \in visited \X UNION {nodes[y].entries : y \in visited} :
                        x[2] \in nodes[x[1]].entries /\ IsDirectory(x[2]) /\ x[2].id = d
           Node(d) == IF d = delta.root
                      THEN [nodes[d] EXCEPT !.parent = None, !.name = ""]
                      ELSE [nodes[d] EXCEPT !.parent = Edge(d)[1], !.name = Edge(d)[2].name]
<1>7. Rebuilt(base, delta) = [revision |-> delta.revision, root |-> delta.root,
                              dataRoot |-> delta.dataRoot, dirs |-> [d \in visited |-> Node(d)]]
  BY <1>2, <1>4 DEF Rebuilt
<1>8. ASSUME NEW d \in visited, d # target.root
      PROVE  Edge(d)[1] = target.dirs[d].parent /\ Edge(d)[2].name = target.dirs[d].name
  <2>1. PICK p \in DOMAIN target.dirs : \E e \in target.dirs[p].entries : IsDirectory(e) /\ e.id = d
    BY <1>5, <1>8, HasEdge
  <2>2. PICK e \in target.dirs[p].entries : IsDirectory(e) /\ e.id = d
    BY <2>1
  <2>3. p \in visited /\ e \in nodes[p].entries
    BY <1>5, <1>6, <2>1, <2>2
  <2>4. <<p, e>> \in visited \X UNION {nodes[y].entries : y \in visited}
    BY <2>3
  <2>5. PICK x : x = Edge(d)
    OBVIOUS
  <2>6. /\ x \in visited \X UNION {nodes[y].entries : y \in visited}
        /\ x[2] \in nodes[x[1]].entries /\ IsDirectory(x[2]) /\ x[2].id = d
    <3>1. <<p, e>>[1] = p /\ <<p, e>>[2] = e
      OBVIOUS
    <3>2. \E y \in visited \X UNION {nodes[y].entries : y \in visited} :
             y[2] \in nodes[y[1]].entries /\ IsDirectory(y[2]) /\ y[2].id = d
      BY <2>2, <2>3, <2>4, <3>1
    <3> QED BY <2>5, <3>2
  <2>7. x[1] \in DOMAIN target.dirs /\ x[2] \in target.dirs[x[1]].entries
    BY <1>5, <1>6, <2>6
  <2>8. target.dirs[d].parent = x[1] /\ target.dirs[d].name = x[2].name
    <3>1. target.dirs[x[2].id].parent = x[1] /\ target.dirs[x[2].id].name = x[2].name
      BY <2>6, <2>7, ValidEdge
    <3> HIDE DEF Edge
    <3> QED BY <2>6, <3>1
  <2> HIDE DEF Edge
  <2> QED BY <2>5, <2>8
<1>9. target.dirs[target.root].parent = None /\ target.dirs[target.root].name = ""
  BY ValidIs
<1>10. ASSUME NEW d \in visited PROVE Node(d) = target.dirs[d]
  <2> HIDE DEF Edge
  <2>1. PICK x : x = target.dirs[d]
    OBVIOUS
  <2>2. x = [parent |-> x.parent, name |-> x.name, dataRoot |-> x.dataRoot, entries |-> x.entries]
    BY <1>5, <2>1 DEF Shaped
  <2>3. PICK y : y = nodes[d]
    OBVIOUS
  <2>4. y = [parent |-> y.parent, name |-> y.name, dataRoot |-> y.dataRoot, entries |-> y.entries]
    <3>1. CASE y = target.dirs[d]
      BY <2>1, <2>2, <3>1
    <3>2. CASE d \in DOMAIN base.dirs /\ y = base.dirs[d]
      BY <3>2 DEF Shaped
    <3> QED BY <1>5, <1>6, <2>3, <3>1, <3>2
  <2>5. y.dataRoot = x.dataRoot /\ y.entries = x.entries
    BY <1>5, <1>6, <2>1, <2>3
  <2>6. [y EXCEPT !.parent = x.parent, !.name = x.name] = x
    BY <2>2, <2>4, <2>5, Renamed
  <2>7. CASE d = target.root
    <3>1. x.parent = None /\ x.name = ""
      BY <1>9, <2>1, <2>7
    <3>2. Node(d) = [y EXCEPT !.parent = None, !.name = ""]
      BY <1>3, <2>3, <2>7
    <3> HIDE DEF Node
    <3> QED BY <2>1, <2>6, <3>1, <3>2
  <2>8. CASE d # target.root
    <3>1. Edge(d)[1] = x.parent /\ Edge(d)[2].name = x.name
      BY <1>8, <2>1, <2>8
    <3>2. Node(d) = [y EXCEPT !.parent = x.parent, !.name = x.name]
      BY <1>3, <2>3, <2>8, <3>1
    <3> HIDE DEF Node
    <3> QED BY <2>1, <2>6, <3>2
  <2> QED BY <2>7, <2>8
<1>11. [d \in visited |-> Node(d)] = target.dirs
  <2>1. [d \in visited |-> Node(d)] = [d \in visited |-> target.dirs[d]]
    <3> HIDE DEF Node
    <3> QED BY <1>10
  <2>2. PICK f : f = target.dirs
    OBVIOUS
  <2>3. f = [d \in DOMAIN f |-> [parent |-> f[d].parent, name |-> f[d].name,
                                 dataRoot |-> f[d].dataRoot, entries |-> f[d].entries]]
    BY <2>2 DEF Shaped
  <2>4. f = [d \in DOMAIN f |-> f[d]]
    BY <2>3
  <2> QED BY <1>5, <2>1, <2>2, <2>4
<1>12. target.root = Root
  BY DEF Shaped
<1>13. target = [revision |-> target.revision, root |-> target.root,
                 dataRoot |-> target.dataRoot, dirs |-> target.dirs]
  BY <1>12 DEF Shaped
<1> HIDE DEF Node
<1> QED BY <1>1, <1>3, <1>7, <1>11, <1>13

\* The delta of two checkpoints that is well formed applies to the first and
\* gives the second.
LEMMA DeltaApplies ==
  ASSUME NEW base, NEW target, ValidCheckpoint(base), ValidCheckpoint(target),
         Shaped(base), Shaped(target), ValidDelta(BuildDelta(base, target))
  PROVE  /\ AppliesTo(base, base, BuildDelta(base, target))
         /\ Rebuilt(base, BuildDelta(base, target)) = target
<1>1. PICK delta : delta = BuildDelta(base, target)
  OBVIOUS
<1>2. PICK nodes : nodes = Overlay(base, delta)
  OBVIOUS
<1>3. PICK visited : visited = Reached(nodes, delta.root)
  OBVIOUS
<1>4. /\ delta.baseRevision = base.revision /\ delta.baseRoot = base.root
      /\ delta.baseDataRoot = base.dataRoot /\ delta.baseSha = base
      /\ delta.root = target.root /\ delta.dataRoot = target.dataRoot /\ delta.sha = target
      /\ DOMAIN delta.dirs \subseteq DOMAIN target.dirs
  BY <1>1, DeltaFieldsAre
<1>5. visited = DOMAIN target.dirs
  BY <1>1, <1>2, <1>3, <1>4, OverlayReached
<1>6. /\ DOMAIN target.dirs \subseteq DOMAIN nodes
      /\ \A d \in DOMAIN target.dirs :
           nodes[d].dataRoot = target.dirs[d].dataRoot /\ nodes[d].entries = target.dirs[d].entries
  BY <1>1, <1>2, OverlayHolds
<1>7. Rebuilt(base, delta) = target
  BY <1>1, RebuiltIs
<1>8. delta.root \in DOMAIN nodes /\ nodes[delta.root].dataRoot = delta.dataRoot
  <2>1. target.root \in DOMAIN target.dirs /\ target.dirs[target.root].dataRoot = target.dataRoot
    BY ValidIs
  <2> QED BY <1>4, <1>6, <2>1
<1>9. \A d \in visited : \A e \in nodes[d].entries : IsDirectory(e) => nodes[e.id].dataRoot = e.root
  <2>1. ASSUME NEW d \in DOMAIN target.dirs, NEW e \in target.dirs[d].entries, IsDirectory(e)
        PROVE  e.id \in DOMAIN target.dirs /\ target.dirs[e.id].dataRoot = e.root
    BY <2>1, ValidEdge
  <2> QED BY <1>5, <1>6, <2>1
<1>10. ValidDelta(delta)
  BY <1>1
<1>11. AppliesTo(base, base, delta)
  <2>1. /\ visited \subseteq DOMAIN nodes /\ DOMAIN delta.dirs \subseteq visited
        /\ ValidCheckpoint(Rebuilt(base, delta)) /\ Rebuilt(base, delta) = delta.sha
    BY <1>4, <1>5, <1>6, <1>7
  <2> QED BY <1>2, <1>3, <1>4, <1>8, <1>9, <1>10, <2>1 DEF AppliesTo
<1> QED BY <1>1, <1>7, <1>11

-----------------------------------------------------------------------------
(* What other runs see of a step *)

\* History grows, the head moves to the latest revision, the checkpoint of the
\* latest revision stays, and R2 gives out new versions only.
Env ==
  /\ Len(history) \in Nat /\ Len(history') \in Nat /\ Len(history) <= Len(history')
  /\ \A i \in Revisions : history'[i] = history[i]
  /\ head \in Nat
  /\ head' = head \/ (head' = Len(history) /\ history' = history)
  /\ \A i \in Revisions :
       /\ i = Len(history') /\ objects.checkpoint[i].there =>
            objects'.checkpoint[i] = objects.checkpoint[i]
       /\ objects.delta[i].version \in Nat /\ objects'.delta[i].version \in Nat
       /\ objects.delta[i].version <= objects'.delta[i].version

LEMMA EnvSame ==
  ASSUME HistoryOK, ObjectsOK, history' = history, head' = head, objects' = objects
  PROVE  Env
<1>1. Len(history) \in Nat /\ head \in Nat
  BY Numbered DEF HistoryOK
<1>2. \A i \in Revisions : objects.delta[i].version \in Nat
  BY DEF ObjectsOK, ObjectTyped, Kinds
<1> QED BY <1>1, <1>2 DEF Env

LEMMA TypedKept ==
  ASSUME NEW x, RunTyped(x), Env
  PROVE  RunTyped(x)'
<1>1. \A n \in 0..Len(history) : n \in 0..Len(history')
  BY DEF Env
<1>2. /\ x.revision \in 0..Len(history') /\ x.seen \in 0..Len(history')
      /\ x.previous \in [revision : 0..Len(history'), version : Nat]
      /\ x.target \in [revision : 0..Len(history'), state : {"none", "writing", "orphaned"}]
  BY <1>1 DEF RunTyped
<1> QED BY <1>2 DEF RunTyped

LEMMA RunKept ==
  ASSUME NEW x, RunTyped(x), RunInv(x), Env
  PROVE  RunInv(x)'
<1>1. /\ Revisions = 1..Len(history) /\ Revisions' = 1..Len(history')
      /\ MutationHead = Len(history) /\ MutationHead' = Len(history')
  BY DEF Revisions, MutationHead
<1>0. /\ Len(history) \in Nat /\ Len(history') \in Nat /\ Len(history) <= Len(history')
      /\ head' = head \/ head' = Len(history)
  BY DEF Env
<1>2. \A i \in Revisions : i \in Revisions' /\ history'[i] = history[i] /\ i \in Nat
  BY <1>1 DEF Env
<1>3. /\ x.pc \in Held => x.revision \in Revisions' /\ x.owner > 0
      /\ x.pc = "entries" => x.seen \in Revisions'
      /\ x.pc \in {"drop checkpoint", "drop delta", "forget checkpoint", "forget delta"} =>
           x.target.revision \in Revisions'
      /\ x.pc \in Early => x.previous = NoReceipt
      /\ x.pc = "base" => x.previous # NoReceipt
      /\ x.previous # NoReceipt =>
           x.revision \in Revisions' /\ x.previous.revision \in 1..(x.revision - 1)
      /\ x.pc \in Deltaed => x.delta # NoDelta
  BY <1>2 DEF RunInv
<1>9. \A i \in Revisions : i = Len(history') => i = Len(history)
  BY <1>0, <1>1
<1>4. x.pc = "drop checkpoint" => x.target.revision \notin {head', MutationHead'}
  <2> SUFFICES ASSUME x.pc = "drop checkpoint" PROVE x.target.revision \notin {head', MutationHead'}
    OBVIOUS
  <2>1. PICK i : i = x.target.revision
    OBVIOUS
  <2>2. i \in Revisions /\ i # head /\ i # Len(history)
    BY <1>1, <2>1 DEF RunInv
  <2>3. i # head'
    BY <1>0, <2>2
  <2>4. i # Len(history')
    BY <1>9, <1>1, <2>2
  <2> QED BY <1>1, <2>1, <2>3, <2>4
<1>5. x.pc = "stage checkpoint" /\ x.revision = MutationHead' =>
        /\ objects'.checkpoint[x.revision].there
        /\ objects'.checkpoint[x.revision].version = x.version
  <2> SUFFICES ASSUME x.pc = "stage checkpoint", x.revision = MutationHead'
               PROVE  /\ objects'.checkpoint[x.revision].there
                      /\ objects'.checkpoint[x.revision].version = x.version
    OBVIOUS
  <2>1. PICK i : i = x.revision
    OBVIOUS
  <2>2. x.pc \in Held
    BY DEF Held, Steps, Early, Before
  <2>3. i \in Revisions /\ i = Len(history')
    BY <1>1, <2>1, <2>2 DEF RunInv
  <2>4. i = MutationHead
    BY <1>9, <1>1, <2>3
  <2>5. objects.checkpoint[i].there /\ objects.checkpoint[i].version = x.version
    BY <2>1, <2>4 DEF RunInv
  <2> QED BY <2>1, <2>3, <2>5 DEF Env
<1>6. x.pc \in Bodied => x.body = Checkpoint(x.revision, history'[x.revision])
  <2>1. x.pc \in Bodied => x.pc \in Held
    BY DEF Bodied, Held, Steps, Early, Before
  <2> QED BY <1>2, <2>1 DEF RunInv
<1>7. x.delta # NoDelta =>
        /\ x.previous # NoReceipt /\ x.delta.base = x.previous.revision
        /\ x.delta.version <= objects'.delta[x.revision].version
        /\ x.delta.body = BuildDelta(Checkpoint(x.delta.base, history'[x.delta.base]),
                                     Checkpoint(x.revision, history'[x.revision]))
  <2> SUFFICES ASSUME x.delta # NoDelta
               PROVE  /\ x.previous # NoReceipt /\ x.delta.base = x.previous.revision
                      /\ x.delta.version <= objects'.delta[x.revision].version
                      /\ x.delta.body = BuildDelta(Checkpoint(x.delta.base, history'[x.delta.base]),
                                                   Checkpoint(x.revision, history'[x.revision]))
    OBVIOUS
  <2>1. PICK i, b : i = x.revision /\ b = x.delta.base
    OBVIOUS
  <2>2. /\ x.previous # NoReceipt /\ b = x.previous.revision /\ i \in Revisions /\ b \in 1..(i - 1)
        /\ x.delta.version <= objects.delta[i].version
        /\ x.delta.body = BuildDelta(Checkpoint(b, history[b]), Checkpoint(i, history[i]))
    BY <2>1 DEF RunInv, DeltaOf
  <2>3. b \in Revisions
    BY <1>1, <2>2 DEF Env
  <2>4. history'[b] = history[b] /\ history'[i] = history[i]
    BY <1>2, <2>2, <2>3
  <2>5. x.delta.version \in Nat /\ x.delta.version <= objects'.delta[i].version
    <3>1. PICK u, v, w : /\ u = x.delta.version /\ v = objects.delta[i].version
                         /\ w = objects'.delta[i].version
      OBVIOUS
    <3>2. u \in Nat
      BY <3>1 DEF RunTyped
    <3>3. v \in Nat /\ w \in Nat /\ v <= w
      BY <2>2, <3>1 DEF Env
    <3>4. u <= v
      BY <2>2, <3>1
    <3>5. u <= w
      BY <3>2, <3>3, <3>4
    <3> QED BY <3>1, <3>2, <3>5
  <2> QED BY <2>1, <2>2, <2>4, <2>5
<1> QED BY <1>3, <1>4, <1>5, <1>6, <1>7 DEF RunInv, DeltaOf

\* A run that goes on knows what it knew.
Follows(x, y) ==
  /\ DOMAIN y = RunFields
  /\ y.revision = x.revision /\ y.owner = x.owner /\ y.previous = x.previous /\ y.seen = x.seen
  /\ y.body = x.body /\ y.version = x.version /\ y.delta = x.delta /\ y.target = x.target
  /\ y.age \in Nat
MayGo(x, pc) ==
  /\ pc \in Steps
  /\ pc \in Held => x.pc \in Held
  /\ pc \in Bodied => x.pc \in Bodied
  /\ pc \in Deltaed => x.pc \in Deltaed
  /\ pc \in Early => x.pc \in Early
  /\ pc = "base" => x.previous # NoReceipt
  /\ pc \in {"forget checkpoint", "forget delta"} => x.pc \in {"drop checkpoint", "drop delta"}
  /\ pc \notin {"entries", "drop checkpoint", "drop delta", "stage checkpoint"}

LEMMA GoKept ==
  ASSUME NEW x, NEW y, RunTyped(x), RunInv(x), Env, Follows(x, y), MayGo(x, y.pc)
  PROVE  RunTyped(y)' /\ RunInv(y)'
<1>1. RunTyped(x)' /\ RunInv(x)'
  BY TypedKept, RunKept
<1>2. RunTyped(y)'
  BY <1>1 DEF RunTyped, Follows, MayGo
<1>3. RunInv(y)'
  BY <1>1, ZenonT(60) DEF RunInv, DeltaOf, Follows, MayGo
<1> QED BY <1>2, <1>3

-----------------------------------------------------------------------------
(* What a step does to the invariant *)

\* Only ReadPrevious takes a base.
SameBase(x, y) ==
  y.previous # NoReceipt => y.previous = x.previous /\ y.revision = x.revision

\* The row v may take the place of the checkpoint row of revision i: the row of
\* the published checkpoint stays, no row of the latest revision is orphaned,
\* and one is staged only for the object that is there.
CheckpointRow(i, v) ==
  LET old == rows.checkpoint[i]
      obj == objects.checkpoint[i]
  IN  /\ i = head => v.state = old.state /\ v.version = old.version
      /\ v.state = "orphaned" => old.state = "orphaned" \/ i # MutationHead
      /\ i = MutationHead /\ v.state = "staged" =>
           \/ old.state = "staged" /\ v.version = old.version
           \/ obj.there /\ obj.version = v.version

\* The same for the delta row: no delta is published, the published delta of
\* the head stays, only versions that R2 gave out and bases that were taken are
\* recorded.
DeltaRow(i, v) ==
  LET old == rows.delta[i]
  IN  /\ v.state = "published" => old.state = "published"
      /\ i = head /\ old.state = "published" =>
           v.state = "published" /\ v.base = old.base /\ v.version = old.version
      /\ v.version <= objects.delta[i].version
      /\ v.state # "none" => v.base \in 1..(i - 1) /\ BaseClaim(i, v.base)

CheckpointRows == \A i \in Revisions : CheckpointRow(i, rows'.checkpoint[i])
DeltaRows == \A i \in Revisions : DeltaRow(i, rows'.delta[i])

LEMMA RowKept ==
  ASSUME IInv, NEW i \in Revisions
  PROVE  CheckpointRow(i, rows.checkpoint[i]) /\ DeltaRow(i, rows.delta[i])
<1>1. CheckpointRow(i, rows.checkpoint[i])
  BY DEF CheckpointRow
<1>2. DeltaRow(i, rows.delta[i])
  BY DEF IInv, DeltaInv, DeltaRow, BaseClaim
<1> QED BY <1>1, <1>2

LEMMA RowsSame ==
  ASSUME IInv, rows' = rows
  PROVE  CheckpointRows /\ DeltaRows
BY RowKept DEF CheckpointRows, DeltaRows

\* The bases taken after a step were taken before it.
LEMMA BaseKept ==
  ASSUME HistoryOK, BaseInv, history' = history, head' = head \/ head' = Len(history),
         DOMAIN run' = Runs,
         \A r \in Runs : SameBase(run[r], run'[r]),
         \A i \in Revisions : rows'.delta[i].state # "none" => BaseClaim(i, rows'.delta[i].base),
         \A i \in Revisions : objects'.delta[i].there =>
                                BaseClaim(i, objects'.delta[i].body.baseRevision)
  PROVE  BaseInv'
<1>1. Revisions' = Revisions /\ Revisions = 1..Len(history) /\ Len(history) \in Nat
  BY Numbered DEF Revisions
<1>2. ASSUME NEW i \in Revisions, NEW b \in Revisions, BaseClaim(i, b)'
      PROVE  BaseClaim(i, b)
  <2>1. CASE \E r \in Runs : /\ run'[r].previous # NoReceipt
                             /\ run'[r].revision = i /\ run'[r].previous.revision = b
    BY <2>1 DEF SameBase, BaseClaim
  <2>2. CASE rows'.delta[i].state # "none" /\ rows'.delta[i].base = b
    BY <2>2
  <2>3. CASE objects'.delta[i].there /\ objects'.delta[i].body.baseRevision = b
    BY <2>3
  <2> QED BY <1>2, <2>1, <2>2, <2>3 DEF BaseClaim
<1>3. ASSUME NEW i \in Revisions, NEW b \in Revisions, BaseClaim(i, b)
      PROVE  b = head' \/ head' >= i
  <2>1. b = head \/ head >= i
    BY <1>3 DEF BaseInv
  <2>2. CASE head' = head
    BY <2>1, <2>2
  <2>3. CASE head' = Len(history)
    BY <1>1, <2>3
  <2> QED BY <2>2, <2>3
<1>4. \A i, b \in Revisions' : BaseClaim(i, b)' => b = head' \/ head' >= i
  BY <1>1, <1>2, <1>3
<1>5. \A i, b, c \in Revisions' : BaseClaim(i, b)' /\ BaseClaim(i, c)' => b = c
  BY <1>1, <1>2 DEF BaseInv
<1> QED BY <1>4, <1>5 DEF BaseInv

\* A step of the tables only.
LEMMA TableStep ==
  ASSUME IInv, history' = history, head' = head, published' = published, objects' = objects,
         collapsed' \subseteq Revisions, due' \in BOOLEAN, faults' \in 0..MaxFaults,
         OutboxOK', RowsOK', RunsOK', \A r \in Runs : RunInv(run[r])',
         BaseInv', CheckpointRows, DeltaRows
  PROVE  IInv' /\ UNCHANGED <<history, head, Stored, HeadDelta>>
<1> USE DEF IInv
<1>1. HistoryOK /\ ObjectsOK /\ RowsOK
  BY SplitTypes
<1>2. /\ Revisions' = Revisions /\ MutationHead' = MutationHead /\ MutationHead \in Revisions
      /\ head # 0 => head \in Revisions
  BY <1>1, Numbered DEF Revisions, MutationHead
<1>3. HistoryOK' /\ ObjectsOK'
  BY <1>1, <1>2 DEF HistoryOK, ObjectsOK
<1>4. TypeOK' /\ OutboxInv'
  BY <1>3, JoinTypes
<1>5. CheckpointInv'
  <2>1. head' # 0 => head' \in published'
    BY DEF CheckpointInv
  <2>2. \A i \in Revisions' : rows'.checkpoint[i].state = "orphaned" => i # MutationHead'
    BY <1>2 DEF CheckpointInv, CheckpointRows, CheckpointRow
  <2>3. rows'.checkpoint[MutationHead].state = "staged" =>
          /\ objects'.checkpoint[MutationHead].there
          /\ objects'.checkpoint[MutationHead].version = rows'.checkpoint[MutationHead].version
    BY <1>2 DEF CheckpointInv, CheckpointRows, CheckpointRow
  <2>4. CheckpointDeliverable'
    <3>1. CheckpointDeliverable
      BY DEF CheckpointInv
    <3>2. head # 0 => /\ rows'.checkpoint[head].state = rows.checkpoint[head].state
                      /\ rows'.checkpoint[head].version = rows.checkpoint[head].version
      BY <1>2 DEF CheckpointRows, CheckpointRow
    <3> QED BY <3>1, <3>2 DEF CheckpointDeliverable
  <2>5. \A i \in Revisions' : objects'.checkpoint[i].there =>
          objects'.checkpoint[i].body = Checkpoint(i, history'[i])
    BY <1>2 DEF CheckpointInv
  <2> QED BY <1>2, <2>1, <2>2, <2>3, <2>4, <2>5 DEF CheckpointInv
<1>6. DeltaInv'
  BY <1>2 DEF DeltaInv, DeltaRows, DeltaRow, DeltaOf
<1>7. UNCHANGED <<history, head, Stored, HeadDelta>>
  <2>1. Stored' = Stored
    BY <1>2 DEF Stored
  <2>2. HeadDelta' = HeadDelta
    <3>1. CASE head # 0 /\ rows.delta[head].state = "published"
      BY <1>2, <3>1 DEF DeltaRows, DeltaRow, HeadDelta
    <3>2. CASE ~(head # 0 /\ rows.delta[head].state = "published")
      BY <1>2, <3>2 DEF DeltaRows, DeltaRow, HeadDelta
    <3> QED BY <3>1, <3>2
  <2> QED BY <2>1, <2>2
<1> QED BY <1>4, <1>5, <1>6, <1>7

LEMMA RowStep ==
  ASSUME IInv, history' = history, head' = head, published' = published, objects' = objects,
         collapsed' \subseteq Revisions, due' \in BOOLEAN, faults' \in 0..MaxFaults,
         OutboxOK', RowsOK', RunsOK', \A r \in Runs : RunInv(run[r])',
         \A r \in Runs : SameBase(run[r], run'[r]), CheckpointRows, DeltaRows
  PROVE  IInv' /\ UNCHANGED <<history, head, Stored, HeadDelta>>
<1>1. /\ \A i \in Revisions : rows'.delta[i].state # "none" => BaseClaim(i, rows'.delta[i].base)
      /\ DOMAIN run' = Runs
  BY DEF DeltaRows, DeltaRow, RunsOK
<1>2. \A i \in Revisions : objects'.delta[i].there =>
                              BaseClaim(i, objects'.delta[i].body.baseRevision)
  BY DEF BaseClaim
<1>3. HistoryOK /\ BaseInv
  BY SplitTypes DEF IInv
<1>4. BaseInv'
  BY <1>1, <1>2, <1>3, BaseKept
<1> QED BY <1>4, TableStep

\* One run goes on and the others keep what they know.
LEMMA OneRun ==
  ASSUME RunsOK, \A s \in Runs : RunInv(run[s]), Env, NEW r \in Runs, NEW y,
         run' = [run EXCEPT ![r] = y], RunTyped(y)', RunInv(y)'
  PROVE  /\ RunsOK' /\ \A s \in Runs : RunInv(run[s])'
         /\ SameBase(run[r], y) => \A s \in Runs : SameBase(run[s], run'[s])
<1>1. DOMAIN run = Runs
  BY DEF RunsOK
<1>2. ASSUME NEW s \in Runs, s # r
      PROVE  run'[s] = run[s] /\ RunTyped(run[s])' /\ RunInv(run[s])'
  <2>1. PICK x : x = run[s]
    OBVIOUS
  <2>2. run'[s] = x
    BY <1>1, <1>2, <2>1
  <2>3. RunTyped(x) /\ RunInv(x)
    BY <2>1 DEF RunsOK
  <2>4. RunTyped(x)' /\ RunInv(x)'
    BY <2>3, TypedKept, RunKept
  <2> QED BY <2>1, <2>2, <2>4, ZenonT(60) DEF RunTyped, RunInv, DeltaOf
<1>3. run'[r] = y /\ DOMAIN run' = Runs
  BY <1>1
<1>4. RunTyped(run[r])' /\ RunInv(run[r])'
  BY <1>3, ZenonT(60) DEF RunTyped, RunInv, DeltaOf
<1>5. \A s \in Runs : RunTyped(run[s])' /\ RunInv(run[s])'
  BY <1>2, <1>4
<1>6. SameBase(run[r], y) => \A s \in Runs : SameBase(run[s], run'[s])
  BY <1>2, <1>3 DEF SameBase
<1>7. RunsOK'
  BY <1>3, <1>5 DEF RunsOK
<1> QED BY <1>5, <1>6, <1>7

\* A step of one run that touches the tables only.
LEMMA RunStep ==
  ASSUME IInv, history' = history, head' = head, published' = published, objects' = objects,
         collapsed' \subseteq Revisions, due' \in BOOLEAN, faults' \in 0..MaxFaults,
         OutboxOK', RowsOK', CheckpointRows, DeltaRows, NEW r \in Runs, NEW y,
         run' = [run EXCEPT ![r] = y], RunTyped(y)', RunInv(y)', SameBase(run[r], y)
  PROVE  IInv' /\ UNCHANGED <<history, head, Stored, HeadDelta>>
<1>1. HistoryOK /\ ObjectsOK /\ RunsOK /\ \A s \in Runs : RunInv(run[s])
  BY SplitTypes DEF IInv
<1>2. Env
  BY <1>1, EnvSame
<1>3. /\ RunsOK' /\ \A s \in Runs : RunInv(run[s])'
      /\ \A s \in Runs : SameBase(run[s], run'[s])
  BY <1>1, <1>2, OneRun
<1> QED BY <1>3, RowStep

\* A step of one run that touches no artifact.
LEMMA QuietStep ==
  ASSUME IInv, history' = history, head' = head, published' = published, objects' = objects,
         collapsed' = collapsed, rows' = rows, due' \in BOOLEAN, faults' \in 0..MaxFaults,
         OutboxOK', NEW r \in Runs, NEW y,
         run' = [run EXCEPT ![r] = y], RunTyped(y)', RunInv(y)', SameBase(run[r], y)
  PROVE  IInv' /\ UNCHANGED <<history, head, Stored, HeadDelta>>
<1>1. HistoryOK /\ RowsOK
  BY SplitTypes DEF IInv
<1>2. collapsed' \subseteq Revisions
  BY <1>1 DEF HistoryOK
<1>3. RowsOK'
  BY <1>1 DEF RowsOK, Revisions
<1> QED BY <1>2, <1>3, RowsSame, RunStep

-----------------------------------------------------------------------------
(* The outbox *)

LEMMA RetryTyped ==
  ASSUME NEW n \in Nat, n > 0
  PROVE  RetryDelay(n) \in Int
<1>1. PICK e : e = IF n > 9 THEN 8 ELSE n - 1
  OBVIOUS
<1>2. e \in Nat
  BY <1>1
<1>3. 2 ^ e \in Int
  BY <1>2
<1>4. PICK p : p = 2 ^ e /\ p \in Int
  BY <1>3
<1>5. RetryBase * p \in Int /\ RetryCap \in Int
  BY <1>4, Constants
<1>6. RetryDelay(n) = IF RetryBase * p > RetryCap THEN RetryCap ELSE RetryBase * p
  BY <1>1, <1>4 DEF RetryDelay
<1> QED BY <1>5, <1>6

LEMMA OutboxSame ==
  ASSUME OutboxOK, history' = history, outbox' = outbox
  PROVE  OutboxOK'
BY DEF OutboxOK, OutboxInv, Revisions

LEMMA OutboxPut ==
  ASSUME OutboxOK, history' = history, NEW i \in Revisions, NEW v \in JobSet,
         v.state = "claimed" => v.attempts > 0, outbox' = [outbox EXCEPT ![i] = v]
  PROVE  OutboxOK'
<1>1. Revisions' = Revisions
  BY DEF Revisions
<1>2. outbox' \in [Revisions -> JobSet]
  BY DEF OutboxOK
<1>3. \A j \in Revisions : outbox'[j] = IF j = i THEN v ELSE outbox[j]
  BY DEF OutboxOK
<1>4. OutboxInv'
  BY <1>1, <1>3 DEF OutboxOK, OutboxInv
<1> QED BY <1>1, <1>2, <1>4 DEF OutboxOK

LEMMA ReleasedOK ==
  ASSUME OutboxOK, history' = history, NEW r \in Runs, run[r].revision \in Revisions,
         NEW retry, Owns(r) => retry \in Int, outbox' = Released(r, retry)
  PROVE  OutboxOK'
<1>1. PICK i : i = run[r].revision /\ i \in Revisions
  OBVIOUS
<1>2. CASE Owns(r)
  <2>1. outbox[i] \in JobSet /\ Past \in Int
    BY <1>1, Constants DEF OutboxOK
  <2>2. PICK v : v = [outbox[i] EXCEPT !.state = "pending", !.owner = 0, !.lease = Past,
                                       !.retry = retry]
    OBVIOUS
  <2>3. v \in JobSet /\ v.state = "pending"
    BY <1>2, <2>1, <2>2 DEF JobSet
  <2>4. outbox' = [outbox EXCEPT ![i] = v]
    BY <1>1, <1>2, <2>2 DEF Released
  <2> QED BY <1>1, <2>3, <2>4, OutboxPut
<1>3. CASE ~Owns(r)
  BY <1>3, OutboxSame DEF Released
<1> QED BY <1>2, <1>3

-----------------------------------------------------------------------------
(* Steps that touch no artifact *)

LEMMA GotoRun ==
  ASSUME RunsOK, NEW r \in Runs, NEW pc, Goto(r, pc)
  PROVE  \E y : run' = [run EXCEPT ![r] = y] /\ Follows(run[r], y) /\ y.pc = pc
<1>1. PICK x : x = run[r]
  OBVIOUS
<1>2. DOMAIN x = RunFields /\ x.age \in Nat
  BY <1>1 DEF RunsOK, RunTyped
<1>3. PICK y : y = [x EXCEPT !.pc = pc]
  OBVIOUS
<1>4. Follows(x, y) /\ y.pc = pc
  BY <1>2, <1>3 DEF Follows, RunFields
<1>5. run' = [run EXCEPT ![r] = y]
  BY <1>1, <1>3 DEF Goto
<1> QED BY <1>1, <1>4, <1>5

LEMMA FollowsBase ==
  ASSUME NEW x, NEW y, Follows(x, y)
  PROVE  SameBase(x, y)
BY DEF Follows, SameBase

LEMMA QuietGo ==
  ASSUME IInv, history' = history, head' = head, published' = published, objects' = objects,
         collapsed' = collapsed, rows' = rows, due' \in BOOLEAN, faults' \in 0..MaxFaults,
         OutboxOK', NEW r \in Runs, NEW y,
         run' = [run EXCEPT ![r] = y], Follows(run[r], y), MayGo(run[r], y.pc)
  PROVE  IInv' /\ UNCHANGED <<history, head, Stored, HeadDelta>>
<1>1. HistoryOK /\ ObjectsOK /\ RunTyped(run[r]) /\ RunInv(run[r])
  BY SplitTypes DEF IInv, RunsOK
<1>2. Env
  BY <1>1, EnvSame
<1>3. PICK x : x = run[r]
  OBVIOUS
<1>4. RunTyped(y)' /\ RunInv(y)'
  BY <1>1, <1>2, <1>3, GoKept
<1>5. SameBase(run[r], y)
  BY FollowsBase
<1> QED BY <1>4, <1>5, QuietStep

LEMMA QuietGoto ==
  ASSUME IInv, history' = history, head' = head, published' = published, objects' = objects,
         collapsed' = collapsed, rows' = rows, due' \in BOOLEAN, faults' \in 0..MaxFaults,
         OutboxOK', NEW r \in Runs, NEW pc, Goto(r, pc), MayGo(run[r], pc)
  PROVE  IInv' /\ UNCHANGED <<history, head, Stored, HeadDelta>>
<1>1. RunsOK
  BY SplitTypes DEF IInv
<1>2. PICK y : run' = [run EXCEPT ![r] = y] /\ Follows(run[r], y) /\ y.pc = pc
  BY <1>1, GotoRun
<1> QED BY <1>2, QuietGo

LEMMA QuietIdle ==
  ASSUME IInv, history' = history, head' = head, published' = published, objects' = objects,
         collapsed' = collapsed, rows' = rows, due' \in BOOLEAN, faults' \in 0..MaxFaults,
         OutboxOK', NEW r \in Runs, run' = [run EXCEPT ![r] = Idle]
  PROVE  IInv' /\ UNCHANGED <<history, head, Stored, HeadDelta>>
<1>1. HistoryOK
  BY SplitTypes DEF IInv
<1>2. HistoryOK'
  BY <1>1 DEF HistoryOK, Revisions
<1>3. PICK y : y = Idle
  OBVIOUS
<1>4. RunTyped(y)' /\ RunInv(y)' /\ y.previous = NoReceipt
  BY <1>1, <1>2, <1>3, IdleTyped, IdleTypedNext DEF RunTyped, RunInv, DeltaOf
<1>5. SameBase(run[r], y)
  BY <1>4 DEF SameBase
<1> QED BY <1>3, <1>4, <1>5, QuietStep

LEMMA Basics ==
  ASSUME IInv
  PROVE  /\ HistoryOK /\ OutboxOK /\ RowsOK /\ ObjectsOK /\ RunsOK
         /\ due \in BOOLEAN /\ faults \in 0..MaxFaults
         /\ faults < MaxFaults => faults + 1 \in 0..MaxFaults
         /\ \A r \in Runs : /\ RunTyped(run[r]) /\ RunInv(run[r])
                            /\ run[r].pc \in Held => run[r].revision \in Revisions
                                                     /\ run[r].owner \in Nat /\ run[r].owner > 0
<1>1. /\ HistoryOK /\ OutboxOK /\ RowsOK /\ ObjectsOK /\ RunsOK
      /\ due \in BOOLEAN /\ faults \in 0..MaxFaults
  BY SplitTypes DEF IInv
<1>2. faults < MaxFaults => faults + 1 \in 0..MaxFaults
  BY <1>1, Constants
<1>3. \A r \in Runs : /\ RunTyped(run[r]) /\ RunInv(run[r])
                      /\ run[r].pc \in Held => run[r].revision \in Revisions
                                               /\ run[r].owner \in Nat /\ run[r].owner > 0
  BY <1>1, ZenonT(60) DEF IInv, RunsOK, RunInv, RunTyped
<1> QED BY <1>1, <1>2, <1>3

LEMMA LoadCandidateStep ==
  ASSUME IInv, NEW r \in Runs, LoadCandidate(r)
  PROVE  IInv' /\ UNCHANGED <<history, head, Stored, HeadDelta>>
<1>1. PICK pc : pc \in {"previous", "unloadable"} /\ Goto(r, pc)
  BY DEF LoadCandidate
<1>2. MayGo(run[r], pc)
  BY <1>1 DEF LoadCandidate, At, MayGo, Steps, Held, Early, Before, Bodied, Deltaed
<1>3. OutboxOK'
  BY Basics, OutboxSame DEF LoadCandidate
<1> QED BY <1>1, <1>2, <1>3, Basics, QuietGoto DEF LoadCandidate

LEMMA ReleaseUnloadableStep ==
  ASSUME IInv, NEW r \in Runs, ReleaseUnloadable(r)
  PROVE  IInv' /\ UNCHANGED <<history, head, Stored, HeadDelta>>
<1>1. MayGo(run[r], "collapse") /\ run[r].pc \in Held
  BY DEF ReleaseUnloadable, At, MayGo, Steps, Held, Early, Before, Bodied, Deltaed
<1>2. PICK i : i = run[r].revision /\ i \in Revisions
  BY <1>1, Basics
<1>3. PICK d : d = IF i = MutationHead THEN RetryDelay(outbox[i].attempts) ELSE Past
  OBVIOUS
<1>4. Owns(r) => d \in Int
  <2>1. Owns(r) => outbox[i].attempts \in Nat /\ outbox[i].attempts > 0
    BY <1>2, Basics DEF OutboxOK, OutboxInv, JobSet, Owns
  <2> QED BY <1>3, <2>1, RetryTyped, Constants
<1>5. outbox' = Released(r, d) /\ history' = history
  BY <1>2, <1>3 DEF ReleaseUnloadable
<1>6. OutboxOK'
  BY <1>2, <1>4, <1>5, Basics, ReleasedOK
<1> QED BY <1>1, <1>6, Basics, QuietGoto DEF ReleaseUnloadable

LEMMA ReleaseClaimStep ==
  ASSUME IInv, NEW r \in Runs, ReleaseClaim(r)
  PROVE  IInv' /\ UNCHANGED <<history, head, Stored, HeadDelta>>
<1>1. MayGo(run[r], "collapse") /\ run[r].pc \in Held
  BY DEF ReleaseClaim, At, MayGo, Steps, Held, Early, Before, Bodied, Deltaed
<1>2. outbox' = Released(r, Past) /\ history' = history
  BY DEF ReleaseClaim
<1>3. OutboxOK'
  BY <1>1, <1>2, Basics, Constants, ReleasedOK
<1> QED BY <1>1, <1>3, Basics, QuietGoto DEF ReleaseClaim

LEMMA ReleaseFailedStep ==
  ASSUME IInv, NEW r \in Runs, ReleaseFailed(r)
  PROVE  IInv' /\ UNCHANGED <<history, head, Stored, HeadDelta>>
<1>1. run[r].pc \in Held
  BY DEF ReleaseFailed, At, Steps, Held, Early, Before
<1>2. RetryDelay(run[r].owner) \in Int
  BY <1>1, Basics, RetryTyped
<1>3. outbox' = Released(r, RetryDelay(run[r].owner)) /\ history' = history
  BY DEF ReleaseFailed
<1>4. OutboxOK'
  BY <1>1, <1>2, <1>3, Basics, ReleasedOK
<1> QED BY <1>4, Basics, QuietIdle DEF ReleaseFailed

LEMMA FaultStep ==
  ASSUME IInv, NEW r \in Runs, Fault(r)
  PROVE  IInv' /\ UNCHANGED <<history, head, Stored, HeadDelta>>
<1>1. /\ faults' \in 0..MaxFaults /\ due' \in BOOLEAN /\ history' = history /\ outbox' = outbox
      /\ head' = head /\ published' = published /\ objects' = objects
      /\ collapsed' = collapsed /\ rows' = rows
  BY Basics DEF Fault, DeltaFails, DiscardFails, Fail, Die
<1>2. OutboxOK'
  BY <1>1, Basics, OutboxSame
<1>3. CASE DeltaFails(r)
  <2>1. MayGo(run[r], "discard")
    BY <1>3 DEF DeltaFails, MayGo, Steps, Held, Early, Before, Bodied, Deltaed
  <2> QED BY <1>1, <1>2, <1>3, <2>1, QuietGoto DEF DeltaFails
<1>4. CASE DiscardFails(r)
  <2>1. MayGo(run[r], "fence")
    BY <1>4 DEF DiscardFails, MayGo, Steps, Held, Early, Before, Bodied, Deltaed
  <2> QED BY <1>1, <1>2, <1>4, <2>1, QuietGoto DEF DiscardFails
<1>5. CASE Fail(r)
  <2>1. MayGo(run[r], "failed")
    BY <1>5 DEF Fail, MayGo, Steps, Held, Early, Before, Bodied, Deltaed
  <2> QED BY <1>1, <1>2, <1>5, <2>1, QuietGoto DEF Fail
<1>6. CASE Die(r)
  BY <1>1, <1>2, <1>6, QuietIdle DEF Die
<1> QED BY <1>3, <1>4, <1>5, <1>6 DEF Fault

\* The same for a run that is as it should be before the step.
LEMMA QuietRun ==
  ASSUME IInv, history' = history, head' = head, published' = published, objects' = objects,
         collapsed' = collapsed, rows' = rows, due' \in BOOLEAN, faults' \in 0..MaxFaults,
         OutboxOK', NEW r \in Runs, NEW y,
         run' = [run EXCEPT ![r] = y], RunTyped(y), RunInv(y), SameBase(run[r], y)
  PROVE  IInv' /\ UNCHANGED <<history, head, Stored, HeadDelta>>
<1>1. Env
  BY Basics, EnvSame
<1>2. RunTyped(y)' /\ RunInv(y)'
  BY <1>1, TypedKept, RunKept
<1> QED BY <1>2, QuietStep

LEMMA StartStep ==
  ASSUME IInv, NEW r \in Runs, Start(r)
  PROVE  IInv' /\ UNCHANGED <<history, head, Stored, HeadDelta>>
<1>1. PICK x : x = Idle /\ RunTyped(x) /\ x.previous = NoReceipt /\ x.delta = NoDelta
  BY Basics, IdleTyped
<1>2. PICK y : y = [x EXCEPT !.pc = "sweep delta"]
  OBVIOUS
<1>3. Follows(x, y) /\ y.pc = "sweep delta"
  BY <1>1, <1>2 DEF Follows, RunTyped, RunFields
<1>4. RunTyped(y) /\ y.previous = NoReceipt /\ y.delta = NoDelta
  BY <1>1, <1>3 DEF Follows, RunTyped, Steps
<1>5. RunInv(y) /\ SameBase(run[r], y)
  BY <1>3, <1>4 DEF RunInv, SameBase, Held, Early, Before, Bodied, Deltaed
<1>6. run' = [run EXCEPT ![r] = y]
  BY <1>1, <1>2 DEF Start
<1>7. OutboxOK'
  BY Basics, OutboxSame DEF Start
<1> QED BY <1>4, <1>5, <1>6, <1>7, Basics, QuietRun DEF Start

LEMMA SweepStep ==
  ASSUME IInv, NEW r \in Runs, NEW k \in Kinds, Sweep(r, k)
  PROVE  IInv' /\ UNCHANGED <<history, head, Stored, HeadDelta>>
<1>1. PICK found : found = First(Abandoned(r, k), 1, [i \in Revisions |-> rows[k][i].age])
  OBVIOUS
<1>2. found \subseteq Abandoned(r, k)
  BY <1>1 DEF First
<1>3. PICK x : x = run[r] /\ RunTyped(x) /\ RunInv(x) /\ x.pc = Sweeping[k]
  BY Basics DEF Sweep, At
<1>4. OutboxOK'
  BY Basics, OutboxSame DEF Sweep
<1>5. k = "checkpoint" \/ k = "delta"
  BY KindsAre
<1>6. x.pc = "sweep checkpoint" \/ x.pc = "sweep delta"
  BY <1>3, <1>5, StepsOf
<1>7. CASE found = {}
  <2>1. Goto(r, AfterSweep(k))
    BY <1>1, <1>7 DEF Sweep, Goto
  <2>2. PICK pc : pc = AfterSweep(k) /\ pc \in {"sweep checkpoint", "claim"}
    BY DEF AfterSweep
  <2>3. MayGo(run[r], pc)
    BY <1>3, <1>6, <2>2 DEF MayGo, Steps, Held, Early, Before, Bodied, Deltaed
  <2> QED BY <1>4, <2>1, <2>2, <2>3, Basics, QuietGoto DEF Sweep
<1>8. CASE found # {}
  <2>1. PICK i : i = CHOOSE z \in found : TRUE
    OBVIOUS
  <2>2. i \in Abandoned(r, k)
    BY <1>2, <1>8, <2>1
  <2>3. PICK t : t = [revision |-> i, state |-> rows[k][i].state]
    OBVIOUS
  <2>4. PICK y : y = [x EXCEPT !.pc = Dropping[k], !.target = t]
    OBVIOUS
  <2>5. run' = [run EXCEPT ![r] = y]
    BY <1>1, <1>3, <1>8, <2>1, <2>3, <2>4 DEF Sweep
  <2>6. /\ DOMAIN y = RunFields /\ y.pc = Dropping[k] /\ y.target = t
        /\ y.revision = x.revision /\ y.owner = x.owner /\ y.previous = x.previous
        /\ y.seen = x.seen /\ y.body = x.body /\ y.version = x.version /\ y.delta = x.delta
        /\ y.age = x.age
    BY <1>3, <2>4 DEF RunTyped, RunFields
  <2>7. /\ i \in Revisions /\ i \in 0..Len(history)
        /\ rows[k][i].state \in {"writing", "orphaned"}
    BY <2>2, Basics, Numbered DEF Abandoned
  <2>8. k = "checkpoint" => i # head /\ i # MutationHead
    BY <2>2 DEF Abandoned, IInv, CheckpointInv
  <2>9. /\ t \in [revision : 0..Len(history), state : {"none", "writing", "orphaned"}]
        /\ t.revision = i
    BY <2>3, <2>7
  <2>10. \/ y.pc = "drop checkpoint" /\ k = "checkpoint"
         \/ y.pc = "drop delta" /\ k = "delta"
    BY <1>5, <2>6, StepsOf
  <2>11. RunTyped(y)
    BY <1>3, <2>6, <2>9, <2>10 DEF RunTyped, Steps
  <2>12. x.previous = NoReceipt /\ x.delta = NoDelta
    BY <1>3, <1>6 DEF RunInv, Early, Before
  <2>13. RunInv(y) /\ SameBase(x, y)
    BY <2>6, <2>7, <2>8, <2>9, <2>10, <2>12
       DEF RunInv, SameBase, Held, Early, Before, Bodied, Deltaed
  <2> QED BY <1>3, <1>4, <2>5, <2>11, <2>13, Basics, QuietRun DEF Sweep
<1> QED BY <1>7, <1>8

LEMMA ClaimLatestStep ==
  ASSUME IInv, NEW r \in Runs, ClaimLatest(r)
  PROVE  IInv' /\ UNCHANGED <<history, head, Stored, HeadDelta>>
<1>1. PICK x : x = run[r] /\ RunTyped(x) /\ RunInv(x) /\ x.pc = "claim"
  BY Basics DEF ClaimLatest, At
<1>2. CASE Claimable(r)
  <2>1. PICK i, n : i = MutationHead /\ n = outbox[i].attempts + 1
    OBVIOUS
  <2>2. i \in Revisions /\ i \in 0..Len(history) /\ n \in Nat /\ n > 0
    BY <2>1, Basics, Numbered DEF OutboxOK, JobSet
  <2>3. PICK v : v = [state |-> "claimed", owner |-> n, attempts |-> n,
                      lease |-> Claim - x.age, retry |-> Past]
    OBVIOUS
  <2>4. Claim - x.age \in Int /\ Past \in Int
    BY <1>1, Constants, SMTT(30) DEF RunTyped
  <2>5. v \in JobSet /\ v.attempts > 0
    BY <2>2, <2>3, <2>4 DEF JobSet
  <2>6. outbox' = [outbox EXCEPT ![i] = v] /\ history' = history
    BY <1>1, <1>2, <2>1, <2>3 DEF ClaimLatest
  <2>7. OutboxOK'
    BY <2>2, <2>5, <2>6, Basics, OutboxPut
  <2>8. PICK y : y = [x EXCEPT !.pc = "load", !.revision = i, !.owner = n]
    OBVIOUS
  <2>9. run' = [run EXCEPT ![r] = y]
    BY <1>1, <1>2, <2>1, <2>8 DEF ClaimLatest
  <2>10. /\ DOMAIN y = RunFields /\ y.pc = "load" /\ y.revision = i /\ y.owner = n
         /\ y.previous = x.previous /\ y.seen = x.seen /\ y.body = x.body
         /\ y.version = x.version /\ y.delta = x.delta /\ y.age = x.age /\ y.target = x.target
    BY <1>1, <2>8 DEF RunTyped, RunFields
  <2>11. RunTyped(y)
    BY <1>1, <2>2, <2>10 DEF RunTyped, Steps
  <2>12. x.previous = NoReceipt /\ x.delta = NoDelta
    BY <1>1 DEF RunInv, Early, Before
  <2>13. RunInv(y) /\ SameBase(x, y)
    BY <2>2, <2>10, <2>12 DEF RunInv, SameBase, Held, Early, Before, Bodied, Deltaed
  <2> QED BY <1>1, <2>7, <2>9, <2>11, <2>13, Basics, QuietRun DEF ClaimLatest
<1>3. CASE ~Claimable(r)
  <2>1. Goto(r, "collapse") /\ outbox' = outbox
    BY <1>3 DEF ClaimLatest
  <2>2. MayGo(run[r], "collapse")
    BY <1>1 DEF MayGo, Steps, Held, Early, Before, Bodied, Deltaed
  <2>3. OutboxOK'
    BY <2>1, Basics, OutboxSame DEF ClaimLatest
  <2> QED BY <2>1, <2>2, <2>3, Basics, QuietGoto DEF ClaimLatest
<1> QED BY <1>2, <1>3

LEMMA ReadDirectoriesStep ==
  ASSUME IInv, NEW r \in Runs, ReadDirectories(r)
  PROVE  IInv' /\ UNCHANGED <<history, head, Stored, HeadDelta>>
<1>1. PICK x : x = run[r] /\ RunTyped(x) /\ RunInv(x) /\ x.pc = "directories"
  BY Basics DEF ReadDirectories, At
<1>2. PICK i : i = MutationHead /\ i \in Revisions /\ i \in 0..Len(history)
  BY Basics, Numbered
<1>3. PICK y : y = [x EXCEPT !.pc = "entries", !.seen = i]
  OBVIOUS
<1>4. run' = [run EXCEPT ![r] = y]
  BY <1>1, <1>2, <1>3 DEF ReadDirectories
<1>5. /\ DOMAIN y = RunFields /\ y.pc = "entries" /\ y.revision = x.revision
      /\ y.owner = x.owner /\ y.previous = x.previous /\ y.seen = i /\ y.body = x.body
      /\ y.version = x.version /\ y.delta = x.delta /\ y.age = x.age /\ y.target = x.target
  BY <1>1, <1>3 DEF RunTyped, RunFields
<1>6. RunTyped(y)
  BY <1>1, <1>2, <1>5 DEF RunTyped, Steps
<1>7. RunInv(y) /\ SameBase(x, y)
  BY <1>1, <1>2, <1>5 DEF RunInv, SameBase, Steps, Held, Early, Before, Bodied, Deltaed
<1>8. OutboxOK'
  BY Basics, OutboxSame DEF ReadDirectories
<1> QED BY <1>1, <1>4, <1>6, <1>7, <1>8, Basics, QuietRun DEF ReadDirectories

LEMMA ReadEntriesStep ==
  ASSUME IInv, NEW r \in Runs, ReadEntries(r)
  PROVE  IInv' /\ UNCHANGED <<history, head, Stored, HeadDelta>>
<1>1. PICK x : x = run[r] /\ RunTyped(x) /\ RunInv(x) /\ x.pc = "entries"
  BY Basics DEF ReadEntries, At
<1>2. OutboxOK'
  BY Basics, OutboxSame DEF ReadEntries
<1>3. PICK b : b = Body(r)
  OBVIOUS
<1>4. CASE /\ NoForeignEntries(DirectoryRows(history[run[r].seen]), EntryRows(history[MutationHead]))
           /\ ValidCheckpoint(Body(r))
  <2>1. PICK i : i = x.revision /\ i \in Revisions /\ x.seen \in Revisions
    BY <1>1 DEF RunInv, Held, Steps, Early, Before
  <2>2. history[i] \in Trees /\ history[x.seen] \in Trees
    BY <2>1, Basics DEF HistoryOK, Revisions
  <2>3. b = Assemble(i, DataRoots(history[i])[Root], DirectoryRows(history[x.seen]),
                     EntryRows(history[MutationHead]))
    BY <1>1, <1>3, <2>1 DEF Body
  <2>4. b = Checkpoint(i, history[i])
    BY <1>3, <1>4, <2>2, <2>3, ValidMixture
  <2>5. PICK y : y = [x EXCEPT !.pc = "record checkpoint", !.body = b, !.seen = 0]
    OBVIOUS
  <2>6. run' = [run EXCEPT ![r] = y]
    BY <1>1, <1>3, <1>4, <2>5 DEF ReadEntries
  <2>7. /\ DOMAIN y = RunFields /\ y.pc = "record checkpoint" /\ y.revision = x.revision
        /\ y.owner = x.owner /\ y.previous = x.previous /\ y.seen = 0 /\ y.body = b
        /\ y.version = x.version /\ y.delta = x.delta /\ y.age = x.age /\ y.target = x.target
    BY <1>1, <2>5 DEF RunTyped, RunFields
  <2>8. 0 \in 0..Len(history)
    BY Basics, Numbered
  <2>9. RunTyped(y)
    BY <1>1, <2>7, <2>8 DEF RunTyped, Steps
  <2>10. RunInv(y) /\ SameBase(x, y)
    BY <1>1, <2>1, <2>4, <2>7 DEF RunInv, SameBase, Steps, Held, Early, Before, Bodied, Deltaed
  <2> QED BY <1>1, <1>2, <2>6, <2>9, <2>10, Basics, QuietRun DEF ReadEntries
<1>5. CASE ~ /\ NoForeignEntries(DirectoryRows(history[run[r].seen]),
                                 EntryRows(history[MutationHead]))
             /\ ValidCheckpoint(Body(r))
  <2>1. Goto(r, "failed")
    BY <1>5 DEF ReadEntries
  <2>2. MayGo(run[r], "failed")
    BY <1>1 DEF MayGo, Steps, Held, Early, Before, Bodied, Deltaed
  <2> QED BY <1>2, <2>1, <2>2, Basics, QuietGoto DEF ReadEntries
<1> QED BY <1>4, <1>5

LEMMA PrepareDeltaStep ==
  ASSUME IInv, NEW r \in Runs, PrepareDelta(r)
  PROVE  IInv' /\ UNCHANGED <<history, head, Stored, HeadDelta>>
<1>1. PICK x : x = run[r] /\ RunTyped(x) /\ RunInv(x) /\ x.pc = "base"
  BY Basics DEF PrepareDelta, At
<1>2. OutboxOK'
  BY Basics, OutboxSame DEF PrepareDelta
<1>3. PICK i, b, base : i = x.revision /\ b = x.previous.revision /\ base = objects.checkpoint[b]
  OBVIOUS
<1>4. PICK body : body = BuildDelta(base.body, x.body)
  OBVIOUS
<1>5. ASSUME NEW pc, pc \in {"discard", "fence"}, Goto(r, pc)
      PROVE  IInv' /\ UNCHANGED <<history, head, Stored, HeadDelta>>
  <2>1. MayGo(run[r], pc)
    BY <1>1, <1>5 DEF MayGo, Steps, Held, Early, Before, Bodied, Deltaed
  <2> QED BY <1>2, <1>5, <2>1, Basics, QuietGoto DEF PrepareDelta
<1>6. ASSUME base.there,
             run' = [run EXCEPT ![r].pc = "record delta",
                                ![r].delta = [base |-> b, version |-> 0, body |-> body]]
      PROVE  IInv' /\ UNCHANGED <<history, head, Stored, HeadDelta>>
  <2>1. /\ i \in Revisions /\ x.previous # NoReceipt /\ b \in 1..(i - 1)
        /\ x.body = Checkpoint(i, history[i])
    BY <1>1, <1>3 DEF RunInv, Bodied
  <2>2. b \in Revisions /\ b \in Nat /\ b # 0
    BY <2>1, Basics, Numbered
  <2>3. base.body = Checkpoint(b, history[b])
    BY <1>3, <1>6, <2>2 DEF IInv, CheckpointInv
  <2>4. body = DeltaOf(b, i)
    BY <1>4, <2>1, <2>3 DEF DeltaOf
  <2>5. PICK d : d = [base |-> b, version |-> 0, body |-> body]
    OBVIOUS
  <2>6. /\ DOMAIN d = DeltaFields /\ d.base = b /\ d.version = 0 /\ d.body = body
        /\ d # NoDelta
    BY <2>2, <2>5 DEF DeltaFields, NoDelta
  <2>7. PICK y : y = [x EXCEPT !.pc = "record delta", !.delta = d]
    OBVIOUS
  <2>8. run' = [run EXCEPT ![r] = y]
    BY <1>1, <1>6, <2>5, <2>7
  <2>9. /\ DOMAIN y = RunFields /\ y.pc = "record delta" /\ y.revision = x.revision
        /\ y.owner = x.owner /\ y.previous = x.previous /\ y.seen = x.seen /\ y.body = x.body
        /\ y.version = x.version /\ y.delta = d /\ y.age = x.age /\ y.target = x.target
    BY <1>1, <2>7 DEF RunTyped, RunFields
  <2>10. RunTyped(y)
    <3>1. d.base \in Nat /\ d.version \in Nat
      BY <2>2, <2>6
    <3>2. DOMAIN y.delta = DeltaFields /\ y.delta.base \in Nat /\ y.delta.version \in Nat
      BY <2>6, <2>9, <3>1
    <3> QED BY <1>1, <2>9, <3>2 DEF RunTyped, Steps
  <2>11. objects.delta[i].version \in Nat
    BY <2>1, Basics DEF ObjectsOK, ObjectTyped, Kinds
  <2>12. d.version <= objects.delta[i].version
    BY <2>6, <2>11
  <2>13. RunInv(y) /\ SameBase(x, y)
    BY <1>1, <1>3, <2>1, <2>4, <2>6, <2>9, <2>12
       DEF RunInv, SameBase, Steps, Held, Early, Before, Bodied, Deltaed
  <2> QED BY <1>1, <1>2, <2>8, <2>10, <2>13, Basics, QuietRun DEF PrepareDelta
<1>7. \/ Goto(r, "discard") \/ Goto(r, "fence")
      \/ /\ base.there
         /\ run' = [run EXCEPT ![r].pc = "record delta",
                               ![r].delta = [base |-> b, version |-> 0, body |-> body]]
  BY <1>1, <1>3, <1>4 DEF PrepareDelta
<1> QED BY <1>5, <1>6, <1>7

LEMMA DiscardDeltaStep ==
  ASSUME IInv, NEW r \in Runs, DiscardDelta(r)
  PROVE  IInv' /\ UNCHANGED <<history, head, Stored, HeadDelta>>
<1>1. PICK x : x = run[r] /\ RunTyped(x) /\ RunInv(x) /\ x.pc = "discard"
  BY Basics DEF DiscardDelta, At
<1>2. PICK pc : pc = CASE rows.delta[run[r].revision].state = "writing" -> "discard object"
                       [] rows.delta[run[r].revision].state = "staged"  -> "orphan delta"
                       [] OTHER -> "fence"
  OBVIOUS
<1>3. pc \in {"discard object", "orphan delta", "fence"}
  BY <1>2
<1>4. PICK y : y = [x EXCEPT !.delta = NoDelta, !.pc = pc]
  OBVIOUS
<1>5. run' = [run EXCEPT ![r] = y]
  BY <1>1, <1>2, <1>4 DEF DiscardDelta
<1>6. /\ DOMAIN y = RunFields /\ y.pc = pc /\ y.revision = x.revision
      /\ y.owner = x.owner /\ y.previous = x.previous /\ y.seen = x.seen /\ y.body = x.body
      /\ y.version = x.version /\ y.delta = NoDelta /\ y.age = x.age /\ y.target = x.target
  BY <1>1, <1>4 DEF RunTyped, RunFields
<1>7. DOMAIN NoDelta = DeltaFields /\ NoDelta.base = 0 /\ NoDelta.version = 0
  BY DEF NoDelta, DeltaFields
<1>8. RunTyped(y)
  <2>1. NoDelta.base \in Nat /\ NoDelta.version \in Nat
    BY <1>7
  <2>2. DOMAIN y.delta = DeltaFields /\ y.delta.base \in Nat /\ y.delta.version \in Nat
    BY <1>6, <1>7, <2>1
  <2> QED BY <1>1, <1>3, <1>6, <2>2 DEF RunTyped, Steps
<1>9. RunInv(y) /\ SameBase(x, y)
  BY <1>1, <1>3, <1>6 DEF RunInv, SameBase, Steps, Held, Early, Before, Bodied, Deltaed
<1>10. OutboxOK'
  BY Basics, OutboxSame DEF DiscardDelta
<1> QED BY <1>1, <1>5, <1>8, <1>9, <1>10, Basics, QuietRun DEF DiscardDelta

LEMMA FenceStep ==
  ASSUME IInv, NEW r \in Runs, Fence(r)
  PROVE  IInv' /\ UNCHANGED <<history, head, Stored, HeadDelta>>
<1>1. PICK x : x = run[r] /\ RunTyped(x) /\ x.pc = "fence"
  BY Basics DEF Fence, At
<1>2. PICK pc : pc = (IF Current(r, 0) THEN "publish" ELSE "orphan") /\ pc \in {"publish", "orphan"}
  OBVIOUS
<1>3. PICK y : y = [x EXCEPT !.pc = pc, !.age = 0]
  OBVIOUS
<1>4. run' = [run EXCEPT ![r] = y]
  BY <1>1, <1>2, <1>3 DEF Fence
<1>5. Follows(x, y) /\ y.pc = pc
  BY <1>1, <1>3 DEF Follows, RunTyped, RunFields
<1>6. MayGo(x, y.pc)
  BY <1>1, <1>2, <1>5 DEF MayGo, Steps, Held, Early, Before, Bodied, Deltaed
<1>7. OutboxOK'
  BY Basics, OutboxSame DEF Fence
<1> QED BY <1>1, <1>4, <1>5, <1>6, <1>7, Basics, QuietGo DEF Fence

\* The base of a revision is taken when the head is below it: it is the head,
\* and so was every base taken for this revision before.
LEMMA ReadPreviousStep ==
  ASSUME IInv, NEW r \in Runs, ReadPrevious(r)
  PROVE  IInv' /\ UNCHANGED <<history, head, Stored, HeadDelta>>
<1>1. PICK x : x = run[r] /\ RunTyped(x) /\ RunInv(x) /\ x.pc = "previous"
  BY Basics DEF ReadPrevious, At
<1>2. OutboxOK'
  BY Basics, OutboxSame DEF ReadPrevious
<1>3. PICK i : i = x.revision /\ i \in Revisions
  BY <1>1 DEF RunInv, Held, Steps, Early, Before
<1>4. PICK p : p = IF head # 0 /\ head < i /\ rows.checkpoint[head].state = "published"
                   THEN [revision |-> head, version |-> rows.checkpoint[head].version]
                   ELSE NoReceipt
  OBVIOUS
<1>5. /\ p \in [revision : 0..Len(history), version : Nat]
      /\ p # NoReceipt => p.revision = head /\ head \in 1..(i - 1) /\ head \in Revisions
  <2>1. CASE head # 0 /\ head < i /\ rows.checkpoint[head].state = "published"
    <3>1. head \in Revisions /\ head \in 0..Len(history) /\ i \in Nat /\ head \in 1..(i - 1)
      BY <1>3, <2>1, Basics, Numbered DEF HistoryOK
    <3>2. rows.checkpoint[head].version \in Nat
      BY <3>1, Basics DEF RowsOK, RowSet, Kinds
    <3>3. p = [revision |-> head, version |-> rows.checkpoint[head].version]
      BY <1>4, <2>1
    <3> QED BY <3>1, <3>2, <3>3
  <2>2. CASE ~(head # 0 /\ head < i /\ rows.checkpoint[head].state = "published")
    <3>1. 0 \in 0..Len(history)
      BY Basics, Numbered
    <3>2. p = NoReceipt
      BY <1>4, <2>2
    <3> QED BY <3>1, <3>2 DEF NoReceipt
  <2> QED BY <2>1, <2>2
<1>6. PICK y : y = [x EXCEPT !.pc = "directories", !.previous = p]
  OBVIOUS
<1>7. run' = [run EXCEPT ![r] = y]
  BY <1>1, <1>3, <1>4, <1>6 DEF ReadPrevious
<1>8. /\ DOMAIN y = RunFields /\ y.pc = "directories" /\ y.revision = x.revision
      /\ y.owner = x.owner /\ y.previous = p /\ y.seen = x.seen /\ y.body = x.body
      /\ y.version = x.version /\ y.delta = x.delta /\ y.age = x.age /\ y.target = x.target
  BY <1>1, <1>6 DEF RunTyped, RunFields
<1>9. RunTyped(y)
  BY <1>1, <1>5, <1>8 DEF RunTyped, Steps
<1>10. x.previous = NoReceipt /\ x.delta = NoDelta
  BY <1>1 DEF RunInv, Early
<1>11. RunInv(y)
  BY <1>1, <1>3, <1>5, <1>8, <1>10 DEF RunInv, Steps, Held, Early, Before, Bodied, Deltaed
<1>12. CASE p = NoReceipt
  <2>1. SameBase(x, y)
    BY <1>8, <1>12 DEF SameBase
  <2> QED BY <1>1, <1>2, <1>7, <1>9, <1>11, <2>1, Basics, QuietRun DEF ReadPrevious
<1>13. CASE p # NoReceipt
  <2>1. Env
    BY Basics, EnvSame DEF ReadPrevious
  <2>2. RunTyped(y)' /\ RunInv(y)'
    BY <1>9, <1>11, <2>1, TypedKept, RunKept
  <2>3. RunsOK' /\ \A s \in Runs : RunInv(run[s])'
    BY <1>7, <2>1, <2>2, Basics, OneRun
  <2>4. run'[r] = y /\ \A s \in Runs : s # r => run'[s] = run[s]
    BY <1>7, Basics DEF RunsOK
  <2>5. /\ Revisions' = Revisions /\ Revisions = 1..Len(history) /\ Len(history) \in Nat
        /\ rows' = rows /\ objects' = objects /\ head' = head
    BY Basics, Numbered DEF ReadPrevious, Revisions
  <2>6. ASSUME NEW j \in Revisions, NEW b \in Revisions, BaseClaim(j, b)'
        PROVE  BaseClaim(j, b) \/ (j = i /\ b = head)
    <3>1. CASE \E s \in Runs : /\ run'[s].previous # NoReceipt
                               /\ run'[s].revision = j /\ run'[s].previous.revision = b
      <4>1. PICK s \in Runs : /\ run'[s].previous # NoReceipt
                              /\ run'[s].revision = j /\ run'[s].previous.revision = b
        BY <3>1
      <4>2. CASE s = r
        BY <1>3, <1>5, <1>8, <2>4, <4>1, <4>2
      <4>3. CASE s # r
        BY <2>4, <4>1, <4>3 DEF BaseClaim
      <4> QED BY <4>2, <4>3
    <3>2. CASE \/ rows.delta[j].state # "none" /\ rows.delta[j].base = b
               \/ objects.delta[j].there /\ objects.delta[j].body.baseRevision = b
      BY <3>2 DEF BaseClaim
    <3> QED BY <2>5, <2>6, <3>1, <3>2 DEF BaseClaim
  <2>7. head < i /\ i \in Nat /\ head \in Nat
    BY <1>3, <1>5, <1>13, <2>5
  <2>8. \A b \in Revisions : BaseClaim(i, b) => b = head
    BY <1>3, <2>7 DEF IInv, BaseInv
  <2>9. \A j, b \in Revisions : BaseClaim(j, b)' => b = head \/ head >= j
    BY <2>6 DEF IInv, BaseInv
  <2>10. \A j, b, c \in Revisions : BaseClaim(j, b)' /\ BaseClaim(j, c)' => b = c
    BY <2>6, <2>8 DEF IInv, BaseInv
  <2>11. BaseInv'
    BY <2>5, <2>9, <2>10 DEF BaseInv
  <2>12. RowsOK' /\ collapsed' \subseteq Revisions
    BY <2>5, Basics DEF ReadPrevious, RowsOK, HistoryOK
  <2>13. CheckpointRows /\ DeltaRows
    BY <2>5, RowsSame
  <2> QED BY <1>2, <2>3, <2>11, <2>12, <2>13, Basics, TableStep DEF ReadPrevious
<1> QED BY <1>12, <1>13

-----------------------------------------------------------------------------
(* Steps of the tables *)

LEMMA TableGoto ==
  ASSUME IInv, history' = history, head' = head, published' = published, objects' = objects,
         collapsed' \subseteq Revisions, due' \in BOOLEAN, faults' \in 0..MaxFaults,
         OutboxOK', RowsOK', CheckpointRows, DeltaRows,
         NEW r \in Runs, NEW pc, Goto(r, pc), MayGo(run[r], pc)
  PROVE  IInv' /\ UNCHANGED <<history, head, Stored, HeadDelta>>
<1>1. PICK y : run' = [run EXCEPT ![r] = y] /\ Follows(run[r], y) /\ y.pc = pc
  BY Basics, GotoRun
<1>2. Env
  BY Basics, EnvSame
<1>3. PICK x : x = run[r]
  OBVIOUS
<1>4. RunTyped(y)' /\ RunInv(y)'
  BY <1>1, <1>2, <1>3, Basics, GoKept
<1>5. SameBase(run[r], y)
  BY <1>1, FollowsBase
<1> QED BY <1>1, <1>4, <1>5, RunStep

LEMMA PutRow ==
  ASSUME RowsOK, history' = history, NEW k \in Kinds, NEW i \in Revisions, NEW v \in RowSet,
         rows' = Put(rows, k, i, v)
  PROVE  /\ RowsOK' /\ rows'[k][i] = v
         /\ \A l \in Kinds, j \in Revisions : l # k \/ j # i => rows'[l][j] = rows[l][j]
<1>1. Revisions' = Revisions
  BY DEF Revisions
<1>2. PICK f : f = [rows[k] EXCEPT ![i] = v]
  OBVIOUS
<1>3. /\ f \in [Revisions -> RowSet] /\ f[i] = v
      /\ \A j \in Revisions : j # i => f[j] = rows[k][j]
  BY <1>2 DEF RowsOK
<1>4. rows' = [rows EXCEPT ![k] = f]
  BY <1>2 DEF Put
<1>5. rows' \in [Kinds -> [Revisions -> RowSet]] /\ rows'[k] = f
  BY <1>3, <1>4 DEF RowsOK
<1>6. \A l \in Kinds : l # k => rows'[l] = rows[l]
  BY <1>4 DEF RowsOK
<1> QED BY <1>1, <1>3, <1>5, <1>6 DEF RowsOK

\* One row changes.
LEMMA PutRowStep ==
  ASSUME IInv, history' = history, head' = head, published' = published, objects' = objects,
         collapsed' = collapsed, outbox' = outbox, due' = due, faults' = faults,
         NEW k \in Kinds, NEW i \in Revisions, NEW v \in RowSet, rows' = Put(rows, k, i, v),
         k = "checkpoint" => CheckpointRow(i, v), k = "delta" => DeltaRow(i, v)
  PROVE  /\ RowsOK' /\ CheckpointRows /\ DeltaRows /\ OutboxOK'
         /\ collapsed' \subseteq Revisions /\ due' \in BOOLEAN /\ faults' \in 0..MaxFaults
<1>1. /\ RowsOK' /\ rows'[k][i] = v
      /\ \A l \in Kinds, j \in Revisions : l # k \/ j # i => rows'[l][j] = rows[l][j]
  BY Basics, PutRow
<1>2. ASSUME NEW j \in Revisions PROVE CheckpointRow(j, rows'["checkpoint"][j])
  <2>1. CASE k = "checkpoint" /\ j = i
    BY <1>1, <2>1
  <2>2. CASE ~(k = "checkpoint" /\ j = i)
    BY <1>1, <2>2, RowKept, KindsAre
  <2> QED BY <2>1, <2>2
<1>3. ASSUME NEW j \in Revisions PROVE DeltaRow(j, rows'["delta"][j])
  <2>1. CASE k = "delta" /\ j = i
    BY <1>1, <2>1
  <2>2. CASE ~(k = "delta" /\ j = i)
    BY <1>1, <2>2, RowKept, KindsAre
  <2> QED BY <2>1, <2>2
<1>4. OutboxOK'
  BY Basics, OutboxSame
<1>5. collapsed' \subseteq Revisions /\ due' \in BOOLEAN /\ faults' \in 0..MaxFaults
  BY Basics DEF HistoryOK
<1> QED BY <1>1, <1>2, <1>3, <1>4, <1>5 DEF CheckpointRows, DeltaRows

LEMMA ForgetRowStep ==
  ASSUME IInv, NEW r \in Runs, NEW k \in Kinds, ForgetRow(r, k)
  PROVE  IInv' /\ UNCHANGED <<history, head, Stored, HeadDelta>>
<1>1. PICK x : x = run[r] /\ RunTyped(x) /\ RunInv(x) /\ x.pc = Forgetting[k]
  BY Basics DEF ForgetRow, At
<1>2. x.pc = "forget checkpoint" \/ x.pc = "forget delta"
  BY <1>1, KindsAre, StepsOf
<1>3. PICK i : i = x.target.revision /\ i \in Revisions
  BY <1>1, <1>2 DEF RunInv
<1>4. PICK pc : pc = AfterSweep(k) /\ pc \in {"sweep checkpoint", "claim"}
  BY DEF AfterSweep
<1>5. PICK t : t = Idle.target
  OBVIOUS
<1>6. PICK y : y = [x EXCEPT !.pc = pc, !.target = t]
  OBVIOUS
<1>7. run' = [run EXCEPT ![r] = y]
  BY <1>1, <1>4, <1>5, <1>6 DEF ForgetRow
<1>8. /\ DOMAIN y = RunFields /\ y.pc = pc /\ y.revision = x.revision
      /\ y.owner = x.owner /\ y.previous = x.previous /\ y.seen = x.seen /\ y.body = x.body
      /\ y.version = x.version /\ y.delta = x.delta /\ y.age = x.age /\ y.target = t
  BY <1>1, <1>6 DEF RunTyped, RunFields
<1>9. t \in [revision : 0..Len(history), state : {"none", "writing", "orphaned"}]
  BY <1>5, Basics, IdleTyped DEF RunTyped
<1>10. RunTyped(y)
  BY <1>1, <1>4, <1>8, <1>9 DEF RunTyped, Steps
<1>11. x.previous = NoReceipt /\ x.delta = NoDelta
  BY <1>1, <1>2 DEF RunInv, Early, Before
<1>12. RunInv(y) /\ SameBase(x, y)
  BY <1>4, <1>8, <1>11 DEF RunInv, SameBase, Held, Early, Before, Bodied, Deltaed
<1>13. CASE rows' = rows
  <2>1. OutboxOK'
    BY Basics, OutboxSame DEF ForgetRow
  <2> QED BY <1>1, <1>7, <1>10, <1>12, <1>13, <2>1, Basics, QuietRun DEF ForgetRow
<1>14. CASE /\ rows[k][i].state = x.target.state
            /\ k = "checkpoint" => i # head
            /\ rows' = Put(rows, k, i, NoRow)
  <2>1. x.target.state # "published"
    BY <1>1 DEF RunTyped
  <2>2. k = "checkpoint" => CheckpointRow(i, NoRow)
    BY <1>14, EmptyTyped DEF CheckpointRow
  <2>3. k = "delta" => rows.delta[i].state # "published"
    BY <1>14, <2>1
  <2>4. NoRow.version <= objects.delta[i].version
    <3>1. objects.delta[i].version \in Nat
      BY <1>3, Basics DEF ObjectsOK, ObjectTyped, Kinds
    <3> QED BY <3>1, EmptyTyped
  <2>5. k = "delta" => DeltaRow(i, NoRow)
    BY <2>3, <2>4, EmptyTyped DEF DeltaRow
  <2>6. /\ RowsOK' /\ CheckpointRows /\ DeltaRows /\ OutboxOK'
        /\ collapsed' \subseteq Revisions /\ due' \in BOOLEAN /\ faults' \in 0..MaxFaults
    BY <1>3, <1>14, <2>2, <2>5, EmptyTyped, PutRowStep DEF ForgetRow
  <2>7. Env
    BY Basics, EnvSame DEF ForgetRow
  <2>8. RunTyped(y)' /\ RunInv(y)'
    BY <1>10, <1>12, <2>7, TypedKept, RunKept
  <2> QED BY <1>1, <1>7, <1>12, <2>6, <2>8, RunStep DEF ForgetRow
<1> QED BY <1>1, <1>3, <1>13, <1>14 DEF ForgetRow

LEMMA RecordWritingStep ==
  ASSUME IInv, NEW r \in Runs, NEW k \in Kinds, RecordWriting(r, k)
  PROVE  IInv' /\ UNCHANGED <<history, head, Stored, HeadDelta>>
<1>1. PICK x : x = run[r] /\ RunTyped(x) /\ RunInv(x) /\ x.pc = Recording[k]
  BY Basics DEF RecordWriting, At
<1>2. \/ x.pc = "record checkpoint" /\ k = "checkpoint"
      \/ x.pc = "record delta" /\ k = "delta"
  BY <1>1, KindsAre, StepsOf
<1>3. PICK i : i = x.revision /\ i \in Revisions
  BY <1>1, <1>2 DEF RunInv, Held, Steps, Before
<1>4. PICK base : base = IF k = "checkpoint" THEN 0 ELSE x.delta.base
  OBVIOUS
<1>5. PICK row : row = IF rows[k][i].state = "none"
                       THEN [NoRow EXCEPT !.state = "writing", !.base = base, !.age = x.age]
                       ELSE rows[k][i]
  OBVIOUS
<1>6. /\ MayGo(run[r], Wrong(k)) /\ MayGo(run[r], Storing[k])
  <2>1. CASE k = "checkpoint"
    <3>1. Wrong(k) = "failed" /\ Storing[k] = "store checkpoint" /\ x.pc = "record checkpoint"
      BY <1>2, <2>1, StepsOf DEF Wrong
    <3> QED BY <1>1, <3>1 DEF MayGo, Steps, Held, Early, Before, Bodied, Deltaed
  <2>2. CASE k = "delta"
    <3>1. Wrong(k) = "discard" /\ Storing[k] = "store delta" /\ x.pc = "record delta"
      BY <1>2, <2>2, StepsOf DEF Wrong
    <3> QED BY <1>1, <3>1 DEF MayGo, Steps, Held, Early, Before, Bodied, Deltaed
  <2> QED BY <2>1, <2>2, KindsAre
<1>7. PICK pc : Goto(r, pc) /\ MayGo(run[r], pc)
  BY <1>6 DEF RecordWriting
<1>8. CASE rows' = rows
  <2>1. OutboxOK'
    BY Basics, OutboxSame DEF RecordWriting
  <2> QED BY <1>7, <1>8, <2>1, Basics, QuietGoto DEF RecordWriting
<1>9. CASE rows' = Put(rows, k, i, row)
  <2>1. rows[k][i] \in RowSet
    BY <1>3, Basics DEF RowsOK
  <2>2. CASE rows[k][i].state = "none"
    <3>1. base \in Nat /\ x.age \in Nat
      BY <1>1, <1>4 DEF RunTyped
    <3>2. row \in RowSet /\ row.state = "writing" /\ row.base = base /\ row.version = 0
      BY <1>5, <2>2, <3>1 DEF NoRow, RowSet
    <3>3. k = "checkpoint" => CheckpointRow(i, row)
      <4>1. k = "checkpoint" => i # head
        BY <1>3, <2>2, Basics, Numbered DEF IInv, CheckpointInv, CheckpointDeliverable
      <4> QED BY <3>2, <4>1 DEF CheckpointRow
    <3>4. k = "delta" => DeltaRow(i, row)
      <4> SUFFICES ASSUME k = "delta" PROVE DeltaRow(i, row)
        OBVIOUS
      <4>1. x.pc = "record delta" /\ base = x.delta.base
        BY <1>2, <1>4
      <4>2. /\ x.previous # NoReceipt /\ base = x.previous.revision /\ base \in 1..(i - 1)
        BY <1>1, <1>3, <4>1 DEF RunInv, Deltaed
      <4>3. BaseClaim(i, base)
        BY <1>1, <1>3, <4>2 DEF BaseClaim
      <4>4. objects.delta[i].version \in Nat
        BY <1>3, Basics DEF ObjectsOK, ObjectTyped, Kinds
      <4>5. row.version <= objects.delta[i].version
        BY <3>2, <4>4
      <4> QED BY <2>2, <3>2, <4>2, <4>3, <4>5 DEF DeltaRow
    <3>5. /\ RowsOK' /\ CheckpointRows /\ DeltaRows /\ OutboxOK'
          /\ collapsed' \subseteq Revisions /\ due' \in BOOLEAN /\ faults' \in 0..MaxFaults
      BY <1>3, <1>9, <3>2, <3>3, <3>4, PutRowStep DEF RecordWriting
    <3> QED BY <1>7, <3>5, TableGoto DEF RecordWriting
  <2>3. CASE rows[k][i].state # "none"
    <3>1. row = rows[k][i]
      BY <1>5, <2>3
    <3>2. k = "checkpoint" => CheckpointRow(i, row)
      BY <1>3, <3>1, RowKept
    <3>3. k = "delta" => DeltaRow(i, row)
      BY <1>3, <3>1, RowKept
    <3>4. /\ RowsOK' /\ CheckpointRows /\ DeltaRows /\ OutboxOK'
          /\ collapsed' \subseteq Revisions /\ due' \in BOOLEAN /\ faults' \in 0..MaxFaults
      BY <1>3, <1>9, <2>1, <3>1, <3>2, <3>3, PutRowStep DEF RecordWriting
    <3> QED BY <1>7, <3>4, TableGoto DEF RecordWriting
  <2> QED BY <2>2, <2>3
<1>10. rows' = rows \/ rows' = Put(rows, k, i, row)
  BY <1>1, <1>3, <1>4, <1>5 DEF RecordWriting
<1> QED BY <1>8, <1>9, <1>10

LEMMA MarkStagedStep ==
  ASSUME IInv, NEW r \in Runs, NEW k \in Kinds, MarkStaged(r, k)
  PROVE  IInv' /\ UNCHANGED <<history, head, Stored, HeadDelta>>
<1>1. PICK x : x = run[r] /\ RunTyped(x) /\ RunInv(x) /\ x.pc = Staging[k]
  BY Basics DEF MarkStaged, At
<1>2. \/ x.pc = "stage checkpoint" /\ k = "checkpoint"
      \/ x.pc = "stage delta" /\ k = "delta"
  BY <1>1, KindsAre, StepsOf
<1>3. PICK i : i = x.revision /\ i \in Revisions
  BY <1>1, <1>2 DEF RunInv, Held, Steps, Before
<1>4. PICK version : version = IF k = "checkpoint" THEN x.version ELSE x.delta.version
  OBVIOUS
<1>5. PICK row : row = IF rows[k][i].state = "writing"
                       THEN [rows[k][i] EXCEPT !.state = "staged", !.version = version,
                                               !.age = x.age]
                       ELSE rows[k][i]
  OBVIOUS
<1>6. /\ MayGo(run[r], Wrong(k)) /\ MayGo(run[r], "fence")
      /\ k = "checkpoint" /\ x.previous # NoReceipt => MayGo(run[r], "base")
  <2>1. CASE k = "checkpoint"
    <3>1. Wrong(k) = "failed" /\ x.pc = "stage checkpoint"
      BY <1>2, <2>1 DEF Wrong
    <3> QED BY <1>1, <3>1 DEF MayGo, Steps, Held, Early, Before, Bodied, Deltaed
  <2>2. CASE k = "delta"
    <3>1. Wrong(k) = "discard" /\ x.pc = "stage delta"
      BY <1>2, <2>2 DEF Wrong
    <3> QED BY <1>1, <2>2, <3>1 DEF MayGo, Steps, Held, Early, Before, Bodied, Deltaed
  <2> QED BY <2>1, <2>2, KindsAre
<1>7. PICK pc : Goto(r, pc) /\ MayGo(run[r], pc)
  BY <1>1, <1>6 DEF MarkStaged
<1>8. rows' = Put(rows, k, i, row)
  BY <1>1, <1>3, <1>4, <1>5 DEF MarkStaged
<1>9. rows[k][i] \in RowSet
  BY <1>3, Basics DEF RowsOK
<1>10. /\ row \in RowSet
       /\ k = "checkpoint" => CheckpointRow(i, row)
       /\ k = "delta" => DeltaRow(i, row)
  <2>1. CASE rows[k][i].state = "writing"
    <3>1. version \in Nat /\ x.age \in Nat
      BY <1>1, <1>4 DEF RunTyped
    <3>2. row \in RowSet /\ row.state = "staged" /\ row.base = rows[k][i].base /\ row.version = version
      BY <1>5, <1>9, <2>1, <3>1 DEF RowSet
    <3>3. k = "checkpoint" => CheckpointRow(i, row)
      <4> SUFFICES ASSUME k = "checkpoint" PROVE CheckpointRow(i, row)
        OBVIOUS
      <4>1. i # head
        BY <1>3, <2>1, Basics, Numbered DEF IInv, CheckpointInv, CheckpointDeliverable
      <4>2. i = MutationHead => /\ objects.checkpoint[i].there
                                /\ objects.checkpoint[i].version = version
        BY <1>1, <1>2, <1>3, <1>4 DEF RunInv
      <4> QED BY <3>2, <4>1, <4>2 DEF CheckpointRow
    <3>4. k = "delta" => DeltaRow(i, row)
      <4> SUFFICES ASSUME k = "delta" PROVE DeltaRow(i, row)
        OBVIOUS
      <4>1. x.pc = "stage delta" /\ version = x.delta.version
        BY <1>2, <1>4
      <4>2. version <= objects.delta[i].version
        BY <1>1, <1>3, <4>1 DEF RunInv, Deltaed
      <4>3. DeltaRow(i, rows.delta[i])
        BY <1>3, RowKept
      <4> QED BY <2>1, <3>2, <4>2, <4>3 DEF DeltaRow
    <3> QED BY <3>2, <3>3, <3>4
  <2>2. CASE rows[k][i].state # "writing"
    BY <1>3, <1>5, <1>9, <2>2, RowKept
  <2> QED BY <2>1, <2>2
<1>11. /\ RowsOK' /\ CheckpointRows /\ DeltaRows /\ OutboxOK'
       /\ collapsed' \subseteq Revisions /\ due' \in BOOLEAN /\ faults' \in 0..MaxFaults
  BY <1>3, <1>8, <1>10, PutRowStep DEF MarkStaged
<1> QED BY <1>7, <1>11, TableGoto DEF MarkStaged

\* A row nobody publishes or stages any more may be orphaned.
LEMMA OrphanRow ==
  ASSUME IInv, NEW k \in Kinds, NEW i \in Revisions, NEW age \in Nat, NEW v,
         rows[k][i].state # "none",
         Unreachable(i) \/ (k = "delta" /\ rows[k][i].state # "published"),
         v = [rows[k][i] EXCEPT !.state = "orphaned", !.age = age]
  PROVE  /\ v \in RowSet
         /\ k = "checkpoint" => CheckpointRow(i, v)
         /\ k = "delta" => DeltaRow(i, v)
<1>1. rows[k][i] \in RowSet
  BY Basics DEF RowsOK
<1>2. /\ v \in RowSet /\ v.state = "orphaned" /\ v.base = rows[k][i].base
      /\ v.version = rows[k][i].version
  BY <1>1 DEF RowSet
<1>3. k = "checkpoint" => CheckpointRow(i, v)
  BY <1>2 DEF CheckpointRow, Unreachable
<1>4. k = "delta" => DeltaRow(i, v)
  <2>1. DeltaRow(i, rows.delta[i])
    BY RowKept
  <2> QED BY <1>2, <2>1 DEF DeltaRow, Unreachable
<1> QED BY <1>2, <1>3, <1>4

LEMMA DiscardRowStep ==
  ASSUME IInv, NEW r \in Runs, DiscardRow(r)
  PROVE  IInv' /\ UNCHANGED <<history, head, Stored, HeadDelta>>
<1>1. PICK x : x = run[r] /\ RunInv(x) /\ x.pc \in {"discard row", "orphan delta"}
  BY Basics DEF DiscardRow, At
<1>2. PICK i : i = x.revision /\ i \in Revisions
  BY <1>1 DEF RunInv, Held, Steps, Before
<1>3. Goto(r, "fence") /\ MayGo(run[r], "fence")
  BY <1>1 DEF DiscardRow, MayGo, Steps, Held, Early, Before, Bodied, Deltaed
<1>4. CASE rows' = rows
  <2>1. OutboxOK'
    BY Basics, OutboxSame DEF DiscardRow
  <2> QED BY <1>3, <1>4, <2>1, Basics, QuietGoto DEF DiscardRow
<1>5. ASSUME NEW v \in RowSet, rows' = Put(rows, "delta", i, v), DeltaRow(i, v)
      PROVE  IInv' /\ UNCHANGED <<history, head, Stored, HeadDelta>>
  <2>1. PICK k \in Kinds : k = "delta" /\ k # "checkpoint"
    BY KindsAre
  <2>2. /\ RowsOK' /\ CheckpointRows /\ DeltaRows /\ OutboxOK'
        /\ collapsed' \subseteq Revisions /\ due' \in BOOLEAN /\ faults' \in 0..MaxFaults
    BY <1>2, <1>5, <2>1, PutRowStep DEF DiscardRow
  <2> QED BY <1>3, <2>2, TableGoto DEF DiscardRow
<1>6. CASE rows.delta[i].state = "writing" /\ rows' = Put(rows, "delta", i, NoRow)
  <2>1. objects.delta[i].version \in Nat
    BY <1>2, Basics DEF ObjectsOK, ObjectTyped, Kinds
  <2>2. NoRow.version <= objects.delta[i].version
    BY <2>1, EmptyTyped
  <2>3. DeltaRow(i, NoRow)
    BY <1>6, <2>2, EmptyTyped DEF DeltaRow
  <2> QED BY <1>5, <1>6, <2>3, EmptyTyped
<1>7. ASSUME NEW v, v = [rows.delta[i] EXCEPT !.state = "orphaned", !.age = 0],
             rows.delta[i].state = "staged", rows' = Put(rows, "delta", i, v)
      PROVE  IInv' /\ UNCHANGED <<history, head, Stored, HeadDelta>>
  <2>1. PICK k \in Kinds : k = "delta"
    BY KindsAre
  <2>2. v \in RowSet /\ DeltaRow(i, v)
    BY <1>2, <1>7, <2>1, OrphanRow
  <2> QED BY <1>5, <1>7, <2>2
<1> QED BY <1>1, <1>2, <1>4, <1>6, <1>7 DEF DiscardRow

LEMMA WholeTable ==
  ASSUME IInv, history' = history, rows' = [k \in Kinds |-> rows'[k]],
         \A k \in Kinds : rows'[k] = [i \in Revisions |-> rows'[k][i]],
         \A k \in Kinds, i \in Revisions :
           /\ rows'[k][i] \in RowSet
           /\ k = "checkpoint" => CheckpointRow(i, rows'[k][i])
           /\ k = "delta" => DeltaRow(i, rows'[k][i])
  PROVE  RowsOK' /\ CheckpointRows /\ DeltaRows
<1>1. \A k \in Kinds : rows'[k] \in [Revisions -> RowSet]
  OBVIOUS
<1>2. rows' \in [Kinds -> [Revisions -> RowSet]]
  BY <1>1
<1>3. Revisions' = Revisions
  BY DEF Revisions
<1>4. RowsOK'
  BY <1>2, <1>3 DEF RowsOK
<1>5. CheckpointRows /\ DeltaRows
  BY KindsAre DEF CheckpointRows, DeltaRows
<1> QED BY <1>4, <1>5

LEMMA MarkOrphanedStep ==
  ASSUME IInv, NEW r \in Runs, MarkOrphaned(r)
  PROVE  IInv' /\ UNCHANGED <<history, head, Stored, HeadDelta>>
<1>1. PICK x : x = run[r] /\ RunTyped(x) /\ RunInv(x) /\ x.pc = "orphan"
  BY Basics DEF MarkOrphaned, At
<1>2. PICK i, a : i = x.revision /\ i \in Revisions /\ a = x.age /\ a \in Nat
  BY <1>1 DEF RunInv, RunTyped, Held, Steps, Before
<1>3. Goto(r, "release") /\ MayGo(run[r], "release") /\ history' = history
  BY <1>1 DEF MarkOrphaned, MayGo, Steps, Held, Early, Before, Bodied, Deltaed
<1>4. rows' = [k \in Kinds |-> IF rows[k][i].state = "staged" /\ Unreachable(i)
                               THEN [rows[k] EXCEPT ![i] = [@ EXCEPT !.state = "orphaned", !.age = a]]
                               ELSE rows[k]]
  BY <1>1, <1>2 DEF MarkOrphaned
<1>5. ASSUME NEW k \in Kinds, NEW j \in Revisions
      PROVE  /\ rows'[k] = [n \in Revisions |-> rows'[k][n]]
             /\ rows'[k][j] \in RowSet
             /\ k = "checkpoint" => CheckpointRow(j, rows'[k][j])
             /\ k = "delta" => DeltaRow(j, rows'[k][j])
  <2>1. rows[k] \in [Revisions -> RowSet]
    BY Basics DEF RowsOK
  <2>2. CASE rows[k][i].state = "staged" /\ Unreachable(i)
    <3>1. PICK v : v = [rows[k][i] EXCEPT !.state = "orphaned", !.age = a]
      OBVIOUS
    <3>2. /\ v \in RowSet
          /\ k = "checkpoint" => CheckpointRow(i, v)
          /\ k = "delta" => DeltaRow(i, v)
      BY <1>2, <2>2, <3>1, OrphanRow
    <3>3. rows'[k] = [rows[k] EXCEPT ![i] = v]
      BY <1>4, <2>2, <3>1
    <3>4. CASE j = i
      BY <1>2, <2>1, <3>2, <3>3, <3>4
    <3>5. CASE j # i
      BY <2>1, <3>3, <3>2, <3>5, RowKept
    <3> QED BY <3>4, <3>5
  <2>3. CASE ~(rows[k][i].state = "staged" /\ Unreachable(i))
    <3>1. rows'[k] = rows[k]
      BY <1>4, <2>3
    <3> QED BY <2>1, <3>1, RowKept
  <2> QED BY <2>2, <2>3
<1>6. RowsOK' /\ CheckpointRows /\ DeltaRows
  <2>1. rows' = [k \in Kinds |-> rows'[k]]
    BY <1>4
  <2>2. \A k \in Kinds : rows'[k] = [n \in Revisions |-> rows'[k][n]]
    BY <1>2, <1>5
  <2> QED BY <1>3, <1>5, <2>1, <2>2, WholeTable
<1>7. OutboxOK' /\ collapsed' \subseteq Revisions /\ due' \in BOOLEAN /\ faults' \in 0..MaxFaults
  BY Basics, OutboxSame DEF MarkOrphaned, HistoryOK
<1> QED BY <1>3, <1>6, <1>7, TableGoto DEF MarkOrphaned

LEMMA CollapseHistoricalStep ==
  ASSUME IInv, NEW r \in Runs, CollapseHistorical(r)
  PROVE  IInv' /\ UNCHANGED <<history, head, Stored, HeadDelta>>
<1>1. PICK older : older = {i \in Revisions : i < head /\ i \notin published /\ i \notin collapsed}
  OBVIOUS
<1>2. PICK batch : batch = {i \in older : Cardinality({j \in older : j < i}) < Limit}
  OBVIOUS
<1>3. /\ collapsed' = collapsed \cup batch
      /\ rows' = [k \in Kinds |-> [i \in Revisions |->
           IF i \in batch /\ rows[k][i].state = "staged"
           THEN [rows[k][i] EXCEPT !.state = "orphaned", !.age = 0] ELSE rows[k][i]]]
      /\ outbox' = [i \in Revisions |->
           IF i \in batch
           THEN [outbox[i] EXCEPT !.state = "done", !.owner = 0, !.lease = Past, !.retry = Past]
           ELSE outbox[i]]
      /\ history' = history
  BY <1>1, <1>2 DEF CollapseHistorical
<1>4. \A i \in batch : i \in Revisions /\ i < head
  BY <1>1, <1>2
<1>5. \A i \in batch : Unreachable(i)
  <2>1. /\ head \in Nat /\ head <= Len(history) /\ MutationHead = Len(history)
        /\ Len(history) \in Nat /\ Revisions \subseteq Nat
    BY Basics, Numbered DEF HistoryOK
  <2> QED BY <1>4, <2>1 DEF Unreachable
<1>6. collapsed' \subseteq Revisions
  BY <1>3, <1>4, Basics DEF HistoryOK
<1>7. ASSUME NEW k \in Kinds, NEW j \in Revisions
      PROVE  /\ rows'[k] = [n \in Revisions |-> rows'[k][n]]
             /\ rows'[k][j] \in RowSet
             /\ k = "checkpoint" => CheckpointRow(j, rows'[k][j])
             /\ k = "delta" => DeltaRow(j, rows'[k][j])
  <2>1. rows[k][j] \in RowSet
    BY Basics DEF RowsOK
  <2>2. CASE j \in batch /\ rows[k][j].state = "staged"
    <3>1. PICK v : v = [rows[k][j] EXCEPT !.state = "orphaned", !.age = 0]
      OBVIOUS
    <3>2. /\ v \in RowSet
          /\ k = "checkpoint" => CheckpointRow(j, v)
          /\ k = "delta" => DeltaRow(j, v)
      BY <1>5, <2>2, <3>1, OrphanRow
    <3>3. rows'[k][j] = v /\ rows'[k] = [n \in Revisions |-> rows'[k][n]]
      BY <1>3, <2>2, <3>1
    <3> QED BY <3>2, <3>3
  <2>3. CASE ~(j \in batch /\ rows[k][j].state = "staged")
    <3>1. rows'[k][j] = rows[k][j] /\ rows'[k] = [n \in Revisions |-> rows'[k][n]]
      BY <1>3, <2>3
    <3> QED BY <2>1, <3>1, RowKept
  <2> QED BY <2>2, <2>3
<1>8. RowsOK' /\ CheckpointRows /\ DeltaRows
  <2>1. rows' = [k \in Kinds |-> rows'[k]]
    BY <1>3
  <2>2. \A k \in Kinds : rows'[k] = [n \in Revisions |-> rows'[k][n]]
    BY <1>7, Basics, Numbered
  <2> QED BY <1>3, <1>7, <2>1, <2>2, WholeTable
<1>9. OutboxOK'
  <2>1. ASSUME NEW i \in Revisions
        PROVE  outbox'[i] \in JobSet /\ (outbox'[i].state = "claimed" => outbox'[i].attempts > 0)
    <3>1. outbox[i] \in JobSet /\ (outbox[i].state = "claimed" => outbox[i].attempts > 0)
      BY Basics DEF OutboxOK, OutboxInv
    <3>2. PICK v : v = [outbox[i] EXCEPT !.state = "done", !.owner = 0, !.lease = Past,
                                         !.retry = Past]
      OBVIOUS
    <3>3. v \in JobSet /\ v.state = "done"
      BY <3>1, <3>2, Constants DEF JobSet
    <3>4. outbox'[i] = v \/ outbox'[i] = outbox[i]
      BY <1>3, <3>2
    <3> QED BY <3>1, <3>3, <3>4
  <2>2. Revisions' = Revisions
    BY <1>3 DEF Revisions
  <2>3. outbox' \in [Revisions -> JobSet]
    BY <1>3, <2>1
  <2> QED BY <2>1, <2>2, <2>3 DEF OutboxOK, OutboxInv
<1>10. Goto(r, "retire") /\ MayGo(run[r], "retire")
  BY DEF CollapseHistorical, At, MayGo, Steps, Held, Early, Before, Bodied, Deltaed
<1> QED BY <1>6, <1>8, <1>9, <1>10, Basics, TableGoto DEF CollapseHistorical

LEMMA RetireHistoricalStep ==
  ASSUME IInv, NEW r \in Runs, RetireHistorical(r)
  PROVE  IInv' /\ UNCHANGED <<history, head, Stored, HeadDelta>>
<1> DEFINE Ended(k) == {i \in Revisions : rows[k][i].state = "published" /\ Unreachable(i)}
           Retired(k) == First(Ended(k), Limit, [i \in Revisions |-> rows[k][i].age])
<1>1. /\ rows' = [k \in Kinds |-> [i \in Revisions |->
           IF i \in Retired(k) THEN [rows[k][i] EXCEPT !.state = "orphaned", !.age = 0]
           ELSE rows[k][i]]]
      /\ history' = history /\ run' = [run EXCEPT ![r] = Idle]
  BY DEF RetireHistorical
<1>2. \A k \in Kinds : Retired(k) \subseteq Ended(k)
  BY DEF First
<1>3. \A k \in Kinds : \A i \in Retired(k) : rows[k][i].state = "published" /\ Unreachable(i)
  BY <1>2
<1> HIDE DEF Retired, Ended
<1>4. ASSUME NEW k \in Kinds, NEW j \in Revisions
      PROVE  /\ rows'[k] = [n \in Revisions |-> rows'[k][n]]
             /\ rows'[k][j] \in RowSet
             /\ k = "checkpoint" => CheckpointRow(j, rows'[k][j])
             /\ k = "delta" => DeltaRow(j, rows'[k][j])
  <2>1. rows[k][j] \in RowSet
    BY Basics DEF RowsOK
  <2>2. CASE j \in Retired(k)
    <3>1. PICK v : v = [rows[k][j] EXCEPT !.state = "orphaned", !.age = 0]
      OBVIOUS
    <3>2. /\ v \in RowSet
          /\ k = "checkpoint" => CheckpointRow(j, v)
          /\ k = "delta" => DeltaRow(j, v)
      BY <1>3, <2>2, <3>1, OrphanRow
    <3>3. rows'[k][j] = v /\ rows'[k] = [n \in Revisions |-> rows'[k][n]]
      BY <1>1, <2>2, <3>1
    <3> QED BY <3>2, <3>3
  <2>3. CASE j \notin Retired(k)
    <3>1. rows'[k][j] = rows[k][j] /\ rows'[k] = [n \in Revisions |-> rows'[k][n]]
      BY <1>1, <2>3
    <3> QED BY <2>1, <3>1, RowKept
  <2> QED BY <2>2, <2>3
<1>5. RowsOK' /\ CheckpointRows /\ DeltaRows
  <2>1. rows' = [k \in Kinds |-> rows'[k]]
    BY <1>1
  <2>2. \A k \in Kinds : rows'[k] = [n \in Revisions |-> rows'[k][n]]
    BY <1>4, Basics, Numbered
  <2> QED BY <1>1, <1>4, <2>1, <2>2, WholeTable
<1>6. OutboxOK' /\ collapsed' \subseteq Revisions /\ due' \in BOOLEAN /\ faults' \in 0..MaxFaults
  BY Basics, OutboxSame DEF RetireHistorical, HistoryOK
<1>7. HistoryOK'
  BY Basics DEF RetireHistorical, HistoryOK, Revisions
<1>8. PICK y : y = Idle
  OBVIOUS
<1>9. RunTyped(y)' /\ RunInv(y)' /\ y.previous = NoReceipt
  BY <1>7, <1>8, Basics, IdleTyped, IdleTypedNext DEF RunTyped, RunInv, DeltaOf
<1>10. SameBase(run[r], y)
  BY <1>9 DEF SameBase
<1> QED BY <1>1, <1>5, <1>6, <1>8, <1>9, <1>10, RunStep DEF RetireHistorical

\* A run that only grew older.
LEMMA OlderKept ==
  ASSUME NEW x, NEW y, RunTyped(x), RunInv(x), Env, Follows(x, y), y.pc = x.pc
  PROVE  RunTyped(y)' /\ RunInv(y)'
<1>1. RunTyped(x)' /\ RunInv(x)'
  BY TypedKept, RunKept
<1>2. RunTyped(y)'
  BY <1>1 DEF RunTyped, Follows
<1>3. RunInv(y)'
  BY <1>1, ZenonT(60) DEF RunInv, DeltaOf, Follows
<1> QED BY <1>2, <1>3

LEMMA TickStep ==
  ASSUME IInv, Tick
  PROVE  IInv' /\ UNCHANGED <<history, head, Stored, HeadDelta>>
<1>1. /\ history' = history /\ head' = head /\ published' = published /\ objects' = objects
      /\ collapsed' \subseteq Revisions /\ due' \in BOOLEAN
  BY Basics DEF Tick, HistoryOK
<1>2. faults' \in 0..MaxFaults
  BY Basics DEF Tick
<1>3. Revisions' = Revisions
  BY <1>1 DEF Revisions
<1>4. OutboxOK'
  <2>1. outbox' = [i \in Revisions |-> [outbox[i] EXCEPT !.lease = Later(@), !.retry = Later(@)]]
    BY DEF Tick
  <2>2. ASSUME NEW i \in Revisions
        PROVE  outbox'[i] \in JobSet /\ (outbox'[i].state = "claimed" => outbox'[i].attempts > 0)
    <3>1. outbox[i] \in JobSet /\ (outbox[i].state = "claimed" => outbox[i].attempts > 0)
      BY Basics DEF OutboxOK, OutboxInv
    <3>2. PICK a, b : a = Later(outbox[i].lease) /\ b = Later(outbox[i].retry)
      OBVIOUS
    <3>3. a \in Int /\ b \in Int
      BY <3>1, <3>2, Constants DEF Later, JobSet
    <3>4. PICK v : v = [outbox[i] EXCEPT !.lease = a, !.retry = b]
      OBVIOUS
    <3>5. v \in JobSet /\ v.state = outbox[i].state /\ v.attempts = outbox[i].attempts
      BY <3>1, <3>3, <3>4 DEF JobSet
    <3>6. outbox'[i] = v
      BY <2>1, <3>2, <3>4
    <3> QED BY <3>1, <3>5, <3>6
  <2>3. outbox' \in [Revisions -> JobSet]
    BY <2>1, <2>2
  <2> QED BY <1>3, <2>2, <2>3 DEF OutboxOK, OutboxInv
<1>5. rows' = [k \in Kinds |-> [i \in Revisions |->
                 IF rows[k][i] = NoRow THEN NoRow ELSE [rows[k][i] EXCEPT !.age = Older(@)]]]
  BY DEF Tick
<1>6. ASSUME NEW k \in Kinds, NEW j \in Revisions
      PROVE  /\ rows'[k] = [n \in Revisions |-> rows'[k][n]]
             /\ rows'[k][j] \in RowSet
             /\ k = "checkpoint" => CheckpointRow(j, rows'[k][j])
             /\ k = "delta" => DeltaRow(j, rows'[k][j])
  <2>1. rows[k][j] \in RowSet
    BY Basics DEF RowsOK
  <2>2. PICK a : a = Older(rows[k][j].age)
    OBVIOUS
  <2>3. a \in Nat
    BY <2>1, <2>2 DEF Older, RowSet
  <2>4. PICK v : v = [rows[k][j] EXCEPT !.age = a]
    OBVIOUS
  <2>5. /\ v \in RowSet /\ v.state = rows[k][j].state /\ v.base = rows[k][j].base
        /\ v.version = rows[k][j].version
    BY <2>1, <2>3, <2>4 DEF RowSet
  <2>6. k = "checkpoint" => CheckpointRow(j, v)
    <3>1. CheckpointRow(j, rows.checkpoint[j])
      BY RowKept
    <3> QED BY <2>5, <3>1 DEF CheckpointRow
  <2>7. k = "delta" => DeltaRow(j, v)
    <3>1. DeltaRow(j, rows.delta[j])
      BY RowKept
    <3> QED BY <2>5, <3>1 DEF DeltaRow
  <2>8. rows'[k] = [n \in Revisions |-> rows'[k][n]]
    BY <1>5
  <2>9. rows'[k][j] = v \/ rows'[k][j] = rows[k][j]
    BY <1>5, <2>2, <2>4
  <2> QED BY <2>1, <2>5, <2>6, <2>7, <2>8, <2>9, RowKept
<1>7. RowsOK' /\ CheckpointRows /\ DeltaRows
  <2>1. rows' = [k \in Kinds |-> rows'[k]]
    BY <1>5
  <2>2. \A k \in Kinds : rows'[k] = [n \in Revisions |-> rows'[k][n]]
    BY <1>6, Basics, Numbered
  <2> QED BY <1>1, <1>6, <2>1, <2>2, WholeTable
<1>8. Env
  BY <1>1, Basics, EnvSame
<1>9. ASSUME NEW r \in Runs
      PROVE  RunTyped(run[r])' /\ RunInv(run[r])' /\ SameBase(run[r], run'[r])
  <2>1. PICK x : x = run[r] /\ RunTyped(x) /\ RunInv(x)
    BY Basics
  <2>2. PICK y : y = IF Active(r) THEN [x EXCEPT !.age = @ + 1] ELSE x
    OBVIOUS
  <2>3. run'[r] = y
    BY <2>1, <2>2 DEF Tick
  <2>4. Follows(x, y) /\ y.pc = x.pc
    <3>1. PICK a : a = x.age + 1 /\ a \in Nat
      BY <2>1, SMTT(30) DEF RunTyped
    <3>2. y = [x EXCEPT !.age = a] \/ y = x
      BY <2>2, <3>1
    <3>3. CASE y = [x EXCEPT !.age = a]
      BY <2>1, <3>1, <3>3 DEF Follows, RunTyped, RunFields
    <3>4. CASE y = x
      BY <2>1, <3>4 DEF Follows, RunTyped
    <3> QED BY <3>2, <3>3, <3>4
  <2>5. RunTyped(y)' /\ RunInv(y)'
    BY <1>8, <2>1, <2>4, OlderKept
  <2>6. SameBase(x, y)
    BY <2>4, FollowsBase
  <2>7. RunTyped(run[r])' /\ RunInv(run[r])'
    BY <2>3, <2>5, ZenonT(60) DEF RunTyped, RunInv, DeltaOf
  <2> QED BY <2>1, <2>3, <2>6, <2>7
<1>10. DOMAIN run' = Runs
  BY DEF Tick
<1>11. RunsOK'
  BY <1>9, <1>10 DEF RunsOK
<1> QED BY <1>1, <1>2, <1>4, <1>7, <1>9, <1>11, RowStep

-----------------------------------------------------------------------------
(* Steps of the bucket *)

\* The checkpoint object o may take the place of the one of revision i.
CheckpointObject(i, o) ==
  /\ ObjectTyped(o)
  /\ i \in {head, MutationHead} /\ objects.checkpoint[i].there => o = objects.checkpoint[i]
  /\ o.there => o.body = Checkpoint(i, history[i])

\* The same for a delta object.
DeltaObject(i, o) ==
  /\ ObjectTyped(o)
  /\ objects.delta[i].version <= o.version
  /\ o.there => /\ \E b \in 1..(i - 1) : o.body = DeltaOf(b, i) /\ o.body.baseRevision = b
                /\ BaseClaim(i, o.body.baseRevision)

LEMMA ObjectKept ==
  ASSUME IInv, NEW i \in Revisions
  PROVE  CheckpointObject(i, objects.checkpoint[i]) /\ DeltaObject(i, objects.delta[i])
<1>1. ObjectTyped(objects.checkpoint[i]) /\ ObjectTyped(objects.delta[i])
  BY Basics DEF ObjectsOK, Kinds
<1>2. CheckpointObject(i, objects.checkpoint[i])
  BY <1>1 DEF CheckpointObject, IInv, CheckpointInv
<1>3. DeltaObject(i, objects.delta[i])
  <2>1. objects.delta[i].version <= objects.delta[i].version
    BY <1>1 DEF ObjectTyped
  <2> QED BY <1>1, <2>1 DEF DeltaObject, IInv, DeltaInv, BaseClaim
<1> QED BY <1>2, <1>3

\* One object changes.
LEMMA PutObject ==
  ASSUME IInv, history' = history, head' = head,
         NEW k \in Kinds, NEW i \in Revisions, NEW o, objects' = Put(objects, k, i, o),
         k = "checkpoint" => CheckpointObject(i, o), k = "delta" => DeltaObject(i, o)
  PROVE  /\ ObjectsOK' /\ objects'[k][i] = o
         /\ \A l \in Kinds, j \in Revisions : l # k \/ j # i => objects'[l][j] = objects[l][j]
         /\ \A j \in Revisions : /\ CheckpointObject(j, objects'.checkpoint[j])
                                 /\ DeltaObject(j, objects'.delta[j])
<1>1. Revisions' = Revisions
  BY DEF Revisions
<1>2. PICK f : f = [objects[k] EXCEPT ![i] = o]
  OBVIOUS
<1>3. DOMAIN objects[k] = Revisions /\ DOMAIN objects = Kinds
  BY Basics DEF ObjectsOK
<1>4. /\ DOMAIN f = Revisions /\ f[i] = o
      /\ \A j \in Revisions : j # i => f[j] = objects[k][j]
  BY <1>2, <1>3
<1>5. objects' = [objects EXCEPT ![k] = f]
  BY <1>2 DEF Put
<1>6. DOMAIN objects' = Kinds /\ objects'[k] = f /\ \A l \in Kinds : l # k => objects'[l] = objects[l]
  BY <1>3, <1>5
<1>7. \A l \in Kinds, j \in Revisions : l # k \/ j # i => objects'[l][j] = objects[l][j]
  BY <1>4, <1>6
<1>8. ObjectTyped(o)
  BY KindsAre DEF CheckpointObject, DeltaObject
<1>9. \A l \in Kinds : DOMAIN objects'[l] = Revisions
  BY <1>4, <1>6, Basics DEF ObjectsOK
<1>10. \A l \in Kinds, j \in Revisions : ObjectTyped(objects'[l][j])
  BY <1>4, <1>6, <1>7, <1>8, Basics DEF ObjectsOK
<1>11. ObjectsOK'
  <2>1. \A l \in Kinds : objects[l] = [j \in Revisions |-> objects[l][j]]
    BY Basics DEF ObjectsOK
  <2>2. f = [j \in Revisions |-> f[j]]
    BY <1>2, <1>3
  <2>3. \A l \in Kinds : objects'[l] = [j \in Revisions |-> objects'[l][j]]
    BY <1>6, <2>1, <2>2, ZenonT(60)
  <2>4. objects' = [l \in Kinds |-> objects'[l]]
    BY <1>3, <1>5
  <2>5. objects' = [l \in Kinds |-> [j \in Revisions |-> objects'[l][j]]]
    BY <2>3, <2>4
  <2> QED BY <1>1, <1>6, <1>9, <1>10, <2>5 DEF ObjectsOK
<1>12. ASSUME NEW j \in Revisions PROVE CheckpointObject(j, objects'["checkpoint"][j])
  <2>1. CASE k = "checkpoint" /\ j = i
    BY <1>4, <1>6, <2>1
  <2>2. CASE ~(k = "checkpoint" /\ j = i)
    BY <1>7, <2>2, ObjectKept, KindsAre
  <2> QED BY <2>1, <2>2
<1>13. ASSUME NEW j \in Revisions PROVE DeltaObject(j, objects'["delta"][j])
  <2>1. CASE k = "delta" /\ j = i
    BY <1>4, <1>6, <2>1
  <2>2. CASE ~(k = "delta" /\ j = i)
    BY <1>7, <2>2, ObjectKept, KindsAre
  <2> QED BY <2>1, <2>2
<1> QED BY <1>4, <1>6, <1>7, <1>11, <1>12, <1>13

LEMMA PutObjectEnv ==
  ASSUME IInv, history' = history, head' = head, ObjectsOK',
         \A j \in Revisions : /\ CheckpointObject(j, objects'.checkpoint[j])
                              /\ DeltaObject(j, objects'.delta[j])
  PROVE  Env
<1>1. Len(history) \in Nat /\ head \in Nat /\ MutationHead = Len(history) /\ Revisions' = Revisions
  BY Basics, Numbered DEF HistoryOK, Revisions
<1>2. \A i \in Revisions : objects.delta[i].version \in Nat /\ objects'.delta[i].version \in Nat
  BY <1>1, Basics DEF ObjectsOK, ObjectTyped, Kinds
<1> QED BY <1>1, <1>2 DEF Env, CheckpointObject, DeltaObject

\* The invariant after a step of the bucket.
LEMMA ObjectStep ==
  ASSUME IInv, history' = history, head' = head, published' = published, collapsed' = collapsed,
         outbox' = outbox, rows' = rows, due' = due, faults' = faults, ObjectsOK',
         \A j \in Revisions : /\ CheckpointObject(j, objects'.checkpoint[j])
                              /\ DeltaObject(j, objects'.delta[j]),
         RunsOK', \A r \in Runs : RunInv(run[r])', \A r \in Runs : SameBase(run[r], run'[r])
  PROVE  IInv'
<1>1. /\ Revisions' = Revisions /\ MutationHead' = MutationHead /\ MutationHead \in Revisions
      /\ head # 0 => head \in Revisions
  BY Basics, Numbered DEF Revisions, MutationHead
<1>2. HistoryOK' /\ OutboxOK' /\ RowsOK' /\ due' \in BOOLEAN /\ faults' \in 0..MaxFaults
  BY <1>1, Basics, OutboxSame DEF HistoryOK, RowsOK
<1>3. TypeOK' /\ OutboxInv'
  BY <1>2, JoinTypes
<1>4. CheckpointInv'
  <2>1. /\ head # 0 => head \in published
        /\ \A i \in Revisions : rows.checkpoint[i].state = "orphaned" => i # MutationHead
    BY DEF IInv, CheckpointInv
  <2>2. rows.checkpoint[MutationHead].state = "staged" =>
          /\ objects'.checkpoint[MutationHead].there
          /\ objects'.checkpoint[MutationHead].version = rows.checkpoint[MutationHead].version
    BY <1>1 DEF IInv, CheckpointInv, CheckpointObject
  <2>3. CheckpointDeliverable'
    <3>1. CheckpointDeliverable
      BY DEF IInv, CheckpointInv
    <3>2. head # 0 /\ objects.checkpoint[head].there =>
            objects'.checkpoint[head] = objects.checkpoint[head]
      BY <1>1 DEF CheckpointObject
    <3> QED BY <3>1, <3>2 DEF CheckpointDeliverable
  <2>4. \A i \in Revisions' : objects'.checkpoint[i].there =>
          objects'.checkpoint[i].body = Checkpoint(i, history'[i])
    BY <1>1 DEF CheckpointObject
  <2> QED BY <1>1, <2>1, <2>2, <2>3, <2>4 DEF CheckpointInv
<1>5. DeltaInv'
  <2>1. ASSUME NEW i \in Revisions
        PROVE  rows.delta[i].version <= objects'.delta[i].version
    <3>1. /\ rows.delta[i].version \in Nat /\ objects.delta[i].version \in Nat
          /\ objects'.delta[i].version \in Nat
      BY <1>1, Basics DEF RowsOK, RowSet, ObjectsOK, ObjectTyped, Kinds
    <3>2. rows.delta[i].version <= objects.delta[i].version
      BY DEF IInv, DeltaInv
    <3>3. objects.delta[i].version <= objects'.delta[i].version
      BY DEF DeltaObject
    <3> QED BY <3>1, <3>2, <3>3
  <2>2. \A i \in Revisions : objects'.delta[i].there =>
          \E b \in 1..(i - 1) : /\ objects'.delta[i].body = DeltaOf(b, i)
                                /\ objects'.delta[i].body.baseRevision = b
    BY DEF DeltaObject
  <2> QED BY <1>1, <2>1, <2>2 DEF DeltaInv, DeltaOf, IInv
<1>6. BaseInv'
  <2>1. /\ \A i \in Revisions : rows'.delta[i].state # "none" => BaseClaim(i, rows'.delta[i].base)
        /\ DOMAIN run' = Runs
    BY DEF BaseClaim, RunsOK
  <2>2. \A i \in Revisions : objects'.delta[i].there =>
                                BaseClaim(i, objects'.delta[i].body.baseRevision)
    BY DEF DeltaObject
  <2>3. HistoryOK /\ BaseInv
    BY Basics DEF IInv
  <2> QED BY <2>1, <2>2, <2>3, BaseKept
<1> QED BY <1>3, <1>4, <1>5, <1>6 DEF IInv

\* One run goes on and one object changes.
LEMMA PutObjectGoto ==
  ASSUME IInv, history' = history, head' = head, published' = published, collapsed' = collapsed,
         outbox' = outbox, rows' = rows, due' = due, faults' = faults,
         NEW k \in Kinds, NEW i \in Revisions, NEW o, objects' = Put(objects, k, i, o),
         k = "checkpoint" => CheckpointObject(i, o), k = "delta" => DeltaObject(i, o),
         NEW r \in Runs, NEW pc, Goto(r, pc), MayGo(run[r], pc)
  PROVE  IInv'
<1>1. /\ ObjectsOK'
      /\ \A j \in Revisions : /\ CheckpointObject(j, objects'.checkpoint[j])
                              /\ DeltaObject(j, objects'.delta[j])
  BY PutObject
<1>2. Env
  BY <1>1, PutObjectEnv
<1>3. PICK y : run' = [run EXCEPT ![r] = y] /\ Follows(run[r], y) /\ y.pc = pc
  BY Basics, GotoRun
<1>4. PICK x : x = run[r] /\ RunTyped(x) /\ RunInv(x)
  BY Basics
<1>5. RunTyped(y)' /\ RunInv(y)' /\ SameBase(run[r], y)
  BY <1>2, <1>3, <1>4, GoKept, FollowsBase
<1>6. /\ RunsOK' /\ \A s \in Runs : RunInv(run[s])'
      /\ \A s \in Runs : SameBase(run[s], run'[s])
  BY <1>2, <1>3, <1>5, Basics, OneRun
<1> QED BY <1>1, <1>6, ObjectStep

\* What stays of an object that is removed: its version.
LEMMA RemovedObject ==
  ASSUME IInv, NEW k \in Kinds, NEW i \in Revisions
  PROVE  \E o : /\ Removed(k, i) = Put(objects, k, i, o)
                /\ ObjectTyped(o) /\ o.there = FALSE /\ o.version = objects[k][i].version
<1>1. PICK o : o = [NoObject EXCEPT !.version = objects[k][i].version]
  OBVIOUS
<1>2. ObjectTyped(objects[k][i])
  BY Basics DEF ObjectsOK
<1>3. ObjectTyped(o) /\ o.there = FALSE /\ o.version = objects[k][i].version
  BY <1>1, <1>2 DEF NoObject, ObjectTyped, ObjectFields
<1> QED BY <1>1, <1>3 DEF Removed

LEMMA DropObjectStep ==
  ASSUME IInv, NEW r \in Runs, NEW k \in Kinds, DropObject(r, k)
  PROVE  IInv'
<1>1. PICK x : x = run[r] /\ RunInv(x) /\ x.pc = Dropping[k]
  BY Basics DEF DropObject, At
<1>2. \/ x.pc = "drop checkpoint" /\ k = "checkpoint"
      \/ x.pc = "drop delta" /\ k = "delta"
  BY <1>1, KindsAre, StepsOf
<1>3. PICK i : i = x.target.revision /\ i \in Revisions
  BY <1>1, <1>2 DEF RunInv
<1>4. PICK o : /\ objects' = Put(objects, k, i, o)
               /\ ObjectTyped(o) /\ o.there = FALSE /\ o.version = objects[k][i].version
  BY <1>1, <1>3, RemovedObject, ZenonT(60) DEF DropObject
<1>5. k = "checkpoint" => CheckpointObject(i, o)
  BY <1>1, <1>2, <1>3, <1>4 DEF CheckpointObject, RunInv
<1>6. k = "delta" => DeltaObject(i, o)
  <2>1. o.version \in Nat
    BY <1>4 DEF ObjectTyped
  <2> QED BY <1>4, <2>1 DEF DeltaObject
<1>7. PICK pc : /\ pc = Forgetting[k] /\ Goto(r, pc)
                /\ \/ pc = "forget checkpoint"
                   \/ pc = "forget delta"
  BY KindsAre, StepsOf DEF DropObject
<1>8. MayGo(run[r], pc)
  BY <1>1, <1>2, <1>7 DEF MayGo, Steps, Held, Early, Before, Bodied, Deltaed
<1> QED BY <1>3, <1>4, <1>5, <1>6, <1>7, <1>8, PutObjectGoto DEF DropObject

LEMMA DiscardObjectStep ==
  ASSUME IInv, NEW r \in Runs, DiscardObject(r)
  PROVE  IInv'
<1>1. PICK x : x = run[r] /\ RunInv(x) /\ x.pc = "discard object"
  BY Basics DEF DiscardObject, At
<1>2. PICK k \in Kinds : k = "delta" /\ k # "checkpoint"
  BY KindsAre
<1>3. PICK i : i = x.revision /\ i \in Revisions
  BY <1>1 DEF RunInv, Held, Steps, Before
<1>4. PICK o : /\ objects' = Put(objects, k, i, o)
               /\ ObjectTyped(o) /\ o.there = FALSE /\ o.version = objects[k][i].version
  BY <1>1, <1>2, <1>3, RemovedObject, ZenonT(60) DEF DiscardObject
<1>5. DeltaObject(i, o)
  <2>1. o.version \in Nat
    BY <1>4 DEF ObjectTyped
  <2> QED BY <1>2, <1>4, <2>1 DEF DeltaObject
<1>6. Goto(r, "discard row") /\ MayGo(run[r], "discard row")
  BY <1>1 DEF DiscardObject, MayGo, Steps, Held, Early, Before, Bodied, Deltaed
<1> QED BY <1>2, <1>3, <1>4, <1>5, <1>6, PutObjectGoto DEF DiscardObject

\* What a run puts: the object that is there, or the body it made.
Puts(r, k, i, o) ==
  /\ i \in Revisions /\ objects' = Put(objects, k, i, o) /\ o.version \in Nat /\ o.there = TRUE
  /\ objects[k][i].there => o = objects[k][i]
  /\ ~objects[k][i].there => o.version = objects[k][i].version + 1
  /\ k = "checkpoint" =>
       /\ CheckpointObject(i, o)
       /\ run' = [run EXCEPT ![r].pc = "stage checkpoint", ![r].version = o.version]
  /\ k = "delta" =>
       /\ DeltaObject(i, o)
       /\ run' = [run EXCEPT ![r].pc = "stage delta", ![r].delta = [@ EXCEPT !.version = o.version]]

LEMMA StoredObject ==
  ASSUME IInv, NEW r \in Runs, NEW k \in Kinds, StoreImmutable(r, k), NEW i, i = run[r].revision
  PROVE  \E o : Puts(r, k, i, o)
<1>1. PICK x : x = run[r] /\ RunTyped(x) /\ RunInv(x) /\ x.pc = Storing[k]
  BY Basics DEF StoreImmutable, At
<1>2. \/ x.pc = "store checkpoint" /\ k = "checkpoint"
      \/ x.pc = "store delta" /\ k = "delta"
  BY <1>1, KindsAre, StepsOf
<1>3. i = x.revision /\ i \in Revisions
  BY <1>1, <1>2 DEF RunInv, Held, Steps, Before
<1>4. PICK b : b = IF k = "checkpoint" THEN x.body ELSE x.delta.body
  OBVIOUS
<1>5. PICK w : w = objects[k][i] /\ ObjectTyped(w)
  BY <1>3, Basics DEF ObjectsOK
<1>6. PICK o : o = IF w.there THEN w ELSE [there |-> TRUE, version |-> w.version + 1, body |-> b]
  OBVIOUS
<1>7. /\ objects' = Put(objects, k, i, o)
      /\ k = "checkpoint" =>
           run' = [run EXCEPT ![r].pc = "stage checkpoint", ![r].version = o.version]
      /\ k = "delta" =>
           run' = [run EXCEPT ![r].pc = "stage delta",
                              ![r].delta = [@ EXCEPT !.version = o.version]]
  BY <1>1, <1>3, <1>4, <1>5, <1>6 DEF StoreImmutable
<1>8. CASE w.there
  BY <1>1, <1>3, <1>5, <1>6, <1>7, <1>8, ObjectKept DEF ObjectTyped, Puts
<1>9. CASE ~w.there
  <2>1. ObjectTyped(o) /\ o.there = TRUE /\ o.version = w.version + 1 /\ o.body = b /\ o.version \in Nat
    BY <1>5, <1>6, <1>9 DEF ObjectTyped, ObjectFields
  <2>2. k = "checkpoint" => CheckpointObject(i, o)
    <3> SUFFICES ASSUME k = "checkpoint" PROVE CheckpointObject(i, o)
      OBVIOUS
    <3>1. o.body = Checkpoint(i, history[i])
      BY <1>1, <1>2, <1>3, <1>4, <2>1 DEF RunInv, Bodied
    <3> QED BY <1>5, <1>9, <2>1, <3>1 DEF CheckpointObject
  <2>3. k = "delta" => DeltaObject(i, o)
    <3> SUFFICES ASSUME k = "delta" PROVE DeltaObject(i, o)
      OBVIOUS
    <3>1. PICK c : c = x.delta.base
      OBVIOUS
    <3>2. /\ x.previous # NoReceipt /\ c = x.previous.revision /\ c \in 1..(i - 1)
          /\ o.body = DeltaOf(c, i)
      BY <1>1, <1>2, <1>3, <1>4, <2>1, <3>1 DEF RunInv, Deltaed
    <3>3. DeltaOf(c, i).baseRevision = Checkpoint(c, history[c]).revision
      BY DEF DeltaOf, BuildDelta
    <3>4. Checkpoint(c, history[c]).revision = c
      BY DEF Checkpoint, Assemble
    <3>5. o.body.baseRevision = c
      BY <3>2, <3>3, <3>4
    <3>6. BaseClaim(i, c)
      BY <1>1, <1>3, <3>2 DEF BaseClaim
    <3>7. objects.delta[i].version <= o.version
      BY <1>5, <2>1 DEF ObjectTyped
    <3> QED BY <2>1, <3>2, <3>5, <3>6, <3>7 DEF DeltaObject
  <2> QED BY <1>1, <1>3, <1>5, <1>7, <1>9, <2>1, <2>2, <2>3 DEF Puts
<1> QED BY <1>8, <1>9

LEMMA StoreImmutableStep ==
  ASSUME IInv, NEW r \in Runs, NEW k \in Kinds, StoreImmutable(r, k)
  PROVE  IInv'
<1>1. PICK x : x = run[r] /\ RunTyped(x) /\ RunInv(x) /\ x.pc = Storing[k]
  BY Basics DEF StoreImmutable, At
<1>2. \/ x.pc = "store checkpoint" /\ k = "checkpoint"
      \/ x.pc = "store delta" /\ k = "delta"
  BY <1>1, KindsAre, StepsOf
<1>3. PICK i : i = x.revision /\ i = run[r].revision
  BY <1>1
<1>4. PICK o : Puts(r, k, i, o)
  BY <1>3, StoredObject
<1>5. history' = history /\ head' = head
  BY DEF StoreImmutable
<1>6. /\ ObjectsOK' /\ objects'[k][i] = o
      /\ \A j \in Revisions : /\ CheckpointObject(j, objects'.checkpoint[j])
                              /\ DeltaObject(j, objects'.delta[j])
  BY <1>4, <1>5, PutObject, ZenonT(60) DEF Puts
<1>7. Env
  BY <1>5, <1>6, PutObjectEnv
<1>8. RunTyped(x)' /\ RunInv(x)'
  BY <1>1, <1>7, TypedKept, RunKept
<1>9. \E y : run' = [run EXCEPT ![r] = y] /\ RunTyped(y)' /\ RunInv(y)' /\ SameBase(x, y)
  <2>1. CASE k = "checkpoint"
    <3>1. PICK y : y = [x EXCEPT !.pc = "stage checkpoint", !.version = o.version]
      OBVIOUS
    <3>2. run' = [run EXCEPT ![r] = y]
      BY <1>1, <1>4, <2>1, <3>1 DEF Puts
    <3>3. /\ DOMAIN y = RunFields /\ y.pc = "stage checkpoint" /\ y.revision = x.revision
          /\ y.owner = x.owner /\ y.previous = x.previous /\ y.seen = x.seen /\ y.body = x.body
          /\ y.version = o.version /\ y.delta = x.delta /\ y.age = x.age /\ y.target = x.target
      BY <1>1, <3>1 DEF RunTyped, RunFields
    <3>4. RunTyped(y)'
      BY <1>4, <1>8, <3>3 DEF RunTyped, Steps, Puts
    <3>5. objects'.checkpoint[x.revision].there /\ objects'.checkpoint[x.revision].version = y.version
      BY <1>3, <1>4, <1>6, <2>1, <3>3, ZenonT(60) DEF Puts
    <3>6. RunInv(y)'
      BY <1>2, <1>8, <2>1, <3>3, <3>5
         DEF RunInv, DeltaOf, Steps, Held, Early, Before, Bodied, Deltaed
    <3>7. SameBase(x, y)
      BY <3>3 DEF SameBase
    <3> QED BY <3>2, <3>4, <3>6, <3>7
  <2>2. CASE k = "delta"
    <3>1. PICK d : d = [x.delta EXCEPT !.version = o.version]
      OBVIOUS
    <3>2. /\ DOMAIN d = DeltaFields /\ d.base = x.delta.base /\ d.version = o.version
          /\ d.body = x.delta.body
      BY <1>1, <3>1 DEF RunTyped, DeltaFields
    <3>3. PICK y : y = [x EXCEPT !.pc = "stage delta", !.delta = d]
      OBVIOUS
    <3>4. run' = [run EXCEPT ![r] = y]
      BY <1>1, <1>4, <2>2, <3>1, <3>3 DEF Puts
    <3>5. /\ DOMAIN y = RunFields /\ y.pc = "stage delta" /\ y.revision = x.revision
          /\ y.owner = x.owner /\ y.previous = x.previous /\ y.seen = x.seen /\ y.body = x.body
          /\ y.version = x.version /\ y.delta = d /\ y.age = x.age /\ y.target = x.target
      BY <1>1, <3>3 DEF RunTyped, RunFields
    <3>6. RunTyped(y)'
      <4>1. d.base \in Nat /\ d.version \in Nat
        BY <1>1, <1>4, <3>2 DEF RunTyped, Puts
      <4>2. DOMAIN y.delta = DeltaFields /\ y.delta.base \in Nat /\ y.delta.version \in Nat
        BY <3>2, <3>5, <4>1
      <4> QED BY <1>8, <3>5, <4>2 DEF RunTyped, Steps
    <3>7. x.delta # NoDelta /\ x.delta.base # 0
      <4>1. PICK b : b = x.delta.base
        OBVIOUS
      <4>2. x.delta # NoDelta /\ b \in 1..(i - 1) /\ i \in Nat
        BY <1>1, <1>2, <1>3, <1>4, <2>2, <4>1, Basics, Numbered DEF RunInv, Deltaed, Puts
      <4>3. b # 0
        BY <4>2
      <4> QED BY <4>1, <4>2, <4>3
    <3>8. d # NoDelta
      BY <3>2, <3>7 DEF NoDelta
    <3>9. d.version <= objects'.delta[x.revision].version
      <4>1. objects'.delta[x.revision] = o
        BY <1>3, <1>6, <2>2
      <4>2. o.version \in Nat
        BY <1>4 DEF Puts
      <4>3. o.version <= o.version
        BY <4>2
      <4> QED BY <3>2, <4>1, <4>3
    <3>10. RunInv(y)'
      BY <1>2, <1>8, <2>2, <3>2, <3>5, <3>7, <3>8, <3>9
         DEF RunInv, DeltaOf, Steps, Held, Early, Before, Bodied, Deltaed
    <3>11. SameBase(x, y)
      BY <3>5 DEF SameBase
    <3> QED BY <3>4, <3>6, <3>10, <3>11
  <2> QED BY <2>1, <2>2, KindsAre
<1>10. /\ RunsOK' /\ \A s \in Runs : RunInv(run[s])'
       /\ \A s \in Runs : SameBase(run[s], run'[s])
  BY <1>1, <1>7, <1>9, Basics, OneRun
<1> QED BY <1>6, <1>10, ObjectStep DEF StoreImmutable

-----------------------------------------------------------------------------
(* What the readers see of the bucket *)

LEMMA StoredIs ==
  /\ DOMAIN Stored = {j \in Revisions : objects.checkpoint[j].there}
  /\ \A j \in DOMAIN Stored : Stored[j] = objects.checkpoint[j].body
BY DEF Stored

LEMMA StoredNext ==
  ASSUME history' = history
  PROVE  Stored' = [j \in {j \in Revisions : objects'.checkpoint[j].there} |->
                      objects'.checkpoint[j].body]
BY DEF Stored, Revisions

LEMMA HeadDeltaKept ==
  ASSUME head' = head, rows' = rows, head # 0 => objects'.delta[head] = objects.delta[head]
  PROVE  HeadDelta' = HeadDelta
BY DEF HeadDelta

\* The delta of the head may be lost at any time.
LEMMA HeadDeltaLost ==
  ASSUME history' = history, head' = head, rows' = rows, Stored' = Stored,
         head # 0 => \/ objects'.delta[head] = objects.delta[head]
                     \/ objects'.delta[head].there = FALSE
  PROVE  Promise!LoseDelta \/ UNCHANGED <<history, head, Stored, HeadDelta>>
<1>1. CASE head # 0 /\ objects'.delta[head].there = FALSE
  <2>1. CASE rows.delta[head].state = "published" /\ HeadDelta.there
    <3>1. PICK b, t : /\ b = rows.delta[head].base
                      /\ t = (/\ objects.delta[head].there
                              /\ objects.delta[head].version = rows.delta[head].version)
      OBVIOUS
    <3>2. HeadDelta = [base |-> b, there |-> t]
      BY <1>1, <2>1, <3>1 DEF HeadDelta
    <3>3. HeadDelta' = [base |-> b, there |-> FALSE]
      BY <1>1, <2>1, <3>1 DEF HeadDelta
    <3>4. HeadDelta' = [HeadDelta EXCEPT !.there = FALSE]
      <4>1. t \in BOOLEAN
        BY <3>1
      <4>2. PICK h : h = HeadDelta /\ h = [base |-> b, there |-> t]
        BY <3>2
      <4>3. h \in [base : {b}, there : BOOLEAN]
        BY <4>1, <4>2
      <4>4. PICK g : g = [h EXCEPT !.there = FALSE]
        OBVIOUS
      <4>5. g \in [base : {b}, there : {FALSE}]
        BY <4>3, <4>4
      <4>6. g = [base |-> b, there |-> FALSE]
        BY <4>5
      <4> QED BY <3>3, <4>2, <4>4, <4>6
    <3> QED BY <2>1, <3>4 DEF Promise!LoseDelta
  <2>2. CASE rows.delta[head].state = "published" /\ ~HeadDelta.there
    <3>1. HeadDelta = [base |-> rows.delta[head].base, there |-> FALSE]
      BY <1>1, <2>2 DEF HeadDelta
    <3>2. HeadDelta' = [base |-> rows.delta[head].base, there |-> FALSE]
      BY <1>1, <2>2 DEF HeadDelta
    <3> QED BY <3>1, <3>2
  <2>3. CASE rows.delta[head].state # "published"
    BY <2>3 DEF HeadDelta
  <2> QED BY <2>1, <2>2, <2>3
<1>2. CASE head # 0 => objects'.delta[head] = objects.delta[head]
  BY <1>2, HeadDeltaKept
<1> QED BY <1>1, <1>2

LEMMA DropSeen ==
  ASSUME IInv, NEW r \in Runs, NEW k \in Kinds, DropObject(r, k)
  PROVE  Promise!PublisherNext \/ UNCHANGED <<history, head, Stored, HeadDelta>>
<1>1. PICK x : x = run[r] /\ RunInv(x) /\ x.pc = Dropping[k]
  BY Basics DEF DropObject, At
<1>2. \/ x.pc = "drop checkpoint" /\ k = "checkpoint"
      \/ x.pc = "drop delta" /\ k = "delta"
  BY <1>1, KindsAre, StepsOf
<1>3. PICK i : i = x.target.revision /\ i \in Revisions
  BY <1>1, <1>2 DEF RunInv
<1>4. PICK o : /\ objects' = Put(objects, k, i, o)
               /\ ObjectTyped(o) /\ o.there = FALSE /\ o.version = objects[k][i].version
  BY <1>1, <1>3, RemovedObject, ZenonT(60) DEF DropObject
<1>5. k = "checkpoint" => CheckpointObject(i, o)
  BY <1>1, <1>2, <1>3, <1>4 DEF CheckpointObject, RunInv
<1>6. k = "delta" => DeltaObject(i, o)
  <2>1. o.version \in Nat
    BY <1>4 DEF ObjectTyped
  <2> QED BY <1>4, <2>1 DEF DeltaObject
<1>7. history' = history /\ head' = head /\ rows' = rows
  BY DEF DropObject
<1>8. /\ objects'[k][i] = o
      /\ \A l \in Kinds, j \in Revisions : l # k \/ j # i => objects'[l][j] = objects[l][j]
  BY <1>3, <1>4, <1>5, <1>6, <1>7, PutObject
<1>9. head # 0 => head \in Revisions
  BY Basics, Numbered
<1>10. CASE k = "checkpoint"
  <2>1. HeadDelta' = HeadDelta
    BY <1>7, <1>8, <1>9, <1>10, HeadDeltaKept, KindsAre
  <2>2. i # head
    BY <1>1, <1>2, <1>3, <1>10 DEF RunInv
  <2>3. CASE objects.checkpoint[i].there
    <3>1. {j \in Revisions : objects'.checkpoint[j].there} = DOMAIN Stored \ {i}
      BY <1>4, <1>8, <1>10, StoredIs, KindsAre
    <3>2. Stored' = [j \in DOMAIN Stored \ {i} |-> objects'.checkpoint[j].body]
      BY <1>7, <3>1, StoredNext
    <3>3. \A j \in DOMAIN Stored \ {i} : objects'.checkpoint[j].body = Stored[j]
      BY <1>8, <1>10, StoredIs, KindsAre
    <3>4. Stored' = [j \in DOMAIN Stored \ {i} |-> Stored[j]]
      BY <3>2, <3>3
    <3>5. i \in DOMAIN Stored \ {head}
      BY <1>3, <2>2, <2>3, StoredIs
    <3>6. Promise!DropCheckpoint(i)
      BY <1>7, <2>1, <3>4, <3>5 DEF Promise!DropCheckpoint
    <3>7. i \in 1..Promise!MutationHead
      BY <1>3 DEF Promise!MutationHead, Revisions
    <3> QED BY <3>6, <3>7 DEF Promise!PublisherNext
  <2>4. CASE ~objects.checkpoint[i].there
    <3>1. {j \in Revisions : objects'.checkpoint[j].there} = DOMAIN Stored
      BY <1>4, <1>8, <1>10, <2>4, StoredIs, KindsAre
    <3>2. Stored' = [j \in DOMAIN Stored |-> objects'.checkpoint[j].body]
      BY <1>7, <3>1, StoredNext
    <3>3. \A j \in DOMAIN Stored : objects'.checkpoint[j].body = Stored[j]
      BY <1>8, <1>10, <2>4, StoredIs, KindsAre
    <3>4. Stored' = [j \in DOMAIN Stored |-> Stored[j]]
      BY <3>2, <3>3
    <3>5. Stored' = Stored
      BY <3>4 DEF Stored
    <3> QED BY <1>7, <2>1, <3>5
  <2> QED BY <2>3, <2>4
<1>11. CASE k = "delta"
  <2>1. \A j \in Revisions : objects'.checkpoint[j] = objects.checkpoint[j]
    BY <1>8, <1>11, KindsAre
  <2>2. Stored' = Stored
    BY <1>7, <2>1, StoredNext DEF Stored
  <2>3. head # 0 => \/ objects'.delta[head] = objects.delta[head]
                    \/ objects'.delta[head].there = FALSE
    BY <1>4, <1>8, <1>9, <1>11, KindsAre
  <2> QED BY <1>7, <2>2, <2>3, HeadDeltaLost DEF Promise!PublisherNext
<1> QED BY <1>10, <1>11, KindsAre

LEMMA DiscardSeen ==
  ASSUME IInv, NEW r \in Runs, DiscardObject(r)
  PROVE  Promise!PublisherNext \/ UNCHANGED <<history, head, Stored, HeadDelta>>
<1>1. PICK x : x = run[r] /\ RunInv(x) /\ x.pc = "discard object"
  BY Basics DEF DiscardObject, At
<1>2. PICK k \in Kinds : k = "delta" /\ k # "checkpoint"
  BY KindsAre
<1>3. PICK i : i = x.revision /\ i \in Revisions
  BY <1>1 DEF RunInv, Held, Steps, Before
<1>4. PICK o : /\ objects' = Put(objects, k, i, o)
               /\ ObjectTyped(o) /\ o.there = FALSE /\ o.version = objects[k][i].version
  BY <1>1, <1>2, <1>3, RemovedObject, ZenonT(60) DEF DiscardObject
<1>5. DeltaObject(i, o)
  <2>1. o.version \in Nat
    BY <1>4 DEF ObjectTyped
  <2> QED BY <1>2, <1>4, <2>1 DEF DeltaObject
<1>6. history' = history /\ head' = head /\ rows' = rows
  BY DEF DiscardObject
<1>7. /\ objects'[k][i] = o
      /\ \A l \in Kinds, j \in Revisions : l # k \/ j # i => objects'[l][j] = objects[l][j]
  BY <1>2, <1>3, <1>4, <1>5, <1>6, PutObject
<1>8. \A j \in Revisions : objects'.checkpoint[j] = objects.checkpoint[j]
  BY <1>2, <1>7, KindsAre
<1>9. Stored' = Stored
  BY <1>6, <1>8, StoredNext DEF Stored
<1>10. head # 0 => \/ objects'.delta[head] = objects.delta[head]
                   \/ objects'.delta[head].there = FALSE
  BY <1>2, <1>4, <1>7, Basics, Numbered
<1> QED BY <1>6, <1>9, <1>10, HeadDeltaLost DEF Promise!PublisherNext

\* Checkpoints are made of the same operators on both sides of the mapping.
LEMMA SameCheckpoint ==
  ASSUME NEW i, NEW t
  PROVE  Promise!Checkpoint(i, t) = Checkpoint(i, t)
BY DEF Checkpoint, Promise!Checkpoint, Directories, Promise!Directories, DataRoots,
       Promise!DataRoots, IsDirectory, Promise!IsDirectory, Assemble, Promise!Assemble,
       DirectoryRows, Promise!DirectoryRows, EntryRows, Promise!EntryRows

LEMMA StoreSeen ==
  ASSUME IInv, NEW r \in Runs, NEW k \in Kinds, StoreImmutable(r, k)
  PROVE  Promise!PublisherNext \/ UNCHANGED <<history, head, Stored, HeadDelta>>
<1>1. PICK i, o : Puts(r, k, i, o)
  BY StoredObject
<1>2. /\ history' = history /\ head' = head /\ rows' = rows
  BY DEF StoreImmutable
<1>3. /\ i \in Revisions /\ objects' = Put(objects, k, i, o) /\ o.there = TRUE
      /\ k = "checkpoint" => CheckpointObject(i, o)
      /\ k = "delta" => DeltaObject(i, o)
  BY <1>1 DEF Puts
<1>4. /\ objects'[k][i] = o
      /\ \A l \in Kinds, j \in Revisions : l # k \/ j # i => objects'[l][j] = objects[l][j]
  BY <1>2, <1>3, PutObject
<1>5. head # 0 => head \in Revisions
  BY Basics, Numbered
<1>6. CASE objects[k][i].there
  <2>1. o = objects[k][i]
    BY <1>1, <1>6 DEF Puts
  <2>2. \A l \in Kinds, j \in Revisions : objects'[l][j] = objects[l][j]
    BY <1>4, <2>1
  <2>3. \A j \in Revisions : /\ objects'.checkpoint[j] = objects.checkpoint[j]
                             /\ objects'.delta[j] = objects.delta[j]
    BY <2>2, KindsAre
  <2>4. Stored' = Stored
    BY <1>2, <2>3, StoredNext DEF Stored
  <2>5. HeadDelta' = HeadDelta
    BY <1>2, <1>5, <2>3, HeadDeltaKept
  <2> QED BY <1>2, <2>4, <2>5
<1>7. CASE ~objects[k][i].there /\ k = "checkpoint"
  <2>1. HeadDelta' = HeadDelta
    BY <1>2, <1>4, <1>5, <1>7, HeadDeltaKept, KindsAre
  <2>2. o.body = Checkpoint(i, history[i])
    BY <1>3, <1>7 DEF CheckpointObject
  <2>3. i \notin DOMAIN Stored
    BY <1>7, StoredIs
  <2>4. {j \in Revisions : objects'.checkpoint[j].there} = DOMAIN Stored \cup {i}
    BY <1>3, <1>4, <1>7, StoredIs, KindsAre
  <2>5. Stored' = [j \in DOMAIN Stored \cup {i} |-> objects'.checkpoint[j].body]
    BY <1>2, <2>4, StoredNext
  <2>6. \A j \in DOMAIN Stored \cup {i} :
          objects'.checkpoint[j].body =
            IF j = i THEN Promise!Checkpoint(i, history[i]) ELSE Stored[j]
    BY <1>4, <1>7, <2>2, SameCheckpoint, StoredIs, KindsAre
  <2>7. Stored' = [j \in DOMAIN Stored \cup {i} |->
                     IF j = i THEN Promise!Checkpoint(i, history[i]) ELSE Stored[j]]
    BY <2>5, <2>6
  <2>8. Promise!StoreCheckpoint(i)
    BY <1>2, <2>1, <2>3, <2>7 DEF Promise!StoreCheckpoint
  <2>9. i \in 1..Promise!MutationHead
    BY <1>3 DEF Promise!MutationHead, Revisions
  <2> QED BY <2>8, <2>9 DEF Promise!PublisherNext
<1>8. CASE ~objects[k][i].there /\ k = "delta"
  <2>1. \A j \in Revisions : objects'.checkpoint[j] = objects.checkpoint[j]
    BY <1>4, <1>8, KindsAre
  <2>2. Stored' = Stored
    BY <1>2, <2>1, StoredNext DEF Stored
  <2>3. HeadDelta' = HeadDelta
    <3>1. CASE head = i /\ rows.delta[i].state = "published"
      <4>1. /\ rows.delta[i].version \in Nat /\ objects.delta[i].version \in Nat
            /\ rows.delta[i].version <= objects.delta[i].version
        BY <1>3, Basics DEF RowsOK, RowSet, ObjectsOK, ObjectTyped, Kinds, IInv, DeltaInv
      <4>2. objects'.delta[i].version = objects.delta[i].version + 1
        BY <1>1, <1>4, <1>8 DEF Puts
      <4>3. objects'.delta[i].version # rows.delta[i].version
        BY <4>1, <4>2
      <4> QED BY <1>2, <1>8, <3>1, <4>3 DEF HeadDelta
    <3>2. CASE rows.delta[head].state # "published"
      BY <1>2, <3>2 DEF HeadDelta
    <3>3. CASE head # i
      BY <1>2, <1>4, <1>5, <3>3, HeadDeltaKept, KindsAre
    <3> QED BY <3>1, <3>2, <3>3
  <2> QED BY <1>2, <2>2, <2>3
<1> QED BY <1>6, <1>7, <1>8, KindsAre

-----------------------------------------------------------------------------
(* Publication *)

\* The row that is published keeps its base and its version.
Marks(v, row) == v.state = "published" /\ v.base = row.base /\ v.version = row.version

LEMMA MarkRow ==
  ASSUME RowsOK, NEW k \in Kinds, NEW i \in Revisions, NEW a \in Nat
  PROVE  \E v \in RowSet : /\ v = [rows[k][i] EXCEPT !.state = "published", !.age = a]
                           /\ Marks(v, rows[k][i])
<1>1. rows[k][i] \in RowSet
  BY DEF RowsOK
<1>2. PICK v : v = [rows[k][i] EXCEPT !.state = "published", !.age = a]
  OBVIOUS
<1>3. v \in RowSet /\ Marks(v, rows[k][i])
  BY <1>1, <1>2 DEF RowSet, Marks
<1> QED BY <1>2, <1>3

\* Deltas that are published with their revision, or after it.
LEMMA DeltaMarked ==
  ASSUME IInv, history' = history, objects' = objects, published \subseteq published',
         head' = head \/ head' = Len(history), DOMAIN run' = Runs,
         \A r \in Runs : SameBase(run[r], run'[r]),
         \A j \in Revisions :
           \/ rows'.delta[j] = rows.delta[j]
           \/ /\ j \in published' /\ rows.delta[j].state = "staged"
              /\ Marks(rows'.delta[j], rows.delta[j])
  PROVE  DeltaInv' /\ BaseInv'
<1>1. Revisions' = Revisions
  BY DEF Revisions
<1>2. DeltaInv'
  BY <1>1 DEF DeltaInv, DeltaOf, IInv, Marks
<1>3. \A i \in Revisions : rows'.delta[i].state # "none" => BaseClaim(i, rows'.delta[i].base)
  BY DEF BaseClaim, Marks
<1>4. \A i \in Revisions : objects'.delta[i].there =>
                              BaseClaim(i, objects'.delta[i].body.baseRevision)
  BY DEF BaseClaim
<1>5. HistoryOK /\ BaseInv
  BY Basics DEF IInv
<1>6. BaseInv'
  BY <1>3, <1>4, <1>5, BaseKept
<1> QED BY <1>2, <1>6

\* What the batch does, by its outcome.
LEMMA PublishEffect ==
  ASSUME IInv, NEW r \in Runs, Publish(r), NEW i, i = run[r].revision
  PROVE  /\ i \in Revisions /\ RowsOK'
         /\ history' = history /\ objects' = objects /\ collapsed' = collapsed
         /\ due' = due /\ faults' = faults
         /\ \A k \in Kinds, j \in Revisions : j # i => rows'[k][j] = rows[k][j]
         /\ \/ rows'.delta[i] = rows.delta[i] /\ (MayPublish(r) => ~DeltaStaged(r))
            \/ /\ DeltaStaged(r) /\ Marks(rows'.delta[i], rows.delta[i])
               /\ MayPublish(r) \/ (i \in published /\ rows.checkpoint[i].state = "published")
         /\ IF MayPublish(r)
            THEN /\ Marks(rows'.checkpoint[i], rows.checkpoint[i])
                 /\ published' = published \cup {i} /\ head' = i /\ OutboxOK'
            ELSE /\ rows'.checkpoint[i] = rows.checkpoint[i]
                 /\ published' = published /\ head' = head /\ OutboxOK'
         /\ \E pc : Goto(r, pc) /\ MayGo(run[r], pc)
<1>1. PICK x : x = run[r] /\ RunTyped(x) /\ RunInv(x) /\ x.pc = "publish"
  BY Basics DEF Publish, At
<1>2. i \in Revisions /\ i = x.revision
  BY <1>1 DEF RunInv, Held, Steps, Before
<1>3. PICK a : a = x.age /\ a \in Nat
  BY <1>1 DEF RunTyped
<1>4. /\ history' = history /\ objects' = objects /\ collapsed' = collapsed
      /\ due' = due /\ faults' = faults
  BY DEF Publish
<1> DEFINE Changes(k) == \/ k = "checkpoint" /\ MayPublish(r)
                         \/ k = "delta" /\ DeltaStaged(r) /\ ~BatchAborts(r)
<1>5. rows' = [k \in Kinds |->
                 IF Changes(k)
                 THEN [rows[k] EXCEPT ![i] = [rows[k][i] EXCEPT !.state = "published", !.age = a]]
                 ELSE rows[k]]
  BY <1>1, <1>2, <1>3 DEF Publish
<1> HIDE DEF Changes
<1>6. ASSUME NEW k \in Kinds
      PROVE  /\ rows'[k] \in [Revisions -> RowSet]
             /\ \A j \in Revisions : j # i => rows'[k][j] = rows[k][j]
             /\ Changes(k) => Marks(rows'[k][i], rows[k][i])
             /\ ~Changes(k) => rows'[k][i] = rows[k][i]
  <2>1. rows[k] \in [Revisions -> RowSet]
    BY Basics DEF RowsOK
  <2>2. PICK v \in RowSet : /\ v = [rows[k][i] EXCEPT !.state = "published", !.age = a]
                            /\ Marks(v, rows[k][i])
    BY <1>2, <1>3, Basics, MarkRow
  <2>3. CASE Changes(k)
    <3>1. rows'[k] = [rows[k] EXCEPT ![i] = v]
      BY <1>5, <2>2, <2>3
    <3>2. /\ rows'[k] \in [Revisions -> RowSet] /\ rows'[k][i] = v
          /\ \A j \in Revisions : j # i => rows'[k][j] = rows[k][j]
      BY <1>2, <2>1, <3>1
    <3> QED BY <2>2, <2>3, <3>2
  <2>4. CASE ~Changes(k)
    BY <1>5, <2>1, <2>4
  <2> QED BY <2>3, <2>4
<1>7. RowsOK'
  <2>1. rows' \in [Kinds -> [Revisions -> RowSet]]
    BY <1>5, <1>6
  <2>2. Revisions' = Revisions
    BY <1>4 DEF Revisions
  <2> QED BY <2>1, <2>2 DEF RowsOK
<1>8. /\ Changes("checkpoint") <=> MayPublish(r)
      /\ Changes("delta") <=> DeltaStaged(r) /\ ~BatchAborts(r)
  BY DEF Changes
<1>9. /\ MayPublish(r) => ~BatchAborts(r)
      /\ DeltaStaged(r) /\ ~BatchAborts(r) =>
           MayPublish(r) \/ (i \in published /\ rows.checkpoint[i].state = "published")
  BY DEF BatchAborts
<1>10. \/ rows'.delta[i] = rows.delta[i] /\ (MayPublish(r) => ~DeltaStaged(r))
       \/ /\ DeltaStaged(r) /\ Marks(rows'.delta[i], rows.delta[i])
          /\ MayPublish(r) \/ (i \in published /\ rows.checkpoint[i].state = "published")
  BY <1>6, <1>8, <1>9, KindsAre
<1>11. IF MayPublish(r)
       THEN /\ Marks(rows'.checkpoint[i], rows.checkpoint[i])
            /\ published' = published \cup {i} /\ head' = i /\ OutboxOK'
       ELSE /\ rows'.checkpoint[i] = rows.checkpoint[i]
            /\ published' = published /\ head' = head /\ OutboxOK'
  <2>1. CASE MayPublish(r)
    <3>1. /\ published' = published \cup {i} /\ head' = i
          /\ outbox' = [outbox EXCEPT ![i] =
               [@ EXCEPT !.state = "done", !.owner = 0, !.lease = Past, !.retry = Past]]
      BY <1>1, <1>2, <2>1 DEF Publish
    <3>2. outbox[i] \in JobSet
      BY <1>2, Basics DEF OutboxOK
    <3>3. PICK v : v = [outbox[i] EXCEPT !.state = "done", !.owner = 0, !.lease = Past,
                                         !.retry = Past]
      OBVIOUS
    <3>4. v \in JobSet /\ v.state = "done"
      BY <3>2, <3>3, Constants DEF JobSet
    <3>5. outbox' = [outbox EXCEPT ![i] = v]
      BY <3>1, <3>3
    <3>6. OutboxOK'
      BY <1>2, <1>4, <3>4, <3>5, Basics, OutboxPut
    <3>7. Marks(rows'.checkpoint[i], rows.checkpoint[i])
      BY <1>6, <1>8, <2>1, KindsAre
    <3> QED BY <2>1, <3>1, <3>6, <3>7
  <2>2. CASE ~MayPublish(r)
    <3>1. published' = published /\ head' = head /\ outbox' = outbox
      BY <2>2 DEF Publish
    <3>2. OutboxOK'
      BY <1>4, <3>1, Basics, OutboxSame
    <3>3. rows'.checkpoint[i] = rows.checkpoint[i]
      BY <1>6, <1>8, <2>2, KindsAre
    <3> QED BY <2>2, <3>1, <3>2, <3>3
  <2> QED BY <2>1, <2>2
<1>12. \E pc : Goto(r, pc) /\ MayGo(run[r], pc)
  <2>1. PICK pc : Goto(r, pc) /\ pc \in {"collapse", "failed", "orphan"}
    BY DEF Publish
  <2>2. MayGo(run[r], pc)
    BY <1>1, <2>1 DEF MayGo, Steps, Held, Early, Before, Bodied, Deltaed
  <2> QED BY <2>1, <2>2
<1> QED BY <1>2, <1>4, <1>6, <1>7, <1>10, <1>11, <1>12

\* The checkpoint a run publishes is that of the latest revision, above the
\* head, and it is stored.
LEMMA PublishedIs ==
  ASSUME IInv, NEW r \in Runs, MayPublish(r), NEW i, i = run[r].revision
  PROVE  /\ i = MutationHead /\ i = Len(history) /\ i \notin published
         /\ head \in Nat /\ i \in Nat /\ head < i
         /\ objects.checkpoint[i].there
         /\ objects.checkpoint[i].version = rows.checkpoint[i].version
         /\ objects.checkpoint[i].body = Checkpoint(i, history[i])
<1>1. i = MutationHead /\ i \notin published /\ rows.checkpoint[i].state = "staged"
  BY DEF MayPublish, Current
<1>2. /\ objects.checkpoint[i].there
      /\ objects.checkpoint[i].version = rows.checkpoint[i].version
  BY <1>1 DEF IInv, CheckpointInv
<1>3. i \in Revisions /\ i = Len(history) /\ head \in 0..Len(history) /\ Len(history) \in Nat
  BY <1>1, Basics, Numbered DEF HistoryOK
<1>4. objects.checkpoint[i].body = Checkpoint(i, history[i])
  BY <1>2, <1>3 DEF IInv, CheckpointInv
<1>5. head # i
  BY <1>1, <1>3, Basics, Numbered DEF IInv, CheckpointInv
<1> QED BY <1>1, <1>2, <1>3, <1>4, <1>5

LEMMA PublishStep ==
  ASSUME IInv, NEW r \in Runs, Publish(r)
  PROVE  IInv'
<1>1. PICK i : i = run[r].revision
  OBVIOUS
<1>2. /\ i \in Revisions /\ RowsOK'
      /\ history' = history /\ objects' = objects /\ collapsed' = collapsed
      /\ due' = due /\ faults' = faults
      /\ \A k \in Kinds, j \in Revisions : j # i => rows'[k][j] = rows[k][j]
      /\ \/ rows'.delta[i] = rows.delta[i]
         \/ /\ DeltaStaged(r) /\ Marks(rows'.delta[i], rows.delta[i])
            /\ MayPublish(r) \/ (i \in published /\ rows.checkpoint[i].state = "published")
      /\ IF MayPublish(r)
         THEN /\ Marks(rows'.checkpoint[i], rows.checkpoint[i])
              /\ published' = published \cup {i} /\ head' = i /\ OutboxOK'
         ELSE /\ rows'.checkpoint[i] = rows.checkpoint[i]
              /\ published' = published /\ head' = head /\ OutboxOK'
      /\ \E pc : Goto(r, pc) /\ MayGo(run[r], pc)
  BY <1>1, PublishEffect
<1>3. /\ Revisions' = Revisions /\ MutationHead' = MutationHead /\ MutationHead \in Revisions
      /\ Revisions = 1..Len(history) /\ Len(history) \in Nat /\ head \in 0..Len(history)
      /\ head # 0 => head \in Revisions
  BY <1>2, Basics, Numbered DEF Revisions, MutationHead, HistoryOK
<1>4. head' = head \/ head' = Len(history)
  BY <1>1, <1>2, PublishedIs
<1>5. Env
  <2>1. \A j \in Revisions : objects.delta[j].version \in Nat
    BY Basics DEF ObjectsOK, ObjectTyped, Kinds
  <2>2. head \in Nat
    BY <1>3
  <2> QED BY <1>2, <1>3, <1>4, <2>1, <2>2 DEF Env
<1>6. PICK pc : Goto(r, pc) /\ MayGo(run[r], pc)
  BY <1>2
<1>7. PICK y : run' = [run EXCEPT ![r] = y] /\ Follows(run[r], y) /\ y.pc = pc
  BY <1>6, Basics, GotoRun
<1>8. PICK x : x = run[r] /\ RunTyped(x) /\ RunInv(x)
  BY Basics
<1>9. RunTyped(y)' /\ RunInv(y)' /\ SameBase(run[r], y)
  BY <1>5, <1>6, <1>7, <1>8, GoKept, FollowsBase
<1>10. /\ RunsOK' /\ \A s \in Runs : RunInv(run[s])'
       /\ \A s \in Runs : SameBase(run[s], run'[s])
  BY <1>5, <1>7, <1>9, Basics, OneRun
<1>11. HistoryOK' /\ OutboxOK' /\ ObjectsOK' /\ due' \in BOOLEAN /\ faults' \in 0..MaxFaults
  <2>1. head' \in 0..Len(history) /\ published' \subseteq Revisions /\ OutboxOK'
    BY <1>2, <1>3, Basics DEF HistoryOK
  <2> QED BY <1>2, <1>3, <2>1, Basics DEF HistoryOK, ObjectsOK
<1>12. TypeOK' /\ OutboxInv'
  BY <1>2, <1>10, <1>11, JoinTypes
<1>13. DeltaInv' /\ BaseInv'
  <2>1. \A j \in Revisions :
           \/ rows'.delta[j] = rows.delta[j]
           \/ /\ j \in published' /\ rows.delta[j].state = "staged"
              /\ Marks(rows'.delta[j], rows.delta[j])
    BY <1>1, <1>2, KindsAre DEF DeltaStaged
  <2>2. published \subseteq published' /\ DOMAIN run' = Runs
    BY <1>2, <1>10 DEF RunsOK
  <2> QED BY <1>2, <1>4, <1>10, <2>1, <2>2, DeltaMarked
<1>14. CheckpointInv'
  <2>1. CASE MayPublish(r)
    <3>1. /\ Marks(rows'.checkpoint[i], rows.checkpoint[i])
          /\ published' = published \cup {i} /\ head' = i
          /\ \A j \in Revisions : j # i => rows'.checkpoint[j] = rows.checkpoint[j]
      BY <1>2, <2>1, KindsAre
    <3>2. /\ i = MutationHead /\ objects.checkpoint[i].there
          /\ objects.checkpoint[i].version = rows.checkpoint[i].version
          /\ objects.checkpoint[i].body = Checkpoint(i, history[i])
      BY <1>1, <2>1, PublishedIs
    <3>3. head' # 0 => head' \in published'
      BY <3>1
    <3>4. \A j \in Revisions : rows'.checkpoint[j].state = "orphaned" => j # MutationHead
      BY <3>1, <3>2 DEF IInv, CheckpointInv, Marks
    <3>5. rows'.checkpoint[MutationHead].state = "published"
      BY <3>1, <3>2 DEF Marks
    <3>6. CheckpointDeliverable'
      BY <1>2, <3>1, <3>2 DEF CheckpointDeliverable, Marks
    <3>7. \A j \in Revisions : objects'.checkpoint[j].there =>
            objects'.checkpoint[j].body = Checkpoint(j, history'[j])
      BY <1>2 DEF IInv, CheckpointInv
    <3> QED BY <1>3, <3>3, <3>4, <3>5, <3>6, <3>7 DEF CheckpointInv
  <2>2. CASE ~MayPublish(r)
    <3>1. \A j \in Revisions : rows'.checkpoint[j] = rows.checkpoint[j]
      BY <1>2, <2>2, KindsAre
    <3>2. published' = published /\ head' = head
      BY <1>2, <2>2
    <3>3. CheckpointDeliverable'
      BY <1>2, <1>3, <3>1, <3>2 DEF IInv, CheckpointInv, CheckpointDeliverable
    <3> QED BY <1>2, <1>3, <3>1, <3>2, <3>3 DEF IInv, CheckpointInv
  <2> QED BY <2>1, <2>2
<1> QED BY <1>10, <1>12, <1>13, <1>14 DEF IInv

LEMMA PublishSeen ==
  ASSUME IInv, NEW r \in Runs, Publish(r)
  PROVE  Promise!PublisherNext \/ UNCHANGED <<history, head, Stored, HeadDelta>>
<1>1. PICK i : i = run[r].revision
  OBVIOUS
<1>2. /\ i \in Revisions /\ history' = history /\ objects' = objects
      /\ \A k \in Kinds, j \in Revisions : j # i => rows'[k][j] = rows[k][j]
      /\ \/ rows'.delta[i] = rows.delta[i] /\ (MayPublish(r) => ~DeltaStaged(r))
         \/ /\ DeltaStaged(r) /\ Marks(rows'.delta[i], rows.delta[i])
      /\ MayPublish(r) => head' = i
      /\ ~MayPublish(r) => head' = head
  BY <1>1, PublishEffect
<1>3. Stored' = Stored
  BY <1>2, StoredNext DEF Stored
<1>4. PICK t : t = (/\ objects'.delta[i].there
                    /\ objects'.delta[i].version = rows'.delta[i].version)
  OBVIOUS
<1>5. t \in BOOLEAN
  BY <1>4
<1>6. i \in Nat /\ i > 0 /\ (head # 0 => head \in Revisions)
  BY <1>2, Basics, Numbered
<1>7. DeltaStaged(r) => rows.delta[i].state = "staged" /\ rows.delta[i].base \in 1..(i - 1)
  BY <1>1, <1>2 DEF DeltaStaged, IInv, DeltaInv
<1>8. CASE MayPublish(r)
  <2>1. /\ i = Len(history) /\ i \notin published /\ head \in Nat /\ head < i /\ i \in DOMAIN Stored
    BY <1>1, <1>2, <1>8, PublishedIs, StoredIs
  <2>2. Promise!MutationHead = i
    BY <2>1 DEF Promise!MutationHead
  <2>3. \E b \in {0, head} : \E u \in BOOLEAN :
          HeadDelta' = IF b = 0 THEN Promise!NoDelta ELSE [base |-> b, there |-> u]
    <3>1. CASE rows'.delta[i] = rows.delta[i]
      <4>1. rows'.delta[i].state # "published"
        BY <1>2, <2>1, <3>1 DEF IInv, DeltaInv
      <4>2. HeadDelta' = Promise!NoDelta
        BY <1>2, <1>8, <4>1 DEF HeadDelta, Promise!NoDelta
      <4> QED BY <4>2
    <3>2. CASE DeltaStaged(r) /\ Marks(rows'.delta[i], rows.delta[i])
      <4>1. PICK b : b = rows.delta[i].base
        OBVIOUS
      <4>2. b \in 1..(i - 1) /\ BaseClaim(i, b)
        BY <1>7, <3>2, <4>1 DEF BaseClaim
      <4>3. b \in Revisions
        BY <1>2, <1>6, <4>2, Basics, Numbered
      <4>4. b = head \/ head >= i
        BY <1>2, <4>2, <4>3 DEF IInv, BaseInv
      <4>5. b = head /\ b # 0
        BY <1>6, <2>1, <4>2, <4>4
      <4>6. HeadDelta' = [base |-> b, there |-> t]
        <5>1. head' = i /\ i # 0 /\ rows'.delta[i].state = "published" /\ rows'.delta[i].base = b
          BY <1>2, <1>6, <1>8, <3>2, <4>1 DEF Marks
        <5>2. HeadDelta' = [base |-> rows'.delta[head'].base,
                           there |-> /\ objects'.delta[head'].there
                                     /\ objects'.delta[head'].version = rows'.delta[head'].version]
          BY <5>1 DEF HeadDelta
        <5> QED BY <1>4, <5>1, <5>2
      <4> QED BY <1>5, <4>5, <4>6
    <3> QED BY <1>2, <3>1, <3>2
  <2>4. Promise!PublishHead
    BY <1>2, <1>3, <1>8, <2>1, <2>2, <2>3 DEF Promise!PublishHead
  <2> QED BY <2>4 DEF Promise!PublisherNext
<1>9. CASE ~MayPublish(r)
  <2>1. CASE head = i /\ DeltaStaged(r) /\ Marks(rows'.delta[i], rows.delta[i])
    <3>1. HeadDelta = Promise!NoDelta
      BY <1>7, <2>1 DEF HeadDelta, Promise!NoDelta
    <3>2. HeadDelta' = [base |-> rows.delta[i].base, there |-> t]
      <4>1. /\ head' = i /\ i # 0
            /\ rows'.delta[i].state = "published" /\ rows'.delta[i].base = rows.delta[i].base
        BY <1>2, <1>6, <1>9, <2>1 DEF Marks
      <4>2. HeadDelta' = [base |-> rows'.delta[head'].base,
                         there |-> /\ objects'.delta[head'].there
                                   /\ objects'.delta[head'].version = rows'.delta[head'].version]
        BY <4>1 DEF HeadDelta
      <4> QED BY <1>4, <4>1, <4>2
    <3>3. Promise!LateDelta
      BY <1>2, <1>3, <1>5, <1>7, <1>9, <2>1, <3>1, <3>2 DEF Promise!LateDelta
    <3> QED BY <3>3 DEF Promise!PublisherNext
  <2>2. CASE head # 0 => rows'.delta[head] = rows.delta[head]
    <3>1. HeadDelta' = HeadDelta
      BY <1>2, <1>9, <2>2 DEF HeadDelta
    <3> QED BY <1>2, <1>3, <1>9, <3>1
  <2> QED BY <1>2, <1>6, <2>1, <2>2, KindsAre
<1> QED BY <1>8, <1>9

-----------------------------------------------------------------------------
(* A mutation of the namespace *)

LEMMA Extended ==
  ASSUME NEW n \in Nat, NEW s, s = [i \in 1..n |-> s[i]], NEW e
  PROVE  /\ Append(s, e) = [i \in 1..(n + 1) |-> Append(s, e)[i]]
         /\ \A i \in 1..n : Append(s, e)[i] = s[i]
         /\ Append(s, e)[n + 1] = e
<1>1. PICK S : S = {s[i] : i \in 1..n} \cup {e}
  OBVIOUS
<1>2. s \in Seq(S) /\ e \in S
  BY <1>1
<1>3. Len(s) = n
  BY <1>2
<1>4. /\ Append(s, e) \in Seq(S) /\ Len(Append(s, e)) = n + 1
      /\ \A i \in 1..n : Append(s, e)[i] = s[i]
      /\ Append(s, e)[n + 1] = e
  BY <1>2, <1>3, AppendProperties
<1>5. Append(s, e) \in [1..(n + 1) -> S]
  BY <1>4, LenProperties
<1> QED BY <1>4, <1>5

LEMMA MutateEffect ==
  ASSUME IInv, Mutate, NEW n, n = Len(history)
  PROVE  /\ n \in Nat /\ n > 0 /\ Len(history') = n + 1 /\ n + 1 \in 1..MaxRevision
         /\ history' \in Seq(Trees) /\ \A i \in 1..n : history'[i] = history[i]
         /\ outbox' \in [1..(n + 1) -> JobSet] /\ \A i \in 1..n : outbox'[i] = outbox[i]
         /\ outbox'[n + 1] = Queued
         /\ rows' \in [Kinds -> [1..(n + 1) -> RowSet]]
         /\ \A k \in Kinds : /\ \A i \in 1..n : rows'[k][i] = rows[k][i]
                             /\ rows'[k][n + 1] = NoRow
         /\ objects' = [k \in Kinds |-> [i \in 1..(n + 1) |-> objects'[k][i]]]
         /\ \A k \in Kinds : /\ \A i \in 1..n : objects'[k][i] = objects[k][i]
                             /\ objects'[k][n + 1] = NoObject
<1>1. n \in Nat /\ n > 0 /\ Revisions = 1..n /\ MutationHead = n
  BY Basics, Numbered
<1>2. n < MaxRevision /\ MaxRevision \in Nat
  BY <1>1, Constants DEF Mutate
<1>3. n + 1 \in 1..MaxRevision
  BY <1>1, <1>2
<1>4. PICK t \in Trees : history' = Append(history, t)
  BY DEF Mutate
<1>5. history \in Seq(Trees)
  BY Basics DEF HistoryOK
<1>6. /\ history' \in Seq(Trees) /\ Len(history') = n + 1
      /\ \A i \in 1..n : history'[i] = history[i]
  BY <1>1, <1>4, <1>5, AppendProperties
<1>7. /\ outbox' \in [1..(n + 1) -> JobSet] /\ \A i \in 1..n : outbox'[i] = outbox[i]
      /\ outbox'[n + 1] = Queued
  <2>1. outbox' = Append(outbox, Queued) /\ outbox \in [1..n -> JobSet]
    BY <1>1, Basics DEF Mutate, OutboxOK
  <2>2. outbox = [i \in 1..n |-> outbox[i]]
    BY <2>1
  <2>3. /\ outbox' = [i \in 1..(n + 1) |-> outbox'[i]]
        /\ \A i \in 1..n : outbox'[i] = outbox[i]
        /\ outbox'[n + 1] = Queued
    BY <1>1, <2>1, <2>2, Extended
  <2>4. \A i \in 1..(n + 1) : i \in 1..n \/ i = n + 1
    BY <1>1
  <2>5. \A i \in 1..(n + 1) : outbox'[i] \in JobSet
    BY <2>1, <2>3, <2>4, EmptyTyped
  <2> QED BY <2>3, <2>5
<1>8. ASSUME NEW k \in Kinds
      PROVE  /\ rows'[k] \in [1..(n + 1) -> RowSet]
             /\ \A i \in 1..n : rows'[k][i] = rows[k][i]
             /\ rows'[k][n + 1] = NoRow
  <2>1. rows'[k] = Append(rows[k], NoRow) /\ rows[k] \in [1..n -> RowSet]
    BY <1>1, Basics DEF Mutate, RowsOK
  <2>2. PICK f : f = rows[k]
    OBVIOUS
  <2>3. f = [i \in 1..n |-> f[i]]
    BY <2>1, <2>2
  <2>4. PICK g : g = Append(f, NoRow)
    OBVIOUS
  <2>5. /\ g = [i \in 1..(n + 1) |-> g[i]] /\ (\A i \in 1..n : g[i] = f[i]) /\ g[n + 1] = NoRow
    BY <1>1, <2>3, <2>4, Extended
  <2>6. \A i \in 1..(n + 1) : i \in 1..n \/ i = n + 1
    BY <1>1
  <2>7. \A i \in 1..(n + 1) : g[i] \in RowSet
    BY <2>1, <2>2, <2>5, <2>6, EmptyTyped
  <2>8. g \in [1..(n + 1) -> RowSet]
    BY <2>5, <2>7
  <2> QED BY <2>1, <2>2, <2>4, <2>5, <2>8
<1>9. rows' \in [Kinds -> [1..(n + 1) -> RowSet]]
  <2>1. rows' = [k \in Kinds |-> rows'[k]]
    BY DEF Mutate
  <2> QED BY <1>8, <2>1
<1>10. ASSUME NEW k \in Kinds
       PROVE  /\ objects'[k] = [i \in 1..(n + 1) |-> objects'[k][i]]
              /\ \A i \in 1..n : objects'[k][i] = objects[k][i]
              /\ objects'[k][n + 1] = NoObject
  <2>1. objects'[k] = Append(objects[k], NoObject)
    BY DEF Mutate
  <2>2. PICK f : f = objects[k]
    OBVIOUS
  <2>3. f = [i \in 1..n |-> f[i]]
    BY <1>1, <2>2, Basics DEF ObjectsOK
  <2>4. PICK g : g = Append(f, NoObject)
    OBVIOUS
  <2>5. /\ g = [i \in 1..(n + 1) |-> g[i]] /\ (\A i \in 1..n : g[i] = f[i]) /\ g[n + 1] = NoObject
    BY <1>1, <2>3, <2>4, Extended
  <2> QED BY <2>1, <2>2, <2>4, <2>5
<1>11. objects' = [k \in Kinds |-> [i \in 1..(n + 1) |-> objects'[k][i]]]
  <2>1. objects' = [k \in Kinds |-> objects'[k]]
    BY DEF Mutate
  <2> QED BY <1>10, <2>1
<1> QED BY <1>1, <1>3, <1>6, <1>7, <1>8, <1>9, <1>10, <1>11

LEMMA MutateStep ==
  ASSUME IInv, Mutate
  PROVE  IInv'
<1>1. PICK n : n = Len(history)
  OBVIOUS
<1>2. /\ n \in Nat /\ n > 0 /\ Len(history') = n + 1 /\ n + 1 \in 1..MaxRevision
      /\ history' \in Seq(Trees) /\ \A i \in 1..n : history'[i] = history[i]
      /\ outbox' \in [1..(n + 1) -> JobSet] /\ \A i \in 1..n : outbox'[i] = outbox[i]
      /\ outbox'[n + 1] = Queued
      /\ rows' \in [Kinds -> [1..(n + 1) -> RowSet]]
      /\ \A k \in Kinds : /\ \A i \in 1..n : rows'[k][i] = rows[k][i]
                          /\ rows'[k][n + 1] = NoRow
      /\ objects' = [k \in Kinds |-> [i \in 1..(n + 1) |-> objects'[k][i]]]
      /\ \A k \in Kinds : /\ \A i \in 1..n : objects'[k][i] = objects[k][i]
                          /\ objects'[k][n + 1] = NoObject
  BY <1>1, MutateEffect
<1>3. /\ head' = head /\ published' = published /\ collapsed' = collapsed /\ run' = run
      /\ due' = due /\ faults' = faults
  BY DEF Mutate
<1>4. /\ Revisions = 1..n /\ Revisions' = 1..(n + 1) /\ MutationHead' = n + 1
      /\ head \in 0..n /\ (head # 0 => head \in 1..n)
  BY <1>1, <1>2, Basics, Numbered DEF Revisions, MutationHead, HistoryOK
<1>5. \A i \in 1..(n + 1) : i \in 1..n \/ i = n + 1
  BY <1>2
<1>6. \A i \in 1..n : i # n + 1 /\ i \in 1..(n + 1)
  BY <1>2
<1>7. /\ \A i \in 1..n : /\ rows'.checkpoint[i] = rows.checkpoint[i]
                         /\ rows'.delta[i] = rows.delta[i]
                         /\ objects'.checkpoint[i] = objects.checkpoint[i]
                         /\ objects'.delta[i] = objects.delta[i]
      /\ rows'.checkpoint[n + 1] = NoRow /\ rows'.delta[n + 1] = NoRow
      /\ objects'.checkpoint[n + 1] = NoObject /\ objects'.delta[n + 1] = NoObject
  BY <1>2, KindsAre
<1>8. Env
  <2>1. \A i \in Revisions : objects.delta[i].version \in Nat
    BY Basics DEF ObjectsOK, ObjectTyped, Kinds
  <2>2. head \in Nat /\ n <= n + 1 /\ n + 1 \in Nat
    BY <1>2, <1>4
  <2> QED BY <1>1, <1>2, <1>3, <1>4, <1>6, <1>7, <2>1, <2>2 DEF Env
<1>9. ASSUME NEW r \in Runs PROVE RunTyped(run[r])' /\ RunInv(run[r])'
  <2>1. PICK x : x = run[r] /\ RunTyped(x) /\ RunInv(x)
    BY Basics
  <2>2. RunTyped(x)' /\ RunInv(x)'
    BY <1>8, <2>1, TypedKept, RunKept
  <2>3. run'[r] = x
    BY <1>3, <2>1
  <2> QED BY <2>2, <2>3, ZenonT(60) DEF RunTyped, RunInv, DeltaOf
<1>10. RunsOK'
  BY <1>3, <1>9, Basics DEF RunsOK
<1>11. HistoryOK'
  <2>1. head \in 0..(n + 1) /\ published \subseteq 1..(n + 1) /\ collapsed \subseteq 1..(n + 1)
    BY <1>2, <1>4, <1>6, Basics DEF HistoryOK
  <2> QED BY <1>2, <1>3, <1>4, <2>1 DEF HistoryOK
<1>12. OutboxOK'
  <2>1. \A i \in 1..(n + 1) : outbox'[i].state = "claimed" => outbox'[i].attempts > 0
    BY <1>2, <1>4, <1>5, Basics, EmptyTyped DEF OutboxOK, OutboxInv
  <2> QED BY <1>2, <1>4, <2>1 DEF OutboxOK, OutboxInv
<1>13. RowsOK'
  BY <1>2, <1>4 DEF RowsOK
<1>14. ObjectsOK'
  <2>1. \A k \in Kinds, i \in 1..(n + 1) : ObjectTyped(objects'[k][i])
    BY <1>2, <1>4, <1>5, Basics, EmptyTyped DEF ObjectsOK
  <2>2. DOMAIN objects' = Kinds /\ \A k \in Kinds : DOMAIN objects'[k] = 1..(n + 1)
    BY <1>2
  <2> QED BY <1>2, <1>4, <2>1, <2>2 DEF ObjectsOK
<1>15. TypeOK' /\ OutboxInv'
  BY <1>3, <1>10, <1>11, <1>12, <1>13, <1>14, Basics, JoinTypes
<1>16. CheckpointInv'
  <2>1. head' # 0 => head' \in published'
    BY <1>3 DEF IInv, CheckpointInv
  <2>2. \A i \in 1..(n + 1) : rows'.checkpoint[i].state = "orphaned" => i # n + 1
    BY <1>5, <1>7, EmptyTyped
  <2>3. rows'.checkpoint[n + 1].state # "staged"
    BY <1>7, EmptyTyped
  <2>4. CheckpointDeliverable'
    <3>1. CheckpointDeliverable
      BY DEF IInv, CheckpointInv
    <3> QED BY <1>2, <1>3, <1>4, <1>7, <3>1 DEF CheckpointDeliverable
  <2>5. \A i \in 1..(n + 1) : objects'.checkpoint[i].there =>
          objects'.checkpoint[i].body = Checkpoint(i, history'[i])
    <3>1. \A i \in 1..n : objects.checkpoint[i].there =>
            objects.checkpoint[i].body = Checkpoint(i, history[i])
      BY <1>4 DEF IInv, CheckpointInv
    <3> QED BY <1>2, <1>5, <1>7, <3>1, EmptyTyped
  <2> QED BY <1>4, <2>1, <2>2, <2>3, <2>4, <2>5 DEF CheckpointInv
<1>17. DeltaInv'
  <2>1. ASSUME NEW i \in 1..n
        PROVE  /\ rows'.delta[i].state = "published" => i \in published'
               /\ rows'.delta[i].version <= objects'.delta[i].version
               /\ rows'.delta[i].state # "none" => rows'.delta[i].base \in 1..(i - 1)
               /\ objects'.delta[i].there =>
                    \E b \in 1..(i - 1) : /\ objects'.delta[i].body = DeltaOf(b, i)'
                                          /\ objects'.delta[i].body.baseRevision = b
    <3>1. \A b \in 1..(i - 1) : b \in 1..n
      BY <1>2
    <3>2. \A b \in 1..(i - 1) : DeltaOf(b, i)' = DeltaOf(b, i)
      BY <1>2, <3>1 DEF DeltaOf
    <3>3. /\ rows.delta[i].state = "published" => i \in published
          /\ rows.delta[i].version <= objects.delta[i].version
          /\ rows.delta[i].state # "none" => rows.delta[i].base \in 1..(i - 1)
          /\ objects.delta[i].there =>
               \E b \in 1..(i - 1) : /\ objects.delta[i].body = DeltaOf(b, i)
                                     /\ objects.delta[i].body.baseRevision = b
      BY <1>4 DEF IInv, DeltaInv
    <3> QED BY <1>3, <1>7, <3>2, <3>3
  <2>2. /\ rows'.delta[n + 1].state = "none" /\ ~objects'.delta[n + 1].there
        /\ rows'.delta[n + 1].version = 0 /\ objects'.delta[n + 1].version = 0
    BY <1>7, EmptyTyped
  <2>3. rows'.delta[n + 1].version <= objects'.delta[n + 1].version
    BY <2>2
  <2> QED BY <1>4, <1>5, <2>1, <2>2, <2>3 DEF DeltaInv
<1>18. BaseInv'
  <2>1. ASSUME NEW i \in 1..(n + 1), NEW b \in 1..(n + 1), BaseClaim(i, b)'
        PROVE  i \in 1..n /\ b \in 1..n /\ BaseClaim(i, b)
    <3>1. CASE \E r \in Runs : /\ run[r].previous # NoReceipt
                               /\ run[r].revision = i /\ run[r].previous.revision = b
      <4>1. PICK r \in Runs : /\ run[r].previous # NoReceipt
                              /\ run[r].revision = i /\ run[r].previous.revision = b
        BY <3>1
      <4>2. i \in 1..n /\ b \in 1..(i - 1)
        BY <1>4, <4>1, Basics DEF RunInv
      <4>3. b \in 1..n
        BY <1>2, <4>2
      <4> QED BY <3>1, <4>2, <4>3 DEF BaseClaim
    <3>2. CASE rows'.delta[i].state # "none" /\ rows'.delta[i].base = b
      <4>1. i \in 1..n
        BY <1>5, <1>7, <3>2, EmptyTyped
      <4>2. rows.delta[i].state # "none" /\ rows.delta[i].base = b /\ b \in 1..(i - 1)
        BY <1>4, <1>7, <3>2, <4>1 DEF IInv, DeltaInv
      <4>3. b \in 1..n
        BY <1>2, <4>1, <4>2
      <4> QED BY <4>1, <4>2, <4>3 DEF BaseClaim
    <3>3. CASE objects'.delta[i].there /\ objects'.delta[i].body.baseRevision = b
      <4>1. i \in 1..n
        BY <1>5, <1>7, <3>3, EmptyTyped
      <4>2. /\ objects.delta[i].there /\ objects.delta[i].body.baseRevision = b
            /\ b \in 1..(i - 1)
        BY <1>4, <1>7, <3>3, <4>1 DEF IInv, DeltaInv
      <4>3. b \in 1..n
        BY <1>2, <4>1, <4>2
      <4> QED BY <4>1, <4>2, <4>3 DEF BaseClaim
    <3> QED BY <1>3, <2>1, <3>1, <3>2, <3>3 DEF BaseClaim
  <2>2. /\ \A i, b \in 1..n : BaseClaim(i, b) => b = head \/ head >= i
        /\ \A i, b, c \in 1..n : BaseClaim(i, b) /\ BaseClaim(i, c) => b = c
    BY <1>4 DEF IInv, BaseInv
  <2>3. \A i, b \in 1..(n + 1) : BaseClaim(i, b)' => b = head' \/ head' >= i
    BY <1>3, <2>1, <2>2
  <2>4. \A i, b, c \in 1..(n + 1) : BaseClaim(i, b)' /\ BaseClaim(i, c)' => b = c
    BY <2>1, <2>2
  <2> QED BY <1>4, <2>3, <2>4 DEF BaseInv
<1> QED BY <1>9, <1>15, <1>16, <1>17, <1>18 DEF IInv

LEMMA MutateSeen ==
  ASSUME IInv, Mutate
  PROVE  Promise!PublisherNext
<1>1. PICK n : n = Len(history)
  OBVIOUS
<1>2. /\ n \in Nat /\ Len(history') = n + 1
      /\ \A k \in Kinds : /\ \A i \in 1..n : rows'[k][i] = rows[k][i]
                          /\ rows'[k][n + 1] = NoRow
      /\ \A k \in Kinds : /\ \A i \in 1..n : objects'[k][i] = objects[k][i]
                          /\ objects'[k][n + 1] = NoObject
  BY <1>1, MutateEffect
<1>3. head' = head /\ Revisions = 1..n /\ Revisions' = 1..(n + 1) /\ (head # 0 => head \in 1..n)
  BY <1>1, <1>2, Basics, Numbered DEF Revisions, Mutate
<1>4. /\ \A i \in 1..n : /\ objects'.checkpoint[i] = objects.checkpoint[i]
                         /\ objects'.delta[i] = objects.delta[i]
                         /\ rows'.delta[i] = rows.delta[i]
      /\ ~objects'.checkpoint[n + 1].there
  BY <1>2, KindsAre, EmptyTyped
<1>5. {j \in Revisions' : objects'.checkpoint[j].there} =
        {j \in Revisions : objects.checkpoint[j].there}
  <2>1. \A i \in 1..(n + 1) : i \in 1..n \/ i = n + 1
    BY <1>2
  <2>2. \A i \in 1..n : i \in 1..(n + 1)
    BY <1>2
  <2> QED BY <1>3, <1>4, <2>1, <2>2
<1>6. Stored' = Stored
  BY <1>3, <1>4, <1>5 DEF Stored
<1>7. HeadDelta' = HeadDelta
  BY <1>3, <1>4 DEF HeadDelta
<1>8. \A t : FreshIdentities(history, t) => Promise!FreshIdentities(history, t)
  BY DEF FreshIdentities, Promise!FreshIdentities, Directories, Promise!Directories,
         IsDirectory, Promise!IsDirectory
<1>9. Promise!Mutate
  BY <1>3, <1>6, <1>7, <1>8 DEF Mutate, MutationHead, Promise!Mutate, Promise!MutationHead
<1> QED BY <1>9 DEF Promise!PublisherNext

-----------------------------------------------------------------------------
(* The initial state *)

LEMMA InitStep ==
  ASSUME Init
  PROVE  IInv
<1>1. /\ history = <<FirstTree>> /\ Len(history) = 1 /\ head = 0 /\ published = {}
      /\ collapsed = {} /\ Revisions = 1..1 /\ MutationHead = 1
  BY DEF Init, Revisions, MutationHead
<1>2. /\ DOMAIN outbox = 1..1 /\ outbox[1] = Queued
      /\ DOMAIN rows = Kinds /\ \A k \in Kinds : DOMAIN rows[k] = 1..1 /\ rows[k][1] = NoRow
      /\ DOMAIN objects = Kinds
      /\ \A k \in Kinds : DOMAIN objects[k] = 1..1 /\ objects[k][1] = NoObject
      /\ DOMAIN run = Runs /\ \A r \in Runs : run[r] = Idle
  BY DEF Init
<1>3. \A i \in 1..1 : i = 1
  OBVIOUS
<1>4. HistoryOK
  <2>1. history \in Seq(Trees)
    BY <1>1, Constants
  <2> QED BY <1>1, <2>1, Constants DEF HistoryOK
<1>5. OutboxOK
  <2>1. outbox = <<Queued>>
    BY DEF Init
  <2>2. outbox \in [Revisions -> JobSet]
    BY <1>1, <2>1, EmptyTyped
  <2>3. OutboxInv
    BY <1>1, <1>2, <1>3, EmptyTyped DEF OutboxInv
  <2> QED BY <2>2, <2>3 DEF OutboxOK
<1>6. RowsOK
  <2>1. rows = [k \in Kinds |-> <<NoRow>>]
    BY DEF Init
  <2>2. <<NoRow>> \in [1..1 -> RowSet]
    BY EmptyTyped
  <2> QED BY <1>1, <2>1, <2>2 DEF RowsOK
<1>7. ObjectsOK
  <2>1. objects = [k \in Kinds |-> <<NoObject>>]
    BY DEF Init
  <2>2. \A k \in Kinds : objects[k] = [i \in Revisions |-> objects[k][i]]
    BY <1>1, <2>1
  <2>3. objects = [k \in Kinds |-> objects[k]]
    BY <2>1
  <2>4. objects = [k \in Kinds |-> [i \in Revisions |-> objects[k][i]]]
    BY <2>2, <2>3
  <2>5. \A k \in Kinds : /\ DOMAIN objects[k] = Revisions
                         /\ \A i \in Revisions : ObjectTyped(objects[k][i])
    BY <1>1, <1>2, <1>3, EmptyTyped
  <2> QED BY <1>2, <2>4, <2>5 DEF ObjectsOK
<1>8. RunsOK /\ \A r \in Runs : RunInv(run[r])
  BY <1>2, <1>4, IdleTyped DEF RunsOK
<1>9. TypeOK /\ OutboxInv
  <2>1. due \in BOOLEAN /\ faults \in 0..MaxFaults
    BY Constants DEF Init
  <2> QED BY <1>4, <1>5, <1>6, <1>7, <1>8, <2>1, SplitTypes
<1>10. /\ rows.checkpoint[1] = NoRow /\ rows.delta[1] = NoRow
       /\ objects.checkpoint[1] = NoObject /\ objects.delta[1] = NoObject
  BY <1>2, KindsAre
<1>11. CheckpointInv
  BY <1>1, <1>3, <1>10, EmptyTyped DEF CheckpointInv, CheckpointDeliverable
<1>12. DeltaInv
  BY <1>1, <1>3, <1>10, EmptyTyped DEF DeltaInv
<1>13. BaseInv
  <2>1. \A i, b \in Revisions : ~BaseClaim(i, b)
    BY <1>1, <1>2, <1>3, <1>4, <1>10, EmptyTyped, IdleTyped DEF BaseClaim
  <2> QED BY <2>1 DEF BaseInv
<1> QED BY <1>8, <1>9, <1>11, <1>12, <1>13 DEF IInv

LEMMA InitSeen ==
  ASSUME Init
  PROVE  Promise!PublisherInit
<1>1. /\ history = <<FirstTree>> /\ head = 0 /\ Revisions = 1..1
      /\ objects.checkpoint[1] = NoObject
  BY KindsAre DEF Init, Revisions
<1>2. {j \in Revisions : objects.checkpoint[j].there} = {}
  <2>1. \A j \in Revisions : j = 1
    BY <1>1
  <2> QED BY <1>1, <2>1, EmptyTyped
<1>3. Stored = << >>
  BY <1>2 DEF Stored
<1>4. HeadDelta = Promise!NoDelta
  BY <1>1 DEF HeadDelta, Promise!NoDelta
<1> QED BY <1>1, <1>3, <1>4 DEF Promise!PublisherInit

-----------------------------------------------------------------------------
(* Every step *)

\* What readers see of a step.
Seen == Promise!PublisherNext \/ UNCHANGED <<history, head, Stored, HeadDelta>>

LEMMA StepStep ==
  ASSUME IInv, NEW r \in Runs, Step(r)
  PROVE  IInv' /\ Seen
<1>1. ASSUME NEW k \in Kinds, Sweep(r, k) PROVE IInv' /\ Seen
  BY <1>1, SweepStep DEF Seen
<1>2. ASSUME NEW k \in Kinds, DropObject(r, k) PROVE IInv' /\ Seen
  BY <1>2, DropObjectStep, DropSeen DEF Seen
<1>3. ASSUME NEW k \in Kinds, ForgetRow(r, k) PROVE IInv' /\ Seen
  BY <1>3, ForgetRowStep DEF Seen
<1>4. ASSUME NEW k \in Kinds, RecordWriting(r, k) PROVE IInv' /\ Seen
  BY <1>4, RecordWritingStep DEF Seen
<1>5. ASSUME NEW k \in Kinds, StoreImmutable(r, k) PROVE IInv' /\ Seen
  BY <1>5, StoreImmutableStep, StoreSeen DEF Seen
<1>6. ASSUME NEW k \in Kinds, MarkStaged(r, k) PROVE IInv' /\ Seen
  BY <1>6, MarkStagedStep DEF Seen
<1>7. CASE ClaimLatest(r)
  BY <1>7, ClaimLatestStep DEF Seen
<1>8. CASE LoadCandidate(r)
  BY <1>8, LoadCandidateStep DEF Seen
<1>9. CASE ReleaseUnloadable(r)
  BY <1>9, ReleaseUnloadableStep DEF Seen
<1>10. CASE ReadPrevious(r)
  BY <1>10, ReadPreviousStep DEF Seen
<1>11. CASE ReadDirectories(r)
  BY <1>11, ReadDirectoriesStep DEF Seen
<1>12. CASE ReadEntries(r)
  BY <1>12, ReadEntriesStep DEF Seen
<1>13. CASE PrepareDelta(r)
  BY <1>13, PrepareDeltaStep DEF Seen
<1>14. CASE DiscardDelta(r)
  BY <1>14, DiscardDeltaStep DEF Seen
<1>15. CASE DiscardObject(r)
  BY <1>15, DiscardObjectStep, DiscardSeen DEF Seen
<1>16. CASE DiscardRow(r)
  BY <1>16, DiscardRowStep DEF Seen
<1>17. CASE Fence(r)
  BY <1>17, FenceStep DEF Seen
<1>18. CASE Publish(r)
  BY <1>18, PublishStep, PublishSeen DEF Seen
<1>19. CASE MarkOrphaned(r)
  BY <1>19, MarkOrphanedStep DEF Seen
<1>20. CASE ReleaseClaim(r)
  BY <1>20, ReleaseClaimStep DEF Seen
<1>21. CASE CollapseHistorical(r)
  BY <1>21, CollapseHistoricalStep DEF Seen
<1>22. CASE RetireHistorical(r)
  BY <1>22, RetireHistoricalStep DEF Seen
<1>23. CASE ReleaseFailed(r)
  BY <1>23, ReleaseFailedStep DEF Seen
<1> QED BY <1>1, <1>2, <1>3, <1>4, <1>5, <1>6, <1>7, <1>8, <1>9, <1>10, <1>11, <1>12, <1>13,
           <1>14, <1>15, <1>16, <1>17, <1>18, <1>19, <1>20, <1>21, <1>22, <1>23 DEF Step

LEMMA NextStep ==
  ASSUME IInv, Next
  PROVE  IInv' /\ Seen
<1>1. CASE Mutate
  BY <1>1, MutateStep, MutateSeen DEF Seen
<1>2. CASE Tick
  BY <1>2, TickStep DEF Seen
<1>3. ASSUME NEW r \in Runs, Start(r) PROVE IInv' /\ Seen
  BY <1>3, StartStep DEF Seen
<1>4. ASSUME NEW r \in Runs, Step(r) PROVE IInv' /\ Seen
  BY <1>4, StepStep
<1>5. ASSUME NEW r \in Runs, Fault(r) PROVE IInv' /\ Seen
  BY <1>5, FaultStep DEF Seen
<1> QED BY <1>1, <1>2, <1>3, <1>4, <1>5 DEF Next

LEMMA StutterStep ==
  ASSUME IInv, UNCHANGED vars
  PROVE  IInv' /\ Seen
<1>1. IInv'
  <2>1. TypeOK'
    BY DEF IInv, vars, TypeOK, Revisions
  <2>2. OutboxInv'
    BY DEF IInv, vars, OutboxInv, Revisions
  <2>3. ASSUME NEW r \in Runs PROVE RunInv(run[r])'
    BY DEF IInv, vars, RunInv, DeltaOf, Revisions, MutationHead
  <2>4. CheckpointInv'
    BY DEF IInv, vars, CheckpointInv, CheckpointDeliverable, Revisions, MutationHead
  <2>5. DeltaInv'
    BY DEF IInv, vars, DeltaInv, DeltaOf, Revisions
  <2>6. BaseInv'
    BY DEF IInv, vars, BaseInv, BaseClaim, Revisions
  <2> QED BY <2>1, <2>2, <2>3, <2>4, <2>5, <2>6 DEF IInv
<1>2. Stored' = Stored
  BY DEF vars, Stored, Revisions
<1>3. HeadDelta' = HeadDelta
  BY DEF vars, HeadDelta
<1>4. history' = history /\ head' = head
  BY DEF vars
<1> QED BY <1>1, <1>2, <1>3, <1>4 DEF Seen

-----------------------------------------------------------------------------
(* Only what passed validation is stored *)

\* A delta between two valid checkpoints that a receiver does not refuse.
GoodDelta(b) == ValidDelta(b) /\ ValidCheckpoint(b.sha) /\ ValidCheckpoint(b.baseSha)
GoodRun(x) ==
  /\ x.pc \in Bodied => ValidCheckpoint(x.body)
  /\ x.delta # NoDelta => GoodDelta(x.delta.body)
GoodObject(k, o) ==
  o.there => /\ k = "checkpoint" => ValidCheckpoint(o.body)
             /\ k = "delta" => GoodDelta(o.body)

ValidInv ==
  /\ \A r \in Runs : GoodRun(run[r])
  /\ \A k \in Kinds : \A i \in Revisions : GoodObject(k, objects[k][i])

\* A run that makes no body and no delta.
KeepsRun(x, y) ==
  /\ y.pc \in Bodied => x.pc \in Bodied /\ y.body = x.body
  /\ y.delta # NoDelta => x.delta # NoDelta /\ y.delta.body = x.delta.body
KeepsRuns == \A s \in Runs : KeepsRun(run[s], run'[s])

LEMMA PutKeeps ==
  ASSUME RunsOK, NEW r \in Runs, NEW y, run' = [run EXCEPT ![r] = y], KeepsRun(run[r], y)
  PROVE  KeepsRuns
<1>1. ASSUME NEW s \in Runs PROVE KeepsRun(run[s], run'[s])
  <2>1. CASE s = r
    BY <2>1 DEF RunsOK
  <2>2. CASE s # r
    BY <2>2 DEF RunsOK, KeepsRun
  <2> QED BY <2>1, <2>2
<1> QED BY <1>1 DEF KeepsRuns

LEMMA GotoKeeps ==
  ASSUME RunsOK, NEW r \in Runs, NEW pc, Goto(r, pc), pc \notin Bodied \/ run[r].pc \in Bodied
  PROVE  KeepsRuns
<1>1. PICK y : run' = [run EXCEPT ![r] = y] /\ Follows(run[r], y) /\ y.pc = pc
  BY GotoRun
<1>2. KeepsRun(run[r], y)
  BY <1>1 DEF KeepsRun, Follows
<1> QED BY <1>1, <1>2, PutKeeps

LEMMA IdleKeeps ==
  ASSUME RunsOK, HistoryOK, NEW r \in Runs, run' = [run EXCEPT ![r] = Idle]
  PROVE  KeepsRuns
<1>1. Idle.pc = "idle" /\ Idle.delta = NoDelta
  BY IdleTyped
<1>2. KeepsRun(run[r], Idle)
  BY <1>1 DEF KeepsRun, Bodied
<1> QED BY <1>2, PutKeeps

\* Every call but the reading of the entries and the making of the delta.
LEMMA QuietKeeps ==
  ASSUME IInv, NEW r \in Runs, Start(r) \/ Step(r) \/ Fault(r),
         ~ReadEntries(r), ~PrepareDelta(r)
  PROVE  KeepsRuns
<1>1. RunsOK /\ HistoryOK
  BY Basics
<1>2. PICK x : x = run[r] /\ DOMAIN x = RunFields /\ DOMAIN x.delta = DeltaFields
  BY Basics DEF RunTyped
<1>3. CASE Start(r)
  <2>1. PICK y : y = [Idle EXCEPT !.pc = "sweep delta"]
    OBVIOUS
  <2>2. y.pc = "sweep delta" /\ y.delta = NoDelta
    BY <2>1 DEF Idle
  <2>3. KeepsRun(run[r], y)
    BY <2>2 DEF KeepsRun, Bodied
  <2> QED BY <1>1, <1>3, <2>1, <2>3, PutKeeps DEF Start
<1>4. ASSUME NEW k \in Kinds, Sweep(r, k) PROVE KeepsRuns
  <2>1. AfterSweep(k) \notin Bodied /\ Dropping[k] \notin Bodied
    BY KindsAre, StepsOf DEF AfterSweep, Bodied
  <2>2. \A t, p : p \notin Bodied => KeepsRun(x, [x EXCEPT !.pc = p, !.target = t])
    BY <1>2 DEF KeepsRun, RunFields
  <2>3. Goto(r, AfterSweep(k)) \/ \E t : run' = [run EXCEPT ![r].pc = Dropping[k], ![r].target = t]
    BY <1>4, ZenonT(30) DEF Sweep, Goto
  <2>4. CASE Goto(r, AfterSweep(k))
    BY <1>1, <2>1, <2>4, GotoKeeps
  <2>5. CASE \E t : run' = [run EXCEPT ![r].pc = Dropping[k], ![r].target = t]
    <3>1. PICK t : run' = [run EXCEPT ![r].pc = Dropping[k], ![r].target = t]
      BY <2>5
    <3>2. PICK y : y = [x EXCEPT !.pc = Dropping[k], !.target = t]
      OBVIOUS
    <3>3. run' = [run EXCEPT ![r] = y]
      BY <1>2, <3>1, <3>2
    <3>4. KeepsRun(run[r], y)
      BY <1>2, <2>1, <2>2, <3>2
    <3> QED BY <1>1, <3>3, <3>4, PutKeeps
  <2> QED BY <2>3, <2>4, <2>5
<1>5. ASSUME NEW k \in Kinds, DropObject(r, k) PROVE KeepsRuns
  <2>1. Forgetting[k] \notin Bodied
    BY KindsAre, StepsOf DEF Bodied
  <2> QED BY <1>1, <1>5, <2>1, GotoKeeps DEF DropObject
<1>6. ASSUME NEW k \in Kinds, ForgetRow(r, k) PROVE KeepsRuns
  <2>1. AfterSweep(k) \notin Bodied
    BY KindsAre DEF AfterSweep, Bodied
  <2>2. PICK y : y = [x EXCEPT !.pc = AfterSweep(k), !.target = Idle.target]
    OBVIOUS
  <2>3. run' = [run EXCEPT ![r] = y]
    BY <1>2, <1>6, <2>2 DEF ForgetRow
  <2>4. y.pc = AfterSweep(k) /\ y.delta = x.delta
    BY <1>2, <2>2 DEF RunFields
  <2>5. KeepsRun(run[r], y)
    BY <1>2, <2>1, <2>4 DEF KeepsRun
  <2> QED BY <1>1, <2>3, <2>5, PutKeeps
<1>7. ASSUME NEW k \in Kinds, RecordWriting(r, k) PROVE KeepsRuns
  <2>1. \/ k = "checkpoint" /\ x.pc \in Bodied
        \/ k = "delta" /\ Storing[k] \notin Bodied
    BY <1>2, <1>7, KindsAre, StepsOf DEF RecordWriting, At, Bodied
  <2>2. Wrong(k) \notin Bodied
    BY DEF Wrong, Bodied
  <2>3. Goto(r, Wrong(k)) \/ Goto(r, Storing[k])
    BY <1>7 DEF RecordWriting
  <2> QED BY <1>1, <1>2, <2>1, <2>2, <2>3, GotoKeeps
<1>8. ASSUME NEW k \in Kinds, StoreImmutable(r, k) PROVE KeepsRuns
  <2>1. PICK i : i = run[r].revision
    OBVIOUS
  <2>2. PICK o : Puts(r, k, i, o)
    BY <1>8, <2>1, StoredObject
  <2>3. CASE k = "checkpoint"
    <3>1. PICK y : y = [x EXCEPT !.pc = "stage checkpoint", !.version = o.version]
      OBVIOUS
    <3>2. run' = [run EXCEPT ![r] = y]
      BY <1>2, <2>2, <2>3, <3>1 DEF Puts
    <3>3. y.body = x.body /\ y.delta = x.delta
      BY <1>2, <3>1 DEF RunFields
    <3>4. x.pc \in Bodied
      BY <1>2, <1>8, <2>3, StepsOf DEF StoreImmutable, At, Bodied
    <3>5. KeepsRun(run[r], y)
      BY <1>2, <3>3, <3>4 DEF KeepsRun
    <3> QED BY <1>1, <3>2, <3>5, PutKeeps
  <2>4. CASE k = "delta"
    <3>1. PICK d : d = [x.delta EXCEPT !.version = o.version]
      OBVIOUS
    <3>2. PICK y : y = [x EXCEPT !.pc = "stage delta", !.delta = d]
      OBVIOUS
    <3>3. run' = [run EXCEPT ![r] = y]
      BY <1>2, <2>2, <2>4, <3>1, <3>2 DEF Puts
    <3>4. y.pc = "stage delta" /\ y.delta = d /\ d.body = x.delta.body
      BY <1>2, <3>1, <3>2 DEF RunFields, DeltaFields
    <3>5. x.pc = "store delta"
      BY <1>2, <1>8, <2>4, StepsOf DEF StoreImmutable, At
    <3>6. x.delta # NoDelta
      BY <1>2, <3>5, Basics DEF RunInv, Deltaed
    <3>7. KeepsRun(run[r], y)
      BY <1>2, <3>4, <3>6 DEF KeepsRun, Bodied
    <3> QED BY <1>1, <3>3, <3>7, PutKeeps
  <2> QED BY <2>3, <2>4, KindsAre
<1>9. ASSUME NEW k \in Kinds, MarkStaged(r, k) PROVE KeepsRuns
  <2>1. Wrong(k) \notin Bodied /\ "fence" \notin Bodied
    BY DEF Wrong, Bodied
  <2>2. PICK pc : Goto(r, pc) /\ (pc = Wrong(k) \/ pc = "fence" \/ (k = "checkpoint" /\ pc = "base"))
    BY <1>9 DEF MarkStaged
  <2>3. k = "checkpoint" => x.pc \in Bodied
    BY <1>2, <1>9, StepsOf DEF MarkStaged, At, Bodied
  <2> QED BY <1>1, <1>2, <2>1, <2>2, <2>3, GotoKeeps
<1>10. CASE ClaimLatest(r)
  <2>1. CASE Goto(r, "collapse")
    BY <1>1, <2>1, GotoKeeps DEF Bodied
  <2>2. CASE Claimable(r)
    <3>1. PICK i, n : i = MutationHead /\ n = outbox[MutationHead].attempts + 1
      OBVIOUS
    <3>2. PICK y : y = [x EXCEPT !.pc = "load", !.revision = i, !.owner = n]
      OBVIOUS
    <3>3. run' = [run EXCEPT ![r] = y]
      BY <1>2, <1>10, <2>2, <3>1, <3>2 DEF ClaimLatest
    <3>4. y.pc = "load" /\ y.delta = x.delta
      BY <1>2, <3>2 DEF RunFields
    <3>5. KeepsRun(run[r], y)
      BY <1>2, <3>4 DEF KeepsRun, Bodied
    <3> QED BY <1>1, <3>3, <3>5, PutKeeps
  <2> QED BY <1>10, <2>1, <2>2 DEF ClaimLatest
<1>11. CASE LoadCandidate(r)
  BY <1>1, <1>11, GotoKeeps DEF LoadCandidate, Bodied
<1>12. CASE ReleaseUnloadable(r)
  BY <1>1, <1>12, GotoKeeps DEF ReleaseUnloadable, Bodied
<1>13. CASE ReadPrevious(r)
  <2>1. PICK p : run' = [run EXCEPT ![r].pc = "directories", ![r].previous = p]
    BY <1>13 DEF ReadPrevious
  <2>2. PICK y : y = [x EXCEPT !.pc = "directories", !.previous = p]
    OBVIOUS
  <2>3. run' = [run EXCEPT ![r] = y]
    BY <1>2, <2>1, <2>2
  <2>4. y.pc = "directories" /\ y.delta = x.delta
    BY <1>2, <2>2 DEF RunFields
  <2>5. KeepsRun(run[r], y)
    BY <1>2, <2>4 DEF KeepsRun, Bodied
  <2> QED BY <1>1, <2>3, <2>5, PutKeeps
<1>14. CASE ReadDirectories(r)
  <2>1. PICK n : n = MutationHead
    OBVIOUS
  <2>2. PICK y : y = [x EXCEPT !.pc = "entries", !.seen = n]
    OBVIOUS
  <2>3. run' = [run EXCEPT ![r] = y]
    BY <1>2, <1>14, <2>1, <2>2 DEF ReadDirectories
  <2>4. y.pc = "entries" /\ y.delta = x.delta
    BY <1>2, <2>2 DEF RunFields
  <2>5. KeepsRun(run[r], y)
    BY <1>2, <2>4 DEF KeepsRun, Bodied
  <2> QED BY <1>1, <2>3, <2>5, PutKeeps
<1>15. CASE DiscardDelta(r)
  <2>1. PICK pc : pc = CASE rows.delta[run[r].revision].state = "writing" -> "discard object"
                         [] rows.delta[run[r].revision].state = "staged"  -> "orphan delta"
                         [] OTHER -> "fence"
    OBVIOUS
  <2>2. PICK y : y = [x EXCEPT !.delta = NoDelta, !.pc = pc]
    OBVIOUS
  <2>3. run' = [run EXCEPT ![r] = y]
    BY <1>2, <1>15, <2>1, <2>2 DEF DiscardDelta
  <2>4. y.pc = pc /\ y.delta = NoDelta
    BY <1>2, <2>2 DEF RunFields
  <2>5. pc \notin Bodied
    BY <2>1 DEF Bodied
  <2>6. KeepsRun(run[r], y)
    BY <2>4, <2>5 DEF KeepsRun
  <2> QED BY <1>1, <2>3, <2>6, PutKeeps
<1>16. CASE DiscardObject(r)
  BY <1>1, <1>16, GotoKeeps DEF DiscardObject, Bodied
<1>17. CASE DiscardRow(r)
  BY <1>1, <1>17, GotoKeeps DEF DiscardRow, Bodied
<1>18. CASE Fence(r)
  <2>1. PICK pc : pc = IF Current(r, 0) THEN "publish" ELSE "orphan"
    OBVIOUS
  <2>2. PICK y : y = [x EXCEPT !.pc = pc, !.age = 0]
    OBVIOUS
  <2>3. run' = [run EXCEPT ![r] = y]
    BY <1>2, <1>18, <2>1, <2>2 DEF Fence
  <2>4. y.pc = pc /\ y.delta = x.delta
    BY <1>2, <2>2 DEF RunFields
  <2>5. KeepsRun(run[r], y)
    BY <1>2, <2>1, <2>4 DEF KeepsRun, Bodied
  <2> QED BY <1>1, <2>3, <2>5, PutKeeps
<1>19. CASE Publish(r)
  <2>1. PICK pc : Goto(r, pc) /\ pc \in {"collapse", "failed", "orphan"}
    BY <1>19 DEF Publish
  <2> QED BY <1>1, <2>1, GotoKeeps DEF Bodied
<1>20. CASE MarkOrphaned(r)
  BY <1>1, <1>20, GotoKeeps DEF MarkOrphaned, Bodied
<1>21. CASE ReleaseClaim(r)
  BY <1>1, <1>21, GotoKeeps DEF ReleaseClaim, Bodied
<1>22. CASE CollapseHistorical(r)
  BY <1>1, <1>22, GotoKeeps DEF CollapseHistorical, Bodied
<1>23. CASE RetireHistorical(r)
  BY <1>1, <1>23, IdleKeeps DEF RetireHistorical
<1>24. CASE ReleaseFailed(r)
  BY <1>1, <1>24, IdleKeeps DEF ReleaseFailed
<1>25. CASE Fault(r)
  <2>1. CASE Die(r)
    BY <1>1, <2>1, IdleKeeps DEF Die
  <2>2. CASE DeltaFails(r) \/ DiscardFails(r) \/ Fail(r)
    BY <1>1, <2>2, GotoKeeps DEF DeltaFails, DiscardFails, Fail, Bodied
  <2> QED BY <1>25, <2>1, <2>2 DEF Fault
<1> QED BY <1>3, <1>4, <1>5, <1>6, <1>7, <1>8, <1>9, <1>10, <1>11, <1>12, <1>13, <1>14, <1>15,
           <1>16, <1>17, <1>18, <1>19, <1>20, <1>21, <1>22, <1>23, <1>24, <1>25 DEF Step

\* Every object is one that was there, or made by a run.
LEMMA ObjectsGood ==
  ASSUME IInv, ValidInv, NEW r \in Runs, Start(r) \/ Step(r) \/ Fault(r)
  PROVE  history' = history /\ \A k \in Kinds : \A i \in Revisions : GoodObject(k, objects'[k][i])
<1>1. ASSUME NEW k \in Kinds, NEW i \in Revisions, NEW o, objects' = Put(objects, k, i, o),
             GoodObject(k, o)
      PROVE  \A l \in Kinds : \A j \in Revisions : GoodObject(l, objects'[l][j])
  <2>1. DOMAIN objects = Kinds /\ DOMAIN objects[k] = Revisions
    BY Basics DEF ObjectsOK
  <2>2. PICK f : f = [objects[k] EXCEPT ![i] = o]
    OBVIOUS
  <2>3. objects' = [objects EXCEPT ![k] = f]
    BY <1>1, <2>2 DEF Put
  <2>4. ASSUME NEW l \in Kinds, NEW j \in Revisions
        PROVE  objects'[l][j] = objects[l][j] \/ (l = k /\ objects'[l][j] = o)
    BY <2>1, <2>2, <2>3
  <2> QED BY <1>1, <2>4 DEF ValidInv
<1>2. CASE objects' = objects
  BY <1>2 DEF ValidInv, Start, Step, Fault, Sweep, ForgetRow, RecordWriting, MarkStaged,
     ClaimLatest, LoadCandidate, ReleaseUnloadable, ReadPrevious, ReadDirectories, ReadEntries,
     PrepareDelta, DiscardDelta, DiscardRow, Fence, Publish, MarkOrphaned, ReleaseClaim,
     CollapseHistorical, RetireHistorical, ReleaseFailed, DeltaFails, DiscardFails, Fail, Die,
     DropObject, DiscardObject, StoreImmutable
<1>3. ASSUME NEW k \in Kinds, DropObject(r, k)
      PROVE  history' = history /\ \A l \in Kinds : \A j \in Revisions : GoodObject(l, objects'[l][j])
  <2>0. PICK x : x = run[r] /\ RunInv(x) /\ x.pc = Dropping[k]
    BY <1>3, Basics DEF DropObject, At
  <2>1. PICK i : i = run[r].target.revision /\ i \in Revisions
    BY <2>0, KindsAre, StepsOf DEF RunInv
  <2>2. PICK o : Removed(k, i) = Put(objects, k, i, o) /\ o.there = FALSE
    BY <2>1, RemovedObject
  <2>3. GoodObject(k, o)
    BY <2>2 DEF GoodObject
  <2> QED BY <1>1, <1>3, <2>1, <2>2, <2>3 DEF DropObject
<1>4. ASSUME DiscardObject(r)
      PROVE  history' = history /\ \A l \in Kinds : \A j \in Revisions : GoodObject(l, objects'[l][j])
  <2>1. PICK i : i = run[r].revision /\ i \in Revisions
    BY <1>4, Basics DEF DiscardObject, At, Held, Steps, Before
  <2>2. PICK k \in Kinds : k = "delta"
    BY KindsAre
  <2>3. PICK o : Removed(k, i) = Put(objects, k, i, o) /\ o.there = FALSE
    BY <2>1, RemovedObject
  <2>4. GoodObject(k, o)
    BY <2>3 DEF GoodObject
  <2> QED BY <1>1, <1>4, <2>1, <2>2, <2>3, <2>4 DEF DiscardObject
<1>5. ASSUME NEW k \in Kinds, StoreImmutable(r, k)
      PROVE  history' = history /\ \A l \in Kinds : \A j \in Revisions : GoodObject(l, objects'[l][j])
  <2>1. PICK x : x = run[r] /\ RunInv(x) /\ GoodRun(x) /\ x.pc = Storing[k]
    BY <1>5, Basics DEF StoreImmutable, At, ValidInv
  <2>2. \/ x.pc = "store checkpoint" /\ k = "checkpoint"
        \/ x.pc = "store delta" /\ k = "delta"
    BY <2>1, KindsAre, StepsOf
  <2>3. PICK i : i = x.revision /\ i \in Revisions
    BY <2>1, <2>2 DEF RunInv, Held, Steps, Before
  <2>4. PICK b : b = IF k = "checkpoint" THEN x.body ELSE x.delta.body
    OBVIOUS
  <2>5. PICK w, n : w = objects[k][i] /\ n = objects[k][i].version + 1
    OBVIOUS
  <2>6. PICK o : o = IF w.there THEN w ELSE [there |-> TRUE, version |-> n, body |-> b]
    OBVIOUS
  <2>7. objects' = Put(objects, k, i, o)
    BY <1>5, <2>1, <2>3, <2>4, <2>5, <2>6 DEF StoreImmutable
  <2>8. GoodObject(k, o)
    <3>1. CASE w.there
      BY <2>3, <2>5, <2>6, <3>1 DEF ValidInv
    <3>2. CASE ~w.there
      <4>1. o.body = b
        BY <2>6, <3>2
      <4>2. k = "checkpoint" => ValidCheckpoint(b)
        BY <2>1, <2>2, <2>4 DEF GoodRun, Bodied
      <4>3. k = "delta" => GoodDelta(b)
        BY <2>1, <2>2, <2>4 DEF GoodRun, RunInv, Deltaed
      <4> QED BY <4>1, <4>2, <4>3 DEF GoodObject
    <3> QED BY <3>1, <3>2
  <2> QED BY <1>1, <1>5, <2>3, <2>7, <2>8 DEF StoreImmutable
<1>6. \/ objects' = objects
      \/ \E k \in Kinds : DropObject(r, k) \/ StoreImmutable(r, k)
      \/ DiscardObject(r)
  BY DEF Start, Step, Fault, Sweep, ForgetRow, RecordWriting, MarkStaged,
     ClaimLatest, LoadCandidate, ReleaseUnloadable, ReadPrevious, ReadDirectories, ReadEntries,
     PrepareDelta, DiscardDelta, DiscardRow, Fence, Publish, MarkOrphaned, ReleaseClaim,
     CollapseHistorical, RetireHistorical, ReleaseFailed, DeltaFails, DiscardFails, Fail, Die
<1> QED BY <1>2, <1>3, <1>4, <1>5, <1>6

LEMMA RunsGood ==
  ASSUME IInv, ValidInv, KeepsRuns
  PROVE  \A s \in Runs : GoodRun(run'[s])
BY DEF ValidInv, KeepsRuns, KeepsRun, GoodRun

LEMMA ValidStep ==
  ASSUME IInv, ValidInv, NEW r \in Runs, Start(r) \/ Step(r) \/ Fault(r)
  PROVE  ValidInv'
<1>1. /\ history' = history /\ Revisions' = Revisions
      /\ \A k \in Kinds : \A i \in Revisions : GoodObject(k, objects'[k][i])
  BY ObjectsGood DEF Revisions
<1>2. PICK x : x = run[r] /\ DOMAIN x = RunFields /\ GoodRun(x) /\ RunInv(x)
  BY Basics DEF RunTyped, ValidInv
<1>3. ASSUME NEW y, run' = [run EXCEPT ![r] = y], GoodRun(y)
      PROVE  \A s \in Runs : GoodRun(run'[s])
  BY <1>3, Basics DEF RunsOK, ValidInv
<1>4. CASE ~ReadEntries(r) /\ ~PrepareDelta(r)
  BY <1>1, <1>4, QuietKeeps, RunsGood DEF ValidInv
<1>5. CASE ReadEntries(r)
  <2>1. CASE Goto(r, "failed")
    <3>1. KeepsRuns
      BY <2>1, Basics, GotoKeeps DEF Bodied
    <3> QED BY <1>1, <3>1, RunsGood DEF ValidInv
  <2>2. CASE ~Goto(r, "failed")
    <3>1. PICK b : b = Body(r) /\ ValidCheckpoint(b)
      BY <1>5, <2>2 DEF ReadEntries
    <3>2. PICK y : y = [x EXCEPT !.pc = "record checkpoint", !.body = b, !.seen = 0]
      OBVIOUS
    <3>3. run' = [run EXCEPT ![r] = y]
      BY <1>2, <1>5, <2>2, <3>1, <3>2 DEF ReadEntries
    <3>4. y.body = b /\ y.delta = x.delta
      BY <1>2, <3>2 DEF RunFields
    <3>5. GoodRun(y)
      BY <1>2, <3>1, <3>4 DEF GoodRun
    <3> QED BY <1>1, <1>3, <3>3, <3>5 DEF ValidInv
  <2> QED BY <2>1, <2>2
<1>6. CASE PrepareDelta(r)
  <2>1. PICK b, base : b = x.previous.revision /\ base = objects.checkpoint[b]
    OBVIOUS
  <2>2. PICK body : body = BuildDelta(base.body, x.body)
    OBVIOUS
  <2>3. CASE Goto(r, "discard") \/ Goto(r, "fence")
    <3>1. KeepsRuns
      BY <2>3, Basics, GotoKeeps DEF Bodied
    <3> QED BY <1>1, <3>1, RunsGood DEF ValidInv
  <2>4. CASE ~(Goto(r, "discard") \/ Goto(r, "fence"))
    <3>1. /\ x.pc = "base" /\ base.there /\ ValidDelta(body)
          /\ run' = [run EXCEPT ![r].pc = "record delta",
                                ![r].delta = [base |-> b, version |-> 0, body |-> body]]
      BY <1>2, <1>6, <2>1, <2>2, <2>4 DEF PrepareDelta, At
    <3>2. b \in Revisions
      <4>1. x.revision \in Revisions /\ b \in 1..(x.revision - 1)
        BY <1>2, <2>1, <3>1 DEF RunInv
      <4> QED BY <4>1, Basics, Numbered
    <3>3. ValidCheckpoint(base.body)
      BY <2>1, <3>1, <3>2, KindsAre DEF ValidInv, GoodObject
    <3>4. ValidCheckpoint(x.body)
      BY <1>2, <3>1 DEF GoodRun, Bodied
    <3>5. body.sha = x.body /\ body.baseSha = base.body
      BY <2>2, DeltaFieldsAre
    <3>6. GoodDelta(body)
      BY <3>1, <3>3, <3>4, <3>5 DEF GoodDelta
    <3>7. PICK d : d = [base |-> b, version |-> 0, body |-> body]
      OBVIOUS
    <3>8. PICK y : y = [x EXCEPT !.pc = "record delta", !.delta = d]
      OBVIOUS
    <3>9. run' = [run EXCEPT ![r] = y]
      BY <1>2, <3>1, <3>7, <3>8
    <3>10. y.pc = "record delta" /\ y.delta.body = body
      BY <1>2, <3>7, <3>8 DEF RunFields
    <3>11. GoodRun(y)
      BY <3>6, <3>10 DEF GoodRun, Bodied
    <3> QED BY <1>1, <1>3, <3>9, <3>11 DEF ValidInv
  <2> QED BY <2>3, <2>4
<1> QED BY <1>4, <1>5, <1>6

LEMMA ValidNext ==
  ASSUME IInv, ValidInv, [Next]_vars
  PROVE  ValidInv'
<1>1. CASE Mutate
  <2>1. PICK n : n = Len(history)
    OBVIOUS
  <2>2. /\ n \in Nat /\ Len(history') = n + 1
        /\ \A k \in Kinds : /\ \A i \in 1..n : objects'[k][i] = objects[k][i]
                            /\ objects'[k][n + 1] = NoObject
    BY <1>1, <2>1, MutateEffect
  <2>3. Revisions = 1..n /\ Revisions' = 1..(n + 1)
    BY <2>1, <2>2 DEF Revisions
  <2>4. \A i \in 1..(n + 1) : i \in 1..n \/ i = n + 1
    BY <2>2
  <2>5. \A k : GoodObject(k, NoObject)
    BY EmptyTyped DEF GoodObject
  <2>6. \A k \in Kinds : \A i \in 1..(n + 1) : GoodObject(k, objects'[k][i])
    BY <2>2, <2>3, <2>4, <2>5 DEF ValidInv
  <2>7. run' = run
    BY <1>1 DEF Mutate
  <2> QED BY <2>3, <2>6, <2>7 DEF ValidInv
<1>2. CASE Tick
  <2>1. history' = history /\ objects' = objects /\ Revisions' = Revisions
    BY <1>2 DEF Tick, Revisions
  <2>2. ASSUME NEW r \in Runs PROVE GoodRun(run'[r])
    <3>1. PICK x : x = run[r] /\ DOMAIN x = RunFields /\ GoodRun(x)
      BY Basics DEF RunTyped, ValidInv
    <3>2. PICK a : a = x.age + 1
      OBVIOUS
    <3>3. PICK y : y = [x EXCEPT !.age = a]
      OBVIOUS
    <3>4. run'[r] = y \/ run'[r] = x
      BY <1>2, <3>1, <3>2, <3>3 DEF Tick
    <3>5. y.pc = x.pc /\ y.body = x.body /\ y.delta = x.delta
      BY <3>1, <3>3 DEF RunFields
    <3>6. GoodRun(y)
      BY <3>1, <3>5 DEF GoodRun
    <3> QED BY <3>1, <3>4, <3>6
  <2> QED BY <2>1, <2>2 DEF ValidInv
<1>3. ASSUME NEW r \in Runs, Start(r) \/ Step(r) \/ Fault(r) PROVE ValidInv'
  BY <1>3, ValidStep
<1>4. CASE UNCHANGED vars
  BY <1>4 DEF vars, ValidInv, Revisions
<1> QED BY <1>1, <1>2, <1>3, <1>4 DEF Next

LEMMA ValidInit ==
  ASSUME Init
  PROVE  ValidInv
<1>1. HistoryOK
  BY InitStep, Basics
<1>2. \A r \in Runs : run[r].pc = "idle" /\ run[r].delta = NoDelta
  BY <1>1, IdleTyped DEF Init
<1>3. \A r \in Runs : GoodRun(run[r])
  BY <1>2 DEF GoodRun, Bodied
<1>4. Revisions = 1..1 /\ \A k \in Kinds : objects[k][1] = NoObject
  BY DEF Init, Revisions
<1>5. \A k \in Kinds : \A i \in Revisions : GoodObject(k, objects[k][i])
  <2>1. \A i \in 1..1 : i = 1
    OBVIOUS
  <2> QED BY <1>4, <2>1, EmptyTyped DEF GoodObject
<1> QED BY <1>3, <1>5 DEF ValidInv

-----------------------------------------------------------------------------
(* The theorems *)

\* A delta that is stored and published for the head was built from the
\* checkpoint of the revision its row names as base.
DeltaBuilt ==
  LET row == rows.delta[head]
      obj == objects.delta[head]
  IN  (head # 0 /\ row.state = "published" /\ obj.there) =>
        /\ row.base \in 1..(head - 1)
        /\ obj.body = DeltaOf(row.base, head)

LEMMA BuiltFromBase ==
  ASSUME IInv
  PROVE  DeltaBuilt
<1> SUFFICES ASSUME head # 0, rows.delta[head].state = "published", objects.delta[head].there
             PROVE  /\ rows.delta[head].base \in 1..(head - 1)
                    /\ objects.delta[head].body = DeltaOf(rows.delta[head].base, head)
  BY DEF DeltaBuilt
<1>1. head \in Revisions /\ Revisions = 1..Len(history) /\ Len(history) \in Nat
  BY SplitTypes, Numbered DEF IInv
<1>2. rows.delta[head].base \in 1..(head - 1)
  BY <1>1 DEF IInv, DeltaInv
<1>3. PICK b \in 1..(head - 1) : /\ objects.delta[head].body = DeltaOf(b, head)
                                 /\ objects.delta[head].body.baseRevision = b
  BY <1>1 DEF IInv, DeltaInv
<1>4. rows.delta[head].base \in Revisions /\ b \in Revisions
  BY <1>1, <1>2
<1>5. BaseClaim(head, rows.delta[head].base) /\ BaseClaim(head, b)
  BY <1>3 DEF BaseClaim
<1>6. rows.delta[head].base = b
  BY <1>1, <1>4, <1>5 DEF IInv, BaseInv
<1> QED BY <1>2, <1>3, <1>6

LEMMA CheckpointShaped ==
  ASSUME NEW i, NEW t
  PROVE  Shaped(Checkpoint(i, t))
<1>1. PICK rs, es, m : rs = DirectoryRows(t) /\ es = EntryRows(t) /\ m = DataRoots(t)[Root]
  OBVIOUS
<1>2. PICK cp : cp = Assemble(i, m, rs, es)
  OBVIOUS
<1>3. PICK f : f = [d \in DOMAIN rs |->
                      [parent |-> rs[d].parent, name |-> rs[d].name, dataRoot |-> rs[d].dataRoot,
                       entries |-> IF d \in DOMAIN es THEN es[d] ELSE {}]]
  OBVIOUS
<1>4. cp = [revision |-> i, root |-> Root, dataRoot |-> m, dirs |-> f]
  BY <1>2, <1>3 DEF Assemble
<1>5. cp.revision = i /\ cp.dataRoot = m /\ cp.dirs = f
  BY <1>4
<1>6. cp = [revision |-> cp.revision, root |-> Root, dataRoot |-> cp.dataRoot, dirs |-> cp.dirs]
  BY <1>4, <1>5
<1>7. ASSUME NEW d \in DOMAIN f
      PROVE  f[d] = [parent |-> f[d].parent, name |-> f[d].name,
                     dataRoot |-> f[d].dataRoot, entries |-> f[d].entries]
  <2>1. PICK e : e = IF d \in DOMAIN es THEN es[d] ELSE {}
    OBVIOUS
  <2>2. f[d] = [parent |-> rs[d].parent, name |-> rs[d].name, dataRoot |-> rs[d].dataRoot,
                entries |-> e]
    BY <1>3, <2>1
  <2> QED BY <2>2
<1>8. f = [d \in DOMAIN f |-> f[d]]
  BY <1>3
<1>9. f = [d \in DOMAIN f |-> [parent |-> f[d].parent, name |-> f[d].name,
                               dataRoot |-> f[d].dataRoot, entries |-> f[d].entries]]
  BY <1>7, <1>8
<1>10. Shaped(cp)
  BY <1>5, <1>6, <1>9 DEF Shaped
<1> QED BY <1>1, <1>2, <1>10 DEF Checkpoint

LEMMA DeltaLeads ==
  ASSUME IInv, ValidInv
  PROVE  DeltaLeadsToHead
<1> SUFFICES ASSUME head # 0, rows.delta[head].state = "published", objects.delta[head].there
             PROVE  LET base == Checkpoint(rows.delta[head].base, history[rows.delta[head].base])
                    IN  /\ AppliesTo(base, base, objects.delta[head].body)
                        /\ Rebuilt(base, objects.delta[head].body) = Checkpoint(head, history[head])
  BY DEF DeltaLeadsToHead
<1>1. PICK b, body : b = rows.delta[head].base /\ body = objects.delta[head].body
  OBVIOUS
<1>2. body = DeltaOf(b, head)
  BY <1>1, BuiltFromBase DEF DeltaBuilt
<1>3. PICK base, target : /\ base = Checkpoint(b, history[b])
                          /\ target = Checkpoint(head, history[head])
  OBVIOUS
<1>4. body = BuildDelta(base, target)
  BY <1>2, <1>3 DEF DeltaOf
<1>5. head \in Revisions
  BY Basics, Numbered
<1>6. GoodDelta(body)
  BY <1>1, <1>5, KindsAre DEF ValidInv, GoodObject
<1>7. ValidDelta(body) /\ ValidCheckpoint(base) /\ ValidCheckpoint(target)
  BY <1>4, <1>6, DeltaFieldsAre DEF GoodDelta
<1>8. Shaped(base) /\ Shaped(target)
  BY <1>3, CheckpointShaped
<1>9. AppliesTo(base, base, body) /\ Rebuilt(base, body) = target
  BY <1>4, <1>7, <1>8, DeltaApplies
<1> QED BY <1>1, <1>3, <1>9

\* In every reachable state, whatever runs overlapped, stalled, failed or
\* died, the published head can be delivered.  Its checkpoint is in R2 under
\* the version its row records and is the tree of exactly that revision,
\* although it was read with two SELECTs; and a delta that is stored for it
\* under the version of its row applies to the checkpoint of the revision it
\* names as base and rebuilds the checkpoint of the head, the parents and names
\* of the directories it does not carry included.  With the types.
THEOREM HeadIsDeliverable == Spec => []HeadDeliverable
<1>1. Init => IInv /\ ValidInv
  BY InitStep, ValidInit
<1>2. IInv /\ ValidInv /\ [Next]_vars => IInv' /\ ValidInv'
  BY NextStep, StutterStep, ValidNext
<1>3. IInv /\ ValidInv => HeadDeliverable
  BY DeltaLeads DEF IInv, CheckpointInv, HeadDeliverable
<1> QED BY <1>1, <1>2, <1>3, PTL DEF Spec

\* The materializer implements CatalogPublisher: every call of a run changes
\* what the readers of the catalog see as that specification allows, or not
\* at all.  The head only advances, to the latest revision and with its
\* checkpoint stored; no checkpoint of the head is ever removed; its delta
\* may come late or be lost.
THEOREM MaterializerKeepsPromise == Spec => KeepsPromise
<1>1. Init => IInv /\ Promise!PublisherInit
  BY InitStep, InitSeen
<1>2. IInv /\ [Next]_vars => IInv' /\ [Promise!PublisherNext]_(Promise!publisherVars)
  <2> SUFFICES ASSUME IInv, [Next]_vars
               PROVE  IInv' /\ [Promise!PublisherNext]_(Promise!publisherVars)
    OBVIOUS
  <2>1. IInv' /\ Seen
    BY NextStep, StutterStep
  <2> QED BY <2>1 DEF Seen, Promise!publisherVars
<1> QED BY <1>1, <1>2, PTL DEF Spec, KeepsPromise, Promise!PublisherSpec
=============================================================================
