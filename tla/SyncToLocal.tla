----------------------------- MODULE SyncToLocal -----------------------------
(***************************************************************************)
(* The local half of a sync (sync_to_local of the client's sync.rs,        *)
(* download.rs and publication.rs): opening the state index, verified      *)
(* reuse of local files, downloads under read leases, publication into the *)
(* destination, the final fence and the new index.                         *)
(*                                                                         *)
(* The plan is a snapshot of the source, which CatalogClient establishes.  *)
(* Several syncs of one source run in different processes.  They share the *)
(* state index and the download staging, each takes the lock of its        *)
(* destination; meanwhile the source changes, the user edits local files,  *)
(* `fs get' writes into the same directory without the lock, providers     *)
(* return wrong bytes and processes are killed.                            *)
(*                                                                         *)
(* Content is the version it is the plaintext of; Merkle verification is   *)
(* equality with it.  A verified file is published from its open           *)
(* descriptor by a link and a rename, one step here.                       *)
(***************************************************************************)
EXTENDS Naturals, Sequences, FiniteSets

CONSTANTS Paths, Versions,
          Encrypted,    \* the versions stored as authenticated frames
          Absent,       \* no file at a path
          Foreign,      \* content that is no version's plaintext
          Nil,          \* no sync, no destination, no index
          Syncs,        \* the processes
          Destinations, \* the local directories
          Trees,        \* the trees the source takes: Paths -> Versions or Absent
          FirstTree,
          MaxRevision,  \* bound on the revisions of the source directory
          MaxStarts,    \* bound on the syncs of one behaviour
          MaxFaults     \* bound on failures, kills and edits together

ASSUME SyncAssumption ==
  /\ FirstTree \in Trees
  /\ Encrypted \subseteq Versions
  /\ Nil \notin Syncs /\ Absent \notin Versions
  /\ \A t \in Trees : t \in [Paths -> Versions \cup {Absent}]
  /\ MaxRevision \in Nat \ {0} /\ MaxStarts \in Nat /\ MaxFaults \in Nat

VARIABLES
  history,  \* history[r]: the files below the source at its revision r
  local,    \* local[d][p]: what destination d holds
  edited,   \* edited[d]: paths the user wrote since the last sync of d began
  index,    \* the indexed state of the last successful sync of the source, or Nil
  lock,     \* lock[d]: the sync that holds the destination, or Nil
  staging,  \* staging[v]: the sync that holds the download directory of v, or Nil
  sync,
  starts, faults

syncVars == <<history, local, edited, index, lock, staging, sync, starts, faults>>

Content == Versions \cup {Absent, Foreign}
Revision == Len(history)
Empty == [p \in Paths |-> Absent]

Idle == [pc |-> "idle", dest |-> Nil, plan |-> Empty, fence |-> 0, previous |-> Nil,
         todo |-> {}, staged |-> {}, error |-> FALSE, downloads |-> {}, leased |-> {},
         watch |-> FALSE, fetching |-> {}, fetched |-> Empty, records |-> Empty]

SyncInit ==
  /\ history = <<FirstTree>>
  /\ local = [d \in Destinations |-> Empty]
  /\ edited = [d \in Destinations |-> {}]
  /\ index = Nil
  /\ lock = [d \in Destinations |-> Nil]
  /\ staging = [v \in Versions |-> Nil]
  /\ sync = [s \in Syncs |-> Idle]
  /\ starts = 0
  /\ faults = 0

At(s, pc) == sync[s].pc = pc
Become(s, r) == sync' = [sync EXCEPT ![s] = r]
Proceed(s, pc) == Become(s, [sync[s] EXCEPT !.pc = pc])

\* matches_open_file: length and Merkle root of the content are the version's.
Matches(c, v) == c = v

\* restore_to_staging: frames authenticate under the version's descriptor; an
\* object without encryption is copied as it is.
Restores(c, v) == v \in Encrypted => c = v

Fault == faults < MaxFaults /\ faults' = faults + 1
Here(s) == local[sync[s].dest]
Write(s, p, v) == local' = [local EXCEPT ![sync[s].dest] = [@ EXCEPT ![p] = v]]

\* What is left of a sync that returns an error is its destination lock.  Its
\* read leases are left to expire.
Returned(s, pc) == [Idle EXCEPT !.pc = pc, !.dest = sync[s].dest]
FreeStaging(s) == staging' = [v \in Versions |-> IF staging[v] = s THEN Nil ELSE staging[v]]
Abort(s) == Become(s, Returned(s, "failed")) /\ FreeStaging(s)

-----------------------------------------------------------------------------
(* The others.                                                             *)

\* A namespace mutation below the source.
Mutate ==
  /\ Revision < MaxRevision
  /\ \E t \in Trees \ {history[Revision]} : history' = Append(history, t)
  /\ UNCHANGED <<local, edited, index, lock, staging, sync, starts, faults>>

\* The user edits, replaces or removes a local file.
Edit(d, p) ==
  /\ Fault
  /\ \E c \in {Absent, Foreign} \ {local[d][p]} : local' = [local EXCEPT ![d][p] = c]
  /\ edited' = [edited EXCEPT ![d] = @ \cup {p}]
  /\ UNCHANGED <<history, index, lock, staging, sync, starts>>

\* get_file: a verified download that never replaces a file.
GetFile(d, p) ==
  /\ history[Revision][p] # Absent
  /\ Fault
  /\ local[d][p] = Absent
  /\ local' = [local EXCEPT ![d][p] = history[Revision][p]]
  /\ edited' = [edited EXCEPT ![d] = @ \cup {p}]
  /\ UNCHANGED <<history, index, lock, staging, sync, starts>>

\* The index no longer decodes: it is ignored.
DamageIndex ==
  /\ index # Nil
  /\ Fault
  /\ index' = Nil
  /\ UNCHANGED <<history, local, edited, lock, staging, sync, starts>>

-----------------------------------------------------------------------------
(* Planning.                                                               *)

\* acquire_sync_lock: an overlapping sync is refused at once.
Start(s, d) ==
  /\ At(s, "idle")
  /\ starts < MaxStarts
  /\ lock[d] = Nil
  /\ lock' = [lock EXCEPT ![d] = s]
  /\ edited' = [edited EXCEPT ![d] = {}]
  /\ starts' = starts + 1
  /\ Become(s, [Idle EXCEPT !.pc = "state", !.dest = d])
  /\ UNCHANGED <<history, local, index, staging, faults>>

\* open_state_index.
OpenState(s) ==
  /\ At(s, "state")
  /\ Become(s, [sync[s] EXCEPT !.pc = "tree", !.previous = index])
  /\ UNCHANGED <<history, local, edited, index, lock, staging, starts, faults>>

\* plan_tree.
PlanTree(s) ==
  /\ At(s, "tree")
  /\ Become(s, [sync[s] EXCEPT !.pc = "local", !.plan = history[Revision], !.fence = Revision,
                  !.todo = {p \in Paths : history[Revision][p] # Absent}])
  /\ UNCHANGED <<history, local, edited, index, lock, staging, starts, faults>>

-----------------------------------------------------------------------------
(* Local reuse.                                                            *)

\* build_local_reuse_plan: the record of the path, and the records of other
\* paths with the same version.
Recorded(s, p) == sync[s].previous # Nil /\ sync[s].previous[p] = sync[s].plan[p]
Relocated(s, p) ==
  {q \in Paths \ {p} : sync[s].previous # Nil /\ sync[s].previous[q] = sync[s].plan[p]}

\* Evaluate that believes the index.
EvaluateTrusting(s, p) ==
  LET r == [sync[s] EXCEPT !.todo = @ \ {p}] IN
  /\ At(s, "local")
  /\ p \in sync[s].todo
  /\ Become(s, IF Recorded(s, p) THEN [r EXCEPT !.records[p] = sync[s].plan[p]]
               ELSE [r EXCEPT !.downloads = @ \cup {p}])
  /\ UNCHANGED <<history, local, edited, index, lock, staging, starts, faults>>

\* evaluate_local_file: a file is reused where its bytes verify, in place or
\* through a verified copy; anything else is downloaded.
Evaluate(s, p) ==
  LET v == sync[s].plan[p]
      r == [sync[s] EXCEPT !.todo = @ \ {p}]
  IN
  /\ At(s, "local")
  /\ p \in sync[s].todo
  /\ Become(s, IF Recorded(s, p) /\ Matches(Here(s)[p], v)
               THEN [r EXCEPT !.records[p] = v]
               ELSE IF \E q \in Relocated(s, p) : Matches(Here(s)[q], v)
               THEN [r EXCEPT !.staged = @ \cup {p}]
               ELSE [r EXCEPT !.downloads = @ \cup {p}])
  /\ UNCHANGED <<history, local, edited, index, lock, staging, starts, faults>>

\* A worker or a publication fails: the others are drained first.
EvaluateFails(s, p) ==
  /\ At(s, "local")
  /\ p \in sync[s].todo \cup sync[s].staged
  /\ Fault
  /\ Become(s, [sync[s] EXCEPT !.todo = @ \ {p}, !.staged = @ \ {p}, !.error = TRUE])
  /\ UNCHANGED <<history, local, edited, index, lock, staging, starts>>

\* StagedLocalReuse::publish.
PublishStaged(s, p) ==
  /\ At(s, "local")
  /\ p \in sync[s].staged
  /\ Write(s, p, sync[s].plan[p])
  /\ Become(s, [sync[s] EXCEPT !.staged = @ \ {p}, !.records[p] = sync[s].plan[p]])
  /\ UNCHANGED <<history, edited, index, lock, staging, starts, faults>>

LocalDone(s) ==
  /\ At(s, "local")
  /\ sync[s].todo = {} /\ sync[s].staged = {}
  /\ Become(s, IF sync[s].error THEN Returned(s, "failed")
               ELSE [sync[s] EXCEPT !.pc = IF sync[s].downloads = {} THEN "final" ELSE "watch"])
  /\ UNCHANGED <<history, local, edited, index, lock, staging, starts, faults>>

-----------------------------------------------------------------------------
(* Downloads.                                                              *)

\* The watch is optional; its first event must agree with the fence.
OpenWatch(s) ==
  /\ At(s, "watch")
  /\ \/ Proceed(s, "download")
     \/ Become(s, IF Revision = sync[s].fence
                  THEN [sync[s] EXCEPT !.pc = "download", !.watch = TRUE]
                  ELSE Returned(s, "failed"))
  /\ UNCHANGED <<history, local, edited, index, lock, staging, starts, faults>>

\* validate_watch_fence: an event about a change ends the sync early.
WatchEvent(s) ==
  /\ At(s, "download")
  /\ sync[s].watch
  /\ Revision # sync[s].fence
  /\ Abort(s)
  /\ UNCHANGED <<history, local, edited, index, lock, starts, faults>>

WatchLost(s) ==
  /\ At(s, "download")
  /\ sync[s].watch
  /\ Fault
  /\ Become(s, [sync[s] EXCEPT !.watch = FALSE])
  /\ UNCHANGED <<history, local, edited, index, lock, staging, starts>>

\* The producer asks for download plans ahead of the transfers; each takes a
\* read lease.
Prepare(s, p) ==
  /\ At(s, "download")
  /\ p \in sync[s].downloads
  /\ Become(s, [sync[s] EXCEPT !.downloads = @ \ {p}, !.leased = @ \cup {p}])
  /\ UNCHANGED <<history, local, edited, index, lock, staging, starts, faults>>

\* finish_prepared_file: the staging directory of the version is locked for
\* the time of the transfer.
LockStaging(s, p) ==
  /\ At(s, "download")
  /\ p \in sync[s].leased \ sync[s].fetching
  /\ sync[s].records[p] = Absent /\ sync[s].fetched[p] = Absent
  /\ staging[sync[s].plan[p]] = Nil
  /\ staging' = [staging EXCEPT ![sync[s].plan[p]] = s]
  /\ Become(s, [sync[s] EXCEPT !.fetching = @ \cup {p}])
  /\ UNCHANGED <<history, local, edited, index, lock, starts, faults>>

\* The bytes are taken as they were restored.
VerifiedAnything(s, p, c) == Restores(c, sync[s].plan[p])

\* The plaintext is published only if it verifies; a file that does not ends
\* the sync.
Verified(s, p, c) == Restores(c, sync[s].plan[p]) /\ Matches(c, sync[s].plan[p])

FinishFetch(s, p, c) ==
  /\ At(s, "download")
  /\ p \in sync[s].fetching
  /\ IF c = sync[s].plan[p] THEN UNCHANGED faults ELSE Fault
  /\ IF Verified(s, p, c)
     THEN /\ staging' = [staging EXCEPT ![sync[s].plan[p]] = Nil]
          /\ Become(s, [sync[s] EXCEPT !.fetching = @ \ {p}, !.fetched[p] = c])
     ELSE Abort(s)
  /\ UNCHANGED <<history, local, edited, index, lock, starts>>

\* publish_replace.
PublishDownload(s, p) ==
  /\ At(s, "download")
  /\ sync[s].fetched[p] # Absent
  /\ Write(s, p, sync[s].fetched[p])
  /\ Become(s, [sync[s] EXCEPT !.fetched[p] = Absent, !.records[p] = sync[s].plan[p]])
  /\ UNCHANGED <<history, edited, index, lock, staging, starts, faults>>

\* complete_read_lease_spool, once every file is published; a completion that
\* is lost only leaves the lease to expire.
CompleteLeases(s) ==
  /\ At(s, "download")
  /\ sync[s].downloads = {}
  /\ \A p \in sync[s].leased : sync[s].records[p] # Absent
  /\ Become(s, [sync[s] EXCEPT !.pc = "final", !.leased = {}, !.watch = FALSE])
  /\ UNCHANGED <<history, local, edited, index, lock, staging, starts, faults>>

-----------------------------------------------------------------------------
(* The end.                                                                *)

\* The source directory is still at the fence.
FinalFence(s) ==
  /\ At(s, "final")
  /\ IF Revision = sync[s].fence THEN Proceed(s, "write") ELSE Become(s, Returned(s, "failed"))
  /\ UNCHANGED <<history, local, edited, index, lock, staging, starts, faults>>

\* write_state: a new database, renamed over the old one.
WriteState(s) ==
  /\ At(s, "write")
  /\ index' = sync[s].records
  /\ Proceed(s, "done")
  /\ UNCHANGED <<history, local, edited, lock, staging, starts, faults>>

\* The call returns; the destination is unlocked.
Return(s) ==
  /\ sync[s].pc \in {"done", "failed"}
  /\ lock' = [lock EXCEPT ![sync[s].dest] = Nil]
  /\ Become(s, Idle)
  /\ UNCHANGED <<history, local, edited, index, staging, starts, faults>>

\* A request, a spool, a provider call or a local file operation fails.
Fail(s) ==
  /\ sync[s].pc \in {"state", "tree", "download", "final", "write"}
  /\ Fault
  /\ Abort(s)
  /\ UNCHANGED <<history, local, edited, index, lock, starts>>

\* A killed process: the system drops its locks, its temporaries stay.
Kill(s) ==
  /\ ~At(s, "idle")
  /\ Fault
  /\ lock' = [lock EXCEPT ![sync[s].dest] = Nil]
  /\ Become(s, Idle)
  /\ FreeStaging(s)
  /\ UNCHANGED <<history, local, edited, index, starts>>

-----------------------------------------------------------------------------
Step(s) ==
  \/ OpenState(s) \/ PlanTree(s) \/ LocalDone(s) \/ OpenWatch(s) \/ WatchEvent(s)
  \/ CompleteLeases(s) \/ FinalFence(s) \/ WriteState(s) \/ Return(s)
  \/ \E p \in Paths : \/ Evaluate(s, p) \/ PublishStaged(s, p) \/ Prepare(s, p)
                      \/ LockStaging(s, p) \/ FinishFetch(s, p, sync[s].plan[p])
                      \/ PublishDownload(s, p)

Trouble(s) ==
  \/ WatchLost(s) \/ Fail(s) \/ Kill(s)
  \/ \E p \in Paths : EvaluateFails(s, p) \/ FinishFetch(s, p, Foreign)

SyncNext ==
  \/ Mutate \/ DamageIndex
  \/ \E d \in Destinations, p \in Paths : Edit(d, p) \/ GetFile(d, p)
  \/ \E s \in Syncs : Step(s) \/ Trouble(s) \/ \E d \in Destinations : Start(s, d)

SyncSpec == SyncInit /\ [][SyncNext]_syncVars
-----------------------------------------------------------------------------
Files == [Paths -> Versions \cup {Absent}]

SyncRecords ==
  [pc : {"idle", "state", "tree", "local", "watch", "download", "final", "write", "done", "failed"},
   dest : Destinations \cup {Nil}, plan : Files, fence : Nat, previous : Files \cup {Nil},
   todo : SUBSET Paths, staged : SUBSET Paths, error : BOOLEAN, downloads : SUBSET Paths,
   leased : SUBSET Paths, watch : BOOLEAN, fetching : SUBSET Paths, fetched : [Paths -> Content],
   records : Files]

SyncTypeOK ==
  /\ history \in Seq(Trees) /\ Revision > 0
  /\ local \in [Destinations -> [Paths -> Content]]
  /\ edited \in [Destinations -> SUBSET Paths]
  /\ index \in Files \cup {Nil}
  /\ lock \in [Destinations -> Syncs \cup {Nil}]
  /\ staging \in [Versions -> Syncs \cup {Nil}]
  /\ sync \in [Syncs -> SyncRecords]

\* A sync that reports success left the destination exactly as the source was
\* at its fence, but for what the user did meanwhile: no stale index, reuse of
\* a file that another reuse replaced, overlapping sync or wrong provider
\* bytes shows in the result.
SyncedExactly ==
  /\ SyncTypeOK
  /\ \A s \in Syncs : At(s, "done") =>
       \A p \in Paths :
         sync[s].plan[p] # Absent =>
           \/ local[sync[s].dest][p] = sync[s].plan[p]
           \/ p \in edited[sync[s].dest]

\* A sync, even one that fails later or is killed, only ever puts content the
\* source had at that path into the destination; what the source does not have
\* is never touched.  The steps of the user and of `fs get' are not a sync's.
OnlySourceContent ==
  [][sync' # sync =>
       \A d \in Destinations, p \in Paths : local'[d][p] # local[d][p] =>
          /\ \E r \in 1..Revision : history[r][p] = local'[d][p]
          /\ local'[d][p] # Absent]_syncVars
=============================================================================
