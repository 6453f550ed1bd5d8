--------------------------- MODULE CatalogPublisher ---------------------------
(***************************************************************************)
(* What the catalog of one filesystem promises to those who read it.       *)
(*                                                                         *)
(* Every namespace mutation makes a revision; revisions are published in   *)
(* order, some are skipped, and the published head always has a complete   *)
(* checkpoint of exactly the tree of its revision in the bucket.  The      *)
(* delta from the previous head is an acceleration that may be lost at any *)
(* time.  CatalogMaterialization implements this specification, and        *)
(* CatalogClient reads from it.                                            *)
(***************************************************************************)
EXTENDS Naturals, Sequences, CatalogTree

CONSTANTS Trees,      \* the trees the namespace takes
          FirstTree,  \* the tree of the first revision
          MaxRevision \* bound on the revisions of one behaviour

ASSUME PublisherAssumption ==
  /\ MaxRevision \in Nat \ {0}
  /\ FirstTree \in Trees

VARIABLES history,  \* history[r] is the tree of revision r
          head,     \* the published revision, 0 before the first
          bucket,   \* bucket[r] is the checkpoint stored for revision r
          delta     \* [base, there]: the head's delta and whether it is stored

publisherVars == <<history, head, bucket, delta>>

NoDelta == [base |-> 0, there |-> FALSE]

\* The revision of the latest mutation.
MutationHead == Len(history)

PublisherInit ==
  /\ history = <<FirstTree>>
  /\ head = 0
  /\ bucket = << >>
  /\ delta = NoDelta

\* A namespace mutation: the catalog revision of its commit batch.
Mutate ==
  /\ MutationHead < MaxRevision
  /\ \E t \in Trees \ {history[MutationHead]} :
       FreshIdentities(history, t) /\ history' = Append(history, t)
  /\ UNCHANGED <<head, bucket, delta>>

\* A checkpoint reaches the bucket under the key of its body.
StoreCheckpoint(r) ==
  /\ r \notin DOMAIN bucket
  /\ bucket' = [x \in DOMAIN bucket \cup {r} |->
                  IF x = r THEN Checkpoint(r, history[r]) ELSE bucket[x]]
  /\ UNCHANGED <<history, head, delta>>

\* A checkpoint that is not the published one is removed.
DropCheckpoint(r) ==
  /\ r \in DOMAIN bucket \ {head}
  /\ bucket' = [x \in DOMAIN bucket \ {r} |-> bucket[x]]
  /\ UNCHANGED <<history, head, delta>>

\* The latest revision becomes the head, with or without a delta from the
\* previous one.
PublishHead ==
  /\ head < MutationHead
  /\ MutationHead \in DOMAIN bucket
  /\ head' = MutationHead
  /\ \E b \in {0, head} : \E t \in BOOLEAN :
        delta' = IF b = 0 THEN NoDelta ELSE [base |-> b, there |-> t]
  /\ UNCHANGED <<history, bucket>>

\* A run that had staged the head's delta, lost its claim and sends its batch
\* when the namespace has moved on publishes the delta alone.
LateDelta ==
  /\ delta = NoDelta
  /\ \E b \in 1..(head - 1) : \E t \in BOOLEAN : delta' = [base |-> b, there |-> t]
  /\ UNCHANGED <<history, head, bucket>>

\* The object of the head's delta disappears.
LoseDelta ==
  /\ delta.there
  /\ delta' = [delta EXCEPT !.there = FALSE]
  /\ UNCHANGED <<history, head, bucket>>

PublisherNext ==
  \/ Mutate
  \/ \E r \in 1..MutationHead : StoreCheckpoint(r) \/ DropCheckpoint(r)
  \/ PublishHead
  \/ LateDelta
  \/ LoseDelta

PublisherSpec == PublisherInit /\ [][PublisherNext]_publisherVars
=============================================================================
