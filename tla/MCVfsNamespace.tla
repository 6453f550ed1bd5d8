---------------------------- MODULE MCVfsNamespace ----------------------------
(* Small instances of VfsNamespace. *)
EXTENDS VfsNamespace, TLC

CONSTANTS a, x

\* One seed directory a, called x, below the root.
SeedA == a :> x

\* Only the root.
NoSeeds == [s \in {} |-> x]

\* Requests, idempotency keys and intents are interchangeable.
Symmetry ==
  Permutations(Workers) \cup Permutations(Keys) \cup Permutations(Intents)
=============================================================================
