---------------------------- MODULE MCSyncToLocal ----------------------------
(* Small instances of SyncToLocal. *)
EXTENDS SyncToLocal, TLC

\* Two files; then the two have changed places, and one is gone.
Pair    == [p \in Paths |-> IF p = "x" THEN "v1" ELSE "v2"]
Swapped == [p \in Paths |-> IF p = "x" THEN "v2" ELSE "v1"]
Single  == [p \in Paths |-> IF p = "x" THEN "v2" ELSE Absent]

SmallTrees == {Pair, Swapped, Single}
Symmetry == Permutations(Syncs) \cup Permutations(Destinations)
=============================================================================
