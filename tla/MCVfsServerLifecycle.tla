------------------------- MODULE MCVfsServerLifecycle -------------------------
EXTENDS VfsServerLifecycle, TLC

\* Overlapping cron invocations are interchangeable.
Symmetry == Permutations(Runs)
=============================================================================
