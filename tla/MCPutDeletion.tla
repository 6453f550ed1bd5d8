----------------------------- MODULE MCPutDeletion -----------------------------
EXTENDS PutDeletion, TLC

\* Overlapping cron invocations are interchangeable, and so are the tokens.
Symmetry == Permutations(Runs) \cup Permutations(Clients)
=============================================================================
