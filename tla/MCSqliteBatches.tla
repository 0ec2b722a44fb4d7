-------------------------- MODULE MCSqliteBatches ---------------------------
EXTENDS SqliteBatches, TLC

Symmetric == Permutations(Procs) \cup Permutations(Ids)
=============================================================================
