---------------------------- MODULE MCCompaction ----------------------------
\* Instances of Compaction for TLC.
EXTENDS Compaction, TLC

Symmetry ==
    Permutations(Txs) \cup Permutations(Epochs) \cup Permutations(Rows)
    \cup Permutations(Readers) \cup Permutations(Compactors)
=============================================================================
