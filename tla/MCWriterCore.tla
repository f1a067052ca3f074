---------------------------- MODULE MCWriterCore ----------------------------
EXTENDS WriterCore, TLC

Symmetry == Permutations(Drafts) \cup Permutations(Txs)
                \cup Permutations(Numbers) \cup Permutations(Grants)
=============================================================================
