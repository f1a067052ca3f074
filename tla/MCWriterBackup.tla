--------------------------- MODULE MCWriterBackup ---------------------------
EXTENDS WriterBackup, TLC

Symmetry == Permutations(Drafts) \cup Permutations(Txs)
                \cup Permutations(Numbers) \cup Permutations(Grants)
=============================================================================
