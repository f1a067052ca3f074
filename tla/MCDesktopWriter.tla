--------------------------- MODULE MCDesktopWriter ---------------------------
EXTENDS DesktopWriter, TLC

Symmetry == Permutations(Drafts) \cup Permutations(Txs)
                \cup Permutations(Numbers) \cup Permutations(Grants)
=============================================================================
