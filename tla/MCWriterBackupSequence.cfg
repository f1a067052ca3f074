SPECIFICATION BackupSpec
CONSTANTS
    Drafts = {d1, d2, d3}
    Txs = {t1, t2}
    Numbers = {n1}
    Grants = {g1}
    Entry = entry
    MaxRev = 0
    None = None
SYMMETRY Symmetry
INVARIANTS
    SequenceUsedOnce
