SPECIFICATION Spec
CONSTANTS
    Drafts = {d1, d2, d3}
    Txs = {t1, t2}
    Numbers = {n1, n2}
    Grants = {g1, g2}
    Entry = entry
    MaxRev = 1
    None = None
SYMMETRY Symmetry
INVARIANTS
    TypeOK
    CommittedKeyGone
    ChainLinear
    CommittedNumberHeld
    NumberClaimedOnce
    LossExplained
    OriginalConfirmed
    PreparedComplete
    GrantsBeforeEntry
PROPERTIES
    SealedIsKept
    PublicationFinal
    RestoredNumbersFree
