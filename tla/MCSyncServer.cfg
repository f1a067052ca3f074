SPECIFICATION Spec
CONSTANTS
    Requests = {r1, r2}
    e0 = e0
    f0 = f0
    e1 = e1
    f1 = f1
    e2 = e2
    Entries = {e0, f0, f1}
    SeqOf <- MCSeqOf
    PrevOf <- MCPrevOf
    BoundTo <- TwoVersions
    WriterOf <- TwoWriters
    GrantSets = {g1, g2}
    Heads <- ThreeHeads
    Times = {1, 2}
    None = None
SYMMETRY Symmetry
INVARIANTS
    OneChain
    CheckpointsFollowChain
    AcceptedTimesMonotone
    OneReceipt
    AcceptedUnderHead
PROPERTIES
    AccusationTrue
    ImplementsChain
