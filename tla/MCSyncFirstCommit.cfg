SPECIFICATION Spec
CONSTANTS
    Requests = {r1, r2}
    e0 = e0
    f0 = f0
    e1 = e1
    f1 = f1
    e2 = e2
    Entries = {e0, f0, e1}
    SeqOf <- MCSeqOf
    PrevOf <- MCPrevOf
    BoundTo <- OneVersion
    WriterOf <- OneWriter
    GrantSets = {g1, g2}
    Heads <- OneHead
    Times = {1, 2}
    None = None
SYMMETRY Symmetry
INVARIANT IdentityAccusationTrue
