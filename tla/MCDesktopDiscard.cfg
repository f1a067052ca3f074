SPECIFICATION FairDesktopSpec
CONSTANTS
    Drafts = {d1, d2, d3}
    Txs = {t1}
    Numbers = {n1}
    Grants = {g1}
    Entry = entry
    MaxRev = 0
    MaxRequests = 1
    None = None
PROPERTIES
    DiscardResumed
