SPECIFICATION FairSpec
CONSTANTS
  left = left
  right = right
  Tabs = {left, right}
  LastEntry = 2
  PageEntries = 1
  MaxCached = 3
  MaxBreaks = 1
  Nobody = Nobody
  None = None
INVARIANTS
  CursorCovered
  ForkOnlyAfterLoss
PROPERTIES
  CatchesUp
