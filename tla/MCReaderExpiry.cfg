SPECIFICATION FairSpec
CONSTANTS
  left = left
  right = right
  Tabs = {left}
  LastEntry = 2
  PageEntries = 1
  MaxCached = 3
  MaxBreaks = 0
  Nobody = Nobody
  None = None
PROPERTIES
  FreshCursorAfterExpiry
