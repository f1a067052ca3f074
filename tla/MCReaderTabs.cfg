SPECIFICATION FairSpec
CONSTANTS
  left = left
  right = right
  Tabs = {left, right}
  LastEntry = 1
  PageEntries = 1
  MaxCached = 3
  MaxBreaks = 0
  Nobody = Nobody
  None = None
PROPERTIES
  TabsCatchUp
