\* Two workspaces, two pages, up to three tabs, one history entry beyond one per tab.
SPECIFICATION TabSpec
CONSTANTS
  Slugs = {w1, w2}
  Pages = {issues, detail}
  Home = issues
  None = None
  Saved <- SavedStates
  i1 = i1
  i2 = i2
  i3 = i3
  i4 = i4
  TabIds <- FourIds
  MaxTabs = 3
  MaxExtra = 1
SYMMETRY Symm
INVARIANTS TabTypeOK PathInGroup HistoryHonest RestartKeepsTabs
PROPERTY PinnedParked
CHECK_DEADLOCK FALSE
