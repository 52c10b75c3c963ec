SPECIFICATION SceneSpec
CONSTANTS
  View = {v1, v2, v3}
  Buffer = {1, 2}
  Uri = {start, site}
  Title = {news}
  START_PAGE = start
  TypedUrl = site
  Empty = Empty
  Typed = Typed
  Mixed = Mixed
  MAX_TABS = 3
  Width = 300
  MaxIdle = 2
SYMMETRY Perms
INVARIANTS ActiveTabShown KeysGoToOnePlace WindowTruthful BuffersReturn KeymapAgrees
PROPERTY CloseKeepsTab
CHECK_DEADLOCK FALSE
