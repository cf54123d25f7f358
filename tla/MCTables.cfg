SPECIFICATION TablesSpec
CONSTANTS
  Editors = {a1, a2}
  Viewers = {r1}
  Nodes = {d1, d2}
  Top = top
  Labels = {x}
  NoLabel = unlabelled
  NoRow = none
  Admins = {a1, a2}
  Readers = {r1}
  Dicts = {d1, d2}
  Items = {i1, i2}
  Codes = {A, B}
  ItemCodes = {x}
  None = none
SYMMETRY Symmetry
INVARIANTS
  SerialRowsSound
  TreeShowsUnlooped
  TreeCacheFollows
  SerialItemsMatch
  CacheFollowsItems
