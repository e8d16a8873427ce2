SPECIFICATION MCSpec
CONSTANTS
  MaxRank = 3
  Extents = {0, 1, 2, 3}
  Shape <- MCShape
  Doc = {empty, a, large, halved, bad}
  Empty = empty
  Unserializable = {halved, bad}
  Unrenderable = {bad}
  TooLarge = {large}
  Path = {root, array}
  Root = root
  ArrayPath = {array}
  Paths <- PathsOf
  Key <- TreeKeys
  Inputs = {"paste", "file", "edit", "select"}
  MaxInputs = 3
  Current = Current
  NoDoc = NoDoc
  Garbled = Garbled
  Unreachable = Unreachable
INVARIANTS
  TypesOK
  DisplayFresh
  PanelsShowDocument
  RolesDistinct
  PlaneOfThreeUp
  NeverPastEnd
  EveryKeyInPlace
PROPERTIES
  EveryDisplaySettles
  AddressOfTypingCatchesUp
CHECK_DEADLOCK FALSE
