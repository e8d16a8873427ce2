SPECIFICATION Spec
CONSTANTS
  empty = empty
  a = a
  b = b
  root = root
  array = array
  Doc = {empty, a, b}
  Empty = empty
  Unserializable = {}
  Unrenderable = {}
  TooLarge = {}
  Path <- MCPath
  Root = root
  ArrayPath = {array}
  Paths <- MCPaths
  Garbled = Garbled
  Unreachable = Unreachable
  NoDoc = NoDoc
  Current = Current
  Inputs = {"paste", "fromUrl"}
  MaxInputs = 3
INVARIANT
  LinkCarriesDocument
CHECK_DEADLOCK FALSE
