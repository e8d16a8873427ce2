SPECIFICATION MCSpec
CONSTANTS
  good = good
  bad = bad
  Payload = {good, bad}
  Surrogate = {bad}
  Key <- Keys
  Store = {s1, s2, s3}
  s1 = s1
  s2 = s2
  s3 = s3
  Bytes <- ByteStrings
  InitialDocument <- Documents
  String <- Strings
  Value <- Fronts
  Width = 8
INVARIANTS
  NothingInvalidShown
  Lossless
  EveryKeyReported
  ComparesCodePoints
  PiecesMakeValue
PROPERTIES
  StaysShown
  StoresAgree
CHECK_DEADLOCK FALSE
