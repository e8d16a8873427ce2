SPECIFICATION Spec
CONSTANTS
  good = good
  bad = bad
  Payload = {good, bad}
  Surrogate = {bad}
  Key <- QueueKey
  Bytes <- QueueBytes
  Json <- QueueJson
  Kind = {"custom"}
  InitialDocument <- QueueInitialDocument
  Debris <- QueueDebris
  MaxCalls = 3
INVARIANTS
  ReadsFollowCalls
PROPERTIES
  EveryCallSettles
