SPECIFICATION Spec
CONSTANTS
  good = good
  bad = bad
  Payload = {good, bad}
  Surrogate = {bad}
  Key <- MCKey
  Bytes <- MCBytes
  Json <- MCJson
  View = {v1, v2}
  Kind = {"memory", "file"}
  InitialDocument <- MCInitialDocument
PROPERTIES
  FailedSetKeepsFile
