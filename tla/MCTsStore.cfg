SPECIFICATION Spec
CONSTANTS
  good = good
  bad = bad
  Payload = {good, bad}
  Surrogate = {bad}
  Key <- MCKey
  Bytes <- MCBytes
  Json <- MCJson
  Kind = {"memory", "string", "custom"}
  InitialDocument <- MCInitialDocument
  Debris <- MCDebris
  MaxCalls = 2
INVARIANTS
  SkipExact
  DurableInSync
PROPERTIES
  FailureChangesNothing
  UnknownPreserved
  ImplementsByteStore
