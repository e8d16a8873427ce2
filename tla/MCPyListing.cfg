SPECIFICATION ListingSpec
CONSTANTS
  good = good
  Payload = {good}
  Surrogate = {}
  Key <- MCKey
  Bytes <- MCBytes
  Json = {}
  View = {v1}
  Kind = {"memory"}
  InitialDocument <- MCInitialDocument
  Directory <- MCDirectory
  MaxListings = 1
INVARIANTS
  ListsSteadyKeys
  YieldsOnce
