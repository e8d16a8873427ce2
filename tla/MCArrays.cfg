SPECIFICATION MCSpec
CONSTANTS
  Request <- Requests
  Legal <- LegalRequests
  Initial <- Documents
  MaxDimension = 8
  ZeroFill = {"int32", "float64"}
  MaxOps = 3
  Chunk <- EveryChunk
INVARIANTS
  RoundTrip
  DecodesWhatIsWritten
  GatheredInOrder
  ReadsSoundOnly
PROPERTIES
  KeepsContract
CHECK_DEADLOCK FALSE
