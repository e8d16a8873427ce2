SPECIFICATION Spec
CONSTANTS
  json = json
  none = none
  head = head
  tail = tail
  p1 = p1
  p2 = p2
  Payload <- MCPayload
  Surrogate = {}
  Key <- MCKey
  Bytes <- MCBytes
  Json <- MCJson
  Patch <- MCPatch
  Overlay <- MCOverlay
  Empty <- MCEmpty
  Directory <- MCDirectory
  Thread = {t1, t2}
  InitialDocument <- MCInitialDocument
  MaxCalls = 2
CHECK_DEADLOCK FALSE
PROPERTIES
  MemberOrderPreserved
