CONSTANTS
  NoMstPorts = 2
  NumLevels = 1
  LookIds = 2
  MaxTrans = 4
  Ids = {0, 1}
  Requests <- MCOrderRequests
  ReadReqs <- MCOrderRequests
  WriteReqs <- MCOrderRequests
  None = None
  MaxReads = 2
  MaxWrites = 2
  MaxUnderWay = 2
  WireIdPorts = {}
SPECIFICATION Spec
INVARIANTS ResponsesInOrder DataFollowAddress
PROPERTIES ResponsesStable
