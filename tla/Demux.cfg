CONSTANTS
  NoMstPorts = 2
  NumLevels = 1
  LookIds = 2
  MaxTrans = 2
  Ids = {0, 1}
  Requests <- MCRequests
  ReadReqs <- MCReadReqs
  WriteReqs <- MCWriteReqs
  None = None
  MaxReads = 2
  MaxWrites = 1
  MaxUnderWay = 3
  WireIdPorts = {}
SPECIFICATION FairSpec
INVARIANTS CountersExact
PROPERTIES RequestsStable AllAnswered
