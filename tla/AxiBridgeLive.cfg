CONSTANTS
  PageSize = 4096
  Words <- MCWords
  Values = {v1}
  Ids <- MCIds
  ReadReqs <- MCReadReqs
  WriteReqs <- MCWriteReqs
  None = None
  MaxOutstanding = 2
  MaxWrites = 1
  Starts <- MCStarts
  Lens <- MCLens
SPECIFICATION FairSpec
PROPERTY NeitherStarved
