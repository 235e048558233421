SPECIFICATION FairSpec
CONSTANTS
  a = a  A = A  e = e  n = n  I = I  i = i  dot = dot
  Chars <- LatinChars
  Width <- LatinWidth
  Lower <- LatinLower
  Outputs <- LatinOutputs
  Queries <- LatinQueries
  Breaks <- Newline
  Tails <- TwoTails
  Ranges <- SomeRanges
  PageLimits <- TwoLimits
  ChunkBytes = 2
  PageEvents = 2
  ScanEvents = 4
  ScanBytes = 7
  ResponseBytes = 4
  MaxRows = 5
INVARIANTS
  TypeOK
  PagesCoverOnce
  PositionsStayTrue
  SearchFindsAll
  AnswersAreWhole
PROPERTIES
  PagesEnd
CHECK_DEADLOCK FALSE
