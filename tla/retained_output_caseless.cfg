SPECIFICATION Spec
CONSTANTS
  a = a  A = A  e = e  n = n  I = I  i = i  dot = dot
  Chars <- TurkishChars
  Width <- TurkishWidth
  Lower <- TurkishLower
  Outputs <- TurkishOutputs
  Queries <- TurkishQueries
  Breaks <- Newline
  Tails <- NoTails
  Ranges <- NoTails
  PageLimits <- TwoLimits
  ChunkBytes = 2
  PageEvents = 2
  ScanEvents = 4
  ScanBytes = 7
  ResponseBytes = 4
  MaxRows = 6
INVARIANTS
  MatchesAreTheQuery
CHECK_DEADLOCK FALSE
