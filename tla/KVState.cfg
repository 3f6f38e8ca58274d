SPECIFICATION StateSpec
CONSTANTS
  Size = 2
  Seqs = {0, 1}
  Toks = {"a", "b"}
  NoTok = NoTok
  MaxPos = 0
  Batches <- SharedPrompts
  NUbatch = 3
  Pad = 1
  MaxMoves = 1
  FragMin = 1
  DefragThold <- Never
  Ranges <- All
  Shifts <- Nothing
  Divisors <- Nothing
  Faults <- Either
  Careful = TRUE
PROPERTIES
  OthersUntouched
  LoadGivesBack
