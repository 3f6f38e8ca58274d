SPECIFICATION FairSpec
CONSTANTS
  Size = 5
  Seqs = {0, 1}
  Toks = {"a", "b"}
  NoTok = NoTok
  MaxPos = 0
  Batches <- HoleBatches
  NUbatch = 1
  Pad = 1
  MaxMoves = 1
  FragMin = 1
  DefragThold = 50
  Ranges <- All
  Shifts <- Nothing
  Divisors <- Nothing
INVARIANTS
  HolesCanBeFilled
  CopiesAreApart
  DefragCompacts
PROPERTY
  CallsReturn
