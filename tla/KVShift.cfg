SPECIFICATION Spec
CONSTANTS
  Size = 3
  Seqs = {0, 1}
  Toks = {"a", "b"}
  NoTok = NoTok
  MaxPos = 1
  Batches <- SplitBatches
  NUbatch = 2
  Pad = 2
  MaxMoves = 1
  FragMin = 1
  DefragThold <- Never
  Ranges <- Parts
  Shifts <- MinusOne
  Divisors <- Halving
INVARIANTS
  TypeOK
  UsedIsAccurate
  RowsMatchCells
  EveryUsedCellAttended
PROPERTIES
  ImplementsSeqCache
  FailsOnlyWhenFull
