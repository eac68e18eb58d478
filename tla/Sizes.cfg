CONSTANTS
  Identities = {1, 2}
  Blocks = {b1, b2}
  MaxLinks = 2
  ByteLimit = 3
  NotReturned = NotReturned
  Base = 100
  LastUnit = 2
  Digits = 3
  Limit = 184467
  MaxSize = 120000
SPECIFICATION SizesSpec
INVARIANTS IntervalBracketsTruth OverflowIsReal RoundedBracketsTruth
CHECK_DEADLOCK FALSE
