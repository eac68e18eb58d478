CONSTANTS
  f = f  g = g  a = a  b = b  c = c  d = d  x = x  Unknown = Unknown
  Paths <- MCPaths
  DirPaths <- MCDirPaths
  Store <- S
  Excludes <- MCExcludes
  Objects = {f, g}
  Initial <- MCInitial
  Outside <- MCOutside
  Size <- MCSize
  Allocated <- MCAllocated
  Behind <- MCBehind
  MaxBytes = 10
  MaxChanges = 2
SPECIFICATION FairSpec
INVARIANTS ExcludedUntouched NothingSkipped OutsideNeverCounted QuietIsExact StillIsCounted
PROPERTY WalkEnds
