SPECIFICATION VersionSpec
CONSTANTS
  Commits = {c1, c2, c3}
  MaxChanges = 4
INVARIANTS VersionWasCurrent
