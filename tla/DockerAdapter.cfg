CONSTANTS
  Custom <- MCCustom
  Excludable <- MCExcludable
SPECIFICATION Spec
INVARIANTS DaemonIsPinned DaemonAllOrNothing RightImage DiskNotLost
