CONSTANTS
  s1 = s1  d1 = d1  d2 = d2  r1 = r1  bad = bad  odd = odd  root = root
  Stores = {s1}
  Devices = {d1, d2}
  Runtimes = {r1}
  Misnamed = {odd}
  Malformed = {bad}
  DevicesRoot = root
  Versions = {"xcode16", "xcode26", "xcode99"}
  SimVersions = {"sim1010", "sim1051", "sim9"}
  Pinned <- MCPinned
SPECIFICATION Spec
INVARIANTS SimctlIsPinned NothingLost StatusIsHonest IdentityIsVouched ExcludedUntouched
