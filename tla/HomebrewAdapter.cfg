SPECIFICATION Spec
CONSTANTS
  cask1 = cask1
  version1 = version1
  keg = keg
  receipt = receipt
  HomeStores = {cache}
  Taps = {tap}
  Kegs = {keg}
  Casks <- MCCasks
  Inner <- MCInner
  Receipt <- MCReceipt
  Errors = {"AbsentOrChanged", "AccessDenied"}
  Excludable = {keg, cask1}
INVARIANTS NothingLost StatusIsHonest EscapesAreDisclosed
