CONSTANTS
  p1 = p1  p2 = p2  p3 = p3  env1 = env1  env2 = env2
  Probes = {p1, p2}
  Strangers = {p3}
  Families = {env1, env2}
  Family <- MCFamily
  MaxCalls <- MCMaxCalls
  PipeCap = 1
  MaxOut = 2
  SigchldIgnored = {TRUE, FALSE}
SPECIFICATION FairSpec
INVARIANTS TypeOK NothingLeftRunning OutputIsWhole TimeoutIsClean
PROPERTIES ContractSpec CallsReturn NoPipeDeadlock
