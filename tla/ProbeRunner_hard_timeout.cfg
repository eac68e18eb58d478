CONSTANTS
  p1 = p1  p2 = p2  p3 = p3  env1 = env1  env2 = env2
  Probes = {p1}
  Strangers = {}
  Families = {env1}
  Family <- OneFamily
  MaxCalls <- OneCall
  PipeCap = 1
  MaxOut = 2
  SigchldIgnored = {TRUE, FALSE}
SPECIFICATION FairSpec
PROPERTY TimeoutIsHard
