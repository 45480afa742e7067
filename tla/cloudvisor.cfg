SPECIFICATION FairSpec
CONSTANTS
  p1 = p1
  p2 = p2
  v1 = v1
  v2 = v2
  a1 = a1
  a2 = a2
  f1 = f1
  f2 = f2
  h1 = h1
  h2 = h2
  h3 = h3
  Provs = {p1}
  Visors = {v1}
  ProvOf <- MCProvOf
  Main = {}
  Allocs = {a1}
  Fulfils = {f1}
  VisorOf <- MCVisorOf
  AllocOf <- MCAllocOf
  Hosts = {h1, h2}
  FulfilOf <- MCFulfilOf
  Types <- MCTypes
  LongLasting = {}
  Old = 2
  Faults = {"refused", "image", "abandon"}
  MaxCrashes = 1
  NoHost = NoHost
INVARIANTS TypeOK NoDuplicateGroup LaunchedReachable LosesGroupOnce
PROPERTIES DanglingTerminated GroupsCollected
CHECK_DEADLOCK FALSE
