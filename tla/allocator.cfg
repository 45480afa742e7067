SPECIFICATION HSpec
CONSTANTS
  mac1 = mac1
  mac2 = mac2
  gpu1 = gpu1
  mac3 = mac3
  a1 = a1
  a2 = a2
  a3 = a3
  d1 = d1
  u1 = u1
  u2 = u2
  f1 = f1
  Macs = {mac1, mac2, mac3}
  Gpus = {gpu1}
  Ports <- MCPorts
  MaxVMs = 2
  Shapes <- MCShapes
  Reqs = {a1, a2, a3}
  Destroyers = {d1, u1, u2}
  NameReuse = FALSE
  NoVM = NoVM
  NoPort = NoPort
  Fulfils = {f1}
  FulfilOf <- MCFulfilOf
  UndoerOf <- MCUndoerOf
  NoFulfil = NoFulfil
  MaxStarts = 1
INVARIANTS TypeOK ResourcesConserved PortsConserved ListedAreVMs WithinMaxVMs DoubleCheckHolds FailedKeepsNothing PortsApart
PROPERTIES KillsItsOwn ResourcesSpec
SYMMETRY Symmetry
CHECK_DEADLOCK FALSE
