SPECIFICATION Spec
CONSTANTS
  mac1 = mac1
  mac2 = mac2
  gpu1 = gpu1
  mac3 = mac3
  p1 = p1
  p2 = p2
  p3 = p3
  a1 = a1
  a2 = a2
  a3 = a3
  d1 = d1
  d2 = d2
  Macs = {mac1, mac2, mac3}
  Gpus = {gpu1}
  Ports = {p1, p2, p3}
  MaxVMs = 2
  Shapes <- MCShapes
  Reqs = {a1, a2, a3}
  Destroyers = {d1, d2}
  NameReuse = TRUE
  NoVM = NoVM
  NoPort = NoPort
INVARIANT DoubleCheckHolds
SYMMETRY Symmetry
CHECK_DEADLOCK FALSE
