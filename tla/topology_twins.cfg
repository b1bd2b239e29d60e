CONSTANTS
  Buses = {1, 2}
  Ports = {0, 1}
  Up <- MCUp
  Kinds = {hub1, hub2}
  Hubs = {hub1, hub2}
  Empty = Empty
  MaxQueue = 1
SPECIFICATION TopologySpec
SYMMETRY KindSymmetry
INVARIANTS ExistingKept
