SPECIFICATION MCSpec
CONSTANTS
  Nodes = {n1, n2}
  Nil = Nil
  Requests = {r1, r2, r3}
  Flaky = {r1, r2, r3, n1, n2}
  Shared = {n1, n2}
  MaxGen = 3
  MaxRev = 3
SYMMETRY NodeAndRequestSymmetry
INVARIANTS BoundOnItsNode BoundWasSeen IInv OkWasDone
PROPERTY PortSpec
