SPECIFICATION Spec
CONSTANTS
  Nodes = {n1}
  Nil = Nil
  Requests = {r1}
  Flaky = {}
  Shared = {n1}
  MaxGen = 2
  MaxRev = 1
PROPERTY OthersUntouched
