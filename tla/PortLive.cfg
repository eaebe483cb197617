SPECIFICATION LiveSpec
CONSTANTS
  Nodes = {n1}
  Nil = Nil
  Requests = {r1, r2}
  Flaky = {n1}
  Shared = {}
  MaxGen = 2
  MaxRev = 3
PROPERTIES DetachEnds StaleBindingGoes AttachEnds
