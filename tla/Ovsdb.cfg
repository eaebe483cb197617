SPECIFICATION MCSpec
CONSTANTS
  net = net
  port = port
  other = other
  Ids = {net, port, other}
  KindOf <- Kinds
  Links <- PortOnNet
  Claims = {a1}
  Keys = {k1}
  Nil = Nil
  MaxRev = 2
  Clients = {c1, c2}
  MaxAttempts = 2
  MaxEpoch = 5
SYMMETRY ClientSymmetry
INVARIANTS ReferencesHold ClaimsUnique
PROPERTIES Implements
