CONSTANTS
  a = a
  b = b
  Nil = Nil
  Nodes <- MCNodes
  Home <- a
  Moves <- MCMoves
  Proofs <- MCProofs
  HARows <- MCHARows
  NPorts = 2
  Noisy = {}
  Starting = {}
  Expiring = {}
  MaxFaults = 1
  MaxDeaths = 2
SPECIFICATION Spec
INVARIANTS SettledInPlace Recoverable
PROPERTIES AuthorityKept
CHECK_DEADLOCK FALSE
