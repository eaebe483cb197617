CONSTANTS
  a = a
  b = b
  Nil = Nil
  Nodes <- MCNodes
  Home <- a
  Moves <- MCThereAndBack
  Proofs = {}
  HARows = {}
  NPorts = 2
  Noisy = {1}
  Starting <- MCNodes
  Expiring <- MCMoves
  MaxFaults = 1
  MaxDeaths = 0
SPECIFICATION RetryingSpec
INVARIANTS SettledInPlace Recoverable
PROPERTIES StartsAlone ClaimedEnds
CHECK_DEADLOCK FALSE
