CONSTANTS
  h1 = h1
  h2 = h2
  h3 = h3
  Handlers <- MCHandlers
  Attempts = 2
  MaxRevision = 5
SYMMETRY HandlerSymmetry
SPECIFICATION ClaimSpec
INVARIANTS WorkUnderClaim
PROPERTY OneDirection
CHECK_DEADLOCK FALSE
