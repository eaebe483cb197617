SPECIFICATION Spec
CONSTANTS
  Workers = {w1, w2}
  Nobody = Nobody
  MaxRev = 2
  MaxLives = 2
  MaxPasses = 2
  MaxFaults = 0
INVARIANTS DeleteRemovesRows
