SPECIFICATION Spec
CONSTANTS
  Workers = {w1, w2}
  Nobody = Nobody
  MaxRev = 2
  MaxLives = 1
  MaxPasses = 2
  MaxFaults = 1
INVARIANTS NoPersistentOrphan
