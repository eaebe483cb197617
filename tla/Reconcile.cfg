SPECIFICATION MCSpec
CONSTANTS
  Workers = {w1, w2}
  Nobody = Nobody
  MaxRev = 3
  MaxLives = 1
  MaxPasses = 2
  MaxFaults = 1
INVARIANTS IInv TombstoneFenced PurgedLeavesNoRows ReadyWasRendered
PROPERTIES LiveLeaseIsKept TombstoneStays TombstonePurged EventuallyRealized
