SPECIFICATION MCSpec
CONSTANTS
  Nil = Nil
  Refused = Refused
  Managers = {m1, m2}
  Auditor = auditor
  Implicit = {"drop"}
  MaxFaults = 1
SYMMETRY ManagerSymmetry
INVARIANTS PassRealizes RowOfReady
 
