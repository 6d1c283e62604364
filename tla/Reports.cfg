SPECIFICATION Spec
CONSTANTS
  r1 = r1
  r2 = r2
  s1 = s1
  fact = fact
  None = None
  Sheet = {s1}
  Period = {1}
  Salary = {0}
  MetricInput = {fact}
  Amount = {0, 1}
  Score <- UnitScore
  KpiKey <- TwoKeys
  Request = {r1, r2}
SYMMETRY RequestSymmetry
CHECK_DEADLOCK FALSE
INVARIANTS
  TypeOK
  ReportsInv
  ApprovedFileIsFinal
  OpenedOnRecord
  ShownWithinLink
  LinkKeepsItsWord
  NoStepBack
