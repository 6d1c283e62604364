SPECIFICATION Spec
CONSTANTS
  r1 = r1
  r2 = r2
  r3 = r3
  fact = fact
  bonus = bonus
  Request = {r1, r2, r3}
  Operation <- ApiOperations
  KpiKey = {"anna"}
  Period = {1, 2}
  Salary <- NoSalary
  MetricInput = {fact}
  Score <- UnitScore
  Delivery <- AllReached
  Parallel = 2
SYMMETRY RequestSymmetry
CHECK_DEADLOCK FALSE
PROPERTIES
  ApprovedImmutable
