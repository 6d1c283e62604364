SPECIFICATION RSpec
CONSTANTS
  r1 = r1
  r2 = r2
  r3 = r3
  fact = fact
  bonus = bonus
  Request = {r1, r2, r3}
  Operation = {"create", "finalize", "dispute", "bot"}
  KpiKey = {"anna"}
  Period = {1, 2}
  Salary = {0, 5}
  MetricInput = {fact}
  Score <- UnitScore
  Delivery <- AllReached
  Parallel = 3
SYMMETRY RequestSymmetry
CHECK_DEADLOCK FALSE
INVARIANTS
  RaceInv
  DuplicatesExplained
  TotalCurrent
  MetricsFromOneSubmission
PROPERTIES
  ApprovedUnchanged
  BeforeStateTrue
  ImplementsSheets
