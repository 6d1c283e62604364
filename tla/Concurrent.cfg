SPECIFICATION Spec
CONSTANTS
  r1 = r1
  r2 = r2
  r3 = r3
  fact = fact
  bonus = bonus
  Request = {r1, r2, r3}
  Operation <- AllOperations
  KpiKey = {"anna"}
  Period = {1, 2}
  Salary <- AnySalary
  MetricInput = {fact}
  Score <- UnitScore
  Delivery <- AnyDelivery
  Parallel = 2
SYMMETRY RequestSymmetry
CHECK_DEADLOCK FALSE
INVARIANTS
  TypeOK
  IntegrityInv
  ApprovalAudited
  AcknowledgedApprovalHolds
  ReferentialIntegrity
  SendLogTrue
PROPERTIES
  ApprovalPermanent
  ImplementsLifecycle
