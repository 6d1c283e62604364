SPECIFICATION Spec
CONSTANTS
  Trees <- LayeredTrees
  MetricInputs <- AnyFormulas
  OtherInputs <- ProportionalOther
  Maximum <- SmallMaximum
  Bodies <- AnyBodies
  Salary <- SomeSalaries
CHECK_DEADLOCK FALSE
INVARIANTS
  TypeOK
  EngineInv
  AcceptedIsNeverInvalid
  RegularFormulasPay
  StoredAmountsAddUp
  MaximumHolds
