SPECIFICATION Spec
CONSTANTS
  ann = ann
  bob = bob
  u1 = u1
  u2 = u2
  u3 = u3
  Update = {u1, u2, u3}
  User = {ann, bob}
  AnswerFails = TRUE
  Parallel = 2
  MaxEdits = 1
SYMMETRY WizardSymmetry
CHECK_DEADLOCK FALSE
INVARIANTS
  TypeOK
  CreatedByEntitled
  ExtraInstancesExplained
  WizardInv
  PressInv
