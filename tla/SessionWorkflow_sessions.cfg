SPECIFICATION Spec
CONSTANTS
  QuietChecks = 3
  MaximumChecks = 4
  LateDeliveries = 1
  Modes = {"async", "rehost"}
  MaxCommands <- MCMaxCommands
  MaxInterrupts <- MCMaxInterrupts
INVARIANTS
  TypeOK
  CompleteIsEmpty
  ServicesOnMigratedSchema
  MeasuredTierIsDeployed
PROPERTIES
  VerifiedOnAbsence
  OneTeardown
  CleanupReachesTerraform
  EveryProgramEnds
CHECK_DEADLOCK FALSE
