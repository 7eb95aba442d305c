SPECIFICATION Spec
CONSTANTS
  Names = {1}
  CallLife = 3
  MaxFaults = 2
  Replicas = {api1, api2}
  QuietSlots = 2
  HotSlots = 1
  Capacity = 2
  PeakTicks = 2
  LoadTicks = 5
  RecoveryTicks = 1
  DrainTicks = 1
  DrainDeadline = 2
  PurgeTicks = 1
  VerifyTicks = 3
  VerifyDeadline = 5
  NativeDeadline = 1
  MaxAttempts = 2
  Tolerated = 1
INVARIANTS
  TypeOK
  CompleteIsMeasured
  TreatmentsIsolated
  QuietIsReal
  InterventionIsThePolicy
  DemonstratedIsEarned
PROPERTIES
  ExperimentEnds
CHECK_DEADLOCK FALSE
