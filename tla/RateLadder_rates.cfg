SPECIFICATION Spec
CONSTANTS
  Rates = 3
  SamplerTimeout = 3
  LongestLoad = 5
  MaxFaults = 3
  Modes = {"rehost", "tier"}
  Skews = {0, 1, 2}
  SkewZero = 1
  MaxProbes = 2
  MaxCollections = 2
INVARIANTS
  TypeOK
  CollectedOnce
  CoveredForReal
  NoSamplerLingers
  EnvelopeIsConsecutive
PROPERTIES
  MeasurementEnds
CHECK_DEADLOCK FALSE
