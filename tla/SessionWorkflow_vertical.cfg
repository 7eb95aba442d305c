SPECIFICATION Spec
CONSTANTS
  QuietChecks = 2
  MaximumChecks = 3
  LateDeliveries = 0
  Modes = {"rehost"}
  MaxCommands <- RehostCommands
  MaxInterrupts <- RehostInterrupts
PROPERTY VerticalCleansUpUnconditionally
CHECK_DEADLOCK FALSE
