SPECIFICATION Spec
CONSTANTS
  MaxOutputs = 2
  MaxSteps = 2
INVARIANTS SucceededDeliversPages EnhancedFromAllPages StagesNameAssets
CHECK_DEADLOCK FALSE
