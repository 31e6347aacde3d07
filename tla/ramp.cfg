SPECIFICATION FairSpec
CONSTANTS
  Steps <- AllSteps
  Currents = {0, 1, 2, 3}
  DAC_TOP = 6500
  COUNT_MAX = 7
INVARIANTS
  AtTestVoltage
  ColdOutside
  PassIsJudged
PROPERTIES
  RampsTowards
  Falls
  StepEnds
