SPECIFICATION FairSpec
CONSTANTS
  Programs <- AllModesPrograms
  Inputs <- StopInputs
  StartHit = FALSE
INVARIANTS TypeOK StepCursor IdleOutputsOff VerdictSound LiveIsRunning
PROPERTIES SavedBeforeNext StopReleases
