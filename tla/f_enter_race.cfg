SPECIFICATION Spec
CONSTANTS
  Programs <- AcwPrograms
  Inputs <- OnlyGfi
  StartHit = FALSE
INVARIANTS IdleOutputsOff
CHECK_DEADLOCK FALSE
