SPECIFICATION Spec
CONSTANTS
  Programs <- ForgivingPrograms
  Inputs <- OnlyFail
  StartHit = FALSE
INVARIANTS VerdictSound
CHECK_DEADLOCK FALSE
