SPECIFICATION FairSpec
CONSTANTS
  Programs <- EndingPrograms
  Inputs <- ArcInputs
  StartHit = TRUE
INVARIANTS RunIsDriven AlarmHeldByStop
PROPERTY RunEnds
