SPECIFICATION PanelSpec
CONSTANTS
  Programs <- PanelPrograms
  Inputs <- AllInputs
  StartHit = FALSE
  items_count = 1
  KeyRace = FALSE
INVARIANTS
  VerdictSound
  ClosedInTest
  TripStaysCut
PROPERTY FailContinues
