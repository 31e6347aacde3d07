SPECIFICATION Spec
CONSTANTS
  Results = {"pass", "fail", "low"}
  Pass = {"pass"}
  Zero = "pass"
  None = "none"
  Clear = "clear"
  TOTAL_SIZE = 3
  ITEMS_COUNT = 2
INVARIANTS
  TypeOK
  LogKept
  PassCounted
  ScreenTrue
PROPERTY ResultFileSpec
