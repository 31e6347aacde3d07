SPECIFICATION Spec
CONSTANTS
  TOTALSTEP_NUM = 4
  Payloads = {"new", "other"}
  Default = "new"
  items_count = 3
INVARIANTS
  TypeOK
  PoolConserved
  Ordered
  PageShown
PROPERTIES
  SelectionFollows
  Sequence
