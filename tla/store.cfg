SPECIFICATION Spec
CONSTANTS
  FILE_NUM = 3
  TOTALSTEP_NUM = 2
  Payloads = {"new", "other"}
  Default = "new"
INVARIANTS
  TypeOK
  TotalIsSize
  Durable
PROPERTY CutKeepsSteps
