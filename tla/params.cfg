SPECIFICATION Spec
CONSTANTS
  Entries = {0, 1, 30, 101, 160, 399, 700, 1500, 9999}
  GR_CUR_MAX = 320
INVARIANTS
  TypeOK
  Passable
  GrPower
