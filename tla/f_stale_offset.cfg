SPECIFICATION Spec
CONSTANTS
  Files = {f1, f2}
  N = 2
  Waits = {1}
  Forgives = {}
  Brief = {}
INVARIANT OffsetIsRaw
