SPECIFICATION Spec
CONSTANTS
  Files = {f1, f2}
  N = 3
  Waits = {1, 2}
  Forgives = {1}
  Brief = {3}
INVARIANTS
  RecordSaved
  RawIfUndisturbed
