\* A register of two signed bytes, read into one.
CONSTANTS
  Cases <- MCNarrow
  Contents <- MCContents
  Damages <- MCDamages
SPECIFICATION Spec
INVARIANTS
  NarrowReadIsExact
CHECK_DEADLOCK FALSE
