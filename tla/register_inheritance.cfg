\* Sign and fractional bits of the register level.
CONSTANTS
  Files <- MCInheritance
  StandardDelimiter = "CRLF"
  MaxNElements = 5
SPECIFICATION Spec
INVARIANTS
  RegisterLevelIsInherited
CHECK_DEADLOCK FALSE
