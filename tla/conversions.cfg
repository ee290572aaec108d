\* Integers of one and two bytes, slots of up to six digits and without width, damaged bytes.
CONSTANTS
  Cases <- MCCases
  Contents <- MCContents
  Damages <- MCDamages
SPECIFICATION Spec
INVARIANTS
  TypeOK
  WrittenDigitsDenoteValue
  RefusedIffTooWide
  CompactIsMinimal
  ReadIsExact
  DamageIsDetected
  IntactIsAccepted
CHECK_DEADLOCK FALSE
