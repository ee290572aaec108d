\* A text register whose response is a number of bytes.
CONSTANTS
  Files <- MCByteResponses
  StandardDelimiter = "CRLF"
  MaxNElements = 5
SPECIFICATION Spec
INVARIANTS
  BytesNeedNoDelimiter
CHECK_DEADLOCK FALSE
