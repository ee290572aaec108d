\* The bytes of a line arrive one by one.
CONSTANTS
  LineResponses <- MCLines
  ByteResponses <- MCNoResponses
  Delimiter <- MCDelimiter
  Nul = "NUL"
  BufferLen = 8
  SplitModes <- MCSplitLines
  LateResponses = FALSE
  Faults = FALSE
  PromptReader = TRUE
  KeptModes <- MCNoModes
  MaxPending = 0
  MaxPersistent = 6
SPECIFICATION Spec
PROPERTIES
  ImplementsLinePort
