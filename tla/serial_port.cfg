\* Lines arrive whole and fit into the buffer, bytes arrive one by one; timeouts at any moment after the
\* thread of the read has started, silent devices and port errors.
CONSTANTS
  LineResponses <- MCShortLines
  ByteResponses <- MCBytes
  Delimiter <- MCDelimiter
  Nul = "NUL"
  BufferLen = 8
  SplitModes <- MCSplitBytes
  LateResponses = TRUE
  Faults = TRUE
  PromptReader = TRUE
  KeptModes <- MCOnlyLines
  MaxPending = 1
  MaxPersistent = 6
SPECIFICATION FairSpec
INVARIANTS
  TypeOK
  CleanAfterExchange
  AnsweredReadSucceeds
PROPERTIES
  ImplementsLinePort
  ReadReturns
