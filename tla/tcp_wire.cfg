\* One line or a byte string that arrives in pieces; timeouts at any moment, silences, closed connections and names that do not resolve.
CONSTANTS
  LineResponses <- MCLine
  ByteResponses <- MCBytes
  Delimiter <- MCDelimiter
  SplitModes <- MCSplit
  LateResponses = TRUE
  Faults = TRUE
  HostKnown = FALSE
  MaxPending = 4
SPECIFICATION FairSpec
INVARIANTS
  TypeOK
  CleanAfterExchange
PROPERTIES
  ImplementsWirePort
  ReadReturnsUnlessCancelLost
\* A read may wait for ever, and a name that does not resolve ends the process.
CHECK_DEADLOCK FALSE
