\* Two application threads on a serial line, a device that answers in time or
\* not at all, open and close apart from transfers.
CONSTANTS
  Threads = {t1, t2}
  Registers = {"idn", "axes", "mode", "stop"}
  Readable = {"idn", "axes"}
  Writeable = {"mode", "stop"}
  ReadLines <- MCReadLines
  WriteLines <- MCWriteLines
  DefaultRecoveryRegister = "idn"
  Transport = "SERIAL"
  LateResponses = FALSE
  ExclusiveLifecycle = TRUE
  MaxInFlight = 4
  NoThread = NoThread
  NoRegister = NoRegister
  Torn = Torn
  Stale = Stale
SPECIFICATION FairSpec
INVARIANTS
  TypeOK
  PortExclusive
  HandlerAlive
  ResponseIsOwn
  LineCleanBetweenExchanges
  RecoveryRegisterReadable
  AnsweredTransferIsNotStarved
PROPERTIES
  FunctionalOnlyThroughOpen
  PortReleased
