\* open and close may run at any time between the steps of transfers of another
\* thread; late responses as well.
CONSTANTS
  Threads = {t1, t2}
  Registers = {"idn", "mode"}
  Readable = {"idn"}
  Writeable = {"mode"}
  ReadLines <- MCReadLines
  WriteLines <- MCWriteLines
  DefaultRecoveryRegister = "idn"
  Transport = "ETHERNET"
  LateResponses = TRUE
  ExclusiveLifecycle = FALSE
  MaxInFlight = 2
  NoThread = NoThread
  NoRegister = NoRegister
  Torn = Torn
  Stale = Stale
SPECIFICATION FairSpec
INVARIANTS
  PortExclusive
  RecoveryRegisterReadable
PROPERTIES
  PortReleased
