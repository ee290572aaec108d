\* Two threads on a TCP connection, late responses: a transfer waiting for the
\* mutex uses the connection another transfer has just given up.
CONSTANTS
  Threads = {t1, t2}
  Registers = {"idn", "axes", "mode", "stop"}
  Readable = {"idn", "axes"}
  Writeable = {"mode", "stop"}
  ReadLines <- MCReadLines
  WriteLines <- MCWriteLines
  DefaultRecoveryRegister = "idn"
  Transport = "ETHERNET"
  LateResponses = TRUE
  ExclusiveLifecycle = TRUE
  MaxInFlight = 4
  NoThread = NoThread
  NoRegister = NoRegister
  Torn = Torn
  Stale = Stale
SPECIFICATION Spec
INVARIANTS
  ResponseIsOwn
