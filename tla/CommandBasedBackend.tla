------------------------- MODULE CommandBasedBackend -------------------------
(***************************************************************************)
(* The backend object shared by all accessors of one device: open(),       *)
(* close() and recovery, the transfers of CommandBasedBackendRegister-     *)
(* Accessor running in several application threads, the port mutex, and    *)
(* the device at the other end of the line.                                *)
(*                                                                         *)
(* A response line is represented by the thread whose command it answers;  *)
(* once that thread has left its exchange the line becomes Stale.  Lines   *)
(* arrive whole here: how a port assembles them from bytes is the subject  *)
(* of SerialPort.tla and TcpSocket.tla.  isOpen, isFunctional,             *)
(* setException and setOpenedAndClearException belong to DeviceAccess'     *)
(* DeviceBackendImpl and TransferElement, which are not in the repository; *)
(* they are modelled from how this code uses them.                         *)
(***************************************************************************)
EXTENDS Naturals, SequencesExt

CONSTANTS
  Threads,          \* application threads using the device
  Registers,        \* register paths of the map file
  Readable,         \* registers with an active read interaction
  Writeable,        \* registers with an active write interaction
  ReadLines,        \* response lines of each register's read command
  WriteLines,       \* response lines of each register's write command
  DefaultRecoveryRegister, \* from the map file, NoRegister when it names none
  Transport,        \* "SERIAL" or "ETHERNET"
  LateResponses,    \* may a response come after the timeout of its command?
  ExclusiveLifecycle, \* does the application keep open/close and transfers apart?
  MaxInFlight,      \* bound: response lines on their way when a command is sent
  NoThread, NoRegister, Torn, Stale

ASSUME ThreadsAssumption ==
  /\ NoThread \notin Threads
  /\ Stale \notin Threads
ASSUME CatalogueAssumption ==
  /\ Readable \subseteq Registers
  /\ Writeable \subseteq Registers
  /\ NoRegister \notin Registers
  /\ Torn \notin Registers \cup {NoRegister}
  /\ ReadLines \in [Registers -> Nat]
  /\ WriteLines \in [Registers -> Nat]
  /\ DefaultRecoveryRegister \in Registers \cup {NoRegister}
ASSUME EnvironmentAssumption ==
  /\ Transport \in {"SERIAL", "ETHERNET"}
  /\ LateResponses \in BOOLEAN
  /\ ExclusiveLifecycle \in BOOLEAN
  /\ MaxInFlight \in Nat

VARIABLES
  opened,              \* DeviceBackendImpl::_opened
  exception,           \* DeviceBackendImpl's active exception
  commandHandler,      \* is _commandHandler non-null?
  mux,                 \* holder of _mux
  lastWrittenRegister, \* _lastWrittenRegister
  pc, op, reg,         \* per thread: position, operation and register
  received,            \* per thread: results of the reads of this exchange
  device,              \* lines the device still has to send, by command
  rx,                  \* lines waiting in the port's input buffer
  dangling,            \* threads reading from a handler that is destroyed
  raced,               \* history: assignments of lastWrittenRegister overlapped
  muted,               \* history: threads whose command lost a response line
  aborted              \* "no", or what ended the process

portVars == <<mux, received, device, rx, dangling, muted>>
stateVars == <<opened, exception, commandHandler, lastWrittenRegister, raced>>
vars == <<opened, exception, commandHandler, mux, lastWrittenRegister, pc, op,
          reg, received, device, rx, dangling, raced, muted, aborted>>

Operations == {"none", "read", "write", "open", "close"}
Lifecycle == {"open", "close"}
Steps == {"idle", "lookup", "assign", "check", "assert", "lock", "send",
          "reading", "received", "done", "failed", "closing"}
InTransfer == {"assign", "check", "assert", "lock", "send", "reading", "received"}
Line == Threads \cup {Stale}

TypeOK ==
  /\ opened \in BOOLEAN
  /\ exception \in BOOLEAN
  /\ commandHandler \in BOOLEAN
  /\ mux \in Threads \cup {NoThread}
  /\ lastWrittenRegister \in Registers \cup {NoRegister, Torn}
  /\ pc \in [Threads -> Steps]
  /\ op \in [Threads -> Operations]
  /\ reg \in [Threads -> Registers \cup {NoRegister}]
  /\ received \in [Threads -> Seq(Seq(Line))]
  /\ device \in Seq(Line)
  /\ rx \in Seq(Line)
  /\ dangling \in SUBSET Threads
  /\ raced \in BOOLEAN
  /\ muted \in SUBSET Threads
  /\ aborted \in {"no", "handler", "assignment"}
  /\ \A t \in Threads : pc[t] \in InTransfer => reg[t] \in Registers

\* The constructor parses the map file and sets _lastWrittenRegister.
Init ==
  /\ opened = FALSE
  /\ exception = FALSE
  /\ commandHandler = FALSE
  /\ mux = NoThread
  /\ lastWrittenRegister = DefaultRecoveryRegister
  /\ pc = [t \in Threads |-> "idle"]
  /\ op = [t \in Threads |-> "none"]
  /\ reg = [t \in Threads |-> NoRegister]
  /\ received = [t \in Threads |-> <<>>]
  /\ device = <<>>
  /\ rx = <<>>
  /\ dangling = {}
  /\ raced = FALSE
  /\ muted = {}
  /\ aborted = "no"

-----------------------------------------------------------------------------
(* Helpers *)

Running == aborted = "no"

isFunctional == opened /\ ~exception

\* Lines in the device's response to t's command.
ResponseLines(t) == IF op[t] = "write" THEN WriteLines[reg[t]] ELSE ReadLines[reg[t]]

\* Mutant: the last line of a response of several lines is left unread.
LinesToRead_OneShort(t) == IF ResponseLines(t) > 1 THEN ResponseLines(t) - 1 ELSE ResponseLines(t)

\* Lines sendCommandAndRead reads: InteractionInfo::getResponseNLines.
LinesToRead(t) == IF op[t] = "write" THEN WriteLines[reg[t]] ELSE ReadLines[reg[t]]

\* The application may start a transfer, or open/close, in thread t.
MayTransfer(t) == ExclusiveLifecycle => \A u \in Threads : op[u] \notin Lifecycle
MayChangeLifecycle(t) == ExclusiveLifecycle => \A u \in Threads : op[u] = "none"

Goto(t, step) == pc' = [pc EXCEPT ![t] = step]

\* Leave the operation: what the thread held for it is released.
GoIdle(t) ==
  /\ pc' = [pc EXCEPT ![t] = "idle"]
  /\ op' = [op EXCEPT ![t] = "none"]
  /\ reg' = [reg EXCEPT ![t] = NoRegister]
  /\ received' = [received EXCEPT ![t] = <<>>]
  /\ muted' = muted \ {t}

Assigning == {t \in Threads : pc[t] = "assign"}

\* Thread t enters the unprotected assignment of _lastWrittenRegister.
EnterAssignment(t) ==
  /\ Goto(t, "assign")
  /\ raced' = (raced \/ Assigning # {})

\* sendCommandAndRead returns or throws: the lock guard releases the mutex.
\* Lines that still answer t's command are nobody's from now on.
LeaveExchange(t, step) ==
  /\ Goto(t, step)
  /\ mux' = NoThread

\* The object behind _commandHandler is destroyed.
DestroyHandler == dangling' = {t \in Threads : pc[t] = "reading"}

-----------------------------------------------------------------------------
(* Transfers: doPreRead / doPreWrite, transfer, doPostRead *)

\* doPreRead: isOpen and isReadable, or a logic_error without effect.
PreRead(t, r) ==
  /\ Running
  /\ op[t] = "none"
  /\ MayTransfer(t)
  /\ opened
  /\ r \in Readable
  /\ op' = [op EXCEPT ![t] = "read"]
  /\ reg' = [reg EXCEPT ![t] = r]
  /\ EnterAssignment(t)
  /\ UNCHANGED <<opened, exception, commandHandler, lastWrittenRegister, aborted>>
  /\ UNCHANGED portVars

\* doPreWrite: isOpen and isWriteable, or a logic_error without effect.
PreWrite(t, r) ==
  /\ Running
  /\ op[t] = "none"
  /\ MayTransfer(t)
  /\ opened
  /\ r \in Writeable
  /\ op' = [op EXCEPT ![t] = "write"]
  /\ reg' = [reg EXCEPT ![t] = r]
  /\ EnterAssignment(t)
  /\ UNCHANGED <<opened, exception, commandHandler, lastWrittenRegister, aborted>>
  /\ UNCHANGED portVars

\* Mutant: the register is remembered whether it can be read or not.
RecoveryRegister_Own(t) == reg[t]

\* The register the accessor leaves for the next open() to read from.
RecoveryRegister(t) ==
  IF reg[t] \in Readable THEN reg[t] ELSE DefaultRecoveryRegister

\* The end of doPreRead and doPreWrite.  Two threads assigning one std::string
\* at a time is undefined: the value may be torn, the heap may be corrupted.
AssignLastWritten(t) ==
  /\ Running
  /\ pc[t] = "assign"
  /\ \/ /\ lastWrittenRegister' = RecoveryRegister(t)
        /\ Goto(t, "check")
        /\ UNCHANGED aborted
     \/ /\ raced
        /\ lastWrittenRegister' = Torn
        /\ Goto(t, "check")
        /\ UNCHANGED aborted
     \/ /\ raced
        /\ aborted' = "assignment"
        /\ UNCHANGED <<pc, lastWrittenRegister>>
  /\ UNCHANGED <<opened, exception, commandHandler, op, reg, raced>>
  /\ UNCHANGED portVars

\* doReadTransferSynchronously / doWriteTransfer up to sendCommandAndRead.
CheckFunctional(t) ==
  /\ Running
  /\ pc[t] = "check"
  /\ Goto(t, IF isFunctional \/ op[t] = "open" THEN "assert" ELSE "failed")
  /\ UNCHANGED <<op, reg, aborted>>
  /\ UNCHANGED portVars
  /\ UNCHANGED stateVars

\* assert(_commandHandler), before the mutex is taken.
AssertHandler(t) ==
  /\ Running
  /\ pc[t] = "assert"
  /\ IF commandHandler
     THEN Goto(t, "lock") /\ UNCHANGED aborted
     ELSE aborted' = "handler" /\ UNCHANGED pc
  /\ UNCHANGED <<op, reg>>
  /\ UNCHANGED portVars
  /\ UNCHANGED stateVars

\* Mutant: the exchange does not take the lock.
PortIsFree_Unlocked == TRUE

PortIsFree == mux = NoThread

LockMux(t) ==
  /\ Running
  /\ pc[t] = "lock"
  /\ PortIsFree
  /\ mux' = t
  /\ Goto(t, "send")
  /\ UNCHANGED <<op, reg, received, device, rx, dangling, muted, aborted>>
  /\ UNCHANGED stateVars

\* The command reaches the device, which will answer it after the ones before.
SendCommand(t) ==
  /\ Running
  /\ pc[t] = "send"
  /\ commandHandler
  /\ Len(device) + Len(rx) + ResponseLines(t) <= MaxInFlight
  /\ device' = device \o [i \in 1..ResponseLines(t) |-> t]
  /\ Goto(t, "reading")
  /\ UNCHANGED <<mux, op, reg, received, rx, dangling, muted, aborted>>
  /\ UNCHANGED stateVars

\* Mutant: the error path leaves the mutex locked.
SendFails_KeepsLock(t) ==
  /\ Running
  /\ pc[t] = "send"
  /\ commandHandler
  /\ Goto(t, "failed")
  /\ UNCHANGED portVars
  /\ UNCHANGED <<op, reg, aborted>>
  /\ UNCHANGED stateVars

\* The write to the port fails or is incomplete: runtime_error.
SendFails(t) ==
  /\ Running
  /\ pc[t] = "send"
  /\ commandHandler
  /\ LeaveExchange(t, "failed")
  /\ UNCHANGED <<op, reg, received, device, rx, dangling, muted, aborted>>
  /\ UNCHANGED stateVars

\* Mutant: a read returns everything that has arrived.
LinesPerRead_Everything == {Len(rx)}

\* One read of the port.  A serial line ends at the delimiter; the socket
\* returns whatever its stream buffer holds, at least up to the delimiter.
LinesPerRead == IF Transport = "SERIAL" THEN {1} ELSE 1..Len(rx)

ReadLine(t) ==
  /\ Running
  /\ pc[t] = "reading"
  /\ t \notin dangling
  /\ Len(received[t]) < LinesToRead(t)
  /\ rx # <<>>
  /\ \E n \in LinesPerRead :
       /\ received' = [received EXCEPT ![t] = Append(@, SubSeq(rx, 1, n))]
       /\ rx' = SubSeq(rx, n + 1, Len(rx))
  /\ UNCHANGED <<mux, pc, op, reg, device, dangling, muted, aborted>>
  /\ UNCHANGED stateVars

\* All lines are there: sendCommandAndRead returns.
FinishExchange(t) ==
  /\ Running
  /\ pc[t] = "reading"
  /\ t \notin dangling
  /\ Len(received[t]) >= LinesToRead(t)
  /\ LeaveExchange(t, "received")
  /\ device' = ReplaceAll(device, t, Stale)
  /\ rx' = ReplaceAll(rx, t, Stale)
  /\ UNCHANGED <<op, reg, received, dangling, muted, aborted>>
  /\ UNCHANGED stateVars

\* Nothing the device sent or is about to send will reach the reader.
Starved(t) ==
  /\ pc[t] = "reading"
  /\ t \notin dangling
  /\ Len(received[t]) < LinesToRead(t)
  /\ rx = <<>>
  /\ t \notin ToSet(device)

\* A line does not come in time: runtime_error, whatever was read is dropped.
Timeout(t) ==
  /\ Running
  /\ pc[t] = "reading"
  /\ t \notin dangling
  /\ Len(received[t]) < LinesToRead(t)
  /\ LateResponses \/ Starved(t)
  /\ LeaveExchange(t, "failed")
  /\ device' = ReplaceAll(device, t, Stale)
  /\ rx' = ReplaceAll(rx, t, Stale)
  /\ received' = [received EXCEPT ![t] = <<>>]
  /\ UNCHANGED <<op, reg, dangling, muted, aborted>>
  /\ UNCHANGED stateVars

\* _commandHandler-> on a null pointer or on a destroyed object.
UseDeadHandler(t) ==
  /\ Running
  /\ \/ pc[t] = "send" /\ ~commandHandler
     \/ pc[t] = "reading" /\ t \in dangling
  /\ aborted' = "handler"
  /\ UNCHANGED <<pc, op, reg>>
  /\ UNCHANGED portVars
  /\ UNCHANGED stateVars

\* The response matches the register's pattern: the value is accepted.  The
\* pattern is written for one line per read; it cannot tell whose line it is.
AcceptResponse(t) ==
  /\ Running
  /\ pc[t] = "received"
  /\ \A i \in 1..Len(received[t]) : Len(received[t][i]) = 1
  /\ Goto(t, "done")
  /\ UNCHANGED <<op, reg, aborted>>
  /\ UNCHANGED portVars
  /\ UNCHANGED stateVars

\* It does not match, or a checksum is wrong: runtime_error.
RejectResponse(t) ==
  /\ Running
  /\ pc[t] = "received"
  /\ received[t] # <<>>
  /\ Goto(t, "failed")
  /\ UNCHANGED <<op, reg, aborted>>
  /\ UNCHANGED portVars
  /\ UNCHANGED stateVars

\* TransferElement returns to the application.
ReturnFromTransfer(t) ==
  /\ Running
  /\ pc[t] = "done"
  /\ op[t] \in {"read", "write"}
  /\ GoIdle(t)
  /\ UNCHANGED <<mux, device, rx, dangling, aborted>>
  /\ UNCHANGED stateVars

\* TransferElement catches the runtime_error, reports it and rethrows.  Whether
\* it also reports one that doPostRead threw cannot be told from this code.
SetException(t) ==
  /\ Running
  /\ pc[t] = "failed"
  /\ \/ exception' = TRUE
     \/ op[t] # "write" /\ received[t] # <<>> /\ UNCHANGED exception
  /\ GoIdle(t)
  /\ UNCHANGED <<opened, commandHandler, lastWrittenRegister, raced>>
  /\ UNCHANGED <<mux, device, rx, dangling, aborted>>

-----------------------------------------------------------------------------
(* open() and close() *)

\* Responses still to come after a new handler was made: the serial device goes
\* on answering, a new TCP connection carries nothing of the old one.
ResponsesAfterOpen == IF Transport = "SERIAL" THEN device ELSE <<>>

\* A new handler replaces the old one.  Opening the serial port flushes its
\* input.  When this fails, open() throws and nothing has changed.
OpenHandler(t) ==
  /\ Running
  /\ op[t] = "none"
  /\ MayChangeLifecycle(t)
  /\ op' = [op EXCEPT ![t] = "open"]
  /\ Goto(t, "lookup")
  /\ commandHandler' = TRUE
  /\ DestroyHandler
  /\ rx' = <<>>
  /\ device' = ResponsesAfterOpen
  /\ UNCHANGED <<opened, exception, mux, lastWrittenRegister, reg, received,
                 raced, muted, aborted>>

\* Mutant: the register is used without asking the catalogue.
CanRecoverFrom_Any(r) == TRUE

\* The catalogue knows the register and its read interaction is active.
CanRecoverFrom(r) == r \in Readable

\* The catalogue is asked for _lastWrittenRegister and the test accessor's
\* doPreRead runs on it.
LookupRecoveryRegister(t) ==
  /\ Running
  /\ pc[t] = "lookup"
  /\ CanRecoverFrom(lastWrittenRegister)
  /\ reg' = [reg EXCEPT ![t] = lastWrittenRegister]
  /\ EnterAssignment(t)
  /\ UNCHANGED <<opened, exception, commandHandler, lastWrittenRegister, op, aborted>>
  /\ UNCHANGED portVars

\* Mutant: without a register to test, open() counts as successful.
LookupFails_SkipsTest(t) ==
  /\ Running
  /\ pc[t] = "lookup"
  /\ ~CanRecoverFrom(lastWrittenRegister)
  /\ Goto(t, "done")
  /\ UNCHANGED <<op, reg, aborted>>
  /\ UNCHANGED portVars
  /\ UNCHANGED stateVars

\* It is not in the catalogue, or not readable: logic_error out of open().
LookupFails(t) ==
  /\ Running
  /\ pc[t] = "lookup"
  /\ ~CanRecoverFrom(lastWrittenRegister)
  /\ GoIdle(t)
  /\ UNCHANGED <<mux, device, rx, dangling, aborted>>
  /\ UNCHANGED stateVars

\* setOpenedAndClearException, after the test read succeeded.
FinishOpen(t) ==
  /\ Running
  /\ pc[t] = "done"
  /\ op[t] = "open"
  /\ opened' = TRUE
  /\ exception' = FALSE
  /\ GoIdle(t)
  /\ UNCHANGED <<commandHandler, lastWrittenRegister, raced>>
  /\ UNCHANGED <<mux, device, rx, dangling, aborted>>

CloseHandler(t) ==
  /\ Running
  /\ op[t] = "none"
  /\ MayChangeLifecycle(t)
  /\ op' = [op EXCEPT ![t] = "close"]
  /\ Goto(t, "closing")
  /\ commandHandler' = FALSE
  /\ DestroyHandler
  /\ UNCHANGED <<opened, exception, mux, lastWrittenRegister, reg, received,
                 device, rx, raced, muted, aborted>>

\* Mutant: close() leaves the backend marked as opened.
FinishClose_StaysOpen(t) ==
  /\ Running
  /\ pc[t] = "closing"
  /\ GoIdle(t)
  /\ UNCHANGED stateVars
  /\ UNCHANGED <<mux, device, rx, dangling, aborted>>

FinishClose(t) ==
  /\ Running
  /\ pc[t] = "closing"
  /\ opened' = FALSE
  /\ GoIdle(t)
  /\ UNCHANGED <<exception, commandHandler, lastWrittenRegister, raced>>
  /\ UNCHANGED <<mux, device, rx, dangling, aborted>>

-----------------------------------------------------------------------------
(* The device *)

\* The next line, in the order of the commands.
Respond ==
  /\ Running
  /\ device # <<>>
  /\ rx' = Append(rx, Head(device))
  /\ device' = Tail(device)
  /\ UNCHANGED <<mux, pc, op, reg, received, dangling, muted, aborted>>
  /\ UNCHANGED stateVars

\* The device stays silent, or the line is lost.
LoseLine ==
  /\ Running
  /\ device # <<>>
  /\ muted' = muted \cup ({Head(device)} \ {Stale})
  /\ device' = Tail(device)
  /\ UNCHANGED <<mux, pc, op, reg, received, rx, dangling, aborted>>
  /\ UNCHANGED stateVars

-----------------------------------------------------------------------------

Proceed(t) ==
  \/ AssignLastWritten(t) \/ CheckFunctional(t) \/ AssertHandler(t)
  \/ LockMux(t) \/ SendCommand(t) \/ SendFails(t) \/ ReadLine(t)
  \/ FinishExchange(t) \/ Timeout(t) \/ UseDeadHandler(t)
  \/ AcceptResponse(t) \/ RejectResponse(t) \/ ReturnFromTransfer(t)
  \/ SetException(t) \/ LookupRecoveryRegister(t) \/ LookupFails(t)
  \/ FinishOpen(t) \/ FinishClose(t)

Start(t) ==
  \/ \E r \in Registers : PreRead(t, r) \/ PreWrite(t, r)
  \/ OpenHandler(t)
  \/ CloseHandler(t)

\* An assertion, a dead handler or a corrupted heap has ended the process.
ProcessEnded == ~Running /\ UNCHANGED vars

Next ==
  \/ \E t \in Threads : Start(t) \/ Proceed(t)
  \/ Respond
  \/ LoseLine
  \/ ProcessEnded

Spec == Init /\ [][Next]_vars

\* Threads keep running and timers expire; nothing makes an application start
\* an operation, and the mutex is not fair between competing threads.  Where
\* LateResponses is FALSE a timeout means that the line never comes, so time
\* passing is the device sending the next line or dropping it.
FairSpec ==
  /\ Spec
  /\ \A t \in Threads : WF_vars(Proceed(t))
  /\ WF_vars(Respond \/ LoseLine)

-----------------------------------------------------------------------------
(* What the backend promises *)

\* _mux "for protecting ordered port access": two threads are never between
\* the sending of a command and the reading of its response.
PortExclusive ==
  \A t, u \in Threads :
    pc[t] \in {"send", "reading"} /\ pc[u] \in {"send", "reading"} => t = u

\* assert(_commandHandler) never fires, and no thread uses a handler that
\* close() or a recovering open() has destroyed.
HandlerAlive == aborted # "handler"

\* A value is accepted only from lines the device sent in answer to the command
\* of this very transfer, open()'s test read included.
ResponseIsOwn ==
  \A t \in Threads : pc[t] = "done" =>
    \A i \in DOMAIN received[t] : ToSet(received[t][i]) = {t}

\* Nothing of one exchange is left on the line when the mutex is free: the next
\* command meets an empty input buffer and a device that owes nothing.
LineCleanBetweenExchanges == mux = NoThread => rx = <<>> /\ device = <<>>

\* The register open() will read from is one it can read, whatever was written
\* or read before, as long as assignments of the unprotected string did not
\* overlap.
RecoveryRegisterReadable == raced \/ lastWrittenRegister \in Readable

\* A transfer whose response lines were all sent does not run into a timeout.
AnsweredTransferIsNotStarved == \A t \in Threads : Starved(t) => t \in muted

\* A device becomes functional again only through an open() whose test read has
\* just been answered over a live handler: never through a transfer, and never
\* while a failure is still to be reported.
FunctionalOnlyThroughOpen ==
  [][~isFunctional /\ isFunctional' =>
       /\ \E t \in Threads : /\ op[t] = "open"
                             /\ pc[t] = "done"
                             /\ received[t] # <<>>
       /\ commandHandler
       /\ \A t \in Threads : pc[t] # "failed"]_vars

\* Whoever takes the port gives it back: no transfer holds the mutex for ever,
\* whatever the device does.
PortReleased ==
  \A t \in Threads : mux = t ~> (mux # t \/ ~Running)

=============================================================================
