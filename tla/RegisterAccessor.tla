--------------------------- MODULE RegisterAccessor ---------------------------
(***************************************************************************)
(* One CommandBasedBackendRegisterAccessor: its window on the register, the *)
(* user's buffer, the transfer buffers and the version number, through any  *)
(* sequence of reads and writes.                                            *)
(*                                                                          *)
(* An exchange is one step: that exchanges exclude each other and that a    *)
(* response is the reader's own is the subject of CommandBasedBackend.tla.  *)
(* Other threads and the device itself act between the steps.  A checksum   *)
(* stands for the data it was computed from.  TransferElement, which calls  *)
(* the phases, keeps their exceptions and tells doPostRead whether to       *)
(* update the buffer, is external.                                          *)
(***************************************************************************)
EXTENDS Naturals, Sequences

CONSTANTS
  Elements,          \* nElements of the register
  Values,            \* what an element of the register can hold
  UserType,          \* values the accessor's user type can hold
  Contents,          \* what the device itself puts into the register
  Slot,              \* values that fit the fixed width of the command
  Zero,              \* what a new buffer holds
  Readable, Writeable, \* has the register a read command, a write command?
  Checksums,         \* has the read response a checksum?
  WriteAcknowledged, \* has the write command a response?
  NoData             \* an empty transfer buffer; a response that matches nothing

ASSUME AccessorAssumption ==
  /\ Elements \in Nat \ {0}
  /\ UserType \subseteq Values
  /\ Slot \subseteq Values
  /\ Contents \subseteq [1..Elements -> Values] /\ Contents # {}
  /\ Zero \in UserType
  /\ {Readable, Writeable, Checksums, WriteAcknowledged} \subseteq BOOLEAN
  /\ NoData \notin [1..Elements -> Values]

VARIABLES
  offset,       \* _elementOffsetInRegister
  recoveryTest, \* _isRecoveryTestAccessor
  buffer,       \* buffer_2D[0], of length _numberOfElements
  readBuffer,   \* _readTransferBuffer
  writeBuffer,  \* _writeTransferBuffer
  version,      \* _versionNumber: flips when a new one is assigned
  pc,
  outcome,      \* how the last transfer ended
  backend,      \* isOpen and isFunctional
  device,       \* what the register holds
  answer,       \* history: what it held when this read's response was made
  executed      \* history: what the device executed of this write

vars == <<offset, recoveryTest, buffer, readBuffer, writeBuffer, version, pc, outcome,
          backend, device, answer, executed>>
accessorVars == <<offset, recoveryTest, buffer, readBuffer, writeBuffer, version>>

Register == [1..Elements -> Values]
Response == [data : Register, checksum : Register]

TypeOK ==
  /\ offset \in Nat
  /\ recoveryTest \in BOOLEAN
  /\ buffer \in Seq(UserType)
  /\ pc \in {"new", "refused"} \/ Len(buffer) \in 1..Elements
  /\ offset + Len(buffer) <= Elements
  /\ readBuffer \in Response \cup {NoData}
  /\ writeBuffer \in [1..Elements -> Slot] \cup {NoData}
  /\ version \in BOOLEAN
  /\ pc \in {"new", "refused", "idle", "readTransfer", "postRead", "writeTransfer"}
  /\ outcome \in {"none", "read", "written", "logic_error", "runtime_error"}
  /\ backend \in {"closed", "faulty", "functional"}
  /\ device \in Register
  /\ answer \in Register \cup {NoData}
  /\ executed \in [1..Elements -> Slot] \cup {NoData}

Init ==
  /\ offset = 0
  /\ recoveryTest = FALSE
  /\ buffer = <<>>
  /\ readBuffer = NoData
  /\ writeBuffer = NoData
  /\ version = FALSE
  /\ pc = "new"
  /\ outcome = "none"
  /\ backend = "closed"
  /\ device \in Contents
  /\ answer = NoData
  /\ executed = NoData

-----------------------------------------------------------------------------
(* Helpers *)

isOpen == backend # "closed"
isFunctional == backend = "functional"

\* The accessor's part of the register: capture groups offset + 1 onwards.
Window(data, o, n) == [i \in 1..n |-> data[i + o]]

\* Mutant: the bound forgets the offset.
FitsRegister_NoOffset(o, n) == n <= Elements

FitsRegister(o, n) == o + n <= Elements

inspectChecksum(r) == Checksums => r.checksum = r.data

\* A transfer ends, with an exception if it cannot happen or has failed; a
\* runtime_error is reported to the backend, by this code or by its caller.
Finish(result) ==
  /\ pc' = "idle"
  /\ outcome' = result

AfterRuntimeError == IF isOpen THEN "faulty" ELSE backend

-----------------------------------------------------------------------------
(* Construction *)

\* A length of 0 stands for the whole register.
Construct(length, o) ==
  /\ pc = "new"
  /\ recoveryTest' \in BOOLEAN
  /\ LET n == IF length = 0 THEN Elements ELSE length IN
       IF FitsRegister(o, n)
       THEN /\ offset' = o
            /\ buffer' = [i \in 1..n |-> Zero]
            /\ pc' = "idle"
            /\ UNCHANGED outcome
       ELSE /\ pc' = "refused"
            /\ outcome' = "logic_error"
            /\ UNCHANGED <<offset, buffer>>
  /\ UNCHANGED <<readBuffer, writeBuffer, version, backend, device, answer, executed>>

-----------------------------------------------------------------------------
(* Reading *)

doPreRead ==
  /\ pc = "idle"
  /\ answer' = NoData
  /\ IF (isOpen \/ recoveryTest) /\ Readable
     THEN pc' = "readTransfer" /\ outcome' = "none"
     ELSE Finish("logic_error")
  /\ UNCHANGED accessorVars
  /\ UNCHANGED <<backend, device, executed>>

\* What may arrive when the register holds d: the response, one of which a
\* part is changed on the way (which a checksum shows), or something else.
Responses(d) ==
  {[data |-> d, checksum |-> d], NoData} \cup
  (IF Checksums
   THEN {r \in [data : Contents \cup {d}, checksum : Contents \cup {d}] : r.data # r.checksum}
   ELSE {})

\* The device is not functional, or sendCommandAndRead throws: the transfer
\* buffer keeps the response of the read before.
ReadTransferFails ==
  /\ pc = "readTransfer"
  /\ outcome' = "runtime_error"
  /\ pc' = "postRead"
  /\ backend' = AfterRuntimeError
  /\ UNCHANGED accessorVars
  /\ UNCHANGED <<device, answer, executed>>

doReadTransferSynchronously ==
  /\ pc = "readTransfer"
  /\ isFunctional \/ recoveryTest
  /\ readBuffer' \in Responses(device)
  /\ answer' = device
  /\ pc' = "postRead"
  /\ UNCHANGED <<offset, recoveryTest, buffer, writeBuffer, version>>
  /\ UNCHANGED <<outcome, backend, device, executed>>

\* Mutant: the buffer is updated whatever happened to the transfer.
updateDataBuffer_Always == readBuffer # NoData

\* TransferElement's flag: the transfer did not throw.
updateDataBuffer == outcome # "runtime_error"

\* Mutant: a new version is assigned before the checksum is inspected.
IsAccepted_BeforeInspection(r, n) == \A i \in 1..n : Window(r.data, offset, n)[i] \in UserType

\* Every element of the window converts and the checksum is right.
IsAccepted(r, n) ==
  /\ \A i \in 1..n : Window(r.data, offset, n)[i] \in UserType
  /\ inspectChecksum(r)

\* Elements are converted one by one into the user's buffer, up to the first
\* that does not convert; only then is the checksum inspected.
doPostRead ==
  /\ pc = "postRead"
  /\ LET n == Len(buffer)
         window == Window(readBuffer.data, offset, n)
     IN CASE ~updateDataBuffer ->
               /\ Finish(outcome)
               /\ UNCHANGED <<buffer, version>>
          [] updateDataBuffer /\ readBuffer = NoData ->
               /\ Finish("runtime_error")
               /\ UNCHANGED <<buffer, version>>
          [] OTHER ->
               /\ buffer' = [i \in 1..n |-> IF \A k \in 1..i : window[k] \in UserType
                                            THEN window[i] ELSE buffer[i]]
               /\ version' = (version # IsAccepted(readBuffer, n))
               /\ Finish(IF IsAccepted(readBuffer, n) THEN "read" ELSE "runtime_error")
  /\ \/ UNCHANGED backend
     \/ outcome' = "runtime_error" /\ backend' = AfterRuntimeError
  /\ UNCHANGED <<offset, recoveryTest, readBuffer, writeBuffer, device, answer, executed>>

-----------------------------------------------------------------------------
(* Writing *)

\* The application fills the buffer.
FillBuffer ==
  /\ pc = "idle"
  /\ buffer' \in [DOMAIN buffer -> UserType]
  /\ outcome' = "none"
  /\ UNCHANGED <<offset, recoveryTest, readBuffer, writeBuffer, version>>
  /\ UNCHANGED <<pc, backend, device, answer, executed>>

\* Every element fits its slot, and the template finds all its elements: an
\* accessor to a part of the register has fewer, whatever its offset.
CanRender ==
  /\ \A i \in DOMAIN buffer : buffer[i] \in Slot
  /\ Len(buffer) = Elements

doPreWrite ==
  /\ pc = "idle"
  /\ executed' = NoData
  /\ CASE ~isOpen \/ ~Writeable ->
            Finish("logic_error") /\ UNCHANGED <<writeBuffer, backend>>
       [] isOpen /\ Writeable /\ ~CanRender ->
            /\ Finish("runtime_error")
            /\ backend' \in {backend, AfterRuntimeError}
            /\ UNCHANGED writeBuffer
       [] OTHER ->
            /\ writeBuffer' = buffer
            /\ pc' = "writeTransfer"
            /\ outcome' = "none"
            /\ UNCHANGED backend
  /\ UNCHANGED <<offset, recoveryTest, buffer, readBuffer, version, device, answer>>

\* Mutant: a response that does not match the pattern is good enough.
IsAcknowledgement_Any(response) == response # "none"

\* The response matches the write pattern and its checksum is right.
IsAcknowledgement(response) == response = "done"

\* The device acts on the command or not, and answers that it did or did not;
\* the answer may be damaged, or not come at all, in which case the port throws.
doWriteTransfer ==
  /\ pc = "writeTransfer"
  /\ isFunctional
  /\ \E acts \in BOOLEAN, response \in {"done", "refused", "damaged", "none"} :
       /\ (response = "done" => acts) /\ (response = "refused" => ~acts)
       /\ IF acts
          THEN device' = writeBuffer /\ executed' = writeBuffer
          ELSE UNCHANGED <<device, executed>>
       /\ IF ~WriteAcknowledged \/ IsAcknowledgement(response)
          THEN Finish("written") /\ UNCHANGED backend
          ELSE Finish("runtime_error") /\ backend' = AfterRuntimeError
  /\ UNCHANGED accessorVars
  /\ UNCHANGED answer

\* The device is not functional, or the command cannot be sent.
WriteTransferFails ==
  /\ pc = "writeTransfer"
  /\ Finish("runtime_error")
  /\ backend' = AfterRuntimeError
  /\ UNCHANGED accessorVars
  /\ UNCHANGED <<device, answer, executed>>

-----------------------------------------------------------------------------
(* Other threads and the device *)

\* open, close, and failures of other transfers.
BackendChanges ==
  /\ backend' \in {"closed", "faulty", "functional"} \ {backend}
  /\ UNCHANGED accessorVars
  /\ UNCHANGED <<pc, outcome, device, answer, executed>>

\* The register has a new value, by itself or by somebody else's write.
DeviceChanges ==
  /\ device' \in Contents \ {device}
  /\ UNCHANGED accessorVars
  /\ UNCHANGED <<pc, outcome, backend, answer, executed>>

Next ==
  \/ \E length, o \in 0..Elements : Construct(length, o)
  \/ doPreRead \/ ReadTransferFails \/ doReadTransferSynchronously \/ doPostRead
  \/ FillBuffer \/ doPreWrite \/ doWriteTransfer \/ WriteTransferFails
  \/ BackendChanges \/ DeviceChanges

Spec == Init /\ [][Next]_vars

-----------------------------------------------------------------------------
(* What an accessor promises *)

\* A read that returns leaves in the user's buffer the accessor's window on one
\* value that the register held during this very transfer: never the response
\* of an earlier read, never parts of two values, never a damaged one.
ReadIsCurrent ==
  outcome = "read" => answer # NoData /\ buffer = Window(answer, offset, Len(buffer))

\* A write that returns has been executed by the device with exactly the
\* contents of the user's buffer, if the register's write command is answered.
AcknowledgedWriteArrived ==
  outcome = "written" /\ WriteAcknowledged => executed = buffer

\* A new version number is assigned only together with a whole, intact window,
\* and a transfer that changes the buffer without one ends with an exception:
\* by the version number an application can tell a mixture from a value.
VersionMeansWholeUpdate ==
  [][/\ version' # version =>
          answer # NoData /\ buffer' = Window(answer, offset, Len(buffer))
     /\ buffer' # buffer /\ pc = "postRead" /\ version' = version =>
          outcome' = "runtime_error"]_vars

=============================================================================
