------------------------ MODULE RegisterAccessor_proofs ------------------------
(***************************************************************************)
(* Theorems about RegisterAccessor, for every register, window, user type   *)
(* and slot, with and without checksums and acknowledgements.               *)
(***************************************************************************)
EXTENDS RegisterAccessor, TLAPS

\* What a transfer under way has got so far, and what a successful one leaves.
TransferInv ==
  /\ pc \in {"new", "readTransfer"} => outcome = "none"
  /\ pc = "postRead" /\ updateDataBuffer =>
       /\ outcome = "none"
       /\ answer \in Register
       /\ readBuffer \in Responses(answer)
  /\ pc = "writeTransfer" => writeBuffer \in [1..Elements -> Slot] /\ writeBuffer = buffer
  /\ pc \in {"readTransfer", "postRead", "writeTransfer"} => outcome \notin {"read", "written"}

Inv == TypeOK /\ TransferInv /\ ReadIsCurrent /\ AcknowledgedWriteArrived

-----------------------------------------------------------------------------
\* A function on 1..n is a sequence of length n.
LEMMA FunctionIsSequence ==
  ASSUME NEW S, NEW n \in Nat, NEW f \in [1..n -> S]
  PROVE  f \in Seq(S) /\ Len(f) = n
OBVIOUS

\* A response that passes the inspection is what the register held: the checksum
\* of a damaged one does not fit its data.
LEMMA InspectedIsAnswer ==
  ASSUME NEW d \in Register, NEW r \in Responses(d), r # NoData, inspectChecksum(r)
  PROVE  r.data = d
<1>1. CASE r = [data |-> d, checksum |-> d]
  BY <1>1
<1>2. CASE r # [data |-> d, checksum |-> d]
  <2>1. Checksums /\ r.data # r.checksum
    BY <1>2 DEF Responses
  <2> QED BY <2>1 DEF inspectChecksum
<1> QED BY <1>1, <1>2

\* What may arrive has the type of a transfer buffer.
LEMMA ResponsesType ==
  ASSUME NEW d \in Register
  PROVE  Responses(d) \subseteq Response \cup {NoData}
BY AccessorAssumption DEF Responses, Response, Register

-----------------------------------------------------------------------------
\* Every step of the accessor, of other threads and of the device keeps Inv.
LEMMA Step ==
  ASSUME Inv, [Next]_vars
  PROVE  Inv'
<1> USE AccessorAssumption DEF Inv, TypeOK, TransferInv, ReadIsCurrent, AcknowledgedWriteArrived,
        accessorVars, Register, Finish, AfterRuntimeError
<1>1. ASSUME NEW length \in 0..Elements, NEW o \in 0..Elements, Construct(length, o)
      PROVE  Inv'
  <2> DEFINE n == IF length = 0 THEN Elements ELSE length
  <2>1. CASE FitsRegister(o, n)
    <3>1. buffer' \in [1..n -> UserType] /\ n \in 1..Elements
      BY <1>1, <2>1 DEF Construct
    <3>2. buffer' \in Seq(UserType) /\ Len(buffer') = n
      BY <3>1
    <3> QED BY <1>1, <2>1, <3>2 DEF Construct, FitsRegister
  <2>2. CASE ~FitsRegister(o, n)
    BY <1>1, <2>2 DEF Construct
  <2> QED BY <2>1, <2>2
<1>2. CASE doPreRead
  BY <1>2 DEF doPreRead, updateDataBuffer
<1>3. CASE ReadTransferFails
  BY <1>3 DEF ReadTransferFails, updateDataBuffer, isOpen
<1>4. CASE doReadTransferSynchronously
  <2>1. readBuffer' \in Response \cup {NoData}
    BY <1>4, ResponsesType DEF doReadTransferSynchronously
  <2> QED BY <1>4, <2>1 DEF doReadTransferSynchronously, updateDataBuffer, Responses
<1>5. CASE doPostRead
  <2> DEFINE n == Len(buffer)
             window == Window(readBuffer.data, offset, n)
  <2>1. CASE ~updateDataBuffer \/ readBuffer = NoData
    BY <1>5, <2>1 DEF doPostRead, updateDataBuffer, isOpen
  <2>2. CASE updateDataBuffer /\ readBuffer # NoData
    <3>1. /\ buffer' = [i \in 1..n |-> IF \A k \in 1..i : window[k] \in UserType
                                       THEN window[i] ELSE buffer[i]]
          /\ version' = (version # IsAccepted(readBuffer, n))
          /\ outcome' = IF IsAccepted(readBuffer, n) THEN "read" ELSE "runtime_error"
          /\ pc' = "idle"
      BY <1>5, <2>2 DEF doPostRead
    <3>2. n \in 1..Elements /\ buffer \in [1..n -> UserType]
      BY <1>5 DEF doPostRead
    <3>3. buffer' \in [1..n -> UserType]
      BY <3>1, <3>2
    <3>4. buffer' \in Seq(UserType) /\ Len(buffer') = n
      BY <3>2, <3>3, FunctionIsSequence
    <3>5. ASSUME IsAccepted(readBuffer, n)
          PROVE  answer # NoData /\ buffer' = Window(answer, offset, n)
      <4>1. readBuffer.data = answer /\ answer \in Register
        BY <1>5, <2>2, <3>5, InspectedIsAnswer DEF doPostRead, IsAccepted
      <4>2. \A i \in 1..n : window[i] \in UserType
        BY <3>5 DEF IsAccepted
      <4>3. buffer' = [i \in 1..n |-> window[i]]
        BY <3>1, <3>2, <4>2
      <4> QED BY <4>1, <4>3 DEF Window
    <3> QED BY <1>5, <3>1, <3>4, <3>5 DEF doPostRead, updateDataBuffer, isOpen
  <2> QED BY <2>1, <2>2
<1>6. CASE FillBuffer
  <2>1. buffer' \in Seq(UserType) /\ Len(buffer') = Len(buffer)
    BY <1>6 DEF FillBuffer
  <2> QED BY <1>6, <2>1 DEF FillBuffer, updateDataBuffer
<1>7. CASE doPreWrite
  <2>1. CASE isOpen /\ Writeable /\ CanRender
    <3>1. writeBuffer' = buffer /\ buffer \in [1..Elements -> Slot]
      BY <1>7, <2>1 DEF doPreWrite, CanRender
    <3> QED BY <1>7, <2>1, <3>1 DEF doPreWrite, updateDataBuffer
  <2>2. CASE ~(isOpen /\ Writeable /\ CanRender)
    BY <1>7, <2>2 DEF doPreWrite, updateDataBuffer, isOpen
  <2> QED BY <2>1, <2>2
<1>8. CASE doWriteTransfer
  <2>1. writeBuffer \in Register
    BY <1>8 DEF doWriteTransfer
  <2> QED BY <1>8, <2>1 DEF doWriteTransfer, IsAcknowledgement, updateDataBuffer, isOpen
<1>9. CASE WriteTransferFails
  BY <1>9 DEF WriteTransferFails, updateDataBuffer, isOpen
<1>10. CASE BackendChanges
  BY <1>10 DEF BackendChanges, updateDataBuffer
<1>11. CASE DeviceChanges
  BY <1>11 DEF DeviceChanges, updateDataBuffer
<1>12. CASE UNCHANGED vars
  BY <1>12 DEF vars, updateDataBuffer
<1> QED
  BY <1>1, <1>2, <1>3, <1>4, <1>5, <1>6, <1>7, <1>8, <1>9, <1>10, <1>11, <1>12 DEF Next

\* A new accessor has no buffers; nothing has been transferred.
LEMMA Start == Init => Inv
<1> SUFFICES ASSUME Init
             PROVE  Inv
  OBVIOUS
<1>1. buffer \in Seq(UserType) /\ Len(buffer) = 0
  BY DEF Init
<1>2. device \in Register
  BY AccessorAssumption DEF Init, Register
<1>3. offset + Len(buffer) <= Elements
  BY <1>1, AccessorAssumption DEF Init
<1>4. /\ readBuffer \in Response \cup {NoData}
      /\ writeBuffer \in [1..Elements -> Slot] \cup {NoData}
      /\ answer \in Register \cup {NoData}
      /\ executed \in [1..Elements -> Slot] \cup {NoData}
  BY DEF Init
<1>5. TypeOK
  BY <1>1, <1>2, <1>3, <1>4 DEF Init, TypeOK
<1> QED
  BY <1>5 DEF Init, Inv, TransferInv, ReadIsCurrent, AcknowledgedWriteArrived

\* Inv is inductive.
LEMMA Invariant == Spec => []Inv
BY Start, Step, PTL DEF Spec

-----------------------------------------------------------------------------
\* Buffers stay inside the register and of their type, whatever a device answers.
THEOREM TypeCorrect == Spec => []TypeOK
<1>1. Inv => TypeOK
  BY DEF Inv
<1> QED BY <1>1, Invariant, PTL

\* A read that returns has put the accessor's window on one value that the
\* register held during that read into the user's buffer.
THEOREM ReadsAreCurrent == Spec => []ReadIsCurrent
<1>1. Inv => ReadIsCurrent
  BY DEF Inv
<1> QED BY <1>1, Invariant, PTL

\* A write with an acknowledgement that returns has been executed with the
\* contents of the user's buffer.
THEOREM AcknowledgedWritesArrive == Spec => []AcknowledgedWriteArrived
<1>1. Inv => AcknowledgedWriteArrived
  BY DEF Inv
<1> QED BY <1>1, Invariant, PTL

\* A new version number comes with a whole window, and doPostRead changes the
\* buffer without one only if it throws.
THEOREM VersionsMeanWholeUpdates == Spec => VersionMeansWholeUpdate
<1> DEFINE Update ==
      /\ version' # version =>
           answer # NoData /\ buffer' = Window(answer, offset, Len(buffer))
      /\ buffer' # buffer /\ pc = "postRead" /\ version' = version =>
           outcome' = "runtime_error"
<1>1. ASSUME Inv, Inv', [Next]_vars
      PROVE  [Update]_vars
  <2>1. CASE doPostRead
    <3>1. CASE ~updateDataBuffer \/ readBuffer = NoData
      BY <2>1, <3>1 DEF doPostRead
    <3>2. CASE updateDataBuffer /\ readBuffer # NoData
      <4>1. /\ version' = (version # IsAccepted(readBuffer, Len(buffer)))
            /\ outcome' = IF IsAccepted(readBuffer, Len(buffer)) THEN "read" ELSE "runtime_error"
            /\ UNCHANGED <<offset, answer>>
        BY <1>1, <2>1, <3>2 DEF doPostRead, Finish, Inv, TypeOK
      <4> DEFINE window == Window(readBuffer.data, offset, Len(buffer))
      <4>2. buffer' = [i \in 1..Len(buffer) |-> IF \A k \in 1..i : window[k] \in UserType
                                                THEN window[i] ELSE buffer[i]]
        BY <2>1, <3>2 DEF doPostRead
      <4>3. Len(buffer) \in Nat /\ buffer \in [1..Len(buffer) -> UserType]
        BY <1>1 DEF Inv, TypeOK
      <4>4. Len(buffer') = Len(buffer)
        <5>1. buffer' \in [1..Len(buffer) -> UserType]
          BY <4>2, <4>3
        <5> HIDE DEF window
        <5> QED BY <4>3, <5>1, FunctionIsSequence
      <4>5. CASE IsAccepted(readBuffer, Len(buffer))
        <5>1. version' # version /\ outcome' = "read"
          BY <1>1, <4>1, <4>5 DEF Inv, TypeOK, IsAccepted, inspectChecksum
        <5>2. answer' # NoData /\ buffer' = Window(answer', offset', Len(buffer'))
          BY <1>1, <5>1 DEF Inv, ReadIsCurrent
        <5> QED BY <4>1, <4>4, <5>1, <5>2
      <4>6. CASE ~IsAccepted(readBuffer, Len(buffer))
        <5>1. version' = version /\ outcome' = "runtime_error"
          BY <1>1, <4>1, <4>6 DEF Inv, TypeOK, IsAccepted, inspectChecksum
        <5> QED BY <5>1
      <4> QED BY <4>5, <4>6
    <3> QED BY <3>1, <3>2
  <2>2. CASE ~doPostRead
    <3>1. version' = version /\ (pc # "postRead" \/ buffer' = buffer)
      BY <1>1, <2>2 DEF Next, vars, accessorVars, Construct, doPreRead, ReadTransferFails,
         doReadTransferSynchronously, FillBuffer, doPreWrite, doWriteTransfer,
         WriteTransferFails, BackendChanges, DeviceChanges
    <3> QED BY <3>1
  <2> QED BY <2>1, <2>2
<1> QED BY <1>1, Invariant, PTL DEF Spec, VersionMeansWholeUpdate

=============================================================================
