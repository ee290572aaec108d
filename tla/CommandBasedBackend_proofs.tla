---------------------- MODULE CommandBasedBackend_proofs ----------------------
(***************************************************************************)
(* Theorems about CommandBasedBackend for every set of threads, every      *)
(* catalogue and both transports.                                          *)
(***************************************************************************)
EXTENDS CommandBasedBackend, TLAPS

\* Replacing an element keeps a sequence of lines one.
LEMMA ReplaceAllType ==
  ASSUME NEW S, NEW s \in Seq(S), NEW x, NEW y \in S
  PROVE  ReplaceAll(s, x, y) \in Seq(S)
  <1> DEFINE n == Len(s)
  <1>1. ReplaceAll(s, x, y) = [i \in 1..n |-> IF s[i] = x THEN y ELSE s[i]]
    BY DEF ReplaceAll
  <1>2. \A i \in 1..n : s[i] \in S
    OBVIOUS
  <1>3. [i \in 1..n |-> IF s[i] = x THEN y ELSE s[i]] \in [1..n -> S]
    BY <1>2
  <1>4. n \in Nat
    OBVIOUS
  <1> QED
    BY <1>1, <1>3, <1>4

\* A function on 1..n is a sequence.
LEMMA ConstantSequence ==
  ASSUME NEW S, NEW n \in Nat, NEW f \in [1..n -> S]
  PROVE  f \in Seq(S)
  OBVIOUS

\* Every step of open, close and the transfers keeps the type of every variable,
\* and a thread inside a transfer works on a register of the catalogue.
THEOREM TypeCorrect == Spec => []TypeOK
  <1>1. Init => TypeOK
    <2> SUFFICES ASSUME Init
                 PROVE  TypeOK
      OBVIOUS
    <2>1. /\ device \in Seq(Line)
          /\ rx \in Seq(Line)
          /\ received \in [Threads -> Seq(Seq(Line))]
      BY DEF Init
    <2>2. /\ pc \in [Threads -> Steps]
          /\ op \in [Threads -> Operations]
          /\ reg \in [Threads -> Registers \cup {NoRegister}]
          /\ \A t \in Threads : pc[t] \notin InTransfer
      BY DEF Init, Steps, Operations, InTransfer
    <2>3. lastWrittenRegister \in Registers \cup {NoRegister, Torn}
      BY CatalogueAssumption DEF Init
    <2> QED
      BY <2>1, <2>2, <2>3 DEF Init, TypeOK
  <1>2. TypeOK /\ [Next]_vars => TypeOK'
    <2> SUFFICES ASSUME TypeOK, [Next]_vars
                 PROVE  TypeOK'
      OBVIOUS
    <2> USE CatalogueAssumption, ThreadsAssumption
    <2> USE DEF TypeOK, Steps, Operations, InTransfer, Line, Goto, stateVars, portVars
    <2>1. ASSUME NEW t \in Threads, NEW r \in Registers, PreRead(t, r)
          PROVE  TypeOK'
      BY <2>1 DEF PreRead, EnterAssignment, Assigning
    <2>2. ASSUME NEW t \in Threads, NEW r \in Registers, PreWrite(t, r)
          PROVE  TypeOK'
      BY <2>2 DEF PreWrite, EnterAssignment, Assigning
    <2>3. ASSUME NEW t \in Threads, AssignLastWritten(t)
          PROVE  TypeOK'
      BY <2>3 DEF AssignLastWritten, RecoveryRegister
    <2>4. ASSUME NEW t \in Threads, CheckFunctional(t)
          PROVE  TypeOK'
      BY <2>4 DEF CheckFunctional
    <2>5. ASSUME NEW t \in Threads, AssertHandler(t)
          PROVE  TypeOK'
      BY <2>5 DEF AssertHandler
    <2>6. ASSUME NEW t \in Threads, LockMux(t)
          PROVE  TypeOK'
      BY <2>6 DEF LockMux
    <2>7. ASSUME NEW t \in Threads, SendCommand(t)
          PROVE  TypeOK'
      <3>1. ResponseLines(t) \in Nat
        BY <2>7 DEF SendCommand, ResponseLines
      <3>2. [i \in 1..ResponseLines(t) |-> t] \in [1..ResponseLines(t) -> Line]
        OBVIOUS
      <3>3. [i \in 1..ResponseLines(t) |-> t] \in Seq(Line)
        BY <3>1, <3>2, ConstantSequence
      <3>4. device' \in Seq(Line)
        BY <2>7, <3>3 DEF SendCommand
      <3> QED
        BY <2>7, <3>4 DEF SendCommand
    <2>8. ASSUME NEW t \in Threads, SendFails(t)
          PROVE  TypeOK'
      BY <2>8 DEF SendFails, LeaveExchange
    <2>9. ASSUME NEW t \in Threads, ReadLine(t)
          PROVE  TypeOK'
      <3>1. PICK n \in LinesPerRead :
              /\ received' = [received EXCEPT ![t] = Append(@, SubSeq(rx, 1, n))]
              /\ rx' = SubSeq(rx, n + 1, Len(rx))
        BY <2>9 DEF ReadLine
      <3>2. n \in 1..Len(rx)
        BY <2>9 DEF ReadLine, LinesPerRead
      <3>3. SubSeq(rx, 1, n) \in Seq(Line) /\ SubSeq(rx, n + 1, Len(rx)) \in Seq(Line)
        BY <3>2
      <3>4. rx' \in Seq(Line)
        BY <3>1, <3>3
      <3>5. received' \in [Threads -> Seq(Seq(Line))]
        <4>1. Append(received[t], SubSeq(rx, 1, n)) \in Seq(Seq(Line))
          BY <3>3
        <4> QED
          BY <3>1, <4>1
      <3> QED
        BY <2>9, <3>4, <3>5 DEF ReadLine
    <2>10. ASSUME NEW t \in Threads, FinishExchange(t)
          PROVE  TypeOK'
      <3>1. device' \in Seq(Line) /\ rx' \in Seq(Line)
        BY <2>10, ReplaceAllType DEF FinishExchange
      <3>2. received' \in [Threads -> Seq(Seq(Line))]
        BY <2>10 DEF FinishExchange
      <3> QED
        BY <2>10, <3>1, <3>2 DEF FinishExchange, LeaveExchange
    <2>11. ASSUME NEW t \in Threads, Timeout(t)
          PROVE  TypeOK'
      <3>1. device' \in Seq(Line) /\ rx' \in Seq(Line)
        BY <2>11, ReplaceAllType DEF Timeout
      <3>2. received' \in [Threads -> Seq(Seq(Line))]
        BY <2>11 DEF Timeout
      <3> QED
        BY <2>11, <3>1, <3>2 DEF Timeout, LeaveExchange
    <2>12. ASSUME NEW t \in Threads, UseDeadHandler(t)
          PROVE  TypeOK'
      BY <2>12 DEF UseDeadHandler
    <2>13. ASSUME NEW t \in Threads, AcceptResponse(t)
          PROVE  TypeOK'
      BY <2>13 DEF AcceptResponse
    <2>14. ASSUME NEW t \in Threads, RejectResponse(t)
          PROVE  TypeOK'
      BY <2>14 DEF RejectResponse
    <2>15. ASSUME NEW t \in Threads, ReturnFromTransfer(t)
          PROVE  TypeOK'
      BY <2>15 DEF ReturnFromTransfer, GoIdle
    <2>16. ASSUME NEW t \in Threads, SetException(t)
          PROVE  TypeOK'
      <3>1. exception' \in BOOLEAN
        BY <2>16 DEF SetException
      <3> QED
        BY <2>16, <3>1 DEF SetException, GoIdle
    <2>17. ASSUME NEW t \in Threads, OpenHandler(t)
          PROVE  TypeOK'
      BY <2>17 DEF OpenHandler, DestroyHandler, ResponsesAfterOpen
    <2>18. ASSUME NEW t \in Threads, LookupRecoveryRegister(t)
          PROVE  TypeOK'
      BY <2>18 DEF LookupRecoveryRegister, EnterAssignment, Assigning, CanRecoverFrom
    <2>19. ASSUME NEW t \in Threads, LookupFails(t)
          PROVE  TypeOK'
      BY <2>19 DEF LookupFails, GoIdle
    <2>20. ASSUME NEW t \in Threads, FinishOpen(t)
          PROVE  TypeOK'
      <3>1. opened' \in BOOLEAN /\ exception' \in BOOLEAN
        BY <2>20, Zenon DEF FinishOpen
      <3> QED
        BY <2>20, <3>1 DEF FinishOpen, GoIdle
    <2>21. ASSUME NEW t \in Threads, CloseHandler(t)
          PROVE  TypeOK'
      BY <2>21 DEF CloseHandler, DestroyHandler
    <2>22. ASSUME NEW t \in Threads, FinishClose(t)
          PROVE  TypeOK'
      <3>1. opened' \in BOOLEAN /\ exception' \in BOOLEAN
        BY <2>22, Zenon DEF FinishClose
      <3> QED
        BY <2>22, <3>1 DEF FinishClose, GoIdle
    <2>23. CASE Respond
      BY <2>23 DEF Respond
    <2>24. CASE LoseLine
      BY <2>24 DEF LoseLine
    <2>25. CASE UNCHANGED vars
      BY <2>25 DEF vars
    <2> QED
      BY <2>1, <2>2, <2>3, <2>4, <2>5, <2>6, <2>7, <2>8, <2>9, <2>10, <2>11, <2>12, <2>13, <2>14, <2>15, <2>16, <2>17, <2>18, <2>19, <2>20, <2>21, <2>22, <2>23, <2>24, <2>25
      DEF Next, Start, Proceed, ProcessEnded
  <1> QED
    BY <1>1, <1>2, PTL DEF Spec
-----------------------------------------------------------------------------
(* Ordered port access *)

\* Whoever is on the port holds the mutex.
PortInv == \A t \in Threads : pc[t] \in {"send", "reading"} => mux = t

\* For any number of threads, whatever open and close do in between, no two of
\* them are on the port: sendCommandAndRead's lock covers the whole exchange.
THEOREM Exclusion == Spec => []PortExclusive
  <1>1. Init => PortInv
    BY DEF Init, PortInv
  <1>2. TypeOK /\ PortInv /\ [Next]_vars => PortInv'
    <2> SUFFICES ASSUME TypeOK, PortInv, [Next]_vars
                 PROVE  PortInv'
      OBVIOUS
    <2> USE ThreadsAssumption DEF TypeOK, PortInv, Goto, stateVars, portVars
    <2>1. ASSUME NEW t \in Threads, NEW r \in Registers, PreRead(t, r)
          PROVE  PortInv'
      BY <2>1 DEF PreRead, EnterAssignment
    <2>2. ASSUME NEW t \in Threads, NEW r \in Registers, PreWrite(t, r)
          PROVE  PortInv'
      BY <2>2 DEF PreWrite, EnterAssignment
    <2>3. ASSUME NEW t \in Threads, AssignLastWritten(t)
          PROVE  PortInv'
      BY <2>3 DEF AssignLastWritten
    <2>4. ASSUME NEW t \in Threads, CheckFunctional(t)
          PROVE  PortInv'
      BY <2>4 DEF CheckFunctional
    <2>5. ASSUME NEW t \in Threads, AssertHandler(t)
          PROVE  PortInv'
      BY <2>5 DEF AssertHandler
    <2>6. ASSUME NEW t \in Threads, LockMux(t)
          PROVE  PortInv'
      BY <2>6 DEF LockMux, PortIsFree
    <2>7. ASSUME NEW t \in Threads, SendCommand(t)
          PROVE  PortInv'
      BY <2>7 DEF SendCommand
    <2>8. ASSUME NEW t \in Threads, SendFails(t)
          PROVE  PortInv'
      BY <2>8 DEF SendFails, LeaveExchange
    <2>9. ASSUME NEW t \in Threads, ReadLine(t)
          PROVE  PortInv'
      BY <2>9 DEF ReadLine
    <2>10. ASSUME NEW t \in Threads, FinishExchange(t)
          PROVE  PortInv'
      BY <2>10 DEF FinishExchange, LeaveExchange
    <2>11. ASSUME NEW t \in Threads, Timeout(t)
          PROVE  PortInv'
      BY <2>11 DEF Timeout, LeaveExchange
    <2>12. ASSUME NEW t \in Threads, UseDeadHandler(t)
          PROVE  PortInv'
      BY <2>12 DEF UseDeadHandler
    <2>13. ASSUME NEW t \in Threads, AcceptResponse(t)
          PROVE  PortInv'
      BY <2>13 DEF AcceptResponse
    <2>14. ASSUME NEW t \in Threads, RejectResponse(t)
          PROVE  PortInv'
      BY <2>14 DEF RejectResponse
    <2>15. ASSUME NEW t \in Threads, ReturnFromTransfer(t)
          PROVE  PortInv'
      BY <2>15 DEF ReturnFromTransfer, GoIdle
    <2>16. ASSUME NEW t \in Threads, SetException(t)
          PROVE  PortInv'
      BY <2>16 DEF SetException, GoIdle
    <2>17. ASSUME NEW t \in Threads, OpenHandler(t)
          PROVE  PortInv'
      BY <2>17 DEF OpenHandler
    <2>18. ASSUME NEW t \in Threads, LookupRecoveryRegister(t)
          PROVE  PortInv'
      BY <2>18 DEF LookupRecoveryRegister, EnterAssignment
    <2>19. ASSUME NEW t \in Threads, LookupFails(t)
          PROVE  PortInv'
      BY <2>19 DEF LookupFails, GoIdle
    <2>20. ASSUME NEW t \in Threads, FinishOpen(t)
          PROVE  PortInv'
      BY <2>20 DEF FinishOpen, GoIdle
    <2>21. ASSUME NEW t \in Threads, CloseHandler(t)
          PROVE  PortInv'
      BY <2>21 DEF CloseHandler
    <2>22. ASSUME NEW t \in Threads, FinishClose(t)
          PROVE  PortInv'
      BY <2>22 DEF FinishClose, GoIdle
    <2>23. CASE Respond
      BY <2>23 DEF Respond
    <2>24. CASE LoseLine
      BY <2>24 DEF LoseLine
    <2>25. CASE UNCHANGED vars
      BY <2>25 DEF vars
    <2> QED
      BY <2>1, <2>2, <2>3, <2>4, <2>5, <2>6, <2>7, <2>8, <2>9, <2>10, <2>11, <2>12, <2>13, <2>14, <2>15, <2>16, <2>17, <2>18, <2>19, <2>20, <2>21, <2>22, <2>23, <2>24, <2>25
      DEF Next, Start, Proceed, ProcessEnded
  <1>3. PortInv => PortExclusive
    BY DEF PortInv, PortExclusive
  <1> QED
    BY <1>1, <1>2, <1>3, TypeCorrect, PTL DEF Spec

-----------------------------------------------------------------------------
(* The register to recover from *)

\* With a readable default recovery register in the map file, open() always has
\* a readable register to test, unless two threads assigned it at once.
THEOREM RecoveryRegister_Readable ==
  ASSUME DefaultRecoveryRegister \in Readable
  PROVE  Spec => []RecoveryRegisterReadable
  <1>1. Init => RecoveryRegisterReadable
    BY DEF Init, RecoveryRegisterReadable
  <1>2. RecoveryRegisterReadable /\ [Next]_vars => RecoveryRegisterReadable'
    <2> SUFFICES ASSUME RecoveryRegisterReadable, [Next]_vars
                 PROVE  RecoveryRegisterReadable'
      OBVIOUS
    <2> USE DEF RecoveryRegisterReadable, stateVars
    <2>1. ASSUME NEW t \in Threads, NEW r \in Registers, PreRead(t, r)
          PROVE  RecoveryRegisterReadable'
      BY <2>1 DEF PreRead, EnterAssignment
    <2>2. ASSUME NEW t \in Threads, NEW r \in Registers, PreWrite(t, r)
          PROVE  RecoveryRegisterReadable'
      BY <2>2 DEF PreWrite, EnterAssignment
    <2>3. ASSUME NEW t \in Threads, AssignLastWritten(t)
          PROVE  RecoveryRegisterReadable'
      BY <2>3 DEF AssignLastWritten, RecoveryRegister
    <2>4. ASSUME NEW t \in Threads, CheckFunctional(t)
          PROVE  RecoveryRegisterReadable'
      BY <2>4 DEF CheckFunctional
    <2>5. ASSUME NEW t \in Threads, AssertHandler(t)
          PROVE  RecoveryRegisterReadable'
      BY <2>5 DEF AssertHandler
    <2>6. ASSUME NEW t \in Threads, LockMux(t)
          PROVE  RecoveryRegisterReadable'
      BY <2>6 DEF LockMux
    <2>7. ASSUME NEW t \in Threads, SendCommand(t)
          PROVE  RecoveryRegisterReadable'
      BY <2>7 DEF SendCommand
    <2>8. ASSUME NEW t \in Threads, SendFails(t)
          PROVE  RecoveryRegisterReadable'
      BY <2>8 DEF SendFails
    <2>9. ASSUME NEW t \in Threads, ReadLine(t)
          PROVE  RecoveryRegisterReadable'
      BY <2>9 DEF ReadLine
    <2>10. ASSUME NEW t \in Threads, FinishExchange(t)
          PROVE  RecoveryRegisterReadable'
      BY <2>10 DEF FinishExchange
    <2>11. ASSUME NEW t \in Threads, Timeout(t)
          PROVE  RecoveryRegisterReadable'
      BY <2>11 DEF Timeout
    <2>12. ASSUME NEW t \in Threads, UseDeadHandler(t)
          PROVE  RecoveryRegisterReadable'
      BY <2>12 DEF UseDeadHandler
    <2>13. ASSUME NEW t \in Threads, AcceptResponse(t)
          PROVE  RecoveryRegisterReadable'
      BY <2>13 DEF AcceptResponse
    <2>14. ASSUME NEW t \in Threads, RejectResponse(t)
          PROVE  RecoveryRegisterReadable'
      BY <2>14 DEF RejectResponse
    <2>15. ASSUME NEW t \in Threads, ReturnFromTransfer(t)
          PROVE  RecoveryRegisterReadable'
      BY <2>15 DEF ReturnFromTransfer
    <2>16. ASSUME NEW t \in Threads, SetException(t)
          PROVE  RecoveryRegisterReadable'
      BY <2>16 DEF SetException
    <2>17. ASSUME NEW t \in Threads, OpenHandler(t)
          PROVE  RecoveryRegisterReadable'
      BY <2>17 DEF OpenHandler
    <2>18. ASSUME NEW t \in Threads, LookupRecoveryRegister(t)
          PROVE  RecoveryRegisterReadable'
      BY <2>18 DEF LookupRecoveryRegister, EnterAssignment
    <2>19. ASSUME NEW t \in Threads, LookupFails(t)
          PROVE  RecoveryRegisterReadable'
      BY <2>19 DEF LookupFails
    <2>20. ASSUME NEW t \in Threads, FinishOpen(t)
          PROVE  RecoveryRegisterReadable'
      BY <2>20 DEF FinishOpen
    <2>21. ASSUME NEW t \in Threads, CloseHandler(t)
          PROVE  RecoveryRegisterReadable'
      BY <2>21 DEF CloseHandler
    <2>22. ASSUME NEW t \in Threads, FinishClose(t)
          PROVE  RecoveryRegisterReadable'
      BY <2>22 DEF FinishClose
    <2>23. CASE Respond
      BY <2>23 DEF Respond
    <2>24. CASE LoseLine
      BY <2>24 DEF LoseLine
    <2>25. CASE UNCHANGED vars
      BY <2>25 DEF vars
    <2> QED
      BY <2>1, <2>2, <2>3, <2>4, <2>5, <2>6, <2>7, <2>8, <2>9, <2>10, <2>11, <2>12, <2>13, <2>14, <2>15, <2>16, <2>17, <2>18, <2>19, <2>20, <2>21, <2>22, <2>23, <2>24, <2>25
      DEF Next, Start, Proceed, ProcessEnded
  <1> QED
    BY <1>1, <1>2, PTL DEF Spec

-----------------------------------------------------------------------------
(* The command handler outlives its users *)

\* Why the handler is there when it is used: open and close run alone, an opened
\* backend that is not being closed has a handler, and so has every transfer
\* that passed isFunctional and every open().
HandlerInv ==
  /\ aborted # "handler"
  /\ dangling = {}
  /\ opened => commandHandler \/ \E t \in Threads : op[t] = "close"
  /\ \A t \in Threads :
       /\ op[t] = "none" => pc[t] = "idle"
       /\ op[t] = "close" => pc[t] = "closing"
       /\ op[t] = "open" => commandHandler
       /\ pc[t] \in {"assert", "lock", "send", "reading"} => commandHandler
  /\ \A t, u \in Threads : op[t] \in Lifecycle /\ op[u] # "none" => t = u

\* If the application keeps open and close apart from transfers, a handler that
\* a thread needs is there and is not replaced before the thread has left it.
THEOREM HandlerInvariant ==
  ASSUME ExclusiveLifecycle
  PROVE  Spec => []HandlerInv
  <1>1. Init => HandlerInv
    BY DEF Init, HandlerInv, Lifecycle
  <1>2. TypeOK /\ HandlerInv /\ [Next]_vars => HandlerInv'
    <2> SUFFICES ASSUME TypeOK, HandlerInv, [Next]_vars
                 PROVE  HandlerInv'
      OBVIOUS
    <2> USE DEF TypeOK, HandlerInv, Goto, stateVars, portVars, Lifecycle, MayTransfer, MayChangeLifecycle
    <2>1. ASSUME NEW t \in Threads, NEW r \in Registers, PreRead(t, r)
          PROVE  HandlerInv'
      BY <2>1 DEF PreRead, EnterAssignment
    <2>2. ASSUME NEW t \in Threads, NEW r \in Registers, PreWrite(t, r)
          PROVE  HandlerInv'
      BY <2>2 DEF PreWrite, EnterAssignment
    <2>3. ASSUME NEW t \in Threads, AssignLastWritten(t)
          PROVE  HandlerInv'
      BY <2>3 DEF AssignLastWritten
    <2>4. ASSUME NEW t \in Threads, CheckFunctional(t)
          PROVE  HandlerInv'
      BY <2>4 DEF CheckFunctional, isFunctional
    <2>5. ASSUME NEW t \in Threads, AssertHandler(t)
          PROVE  HandlerInv'
      BY <2>5 DEF AssertHandler
    <2>6. ASSUME NEW t \in Threads, LockMux(t)
          PROVE  HandlerInv'
      BY <2>6 DEF LockMux, PortIsFree
    <2>7. ASSUME NEW t \in Threads, SendCommand(t)
          PROVE  HandlerInv'
      BY <2>7 DEF SendCommand
    <2>8. ASSUME NEW t \in Threads, SendFails(t)
          PROVE  HandlerInv'
      BY <2>8 DEF SendFails, LeaveExchange
    <2>9. ASSUME NEW t \in Threads, ReadLine(t)
          PROVE  HandlerInv'
      BY <2>9 DEF ReadLine
    <2>10. ASSUME NEW t \in Threads, FinishExchange(t)
          PROVE  HandlerInv'
      BY <2>10 DEF FinishExchange, LeaveExchange
    <2>11. ASSUME NEW t \in Threads, Timeout(t)
          PROVE  HandlerInv'
      BY <2>11 DEF Timeout, LeaveExchange
    <2>12. ASSUME NEW t \in Threads, UseDeadHandler(t)
          PROVE  HandlerInv'
      BY <2>12 DEF UseDeadHandler
    <2>13. ASSUME NEW t \in Threads, AcceptResponse(t)
          PROVE  HandlerInv'
      BY <2>13 DEF AcceptResponse
    <2>14. ASSUME NEW t \in Threads, RejectResponse(t)
          PROVE  HandlerInv'
      BY <2>14 DEF RejectResponse
    <2>15. ASSUME NEW t \in Threads, ReturnFromTransfer(t)
          PROVE  HandlerInv'
      BY <2>15 DEF ReturnFromTransfer, GoIdle
    <2>16. ASSUME NEW t \in Threads, SetException(t)
          PROVE  HandlerInv'
      BY <2>16 DEF SetException, GoIdle
    <2>17. ASSUME NEW t \in Threads, OpenHandler(t)
          PROVE  HandlerInv'
      BY <2>17 DEF OpenHandler, DestroyHandler
    <2>18. ASSUME NEW t \in Threads, LookupRecoveryRegister(t)
          PROVE  HandlerInv'
      BY <2>18 DEF LookupRecoveryRegister, EnterAssignment
    <2>19. ASSUME NEW t \in Threads, LookupFails(t)
          PROVE  HandlerInv'
      BY <2>19 DEF LookupFails, GoIdle
    <2>20. ASSUME NEW t \in Threads, FinishOpen(t)
          PROVE  HandlerInv'
      BY <2>20 DEF FinishOpen, GoIdle
    <2>21. ASSUME NEW t \in Threads, CloseHandler(t)
          PROVE  HandlerInv'
      BY <2>21 DEF CloseHandler, DestroyHandler
    <2>22. ASSUME NEW t \in Threads, FinishClose(t)
          PROVE  HandlerInv'
      BY <2>22 DEF FinishClose, GoIdle
    <2>23. CASE Respond
      BY <2>23 DEF Respond
    <2>24. CASE LoseLine
      BY <2>24 DEF LoseLine
    <2>25. CASE UNCHANGED vars
      BY <2>25 DEF vars
    <2> QED
      BY <2>1, <2>2, <2>3, <2>4, <2>5, <2>6, <2>7, <2>8, <2>9, <2>10, <2>11, <2>12, <2>13, <2>14, <2>15, <2>16, <2>17, <2>18, <2>19, <2>20, <2>21, <2>22, <2>23, <2>24, <2>25
      DEF Next, Start, Proceed, ProcessEnded
  <1> QED
    BY <1>1, <1>2, TypeCorrect, PTL DEF Spec

\* If the application keeps open and close apart from transfers, then for any
\* number of threads assert(_commandHandler) never fires and no transfer uses a
\* handler that was replaced or reset.
THEOREM HandlerSafety ==
  ASSUME ExclusiveLifecycle
  PROVE  Spec => []HandlerAlive
  <1>1. HandlerInv => HandlerAlive
    BY DEF HandlerInv, HandlerAlive
  <1> QED
    BY <1>1, HandlerInvariant, PTL

-----------------------------------------------------------------------------
(* Recovery *)

\* open() tests a register that can be read, and when the test has been answered
\* it has the answer.
RecoveryTestInv ==
  \A t \in Threads : op[t] = "open" =>
    /\ pc[t] \in InTransfer => reg[t] \in Readable
    /\ pc[t] \in {"received", "done"} => received[t] # <<>>

\* The command of the test is answered by at least one line.
LEMMA TestIsAnswered ==
  ASSUME TypeOK, NEW t \in Threads, op[t] = "open", reg[t] \in Readable,
         \A r \in Readable : ReadLines[r] > 0,
         Len(received[t]) >= LinesToRead(t)
  PROVE  received[t] # <<>>
  <1>1. LinesToRead(t) = ReadLines[reg[t]]
    BY DEF LinesToRead
  <1>2. LinesToRead(t) \in Nat /\ LinesToRead(t) > 0
    BY <1>1, CatalogueAssumption
  <1>3. Len(received[t]) > 0
    BY <1>2 DEF TypeOK
  <1> QED
    BY <1>3

\* Where every readable register's command is answered by at least one line, the
\* test of open() does not succeed without an answer.
THEOREM RecoveryTestInvariant ==
  ASSUME \A r \in Readable : ReadLines[r] > 0
  PROVE  Spec => []RecoveryTestInv
  <1>1. Init => RecoveryTestInv
    BY DEF Init, RecoveryTestInv
  <1>2. TypeOK /\ RecoveryTestInv /\ [Next]_vars => RecoveryTestInv'
    <2> SUFFICES ASSUME TypeOK, RecoveryTestInv, [Next]_vars
                 PROVE  RecoveryTestInv'
      OBVIOUS
    <2> USE DEF TypeOK, RecoveryTestInv, InTransfer, Goto, stateVars, portVars
    <2>1. ASSUME NEW t \in Threads, NEW r \in Registers, PreRead(t, r)
          PROVE  RecoveryTestInv'
      BY <2>1 DEF PreRead, EnterAssignment
    <2>2. ASSUME NEW t \in Threads, NEW r \in Registers, PreWrite(t, r)
          PROVE  RecoveryTestInv'
      BY <2>2 DEF PreWrite, EnterAssignment
    <2>3. ASSUME NEW t \in Threads, AssignLastWritten(t)
          PROVE  RecoveryTestInv'
      BY <2>3 DEF AssignLastWritten
    <2>4. ASSUME NEW t \in Threads, CheckFunctional(t)
          PROVE  RecoveryTestInv'
      BY <2>4 DEF CheckFunctional
    <2>5. ASSUME NEW t \in Threads, AssertHandler(t)
          PROVE  RecoveryTestInv'
      BY <2>5 DEF AssertHandler
    <2>6. ASSUME NEW t \in Threads, LockMux(t)
          PROVE  RecoveryTestInv'
      BY <2>6 DEF LockMux, PortIsFree
    <2>7. ASSUME NEW t \in Threads, SendCommand(t)
          PROVE  RecoveryTestInv'
      BY <2>7 DEF SendCommand
    <2>8. ASSUME NEW t \in Threads, SendFails(t)
          PROVE  RecoveryTestInv'
      BY <2>8 DEF SendFails, LeaveExchange
    <2>9. ASSUME NEW t \in Threads, ReadLine(t)
          PROVE  RecoveryTestInv'
      BY <2>9 DEF ReadLine
    <2>10. ASSUME NEW t \in Threads, FinishExchange(t)
          PROVE  RecoveryTestInv'
      <3>1. op[t] = "open" => received[t] # <<>>
        BY <2>10, TestIsAnswered DEF FinishExchange
      <3> QED
        BY <2>10, <3>1 DEF FinishExchange, LeaveExchange
    <2>11. ASSUME NEW t \in Threads, Timeout(t)
          PROVE  RecoveryTestInv'
      BY <2>11 DEF Timeout, LeaveExchange
    <2>12. ASSUME NEW t \in Threads, UseDeadHandler(t)
          PROVE  RecoveryTestInv'
      BY <2>12 DEF UseDeadHandler
    <2>13. ASSUME NEW t \in Threads, AcceptResponse(t)
          PROVE  RecoveryTestInv'
      BY <2>13 DEF AcceptResponse
    <2>14. ASSUME NEW t \in Threads, RejectResponse(t)
          PROVE  RecoveryTestInv'
      BY <2>14 DEF RejectResponse
    <2>15. ASSUME NEW t \in Threads, ReturnFromTransfer(t)
          PROVE  RecoveryTestInv'
      BY <2>15 DEF ReturnFromTransfer, GoIdle
    <2>16. ASSUME NEW t \in Threads, SetException(t)
          PROVE  RecoveryTestInv'
      BY <2>16 DEF SetException, GoIdle
    <2>17. ASSUME NEW t \in Threads, OpenHandler(t)
          PROVE  RecoveryTestInv'
      BY <2>17 DEF OpenHandler, DestroyHandler
    <2>18. ASSUME NEW t \in Threads, LookupRecoveryRegister(t)
          PROVE  RecoveryTestInv'
      BY <2>18 DEF LookupRecoveryRegister, EnterAssignment, CanRecoverFrom
    <2>19. ASSUME NEW t \in Threads, LookupFails(t)
          PROVE  RecoveryTestInv'
      BY <2>19 DEF LookupFails, GoIdle
    <2>20. ASSUME NEW t \in Threads, FinishOpen(t)
          PROVE  RecoveryTestInv'
      BY <2>20 DEF FinishOpen, GoIdle
    <2>21. ASSUME NEW t \in Threads, CloseHandler(t)
          PROVE  RecoveryTestInv'
      BY <2>21 DEF CloseHandler, DestroyHandler
    <2>22. ASSUME NEW t \in Threads, FinishClose(t)
          PROVE  RecoveryTestInv'
      BY <2>22 DEF FinishClose, GoIdle
    <2>23. CASE Respond
      BY <2>23 DEF Respond
    <2>24. CASE LoseLine
      BY <2>24 DEF LoseLine
    <2>25. CASE UNCHANGED vars
      BY <2>25 DEF vars
    <2> QED
      BY <2>1, <2>2, <2>3, <2>4, <2>5, <2>6, <2>7, <2>8, <2>9, <2>10, <2>11, <2>12, <2>13, <2>14, <2>15, <2>16, <2>17, <2>18, <2>19, <2>20, <2>21, <2>22, <2>23, <2>24, <2>25
      DEF Next, Start, Proceed, ProcessEnded
  <1> QED
    BY <1>1, <1>2, TypeCorrect, PTL DEF Spec

\* If the application keeps open and close apart from transfers, and every read
\* command is answered, a failed or closed device becomes functional only
\* through an open() whose test read was answered over a live handler, when no
\* other thread has a failure to report.
THEOREM RecoveryOnlyThroughOpen ==
  ASSUME ExclusiveLifecycle, \A r \in Readable : ReadLines[r] > 0
  PROVE  Spec => FunctionalOnlyThroughOpen
  <1> DEFINE Tested ==
        ~isFunctional /\ isFunctional' =>
          /\ \E t \in Threads : /\ op[t] = "open"
                                /\ pc[t] = "done"
                                /\ received[t] # <<>>
          /\ commandHandler
          /\ \A t \in Threads : pc[t] # "failed"
  <1>1. TypeOK /\ HandlerInv /\ RecoveryTestInv /\ [Next]_vars => [Tested]_vars
    <2> SUFFICES ASSUME TypeOK, HandlerInv, RecoveryTestInv, [Next]_vars,
                        ~isFunctional, isFunctional'
                 PROVE  Tested
      OBVIOUS
    <2>1. PICK t \in Threads : FinishOpen(t)
      <3> USE DEF isFunctional, stateVars, portVars
      <3>1. ASSUME NEW t \in Threads, NEW r \in Registers, PreRead(t, r)
            PROVE  \E u \in Threads : FinishOpen(u)
        BY <3>1 DEF PreRead, EnterAssignment
      <3>2. ASSUME NEW t \in Threads, NEW r \in Registers, PreWrite(t, r)
            PROVE  \E u \in Threads : FinishOpen(u)
        BY <3>2 DEF PreWrite, EnterAssignment
      <3>3. ASSUME NEW t \in Threads, AssignLastWritten(t)
            PROVE  \E u \in Threads : FinishOpen(u)
        BY <3>3 DEF AssignLastWritten
      <3>4. ASSUME NEW t \in Threads, CheckFunctional(t)
            PROVE  \E u \in Threads : FinishOpen(u)
        BY <3>4 DEF CheckFunctional
      <3>5. ASSUME NEW t \in Threads, AssertHandler(t)
            PROVE  \E u \in Threads : FinishOpen(u)
        BY <3>5 DEF AssertHandler
      <3>6. ASSUME NEW t \in Threads, LockMux(t)
            PROVE  \E u \in Threads : FinishOpen(u)
        BY <3>6 DEF LockMux, PortIsFree
      <3>7. ASSUME NEW t \in Threads, SendCommand(t)
            PROVE  \E u \in Threads : FinishOpen(u)
        BY <3>7 DEF SendCommand
      <3>8. ASSUME NEW t \in Threads, SendFails(t)
            PROVE  \E u \in Threads : FinishOpen(u)
        BY <3>8 DEF SendFails, LeaveExchange
      <3>9. ASSUME NEW t \in Threads, ReadLine(t)
            PROVE  \E u \in Threads : FinishOpen(u)
        BY <3>9 DEF ReadLine
      <3>10. ASSUME NEW t \in Threads, FinishExchange(t)
            PROVE  \E u \in Threads : FinishOpen(u)
        BY <3>10 DEF FinishExchange, LeaveExchange
      <3>11. ASSUME NEW t \in Threads, Timeout(t)
            PROVE  \E u \in Threads : FinishOpen(u)
        BY <3>11 DEF Timeout, LeaveExchange
      <3>12. ASSUME NEW t \in Threads, UseDeadHandler(t)
            PROVE  \E u \in Threads : FinishOpen(u)
        BY <3>12 DEF UseDeadHandler
      <3>13. ASSUME NEW t \in Threads, AcceptResponse(t)
            PROVE  \E u \in Threads : FinishOpen(u)
        BY <3>13 DEF AcceptResponse
      <3>14. ASSUME NEW t \in Threads, RejectResponse(t)
            PROVE  \E u \in Threads : FinishOpen(u)
        BY <3>14 DEF RejectResponse
      <3>15. ASSUME NEW t \in Threads, ReturnFromTransfer(t)
            PROVE  \E u \in Threads : FinishOpen(u)
        BY <3>15 DEF ReturnFromTransfer, GoIdle
      <3>16. ASSUME NEW t \in Threads, SetException(t)
            PROVE  \E u \in Threads : FinishOpen(u)
        BY <3>16 DEF SetException, GoIdle
      <3>17. ASSUME NEW t \in Threads, OpenHandler(t)
            PROVE  \E u \in Threads : FinishOpen(u)
        BY <3>17 DEF OpenHandler, DestroyHandler
      <3>18. ASSUME NEW t \in Threads, LookupRecoveryRegister(t)
            PROVE  \E u \in Threads : FinishOpen(u)
        BY <3>18 DEF LookupRecoveryRegister, EnterAssignment
      <3>19. ASSUME NEW t \in Threads, LookupFails(t)
            PROVE  \E u \in Threads : FinishOpen(u)
        BY <3>19 DEF LookupFails, GoIdle
      <3>20. ASSUME NEW t \in Threads, FinishOpen(t)
            PROVE  \E u \in Threads : FinishOpen(u)
              BY <3>20
      <3>21. ASSUME NEW t \in Threads, CloseHandler(t)
            PROVE  \E u \in Threads : FinishOpen(u)
        BY <3>21 DEF CloseHandler, DestroyHandler
      <3>22. ASSUME NEW t \in Threads, FinishClose(t)
            PROVE  \E u \in Threads : FinishOpen(u)
        BY <3>22 DEF FinishClose, GoIdle
      <3>23. CASE Respond
        BY <3>23 DEF Respond
      <3>24. CASE LoseLine
        BY <3>24 DEF LoseLine
      <3>25. CASE UNCHANGED vars
        BY <3>25 DEF vars
      <3> QED
        BY <3>1, <3>2, <3>3, <3>4, <3>5, <3>6, <3>7, <3>8, <3>9, <3>10, <3>11, <3>12, <3>13, <3>14, <3>15, <3>16, <3>17, <3>18, <3>19, <3>20, <3>21, <3>22, <3>23, <3>24, <3>25
        DEF Next, Start, Proceed, ProcessEnded
    <2>2. op[t] = "open" /\ pc[t] = "done" /\ received[t] # <<>>
      BY <2>1 DEF FinishOpen, RecoveryTestInv
    <2>3. commandHandler
      BY <2>2 DEF HandlerInv
    <2>4. \A u \in Threads : pc[u] # "failed"
      <3>1. \A u \in Threads : u # t => op[u] = "none"
        BY <2>2 DEF HandlerInv, Lifecycle
      <3> QED
        BY <2>2, <3>1 DEF HandlerInv
    <2> QED
      BY <2>2, <2>3, <2>4
  <1> QED
    BY <1>1, TypeCorrect, HandlerInvariant, RecoveryTestInvariant, PTL DEF Spec, FunctionalOnlyThroughOpen

-----------------------------------------------------------------------------
(***************************************************************************)
(* Whose lines are on the way: with a device that answers in time or not   *)
(* at all, every line belongs to the thread that holds the port mutex, and *)
(* no more lines than it will read.  This holds for any number of threads, *)
(* both transports, and open and close at any moment.                      *)
(***************************************************************************)

\* The lines on their way answer the command of the holder of the mutex.
LineInv ==
  /\ \A i \in DOMAIN device : device[i] = mux
  /\ \A i \in DOMAIN rx : rx[i] = mux

\* The holder of the mutex is the thread that sends or reads.
HolderInv == \A t \in Threads : mux = t <=> pc[t] \in {"send", "reading"}

\* A thread has results only from the exchange on to the end of the transfer.
PositionInv ==
  \A t \in Threads :
    /\ op[t] = "none" => pc[t] = "idle"
    /\ pc[t] \in Steps \ {"reading", "received", "done", "failed"} => received[t] = <<>>

\* Nothing is on its way before a command is sent, and afterwards no more than
\* its sender will read.
ExchangeInv ==
  /\ mux = NoThread => device = <<>> /\ rx = <<>>
  /\ \A t \in Threads :
       /\ pc[t] = "send" => device = <<>> /\ rx = <<>>
       /\ pc[t] = "reading" =>
            Len(received[t]) + Len(rx) + Len(device) <= LinesToRead(t)

\* Every result consists of lines that answer the thread's own command.
ReceivedInv ==
  \A t \in Threads : \A i \in DOMAIN received[t] :
    /\ received[t][i] # <<>>
    /\ \A j \in DOMAIN received[t][i] : received[t][i][j] = t

OwnInv == LineInv /\ HolderInv /\ PositionInv /\ ExchangeInv /\ ReceivedInv

\* The thread whose turn it is reads as many lines as its command is answered by.
LEMMA LinesToReadNat ==
  ASSUME TypeOK, NEW t \in Threads, pc[t] \in InTransfer
  PROVE  LinesToRead(t) \in Nat /\ ResponseLines(t) = LinesToRead(t)
  BY CatalogueAssumption DEF TypeOK, LinesToRead, ResponseLines, InTransfer

\* Where all lines answer t's command and none of them does, there is no line.
LEMMA NoLineLeft ==
  ASSUME NEW t, NEW s \in Seq(Line), \A i \in DOMAIN s : s[i] = t, t \notin ToSet(s)
  PROVE  s = <<>>
  BY DEF ToSet

\* Where all lines answer x's command, so do the first n and the others.
LEMMA SplitLines ==
  ASSUME NEW S, NEW x, NEW s \in Seq(S), NEW n \in 1..Len(s),
         \A i \in DOMAIN s : s[i] = x
  PROVE  /\ SubSeq(s, 1, n) \in Seq(S)
         /\ SubSeq(s, 1, n) # <<>>
         /\ \A i \in DOMAIN SubSeq(s, 1, n) : SubSeq(s, 1, n)[i] = x
         /\ \A i \in DOMAIN SubSeq(s, n + 1, Len(s)) : SubSeq(s, n + 1, Len(s))[i] = x
  <1>1. SubSeq(s, 1, n) \in Seq(S) /\ Len(SubSeq(s, 1, n)) = n
    OBVIOUS
  <1>2. SubSeq(s, n + 1, Len(s)) \in Seq(S) /\ Len(SubSeq(s, n + 1, Len(s))) = Len(s) - n
    OBVIOUS
  <1>3. \A i \in 1..n : SubSeq(s, 1, n)[i] = s[i]
    OBVIOUS
  <1>4. \A i \in 1..(Len(s) - n) : SubSeq(s, n + 1, Len(s))[i] = s[n + i]
    OBVIOUS
  <1> QED
    BY <1>1, <1>2, <1>3, <1>4

\* The mutex is given to the thread that is about to send and taken back when it
\* leaves the exchange.
LEMMA HolderStep ==
  ASSUME TypeOK, HolderInv, PositionInv, [Next]_vars
  PROVE  HolderInv'
  <1> USE ThreadsAssumption DEF TypeOK, HolderInv, PositionInv, Goto, stateVars, portVars
  <1>1. ASSUME NEW t \in Threads, NEW r \in Registers, PreRead(t, r)
        PROVE  HolderInv'
    BY <1>1 DEF PreRead, EnterAssignment
  <1>2. ASSUME NEW t \in Threads, NEW r \in Registers, PreWrite(t, r)
        PROVE  HolderInv'
    BY <1>2 DEF PreWrite, EnterAssignment
  <1>3. ASSUME NEW t \in Threads, AssignLastWritten(t)
        PROVE  HolderInv'
    BY <1>3 DEF AssignLastWritten
  <1>4. ASSUME NEW t \in Threads, CheckFunctional(t)
        PROVE  HolderInv'
    BY <1>4 DEF CheckFunctional
  <1>5. ASSUME NEW t \in Threads, AssertHandler(t)
        PROVE  HolderInv'
    BY <1>5 DEF AssertHandler
  <1>6. ASSUME NEW t \in Threads, LockMux(t)
        PROVE  HolderInv'
    BY <1>6 DEF LockMux, PortIsFree
  <1>7. ASSUME NEW t \in Threads, SendCommand(t)
        PROVE  HolderInv'
    BY <1>7 DEF SendCommand
  <1>8. ASSUME NEW t \in Threads, SendFails(t)
        PROVE  HolderInv'
    BY <1>8 DEF SendFails, LeaveExchange
  <1>9. ASSUME NEW t \in Threads, ReadLine(t)
        PROVE  HolderInv'
    BY <1>9 DEF ReadLine
  <1>10. ASSUME NEW t \in Threads, FinishExchange(t)
        PROVE  HolderInv'
    BY <1>10 DEF FinishExchange, LeaveExchange
  <1>11. ASSUME NEW t \in Threads, Timeout(t)
        PROVE  HolderInv'
    BY <1>11 DEF Timeout, LeaveExchange
  <1>12. ASSUME NEW t \in Threads, UseDeadHandler(t)
        PROVE  HolderInv'
    BY <1>12 DEF UseDeadHandler
  <1>13. ASSUME NEW t \in Threads, AcceptResponse(t)
        PROVE  HolderInv'
    BY <1>13 DEF AcceptResponse
  <1>14. ASSUME NEW t \in Threads, RejectResponse(t)
        PROVE  HolderInv'
    BY <1>14 DEF RejectResponse
  <1>15. ASSUME NEW t \in Threads, ReturnFromTransfer(t)
        PROVE  HolderInv'
    BY <1>15 DEF ReturnFromTransfer, GoIdle
  <1>16. ASSUME NEW t \in Threads, SetException(t)
        PROVE  HolderInv'
    BY <1>16 DEF SetException, GoIdle
  <1>17. ASSUME NEW t \in Threads, OpenHandler(t)
        PROVE  HolderInv'
    BY <1>17 DEF OpenHandler
  <1>18. ASSUME NEW t \in Threads, LookupRecoveryRegister(t)
        PROVE  HolderInv'
    BY <1>18 DEF LookupRecoveryRegister, EnterAssignment
  <1>19. ASSUME NEW t \in Threads, LookupFails(t)
        PROVE  HolderInv'
    BY <1>19 DEF LookupFails, GoIdle
  <1>20. ASSUME NEW t \in Threads, FinishOpen(t)
        PROVE  HolderInv'
    BY <1>20 DEF FinishOpen, GoIdle
  <1>21. ASSUME NEW t \in Threads, CloseHandler(t)
        PROVE  HolderInv'
    BY <1>21 DEF CloseHandler
  <1>22. ASSUME NEW t \in Threads, FinishClose(t)
        PROVE  HolderInv'
    BY <1>22 DEF FinishClose, GoIdle
  <1>23. CASE Respond
    BY <1>23 DEF Respond
  <1>24. CASE LoseLine
    BY <1>24 DEF LoseLine
  <1>25. CASE UNCHANGED vars
    BY <1>25 DEF vars
  <1> QED
    BY <1>1, <1>2, <1>3, <1>4, <1>5, <1>6, <1>7, <1>8, <1>9, <1>10, <1>11, <1>12, <1>13, <1>14, <1>15, <1>16, <1>17, <1>18, <1>19, <1>20, <1>21, <1>22, <1>23, <1>24, <1>25
    DEF Next, Start, Proceed, ProcessEnded

\* Results are cleared before a thread begins another exchange.
LEMMA PositionStep ==
  ASSUME TypeOK, PositionInv, [Next]_vars
  PROVE  PositionInv'
  <1> USE DEF TypeOK, PositionInv, Goto, Steps, stateVars, portVars
  <1>1. ASSUME NEW t \in Threads, NEW r \in Registers, PreRead(t, r)
        PROVE  PositionInv'
    BY <1>1 DEF PreRead, EnterAssignment
  <1>2. ASSUME NEW t \in Threads, NEW r \in Registers, PreWrite(t, r)
        PROVE  PositionInv'
    BY <1>2 DEF PreWrite, EnterAssignment
  <1>3. ASSUME NEW t \in Threads, AssignLastWritten(t)
        PROVE  PositionInv'
    BY <1>3 DEF AssignLastWritten
  <1>4. ASSUME NEW t \in Threads, CheckFunctional(t)
        PROVE  PositionInv'
    BY <1>4 DEF CheckFunctional
  <1>5. ASSUME NEW t \in Threads, AssertHandler(t)
        PROVE  PositionInv'
    BY <1>5 DEF AssertHandler
  <1>6. ASSUME NEW t \in Threads, LockMux(t)
        PROVE  PositionInv'
    BY <1>6 DEF LockMux, PortIsFree
  <1>7. ASSUME NEW t \in Threads, SendCommand(t)
        PROVE  PositionInv'
    BY <1>7 DEF SendCommand
  <1>8. ASSUME NEW t \in Threads, SendFails(t)
        PROVE  PositionInv'
    BY <1>8 DEF SendFails, LeaveExchange
  <1>9. ASSUME NEW t \in Threads, ReadLine(t)
        PROVE  PositionInv'
    BY <1>9 DEF ReadLine
  <1>10. ASSUME NEW t \in Threads, FinishExchange(t)
        PROVE  PositionInv'
    BY <1>10 DEF FinishExchange, LeaveExchange
  <1>11. ASSUME NEW t \in Threads, Timeout(t)
        PROVE  PositionInv'
    BY <1>11 DEF Timeout, LeaveExchange
  <1>12. ASSUME NEW t \in Threads, UseDeadHandler(t)
        PROVE  PositionInv'
    BY <1>12 DEF UseDeadHandler
  <1>13. ASSUME NEW t \in Threads, AcceptResponse(t)
        PROVE  PositionInv'
    BY <1>13 DEF AcceptResponse
  <1>14. ASSUME NEW t \in Threads, RejectResponse(t)
        PROVE  PositionInv'
    BY <1>14 DEF RejectResponse
  <1>15. ASSUME NEW t \in Threads, ReturnFromTransfer(t)
        PROVE  PositionInv'
    BY <1>15 DEF ReturnFromTransfer, GoIdle
  <1>16. ASSUME NEW t \in Threads, SetException(t)
        PROVE  PositionInv'
    BY <1>16 DEF SetException, GoIdle
  <1>17. ASSUME NEW t \in Threads, OpenHandler(t)
        PROVE  PositionInv'
    BY <1>17 DEF OpenHandler
  <1>18. ASSUME NEW t \in Threads, LookupRecoveryRegister(t)
        PROVE  PositionInv'
    BY <1>18 DEF LookupRecoveryRegister, EnterAssignment
  <1>19. ASSUME NEW t \in Threads, LookupFails(t)
        PROVE  PositionInv'
    BY <1>19 DEF LookupFails, GoIdle
  <1>20. ASSUME NEW t \in Threads, FinishOpen(t)
        PROVE  PositionInv'
    BY <1>20 DEF FinishOpen, GoIdle
  <1>21. ASSUME NEW t \in Threads, CloseHandler(t)
        PROVE  PositionInv'
    BY <1>21 DEF CloseHandler
  <1>22. ASSUME NEW t \in Threads, FinishClose(t)
        PROVE  PositionInv'
    BY <1>22 DEF FinishClose, GoIdle
  <1>23. CASE Respond
    BY <1>23 DEF Respond
  <1>24. CASE LoseLine
    BY <1>24 DEF LoseLine
  <1>25. CASE UNCHANGED vars
    BY <1>25 DEF vars
  <1> QED
    BY <1>1, <1>2, <1>3, <1>4, <1>5, <1>6, <1>7, <1>8, <1>9, <1>10, <1>11, <1>12, <1>13, <1>14, <1>15, <1>16, <1>17, <1>18, <1>19, <1>20, <1>21, <1>22, <1>23, <1>24, <1>25
    DEF Next, Start, Proceed, ProcessEnded

\* Replacing an element of the empty sequence.
LEMMA ReplaceAllEmpty ==
  ASSUME NEW x, NEW y
  PROVE  ReplaceAll(<<>>, x, y) = <<>>
  BY DEF ReplaceAll

\* Lines are sent for the thread that will read them, taken one by one, and none
\* is left when it gives the mutex back: a timeout means that none will come.
LEMMA LinesStep ==
  ASSUME TypeOK, HolderInv, PositionInv, LineInv, ExchangeInv, [Next]_vars, ~LateResponses
  PROVE  (LineInv /\ ExchangeInv)'
  <1> USE ThreadsAssumption DEF TypeOK, HolderInv, PositionInv, LineInv, ExchangeInv, Goto, Steps, stateVars, portVars
  <1>1. ASSUME NEW t \in Threads, NEW r \in Registers, PreRead(t, r)
        PROVE  (LineInv /\ ExchangeInv)'
    BY <1>1 DEF PreRead, EnterAssignment, LinesToRead
  <1>2. ASSUME NEW t \in Threads, NEW r \in Registers, PreWrite(t, r)
        PROVE  (LineInv /\ ExchangeInv)'
    BY <1>2 DEF PreWrite, EnterAssignment, LinesToRead
  <1>3. ASSUME NEW t \in Threads, AssignLastWritten(t)
        PROVE  (LineInv /\ ExchangeInv)'
    BY <1>3 DEF AssignLastWritten, LinesToRead
  <1>4. ASSUME NEW t \in Threads, CheckFunctional(t)
        PROVE  (LineInv /\ ExchangeInv)'
    BY <1>4 DEF CheckFunctional, LinesToRead
  <1>5. ASSUME NEW t \in Threads, AssertHandler(t)
        PROVE  (LineInv /\ ExchangeInv)'
    BY <1>5 DEF AssertHandler, LinesToRead
  <1>6. ASSUME NEW t \in Threads, LockMux(t)
        PROVE  (LineInv /\ ExchangeInv)'
    BY <1>6 DEF LockMux, PortIsFree, LinesToRead
  <1>7. ASSUME NEW t \in Threads, SendCommand(t)
        PROVE  (LineInv /\ ExchangeInv)'
    <2>1. /\ device = <<>> /\ rx = <<>> /\ received[t] = <<>> /\ mux = t
          /\ pc' = [pc EXCEPT ![t] = "reading"]
          /\ device' = device \o [i \in 1..ResponseLines(t) |-> t]
          /\ UNCHANGED <<mux, op, reg, received, rx>>
      BY <1>7 DEF SendCommand
    <2>2. LinesToRead(t) \in Nat /\ ResponseLines(t) = LinesToRead(t)
      BY <1>7, LinesToReadNat DEF SendCommand, InTransfer
    <2> DEFINE n == ResponseLines(t)
               lines == [i \in 1..n |-> t]
    <2>3. lines \in Seq(Line) /\ Len(lines) = n /\ \A i \in DOMAIN lines : lines[i] = t
      <3>1. lines \in [1..n -> Line]
        BY DEF Line
      <3>2. lines \in Seq(Line)
        BY <2>2, <3>1, ConstantSequence
      <3>3. DOMAIN lines = 1..n /\ \A i \in 1..n : lines[i] = t
        OBVIOUS
      <3>4. Len(lines) = n
        BY <2>2, <3>3
      <3> QED
        BY <3>2, <3>3, <3>4
    <2>4. device' = lines
      BY <2>1, <2>3
    <2>5. LineInv'
      BY <2>1, <2>3, <2>4
    <2>6. \A u \in Threads : LinesToRead(u)' = LinesToRead(u)
      BY <2>1 DEF LinesToRead
    <2>7. ExchangeInv'
      <3>1. \A u \in Threads \ {t} : pc'[u] \notin {"send", "reading"}
        BY <2>1
      <3>2. Len(received'[t]) + Len(rx') + Len(device') <= LinesToRead(t)'
        BY <2>1, <2>2, <2>3, <2>4, <2>6
      <3> QED
        BY <2>1, <3>1, <3>2
    <2> QED
      BY <2>5, <2>7
  <1>8. ASSUME NEW t \in Threads, SendFails(t)
        PROVE  (LineInv /\ ExchangeInv)'
    BY <1>8 DEF SendFails, LeaveExchange, LinesToRead
  <1>9. ASSUME NEW t \in Threads, ReadLine(t)
        PROVE  (LineInv /\ ExchangeInv)'
    <2>1. /\ mux = t /\ rx # <<>> /\ pc[t] = "reading"
          /\ UNCHANGED <<mux, pc, op, reg, device>>
      BY <1>9 DEF ReadLine
    <2>2. PICK n \in LinesPerRead :
            /\ received' = [received EXCEPT ![t] = Append(received[t], SubSeq(rx, 1, n))]
            /\ rx' = SubSeq(rx, n + 1, Len(rx))
      BY <1>9 DEF ReadLine
    <2>3. n \in 1..Len(rx)
      BY <2>1, <2>2 DEF LinesPerRead
    <2>4. Len(rx') = Len(rx) - n /\ \A i \in DOMAIN rx' : rx'[i] = rx[n + i]
      BY <2>2, <2>3
    <2>5. Len(received'[t]) = Len(received[t]) + 1
      <3>1. SubSeq(rx, 1, n) \in Seq(Line)
        BY <2>3
      <3> QED
        BY <2>2, <3>1
    <2>6. LineInv'
      BY <2>1, <2>2, <2>3, SplitLines
    <2>7. \A u \in Threads : LinesToRead(u)' = LinesToRead(u)
      BY <2>1 DEF LinesToRead
    <2>8. LinesToRead(t) \in Nat
      BY <2>1, LinesToReadNat DEF InTransfer
    <2>9. Len(received'[t]) + Len(rx') + Len(device') <= LinesToRead(t)'
      <3>1. Len(received[t]) + Len(rx) + Len(device) <= LinesToRead(t)
        BY <2>1
      <3>2. Len(received[t]) \in Nat /\ Len(rx) \in Nat /\ Len(device) \in Nat
        OBVIOUS
      <3> QED
        BY <2>1, <2>3, <2>4, <2>5, <2>7, <2>8, <3>1, <3>2
    <2> QED
      BY <2>1, <2>6, <2>9
  <1>10. ASSUME NEW t \in Threads, FinishExchange(t)
        PROVE  (LineInv /\ ExchangeInv)'
    <2>1. device = <<>> /\ rx = <<>>
      <3>1. /\ Len(received[t]) >= LinesToRead(t)
            /\ Len(received[t]) + Len(rx) + Len(device) <= LinesToRead(t)
        BY <1>10 DEF FinishExchange
      <3>2. LinesToRead(t) \in Nat
        BY <1>10, LinesToReadNat DEF FinishExchange, InTransfer
      <3>3. Len(received[t]) \in Nat /\ Len(rx) \in Nat /\ Len(device) \in Nat
        OBVIOUS
      <3>4. Len(rx) = 0 /\ Len(device) = 0
        BY <3>1, <3>2, <3>3
      <3> QED
        BY <3>4
    <2>2. device' = <<>> /\ rx' = <<>>
      BY <1>10, <2>1, ReplaceAllEmpty DEF FinishExchange
    <2> QED
      BY <1>10, <2>2 DEF FinishExchange, LeaveExchange
  <1>11. ASSUME NEW t \in Threads, Timeout(t)
        PROVE  (LineInv /\ ExchangeInv)'
    <2>1. rx = <<>> /\ device = <<>>
      <3>1. mux = t /\ Starved(t)
        BY <1>11 DEF Timeout
      <3> QED
        BY <3>1, NoLineLeft DEF Starved
    <2>2. device' = <<>> /\ rx' = <<>>
      BY <1>11, <2>1, ReplaceAllEmpty DEF Timeout
    <2> QED
      BY <1>11, <2>2 DEF Timeout, LeaveExchange
  <1>12. ASSUME NEW t \in Threads, UseDeadHandler(t)
        PROVE  (LineInv /\ ExchangeInv)'
    BY <1>12 DEF UseDeadHandler, LinesToRead
  <1>13. ASSUME NEW t \in Threads, AcceptResponse(t)
        PROVE  (LineInv /\ ExchangeInv)'
    BY <1>13 DEF AcceptResponse, LinesToRead
  <1>14. ASSUME NEW t \in Threads, RejectResponse(t)
        PROVE  (LineInv /\ ExchangeInv)'
    BY <1>14 DEF RejectResponse, LinesToRead
  <1>15. ASSUME NEW t \in Threads, ReturnFromTransfer(t)
        PROVE  (LineInv /\ ExchangeInv)'
    BY <1>15 DEF ReturnFromTransfer, GoIdle, LinesToRead
  <1>16. ASSUME NEW t \in Threads, SetException(t)
        PROVE  (LineInv /\ ExchangeInv)'
    BY <1>16 DEF SetException, GoIdle, LinesToRead
  <1>17. ASSUME NEW t \in Threads, OpenHandler(t)
        PROVE  (LineInv /\ ExchangeInv)'
    <2>1. rx' = <<>> /\ (device' = device \/ device' = <<>>)
      BY <1>17 DEF OpenHandler, ResponsesAfterOpen
    <2>2. /\ op[t] = "none" /\ pc[t] = "idle"
          /\ pc' = [pc EXCEPT ![t] = "lookup"]
          /\ op' = [op EXCEPT ![t] = "open"]
          /\ UNCHANGED <<mux, reg, received>>
      BY <1>17 DEF OpenHandler
    <2>3. LineInv'
      BY <2>1, <2>2
    <2>4. ASSUME NEW u \in Threads, pc'[u] = "reading"
          PROVE  Len(received'[u]) + Len(rx') + Len(device') <= LinesToRead(u)'
      <3>1. LinesToRead(u)' = LinesToRead(u) /\ pc[u] = "reading"
        BY <2>2, <2>4 DEF LinesToRead
      <3>2. LinesToRead(u) \in Nat
        BY <3>1, LinesToReadNat DEF InTransfer
      <3>3. Len(received[u]) \in Nat /\ Len(rx) \in Nat /\ Len(device) \in Nat
        OBVIOUS
      <3>4. Len(rx') = 0 /\ Len(device') <= Len(device) /\ Len(device') \in Nat
        BY <2>1, <3>3
      <3> QED
        BY <2>2, <3>1, <3>2, <3>3, <3>4
    <2> QED
      BY <2>1, <2>2, <2>3, <2>4
  <1>18. ASSUME NEW t \in Threads, LookupRecoveryRegister(t)
        PROVE  (LineInv /\ ExchangeInv)'
    BY <1>18 DEF LookupRecoveryRegister, EnterAssignment, LinesToRead
  <1>19. ASSUME NEW t \in Threads, LookupFails(t)
        PROVE  (LineInv /\ ExchangeInv)'
    BY <1>19 DEF LookupFails, GoIdle, LinesToRead
  <1>20. ASSUME NEW t \in Threads, FinishOpen(t)
        PROVE  (LineInv /\ ExchangeInv)'
    BY <1>20 DEF FinishOpen, GoIdle, LinesToRead
  <1>21. ASSUME NEW t \in Threads, CloseHandler(t)
        PROVE  (LineInv /\ ExchangeInv)'
    BY <1>21 DEF CloseHandler, LinesToRead
  <1>22. ASSUME NEW t \in Threads, FinishClose(t)
        PROVE  (LineInv /\ ExchangeInv)'
    BY <1>22 DEF FinishClose, GoIdle, LinesToRead
  <1>23. CASE Respond
    <2>1. /\ device # <<>>
          /\ rx' = Append(rx, Head(device))
          /\ device' = Tail(device)
          /\ UNCHANGED <<mux, pc, op, reg, received>>
      BY <1>23 DEF Respond
    <2>2. Head(device) = mux
      BY <2>1
    <2>3. LineInv'
      BY <2>1, <2>2, SMTT(30)
    <2>4. Len(rx') = Len(rx) + 1 /\ Len(device') = Len(device) - 1
      BY <2>1
    <2>5. ASSUME NEW u \in Threads, pc[u] = "reading"
          PROVE  Len(received'[u]) + Len(rx') + Len(device') <= LinesToRead(u)'
      <3>1. LinesToRead(u)' = LinesToRead(u)
        BY <2>1 DEF LinesToRead
      <3>2. LinesToRead(u) \in Nat
        BY <2>5, LinesToReadNat DEF InTransfer
      <3>3. Len(received[u]) \in Nat /\ Len(rx) \in Nat /\ Len(device) \in Nat
        OBVIOUS
      <3> QED
        BY <2>1, <2>4, <2>5, <3>1, <3>2, <3>3
    <2> QED
      BY <2>1, <2>3, <2>5
  <1>24. CASE LoseLine
    <2>1. /\ device # <<>>
          /\ device' = Tail(device)
          /\ UNCHANGED <<mux, pc, op, reg, received, rx>>
      BY <1>24 DEF LoseLine
    <2>2. LineInv'
      BY <2>1
    <2>3. Len(device') = Len(device) - 1
      BY <2>1
    <2>4. ASSUME NEW u \in Threads, pc[u] = "reading"
          PROVE  Len(received'[u]) + Len(rx') + Len(device') <= LinesToRead(u)'
      <3>1. LinesToRead(u)' = LinesToRead(u)
        BY <2>1 DEF LinesToRead
      <3>2. LinesToRead(u) \in Nat
        BY <2>4, LinesToReadNat DEF InTransfer
      <3>3. Len(received[u]) \in Nat /\ Len(rx) \in Nat /\ Len(device) \in Nat
        OBVIOUS
      <3> QED
        BY <2>1, <2>3, <2>4, <3>1, <3>2, <3>3
    <2> QED
      BY <2>1, <2>2, <2>4
  <1>25. CASE UNCHANGED vars
    BY <1>25 DEF vars, LinesToRead
  <1> QED
    BY <1>1, <1>2, <1>3, <1>4, <1>5, <1>6, <1>7, <1>8, <1>9, <1>10, <1>11, <1>12, <1>13, <1>14, <1>15, <1>16, <1>17, <1>18, <1>19, <1>20, <1>21, <1>22, <1>23, <1>24, <1>25
    DEF Next, Start, Proceed, ProcessEnded

\* A read adds lines of the reader, and nothing else adds any.
LEMMA ReceivedStep ==
  ASSUME TypeOK, HolderInv, LineInv, ReceivedInv, [Next]_vars
  PROVE  ReceivedInv'
  <1> USE ThreadsAssumption DEF TypeOK, HolderInv, LineInv, ReceivedInv, Goto, stateVars, portVars
  <1>1. ASSUME NEW t \in Threads, NEW r \in Registers, PreRead(t, r)
        PROVE  ReceivedInv'
    BY <1>1 DEF PreRead, EnterAssignment
  <1>2. ASSUME NEW t \in Threads, NEW r \in Registers, PreWrite(t, r)
        PROVE  ReceivedInv'
    BY <1>2 DEF PreWrite, EnterAssignment
  <1>3. ASSUME NEW t \in Threads, AssignLastWritten(t)
        PROVE  ReceivedInv'
    BY <1>3 DEF AssignLastWritten
  <1>4. ASSUME NEW t \in Threads, CheckFunctional(t)
        PROVE  ReceivedInv'
    BY <1>4 DEF CheckFunctional
  <1>5. ASSUME NEW t \in Threads, AssertHandler(t)
        PROVE  ReceivedInv'
    BY <1>5 DEF AssertHandler
  <1>6. ASSUME NEW t \in Threads, LockMux(t)
        PROVE  ReceivedInv'
    BY <1>6 DEF LockMux, PortIsFree
  <1>7. ASSUME NEW t \in Threads, SendCommand(t)
        PROVE  ReceivedInv'
    BY <1>7 DEF SendCommand
  <1>8. ASSUME NEW t \in Threads, SendFails(t)
        PROVE  ReceivedInv'
    BY <1>8 DEF SendFails, LeaveExchange
  <1>9. ASSUME NEW t \in Threads, ReadLine(t)
        PROVE  ReceivedInv'
    <2>1. mux = t /\ rx # <<>>
      BY <1>9 DEF ReadLine
    <2>2. PICK n \in LinesPerRead :
            received' = [received EXCEPT ![t] = Append(received[t], SubSeq(rx, 1, n))]
      BY <1>9 DEF ReadLine
    <2>3. n \in 1..Len(rx)
      BY <2>1, <2>2 DEF LinesPerRead
    <2> DEFINE lines == SubSeq(rx, 1, n)
    <2>4. /\ lines \in Seq(Line)
          /\ lines # <<>>
          /\ \A j \in DOMAIN lines : lines[j] = t
      <3>1. rx \in Seq(Line) /\ \A i \in DOMAIN rx : rx[i] = t
        BY <2>1
      <3> HIDE DEF TypeOK, HolderInv, LineInv, ReceivedInv
      <3>2. /\ SubSeq(rx, 1, n) \in Seq(Line)
            /\ SubSeq(rx, 1, n) # <<>>
            /\ \A j \in DOMAIN SubSeq(rx, 1, n) : SubSeq(rx, 1, n)[j] = t
        BY ONLY <2>3, <3>1, SplitLines
      <3> QED
        BY <3>2
    <2>5. received'[t] = Append(received[t], lines)
      BY <2>2
    <2> QED
      BY <2>2, <2>4, <2>5, SMTT(30)
  <1>10. ASSUME NEW t \in Threads, FinishExchange(t)
        PROVE  ReceivedInv'
    BY <1>10 DEF FinishExchange, LeaveExchange
  <1>11. ASSUME NEW t \in Threads, Timeout(t)
        PROVE  ReceivedInv'
    BY <1>11 DEF Timeout, LeaveExchange
  <1>12. ASSUME NEW t \in Threads, UseDeadHandler(t)
        PROVE  ReceivedInv'
    BY <1>12 DEF UseDeadHandler
  <1>13. ASSUME NEW t \in Threads, AcceptResponse(t)
        PROVE  ReceivedInv'
    BY <1>13 DEF AcceptResponse
  <1>14. ASSUME NEW t \in Threads, RejectResponse(t)
        PROVE  ReceivedInv'
    BY <1>14 DEF RejectResponse
  <1>15. ASSUME NEW t \in Threads, ReturnFromTransfer(t)
        PROVE  ReceivedInv'
    BY <1>15 DEF ReturnFromTransfer, GoIdle
  <1>16. ASSUME NEW t \in Threads, SetException(t)
        PROVE  ReceivedInv'
    BY <1>16 DEF SetException, GoIdle
  <1>17. ASSUME NEW t \in Threads, OpenHandler(t)
        PROVE  ReceivedInv'
    BY <1>17 DEF OpenHandler
  <1>18. ASSUME NEW t \in Threads, LookupRecoveryRegister(t)
        PROVE  ReceivedInv'
    BY <1>18 DEF LookupRecoveryRegister, EnterAssignment
  <1>19. ASSUME NEW t \in Threads, LookupFails(t)
        PROVE  ReceivedInv'
    BY <1>19 DEF LookupFails, GoIdle
  <1>20. ASSUME NEW t \in Threads, FinishOpen(t)
        PROVE  ReceivedInv'
    BY <1>20 DEF FinishOpen, GoIdle
  <1>21. ASSUME NEW t \in Threads, CloseHandler(t)
        PROVE  ReceivedInv'
    BY <1>21 DEF CloseHandler
  <1>22. ASSUME NEW t \in Threads, FinishClose(t)
        PROVE  ReceivedInv'
    BY <1>22 DEF FinishClose, GoIdle
  <1>23. CASE Respond
    BY <1>23 DEF Respond
  <1>24. CASE LoseLine
    BY <1>24 DEF LoseLine
  <1>25. CASE UNCHANGED vars
    BY <1>25 DEF vars
  <1> QED
    BY <1>1, <1>2, <1>3, <1>4, <1>5, <1>6, <1>7, <1>8, <1>9, <1>10, <1>11, <1>12, <1>13, <1>14, <1>15, <1>16, <1>17, <1>18, <1>19, <1>20, <1>21, <1>22, <1>23, <1>24, <1>25
    DEF Next, Start, Proceed, ProcessEnded

\* With a device that answers in time or not at all, every line on its way and
\* every result belong to the holder of the mutex.
THEOREM OwnInvariant ==
  ASSUME ~LateResponses
  PROVE  Spec => []OwnInv
  <1>1. Init => OwnInv
    BY ThreadsAssumption DEF Init, OwnInv, LineInv, HolderInv, PositionInv, ExchangeInv, ReceivedInv
  <1>2. TypeOK /\ OwnInv /\ [Next]_vars => OwnInv'
    <2> SUFFICES ASSUME TypeOK, OwnInv, [Next]_vars
                 PROVE  OwnInv'
      OBVIOUS
    <2>1. HolderInv' /\ PositionInv' /\ ReceivedInv'
      BY HolderStep, PositionStep, ReceivedStep DEF OwnInv
    <2>2. (LineInv /\ ExchangeInv)'
      BY LinesStep DEF OwnInv
    <2> QED
      BY <2>1, <2>2 DEF OwnInv
  <1> QED
    BY <1>1, <1>2, TypeCorrect, PTL DEF Spec

\* With a device that answers in time or not at all, a value is accepted only
\* from the response to the transfer's own command.
THEOREM OwnResponses ==
  ASSUME ~LateResponses
  PROVE  Spec => []ResponseIsOwn
  <1>1. TypeOK /\ ReceivedInv => ResponseIsOwn
    <2> SUFFICES ASSUME TypeOK, ReceivedInv,
                        NEW t \in Threads, NEW i \in DOMAIN received[t]
                 PROVE  ToSet(received[t][i]) = {t}
      BY DEF ResponseIsOwn
    <2>1. received[t][i] \in Seq(Line) /\ received[t][i] # <<>>
      BY DEF TypeOK, ReceivedInv
    <2>2. \A j \in DOMAIN received[t][i] : received[t][i][j] = t
      BY DEF ReceivedInv
    <2>3. 1 \in DOMAIN received[t][i]
      BY <2>1
    <2> QED
      BY <2>2, <2>3 DEF ToSet
  <1>2. OwnInv => ReceivedInv
    BY DEF OwnInv
  <1> QED
    BY <1>1, <1>2, TypeCorrect, OwnInvariant, PTL

\* With such a device nothing of an exchange is on the line when the mutex is
\* free, so that the next command meets an empty input buffer and a device that
\* owes nothing.
THEOREM CleanLine ==
  ASSUME ~LateResponses
  PROVE  Spec => []LineCleanBetweenExchanges
  <1>1. OwnInv => LineCleanBetweenExchanges
    BY DEF OwnInv, ExchangeInv, LineCleanBetweenExchanges
  <1> QED
    BY <1>1, OwnInvariant, PTL

-----------------------------------------------------------------------------
(* Whoever is answered has a line to read *)

\* A reader whose handler lives and whose command lost no line will find, with
\* what it has, as many lines as it reads.
CountInv ==
  \A t \in Threads :
    pc[t] = "reading" /\ t \notin dangling /\ t \notin muted =>
      Len(received[t]) + Len(rx) + Len(device) >= LinesToRead(t)

\* The length of two sequences put together.
LEMMA JoinedLength ==
  ASSUME NEW S, NEW s \in Seq(S), NEW u \in Seq(S)
  PROVE  Len(s \o u) = Len(s) + Len(u)
  OBVIOUS

\* The first elements of a sequence, and how many are left.
LEMMA SplitLength ==
  ASSUME NEW S, NEW s \in Seq(S), NEW n \in 1..Len(s)
  PROVE  /\ SubSeq(s, 1, n) \in Seq(S)
         /\ Len(SubSeq(s, n + 1, Len(s))) = Len(s) - n
  OBVIOUS

\* On a serial line a read takes one line, so every line counts once: sent, in
\* the input buffer, and read.
LEMMA CountStep ==
  ASSUME TypeOK, HolderInv, PositionInv, LineInv, CountInv, [Next]_vars,
         Transport = "SERIAL"
  PROVE  CountInv'
  <1> USE ThreadsAssumption DEF TypeOK, HolderInv, PositionInv, CountInv, Goto, Steps, stateVars, portVars
  <1>1. ASSUME NEW t \in Threads, NEW r \in Registers, PreRead(t, r)
        PROVE  CountInv'
    BY <1>1 DEF PreRead, EnterAssignment, LinesToRead
  <1>2. ASSUME NEW t \in Threads, NEW r \in Registers, PreWrite(t, r)
        PROVE  CountInv'
    BY <1>2 DEF PreWrite, EnterAssignment, LinesToRead
  <1>3. ASSUME NEW t \in Threads, AssignLastWritten(t)
        PROVE  CountInv'
    BY <1>3 DEF AssignLastWritten, LinesToRead
  <1>4. ASSUME NEW t \in Threads, CheckFunctional(t)
        PROVE  CountInv'
    BY <1>4 DEF CheckFunctional, LinesToRead
  <1>5. ASSUME NEW t \in Threads, AssertHandler(t)
        PROVE  CountInv'
    BY <1>5 DEF AssertHandler, LinesToRead
  <1>6. ASSUME NEW t \in Threads, LockMux(t)
        PROVE  CountInv'
    BY <1>6 DEF LockMux, PortIsFree, LinesToRead
  <1>7. ASSUME NEW t \in Threads, SendCommand(t)
        PROVE  CountInv'
    <2>1. /\ received[t] = <<>> /\ mux = t
          /\ pc' = [pc EXCEPT ![t] = "reading"]
          /\ device' = device \o [i \in 1..ResponseLines(t) |-> t]
          /\ UNCHANGED <<mux, op, reg, received, rx>>
      BY <1>7 DEF SendCommand
    <2>2. LinesToRead(t) \in Nat /\ ResponseLines(t) = LinesToRead(t)
      BY <1>7, LinesToReadNat DEF SendCommand, InTransfer
    <2> DEFINE n == ResponseLines(t)
               lines == [i \in 1..n |-> t]
    <2>3. lines \in Seq(Line) /\ Len(lines) = n
      <3>1. lines \in [1..n -> Line]
        BY DEF Line
      <3>2. lines \in Seq(Line)
        BY <2>2, <3>1, ConstantSequence
      <3> QED
        BY <2>2, <3>2
    <2>4. Len(device') = Len(device) + n
      <3>1. device' = device \o lines
        BY <2>1
      <3>2. device \in Seq(Line)
        OBVIOUS
      <3> HIDE DEF lines
      <3>3. Len(device \o lines) = Len(device) + Len(lines)
        BY ONLY <2>3, <3>2, JoinedLength
      <3> QED
        BY <2>3, <3>1, <3>3
    <2>5. \A u \in Threads \ {t} : pc'[u] # "reading"
      BY <2>1
    <2>6. LinesToRead(t)' = LinesToRead(t)
      BY <2>1 DEF LinesToRead
    <2>7. Len(received'[t]) + Len(rx') + Len(device') >= LinesToRead(t)'
      BY <2>1, <2>2, <2>4, <2>6
    <2> QED
      BY <2>5, <2>7
  <1>8. ASSUME NEW t \in Threads, SendFails(t)
        PROVE  CountInv'
    BY <1>8 DEF SendFails, LeaveExchange, LinesToRead
  <1>9. ASSUME NEW t \in Threads, ReadLine(t)
        PROVE  CountInv'
    <2>1. /\ mux = t /\ rx # <<>> /\ pc[t] = "reading"
          /\ UNCHANGED <<mux, pc, op, reg, device, dangling, muted>>
      BY <1>9 DEF ReadLine
    <2>2. PICK n \in LinesPerRead :
            /\ received' = [received EXCEPT ![t] = Append(received[t], SubSeq(rx, 1, n))]
            /\ rx' = SubSeq(rx, n + 1, Len(rx))
      BY <1>9 DEF ReadLine
    <2>3. n \in 1..Len(rx) /\ n = 1
      BY <2>1, <2>2 DEF LinesPerRead
    <2>4. /\ Len(rx') = Len(rx) - 1
          /\ Len(received'[t]) = Len(received[t]) + 1
      <3>1. rx \in Seq(Line) /\ n \in 1..Len(rx)
        BY <2>3
      <3>2. SubSeq(rx, 1, n) \in Seq(Line)
        BY ONLY <3>1, SplitLength
      <3>3. Len(SubSeq(rx, n + 1, Len(rx))) = Len(rx) - n
        BY ONLY <3>1, SplitLength
      <3> QED
        BY <2>2, <2>3, <3>2, <3>3
    <2>5. LinesToRead(t)' = LinesToRead(t) /\ LinesToRead(t) \in Nat
      BY <2>1, LinesToReadNat DEF LinesToRead, InTransfer
    <2>6. \A u \in Threads \ {t} : pc'[u] # "reading"
      BY <2>1
    <2>7. Len(received[t]) \in Nat /\ Len(rx) \in Nat /\ Len(device) \in Nat
      OBVIOUS
    <2>8. t \notin dangling' /\ t \notin muted' =>
            Len(received'[t]) + Len(rx') + Len(device') >= LinesToRead(t)'
      BY <2>1, <2>4, <2>5, <2>7
    <2> QED
      BY <2>6, <2>8
  <1>10. ASSUME NEW t \in Threads, FinishExchange(t)
        PROVE  CountInv'
    BY <1>10 DEF FinishExchange, LeaveExchange, LinesToRead
  <1>11. ASSUME NEW t \in Threads, Timeout(t)
        PROVE  CountInv'
    BY <1>11 DEF Timeout, LeaveExchange, LinesToRead
  <1>12. ASSUME NEW t \in Threads, UseDeadHandler(t)
        PROVE  CountInv'
    BY <1>12 DEF UseDeadHandler, LinesToRead
  <1>13. ASSUME NEW t \in Threads, AcceptResponse(t)
        PROVE  CountInv'
    BY <1>13 DEF AcceptResponse, LinesToRead
  <1>14. ASSUME NEW t \in Threads, RejectResponse(t)
        PROVE  CountInv'
    BY <1>14 DEF RejectResponse, LinesToRead
  <1>15. ASSUME NEW t \in Threads, ReturnFromTransfer(t)
        PROVE  CountInv'
    BY <1>15 DEF ReturnFromTransfer, GoIdle, LinesToRead
  <1>16. ASSUME NEW t \in Threads, SetException(t)
        PROVE  CountInv'
    BY <1>16 DEF SetException, GoIdle, LinesToRead
  <1>17. ASSUME NEW t \in Threads, OpenHandler(t)
        PROVE  CountInv'
    BY <1>17 DEF OpenHandler, DestroyHandler, LinesToRead
  <1>18. ASSUME NEW t \in Threads, LookupRecoveryRegister(t)
        PROVE  CountInv'
    BY <1>18 DEF LookupRecoveryRegister, EnterAssignment, LinesToRead
  <1>19. ASSUME NEW t \in Threads, LookupFails(t)
        PROVE  CountInv'
    BY <1>19 DEF LookupFails, GoIdle, LinesToRead
  <1>20. ASSUME NEW t \in Threads, FinishOpen(t)
        PROVE  CountInv'
    BY <1>20 DEF FinishOpen, GoIdle, LinesToRead
  <1>21. ASSUME NEW t \in Threads, CloseHandler(t)
        PROVE  CountInv'
    BY <1>21 DEF CloseHandler, DestroyHandler, LinesToRead
  <1>22. ASSUME NEW t \in Threads, FinishClose(t)
        PROVE  CountInv'
    BY <1>22 DEF FinishClose, GoIdle, LinesToRead
  <1>23. CASE Respond
    <2>1. /\ device # <<>>
          /\ rx' = Append(rx, Head(device))
          /\ device' = Tail(device)
          /\ UNCHANGED <<mux, pc, op, reg, received, dangling, muted>>
      BY <1>23 DEF Respond
    <2>2. Len(rx') = Len(rx) + 1 /\ Len(device') = Len(device) - 1
      BY <2>1
    <2>3. ASSUME NEW u \in Threads, pc[u] = "reading", u \notin dangling, u \notin muted
          PROVE  Len(received'[u]) + Len(rx') + Len(device') >= LinesToRead(u)'
      <3>1. LinesToRead(u)' = LinesToRead(u) /\ LinesToRead(u) \in Nat
        BY <2>1, <2>3, LinesToReadNat DEF LinesToRead, InTransfer
      <3>2. Len(received[u]) \in Nat /\ Len(rx) \in Nat /\ Len(device) \in Nat
        OBVIOUS
      <3> QED
        BY <2>1, <2>2, <2>3, <3>1, <3>2
    <2> QED
      BY <2>1, <2>3
  <1>24. CASE LoseLine
    <2>1. /\ device # <<>>
          /\ muted' = muted \cup ({Head(device)} \ {Stale})
          /\ UNCHANGED <<mux, pc>>
      BY <1>24 DEF LoseLine
    <2>2. Head(device) = mux
      BY <2>1 DEF LineInv
    <2>3. \A u \in Threads : pc'[u] = "reading" => u \in muted'
      BY <2>1, <2>2
    <2> QED
      BY <2>3
  <1>25. CASE UNCHANGED vars
    BY <1>25 DEF vars, LinesToRead
  <1> QED
    BY <1>1, <1>2, <1>3, <1>4, <1>5, <1>6, <1>7, <1>8, <1>9, <1>10, <1>11, <1>12, <1>13, <1>14, <1>15, <1>16, <1>17, <1>18, <1>19, <1>20, <1>21, <1>22, <1>23, <1>24, <1>25
    DEF Next, Start, Proceed, ProcessEnded

\* On a serial line, with a device that answers in time or not at all, no
\* transfer waits for a line in vain unless the device withheld or the line lost
\* one of its response: multi-line responses are read to the end, whoever else
\* uses the port, opens it or closes it.  On TCP this is false, since a read may
\* take two lines at a time.
THEOREM NoStarvation ==
  ASSUME ~LateResponses, Transport = "SERIAL"
  PROVE  Spec => []AnsweredTransferIsNotStarved
  <1>1. Init => CountInv
    BY DEF Init, CountInv
  <1>2. TypeOK /\ OwnInv /\ CountInv /\ [Next]_vars => CountInv'
    BY CountStep DEF OwnInv
  <1>3. TypeOK /\ OwnInv /\ CountInv => AnsweredTransferIsNotStarved
    <2> SUFFICES ASSUME TypeOK, OwnInv, CountInv,
                        NEW t \in Threads, Starved(t), t \notin muted
                 PROVE  FALSE
      BY DEF AnsweredTransferIsNotStarved
    <2>1. /\ mux = t /\ rx = <<>> /\ t \notin ToSet(device)
          /\ pc[t] = "reading" /\ t \notin dangling
          /\ Len(received[t]) < LinesToRead(t)
      BY DEF Starved, OwnInv, HolderInv
    <2>2. device = <<>>
      BY <2>1, NoLineLeft DEF TypeOK, OwnInv, LineInv
    <2>3. Len(received[t]) + Len(rx) + Len(device) >= LinesToRead(t)
      BY <2>1 DEF CountInv
    <2>4. LinesToRead(t) \in Nat /\ Len(received[t]) \in Nat
      BY <2>1, LinesToReadNat DEF TypeOK, InTransfer
    <2> QED
      BY <2>1, <2>2, <2>3, <2>4
  <1> QED
    BY <1>1, <1>2, <1>3, TypeCorrect, OwnInvariant, PTL DEF Spec


=============================================================================
