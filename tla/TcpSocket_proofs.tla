--------------------------- MODULE TcpSocket_proofs ---------------------------
(***************************************************************************)
(* What holds of a TcpSocket for every set of responses and delimiter,     *)
(* whenever timers expire and whatever the peer does: its types, and, for  *)
(* responses of one line, that the handler returns the response or throws, *)
(* and leaves nothing of it behind, until a read has failed while bytes of *)
(* its response were at hand or still to come, and from the next open()    *)
(* on again.                                                               *)
(***************************************************************************)
EXTENDS TcpSocket, SequenceFacts

ResponsesOf(m) == IF m = "lines" THEN LineResponses ELSE ByteResponses

\* The response belongs to the mode, and between reads run() has nothing to do.
ReadInv ==
  /\ caller = "running" => expected \in ResponsesOf(mode)
  /\ caller = "idle" => queue = <<>> /\ readSome = "none" /\ timer = "off"

TypeInv == TypeOK /\ ReadInv

Handlers == {"ready", "read", "eof", "timeout", "timer", "cancelled"}

\* Responses consist of bytes; those read by bytes are one byte string.
LEMMA ResponseType ==
  ASSUME NEW m \in {"lines", "bytes"},
         NEW r \in ResponsesOf(m)
  PROVE  /\ r \in Seq(Seq(Bytes)) /\ r # <<>>
         /\ m = "bytes" => Len(r) = 1 /\ r[1] \in Seq(Bytes) /\ r[1] # <<>> /\ Len(r[1]) \in Nat
<1>1. r \in Seq(Seq(Bytes)) /\ (m = "bytes" => Len(r) = 1 /\ r[1] # <<>>)
  BY BytesAssumption DEF ResponsesOf
<1>2. m = "bytes" => r[1] \in Seq(Bytes) /\ Len(r[1]) \in Nat
  BY <1>1
<1>3. m = "lines" => r # <<>>
  BY BytesAssumption DEF ResponsesOf
<1> QED BY <1>1, <1>2, <1>3

\* What the device sends consists of bytes.
LEMMA ChunksType ==
  ASSUME NEW m \in {"lines", "bytes"}, NEW r \in Seq(Seq(Bytes))
  PROVE  /\ OnTheWire(m, r) \in Seq(Seq(Bytes)) /\ Len(OnTheWire(m, r)) = Len(r)
         /\ Chunks(m, r) \in Seq(Seq(Bytes))
<1> DEFINE w == OnTheWire(m, r)
           bytes == FlattenSeq(w)
<1>1. w \in Seq(Seq(Bytes)) /\ Len(w) = Len(r)
  <2>1. DOMAIN r = 1..Len(r) /\ \A i \in DOMAIN r : r[i] \in Seq(Bytes)
    OBVIOUS
  <2>2. \A i \in DOMAIN r : r[i] \o Delimiter \in Seq(Bytes)
    BY <2>1, BytesAssumption
  <2> QED BY <2>1, <2>2 DEF OnTheWire
<1> HIDE DEF w
<1>2. bytes \in Seq(Bytes)
  BY <1>1, FlattenType
<1> HIDE DEF bytes
<1>3. [i \in DOMAIN bytes |-> <<bytes[i]>>] \in Seq(Seq(Bytes))
  <2>1. DOMAIN bytes = 1..Len(bytes) /\ \A i \in DOMAIN bytes : <<bytes[i]>> \in Seq(Bytes)
    BY <1>2
  <2> QED BY <2>1
<1> QED BY <1>1, <1>3 DEF Chunks, w, bytes

\* The bytes k are the bytes u followed by the bytes v.
Joins(k, u, v) == k = u \o v

\* In readBytes the buffer never grows beyond the response.
Fits(m, r, b) == m = "bytes" => Len(b) <= Len(r[1])

\* A read_some takes no more than there is, and in readBytes no more than misses.
LEMMA WantedBounds ==
  ASSUME NEW m \in {"lines", "bytes"}, NEW r \in ResponsesOf(m), NEW b \in Seq(Bytes),
         NEW k \in Seq(Bytes), Fits(m, r, b)
  PROVE  /\ Wanted(m, r, b, k) \in 0..Len(k)
         /\ m = "bytes" => Len(b) + Wanted(m, r, b, k) <= Len(r[1])
<1>1. /\ Len(k) \in Nat /\ Len(b) \in Nat
      /\ (m = "bytes" => Len(r[1]) \in Nat)
      /\ (m = "bytes" => Len(b) <= Len(r[1]))
  BY ResponseType DEF Fits
<1>2. CASE m = "lines"
  BY <1>1, <1>2 DEF Wanted
<1>3. CASE m = "bytes"
  <2>1. Len(r[1]) - Len(b) \in Nat
    BY <1>1, <1>3
  <2>2. Wanted(m, r, b, k) = IF Len(k) <= Len(r[1]) - Len(b) THEN Len(k) ELSE Len(r[1]) - Len(b)
    BY <1>1, <1>3, <2>1, MinOfTwo DEF Wanted
  <2> QED BY <1>1, <1>3, <2>1, <2>2
<1> QED BY <1>2, <1>3

\* What a read_some with the bytes k at hand takes, and leaves.
LEMMA TakenOfBytes ==
  ASSUME NEW m \in {"lines", "bytes"}, NEW r \in ResponsesOf(m), NEW b \in Seq(Bytes),
         NEW k \in Seq(Bytes), Fits(m, r, b),
         taken' = SubSeq(k, 1, Wanted(m, r, b, k)),
         kernel' = SubSeq(k, Wanted(m, r, b, k) + 1, Len(k))
  PROVE  /\ taken' \in Seq(Bytes) /\ kernel' \in Seq(Bytes)
         /\ Joins(k, taken', kernel')
         /\ k = <<>> => taken' = <<>>
         /\ Fits(m, r, b \o taken')
<1>1. Len(k) \in Nat /\ Len(b) \in Nat
  OBVIOUS
<1>2. PICK n : n = Wanted(m, r, b, k)
  OBVIOUS
<1>3. n \in 0..Len(k) /\ (m = "bytes" => Len(b) + n <= Len(r[1]))
  BY <1>2, WantedBounds
<1>4. taken' = SubSeq(k, 1, n) /\ kernel' = SubSeq(k, n + 1, Len(k))
  BY <1>2
<1>5. /\ SubSeq(k, 1, n) \in Seq(Bytes) /\ Len(SubSeq(k, 1, n)) = n
      /\ SubSeq(k, n + 1, Len(k)) \in Seq(Bytes)
      /\ SubSeq(k, 1, n) \o SubSeq(k, n + 1, Len(k)) = k
  BY <1>3, SplitAt
<1>6. Len(b \o SubSeq(k, 1, n)) = Len(b) + n
  <2> DEFINE t == SubSeq(k, 1, n)
  <2>1. t \in Seq(Bytes) /\ Len(t) = n
    BY <1>5
  <2> HIDE DEF t
  <2>2. Len(b \o t) = Len(b) + n
    BY <2>1, SMTT(30)
  <2> QED BY <2>2 DEF t
<1>7. k = <<>> => taken' = <<>>
  BY <1>1, <1>3, <1>4, <1>5
<1> QED BY <1>3, <1>4, <1>5, <1>6, <1>7 DEF Fits, Joins

\* What the beginning of a read_some leaves.
LEMMA BeginReadSomeType ==
  ASSUME NEW m \in {"lines", "bytes"}, NEW r \in ResponsesOf(m), NEW b \in Seq(Bytes),
         NEW k \in Seq(Bytes), Fits(m, r, b),
         NEW q \in Seq(Handlers), BeginReadSome(m, r, b, k, q)
  PROVE  /\ taken' \in Seq(Bytes) /\ kernel' \in Seq(Bytes)
         /\ Joins(k, taken', kernel')
         /\ k = <<>> => taken' = <<>>
         /\ readSome' = "waiting" => taken' = <<>>
         /\ Fits(m, r, b \o taken')
         /\ readSome' \in {"waiting", "none"}
         /\ queue' \in Seq(Handlers)
<1>1. /\ taken' \in Seq(Bytes) /\ kernel' \in Seq(Bytes)
      /\ Joins(k, taken', kernel')
      /\ k = <<>> => taken' = <<>>
      /\ Fits(m, r, b \o taken')
  <2>1. /\ taken' = SubSeq(k, 1, Wanted(m, r, b, k))
        /\ kernel' = SubSeq(k, Wanted(m, r, b, k) + 1, Len(k))
    BY DEF BeginReadSome
  <2> QED BY <2>1, TakenOfBytes
<1>2. queue' \in Seq(Handlers)
  <2>1. \A x \in Seq(Handlers) : q \o x \in Seq(Handlers)
    OBVIOUS
  <2>2. {<<"read">>, <<"eof">>, <<>>} \subseteq Seq(Handlers)
    BY DEF Handlers
  <2> HIDE DEF Handlers
  <2>3. PICK x \in {<<"read">>, <<"eof">>, <<>>} : queue' = q \o x
    BY DEF BeginReadSome
  <2> QED BY <2>1, <2>2, <2>3
<1> QED BY <1>1, <1>2 DEF BeginReadSome



\* A queue of handlers loses its first and gets one more.
LEMMA QueueType ==
  ASSUME NEW q \in Seq(Handlers)
  PROVE  /\ q # <<>> => Head(q) \in Handlers /\ Tail(q) \in Seq(Handlers)
         /\ \A h \in Handlers : Append(q, h) \in Seq(Handlers) /\ <<h>> \o q \in Seq(Handlers)
<1>1. q # <<>> => Head(q) \in Handlers /\ Tail(q) \in Seq(Handlers)
  BY HeadTailProperties
<1>2. \A h \in Handlers : Append(q, h) \in Seq(Handlers) /\ <<h>> \o q \in Seq(Handlers)
  <2> HIDE DEF Handlers
  <2> QED OBVIOUS
<1> QED BY <1>1, <1>2

\* The end of a read operation leaves its members typed.
LEMMA OnReadFinishType ==
  ASSUME NEW e \in {"none", "timeout", "eof"}, NEW q \in Seq(Handlers), OnReadFinish(e, q)
  PROVE  /\ queue' \in Seq(Handlers) /\ readCompleted' \in BOOLEAN
         /\ errorCode' \in {"none", "timeout", "eof"} /\ timer' = "off"
<1>1. Append(q, "cancelled") \in Seq(Handlers)
  BY DEF Handlers
<1> QED BY <1>1 DEF OnReadFinish

\* So does the arrival of bytes or of the end of the stream.
LEMMA WakeType ==
  ASSUME queue \in Seq(Handlers), Wake
  PROVE  queue' \in Seq(Handlers)
<1>1. Append(queue, "ready") \in Seq(Handlers)
  BY DEF Handlers
<1> QED BY <1>1 DEF Wake

\* The socket as the constructor leaves it has the types.
LEMMA TypeInit == Init => TypeInv
<1> SUFFICES ASSUME Init PROVE TypeInv
  OBVIOUS
<1>1. <<>> \in Seq(Bytes) /\ <<>> \in Seq(Seq(Bytes))
  OBVIOUS
<1>2. <<>> \in Seq({"ready", "read", "eof", "timeout", "timer", "cancelled"})
  OBVIOUS
<1> QED BY <1>1, <1>2 DEF Init, TypeInv, TypeOK, ReadInv

\* What TypeInv says of a read that runs.
LEMMA RunningType ==
  ASSUME TypeInv, caller = "running"
  PROVE  /\ mode \in {"lines", "bytes"} /\ expected \in ResponsesOf(mode)
         /\ buffer \in Seq(Bytes) /\ taken \in Seq(Bytes) /\ kernel \in Seq(Bytes)
         /\ Fits(mode, expected, buffer \o taken)
         /\ readSome = "waiting" => taken = <<>> /\ Fits(mode, expected, buffer)
         /\ queue \in Seq(Handlers)
<1>1. taken = <<>> => buffer \o taken = buffer
  BY DEF TypeInv, TypeOK
<1> QED BY <1>1 DEF TypeInv, TypeOK, ReadInv, Fits, Handlers

\* Every handler of the io_context, every call and every byte keeps them.
LEMMA TypeStep == TypeInv /\ [Next]_vars => TypeInv'
<1> SUFFICES ASSUME TypeInv, [Next]_vars PROVE TypeInv'
  OBVIOUS
<1>0. /\ queue \in Seq(Handlers) /\ kernel \in Seq(Bytes) /\ <<>> \in Seq(Bytes)
      /\ <<>> \in Seq(Seq(Bytes)) /\ <<>> \in Seq(Handlers) /\ Len(<<>>) = 0
  BY DEF TypeInv, TypeOK, Handlers
<1>1. ASSUME NEW m \in {"lines", "bytes"}, NEW r \in ResponsesOf(m), BeginRead(m, r)
      PROVE  /\ kernel' \in Seq(Bytes) /\ taken' \in Seq(Bytes) /\ buffer' \in Seq(Bytes)
             /\ queue' \in Seq({"ready", "read", "eof", "timeout", "timer", "cancelled"})
             /\ readSome' \in {"waiting", "none"} /\ timer' = "armed"
             /\ readCompleted' = FALSE /\ errorCode' = "none"
             /\ readSome' = "waiting" => taken' = <<>>
             /\ m = "bytes" => Len(buffer' \o taken') <= Len(r[1])
  <2>1. Fits(m, r, <<>>)
    BY <1>0, ResponseType DEF Fits
  <2>2. BeginReadSome(m, r, <<>>, kernel, <<>>) /\ buffer' = <<>>
    BY <1>1 DEF BeginRead
  <2>3. /\ taken' \in Seq(Bytes) /\ kernel' \in Seq(Bytes)
        /\ readSome' = "waiting" => taken' = <<>>
        /\ Fits(m, r, <<>> \o taken')
        /\ readSome' \in {"waiting", "none"} /\ queue' \in Seq(Handlers)
    BY <1>0, <2>1, <2>2, BeginReadSomeType
  <2> QED BY <1>0, <1>1, <2>2, <2>3 DEF BeginRead, Fits, Handlers
<1>2. ASSUME NEW m \in {"lines", "bytes"}, NEW r \in ResponsesOf(m), SendCommand(m, r)
      PROVE  TypeInv'
  <2>1. r \in Seq(Seq(Bytes)) /\ BeginRead(m, r)
    BY <1>2, ResponseType DEF SendCommand
  <2>2. Chunks(m, r) \in Seq(Seq(Bytes))
    BY <2>1, ChunksType
  <2>3. sending' \in Seq(Seq(Bytes)) /\ caller' = "running" /\ mode' = m /\ expected' = r
    <3>1. \A x \in Seq(Seq(Bytes)) : sending \o x \in Seq(Seq(Bytes))
      BY DEF TypeInv, TypeOK
    <3> QED BY <1>0, <1>2, <2>2, <3>1 DEF SendCommand
  <2>4. TypeOK'
    BY <1>0, <1>1, <1>2, <2>1, <2>3 DEF SendCommand, TypeInv, TypeOK
  <2>5. ReadInv'
    BY <2>3 DEF ReadInv
  <2> QED BY <2>4, <2>5 DEF TypeInv
<1>3. CASE Connect \/ ResolveFails
  BY <1>0, <1>3 DEF Connect, ResolveFails, readVars, ioVars, exchangeVars, TypeInv, TypeOK, ReadInv
<1>4. CASE SendOnly \/ SendFails
  BY <1>0, <1>4 DEF SendOnly, SendFails, Usable, networkVars, ioVars, readVars, TypeInv, TypeOK,
                    ReadInv
<1>5. CASE ReadFailed
  BY <1>0, <1>5 DEF ReadFailed, RunDone, networkVars, ioVars, readVars, TypeInv, TypeOK, ReadInv
<1>6. CASE Collect
  <2>1. Append(results, buffer) \in Seq(Seq(Bytes))
    BY DEF TypeInv, TypeOK
  <2>2. caller = "running" /\ mode \in {"lines", "bytes"} /\ expected \in ResponsesOf(mode)
    BY <1>6 DEF Collect, RunDone, TypeInv, TypeOK, ReadInv
  <2>3. CASE Len(results') < Len(expected)
    <3>1. /\ BeginRead(mode, expected) /\ results' = Append(results, buffer)
          /\ UNCHANGED <<caller, outcome, mode, expected, cancelLost, owed, alive, peer, sending>>
      BY <1>6, <2>3 DEF Collect, networkVars
    <3>2. TypeOK'
      BY <1>1, <2>1, <2>2, <3>1 DEF TypeInv, TypeOK
    <3> QED BY <2>2, <3>1, <3>2 DEF TypeInv, ReadInv
  <2>4. CASE ~(Len(results') < Len(expected))
    <3>1. /\ caller' = "idle" /\ outcome' = "ok" /\ results' = Append(results, buffer)
          /\ UNCHANGED <<mode, expected, cancelLost, owed>>
          /\ UNCHANGED <<ioVars, readVars, networkVars>>
          /\ queue = <<>> /\ readSome = "none" /\ timer = "off"
      BY <1>6, <2>4 DEF Collect, RunDone
    <3> QED BY <2>1, <3>1 DEF ioVars, readVars, networkVars, TypeInv, TypeOK, ReadInv
  <2> QED BY <2>3, <2>4
<1>7. ASSUME queue # <<>>
      PROVE  caller = "running" /\ Head(queue) \in Handlers /\ Tail(queue) \in Seq(Handlers)
  BY <1>0, <1>7, QueueType DEF TypeInv, TypeOK, ReadInv
<1>8. CASE RunReady
  <2>1. queue # <<>> /\ readSome = "waiting"
    BY <1>8 DEF RunReady, NextIs
  <2>2. /\ mode \in {"lines", "bytes"} /\ expected \in ResponsesOf(mode)
        /\ buffer \in Seq(Bytes) /\ kernel \in Seq(Bytes) /\ Fits(mode, expected, buffer)
    BY <1>7, <2>1, RunningType
  <2>3. /\ taken' = SubSeq(kernel, 1, Wanted(mode, expected, buffer, kernel))
        /\ kernel' = SubSeq(kernel, Wanted(mode, expected, buffer, kernel) + 1, Len(kernel))
    BY <1>8 DEF RunReady
  <2>4. taken' \in Seq(Bytes) /\ kernel' \in Seq(Bytes) /\ Fits(mode, expected, buffer \o taken')
    BY <2>2, <2>3, TakenOfBytes
  <2>5. queue' \in Seq(Handlers)
    <3>1. "read" \in Handlers
      BY DEF Handlers
    <3> QED BY <1>7, <1>8, <2>1, <3>1, QueueType DEF RunReady
  <2> QED BY <1>7, <1>8, <2>1, <2>4, <2>5, SMTT(30)
          DEF RunReady, networkVars, exchangeVars, readVars, TypeInv, TypeOK, ReadInv, Fits, Handlers
<1>9. CASE RunRead
  <2>1. queue # <<>> /\ caller = "running" /\ Tail(queue) \in Seq(Handlers)
    BY <1>7, <1>9 DEF RunRead, NextIs
  <2>2. /\ mode \in {"lines", "bytes"} /\ expected \in ResponsesOf(mode)
        /\ buffer \in Seq(Bytes) /\ taken \in Seq(Bytes) /\ kernel \in Seq(Bytes)
        /\ Fits(mode, expected, buffer \o taken)
    BY <2>1, RunningType
  <2>3. buffer' = buffer \o taken /\ buffer' \in Seq(Bytes) /\ Fits(mode, expected, buffer')
    BY <1>9, <2>2 DEF RunRead
  <2>4. CASE IsComplete(mode, expected, buffer')
    <3>1. /\ queue' \in Seq(Handlers) /\ readCompleted' \in BOOLEAN
          /\ errorCode' \in {"none", "timeout", "eof"} /\ timer' = "off"
      BY <1>9, <2>1, <2>4, OnReadFinishType DEF RunRead
    <3>2. buffer' \o <<>> = buffer'
      BY <2>3
    <3> QED BY <1>0, <1>9, <2>1, <2>3, <2>4, <3>1, <3>2
            DEF RunRead, networkVars, exchangeVars, TypeInv, TypeOK, ReadInv, Fits, Handlers
  <2>5. CASE ~IsComplete(mode, expected, buffer')
    <3>1. BeginReadSome(mode, expected, buffer', kernel, Tail(queue))
      BY <1>9, <2>5 DEF RunRead
    <3>2. /\ taken' \in Seq(Bytes) /\ kernel' \in Seq(Bytes)
          /\ readSome' = "waiting" => taken' = <<>>
          /\ Fits(mode, expected, buffer' \o taken')
          /\ readSome' \in {"waiting", "none"} /\ queue' \in Seq(Handlers)
      BY <2>1, <2>2, <2>3, <3>1, BeginReadSomeType
    <3> QED BY <1>9, <2>1, <2>3, <2>5, <3>2
            DEF RunRead, networkVars, exchangeVars, TypeInv, TypeOK, ReadInv, Fits, Handlers
  <2> QED BY <2>4, <2>5
<1>10. CASE RunReadyAtEof \/ RunError
  <2>1. queue # <<>> /\ caller = "running" /\ Tail(queue) \in Seq(Handlers)
    BY <1>7, <1>10 DEF RunReadyAtEof, RunError, NextIs
  <2>2. PICK e \in {"none", "timeout", "eof"} : OnReadFinish(e, Tail(queue))
    BY <1>10 DEF RunReadyAtEof, RunError, NextIs
  <2>3. /\ queue' \in Seq(Handlers) /\ readCompleted' \in BOOLEAN
        /\ errorCode' \in {"none", "timeout", "eof"} /\ timer' = "off"
    BY <2>1, <2>2, OnReadFinishType
  <2> QED BY <1>10, <2>1, <2>3
          DEF RunReadyAtEof, RunError, networkVars, exchangeVars, TypeInv, TypeOK, ReadInv, Handlers
<1>11. CASE RunTimer \/ RunNothing
  <2>1. queue # <<>> /\ caller = "running" /\ Tail(queue) \in Seq(Handlers)
    BY <1>7, <1>11 DEF RunTimer, RunNothing, NextIs
  <2>2. Append(Tail(queue), "timeout") \in Seq(Handlers)
    <3>1. "timeout" \in Handlers
      BY DEF Handlers
    <3> QED BY <2>1, <3>1, QueueType
  <2>3. queue' \in Seq(Handlers)
    BY <1>11, <2>1, <2>2 DEF RunTimer, RunNothing
  <2>4. readSome' \in {"none", readSome}
    BY <1>11 DEF RunTimer, RunNothing, readVars
  <2>5. cancelLost' \in BOOLEAN
    BY <1>11 DEF RunTimer, RunNothing, exchangeVars, TypeInv, TypeOK
  <2>6. UNCHANGED <<timer, taken, kernel, caller, mode, expected, results, outcome, owed, alive,
                    peer, sending, buffer, readCompleted, errorCode>>
    BY <1>11 DEF RunTimer, RunNothing, networkVars, readVars, exchangeVars
  <2> QED BY <2>1, <2>3, <2>4, <2>5, <2>6 DEF TypeInv, TypeOK, ReadInv, Handlers
<1>12. CASE Expire
  <2>1. Append(queue, "timer") \in Seq(Handlers)
    <3>1. "timer" \in Handlers
      BY DEF Handlers
    <3> QED BY <1>0, <3>1, QueueType
  <2>2. caller = "running"
    BY <1>12 DEF Expire, TypeInv, TypeOK, ReadInv
  <2> QED BY <1>12, <2>1, <2>2
          DEF Expire, networkVars, exchangeVars, readVars, TypeInv, TypeOK, ReadInv, Handlers
<1>13. CASE Arrive \/ PeerCloses
  <2>1. queue' \in Seq(Handlers) /\ (readSome # "waiting" => queue' = queue)
    BY <1>0, <1>13, WakeType DEF Arrive, PeerCloses, Wake
  <2>2. kernel' \in Seq(Bytes) /\ sending' \in Seq(Seq(Bytes)) /\ peer' \in {"none", "up", "gone"}
    <3>1. CASE Arrive
      <4>1. Head(sending) \in Seq(Bytes) /\ Tail(sending) \in Seq(Seq(Bytes))
        BY <3>1, HeadTailProperties DEF Arrive, TypeInv, TypeOK
      <4>2. kernel \o Head(sending) \in Seq(Bytes)
        BY <1>0, <4>1
      <4> QED BY <3>1, <4>1, <4>2 DEF Arrive, TypeInv, TypeOK
    <3>2. CASE PeerCloses
      BY <1>0, <3>2 DEF PeerCloses
    <3> QED BY <1>13, <3>1, <3>2
  <2>3. UNCHANGED <<alive, timer, readSome, taken>> /\ UNCHANGED <<readVars, exchangeVars>>
    BY <1>13 DEF Arrive, PeerCloses
  <2> QED BY <2>1, <2>2, <2>3 DEF readVars, exchangeVars, TypeInv, TypeOK, ReadInv, Handlers
<1>14. CASE Silence
  BY <1>0, <1>14 DEF Silence, ioVars, readVars, exchangeVars, TypeInv, TypeOK, ReadInv
<1>15. CASE UNCHANGED vars
  BY <1>15 DEF vars, TypeInv, TypeOK, ReadInv
<1>16. CASE \E r \in LineResponses : SendCommand("lines", r)
  BY <1>2, <1>16 DEF ResponsesOf
<1>17. CASE \E r \in ByteResponses : SendCommand("bytes", r)
  BY <1>2, <1>17 DEF ResponsesOf
<1> QED
  BY <1>3, <1>4, <1>5, <1>6, <1>8, <1>9, <1>10, <1>11, <1>12, <1>13, <1>14, <1>15, <1>16, <1>17
     DEF Next, Run

\* The types, and that between reads run() has nothing to do.
THEOREM TypeInvariant == Spec => []TypeInv
BY TypeInit, TypeStep, PTL DEF Spec

\* All variables keep their types, whatever the responses are, whenever timers
\* expire and whatever the peer does; transfer_exactly never reads more bytes than
\* the handler asked for.
THEOREM TypeCorrect == Spec => []TypeOK
BY TypeInvariant, PTL DEF TypeInv

-----------------------------------------------------------------------------
(* One line for each command *)

\* The responses for which the handler keeps its promise: they have one line, and
\* the line contains the delimiter only when all of its bytes have come.
OneLineAnswers ==
  \A r \in LineResponses :
    /\ Len(r) = 1
    /\ \A n \in 0..(Len(r[1] \o Delimiter) - 1) : ~HasDelimiter(SubSeq(r[1] \o Delimiter, 1, n))

\* All bytes of the response.
Response == OnTheWire(mode, expected)[1]

\* The handlers of a read_some that has ended.
Ended == {"read", "eof", "timeout"}
NoneEnded(q) == \A i \in DOMAIN q : q[i] \notin Ended
OneEnded(q) == \E i \in DOMAIN q : q[i] \in Ended /\ \A j \in DOMAIN q : q[j] \in Ended => j = i

\* Has a read_some ended with an error?
Failing(q) == \E i \in DOMAIN q : q[i] \in {"eof", "timeout"}

\* The composed operation is complete, or one read_some is waiting or has ended;
\* bytes are taken only by one that has ended with them.
OperationInv ==
  caller = "running" =>
    /\ \/ ~readCompleted /\ readSome = "waiting" /\ NoneEnded(queue)
       \/ ~readCompleted /\ readSome = "none" /\ OneEnded(queue)
       \/ readCompleted /\ readSome = "none" /\ NoneEnded(queue) /\ taken = <<>>
    /\ Failing(queue) => taken = <<>>
    /\ readCompleted /\ errorCode = "none" => IsComplete(mode, expected, buffer)

\* The bytes in the streambuf, those taken, those with the system and the rest.
AllBytes(b, t, k, z) == (b \o t) \o (k \o z)

\* The bytes of the response are in the streambuf, taken, with the system or still
\* to come; or the device sends nothing more.  On a connection that owes a response
\* the bytes of two responses are mixed.
BytesInv ==
  caller = "running" /\ ~owed =>
    /\ \A i \in DOMAIN sending : sending[i] # <<>>
    /\ \E rest \in Seq(Bytes) :
         /\ AllBytes(buffer, taken, kernel, rest) = Response
         /\ sending # <<>> => rest = FlattenSeq(sending)

\* Between exchanges nothing of a response is left, after a failed one neither,
\* unless the connection owes a response.
IdleInv ==
  /\ caller = "running" => outcome = "none" /\ results = <<>>
  /\ caller = "idle" =>
       /\ taken = <<>>
       /\ ~owed => kernel = <<>> /\ sending = <<>>

ExchangeInv == OperationInv /\ BytesInv /\ IdleInv

-----------------------------------------------------------------------------
(* Handlers *)

\* A handler more at the end of the queue.
LEMMA EndedAppend ==
  ASSUME NEW q \in Seq(Handlers), NEW h \in Handlers
  PROVE  /\ h \notin Ended /\ NoneEnded(q) => NoneEnded(Append(q, h))
         /\ h \notin Ended /\ OneEnded(q) => OneEnded(Append(q, h))
         /\ h \in Ended /\ NoneEnded(q) => OneEnded(Append(q, h))
         /\ Failing(Append(q, h)) => Failing(q) \/ h \in {"eof", "timeout"}
<1> DEFINE p == Append(q, h)
           n == Len(q)
<1>1. /\ n \in Nat /\ DOMAIN q = 1..n /\ DOMAIN p = 1..(n + 1)
      /\ \A i \in 1..n : p[i] = q[i]
      /\ p[n + 1] = h
  OBVIOUS
<1> HIDE DEF p, n
<1>2. /\ \A i \in DOMAIN p : i \in DOMAIN q \/ i = n + 1
      /\ \A i \in DOMAIN q : i \in DOMAIN p /\ i # n + 1 /\ p[i] = q[i]
      /\ n + 1 \in DOMAIN p
  BY <1>1
<1>3. /\ h \notin Ended /\ NoneEnded(q) => NoneEnded(p)
      /\ h \notin Ended /\ OneEnded(q) => OneEnded(p)
      /\ h \in Ended /\ NoneEnded(q) => OneEnded(p)
      /\ Failing(p) => Failing(q) \/ h \in {"eof", "timeout"}
  <2>1. h \notin Ended /\ NoneEnded(q) => NoneEnded(p)
    BY <1>1, <1>2 DEF NoneEnded
  <2>2. h \notin Ended /\ OneEnded(q) => OneEnded(p)
    BY <1>1, <1>2 DEF OneEnded
  <2>3. h \in Ended /\ NoneEnded(q) => OneEnded(p)
    BY <1>1, <1>2 DEF OneEnded, NoneEnded
  <2>4. Failing(p) => Failing(q) \/ h \in {"eof", "timeout"}
    BY <1>1, <1>2 DEF Failing
  <2> QED BY <2>1, <2>2, <2>3, <2>4
<1> QED BY <1>3 DEF p

\* The first handler has run.
LEMMA EndedTail ==
  ASSUME NEW q \in Seq(Handlers), q # <<>>
  PROVE  /\ NoneEnded(q) => Head(q) \notin Ended /\ NoneEnded(Tail(q))
         /\ OneEnded(q) /\ Head(q) \notin Ended => OneEnded(Tail(q))
         /\ OneEnded(q) /\ Head(q) \in Ended => NoneEnded(Tail(q))
         /\ Failing(Tail(q)) => Failing(q)
         /\ Head(q) \in {"eof", "timeout"} => Failing(q)
<1> DEFINE p == Tail(q)
           n == Len(q)
<1>1. /\ n \in Nat \ {0} /\ DOMAIN q = 1..n /\ DOMAIN p = 1..(n - 1)
      /\ \A i \in 1..(n - 1) : p[i] = q[i + 1]
      /\ Head(q) = q[1]
  OBVIOUS
<1> HIDE DEF p, n
<1>2. /\ \A i \in DOMAIN p : i + 1 \in DOMAIN q /\ i + 1 # 1 /\ p[i] = q[i + 1]
      /\ \A i \in DOMAIN q : i # 1 => i - 1 \in DOMAIN p /\ p[i - 1] = q[i]
      /\ 1 \in DOMAIN q
      /\ \A i, j \in DOMAIN p : i + 1 = j + 1 => i = j
      /\ \A i \in DOMAIN q : \A j \in DOMAIN p : j + 1 = i => j = i - 1
  BY <1>1
<1>3. NoneEnded(q) => Head(q) \notin Ended /\ NoneEnded(p)
  BY <1>1, <1>2 DEF NoneEnded
<1>4. OneEnded(q) /\ Head(q) \notin Ended => OneEnded(p)
  <2> SUFFICES ASSUME OneEnded(q), Head(q) \notin Ended PROVE OneEnded(p)
    OBVIOUS
  <2>1. PICK i \in DOMAIN q : q[i] \in Ended /\ \A j \in DOMAIN q : q[j] \in Ended => j = i
    BY DEF OneEnded
  <2>2. i # 1
    BY <1>1, <2>1
  <2>3. i - 1 \in DOMAIN p /\ p[i - 1] \in Ended
    BY <1>2, <2>1, <2>2
  <2>4. \A j \in DOMAIN p : p[j] \in Ended => j = i - 1
    BY <1>2, <2>1
  <2> QED BY <2>3, <2>4 DEF OneEnded
<1>5. OneEnded(q) /\ Head(q) \in Ended => NoneEnded(p)
  <2> SUFFICES ASSUME OneEnded(q), Head(q) \in Ended PROVE NoneEnded(p)
    OBVIOUS
  <2>1. \A j \in DOMAIN q : q[j] \in Ended => j = 1
    BY <1>1, <1>2, SMTT(30) DEF OneEnded
  <2> QED BY <1>2, <2>1 DEF NoneEnded
<1>6. Failing(p) => Failing(q)
  BY <1>2 DEF Failing
<1>7. Head(q) \in {"eof", "timeout"} => Failing(q)
  BY <1>1, <1>2 DEF Failing
<1> QED BY <1>3, <1>4, <1>5, <1>6, <1>7 DEF p

\* A read_some that was waiting has been performed: its handler is the first.
LEMMA EndedFirst ==
  ASSUME NEW q \in Seq(Handlers), q # <<>>, NoneEnded(q)
  PROVE  OneEnded(<<"read">> \o Tail(q)) /\ ~Failing(<<"read">> \o Tail(q))
<1> DEFINE t == Tail(q)
           p == <<"read">> \o t
           n == Len(t)
<1>1. NoneEnded(t) /\ t \in Seq(Handlers)
  BY EndedTail, QueueType
<1> HIDE DEF t
<1>2. /\ n \in Nat /\ DOMAIN t = 1..n /\ DOMAIN p = 1..(n + 1)
      /\ p[1] = "read"
      /\ \A i \in 2..(n + 1) : p[i] = t[i - 1]
  BY <1>1
<1> HIDE DEF p, n
<1>3. \A i \in DOMAIN p : i # 1 => i - 1 \in DOMAIN t /\ p[i] = t[i - 1]
  BY <1>2
<1>4. 1 \in DOMAIN p
  BY <1>2
<1>5. OneEnded(p)
  BY <1>1, <1>2, <1>3, <1>4 DEF OneEnded, NoneEnded, Ended
<1>6. ~Failing(p)
  BY <1>1, <1>2, <1>3, <1>4 DEF Failing, NoneEnded, Ended
<1> QED BY <1>5, <1>6 DEF p, t

\* An empty queue of handlers ends no read.
LEMMA EndedEmpty == NoneEnded(<<>>) /\ ~OneEnded(<<>>) /\ ~Failing(<<>>)
<1>1. DOMAIN <<>> = {}
  OBVIOUS
<1> QED BY <1>1 DEF NoneEnded, OneEnded, Failing

\* A read_some that begins waits, or ends.
LEMMA BeginReadSomeOperation ==
  ASSUME NEW m, NEW r, NEW b, NEW k \in Seq(Bytes), NEW q \in Seq(Handlers), NoneEnded(q),
         BeginReadSome(m, r, b, k, q)
  PROVE  \/ readSome' = "waiting" /\ NoneEnded(queue') /\ ~Failing(queue')
         \/ readSome' = "none" /\ OneEnded(queue') /\ (Failing(queue') => k = <<>>)
<1>1. ~Failing(q)
  BY DEF NoneEnded, Failing, Ended
<1>2. CASE k # <<>>
  <2>1. queue' = Append(q, "read") /\ readSome' = "none"
    <3>1. q \o <<"read">> = Append(q, "read")
      OBVIOUS
    <3> QED BY <1>2, <3>1 DEF BeginReadSome
  <2>2. "read" \in Handlers /\ "read" \in Ended /\ "read" \notin {"eof", "timeout"}
    BY DEF Handlers, Ended
  <2> QED BY <1>1, <2>1, <2>2, EndedAppend
<1>3. CASE k = <<>> /\ peer = "gone"
  <2>1. queue' = Append(q, "eof") /\ readSome' = "none"
    <3>1. q \o <<"eof">> = Append(q, "eof")
      OBVIOUS
    <3> QED BY <1>3, <3>1 DEF BeginReadSome
  <2>2. "eof" \in Handlers /\ "eof" \in Ended
    BY DEF Handlers, Ended
  <2> QED BY <1>3, <2>1, <2>2, EndedAppend
<1>4. CASE k = <<>> /\ peer # "gone"
  <2>1. queue' = q /\ readSome' = "waiting"
    <3>1. q \o <<>> = q
      OBVIOUS
    <3> QED BY <1>4, <3>1 DEF BeginReadSome
  <2> QED BY <1>1, <2>1
<1> QED BY <1>2, <1>3, <1>4

\* The composed operation is complete.
LEMMA OnReadFinishOperation ==
  ASSUME NEW e, NEW q \in Seq(Handlers), NoneEnded(q), OnReadFinish(e, q)
  PROVE  NoneEnded(queue') /\ ~Failing(queue') /\ readCompleted' = TRUE /\ errorCode' = e
<1>1. "cancelled" \in Handlers /\ "cancelled" \notin Ended
  BY DEF Handlers, Ended
<1>2. NoneEnded(queue')
  BY <1>1, EndedAppend DEF OnReadFinish
<1> QED BY <1>2 DEF OnReadFinish, NoneEnded, Failing, Ended

-----------------------------------------------------------------------------
(* Bytes *)

\* The first n bytes of a response, all of them when n is large enough.
LEMMA PrefixOf ==
  ASSUME NEW b \in Seq(Bytes), NEW z \in Seq(Bytes)
  PROVE  /\ b = SubSeq(b \o z, 1, Len(b))
         /\ Len(b \o z) = Len(b) + Len(z)
         /\ Len(b \o z) <= Len(b) => z = <<>> /\ b \o z = b
<1>1. Len(b) \in Nat /\ Len(z) \in Nat /\ Len(b \o z) = Len(b) + Len(z) /\ b \o z \in Seq(Bytes)
  OBVIOUS
<1>2. b = SubSeq(b \o z, 1, Len(b))
  <2> DEFINE t == SubSeq(b \o z, 1, Len(b))
  <2>1. Len(b) \in 0..Len(b \o z)
    BY <1>1
  <2>2. t \in Seq(Bytes) /\ Len(t) = Len(b)
    BY <1>1, <2>1, SplitAt
  <2>3. \A i \in 1..Len(b) : t[i] = b[i]
    BY <1>1
  <2> HIDE DEF t
  <2>4. t = b
    BY <2>2, <2>3, SeqEqual
  <2> QED BY <2>4 DEF t
<1>3. Len(b \o z) <= Len(b) => z = <<>>
  BY <1>1
<1>4. b \o <<>> = b
  OBVIOUS
<1> QED BY <1>1, <1>2, <1>3, <1>4

\* How the response of one line, or of bytes, reaches the socket.
LEMMA ChunksOfResponse ==
  ASSUME OneLineAnswers, NEW m \in {"lines", "bytes"}, NEW r \in ResponsesOf(m)
  PROVE  /\ Len(r) = 1 /\ OnTheWire(m, r) = <<OnTheWire(m, r)[1]>>
         /\ OnTheWire(m, r)[1] \in Seq(Bytes)
         /\ Chunks(m, r) \in Seq(Seq(Bytes))
         /\ FlattenSeq(Chunks(m, r)) = OnTheWire(m, r)[1]
         /\ \A i \in DOMAIN Chunks(m, r) : Chunks(m, r)[i] # <<>>
<1>1. r \in Seq(Seq(Bytes)) /\ Len(r) = 1
  BY ResponseType DEF OneLineAnswers, ResponsesOf
<1>0. 1 \in DOMAIN r /\ r[1] \in Seq(Bytes)
  <2>1. \A x \in Seq(Seq(Bytes)) : Len(x) = 1 => 1 \in DOMAIN x /\ x[1] \in Seq(Bytes)
    OBVIOUS
  <2> QED BY <1>1, <2>1
<1> DEFINE w == OnTheWire(m, r)
           t == w[1]
<1>2. w \in Seq(Seq(Bytes)) /\ Len(w) = 1 /\ Chunks(m, r) \in Seq(Seq(Bytes))
  BY <1>1, ChunksType
<1>3. t \in Seq(Bytes) /\ t # <<>>
  <2>1. 1 \in DOMAIN r /\ r[1] \in Seq(Bytes)
    BY <1>0
  <2>2. CASE m = "lines"
    <3>1. t = r[1] \o Delimiter /\ Delimiter \in Seq(Bytes) /\ Delimiter # <<>>
      BY <2>1, <2>2, BytesAssumption DEF OnTheWire
    <3>2. Len(r[1] \o Delimiter) = Len(r[1]) + Len(Delimiter) /\ Len(Delimiter) > 0
      BY <2>1, <3>1
    <3>3. r[1] \o Delimiter \in Seq(Bytes) /\ Len(<<>>) = 0
      BY <2>1, <3>1
    <3> QED BY <2>1, <3>1, <3>2, <3>3
  <2>3. CASE m = "bytes"
    BY <2>1, <2>3, ResponseType DEF OnTheWire
  <2> QED BY <2>2, <2>3
<1> HIDE DEF w
<1>4. w = <<t>>
  BY <1>2
<1>5. FlattenSeq(w) = t
  BY <1>3, <1>4, FlattenOne
<1>6. \A i \in DOMAIN w : w[i] # <<>>
  BY <1>2, <1>3
<1> HIDE DEF t
<1> DEFINE c == [i \in DOMAIN t |-> <<t[i]>>]
<1>7. FlattenSeq(c) = t
  BY <1>3, FlattenSingletons
<1>8. \A i \in DOMAIN c : c[i] # <<>>
  OBVIOUS
<1> HIDE DEF c
<1>9. Chunks(m, r) = IF m \in SplitModes THEN c ELSE w
  BY <1>5 DEF Chunks, c, w
<1> QED BY <1>1, <1>2, <1>3, <1>4, <1>5, <1>6, <1>7, <1>8, <1>9 DEF w, t

\* A read of one line, or of bytes, is complete only when the whole response is in
\* the streambuf.
LEMMA CompleteIsAll ==
  ASSUME OneLineAnswers, NEW m \in {"lines", "bytes"}, NEW r \in ResponsesOf(m),
         NEW b \in Seq(Bytes), NEW z \in Seq(Bytes), b \o z = OnTheWire(m, r)[1],
         IsComplete(m, r, b)
  PROVE  z = <<>> /\ b = OnTheWire(m, r)[1]
<1> DEFINE t == OnTheWire(m, r)[1]
<1>1. t = b \o z /\ Len(b) \in Nat /\ Len(t) \in Nat
  OBVIOUS
<1>2. r \in Seq(Seq(Bytes)) /\ Len(r) = 1
  BY ResponseType DEF OneLineAnswers, ResponsesOf
<1>3. Len(t) <= Len(b)
  <2>1. CASE m = "lines"
    <3>1. t = r[1] \o Delimiter
      BY <1>2, <2>1 DEF OnTheWire
    <3>2. \A n \in 0..(Len(t) - 1) : ~HasDelimiter(SubSeq(t, 1, n))
      BY <2>1, <3>1 DEF OneLineAnswers, ResponsesOf
    <3> HIDE DEF t
    <3>3. HasDelimiter(SubSeq(t, 1, Len(b)))
      BY <1>1, <2>1, PrefixOf DEF IsComplete
    <3>4. Len(b) \notin 0..(Len(t) - 1)
      BY <3>2, <3>3
    <3> QED BY <1>1, <3>4
  <2>2. CASE m = "bytes"
    <3>1. t = r[1]
      BY <1>2, <2>2 DEF OnTheWire
    <3> QED BY <1>1, <2>2, <3>1 DEF IsComplete
  <2> QED BY <2>1, <2>2
<1> HIDE DEF t
<1>4. z = <<>> /\ b \o z = b
  BY <1>1, <1>3, PrefixOf
<1> QED BY <1>1, <1>4 DEF t

\* Bytes put together in another order.
LEMMA JoinsLeft ==
  ASSUME NEW S, NEW c \in Seq(S), NEW u \in Seq(S), NEW x \in Seq(S), NEW y, Joins(y, u, x)
  PROVE  Joins((c \o u) \o x, c, y)
<1>1. (c \o u) \o x = c \o (u \o x)
  BY ConcatAssociative
<1> QED BY <1>1 DEF Joins

\* What is joined on the right of a part is joined on the right of the whole.
LEMMA JoinsRight ==
  ASSUME NEW S, NEW u \in Seq(S), NEW v \in Seq(S), NEW z \in Seq(S),
         NEW k, Joins(k, u, v), NEW x, Joins(x, v, z)
  PROVE  Joins(k \o z, u, x)
<1>1. (u \o v) \o z = u \o (v \o z)
  BY ConcatAssociative
<1> QED BY <1>1 DEF Joins

\* The bytes taken go to the streambuf, and others are taken: no byte is lost.
LEMMA Regroup ==
  ASSUME NEW b \in Seq(Bytes), NEW t \in Seq(Bytes), NEW c, Joins(c, b, t),
         NEW u \in Seq(Bytes), NEW v \in Seq(Bytes), NEW k, Joins(k, u, v), NEW z \in Seq(Bytes)
  PROVE  AllBytes(c, u, v, z) = AllBytes(b, t, k, z)
<1>1. c \in Seq(Bytes) /\ v \o z \in Seq(Bytes)
  BY DEF Joins
<1>2. PICK x \in Seq(Bytes) : Joins(x, v, z)
  BY <1>1, Zenon DEF Joins
<1>3. Joins(k \o z, u, x)
  BY <1>2, JoinsRight
<1>4. Joins((c \o u) \o x, c, k \o z)
  <2>1. PICK y : y = k \o z
    OBVIOUS
  <2>2. Joins(y, u, x)
    BY <1>3, <2>1
  <2>3. Joins((c \o u) \o x, c, y)
    BY <1>1, <2>2, JoinsLeft
  <2> QED BY <2>1, <2>3
<1> QED BY <1>2, <1>4 DEF AllBytes, Joins

-----------------------------------------------------------------------------
(* The exchange with responses of one line *)

\* Before the first command nothing is on its way.
LEMMA ExchangeInit == Init => ExchangeInv
BY DEF Init, ExchangeInv, OperationInv, BytesInv, IdleInv

\* What a read that runs knows of the bytes of its response.
LEMMA WhereBytesAre ==
  ASSUME OneLineAnswers, TypeInv, ExchangeInv, caller = "running"
  PROVE  /\ mode \in {"lines", "bytes"} /\ expected \in ResponsesOf(mode) /\ Len(expected) = 1
         /\ buffer \in Seq(Bytes) /\ taken \in Seq(Bytes) /\ kernel \in Seq(Bytes)
         /\ sending \in Seq(Seq(Bytes)) /\ queue \in Seq(Handlers)
         /\ outcome = "none" /\ results = <<>>
         /\ ~owed =>
              /\ \A i \in DOMAIN sending : sending[i] # <<>>
              /\ \E rest \in Seq(Bytes) :
                   /\ AllBytes(buffer, taken, kernel, rest) = Response
                   /\ sending # <<>> => rest = FlattenSeq(sending)
<1>1. /\ mode \in {"lines", "bytes"} /\ expected \in ResponsesOf(mode)
      /\ buffer \in Seq(Bytes) /\ taken \in Seq(Bytes) /\ kernel \in Seq(Bytes)
      /\ sending \in Seq(Seq(Bytes)) /\ queue \in Seq(Handlers)
  BY RunningType DEF TypeInv, TypeOK
<1>2. Len(expected) = 1
  BY <1>1, ChunksOfResponse
<1> QED BY <1>1, <1>2 DEF ExchangeInv, BytesInv, IdleInv

\* The composed operation has not ended.
LEMMA Continues ==
  ASSUME ExchangeInv, caller = "running",
         UNCHANGED <<readCompleted, errorCode, mode, expected, buffer>>,
         \/ ~readCompleted /\ readSome' = "waiting" /\ NoneEnded(queue') /\ ~Failing(queue')
         \/ /\ ~readCompleted /\ readSome' = "none" /\ OneEnded(queue')
            /\ Failing(queue') => taken' = <<>>
         \/ /\ readCompleted /\ readSome' = "none" /\ NoneEnded(queue') /\ taken' = <<>>
            /\ ~Failing(queue')
  PROVE  OperationInv'
BY DEF ExchangeInv, OperationInv

\* The queue loses or gets handlers of no read_some.
LEMMA OtherHandlers ==
  ASSUME ExchangeInv, TypeInv,
         UNCHANGED <<caller, readCompleted, errorCode, mode, expected, buffer, taken, readSome>>,
         NoneEnded(queue) => NoneEnded(queue'), OneEnded(queue) => OneEnded(queue'),
         Failing(queue') => Failing(queue)
  PROVE  OperationInv'
<1>1. UNCHANGED IsComplete(mode, expected, buffer)
  OBVIOUS
<1> QED BY <1>1 DEF ExchangeInv, OperationInv

\* Nothing of the response has moved.
LEMMA BytesStay ==
  ASSUME ExchangeInv, UNCHANGED <<caller, mode, expected, owed, buffer, taken, kernel>>,
         sending' = sending \/ sending' = <<>>
  PROVE  BytesInv'
<1> SUFFICES ASSUME caller = "running", ~owed PROVE BytesInv'
  BY DEF BytesInv
<1>1. Response' = Response
  BY DEF Response
<1>2. PICK rest \in Seq(Bytes) :
        /\ AllBytes(buffer, taken, kernel, rest) = Response
        /\ sending # <<>> => rest = FlattenSeq(sending)
  BY DEF ExchangeInv, BytesInv
<1>3. \A i \in DOMAIN sending' : sending'[i] # <<>>
  <2>1. DOMAIN <<>> = {}
    OBVIOUS
  <2> QED BY <2>1 DEF ExchangeInv, BytesInv
<1>4. AllBytes(buffer', taken', kernel', rest) = Response'
  BY <1>1, <1>2
<1>5. sending' # <<>> => rest = FlattenSeq(sending')
  BY <1>2
<1> QED BY <1>3, <1>4, <1>5 DEF BytesInv

\* The exchange begins: with nothing in the socket, or with what is owed.
LEMMA SendCommandStep ==
  ASSUME OneLineAnswers, TypeInv, ExchangeInv, NEW m \in {"lines", "bytes"},
         NEW r \in ResponsesOf(m), SendCommand(m, r)
  PROVE  ExchangeInv'
<1>1. /\ caller' = "running" /\ mode' = m /\ expected' = r /\ results' = <<>>
      /\ outcome' = "none" /\ owed' = owed /\ kernel \in Seq(Bytes)
  BY DEF SendCommand, TypeInv, TypeOK
<1>2. /\ BeginReadSome(m, r, <<>>, kernel, <<>>) /\ buffer' = <<>> /\ readCompleted' = FALSE
  BY DEF SendCommand, BeginRead
<1>3. /\ <<>> \in Seq(Bytes) /\ <<>> \in Seq(Handlers) /\ Len(<<>>) = 0
      /\ <<>> \o <<>> = <<>> /\ DOMAIN <<>> = {}
  OBVIOUS
<1>4. /\ taken' \in Seq(Bytes) /\ kernel' \in Seq(Bytes) /\ Joins(kernel, taken', kernel')
      /\ kernel = <<>> => taken' = <<>>
  <2>1. Fits(m, r, <<>>)
    BY <1>3, ResponseType DEF Fits
  <2> QED BY <1>1, <1>2, <1>3, <2>1, BeginReadSomeType
<1>5. OperationInv'
  <2>1. \/ readSome' = "waiting" /\ NoneEnded(queue') /\ ~Failing(queue')
        \/ readSome' = "none" /\ OneEnded(queue') /\ (Failing(queue') => kernel = <<>>)
    BY <1>1, <1>2, <1>3, EndedEmpty, BeginReadSomeOperation
  <2> QED BY <1>1, <1>2, <1>4, <2>1 DEF OperationInv
<1>6. ASSUME ~owed PROVE BytesInv'
  <2> DEFINE t == OnTheWire(m, r)[1]
  <2>1. /\ t \in Seq(Bytes) /\ FlattenSeq(Chunks(m, r)) = t
        /\ Chunks(m, r) \in Seq(Seq(Bytes))
        /\ \A i \in DOMAIN Chunks(m, r) : Chunks(m, r)[i] # <<>>
    BY ChunksOfResponse
  <2>2. Response' = t
    BY <1>1 DEF Response
  <2>3. kernel = <<>> /\ sending = <<>>
    BY <1>6 DEF SendCommand, Usable, ExchangeInv, IdleInv
  <2> HIDE DEF t
  <2>4. taken' = <<>> /\ kernel' = <<>>
    <3>1. <<>> \o kernel' = kernel'
      BY <1>4
    <3> QED BY <1>4, <2>3, <3>1 DEF Joins
  <2>5. <<>> \o t = t
    BY <2>1
  <2>6. AllBytes(buffer', taken', kernel', t) = Response'
    BY <1>2, <1>3, <2>2, <2>4, <2>5 DEF AllBytes
  <2>7. sending' = Chunks(m, r) \/ sending' = <<>>
    <3>1. <<>> \o Chunks(m, r) = Chunks(m, r)
      BY <2>1
    <3> QED BY <2>3, <3>1 DEF SendCommand
  <2>8. /\ \A i \in DOMAIN sending' : sending'[i] # <<>>
        /\ sending' # <<>> => t = FlattenSeq(sending')
    BY <1>3, <2>1, <2>7
  <2> QED BY <2>1, <2>6, <2>8 DEF BytesInv
<1>7. owed => BytesInv'
  BY <1>1 DEF BytesInv
<1>8. IdleInv'
  BY <1>1 DEF IdleInv
<1> QED BY <1>5, <1>6, <1>7, <1>8 DEF ExchangeInv

\* When run() returns, the composed operation is complete.
LEMMA RunDoneCompleted ==
  ASSUME ExchangeInv, RunDone
  PROVE  readCompleted /\ taken = <<>> /\ caller = "running"
BY EndedEmpty DEF RunDone, ExchangeInv, OperationInv

\* There is one result for each command.
LEMMA CollectEnds ==
  ASSUME OneLineAnswers, TypeInv, ExchangeInv, Collect
  PROVE  /\ caller = "running" /\ caller' = "idle" /\ outcome' = "ok"
         /\ results' = <<buffer>> /\ outcome = "none"
         /\ UNCHANGED <<mode, expected, owed>> /\ UNCHANGED <<ioVars, readVars, networkVars>>
         /\ taken = <<>>
<1>1. taken = <<>> /\ caller = "running"
  BY RunDoneCompleted DEF Collect
<1>2. Len(expected) = 1 /\ outcome = "none" /\ results = <<>>
  BY <1>1, WhereBytesAre
<1>3. results' = <<buffer>> /\ Len(results') = 1
  <2>1. Append(<<>>, buffer) = <<buffer>> /\ Len(<<buffer>>) = 1
    OBVIOUS
  <2> QED BY <1>2, <2>1 DEF Collect
<1>4. /\ caller' = "idle" /\ outcome' = "ok" /\ UNCHANGED <<mode, expected, owed>>
      /\ UNCHANGED <<ioVars, readVars, networkVars>>
  BY <1>2, <1>3 DEF Collect
<1> QED BY <1>1, <1>2, <1>3, <1>4

\* On a connection that owes nothing the response is returned: nothing of it is left.
LEMMA CollectedIsResponse ==
  ASSUME OneLineAnswers, TypeInv, ExchangeInv, Collect, ~owed
  PROVE  /\ results' = OnTheWire(mode, expected)
         /\ kernel = <<>> /\ sending = <<>>
<1>1. readCompleted /\ taken = <<>> /\ caller = "running" /\ errorCode = "none"
  BY RunDoneCompleted DEF Collect
<1>2. PICK rest \in Seq(Bytes) :
        /\ AllBytes(buffer, taken, kernel, rest) = Response
        /\ sending # <<>> => rest = FlattenSeq(sending)
  BY <1>1, WhereBytesAre
<1>3. /\ mode \in {"lines", "bytes"} /\ expected \in ResponsesOf(mode)
      /\ buffer \in Seq(Bytes) /\ kernel \in Seq(Bytes) /\ sending \in Seq(Seq(Bytes))
      /\ \A i \in DOMAIN sending : sending[i] # <<>>
  BY <1>1, WhereBytesAre
<1>4. kernel \o rest \in Seq(Bytes) /\ Len(kernel \o rest) = Len(kernel) + Len(rest)
  BY <1>3
<1>5. buffer \o (kernel \o rest) = OnTheWire(mode, expected)[1]
  <2>1. buffer \o <<>> = buffer
    BY <1>3
  <2> QED BY <1>1, <1>2, <2>1 DEF Response, AllBytes
<1>6. IsComplete(mode, expected, buffer)
  BY <1>1 DEF ExchangeInv, OperationInv
<1>7. kernel \o rest = <<>> /\ buffer = OnTheWire(mode, expected)[1]
  BY <1>3, <1>4, <1>5, <1>6, CompleteIsAll
<1>8. kernel = <<>> /\ rest = <<>>
  BY <1>3, <1>4, <1>7
<1>9. sending = <<>>
  BY <1>2, <1>3, <1>8, NothingLeft
<1>10. results' = <<buffer>>
  BY CollectEnds
<1>11. results' = OnTheWire(mode, expected)
  BY <1>3, <1>7, <1>10, ChunksOfResponse
<1> QED BY <1>8, <1>9, <1>11

\* A read has ended, with the response or an exception.
LEMMA ReadEndStep ==
  ASSUME OneLineAnswers, TypeInv, ExchangeInv, Collect \/ ReadFailed
  PROVE  ExchangeInv'
<1>1. CASE Collect
  BY <1>1, CollectEnds, CollectedIsResponse
     DEF ioVars, readVars, networkVars, ExchangeInv, OperationInv, BytesInv, IdleInv
<1>2. CASE ReadFailed
  <2>1. taken = <<>>
    BY <1>2, RunDoneCompleted DEF ReadFailed
  <2> QED BY <1>2, <2>1
          DEF ReadFailed, ioVars, readVars, networkVars, ExchangeInv, OperationInv, BytesInv, IdleInv
<1> QED BY <1>1, <1>2

\* A handler runs only while the caller waits.
LEMMA HandlerRuns ==
  ASSUME TypeInv, ExchangeInv, queue # <<>>
  PROVE  caller = "running" /\ queue \in Seq(Handlers) /\ Tail(queue) \in Seq(Handlers)
<1>1. caller = "running" /\ queue \in Seq(Handlers)
  BY DEF TypeInv, TypeOK, ReadInv, Handlers
<1> QED BY <1>1, QueueType

\* The bytes at hand have been distributed anew; none has come.
LEMMA BytesTaken ==
  ASSUME OneLineAnswers, TypeInv, ExchangeInv, caller = "running",
         UNCHANGED <<caller, mode, expected, owed, sending>>,
         taken' \in Seq(Bytes), kernel' \in Seq(Bytes), Joins(kernel, taken', kernel'),
         Joins(buffer', buffer, taken)
  PROVE  BytesInv'
<1> SUFFICES ASSUME ~owed PROVE BytesInv'
  BY DEF BytesInv
<1>1. PICK rest \in Seq(Bytes) :
        /\ AllBytes(buffer, taken, kernel, rest) = Response
        /\ sending # <<>> => rest = FlattenSeq(sending)
  BY WhereBytesAre
<1>2. Response' = Response
  BY DEF Response
<1>3. AllBytes(buffer', taken', kernel', rest) = AllBytes(buffer, taken, kernel, rest)
  <2>1. buffer \in Seq(Bytes) /\ taken \in Seq(Bytes)
    BY WhereBytesAre
  <2> QED BY <2>1, Regroup
<1>4. AllBytes(buffer', taken', kernel', rest) = Response'
  BY <1>1, <1>2, <1>3
<1>5. \A j \in DOMAIN sending : sending[j] # <<>>
  BY WhereBytesAre
<1> QED BY <1>1, <1>4, <1>5 DEF BytesInv

\* read_some takes bytes from the kernel, in their order.
LEMMA RunReadyStep ==
  ASSUME OneLineAnswers, TypeInv, ExchangeInv, RunReady
  PROVE  ExchangeInv'
<1>1. /\ queue # <<>> /\ readSome = "waiting" /\ readSome' = "none" /\ kernel # <<>>
      /\ queue' = <<"read">> \o Tail(queue)
      /\ taken' = SubSeq(kernel, 1, Wanted(mode, expected, buffer, kernel))
      /\ kernel' = SubSeq(kernel, Wanted(mode, expected, buffer, kernel) + 1, Len(kernel))
      /\ UNCHANGED <<alive, peer, sending, caller, mode, expected, results, outcome, owed, buffer,
                     readCompleted, errorCode>>
  BY DEF RunReady, NextIs, networkVars, exchangeVars, readVars
<1>2. caller = "running" /\ queue \in Seq(Handlers)
  BY <1>1, HandlerRuns
<1>3. /\ mode \in {"lines", "bytes"} /\ expected \in ResponsesOf(mode)
      /\ buffer \in Seq(Bytes) /\ kernel \in Seq(Bytes)
      /\ taken = <<>> /\ Fits(mode, expected, buffer)
  BY <1>1, <1>2, RunningType
<1>4. /\ taken' \in Seq(Bytes) /\ kernel' \in Seq(Bytes)
      /\ Joins(kernel, taken', kernel')
  BY <1>1, <1>3, TakenOfBytes
<1>5. Joins(buffer', buffer, taken)
  <2>1. buffer \o <<>> = buffer
    BY <1>3
  <2> QED BY <1>1, <1>3, <2>1 DEF Joins
<1>6. BytesInv'
  BY <1>1, <1>2, <1>4, <1>5, BytesTaken
<1>7. ~readCompleted /\ NoneEnded(queue)
  BY <1>1, <1>2 DEF ExchangeInv, OperationInv
<1>8. OneEnded(queue') /\ ~Failing(queue')
  BY <1>1, <1>2, <1>7, EndedFirst
<1>9. OperationInv'
  BY <1>1, <1>2, <1>7, <1>8, Continues
<1> QED BY <1>1, <1>2, <1>6, <1>9 DEF ExchangeInv, IdleInv

\* The handler of a read appends what was taken, and reads on or ends.
LEMMA RunReadStep ==
  ASSUME OneLineAnswers, TypeInv, ExchangeInv, RunRead
  PROVE  ExchangeInv'
<1>1. /\ queue # <<>> /\ Head(queue) = "read" /\ buffer' = buffer \o taken
      /\ UNCHANGED <<sending, caller, mode, expected, results, outcome, owed>>
  BY DEF RunRead, NextIs, networkVars, exchangeVars
<1>2. caller = "running" /\ queue \in Seq(Handlers) /\ Tail(queue) \in Seq(Handlers)
  BY <1>1, HandlerRuns
<1>3. /\ mode \in {"lines", "bytes"} /\ expected \in ResponsesOf(mode)
      /\ buffer \in Seq(Bytes) /\ taken \in Seq(Bytes) /\ kernel \in Seq(Bytes)
      /\ Fits(mode, expected, buffer \o taken)
  BY <1>2, RunningType
<1>4. ~readCompleted /\ readSome = "none" /\ NoneEnded(Tail(queue))
  <2>1. Head(queue) \in Ended
    BY <1>1 DEF Ended
  <2>2. ~NoneEnded(queue)
    BY <1>1, <1>2, <2>1, EndedTail
  <2>3. ~readCompleted /\ readSome = "none" /\ OneEnded(queue)
    BY <1>2, <2>2 DEF ExchangeInv, OperationInv
  <2> QED BY <1>1, <1>2, <2>1, <2>3, EndedTail
<1>7. Joins(buffer', buffer, taken)
  BY <1>1 DEF Joins
<1>5. CASE IsComplete(mode, expected, buffer')
  <2>1. /\ OnReadFinish("none", Tail(queue)) /\ taken' = <<>> /\ UNCHANGED <<kernel, readSome>>
    BY <1>5 DEF RunRead
  <2>2. /\ NoneEnded(queue') /\ ~Failing(queue') /\ readCompleted' = TRUE /\ errorCode' = "none"
    BY <1>2, <1>4, <2>1, OnReadFinishOperation
  <2>3. OperationInv'
    BY <1>1, <1>4, <1>5, <2>1, <2>2 DEF OperationInv
  <2>4. taken' \in Seq(Bytes) /\ kernel' \in Seq(Bytes) /\ Joins(kernel, taken', kernel')
    <3>1. <<>> \in Seq(Bytes) /\ <<>> \o kernel = kernel
      BY <1>3
    <3> QED BY <1>3, <2>1, <3>1 DEF Joins
  <2>5. BytesInv'
    BY <1>1, <1>2, <1>7, <2>4, BytesTaken
  <2> QED BY <1>1, <1>2, <2>3, <2>5 DEF ExchangeInv, IdleInv
<1>6. CASE ~IsComplete(mode, expected, buffer')
  <2>1. /\ BeginReadSome(mode, expected, buffer', kernel, Tail(queue))
        /\ UNCHANGED <<readCompleted, errorCode>>
    BY <1>6 DEF RunRead
  <2>2. buffer' \in Seq(Bytes) /\ Fits(mode, expected, buffer')
    BY <1>1, <1>3
  <2>3. /\ taken' \in Seq(Bytes) /\ kernel' \in Seq(Bytes)
        /\ Joins(kernel, taken', kernel')
        /\ kernel = <<>> => taken' = <<>>
        /\ Fits(mode, expected, buffer' \o taken')
    BY <1>2, <1>3, <2>1, <2>2, BeginReadSomeType
  <2>4. \/ readSome' = "waiting" /\ NoneEnded(queue') /\ ~Failing(queue')
        \/ readSome' = "none" /\ OneEnded(queue') /\ (Failing(queue') => kernel = <<>>)
    BY <1>2, <1>3, <1>4, <2>1, BeginReadSomeOperation
  <2>5. OperationInv'
    BY <1>1, <1>4, <2>1, <2>3, <2>4 DEF OperationInv
  <2>6. BytesInv'
    BY <1>1, <1>2, <1>7, <2>3, BytesTaken
  <2> QED BY <1>1, <1>2, <2>5, <2>6 DEF ExchangeInv, IdleInv
<1> QED BY <1>5, <1>6

\* The read ends with an error.
LEMMA ReadErrorStep ==
  ASSUME OneLineAnswers, TypeInv, ExchangeInv, RunReadyAtEof \/ RunError
  PROVE  ExchangeInv'
<1>1. /\ queue # <<>> /\ UNCHANGED <<taken, kernel, buffer, sending, caller, mode, expected,
                                     results, outcome, owed>>
  BY DEF RunReadyAtEof, RunError, NextIs, networkVars, exchangeVars
<1>2. caller = "running" /\ queue \in Seq(Handlers) /\ Tail(queue) \in Seq(Handlers)
  BY <1>1, HandlerRuns
<1>3. PICK e \in {"timeout", "eof"} : OnReadFinish(e, Tail(queue))
  BY DEF RunReadyAtEof, RunError, NextIs
<1>4. NoneEnded(Tail(queue)) /\ readSome' = "none" /\ taken = <<>>
  <2>1. CASE RunReadyAtEof
    <3>1. readSome = "waiting" /\ readSome' = "none" /\ Head(queue) = "ready"
      BY <2>1 DEF RunReadyAtEof, NextIs
    <3>2. taken = <<>> /\ NoneEnded(queue)
      BY <1>2, <3>1, RunningType DEF ExchangeInv, OperationInv
    <3> QED BY <1>1, <1>2, <3>1, <3>2, EndedTail
  <2>2. CASE RunError
    <3>1. Head(queue) \in {"eof", "timeout"} /\ Head(queue) \in Ended /\ readSome' = readSome
      BY <2>2 DEF RunError, NextIs, Ended
    <3>2. Failing(queue) /\ ~NoneEnded(queue)
      BY <1>1, <1>2, <3>1, EndedTail
    <3>3. readSome = "none" /\ OneEnded(queue) /\ taken = <<>>
      BY <1>2, <3>2 DEF ExchangeInv, OperationInv
    <3> QED BY <1>1, <1>2, <3>1, <3>3, EndedTail
  <2> QED BY <2>1, <2>2
<1>5. NoneEnded(queue') /\ ~Failing(queue') /\ readCompleted' = TRUE /\ errorCode' = e
  BY <1>2, <1>3, <1>4, OnReadFinishOperation
<1>6. OperationInv'
  BY <1>1, <1>3, <1>4, <1>5 DEF OperationInv
<1>7. BytesInv'
  BY <1>1, BytesStay
<1> QED BY <1>1, <1>2, <1>6, <1>7 DEF ExchangeInv, IdleInv

\* The handler of the timer ends a read and touches no byte.
LEMMA RunTimerStep ==
  ASSUME OneLineAnswers, TypeInv, ExchangeInv, RunTimer
  PROVE  ExchangeInv'
<1>1. /\ queue # <<>> /\ Head(queue) = "timer"
      /\ UNCHANGED <<taken, kernel, buffer, sending, caller, mode, expected, results, outcome, owed,
                     readCompleted, errorCode>>
  BY DEF RunTimer, NextIs, networkVars, readVars
<1>2. caller = "running" /\ queue \in Seq(Handlers) /\ Tail(queue) \in Seq(Handlers)
  BY <1>1, HandlerRuns
<1>3. Head(queue) \notin Ended
  BY <1>1 DEF Ended
<1>4. /\ NoneEnded(queue) => NoneEnded(Tail(queue))
      /\ OneEnded(queue) => OneEnded(Tail(queue))
      /\ Failing(Tail(queue)) => Failing(queue)
  BY <1>1, <1>2, <1>3, EndedTail
<1>5. OperationInv'
  <2>1. CASE CancelsRead /\ readSome = "waiting"
    <3>1. readSome' = "none" /\ queue' = Append(Tail(queue), "timeout")
      BY <2>1 DEF RunTimer
    <3>2. ~readCompleted /\ NoneEnded(Tail(queue)) /\ taken = <<>>
      BY <1>2, <1>4, <2>1, RunningType DEF ExchangeInv, OperationInv
    <3>3. OneEnded(queue')
      <4>1. "timeout" \in Handlers /\ "timeout" \in Ended
        BY DEF Handlers, Ended
      <4> QED BY <1>2, <3>1, <3>2, <4>1, EndedAppend
    <3> QED BY <1>1, <1>2, <3>1, <3>2, <3>3, Continues
  <2>2. CASE ~(CancelsRead /\ readSome = "waiting")
    <3>1. readSome' = readSome /\ queue' = Tail(queue)
      BY <2>2 DEF RunTimer
    <3> QED BY <1>1, <1>4, <3>1, OtherHandlers
  <2> QED BY <2>1, <2>2
<1>6. BytesInv'
  BY <1>1, BytesStay
<1> QED BY <1>1, <1>2, <1>5, <1>6 DEF ExchangeInv, IdleInv

\* A handler without an effect has run, or the timer has expired.
LEMMA NothingStep ==
  ASSUME OneLineAnswers, TypeInv, ExchangeInv, RunNothing \/ Expire
  PROVE  ExchangeInv'
<1>1. /\ UNCHANGED <<taken, kernel, buffer, sending, caller, mode, expected, results, outcome, owed,
                     readCompleted, errorCode, readSome>>
  BY DEF RunNothing, Expire, networkVars, readVars, exchangeVars
<1>2. /\ NoneEnded(queue) => NoneEnded(queue')
      /\ OneEnded(queue) => OneEnded(queue')
      /\ Failing(queue') => Failing(queue)
  <2>1. CASE RunNothing
    <3>1. queue # <<>> /\ Head(queue) \notin Ended /\ queue' = Tail(queue)
      BY <2>1 DEF RunNothing, NextIs, Ended
    <3>2. queue \in Seq(Handlers)
      BY <3>1, HandlerRuns
    <3> QED BY <3>1, <3>2, EndedTail
  <2>2. CASE Expire
    <3>1. queue' = Append(queue, "timer") /\ queue \in Seq(Handlers)
      BY <2>2 DEF Expire, TypeInv, TypeOK, Handlers
    <3>2. "timer" \in Handlers /\ "timer" \notin Ended /\ "timer" \notin {"eof", "timeout"}
      BY DEF Handlers, Ended
    <3> QED BY <3>1, <3>2, EndedAppend
  <2> QED BY <2>1, <2>2
<1>3. OperationInv'
  BY <1>1, <1>2, OtherHandlers
<1>4. BytesInv'
  BY <1>1, BytesStay
<1> QED BY <1>1, <1>3, <1>4 DEF ExchangeInv, IdleInv

\* The descriptor becomes ready: no read_some ends by that.
LEMMA WakeOperation ==
  ASSUME TypeInv, Wake
  PROVE  /\ NoneEnded(queue) => NoneEnded(queue')
         /\ OneEnded(queue) => OneEnded(queue')
         /\ Failing(queue') => Failing(queue)
<1>1. queue \in Seq(Handlers)
  BY DEF TypeInv, TypeOK, Handlers
<1>2. "ready" \in Handlers /\ "ready" \notin Ended /\ "ready" \notin {"eof", "timeout"}
  BY DEF Handlers, Ended
<1>3. /\ NoneEnded(queue) => NoneEnded(Append(queue, "ready"))
      /\ OneEnded(queue) => OneEnded(Append(queue, "ready"))
      /\ Failing(Append(queue, "ready")) => Failing(queue)
  BY <1>1, <1>2, EndedAppend
<1> QED BY <1>3 DEF Wake

\* What arrives is moved from the peer to the kernel and may make a read ready.
LEMMA ArriveStep ==
  ASSUME OneLineAnswers, TypeInv, ExchangeInv, Arrive
  PROVE  ExchangeInv'
<1>1. /\ sending # <<>> /\ kernel' = kernel \o Head(sending) /\ sending' = Tail(sending) /\ Wake
      /\ UNCHANGED <<readSome, taken, buffer, caller, mode, expected, results, outcome, owed,
                     readCompleted, errorCode>>
  BY DEF Arrive, readVars, exchangeVars
<1>2. OperationInv'
  BY <1>1, WakeOperation, OtherHandlers
<1>3. BytesInv'
  <2> SUFFICES ASSUME caller = "running", ~owed PROVE BytesInv'
    BY <1>1 DEF BytesInv
  <2>1. PICK rest \in Seq(Bytes) :
          /\ AllBytes(buffer, taken, kernel, rest) = Response
          /\ sending # <<>> => rest = FlattenSeq(sending)
    BY WhereBytesAre
  <2>2. /\ kernel \in Seq(Bytes) /\ sending \in Seq(Seq(Bytes))
        /\ \A j \in DOMAIN sending : sending[j] # <<>>
    BY WhereBytesAre
  <2> DEFINE h == Head(sending)
             x == FlattenSeq(Tail(sending))
  <2>3. h \in Seq(Bytes) /\ Tail(sending) \in Seq(Seq(Bytes))
    BY <1>1, <2>2, HeadTailProperties
  <2>4. x \in Seq(Bytes) /\ rest = h \o x
    BY <1>1, <2>1, <2>2, <2>3, FlattenType, FlattenHeadTail
  <2> HIDE DEF h, x
  <2>5. (kernel \o h) \o x = kernel \o (h \o x)
    BY <2>2, <2>3, <2>4, ConcatAssociative, SMTT(30)
  <2>6. AllBytes(buffer', taken', kernel', x) = Response'
    BY <1>1, <2>1, <2>4, <2>5 DEF h, Response, AllBytes
  <2>7. \A j \in DOMAIN sending' : sending'[j] # <<>>
    <3>1. \A j \in 1..Len(Tail(sending)) :
            j + 1 \in DOMAIN sending /\ Tail(sending)[j] = sending[j + 1]
      BY <1>1, <2>2
    <3>2. DOMAIN Tail(sending) = 1..Len(Tail(sending))
      BY <2>3
    <3> QED BY <1>1, <2>2, <3>1, <3>2
  <2>8. sending' # <<>> => x = FlattenSeq(sending')
    BY <1>1 DEF x
  <2> QED BY <2>4, <2>6, <2>7, <2>8 DEF BytesInv
<1> QED BY <1>1, <1>2, <1>3 DEF ExchangeInv, IdleInv

\* The device sends nothing more.
LEMMA DeviceFailureStep ==
  ASSUME OneLineAnswers, TypeInv, ExchangeInv, Silence \/ PeerCloses
  PROVE  ExchangeInv'
<1>1. /\ sending' = <<>>
      /\ UNCHANGED <<readSome, taken, kernel, buffer, caller, mode, expected, results, outcome, owed,
                     readCompleted, errorCode>>
  BY DEF Silence, PeerCloses, ioVars, readVars, exchangeVars
<1>2. OperationInv'
  <2>1. CASE Silence
    BY <1>1, <2>1, OtherHandlers DEF Silence, ioVars
  <2>2. CASE PeerCloses
    BY <1>1, <2>2, WakeOperation, OtherHandlers DEF PeerCloses
  <2> QED BY <2>1, <2>2
<1>3. BytesInv'
  BY <1>1, BytesStay
<1> QED BY <1>1, <1>2, <1>3 DEF ExchangeInv, IdleInv

\* No step loses, adds or reorders a byte of the exchange that runs.
LEMMA ExchangeStep ==
  ASSUME OneLineAnswers, TypeInv, ExchangeInv, [Next]_vars
  PROVE  ExchangeInv'
<1>1. CASE \E r \in LineResponses : SendCommand("lines", r)
  BY <1>1, SendCommandStep DEF ResponsesOf
<1>2. CASE \E r \in ByteResponses : SendCommand("bytes", r)
  BY <1>2, SendCommandStep DEF ResponsesOf
<1>3. CASE Connect \/ ResolveFails
  BY <1>3 DEF Connect, ResolveFails, readVars, ioVars, exchangeVars, ExchangeInv, OperationInv,
              BytesInv, IdleInv
<1>4. CASE SendOnly \/ SendFails
  BY <1>4 DEF SendOnly, SendFails, Usable, networkVars, ioVars, readVars, ExchangeInv,
              OperationInv, BytesInv, IdleInv
<1>5. CASE UNCHANGED vars
  <2>1. OperationInv'
    BY <1>5, OtherHandlers DEF vars
  <2>2. BytesInv'
    BY <1>5, BytesStay DEF vars
  <2> QED BY <1>5, <2>1, <2>2 DEF vars, ExchangeInv, IdleInv
<1> QED
  BY <1>1, <1>2, <1>3, <1>4, <1>5, ReadEndStep, RunReadyStep, RunReadStep, ReadErrorStep,
     RunTimerStep, NothingStep, ArriveStep, DeviceFailureStep DEF Next, Run

-----------------------------------------------------------------------------
(* What follows for the handler *)

\* With responses of one line, or of bytes, one read_some at a time works on a read,
\* and every byte of the response is known to be read, at hand or to come, unless an
\* earlier read of the connection has left bytes of its response.
THEOREM ExchangeInvariant == ASSUME OneLineAnswers PROVE Spec => []ExchangeInv
<1>1. Init => ExchangeInv
  BY ExchangeInit
<1>2. TypeInv /\ ExchangeInv /\ [Next]_vars => ExchangeInv'
  BY ExchangeStep
<1> QED BY <1>1, <1>2, TypeInvariant, PTL DEF Spec

\* With responses of one line, or of bytes, a successful exchange leaves no byte of
\* its response for the next one, however late timers expire, however the bytes
\* arrive, and whenever the device falls silent or closes the connection; also when
\* the connection is used again after a failed read, as long as no failed read of it
\* has left bytes of its response at hand or to come (owed).
THEOREM NothingIsLeftBehind == ASSUME OneLineAnswers PROVE Spec => []CleanAfterExchange
<1>1. TypeInv /\ ExchangeInv => CleanAfterExchange
  BY DEF TypeInv, TypeOK, ExchangeInv, IdleInv, CleanAfterExchange
<1> QED BY <1>1, TypeInvariant, ExchangeInvariant, PTL

\* At the beginning the socket is the idle abstract handler.
LEMMA WireHandlerInit == Init => WireHandler!Init
<1>1. OnTheWire("lines", <<>>) = <<>>
  BY DEF OnTheWire
<1> QED BY <1>1 DEF Init, WireHandler!Init

\* A step of the socket is a step of the abstract handler, or none of its.
LEMMA WireHandlerStep ==
  ASSUME OneLineAnswers, TypeInv, ExchangeInv, [Next]_vars
  PROVE  [WireHandler!Next]_WireHandler!vars
<1> DEFINE P == {OnTheWire("lines", r) : r \in LineResponses} \cup ByteResponses
<1>1. ASSUME NEW m \in {"lines", "bytes"}, NEW r \in ResponsesOf(m), SendCommand(m, r)
      PROVE  WireHandler!Next
  <2>1. OnTheWire(m, r) \in P
    <3>1. CASE m = "lines"
      BY <3>1 DEF ResponsesOf
    <3>2. CASE m = "bytes"
      <4>1. r \in ByteResponses /\ r \in Seq(Seq(Bytes))
        BY <3>2, ResponseType DEF ResponsesOf
      <4>2. OnTheWire(m, r) = r
        BY <3>2, <4>1 DEF OnTheWire
      <4> QED BY <4>1, <4>2
    <3> QED BY <3>1, <3>2
  <2>2. WireHandler!Ask(OnTheWire(m, r))
    BY <1>1 DEF SendCommand, Usable, WireHandler!Ask
  <2> QED BY <2>1, <2>2 DEF WireHandler!Next
<1>2. CASE \E r \in LineResponses : SendCommand("lines", r)
  BY <1>1, <1>2 DEF ResponsesOf
<1>3. CASE \E r \in ByteResponses : SendCommand("bytes", r)
  BY <1>1, <1>3 DEF ResponsesOf
<1>4. CASE Connect
  BY <1>4 DEF Connect, WireHandler!vars, WireHandler!Throw, WireHandler!Next
<1>5. CASE ResolveFails
  BY <1>5 DEF ResolveFails, exchangeVars, WireHandler!vars
<1>6. CASE SendOnly
  BY <1>6 DEF SendOnly, Usable, WireHandler!Throw, WireHandler!Next
<1>7. CASE SendFails
  BY <1>7 DEF SendFails, Usable, WireHandler!Throw, WireHandler!Next
<1>8. CASE ReadFailed
  BY <1>8 DEF ReadFailed, WireHandler!Throw, WireHandler!Next
<1>9. CASE Collect
  <2>1. /\ caller = "running" /\ caller' = "idle" /\ outcome' = "ok"
        /\ UNCHANGED <<mode, expected, owed>>
    BY <1>9, CollectEnds
  <2>2. CASE owed
    BY <2>1, <2>2 DEF WireHandler!Throw, WireHandler!Next
  <2>3. CASE ~owed
    <3>1. results' = OnTheWire(mode, expected)
      BY <1>9, <2>3, CollectedIsResponse
    <3>2. WireHandler!Answer
      BY <2>1, <2>3, <3>1 DEF WireHandler!Answer
    <3> QED BY <3>2 DEF WireHandler!Next
  <2> QED BY <2>2, <2>3
<1>10. CASE Run \/ Expire \/ Arrive \/ Silence \/ PeerCloses \/ UNCHANGED vars
  <2>1. UNCHANGED <<caller, mode, expected, results, outcome, owed>>
    BY <1>10 DEF Run, RunReady, RunRead, RunReadyAtEof, RunError, RunTimer, RunNothing, Expire,
                 Arrive, Silence, PeerCloses, vars, exchangeVars
  <2> QED BY <2>1 DEF WireHandler!vars
<1> QED BY <1>2, <1>3, <1>4, <1>5, <1>6, <1>7, <1>8, <1>9, <1>10 DEF Next

\* With responses of one line, or of bytes, the handler implements the abstract
\* port: it answers a command by exactly the bytes of the response, or throws.  What
\* it returns on a connection that owes a response counts as nothing.
THEOREM ImplementsHandler == ASSUME OneLineAnswers PROVE Spec => ImplementsWirePort
<1>1. TypeInv /\ ExchangeInv /\ [Next]_vars => [WireHandler!Next]_WireHandler!vars
  BY WireHandlerStep
<1> QED BY <1>1, WireHandlerInit, TypeInvariant, ExchangeInvariant, PTL
        DEF Spec, ImplementsWirePort, WireHandler!Spec

=============================================================================
