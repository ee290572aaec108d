-------------------------- MODULE SerialPort_proofs --------------------------
(***************************************************************************)
(* What holds of a SerialPort for every set of responses, delimiter and    *)
(* buffer size: its types, whatever the device does, and, until a timeout  *)
(* expires while the response is on its way, and from the next open() that *)
(* clears the line on again, that the handler returns the response or      *)
(* throws, and leaves nothing of it behind.                                *)
(***************************************************************************)
EXTENDS SerialPort, SequenceFacts

-----------------------------------------------------------------------------
(* Types *)

\* The response belongs to the mode, the buffer of readline has its size, and
\* readBytes never holds more than it was asked for.
ReadInv ==
  /\ caller # "idle" => expected \in IF mode = "lines" THEN LineResponses ELSE ByteResponses
  /\ mode = "lines" /\ reader \in {"searching", "checking"} => Len(readBuffer) = BufferLen
  /\ mode = "bytes" /\ reader = "checking" => Len(output) + Len(readBuffer) <= nBytesToRead

TypeInv == TypeOK /\ ReadInv

\* The terminator of a C string is a byte: it may be in a buffer.
LEMMA NulIsByte == Nul \in Bytes
BY DEF Bytes

\* Positions of the delimiter are positions.
LEMMA DelimitersInside ==
  ASSUME NEW s
  PROVE  DelimitersIn(s) \subseteq DOMAIN s
BY DEF DelimitersIn

\* A C string is the beginning of its buffer.
LEMMA CStringType ==
  ASSUME NEW S, NEW s \in Seq(S)
  PROVE  CString(s) \in Seq(S) /\ Len(CString(s)) <= Len(s)
<1> DEFINE I == {i \in 1..Len(s) : s[i] = Nul}
           n == SelectInSeq(s, LAMBDA b : b = Nul)
<1>1. n = IF I # {} THEN Min(I) ELSE 0
  BY DEF SelectInSeq
<1>2. I # {} => Min(I) \in I
  <2>1. I \subseteq Nat
    OBVIOUS
  <2> HIDE DEF I
  <2> QED BY <2>1, MinOfNats
<1>3. n \in 0..Len(s)
  <2>1. Len(s) \in Nat
    OBVIOUS
  <2> QED BY <1>1, <1>2, <2>1
<1> HIDE DEF n
<1>4. SubSeq(s, 1, n - 1) \in Seq(S) /\ Len(SubSeq(s, 1, n - 1)) <= Len(s)
  BY <1>3
<1> QED BY <1>4 DEF CString, n

\* What the device sends consists of bytes.
LEMMA ChunksType ==
  ASSUME NEW m \in {"lines", "bytes"}, NEW r \in Seq(Seq(Bytes))
  PROVE  OnTheWire(m, r) \in Seq(Seq(Bytes)) /\ Chunks(m, r) \in Seq(Seq(Bytes))
<1> DEFINE w == OnTheWire(m, r)
           bytes == FlattenSeq(w)
<1>1. w \in Seq(Seq(Bytes))
  <2>1. DOMAIN r = 1..Len(r) /\ \A i \in DOMAIN r : r[i] \in Seq(Bytes)
    OBVIOUS
  <2>2. \A i \in DOMAIN r : r[i] \o Delimiter \in Seq(Bytes)
    BY <2>1, BytesAssumption
  <2> QED BY <2>1, <2>2 DEF OnTheWire
<1> HIDE DEF w
<1>2. bytes \in Seq(Bytes)
  BY <1>1, FlattenType
<1> HIDE DEF bytes
<1>3. [i \in DOMAIN bytes |-> <<bytes[i]>>] \in Seq(Seq(Bytes))
  <2>1. DOMAIN bytes = 1..Len(bytes) /\ \A i \in DOMAIN bytes : <<bytes[i]>> \in Seq(Bytes)
    BY <1>2
  <2> QED BY <2>1
<1> QED BY <1>1, <1>3 DEF Chunks, w, bytes

\* The port as the constructor leaves it has the types.
LEMMA TypeInit == Init => TypeInv
<1> SUFFICES ASSUME Init PROVE TypeInv
  OBVIOUS
<1>1. <<>> \in Seq(Bytes) /\ <<>> \in Seq(Seq(Bytes))
  OBVIOUS
<1> QED BY <1>1 DEF Init, TypeInv, TypeOK, ReadInv, Running, Ended

\* Every step of the port, the device and the caller keeps them.
LEMMA TypeStep == TypeInv /\ [Next]_vars => TypeInv'
<1> SUFFICES ASSUME TypeInv, [Next]_vars PROVE TypeInv'
  OBVIOUS
<1> USE DEF TypeInv, TypeOK, ReadInv
<1>1. ASSUME NEW m \in {"lines", "bytes"},
             NEW r \in IF m = "lines" THEN LineResponses ELSE ByteResponses, SendCommand(m, r)
      PROVE  TypeInv'
  <2>1. r \in Seq(Seq(Bytes)) /\ (m = "bytes" => Len(r) = 1 /\ r[1] \in Seq(Bytes))
    BY BytesAssumption
  <2>2. Chunks(m, r) \in Seq(Seq(Bytes))
    BY <2>1, ChunksType
  <2>3. sending \o Chunks(m, r) \in Seq(Seq(Bytes))
    BY <2>2
  <2>4. <<>> \in Seq(Bytes) /\ <<>> \in Seq(Seq(Bytes)) /\ Len(<<>>) = 0
    OBVIOUS
  <2>5. m = "bytes" => Len(r[1]) \in Nat
    BY <2>1
  <2>6. TypeOK'
    <3>1. /\ sending' \in Seq(Seq(Bytes)) /\ expected' \in Seq(Seq(Bytes))
          /\ output' \in Seq(Bytes) /\ results' \in Seq(Seq(Bytes))
      BY <1>1, <2>1, <2>3, <2>4 DEF SendCommand
    <3>2. mode' = "bytes" => Len(output') <= Len(expected'[1])
      BY <1>1, <2>4, <2>5 DEF SendCommand
    <3> QED BY <1>1, <3>1, <3>2 DEF SendCommand, portVars, Running, Ended
  <2>7. ReadInv'
    BY <1>1 DEF SendCommand, portVars
  <2> QED BY <2>6, <2>7
<1>2. CASE SendOnly
  <2>1. <<>> \in Seq(Seq(Bytes))
    OBVIOUS
  <2> QED BY <1>2, <2>1 DEF SendOnly, readVars, portVars, deviceVars, nBytesToRead
<1>3. CASE SendFails \/ ReadFailed \/ Join
  <2>1. <<>> \in Seq(Seq(Bytes))
    OBVIOUS
  <2> QED BY <1>3, <2>1 DEF SendFails, ReadFailed, Join, Fail, portVars, deviceVars, nBytesToRead
<1>4. CASE Collect
  <2>1. Append(results, output) \in Seq(Seq(Bytes)) /\ Len(Append(results, output)) >= 1
    OBVIOUS
  <2>2. mode = "bytes" => Len(expected) = 1
    BY <1>4, BytesAssumption DEF Collect
  <2>3. TypeOK'
    BY <1>4, <2>1, <2>2 DEF Collect, portVars, deviceVars, Running, Ended
  <2>4. ReadInv'
    BY <1>4 DEF Collect, portVars, deviceVars
  <2> QED BY <2>3, <2>4
<1>5. CASE Timeout
  BY <1>5 DEF Timeout, readVars, deviceVars, Running, nBytesToRead
<1>6. CASE Reopen
  <2>1. <<>> \in Seq(Bytes)
    OBVIOUS
  <2> QED BY <1>6, <2>1 DEF Reopen, readVars, nBytesToRead
<1>7. CASE StartRead
  <2>1. /\ <<>> \in Seq(Bytes) /\ Len(<<>>) = 0
        /\ [i \in 1..BufferLen |-> Nul] \in Seq(Bytes)
        /\ Len([i \in 1..BufferLen |-> Nul]) = BufferLen
    BY BytesAssumption, NulIsByte
  <2>2. mode = "bytes" => Len(expected[1]) \in Nat
    BY <1>7, BytesAssumption DEF StartRead, Running, Ended
  <2>3. readBuffer' \in Seq(Bytes) /\ output' = <<>>
    BY <1>7, <2>1 DEF StartRead
  <2>4. TypeOK'
    <3>1. mode = "bytes" => Len(output') <= Len(expected[1])
      BY <2>1, <2>2, <2>3
    <3>2. reader = "starting" /\ reader' = "searching" /\ terminateRead' \in BOOLEAN
      BY <1>7 DEF StartRead
    <3> QED
      BY <1>7, <2>1, <2>3, <3>1, <3>2 DEF StartRead, exchangeVars, deviceVars, Running, Ended
  <2>5. ReadInv'
    BY <1>7, <2>1 DEF StartRead, exchangeVars
  <2> QED BY <2>4, <2>5
<1>8. CASE FindLine
  <2> DEFINE p == Min(DelimitersIn(persistent))
  <2>1. p \in 1..Len(persistent)
    <3>1. DelimitersIn(persistent) \subseteq Nat /\ DelimitersIn(persistent) \subseteq 1..Len(persistent)
      BY DelimitersInside
    <3> QED BY <1>8, <3>1, MinOfNats DEF FindLine
  <2>2. Len(Delimiter) \in Nat
    BY BytesAssumption
  <2>3. /\ SubSeq(persistent, 1, p - 1) \in Seq(Bytes)
        /\ SubSeq(persistent, AfterLine(p), Len(persistent)) \in Seq(Bytes)
    <3> HIDE DEF p
    <3> QED BY <2>1, <2>2 DEF AfterLine
  <2> HIDE DEF p
  <2> QED BY <1>8, <2>3 DEF FindLine, p, exchangeVars, deviceVars, Running, Ended
<1>9. CASE ReadIntoLineBuffer
  <2> DEFINE n == Min({Len(tty), BufferLen - 1})
  <2>1. n \in 0..Len(tty) /\ n <= BufferLen - 1
    <3>1. Len(tty) \in Nat /\ BufferLen - 1 \in Nat
      BY BytesAssumption
    <3>2. n = IF Len(tty) <= BufferLen - 1 THEN Len(tty) ELSE BufferLen - 1
      BY <3>1, MinOfTwo
    <3> QED BY <3>1, <3>2
  <2> HIDE DEF n
  <2>2. Len(readBuffer) = BufferLen /\ BufferLen \in Nat
    BY <1>9, BytesAssumption DEF ReadIntoLineBuffer
  <2>3. /\ SubSeq(tty, 1, n) \in Seq(Bytes) /\ Len(SubSeq(tty, 1, n)) = n
        /\ SubSeq(tty, n + 1, Len(tty)) \in Seq(Bytes)
    BY <2>1, SplitAt
  <2>4. /\ SubSeq(readBuffer, n + 1, BufferLen) \in Seq(Bytes)
        /\ Len(SubSeq(readBuffer, n + 1, BufferLen)) = BufferLen - n
    BY <2>1, <2>2, SplitAt
  <2>5. /\ SubSeq(tty, 1, n) \o SubSeq(readBuffer, n + 1, BufferLen) \in Seq(Bytes)
        /\ Len(SubSeq(tty, 1, n) \o SubSeq(readBuffer, n + 1, BufferLen)) = BufferLen
    BY <2>1, <2>2, <2>3, <2>4
  <2> QED BY <1>9, <2>3, <2>5
          DEF ReadIntoLineBuffer, n, exchangeVars, portVars, Running, Ended
<1>10. CASE ReadMissingBytes
  <2> DEFINE n == Min({Len(tty), MissingBytes})
  <2>1. Len(expected[1]) \in Nat /\ Len(output) \in Nat /\ Len(tty) \in Nat
    BY <1>10, BytesAssumption DEF ReadMissingBytes, Running, Ended
  <2>2. MissingBytes \in Nat /\ MissingBytes = Len(expected[1]) - Len(output)
    BY <1>10, <2>1 DEF ReadMissingBytes, MissingBytes, nBytesToRead
  <2>3. n \in 0..Len(tty) /\ n <= MissingBytes
    <3>1. n = IF Len(tty) <= MissingBytes THEN Len(tty) ELSE MissingBytes
      BY <2>1, <2>2, MinOfTwo
    <3> QED BY <2>1, <2>2, <3>1, SMTT(30)
  <2> HIDE DEF n
  <2>4. /\ SubSeq(tty, 1, n) \in Seq(Bytes) /\ Len(SubSeq(tty, 1, n)) = n
        /\ SubSeq(tty, n + 1, Len(tty)) \in Seq(Bytes)
    BY <2>3, SplitAt
  <2>5. Len(output) + Len(SubSeq(tty, 1, n)) <= Len(expected[1])
    BY <2>1, <2>2, <2>3, <2>4
  <2> QED BY <1>10, <2>4, <2>5
          DEF ReadMissingBytes, n, exchangeVars, portVars, Running, Ended, nBytesToRead
<1>11. CASE ReadError
  <2>1. <<>> \in Seq(Seq(Bytes))
    OBVIOUS
  <2> QED BY <1>11, <2>1 DEF ReadError, exchangeVars, portVars, Running, Ended, nBytesToRead
<1>12. CASE FoundBytes \/ StopRead
  BY <1>12 DEF FoundBytes, StopRead, exchangeVars, portVars, deviceVars, Running, Ended
<1>13. CASE KeepRead
  <2>1. persistent \o CString(readBuffer) \in Seq(Bytes)
    BY CStringType
  <2>2. /\ output \o readBuffer \in Seq(Bytes)
        /\ Len(output \o readBuffer) = Len(output) + Len(readBuffer)
    OBVIOUS
  <2>3. CASE mode = "lines"
    BY <1>13, <2>1, <2>3 DEF KeepRead, exchangeVars, deviceVars, Running, Ended
  <2>4. CASE mode = "bytes"
    BY <1>13, <2>2, <2>4 DEF KeepRead, exchangeVars, deviceVars, Running, Ended, nBytesToRead
  <2> QED BY <2>3, <2>4
<1>14. CASE Arrive
  <2>1. Head(sending) \in Seq(Bytes) /\ Tail(sending) \in Seq(Seq(Bytes))
    <3>1. sending # <<>>
      BY <1>14 DEF Arrive
    <3> QED BY <3>1, HeadTailProperties
  <2>2. tty \o Head(sending) \in Seq(Bytes)
    BY <2>1
  <2> QED BY <1>14, <2>1, <2>2 DEF Arrive, readVars, exchangeVars, portVars, nBytesToRead
<1>15. CASE Silence
  <2>1. <<>> \in Seq(Seq(Bytes))
    OBVIOUS
  <2> QED BY <1>15, <2>1 DEF Silence, readVars, exchangeVars, portVars, nBytesToRead
<1>16. CASE UNCHANGED vars
  BY <1>16 DEF vars, nBytesToRead
<1>17. CASE \E r \in LineResponses : SendCommand("lines", r)
  BY <1>1, <1>17
<1>18. CASE \E r \in ByteResponses : SendCommand("bytes", r)
  BY <1>1, <1>18
<1> QED
  BY <1>2, <1>3, <1>4, <1>5, <1>6, <1>7, <1>8, <1>9, <1>10, <1>11, <1>12, <1>13, <1>14, <1>15,
     <1>16, <1>17, <1>18 DEF Next, Reader

\* The types and the sizes of the buffers hold for every device, prompt or not.
THEOREM TypeInvariant == Spec => []TypeInv
BY TypeInit, TypeStep, PTL DEF Spec

\* All variables keep their types, whatever the device sends and whenever it
\* does, and readBytes never returns more bytes than the handler asked for.
THEOREM TypeCorrect == Spec => []TypeOK
BY TypeInvariant, PTL DEF TypeInv

-----------------------------------------------------------------------------
(* A device that sends whole lines *)

\* The environment for which the handler keeps its promise as long as no response
\* is late.  A line arrives whole, it contains neither the delimiter nor a null
\* byte, and the lines of a response fit into readline's buffer together.  After a
\* failed read of bytes the port is opened again.
WholeLines ==
  /\ "lines" \notin SplitModes
  /\ "bytes" \notin KeptModes
  /\ Delimiter \in Seq(Bytes \ {Nul})
  /\ \A r \in LineResponses :
       /\ r \in Seq(Seq(Bytes \ {Nul}))
       /\ \A i \in DOMAIN r : DelimitersIn(r[i] \o Delimiter) = {Len(r[i]) + 1}
       /\ Len(FlattenSeq(OnTheWire("lines", r))) < BufferLen

\* The bytes of the lines of a response after the first i, up to the j-th.
Part(r, i, j) == FlattenSeq(SubSeq(OnTheWire("lines", r), i + 1, j))

\* How many lines of the response readline has found.
Found == Len(results) + (IF reader = "value" THEN 1 ELSE 0)

Nuls == [i \in 1..BufferLen |-> Nul]

\* The bytes that readline has and has not returned.  What it reads is kept in
\* its buffer first; it reads only when it has nothing else.
Kept == IF reader = "checking" THEN CString(readBuffer) ELSE persistent

\* Whole lines are kept, wait at the file descriptor and are still to come, in
\* this order; after a failure of the device nothing more comes.
LinesAt(j, k) ==
  /\ Kept = Part(expected, Found, j)
  /\ tty = Part(expected, j, k)
  /\ \/ sending = SubSeq(OnTheWire("lines", expected), k + 1, Len(expected))
     \/ sending = <<>> /\ disturbed

\* While lines are read.  The buffer is all null before bytes are read into it:
\* the rest of an earlier read never follows them.
LinesInv ==
  caller = "waiting" /\ mode = "lines" =>
    /\ Len(results) < Len(expected)
    /\ results = SubSeq(expected, 1, Len(results))
    /\ reader \in {"starting", "searching", "checking", "value"}
    /\ reader = "value" => output = expected[Len(results) + 1]
    /\ terminateRead => reader = "starting"
    /\ reader = "checking" => persistent = <<>>
    /\ reader \in {"searching", "checking"} /\ Kept = <<>> => readBuffer = Nuls
    /\ \E j, k \in Found..Len(expected) : j <= k /\ LinesAt(j, k)

\* What readBytes has read.
Got == output \o IF reader = "checking" THEN readBuffer ELSE <<>>

\* While bytes are read: they have been read, wait at the file descriptor or are
\* still to come, unless the device has failed.
BytesInv ==
  caller = "waiting" /\ mode = "bytes" =>
    /\ results = <<>>
    /\ persistent = <<>>
    /\ ~terminateRead
    /\ reader # "nullopt"
    /\ reader = "starting" => output = <<>>
    /\ reader = "error" => disturbed /\ sending = <<>>
    /\ reader = "value" => Len(output) = Len(expected[1])
    /\ \A i \in DOMAIN sending : sending[i] # <<>>
    /\ \E rest \in Seq(Bytes) :
         /\ Got \o (tty \o rest) = expected[1]
         /\ rest = FlattenSeq(sending) \/ (sending = <<>> /\ disturbed)

\* The caller waits for the end of the thread only when nothing is to come.
JoinInv ==
  caller = "joining" =>
    /\ terminateRead
    /\ disturbed
    /\ persistent = <<>> /\ tty = <<>> /\ sending = <<>>
    /\ reader # "starting"

\* Between exchanges the port holds nothing, and a request to stop the read is
\* forgotten unless the exchange has failed.
IdleInv ==
  /\ caller # "idle" => outcome = "none"
  /\ caller = "idle" =>
       /\ persistent = <<>>
       /\ sending = <<>>
       /\ outcome = "failed" => disturbed /\ (mode = "lines" => tty = <<>>)
       /\ outcome # "failed" => tty = <<>> /\ ~terminateRead

ExchangeInv == LinesInv /\ BytesInv /\ JoinInv /\ IdleInv

\* Nothing is known of the bytes of two responses that are mixed.
TimelyInv == ~late => ExchangeInv

-----------------------------------------------------------------------------
(* Lines *)

\* Where the delimiter is.
LEMMA DelimiterAt ==
  ASSUME NEW s \in Seq(Bytes), NEW p \in Nat
  PROVE  p \in DelimitersIn(s) <=>
           /\ p \in 1..Len(s)
           /\ p + Len(Delimiter) <= Len(s) + 1
           /\ \A k \in 1..Len(Delimiter) : s[p + k - 1] = Delimiter[k]
<1> DEFINE t == SubSeq(s, p, Len(s))
           d == Len(Delimiter)
<1>1. DOMAIN s = 1..Len(s) /\ Delimiter \in Seq(Bytes) /\ d \in Nat
  BY BytesAssumption
<1>2. p \notin DOMAIN s => p \notin DelimitersIn(s)
  BY DelimitersInside
<1>3. ASSUME p \in 1..Len(s)
      PROVE  IsPrefix(Delimiter, t) <=>
               /\ p + d <= Len(s) + 1
               /\ \A k \in 1..d : s[p + k - 1] = Delimiter[k]
  <2>1. /\ t \in Seq(Bytes) /\ Len(t) = Len(s) - p + 1
        /\ \A k \in 1..Len(t) : t[k] = s[p + k - 1]
    BY <1>3
  <2> HIDE DEF t
  <2>2. SubSeq(Delimiter, 1, d) = Delimiter
    BY <1>1, SubSeqFull
  <2>3. d <= Len(t) <=> p + d <= Len(s) + 1
    BY <1>1, <1>3, <2>1
  <2>4. ASSUME d <= Len(t)
        PROVE  /\ SubSeq(t, 1, d) \in Seq(Bytes)
               /\ Len(SubSeq(t, 1, d)) = d
               /\ \A k \in 1..d : SubSeq(t, 1, d)[k] = s[p + k - 1]
    BY <1>1, <2>1, <2>4
  <2>5. ASSUME d <= Len(t)
        PROVE  Delimiter = SubSeq(t, 1, d) <=> \A k \in 1..d : s[p + k - 1] = Delimiter[k]
    <3>1. ASSUME \A k \in 1..d : s[p + k - 1] = Delimiter[k]
          PROVE  Delimiter = SubSeq(t, 1, d)
      <4>1. /\ Len(Delimiter) = Len(SubSeq(t, 1, d))
            /\ \A k \in 1..Len(Delimiter) : Delimiter[k] = SubSeq(t, 1, d)[k]
        BY <2>4, <2>5, <3>1
      <4>2. SubSeq(t, 1, d) \in Seq(Bytes)
        BY <2>4, <2>5
      <4> QED BY <1>1, <4>1, <4>2, SeqEqual
    <3> QED BY <2>4, <2>5, <3>1
  <2> QED BY <2>2, <2>3, <2>5 DEF IsPrefix
<1> QED BY <1>1, <1>2, <1>3 DEF DelimitersIn

\* Where nothing is there is no delimiter.
LEMMA NoDelimiterInNothing == DelimitersIn(<<>>) = {}
BY DelimitersInside

\* The first line of some lines: it and the rest, when it is cut off.
LEMMA FirstLine ==
  ASSUME NEW l \in Seq(Bytes), NEW x \in Seq(Bytes),
         DelimitersIn(l \o Delimiter) = {Len(l) + 1}
  PROVE  LET s == (l \o Delimiter) \o x
             p == Min(DelimitersIn(s))
         IN  /\ DelimitersIn(s) # {}
             /\ SubSeq(s, 1, p - 1) = l
             /\ SubSeq(s, AfterLine(p), Len(s)) = x
<1> DEFINE d == Len(Delimiter)
           w == l \o Delimiter
           s == w \o x
           q == Len(l) + 1
<1>1. /\ Delimiter \in Seq(Bytes) /\ d \in Nat /\ Len(l) \in Nat /\ Len(x) \in Nat
      /\ w \in Seq(Bytes) /\ Len(w) = Len(l) + d /\ d # 0
  BY BytesAssumption
<1>2. s \in Seq(Bytes) /\ Len(s) = Len(w) + Len(x) /\ \A k \in 1..Len(w) : s[k] = w[k]
  <2> HIDE DEF w
  <2> QED BY <1>1, SMTT(30)
<1>3. /\ \A k \in 1..Len(l) : w[k] = l[k]
      /\ \A k \in 1..Len(x) : s[Len(w) + k] = x[k]
  <2>1. \A k \in 1..Len(l) : w[k] = l[k]
    BY <1>1
  <2>2. \A k \in 1..Len(x) : s[Len(w) + k] = x[k]
    <3> HIDE DEF w
    <3> QED BY <1>1
  <2> QED BY <2>1, <2>2
<1>4. DelimitersIn(w) = {q}
  OBVIOUS
<1> HIDE DEF w, s
<1>5. q \in DelimitersIn(s)
  <2>1. q \in Nat /\ q \in DelimitersIn(w)
    BY <1>1, <1>4
  <2>2. /\ q \in 1..Len(w) /\ q + Len(Delimiter) <= Len(w) + 1
        /\ \A k \in 1..Len(Delimiter) : w[q + k - 1] = Delimiter[k]
    BY <1>1, <2>1, DelimiterAt
  <2>3. q \in 1..Len(s) /\ q + Len(Delimiter) <= Len(s) + 1
    BY <1>1, <1>2, <2>2
  <2>4. \A k \in 1..Len(Delimiter) : s[q + k - 1] = Delimiter[k]
    <3> TAKE k \in 1..Len(Delimiter)
    <3>1. q + k - 1 \in 1..Len(w)
      BY <1>1, <2>2
    <3> QED BY <1>2, <2>2, <3>1
  <2> HIDE DEF q
  <2> QED BY <1>2, <2>1, <2>3, <2>4, DelimiterAt
<1>6. ASSUME NEW p \in DelimitersIn(s)
      PROVE  p \in Nat /\ q <= p
  <2>1. p \in Nat /\ p \in 1..Len(s)
    BY <1>2, DelimitersInside
  <2>2. SUFFICES ASSUME p < q PROVE FALSE
    BY <1>1, <2>1
  <2>3. \A k \in 1..Len(Delimiter) : s[p + k - 1] = Delimiter[k]
    BY <1>2, <2>1, DelimiterAt
  <2>4. p \in 1..Len(w) /\ p + Len(Delimiter) <= Len(w) + 1
    BY <1>1, <2>1, <2>2
  <2>5. \A k \in 1..Len(Delimiter) : w[p + k - 1] = Delimiter[k]
    <3> TAKE k \in 1..Len(Delimiter)
    <3>1. p + k - 1 \in 1..Len(w)
      BY <1>1, <2>1, <2>4
    <3> QED BY <1>2, <2>3, <3>1
  <2>6. p \in DelimitersIn(w)
    <3> HIDE DEF q, d
    <3> QED BY <1>1, <2>1, <2>4, <2>5, DelimiterAt
  <2> QED BY <1>1, <1>4, <2>1, <2>2, <2>6
<1>7. Min(DelimitersIn(s)) = q
  <2> HIDE DEF q
  <2>1. DelimitersIn(s) \subseteq Nat /\ \A y \in DelimitersIn(s) : q <= y
    BY <1>6
  <2> QED BY <1>5, <2>1, LeastIsMin
<1>8. SubSeq(s, 1, q - 1) = l
  <2>1. /\ SubSeq(s, 1, q - 1) \in Seq(Bytes)
        /\ Len(SubSeq(s, 1, q - 1)) = Len(l)
        /\ \A k \in 1..Len(l) : SubSeq(s, 1, q - 1)[k] = l[k]
    BY <1>1, <1>2, <1>3
  <2> QED BY <2>1, SeqEqual
<1>9. SubSeq(s, q + d, Len(s)) = x
  <2>1. /\ SubSeq(s, q + d, Len(s)) \in Seq(Bytes)
        /\ Len(SubSeq(s, q + d, Len(s))) = Len(x)
        /\ \A k \in 1..Len(x) : SubSeq(s, q + d, Len(s))[k] = x[k]
    BY <1>1, <1>2, <1>3
  <2> QED BY <2>1, SeqEqual
<1> QED BY <1>5, <1>7, <1>8, <1>9 DEF AfterLine, s, w

\* Bytes without a null, read into a buffer of nulls, are its C string.
LEMMA CStringOfBytes ==
  ASSUME NEW s \in Seq(Bytes \ {Nul}), Len(s) < BufferLen
  PROVE  CString(s \o SubSeq(Nuls, Len(s) + 1, BufferLen)) = s
<1> DEFINE n == Len(s)
           rest == SubSeq(Nuls, n + 1, BufferLen)
           b == s \o rest
           I == {i \in 1..Len(b) : b[i] = Nul}
<1>1. n \in Nat /\ BufferLen \in Nat /\ s \in Seq(Bytes) /\ \A i \in 1..n : s[i] # Nul
  BY BytesAssumption
<1>2. rest \in Seq(Bytes) /\ Len(rest) = BufferLen - n /\ \A i \in 1..(BufferLen - n) : rest[i] = Nul
  <2>1. /\ Nuls \in Seq(Bytes) /\ Len(Nuls) = BufferLen
        /\ \A i \in 1..BufferLen : Nuls[i] = Nul
    BY <1>1, NulIsByte DEF Nuls
  <2> QED BY <1>1, <2>1
<1> HIDE DEF rest
<1>3. /\ b \in Seq(Bytes) /\ Len(b) = BufferLen
      /\ \A i \in 1..n : b[i] = s[i]
      /\ b[n + 1] = Nul
  BY <1>1, <1>2
<1> HIDE DEF b
<1>4. I \subseteq Nat /\ n + 1 \in I /\ \A i \in I : n + 1 <= i
  BY <1>1, <1>3
<1>5. Min(I) = n + 1
  <2> HIDE DEF I
  <2> QED BY <1>4, LeastIsMin
<1>6. SelectInSeq(b, LAMBDA c : c = Nul) = n + 1
  BY <1>4, <1>5 DEF SelectInSeq
<1>7. SubSeq(b, 1, n) = s
  <2>1. /\ SubSeq(b, 1, n) \in Seq(Bytes) /\ Len(SubSeq(b, 1, n)) = n
        /\ \A i \in 1..n : SubSeq(b, 1, n)[i] = s[i]
    BY <1>1, <1>3
  <2> QED BY <1>1, <2>1, SeqEqual
<1>8. (n + 1) - 1 = n
  BY <1>1
<1> QED BY <1>6, <1>7, <1>8 DEF CString, b, rest


\* The lines of a response as they come: whole, and without a null byte.
LEMMA WireLines ==
  ASSUME WholeLines, NEW r \in LineResponses
  PROVE  /\ r \in Seq(Seq(Bytes))
         /\ Len(r) \in Nat \ {0}
         /\ OnTheWire("lines", r) \in Seq(Seq(Bytes \ {Nul}))
         /\ Len(OnTheWire("lines", r)) = Len(r)
         /\ \A i \in 1..Len(r) : OnTheWire("lines", r)[i] = r[i] \o Delimiter
<1>1. r \in Seq(Seq(Bytes)) /\ r # <<>> /\ r \in Seq(Seq(Bytes \ {Nul}))
  BY BytesAssumption DEF WholeLines
<1>2. Delimiter \in Seq(Bytes \ {Nul})
  BY DEF WholeLines
<1>3. DOMAIN r = 1..Len(r) /\ \A i \in 1..Len(r) : r[i] \in Seq(Bytes \ {Nul})
  BY <1>1
<1>4. \A i \in 1..Len(r) : r[i] \o Delimiter \in Seq(Bytes \ {Nul})
  BY <1>2, <1>3
<1>5. OnTheWire("lines", r) = [i \in 1..Len(r) |-> r[i] \o Delimiter]
  BY <1>3 DEF OnTheWire
<1>6. Len(r) \in Nat \ {0}
  BY <1>1
<1> DEFINE R == Seq(Bytes \ {Nul})
           w == [i \in 1..Len(r) |-> r[i] \o Delimiter]
<1>7. \A i \in 1..Len(r) : w[i] \in R
  BY <1>4
<1>8. w \in Seq(R) /\ Len(w) = Len(r)
  <2> HIDE DEF R
  <2> QED BY <1>6, <1>7
<1>9. \A i \in 1..Len(r) : w[i] = r[i] \o Delimiter
  OBVIOUS
<1> HIDE DEF w
<1> QED BY <1>1, <1>5, <1>6, <1>8, <1>9 DEF w, R

\* Successive lines: they fit into the buffer, there is a first one, and one more
\* can follow.
LEMMA Parts ==
  ASSUME WholeLines, NEW r \in LineResponses, NEW i \in Nat, NEW j \in i..Len(r)
  PROVE  /\ Part(r, i, j) \in Seq(Bytes \ {Nul})
         /\ Part(r, i, j) \in Seq(Bytes)
         /\ Len(Part(r, i, j)) < BufferLen
         /\ i = j => Part(r, i, j) = <<>>
         /\ j < Len(r) => Part(r, i, j + 1) = Part(r, i, j) \o OnTheWire("lines", r)[j + 1]
         /\ i < j => LET s == Part(r, i, j)
                         p == Min(DelimitersIn(s))
                     IN  /\ DelimitersIn(s) # {}
                         /\ SubSeq(s, 1, p - 1) = r[i + 1]
                         /\ SubSeq(s, AfterLine(p), Len(s)) = Part(r, i + 1, j)
<1> DEFINE w == OnTheWire("lines", r)
<1>1. /\ w \in Seq(Seq(Bytes \ {Nul})) /\ Len(w) = Len(r) /\ Len(r) \in Nat
      /\ \A l \in 1..Len(r) : w[l] = r[l] \o Delimiter
      /\ r \in Seq(Seq(Bytes))
  BY WireLines
<1>2. Len(FlattenSeq(w)) < BufferLen /\ Len(FlattenSeq(w)) \in Nat /\ BufferLen \in Nat
  <2>1. FlattenSeq(w) \in Seq(Bytes \ {Nul})
    BY <1>1, FlattenType
  <2>2. Len(FlattenSeq(w)) < BufferLen
    BY DEF WholeLines
  <2> QED BY <2>1, <2>2, BytesAssumption
<1>3. j \in Nat /\ i <= j /\ j <= Len(w)
  BY <1>1
<1> HIDE DEF w
<1>4. /\ Part(r, i, j) \in Seq(Bytes \ {Nul})
      /\ Len(Part(r, i, j)) <= Len(FlattenSeq(w))
      /\ i = j => Part(r, i, j) = <<>>
      /\ j < Len(w) => Part(r, i, j + 1) = Part(r, i, j) \o w[j + 1]
      /\ i < j => Part(r, i, j) = w[i + 1] \o FlattenSeq(SubSeq(w, i + 2, j))
  <2>1. /\ FlattenSeq(SubSeq(w, i + 1, j)) \in Seq(Bytes \ {Nul})
        /\ Len(FlattenSeq(SubSeq(w, i + 1, j))) <= Len(FlattenSeq(w))
        /\ i = j => FlattenSeq(SubSeq(w, i + 1, j)) = <<>>
        /\ j < Len(w) => FlattenSeq(SubSeq(w, i + 1, j + 1))
                           = FlattenSeq(SubSeq(w, i + 1, j)) \o w[j + 1]
        /\ i < j => FlattenSeq(SubSeq(w, i + 1, j))
                      = w[i + 1] \o FlattenSeq(SubSeq(w, i + 2, j))
    <3> DEFINE B == Bytes \ {Nul}
    <3>1. w \in Seq(Seq(B)) /\ i \in Nat /\ j \in Nat /\ i <= j /\ j <= Len(w)
      BY <1>1, <1>3
    <3> HIDE DEF B
    <3>2. /\ FlattenSeq(SubSeq(w, i + 1, j)) \in Seq(B)
          /\ Len(FlattenSeq(SubSeq(w, i + 1, j))) <= Len(FlattenSeq(w))
          /\ i = j => FlattenSeq(SubSeq(w, i + 1, j)) = <<>>
          /\ j < Len(w) => FlattenSeq(SubSeq(w, i + 1, j + 1))
                             = FlattenSeq(SubSeq(w, i + 1, j)) \o w[j + 1]
          /\ i < j => FlattenSeq(SubSeq(w, i + 1, j))
                        = w[i + 1] \o FlattenSeq(SubSeq(w, i + 2, j))
      BY <3>1, FlattenPart, Zenon
    <3> QED BY <3>2 DEF B
  <2>2. \A n : Part(r, i, n) = FlattenSeq(SubSeq(w, i + 1, n))
    BY DEF Part, w
  <2> QED BY <2>1, <2>2
<1>5. Part(r, i, j) \in Seq(Bytes)
  BY <1>4
<1>6. Len(Part(r, i, j)) < BufferLen
  BY <1>2, <1>4, <1>5
<1>7. ASSUME i < j
      PROVE  LET s == Part(r, i, j)
                 p == Min(DelimitersIn(s))
             IN  /\ DelimitersIn(s) # {}
                 /\ SubSeq(s, 1, p - 1) = r[i + 1]
                 /\ SubSeq(s, AfterLine(p), Len(s)) = Part(r, i + 1, j)
  <2> DEFINE l == r[i + 1]
             x == Part(r, i + 1, j)
  <2>1. i + 1 \in Nat /\ i + 1 \in 1..Len(r) /\ (i + 1) + 1 = i + 2 /\ i + 1 <= j
    BY <1>1, <1>3, <1>7
  <2>2. x = FlattenSeq(SubSeq(w, i + 2, j))
    BY <2>1 DEF Part, w
  <2>3. x \in Seq(Bytes)
    <3>1. FlattenSeq(SubSeq(w, (i + 1) + 1, j)) \in Seq(Bytes \ {Nul})
      BY <1>1, <1>3, <2>1, FlattenPart
    <3>2. x \in Seq(Bytes \ {Nul})
      BY <2>1, <2>2, <3>1
    <3> HIDE DEF x
    <3> QED BY <3>2
  <2>4. l \in Seq(Bytes)
    BY <1>1, <2>1
  <2>5. DelimitersIn(l \o Delimiter) = {Len(l) + 1}
    <3>1. DOMAIN r = 1..Len(r)
      BY <1>1
    <3> QED BY <2>1, <3>1 DEF WholeLines
  <2>6. Part(r, i, j) = (l \o Delimiter) \o x
    BY <1>1, <1>4, <1>7, <2>1, <2>2
  <2> HIDE DEF l, x
  <2>7. LET s == (l \o Delimiter) \o x
            p == Min(DelimitersIn(s))
        IN  /\ DelimitersIn(s) # {}
            /\ SubSeq(s, 1, p - 1) = l
            /\ SubSeq(s, AfterLine(p), Len(s)) = x
    BY <2>3, <2>4, <2>5, FirstLine
  <2> QED BY <2>6, <2>7 DEF l, x
<1> QED BY <1>1, <1>4, <1>5, <1>6, <1>7 DEF w

\* Bytes that are asked for come in chunks that are not empty.
LEMMA ChunksOfBytes ==
  ASSUME NEW r \in ByteResponses
  PROVE  /\ Chunks("bytes", r) \in Seq(Seq(Bytes))
         /\ FlattenSeq(Chunks("bytes", r)) = r[1]
         /\ \A i \in DOMAIN Chunks("bytes", r) : Chunks("bytes", r)[i] # <<>>
<1>1. r \in Seq(Seq(Bytes)) /\ Len(r) = 1 /\ r[1] # <<>> /\ r[1] \in Seq(Bytes)
  BY BytesAssumption
<1>2. r = <<r[1]>>
  BY <1>1
<1>3. OnTheWire("bytes", r) = r
  <2>1. OnTheWire("bytes", r) = [i \in DOMAIN r |-> r[i]]
    BY DEF OnTheWire
  <2> QED BY <1>1, <2>1
<1>4. FlattenSeq(r) = r[1]
  BY <1>1, <1>2, FlattenOne
<1> DEFINE c == [i \in DOMAIN r[1] |-> <<r[1][i]>>]
<1>5. FlattenSeq(c) = r[1]
  BY <1>1, FlattenSingletons
<1>6. \A i \in DOMAIN c : c[i] # <<>>
  OBVIOUS
<1>7. \A i \in DOMAIN r : r[i] # <<>>
  BY <1>1
<1> HIDE DEF c
<1>8. Chunks("bytes", r) = IF "bytes" \in SplitModes THEN c ELSE r
  BY <1>3, <1>4 DEF Chunks, c
<1> QED BY <1>1, <1>4, <1>5, <1>6, <1>7, <1>8, ChunksType

-----------------------------------------------------------------------------
(* The exchange while no response is late *)

\* Before the first command nothing is on its way.
LEMMA ExchangeInit == Init => ExchangeInv
BY DEF Init, ExchangeInv, LinesInv, BytesInv, JoinInv, IdleInv

\* The exchange begins: with a port that holds nothing.
LEMMA SendCommandStep ==
  ASSUME WholeLines, TypeInv, ExchangeInv, NEW m \in {"lines", "bytes"},
         NEW r \in IF m = "lines" THEN LineResponses ELSE ByteResponses, SendCommand(m, r)
  PROVE  ExchangeInv'
<1>1. /\ persistent = <<>> /\ tty = <<>> /\ sending = <<>>
      /\ m = "bytes" => ~terminateRead
  <2>1. /\ persistent = <<>> /\ sending = <<>>
        /\ outcome = "failed" /\ mode = "lines" => tty = <<>>
        /\ outcome # "failed" => tty = <<>> /\ ~terminateRead
    BY DEF SendCommand, ExchangeInv, IdleInv
  <2>2. outcome = "failed" => mode # "bytes" /\ m # "bytes"
    BY DEF SendCommand, WholeLines
  <2>3. mode \in {"lines", "bytes"}
    BY DEF TypeInv, TypeOK
  <2> QED BY <2>1, <2>2, <2>3
<1>2. /\ sending' = Chunks(m, r) /\ tty' = <<>> /\ persistent' = <<>> /\ results' = <<>>
      /\ output' = <<>> /\ reader' = "starting" /\ caller' = "waiting" /\ mode' = m
      /\ expected' = r /\ outcome' = "none" /\ terminateRead' = terminateRead
  <2>1. Chunks(m, r) \in Seq(Seq(Bytes))
    BY ChunksType, BytesAssumption
  <2>2. <<>> \o Chunks(m, r) = Chunks(m, r)
    BY <2>1, ConcatEmptySeq
  <2> QED BY <1>1, <2>2 DEF SendCommand, portVars
<1>3. JoinInv' /\ IdleInv'
  BY <1>2 DEF JoinInv, IdleInv
<1>4. CASE m = "lines"
  <2>1. r \in LineResponses
    BY <1>4
  <2>2. /\ Chunks(m, r) = SubSeq(OnTheWire("lines", r), 0 + 1, Len(r))
        /\ 0 < Len(r) /\ Len(r) \in Nat /\ SubSeq(r, 1, 0) = <<>>
    <3>1. /\ r \in Seq(Seq(Bytes)) /\ Len(r) \in Nat \ {0}
          /\ OnTheWire("lines", r) \in Seq(Seq(Bytes \ {Nul}))
          /\ Len(OnTheWire("lines", r)) = Len(r)
      BY <2>1, WireLines
    <3>2. SubSeq(OnTheWire("lines", r), 1, Len(r)) = OnTheWire("lines", r)
      BY <3>1, SubSeqFull
    <3>3. Chunks(m, r) = OnTheWire("lines", r)
      BY <1>4 DEF Chunks, WholeLines
    <3> QED BY <3>1, <3>2, <3>3
  <2>3. Part(r, 0, 0) = <<>>
    BY <2>1, <2>2, Parts
  <2>4. Found' = 0 /\ Kept' = <<>> /\ Len(results') = 0
    BY <1>2 DEF Found, Kept
  <2>5. LinesAt(0, 0)'
    BY <1>2, <2>2, <2>3, <2>4 DEF LinesAt
  <2>6. 0 \in (Found')..Len(expected') /\ 0 <= 0
    BY <1>2, <2>2, <2>4
  <2>7. LinesInv'
    BY <1>2, <2>2, <2>4, <2>5, <2>6 DEF LinesInv
  <2>8. BytesInv'
    BY <1>2, <1>4 DEF BytesInv
  <2> QED BY <1>3, <2>7, <2>8 DEF ExchangeInv
<1>5. CASE m = "bytes"
  <2>1. r \in ByteResponses
    BY <1>5
  <2>2. /\ FlattenSeq(sending') = r[1] /\ r[1] \in Seq(Bytes)
        /\ \A i \in DOMAIN sending' : sending'[i] # <<>>
    BY <1>2, <1>5, <2>1, ChunksOfBytes, FlattenType
  <2>3. Got' = <<>>
    BY <1>2 DEF Got
  <2>4. Got' \o (tty' \o r[1]) = expected'[1]
    BY <1>2, <2>2, <2>3
  <2>5. BytesInv'
    BY <1>1, <1>2, <1>5, <2>2, <2>4 DEF BytesInv
  <2>6. LinesInv'
    BY <1>2, <1>5 DEF LinesInv
  <2> QED BY <1>3, <2>5, <2>6 DEF ExchangeInv
<1> QED BY <1>4, <1>5

\* Where the lines are, while they are read.
LEMMA WhereLinesAre ==
  ASSUME TypeInv, ExchangeInv, caller = "waiting", mode = "lines"
  PROVE  /\ expected \in LineResponses
         /\ Len(results) \in Nat /\ Len(expected) \in Nat /\ Found \in Nat
         /\ \E j, k \in Nat : /\ Found <= j /\ j <= k /\ k <= Len(expected)
                              /\ LinesAt(j, k)
<1>1. expected \in LineResponses
  BY DEF TypeInv, ReadInv
<1>2. Len(results) \in Nat /\ Len(expected) \in Nat
  BY DEF TypeInv, TypeOK
<1>3. Found \in Nat
  BY <1>2 DEF Found
<1>4. PICK j, k \in Found..Len(expected) : j <= k /\ LinesAt(j, k)
  BY DEF ExchangeInv, LinesInv
<1>5. j \in Nat /\ k \in Nat /\ Found <= j /\ k <= Len(expected)
  BY <1>2, <1>3
<1> QED BY <1>1, <1>2, <1>3, <1>4, <1>5

\* Bytes are somewhere, while they are read.
LEMMA WhereBytesAre ==
  ASSUME TypeInv, ExchangeInv, caller = "waiting", mode = "bytes"
  PROVE  /\ expected[1] \in Seq(Bytes) /\ Len(expected) = 1
         /\ Got \in Seq(Bytes) /\ tty \in Seq(Bytes) /\ sending \in Seq(Seq(Bytes))
         /\ \E rest \in Seq(Bytes) :
              /\ Got \o (tty \o rest) = expected[1]
              /\ Len(expected[1]) = Len(Got) + Len(tty) + Len(rest)
              /\ rest = FlattenSeq(sending) \/ (sending = <<>> /\ disturbed)
<1>1. expected[1] \in Seq(Bytes) /\ Len(expected) = 1
  <2>1. expected \in ByteResponses
    BY DEF TypeInv, ReadInv
  <2> QED BY <2>1, BytesAssumption
<1>2. Got \in Seq(Bytes) /\ tty \in Seq(Bytes) /\ sending \in Seq(Seq(Bytes))
  BY DEF TypeInv, TypeOK, Got
<1>3. PICK rest \in Seq(Bytes) : /\ Got \o (tty \o rest) = expected[1]
                                 /\ rest = FlattenSeq(sending) \/ (sending = <<>> /\ disturbed)
  BY DEF ExchangeInv, BytesInv
<1>4. Len(Got \o (tty \o rest)) = Len(Got) + Len(tty) + Len(rest)
  BY <1>2
<1> QED BY <1>1, <1>2, <1>3, <1>4

\* The last line or the last byte is taken: nothing is left.
LEMMA CollectStep ==
  ASSUME WholeLines, TypeInv, ExchangeInv, Collect
  PROVE  ExchangeInv'
<1>1. /\ caller = "waiting" /\ reader = "value"
      /\ results' = Append(results, output)
      /\ UNCHANGED <<mode, expected, readBuffer, output, tty, sending, disturbed, persistent,
                     terminateRead>>
  BY DEF Collect, portVars, deviceVars
<1>2. /\ Len(results') < Len(expected) => /\ reader' = "starting" /\ caller' = "waiting"
                                         /\ outcome' = "none"
      /\ ~(Len(results') < Len(expected)) => caller' = "idle" /\ outcome' = "ok"
  BY <1>1 DEF Collect, ExchangeInv, IdleInv
<1>3. results \in Seq(Seq(Bytes)) /\ output \in Seq(Bytes) /\ mode \in {"lines", "bytes"}
      /\ expected \in Seq(Seq(Bytes))
  BY DEF TypeInv, TypeOK
<1>5. JoinInv'
  BY <1>2 DEF JoinInv
<1>6. CASE mode = "lines"
  <2>1. PICK j, k \in Nat : /\ Found <= j /\ j <= k /\ k <= Len(expected)
                            /\ LinesAt(j, k)
    BY <1>1, <1>6, WhereLinesAre
  <2>2. /\ expected \in LineResponses /\ Len(results) \in Nat /\ Len(expected) \in Nat
        /\ Found = Len(results) + 1
    BY <1>1, <1>6, WhereLinesAre DEF Found
  <2>3. /\ Len(results) < Len(expected)
        /\ results = SubSeq(expected, 1, Len(results))
        /\ output = expected[Len(results) + 1]
        /\ ~terminateRead
    BY <1>1, <1>6 DEF ExchangeInv, LinesInv
  <2>4. Len(results') = Len(results) + 1 /\ results' = SubSeq(expected, 1, Len(results'))
    <3>1. Append(SubSeq(expected, 1, Len(results)), expected[Len(results) + 1])
            = SubSeq(expected, 1, Len(results) + 1)
      BY <1>3, <2>2, <2>3
    <3>2. Len(Append(results, output)) = Len(results) + 1
      BY <1>3
    <3> QED BY <1>1, <2>3, <3>1, <3>2
  <2>5. CASE Len(results') < Len(expected)
    <3>1. Found' = Found /\ Kept' = Kept
      BY <1>1, <1>2, <2>2, <2>4, <2>5 DEF Found, Kept
    <3>2. LinesAt(j, k)'
      BY <1>1, <2>1, <3>1 DEF LinesAt
    <3>3. j \in (Found')..Len(expected') /\ k \in (Found')..Len(expected')
      BY <1>1, <2>1, <2>2, <3>1
    <3>4. LinesInv'
      BY <1>1, <1>2, <2>1, <2>3, <2>4, <2>5, <3>2, <3>3 DEF LinesInv
    <3>5. BytesInv' /\ IdleInv'
      BY <1>1, <1>2, <1>6, <2>5 DEF BytesInv, IdleInv
    <3> QED BY <1>5, <3>4, <3>5 DEF ExchangeInv
  <2>6. CASE ~(Len(results') < Len(expected))
    <3>1. Found = Len(expected) /\ j = Found /\ k = Found
      BY <2>1, <2>2, <2>3, <2>4, <2>6
    <3>2. Kept = <<>> /\ tty = <<>> /\ Kept = persistent
      <4>1. Part(expected, Found, Found) = <<>>
        BY <2>2, <3>1, Parts
      <4> QED BY <1>1, <2>1, <3>1, <4>1 DEF LinesAt, Kept
    <3>3. sending = <<>>
      <4>1. SubSeq(OnTheWire("lines", expected), Len(expected) + 1, Len(expected)) = <<>>
        BY <2>2, SubSeqEmpty
      <4> QED BY <2>1, <3>1, <4>1 DEF LinesAt
    <3>4. IdleInv'
      BY <1>1, <1>2, <2>3, <2>6, <3>2, <3>3 DEF IdleInv
    <3> QED BY <1>2, <1>5, <2>6, <3>4 DEF ExchangeInv, LinesInv, BytesInv
  <2> QED BY <2>5, <2>6
<1>7. CASE mode = "bytes"
  <2>1. /\ expected[1] \in Seq(Bytes) /\ Len(expected) = 1
        /\ Got \in Seq(Bytes) /\ tty \in Seq(Bytes) /\ sending \in Seq(Seq(Bytes))
    BY <1>1, <1>7, WhereBytesAre
  <2>2. PICK rest \in Seq(Bytes) :
          /\ Len(expected[1]) = Len(Got) + Len(tty) + Len(rest)
          /\ rest = FlattenSeq(sending) \/ (sending = <<>> /\ disturbed)
    BY <1>1, <1>7, WhereBytesAre
  <2>3. /\ Len(output) = Len(expected[1]) /\ persistent = <<>> /\ ~terminateRead
        /\ \A i \in DOMAIN sending : sending[i] # <<>>
    BY <1>1, <1>7 DEF ExchangeInv, BytesInv
  <2>4. Len(Got) = Len(output)
    BY <1>1, <1>3 DEF Got
  <2>5. tty = <<>> /\ rest = <<>>
    BY <2>1, <2>2, <2>3, <2>4
  <2>6. sending = <<>>
    BY <2>1, <2>2, <2>3, <2>5, NothingLeft
  <2>7. ~(Len(results') < Len(expected))
    <3>1. Len(results') >= 1
      BY <1>1, <1>3
    <3> QED BY <2>1, <3>1
  <2>8. IdleInv'
    BY <1>1, <1>2, <2>3, <2>5, <2>6, <2>7 DEF IdleInv
  <2> QED BY <1>2, <1>5, <2>7, <2>8 DEF ExchangeInv, LinesInv, BytesInv
<1> QED BY <1>3, <1>6, <1>7

\* A timeout that is no fault of the device never expires while bytes are to come.
LEMMA TimeoutStep ==
  ASSUME WholeLines, TypeInv, ExchangeInv, Timeout, ~late'
  PROVE  ExchangeInv'
<1>1. /\ caller = "waiting" /\ caller' = "joining" /\ terminateRead' = TRUE
      /\ reader \in {"searching", "checking"} /\ sending = <<>> /\ tty = <<>>
      /\ UNCHANGED <<mode, expected, results, outcome, persistent, reader, tty, sending, disturbed>>
  BY DEF Timeout, Starving, WholeLines, readVars, deviceVars
<1>2. CASE mode = "lines"
  <2>1. DelimitersIn(persistent \o IF reader # "checking" THEN <<>> ELSE CString(readBuffer)) = {}
    BY <1>2 DEF Timeout, Starving, WholeLines
  <2>2. /\ persistent \in Seq(Bytes) /\ readBuffer \in Seq(Bytes)
        /\ reader = "checking" => persistent = <<>>
    BY <1>1, <1>2 DEF TypeInv, TypeOK, ExchangeInv, LinesInv
  <2>3. DelimitersIn(Kept) = {}
    <3>1. CString(readBuffer) \in Seq(Bytes)
      BY <2>2, CStringType
    <3>2. persistent \o <<>> = persistent /\ <<>> \o CString(readBuffer) = CString(readBuffer)
      BY <2>2, <3>1, ConcatEmptySeq
    <3> QED BY <2>1, <2>2, <3>2 DEF Kept
  <2>4. PICK j, k \in Nat : /\ Found <= j /\ j <= k /\ k <= Len(expected)
                            /\ LinesAt(j, k)
    BY <1>1, <1>2, WhereLinesAre
  <2>5. /\ expected \in LineResponses /\ Len(results) \in Nat /\ Len(expected) \in Nat
        /\ Found = Len(results) /\ Found < Len(expected)
    <3>1. /\ expected \in LineResponses /\ Len(results) \in Nat /\ Len(expected) \in Nat
      BY <1>1, <1>2, WhereLinesAre
    <3>2. Len(results) < Len(expected)
      BY <1>1, <1>2 DEF ExchangeInv, LinesInv
    <3>3. Found = Len(results)
      BY <1>1, <3>1 DEF Found
    <3> QED BY <3>1, <3>2, <3>3
  <2>6. j = Found
    <3>1. PICK i \in Nat : i = Found
      BY <2>5
    <3>2. i < j => DelimitersIn(Part(expected, i, j)) # {}
      BY <2>4, <2>5, <3>1, Parts
    <3> QED BY <2>3, <2>4, <2>5, <3>1, <3>2 DEF LinesAt
  <2>7. Kept = <<>>
    BY <2>4, <2>5, <2>6, Parts DEF LinesAt
  <2>8. persistent = <<>>
    BY <2>2, <2>7 DEF Kept
  <2>9. disturbed
    <3>1. SUFFICES ASSUME sending = SubSeq(OnTheWire("lines", expected), k + 1, Len(expected))
                   PROVE  FALSE
      BY <2>4 DEF LinesAt
    <3>2. k = Found
      <4>1. Found < k => Part(expected, Found, k) # <<>>
        <5>1. Found < k => DelimitersIn(Part(expected, Found, k)) # {}
          BY <2>4, <2>5, Parts
        <5> QED BY <5>1, NoDelimiterInNothing
      <4>2. tty = Part(expected, Found, k)
        BY <2>4, <2>6 DEF LinesAt
      <4> QED BY <1>1, <2>4, <2>5, <2>6, <4>1, <4>2
    <3>3. /\ OnTheWire("lines", expected) \in Seq(Seq(Bytes \ {Nul}))
          /\ Len(OnTheWire("lines", expected)) = Len(expected)
      BY <2>5, WireLines
    <3>4. Len(SubSeq(OnTheWire("lines", expected), k + 1, Len(expected))) # 0
      BY <2>5, <3>2, <3>3
    <3>5. Len(<<>>) = 0
      OBVIOUS
    <3> QED BY <1>1, <3>1, <3>4, <3>5, Zenon
  <2> QED BY <1>1, <2>8, <2>9 DEF ExchangeInv, LinesInv, BytesInv, JoinInv, IdleInv
<1>3. CASE mode = "bytes"
  <2>1. /\ expected[1] \in Seq(Bytes) /\ Got \in Seq(Bytes)
    BY <1>1, <1>3, WhereBytesAre
  <2>2. PICK rest \in Seq(Bytes) :
          /\ Len(expected[1]) = Len(Got) + Len(tty) + Len(rest)
          /\ rest = FlattenSeq(sending) \/ (sending = <<>> /\ disturbed)
    BY <1>1, <1>3, WhereBytesAre
  <2>3. Len(Got) < Len(expected[1])
    BY <1>1, <1>3 DEF Timeout, Starving, WholeLines, Got, nBytesToRead
  <2>4. disturbed
    BY <1>1, <2>1, <2>2, <2>3, FlattenEmpty
  <2>5. persistent = <<>>
    BY <1>1, <1>3 DEF ExchangeInv, BytesInv
  <2> QED BY <1>1, <2>4, <2>5 DEF ExchangeInv, LinesInv, BytesInv, JoinInv, IdleInv
<1>4. mode \in {"lines", "bytes"}
  BY DEF TypeInv, TypeOK
<1> QED BY <1>2, <1>3, <1>4

\* readline begins with what it kept, readBytes with nothing.
LEMMA StartReadStep ==
  ASSUME WholeLines, TypeInv, ExchangeInv, StartRead
  PROVE  ExchangeInv'
<1>1. /\ reader = "starting" /\ reader' = "searching" /\ output' = <<>>
      /\ mode = "lines" => readBuffer' = Nuls /\ terminateRead' = FALSE
      /\ mode # "lines" => terminateRead' = terminateRead
      /\ UNCHANGED <<persistent, caller, mode, expected, results, outcome, tty, sending, disturbed>>
  BY DEF StartRead, exchangeVars, deviceVars, Nuls
<1>2. caller = "waiting"
  BY <1>1 DEF TypeInv, TypeOK, ExchangeInv, JoinInv
<1>3. JoinInv' /\ IdleInv'
  BY <1>1, <1>2 DEF ExchangeInv, JoinInv, IdleInv
<1>4. CASE mode = "lines"
  <2>1. PICK j, k \in Found..Len(expected) : j <= k /\ LinesAt(j, k)
    BY <1>2, <1>4 DEF ExchangeInv, LinesInv
  <2>2. Found' = Found /\ Kept' = Kept
    BY <1>1 DEF Found, Kept
  <2>3. LinesAt(j, k)'
    BY <1>1, <2>1, <2>2 DEF LinesAt
  <2>4. LinesInv'
    BY <1>1, <1>2, <1>4, <2>1, <2>2, <2>3 DEF ExchangeInv, LinesInv
  <2> QED BY <1>1, <1>3, <1>4, <2>4 DEF ExchangeInv, BytesInv
<1>5. CASE mode # "lines"
  <2>1. Got' = Got
    BY <1>1, <1>2, <1>5 DEF Got, ExchangeInv, BytesInv, TypeInv, TypeOK
  <2>2. BytesInv'
    BY <1>1, <1>2, <1>5, <2>1 DEF ExchangeInv, BytesInv
  <2> QED BY <1>1, <1>3, <1>5, <2>2 DEF ExchangeInv, LinesInv
<1> QED BY <1>4, <1>5

\* What is cut off at the first delimiter is the next line of the response.
LEMMA FindLineStep ==
  ASSUME WholeLines, TypeInv, ExchangeInv, FindLine
  PROVE  ExchangeInv'
<1> DEFINE p == Min(DelimitersIn(persistent))
<1>1. /\ reader = "searching" /\ reader' = "value" /\ mode = "lines"
      /\ DelimitersIn(persistent) # {}
      /\ output' = SubSeq(persistent, 1, p - 1)
      /\ persistent' = SubSeq(persistent, AfterLine(p), Len(persistent))
      /\ UNCHANGED <<terminateRead, readBuffer, caller, mode, expected, results, outcome, tty,
                     sending, disturbed>>
  BY DEF FindLine, exchangeVars, deviceVars
<1> HIDE DEF p
<1>2. caller = "waiting"
  <2>1. caller # "idle" /\ caller \in {"idle", "waiting", "joining"}
    BY <1>1 DEF TypeInv, TypeOK
  <2>2. caller # "joining"
    BY <1>1, NoDelimiterInNothing DEF ExchangeInv, JoinInv
  <2> QED BY <2>1, <2>2
<1>3. PICK j, k \in Nat : /\ Found <= j /\ j <= k /\ k <= Len(expected)
                          /\ LinesAt(j, k)
  BY <1>1, <1>2, WhereLinesAre
<1>4. /\ expected \in LineResponses /\ Len(results) \in Nat /\ Len(expected) \in Nat
      /\ Found \in Nat
  BY <1>1, <1>2, WhereLinesAre
<1>5. Found = Len(results) /\ Found' = Found + 1 /\ Kept = persistent /\ Kept' = persistent'
  BY <1>1, <1>4 DEF Found, Kept
<1>6. persistent = Part(expected, Found, j)
  BY <1>3, <1>5 DEF LinesAt
<1>7. Found < j
  <2>1. Found = j => persistent = <<>>
    BY <1>3, <1>4, <1>6, Parts
  <2> QED BY <1>1, <1>3, <1>4, <2>1, NoDelimiterInNothing
<1>8. output' = expected[Found + 1] /\ persistent' = Part(expected, Found + 1, j)
  <2>1. LET s == Part(expected, Found, j)
            q == Min(DelimitersIn(s))
        IN  /\ SubSeq(s, 1, q - 1) = expected[Found + 1]
            /\ SubSeq(s, AfterLine(q), Len(s)) = Part(expected, Found + 1, j)
    <3>1. j \in Found..Len(expected)
      BY <1>3, <1>4
    <3> QED BY <1>4, <1>7, <3>1, Parts
  <2> QED BY <1>1, <1>6, <2>1 DEF p
<1>9. LinesAt(j, k)'
  BY <1>1, <1>3, <1>5, <1>8 DEF LinesAt
<1>10. j \in (Found')..Len(expected') /\ k \in (Found')..Len(expected')
  BY <1>1, <1>3, <1>4, <1>5, <1>7
<1>11. /\ Len(results) < Len(expected) /\ results = SubSeq(expected, 1, Len(results))
       /\ ~terminateRead
  BY <1>1, <1>2 DEF ExchangeInv, LinesInv
<1>12. LinesInv'
  BY <1>1, <1>2, <1>3, <1>5, <1>8, <1>9, <1>10, <1>11 DEF LinesInv
<1>13. BytesInv' /\ JoinInv' /\ IdleInv'
  BY <1>1, <1>2 DEF ExchangeInv, BytesInv, JoinInv, IdleInv
<1> QED BY <1>12, <1>13 DEF ExchangeInv

\* All lines that wait are read at once, into a buffer of nulls.
LEMMA ReadIntoLineBufferStep ==
  ASSUME WholeLines, TypeInv, ExchangeInv, ReadIntoLineBuffer
  PROVE  ExchangeInv'
<1> DEFINE n == Min({Len(tty), BufferLen - 1})
<1>1. /\ reader = "searching" /\ reader' = "checking" /\ mode = "lines"
      /\ DelimitersIn(persistent) = {}
      /\ readBuffer' = SubSeq(tty, 1, n) \o SubSeq(readBuffer, n + 1, BufferLen)
      /\ tty' = SubSeq(tty, n + 1, Len(tty))
      /\ UNCHANGED <<sending, disturbed, output, caller, mode, expected, results, outcome,
                     persistent, terminateRead>>
  BY DEF ReadIntoLineBuffer, exchangeVars, portVars
<1>2. Len(tty) \in Nat /\ BufferLen - 1 \in Nat /\ BufferLen \in Nat /\ tty \in Seq(Bytes)
  BY BytesAssumption DEF TypeInv, TypeOK
<1>3. Len(tty) < BufferLen => n = Len(tty)
  <2>1. n = IF Len(tty) <= BufferLen - 1 THEN Len(tty) ELSE BufferLen - 1
    BY <1>2, MinOfTwo
  <2> QED BY <1>2, <2>1
<1> HIDE DEF n
<1>4. CASE caller = "joining"
  <2>1. tty = <<>> /\ Len(tty) = 0 /\ Len(tty) < BufferLen
    BY <1>4, BytesAssumption DEF ExchangeInv, JoinInv
  <2>2. tty' = <<>>
    BY <1>1, <1>2, <1>3, <2>1
  <2> QED BY <1>1, <1>4, <2>2 DEF ExchangeInv, LinesInv, BytesInv, JoinInv, IdleInv
<1>5. CASE caller = "waiting"
  <2>1. PICK j, k \in Nat : /\ Found <= j /\ j <= k /\ k <= Len(expected)
                            /\ LinesAt(j, k)
    BY <1>1, <1>5, WhereLinesAre
  <2>2. /\ expected \in LineResponses /\ Len(results) \in Nat /\ Len(expected) \in Nat
        /\ Found \in Nat
    BY <1>1, <1>5, WhereLinesAre
  <2>3. Found' = Found /\ Kept = persistent /\ Kept' = CString(readBuffer')
    BY <1>1 DEF Found, Kept
  <2>4. persistent = Part(expected, Found, j)
    BY <2>1, <2>3 DEF LinesAt
  <2>5. j = Found
    <3>1. Found < j => DelimitersIn(Part(expected, Found, j)) # {}
      BY <2>1, <2>2, Parts
    <3> QED BY <1>1, <2>1, <2>2, <2>4, <3>1
  <2>6. persistent = <<>> /\ readBuffer = Nuls
    <3>1. persistent = <<>>
      BY <2>2, <2>1, <2>4, <2>5, Parts
    <3> QED BY <1>1, <1>5, <2>3, <3>1 DEF ExchangeInv, LinesInv
  <2>7. /\ tty = Part(expected, Found, k)
        /\ tty \in Seq(Bytes \ {Nul}) /\ Len(tty) < BufferLen
    <3>1. tty = Part(expected, Found, k) /\ k \in Found..Len(expected)
      BY <2>1, <2>2, <2>5 DEF LinesAt
    <3> QED BY <2>2, <3>1, Parts
  <2>8. /\ readBuffer' = tty \o SubSeq(Nuls, Len(tty) + 1, BufferLen)
        /\ tty' = <<>>
    <3>1. SubSeq(tty, 1, Len(tty)) = tty /\ SubSeq(tty, Len(tty) + 1, Len(tty)) = <<>>
      BY <1>2
    <3> QED BY <1>1, <1>3, <2>6, <2>7, <3>1
  <2>9. Kept' = tty
    BY <2>3, <2>7, <2>8, CStringOfBytes
  <2>10. tty = <<>> => readBuffer' = Nuls
    <3>1. Nuls \in Seq(Bytes) /\ Len(Nuls) = BufferLen
      BY NulIsByte, BytesAssumption DEF Nuls
    <3>2. <<>> \o SubSeq(Nuls, 0 + 1, BufferLen) = Nuls
      BY <3>1
    <3>3. Len(<<>>) = 0
      OBVIOUS
    <3> QED BY <2>8, <3>2, <3>3
  <2>11. LinesAt(k, k)'
    <3>1. Part(expected, k, k) = <<>>
      BY <2>1, <2>2, Parts
    <3> QED BY <1>1, <2>1, <2>3, <2>7, <2>8, <2>9, <3>1 DEF LinesAt
  <2>12. k \in (Found')..Len(expected') /\ k <= k
    BY <1>1, <2>1, <2>2, <2>3
  <2>13. LinesInv'
    <3>1. /\ Len(results) < Len(expected) /\ results = SubSeq(expected, 1, Len(results))
          /\ ~terminateRead
      BY <1>1, <1>5 DEF ExchangeInv, LinesInv
    <3> QED BY <1>1, <2>6, <2>9, <2>10, <2>11, <2>12, <3>1 DEF LinesInv
  <2> QED BY <1>1, <1>5, <2>13 DEF ExchangeInv, BytesInv, JoinInv, IdleInv
<1>6. caller \in {"waiting", "joining"}
  BY <1>1 DEF TypeInv, TypeOK
<1> QED BY <1>4, <1>5, <1>6

\* All bytes that wait are among those that are missing.
LEMMA ReadMissingBytesStep ==
  ASSUME WholeLines, TypeInv, ExchangeInv, ReadMissingBytes
  PROVE  ExchangeInv'
<1> DEFINE n == Min({Len(tty), MissingBytes})
<1>1. /\ reader = "searching" /\ reader' = "checking" /\ mode = "bytes"
      /\ Len(output) < nBytesToRead
      /\ readBuffer' = SubSeq(tty, 1, n)
      /\ tty' = SubSeq(tty, n + 1, Len(tty))
      /\ UNCHANGED <<sending, disturbed, output, caller, mode, expected, results, outcome,
                     persistent, terminateRead>>
  BY DEF ReadMissingBytes, exchangeVars, portVars
<1>2. /\ Len(tty) \in Nat /\ tty \in Seq(Bytes) /\ Len(output) \in Nat /\ output \in Seq(Bytes)
      /\ caller \in {"waiting", "joining"}
  BY <1>1 DEF TypeInv, TypeOK
<1>3. Len(expected[1]) \in Nat
  <2>1. expected \in ByteResponses
    BY <1>1, <1>2 DEF TypeInv, ReadInv
  <2> QED BY <2>1, BytesAssumption
<1>4. MissingBytes = Len(expected[1]) - Len(output) /\ MissingBytes \in Nat
  BY <1>1, <1>2, <1>3 DEF MissingBytes, nBytesToRead
<1>5. Len(tty) <= MissingBytes => n = Len(tty)
  BY <1>2, <1>4, MinOfTwo
<1> HIDE DEF n
<1>6. Len(tty) <= MissingBytes => readBuffer' = tty /\ tty' = <<>>
  <2>1. SubSeq(tty, 1, Len(tty)) = tty /\ SubSeq(tty, Len(tty) + 1, Len(tty)) = <<>>
    BY <1>2
  <2> QED BY <1>1, <1>5, <2>1
<1>7. CASE caller = "joining"
  <2>1. tty = <<>> /\ Len(tty) = 0
    BY <1>7 DEF ExchangeInv, JoinInv
  <2>2. tty' = <<>>
    BY <1>4, <1>6, <2>1
  <2> QED BY <1>1, <1>7, <2>2 DEF ExchangeInv, LinesInv, BytesInv, JoinInv, IdleInv
<1>8. CASE caller = "waiting"
  <2>1. PICK rest \in Seq(Bytes) :
          /\ Got \o (tty \o rest) = expected[1]
          /\ Len(expected[1]) = Len(Got) + Len(tty) + Len(rest)
          /\ rest = FlattenSeq(sending) \/ (sending = <<>> /\ disturbed)
    BY <1>1, <1>8, WhereBytesAre
  <2>2. Got = output
    BY <1>1, <1>2 DEF Got
  <2>3. readBuffer' = tty /\ tty' = <<>>
    <3>1. Len(tty) <= MissingBytes
      BY <1>2, <1>3, <1>4, <2>1, <2>2
    <3> QED BY <1>6, <3>1
  <2>4. Got' = output \o tty
    BY <1>1, <2>3 DEF Got
  <2>5. Got' \o (tty' \o rest) = expected'[1]
    <3>1. (output \o tty) \o rest = output \o (tty \o rest)
      BY <1>2, ConcatAssociative
    <3>2. <<>> \o rest = rest
      BY ConcatEmptySeq
    <3> QED BY <1>1, <2>1, <2>2, <2>3, <2>4, <3>1, <3>2
  <2>6. BytesInv'
    BY <1>1, <1>8, <2>1, <2>5 DEF ExchangeInv, BytesInv
  <2> QED BY <1>1, <1>8, <2>6 DEF ExchangeInv, LinesInv, JoinInv, IdleInv
<1> QED BY <1>2, <1>7, <1>8

\* What a read that goes on keeps is the beginning of its response still.
LEMMA KeepReadStep ==
  ASSUME WholeLines, TypeInv, ExchangeInv, KeepRead
  PROVE  ExchangeInv'
<1>1. /\ reader = "checking" /\ reader' = "searching" /\ ~terminateRead
      /\ mode = "lines" => output' = output /\
           persistent' = IF Len(persistent) > MaxPersistent THEN persistent
                         ELSE persistent \o CString(readBuffer)
      /\ mode # "lines" => output' = output \o readBuffer /\ persistent' = persistent
      /\ UNCHANGED <<terminateRead, readBuffer, caller, mode, expected, results, outcome, tty,
                     sending, disturbed>>
  BY DEF KeepRead, StopRequested, exchangeVars, deviceVars
<1>2. /\ readBuffer \in Seq(Bytes) /\ output \in Seq(Bytes) /\ mode \in {"lines", "bytes"}
      /\ caller \in {"idle", "waiting", "joining"} /\ caller # "idle"
  BY <1>1 DEF TypeInv, TypeOK
<1>3. caller = "waiting"
  BY <1>1, <1>2 DEF ExchangeInv, JoinInv
<1>4. CASE mode = "lines"
  <2>1. persistent = <<>> /\ (Kept = <<>> => readBuffer = Nuls)
    BY <1>1, <1>3, <1>4 DEF ExchangeInv, LinesInv
  <2>2. persistent' = CString(readBuffer)
    <3>1. CString(readBuffer) \in Seq(Bytes)
      BY <1>2, CStringType
    <3>2. <<>> \o CString(readBuffer) = CString(readBuffer)
      BY <3>1, ConcatEmptySeq
    <3>3. ~(Len(<<>>) > MaxPersistent)
      BY EnvironmentAssumption
    <3> QED BY <1>1, <1>4, <2>1, <3>2, <3>3
  <2>3. Kept' = Kept /\ Found' = Found
    BY <1>1, <2>2 DEF Kept, Found
  <2>4. PICK j, k \in Found..Len(expected) : j <= k /\ LinesAt(j, k)
    BY <1>3, <1>4 DEF ExchangeInv, LinesInv
  <2>5. LinesAt(j, k)'
    BY <1>1, <2>3, <2>4 DEF LinesAt
  <2>6. LinesInv'
    <3>1. Len(results) < Len(expected) /\ results = SubSeq(expected, 1, Len(results))
      BY <1>3, <1>4 DEF ExchangeInv, LinesInv
    <3> QED BY <1>1, <1>3, <1>4, <2>1, <2>3, <2>4, <2>5, <3>1 DEF LinesInv
  <2> QED BY <1>1, <1>3, <1>4, <2>6 DEF ExchangeInv, BytesInv, JoinInv, IdleInv
<1>5. CASE mode = "bytes"
  <2>1. Got' = Got
    <3>1. (output \o readBuffer) \o <<>> = output \o readBuffer
      BY <1>2
    <3> QED BY <1>1, <1>5, <3>1 DEF Got
  <2>2. BytesInv'
    BY <1>1, <1>3, <1>5, <2>1 DEF ExchangeInv, BytesInv
  <2> QED BY <1>1, <1>3, <1>5, <2>2 DEF ExchangeInv, LinesInv, JoinInv, IdleInv
<1> QED BY <1>2, <1>4, <1>5

\* What arrives is moved from the device to the port and changes nothing else.
LEMMA ArriveStep ==
  ASSUME WholeLines, TypeInv, ExchangeInv, Arrive
  PROVE  ExchangeInv'
<1>1. /\ sending # <<>> /\ tty' = tty \o Head(sending) /\ sending' = Tail(sending)
      /\ UNCHANGED <<disturbed, reader, readBuffer, output, caller, mode, expected, results,
                     outcome, persistent, terminateRead>>
  BY DEF Arrive, readVars, exchangeVars, portVars
<1>2. /\ sending \in Seq(Seq(Bytes)) /\ tty \in Seq(Bytes) /\ mode \in {"lines", "bytes"}
      /\ caller = "waiting"
  BY <1>1 DEF TypeInv, TypeOK, ExchangeInv, IdleInv, JoinInv
<1>3. Found' = Found /\ Kept' = Kept /\ Got' = Got
  BY <1>1 DEF Found, Kept, Got
<1>4. CASE mode = "lines"
  <2>1. PICK j, k \in Nat : /\ Found <= j /\ j <= k /\ k <= Len(expected)
                            /\ LinesAt(j, k)
    BY <1>2, <1>4, WhereLinesAre
  <2>2. /\ expected \in LineResponses /\ Len(results) \in Nat /\ Len(expected) \in Nat
        /\ Found \in Nat
    BY <1>2, <1>4, WhereLinesAre
  <2> DEFINE w == OnTheWire("lines", expected)
             R == Seq(Bytes \ {Nul})
  <2>3. w \in Seq(R) /\ Len(w) = Len(expected)
    BY <2>2, WireLines
  <2>4. sending = SubSeq(w, k + 1, Len(expected))
    BY <1>1, <2>1 DEF LinesAt
  <2> HIDE DEF w, R
  <2>5. k < Len(expected)
    <3>1. k >= Len(expected) => SubSeq(w, k + 1, Len(expected)) = <<>>
      BY <2>1, <2>2, SubSeqEmpty
    <3> QED BY <1>1, <2>1, <2>2, <2>4, <3>1
  <2>6. Head(sending) = w[k + 1] /\ Tail(sending) = SubSeq(w, (k + 1) + 1, Len(expected))
    <3>1. k + 1 \in 1..Len(w) /\ Len(expected) \in (k + 1)..Len(w)
      BY <2>1, <2>2, <2>3, <2>5
    <3> QED BY <2>3, <2>4, <3>1, HeadTailOfSubSeq
  <2>7. tty' = Part(expected, j, k + 1)
    <3>1. k \in j..Len(expected)
      BY <2>1, <2>2
    <3>2. Part(expected, j, k + 1) = Part(expected, j, k) \o w[k + 1]
      BY <2>1, <2>2, <2>5, <3>1, Parts DEF w
    <3> QED BY <1>1, <2>1, <2>6, <3>2 DEF LinesAt
  <2>8. LinesAt(j, k + 1)'
    BY <1>1, <1>3, <2>1, <2>6, <2>7 DEF LinesAt, w
  <2>9. j \in (Found')..Len(expected') /\ k + 1 \in (Found')..Len(expected') /\ j <= k + 1
    BY <1>1, <1>3, <2>1, <2>2, <2>5
  <2>10. LinesInv'
    BY <1>1, <1>2, <1>3, <1>4, <2>8, <2>9 DEF ExchangeInv, LinesInv
  <2> QED BY <1>1, <1>2, <1>4, <2>10 DEF ExchangeInv, BytesInv, JoinInv, IdleInv
<1>5. CASE mode = "bytes"
  <2>1. PICK rest \in Seq(Bytes) :
          /\ Got \o (tty \o rest) = expected[1]
          /\ rest = FlattenSeq(sending) \/ (sending = <<>> /\ disturbed)
    BY <1>2, <1>5, WhereBytesAre
  <2> DEFINE h == Head(sending)
             x == FlattenSeq(Tail(sending))
  <2>2. h \in Seq(Bytes) /\ Tail(sending) \in Seq(Seq(Bytes))
    BY <1>1, <1>2, HeadTailProperties
  <2>3. x \in Seq(Bytes) /\ rest = h \o x
    BY <1>1, <1>2, <2>1, <2>2, FlattenType, FlattenHeadTail
  <2> HIDE DEF h
  <2>4. tty \o (h \o x) = (tty \o h) \o x
    <3>1. \A a, b, c \in Seq(Bytes) : a \o (b \o c) = (a \o b) \o c
      BY ConcatAssociative, SMTT(30)
    <3> HIDE DEF x
    <3> QED BY <1>2, <2>2, <2>3, <3>1, SMTT(30)
  <2>5. Got' \o (tty' \o x) = expected'[1]
    BY <1>1, <1>3, <2>1, <2>3, <2>4 DEF h
  <2>6. \A i \in DOMAIN sending' : sending'[i] # <<>>
    <3>1. \A i \in DOMAIN sending : sending[i] # <<>>
      BY <1>2, <1>5 DEF ExchangeInv, BytesInv
    <3>2. \A i \in 1..Len(Tail(sending)) :
            i + 1 \in DOMAIN sending /\ Tail(sending)[i] = sending[i + 1]
      BY <1>1, <1>2
    <3>3. DOMAIN Tail(sending) = 1..Len(Tail(sending))
      BY <2>2
    <3> QED BY <1>1, <3>1, <3>2, <3>3
  <2>7. reader # "error"
    BY <1>1, <1>2, <1>5 DEF ExchangeInv, BytesInv
  <2>8. BytesInv'
    <3>1. \E r \in Seq(Bytes) : /\ Got' \o (tty' \o r) = expected'[1]
                                /\ r = FlattenSeq(sending')
      BY <1>1, <2>3, <2>5
    <3> QED BY <1>1, <1>2, <1>5, <2>6, <2>7, <3>1 DEF ExchangeInv, BytesInv
  <2> QED BY <1>1, <1>2, <1>5, <2>8 DEF ExchangeInv, LinesInv, JoinInv, IdleInv
<1> QED BY <1>2, <1>4, <1>5

\* The device fails, or is silent.
LEMMA DeviceFailureStep ==
  ASSUME WholeLines, TypeInv, ExchangeInv, ReadError \/ Silence
  PROVE  ExchangeInv'
<1>1. /\ sending' = <<>> /\ disturbed' = TRUE
      /\ UNCHANGED <<tty, readBuffer, output, caller, mode, expected, results, outcome,
                     persistent, terminateRead>>
      /\ reader' = reader \/ (mode = "bytes" /\ reader = "searching" /\
                              reader' = IF terminateRead THEN "nullopt" ELSE "error")
  BY DEF ReadError, Silence, readVars, exchangeVars, portVars
<1>2. JoinInv' /\ IdleInv'
  BY <1>1 DEF ExchangeInv, JoinInv, IdleInv
<1>3. LinesInv'
  <2> SUFFICES ASSUME caller = "waiting", mode = "lines" PROVE LinesInv'
    BY <1>1 DEF LinesInv
  <2>1. reader' = reader
    BY <1>1
  <2>2. Found' = Found /\ Kept' = Kept
    BY <1>1, <2>1 DEF Found, Kept
  <2>3. PICK j, k \in Found..Len(expected) : j <= k /\ LinesAt(j, k)
    BY DEF ExchangeInv, LinesInv
  <2>4. LinesAt(j, k)'
    BY <1>1, <2>2, <2>3 DEF LinesAt
  <2> QED BY <1>1, <2>1, <2>2, <2>3, <2>4 DEF ExchangeInv, LinesInv
<1>4. BytesInv'
  <2> SUFFICES ASSUME caller = "waiting", mode = "bytes" PROVE BytesInv'
    BY <1>1 DEF BytesInv
  <2>1. Got' = Got
    BY <1>1 DEF Got
  <2>2. ~terminateRead
    BY DEF ExchangeInv, BytesInv
  <2>3. PICK rest \in Seq(Bytes) : Got \o (tty \o rest) = expected[1]
    BY WhereBytesAre
  <2>4. DOMAIN <<>> = {}
    OBVIOUS
  <2> QED BY <1>1, <2>1, <2>2, <2>3, <2>4 DEF ExchangeInv, BytesInv
<1> QED BY <1>2, <1>3, <1>4 DEF ExchangeInv

\* A read that ends without a result, and the exception that follows.
LEMMA FailureStep ==
  ASSUME WholeLines, TypeInv, ExchangeInv, SendFails \/ ReadFailed \/ Join
  PROVE  ExchangeInv'
<1>1. /\ caller' = "idle" /\ outcome' = "failed"
      /\ UNCHANGED <<mode, tty, sending, persistent, terminateRead>>
  BY DEF SendFails, ReadFailed, Join, Fail, portVars, deviceVars
<1>2. CASE SendFails
  <2>1. caller = "idle" /\ disturbed'
    BY <1>2 DEF SendFails
  <2> QED BY <1>1, <2>1 DEF ExchangeInv, LinesInv, BytesInv, JoinInv, IdleInv
<1>3. CASE ReadFailed
  <2>1. /\ caller = "waiting" /\ reader \in {"nullopt", "error"} /\ disturbed' = disturbed
        /\ mode \in {"lines", "bytes"}
    BY <1>3 DEF ReadFailed, deviceVars, TypeInv, TypeOK
  <2>2. mode = "bytes" /\ persistent = <<>> /\ sending = <<>> /\ disturbed
    BY <2>1 DEF ExchangeInv, LinesInv, BytesInv
  <2> QED BY <1>1, <2>1, <2>2 DEF ExchangeInv, LinesInv, BytesInv, JoinInv, IdleInv
<1>4. CASE Join
  <2>1. caller = "joining" /\ disturbed' = disturbed
    BY <1>4 DEF Join, deviceVars
  <2> QED BY <1>1, <2>1 DEF ExchangeInv, LinesInv, BytesInv, JoinInv, IdleInv
<1> QED BY <1>2, <1>3, <1>4

\* No step loses, adds or reorders a byte of the exchange that runs.
LEMMA ExchangeStep ==
  ASSUME WholeLines, TypeInv, ExchangeInv, [Next]_vars, ~late'
  PROVE  ExchangeInv'
<1>1. CASE \E r \in LineResponses : SendCommand("lines", r)
  BY <1>1, SendCommandStep
<1>2. CASE \E r \in ByteResponses : SendCommand("bytes", r)
  BY <1>2, SendCommandStep
<1>3. CASE SendOnly
  BY <1>3 DEF SendOnly, readVars, portVars, deviceVars, ExchangeInv, LinesInv, BytesInv, JoinInv,
              IdleInv
<1>4. CASE Reopen
  BY <1>4 DEF Reopen, readVars, ExchangeInv, LinesInv, BytesInv, JoinInv, IdleInv
<1>5. CASE FoundBytes
  <2>1. /\ reader = "searching" /\ reader' = "value" /\ mode = "bytes"
        /\ Len(output) = Len(expected[1])
        /\ UNCHANGED <<readBuffer, output, caller, mode, expected, results, outcome, tty, sending,
                       disturbed, persistent, terminateRead>>
    BY <1>5 DEF FoundBytes, nBytesToRead, exchangeVars, portVars, deviceVars
  <2>2. Got' = Got
    BY <2>1 DEF Got
  <2> QED BY <2>1, <2>2 DEF ExchangeInv, LinesInv, BytesInv, JoinInv, IdleInv
<1>6. CASE StopRead
  <2>1. /\ reader = "checking" /\ reader' = "nullopt" /\ terminateRead
        /\ UNCHANGED <<readBuffer, output, caller, mode, expected, results, outcome, tty, sending,
                       disturbed, persistent, terminateRead>>
    BY <1>6 DEF StopRead, StopRequested, exchangeVars, portVars, deviceVars
  <2>2. caller # "waiting"
    BY <2>1 DEF ExchangeInv, LinesInv, BytesInv, TypeInv, TypeOK
  <2> QED BY <2>1, <2>2 DEF ExchangeInv, LinesInv, BytesInv, JoinInv, IdleInv
<1>7. CASE UNCHANGED vars
  <2>1. Found' = Found /\ Kept' = Kept /\ Got' = Got
    BY <1>7 DEF vars, Found, Kept, Got
  <2>2. \A j, k : LinesAt(j, k)' = LinesAt(j, k)
    BY <1>7, <2>1 DEF vars, LinesAt
  <2>3. LinesInv' /\ BytesInv'
    BY <1>7, <2>1, <2>2 DEF vars, ExchangeInv, LinesInv, BytesInv
  <2> QED BY <1>7, <2>3 DEF vars, ExchangeInv, JoinInv, IdleInv
<1> QED
  BY <1>1, <1>2, <1>3, <1>4, <1>5, <1>6, <1>7, CollectStep, TimeoutStep, StartReadStep,
     FindLineStep, ReadIntoLineBufferStep, ReadMissingBytesStep, KeepReadStep, ArriveStep,
     DeviceFailureStep, FailureStep DEF Next, Reader

\* open() clears away what a late response has left, if all of it has come.
LEMMA TimelyStep ==
  ASSUME WholeLines, TypeInv, TimelyInv, [Next]_vars
  PROVE  TimelyInv'
<1> SUFFICES ASSUME ~late' PROVE ExchangeInv'
  BY DEF TimelyInv
<1>1. CASE ~late
  BY <1>1, ExchangeStep DEF TimelyInv
<1>2. CASE late
  <2>1. Reopen
    BY <1>2 DEF Next, Reader, SendCommand, SendOnly, SendFails, Collect, ReadFailed, Timeout, Join,
                StartRead, FindLine, ReadIntoLineBuffer, ReadMissingBytes, ReadError, FoundBytes,
                StopRead, KeepRead, Arrive, Silence, exchangeVars, vars
  <2>2. /\ caller' = "idle" /\ outcome' = "none" /\ persistent' = <<>> /\ tty' = <<>>
        /\ ~terminateRead' /\ sending' = <<>>
    BY <1>2, <2>1 DEF Reopen
  <2> QED BY <2>2 DEF ExchangeInv, LinesInv, BytesInv, JoinInv, IdleInv
<1> QED BY <1>1, <1>2

-----------------------------------------------------------------------------
(* What follows for the handler *)

\* With whole lines, and until a response is late, the bytes in the port, the
\* reader's buffer, the persistent string and still to come are the response that is
\* expected, at all times.
THEOREM ExchangeInvariant == ASSUME WholeLines PROVE Spec => []TimelyInv
<1>1. Init => TimelyInv
  BY ExchangeInit DEF TimelyInv
<1>2. TypeInv /\ TimelyInv /\ [Next]_vars => TimelyInv'
  BY TimelyStep
<1> QED BY <1>1, <1>2, TypeInvariant, PTL DEF Spec

\* With whole lines, a successful exchange leaves nothing on the line and nothing in
\* the port, whatever the responses, the delimiter and the failures of the exchanges
\* before, as long as no late response is about.
THEOREM NothingIsLeftBehind == ASSUME WholeLines PROVE Spec => []CleanAfterExchange
<1>1. TypeInv /\ TimelyInv => CleanAfterExchange
  BY DEF TypeInv, TypeOK, TimelyInv, ExchangeInv, IdleInv, CleanAfterExchange
<1> QED BY <1>1, TypeInvariant, ExchangeInvariant, PTL

\* With whole lines, an exchange fails only when the device or the port has failed
\* during it, or a timeout came too early, never for what the exchanges before have
\* left behind.
THEOREM AnswersAreRead == ASSUME WholeLines PROVE Spec => []AnsweredReadSucceeds
<1>1. TypeInv /\ TimelyInv => AnsweredReadSucceeds
  BY DEF TypeInv, TypeOK, TimelyInv, ExchangeInv, IdleInv, AnsweredReadSucceeds
<1> QED BY <1>1, TypeInvariant, ExchangeInvariant, PTL

\* At the beginning the port is the idle abstract handler.
LEMMA HandlerInit == Init => Handler!Init
BY DEF Init, Handler!Init

\* A step of the port is a step of the abstract handler, or none of its.
LEMMA HandlerStep ==
  ASSUME WholeLines, TypeInv, TimelyInv, [Next]_vars
  PROVE  [Handler!Next]_Handler!vars
<1>0. caller # "idle" /\ ~late => ExchangeInv /\ outcome = "none"
  BY DEF TimelyInv, ExchangeInv, IdleInv
<1>1. ASSUME NEW r \in LineResponses \cup ByteResponses, NEW m, SendCommand(m, r)
      PROVE  Handler!Ask(r)
  BY <1>1 DEF SendCommand, Handler!Ask
<1>2. CASE SendOnly
  BY <1>2 DEF SendOnly, Handler!Throw, Handler!Next
<1>3. CASE SendFails
  BY <1>3 DEF SendFails, Fail, Handler!Throw, Handler!Next
<1>4. CASE ReadFailed
  BY <1>4 DEF ReadFailed, Fail, Handler!Throw, Handler!Next
<1>5. CASE Join
  BY <1>5 DEF Join, Fail, Handler!Throw, Handler!Next
<1>6. CASE Reopen
  BY <1>6 DEF Reopen, readVars, Handler!vars
<1>7. CASE Timeout
  BY <1>0, <1>7 DEF Timeout, readVars, Handler!vars
<1>11. CASE Collect /\ late
  BY <1>11 DEF Collect, Handler!vars, Handler!Throw, Handler!Next
<1>8. CASE Collect /\ ~late
  <2>1. /\ caller = "waiting" /\ reader = "value" /\ outcome = "none" /\ ExchangeInv
        /\ results' = Append(results, output) /\ expected' = expected /\ ~late'
    BY <1>0, <1>8 DEF Collect
  <2>2. CASE Len(results') < Len(expected)
    BY <1>8, <2>1, <2>2 DEF Collect, Handler!vars
  <2>3. CASE ~(Len(results') < Len(expected))
    <3>1. caller' = "idle" /\ outcome' = "ok"
      BY <1>8, <2>3 DEF Collect
    <3>2. results' = expected
      <4>1. CASE mode = "lines"
        <5>1. /\ Len(results) < Len(expected) /\ results = SubSeq(expected, 1, Len(results))
              /\ output = expected[Len(results) + 1]
          BY <2>1, <4>1 DEF ExchangeInv, LinesInv
        <5>2. /\ expected \in Seq(Seq(Bytes)) /\ results \in Seq(Seq(Bytes))
              /\ output \in Seq(Bytes)
          BY DEF TypeInv, TypeOK
        <5>3. Len(results) \in Nat /\ Len(results') = Len(results) + 1
          BY <2>1, <5>2
        <5>4. Len(results') = Len(expected)
          BY <2>3, <5>1, <5>2, <5>3
        <5>5. \A i \in 1..Len(expected) : results'[i] = expected[i]
          <6> TAKE i \in 1..Len(expected)
          <6>1. CASE i = Len(results) + 1
            BY <2>1, <5>1, <5>2, <6>1
          <6>2. CASE i # Len(results) + 1
            <7>1. i \in 1..Len(results)
              BY <5>2, <5>3, <5>4, <6>2
            <7>2. results'[i] = results[i]
              BY <2>1, <5>2, <7>1
            <7>3. SubSeq(expected, 1, Len(results))[i] = expected[i]
              BY <5>1, <5>2, <7>1
            <7> QED BY <5>1, <7>2, <7>3
          <6> QED BY <6>1, <6>2
        <5>6. results' \in Seq(Seq(Bytes))
          BY <2>1, <5>2
        <5> QED BY <5>2, <5>4, <5>5, <5>6, SeqEqual
      <4>2. CASE mode = "bytes"
        <5>1. results = <<>> /\ Len(output) = Len(expected[1])
          BY <2>1, <4>2 DEF ExchangeInv, BytesInv
        <5>2. /\ expected[1] \in Seq(Bytes) /\ Len(expected) = 1 /\ Got \in Seq(Bytes)
              /\ tty \in Seq(Bytes)
          BY <2>1, <4>2, WhereBytesAre
        <5>3. PICK rest \in Seq(Bytes) :
                /\ Got \o (tty \o rest) = expected[1]
                /\ Len(expected[1]) = Len(Got) + Len(tty) + Len(rest)
          BY <2>1, <4>2, WhereBytesAre
        <5>4. output \in Seq(Bytes) /\ expected \in Seq(Seq(Bytes))
          BY DEF TypeInv, TypeOK
        <5>5. Got = output
          BY <2>1, <5>4 DEF Got
        <5>6. tty = <<>> /\ rest = <<>>
          BY <5>1, <5>2, <5>3, <5>5
        <5>7. output = expected[1]
          BY <5>3, <5>4, <5>5, <5>6
        <5>8. expected = <<expected[1]>>
          BY <5>2, <5>4
        <5>9. Append(<<>>, output) = <<output>>
          OBVIOUS
        <5> QED BY <2>1, <5>1, <5>7, <5>8, <5>9
      <4>3. mode \in {"lines", "bytes"}
        BY DEF TypeInv, TypeOK
      <4> QED BY <4>1, <4>2, <4>3
    <3>3. Handler!Answer
      BY <2>1, <3>1, <3>2 DEF Handler!Answer
    <3> QED BY <3>3 DEF Handler!Next
  <2> QED BY <2>2, <2>3
<1>9. CASE Reader
  <2>1. UNCHANGED exchangeVars
    BY <1>9 DEF Reader, StartRead, FindLine, ReadIntoLineBuffer, ReadMissingBytes, ReadError,
                FoundBytes, StopRead, KeepRead
  <2> QED BY <2>1 DEF exchangeVars, Handler!vars
<1>10. CASE Arrive \/ Silence \/ UNCHANGED vars
  BY <1>10 DEF Arrive, Silence, vars, exchangeVars, Handler!vars
<1> QED
  BY <1>1, <1>2, <1>3, <1>4, <1>5, <1>6, <1>7, <1>8, <1>9, <1>10, <1>11 DEF Next, Handler!Next

\* With whole lines, the handler implements the abstract port: it answers a command
\* by exactly the lines or the bytes of the response, or throws.  What it returns
\* while a late response is about counts as nothing.
THEOREM ImplementsHandler == ASSUME WholeLines PROVE Spec => ImplementsLinePort
<1>1. TypeInv /\ TimelyInv /\ [Next]_vars => [Handler!Next]_Handler!vars
  BY HandlerStep
<1> QED BY <1>1, HandlerInit, TypeInvariant, ExchangeInvariant, PTL
        DEF Spec, ImplementsLinePort, Handler!Spec

=============================================================================
