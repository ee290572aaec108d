----------------------------- MODULE SerialPort -----------------------------
(***************************************************************************)
(* One SerialPort and the SerialCommandHandler that uses it: the caller,   *)
(* who sends a command and waits for the lines or bytes of the response    *)
(* with a timeout each, the thread std::async starts for every such read,  *)
(* and the device.  The caller holds the backend's port mutex, so there is *)
(* one caller at a time.                                                   *)
(*                                                                         *)
(* Bytes are symbols.  read() returns what has arrived, up to the size     *)
(* asked for, and 0 or -1 when nothing has.                                *)
(***************************************************************************)
EXTENDS Naturals, SequencesExt

CONSTANTS
  LineResponses,  \* responses read by lines: sequences of lines
  ByteResponses,  \* responses read by bytes: sequences of one byte string
  Delimiter,      \* the bytes that end a line
  Nul,            \* the byte 0
  BufferLen,      \* size of readline's buffer, 256 in the code
  SplitModes,     \* modes in which the bytes of a response arrive one by one
  LateResponses,  \* may a timeout expire while the response is on its way?
  Faults,         \* may the device stay silent, or the port report an error?
  PromptReader,   \* is the thread of std::async started before the timeout?
  KeptModes,      \* modes in which the port stays in use after a failure
  MaxPending,     \* bound: chunks and bytes on their way when a command is sent
  MaxPersistent   \* bound: more bytes than these are not kept between reads

Bytes == (UNION {ToSet(FlattenSeq(r)) : r \in LineResponses \cup ByteResponses})
         \cup ToSet(Delimiter) \cup {Nul}

\* When no lines or no bytes are asked for, nothing is read: see SendOnly.
ASSUME BytesAssumption ==
  /\ LineResponses \cup ByteResponses \subseteq Seq(Seq(Bytes))
  /\ \A r \in LineResponses : r # <<>>
  /\ \A r \in ByteResponses : Len(r) = 1 /\ r[1] # <<>>
  /\ Delimiter \in Seq(Bytes) \ {<<>>}
  /\ BufferLen \in Nat \ {0, 1}
ASSUME EnvironmentAssumption ==
  /\ SplitModes \cup KeptModes \subseteq {"lines", "bytes"}
  /\ {LateResponses, Faults, PromptReader} \subseteq BOOLEAN
  /\ {MaxPending, MaxPersistent} \subseteq Nat

VARIABLES
  tty,            \* bytes waiting at the file descriptor
  sending,        \* chunks the device has still to send
  disturbed,      \* history: has the device or the port failed in this exchange?
  persistent,     \* _persistentBufferStr
  terminateRead,  \* _terminateRead
  caller,         \* "idle", "waiting" for the future or "joining" the thread
  reader,         \* position, or result, of the asynchronous read
  mode,           \* does the exchange read "lines" or "bytes"?
  expected,       \* the response to the command of this exchange
  readBuffer,     \* readBuffer of the running read
  output,         \* outputStr, outputBuffer
  results,        \* outputStrVec
  outcome,        \* of the last exchange: "none", "ok" or "failed"
  late            \* history: has a timeout expired while the response was on
                  \* its way, and has open() not cleared the line since?

portVars == <<persistent, terminateRead>>
deviceVars == <<tty, sending, disturbed>>
readVars == <<reader, readBuffer, output>>
exchangeVars == <<caller, mode, expected, results, outcome, late>>
vars == <<tty, sending, disturbed, persistent, terminateRead, caller, reader,
          mode, expected, readBuffer, output, results, outcome, late>>

Running == {"starting", "searching", "checking"}
Ended == {"value", "nullopt", "error"}

\* readBytes asks for no more bytes than are still missing.
TypeOK ==
  /\ tty \in Seq(Bytes)
  /\ sending \in Seq(Seq(Bytes))
  /\ disturbed \in BOOLEAN
  /\ persistent \in Seq(Bytes)
  /\ terminateRead \in BOOLEAN
  /\ caller \in {"idle", "waiting", "joining"}
  /\ reader \in Running \cup Ended \cup {"none"}
  /\ caller = "idle" <=> reader = "none"
  /\ mode \in {"lines", "bytes"}
  /\ expected \in Seq(Seq(Bytes))
  /\ readBuffer \in Seq(Bytes)
  /\ output \in Seq(Bytes)
  /\ results \in Seq(Seq(Bytes))
  /\ outcome \in {"none", "ok", "failed"}
  /\ late \in BOOLEAN
  /\ mode = "bytes" /\ caller # "idle" => Len(output) <= Len(expected[1])

Init ==
  /\ tty = <<>>
  /\ sending = <<>>
  /\ disturbed = FALSE
  /\ persistent = <<>>
  /\ terminateRead = FALSE
  /\ caller = "idle"
  /\ reader = "none"
  /\ mode = "lines"
  /\ expected = <<>>
  /\ readBuffer = <<>>
  /\ output = <<>>
  /\ results = <<>>
  /\ outcome = "none"
  /\ late = FALSE

-----------------------------------------------------------------------------
(* Helpers *)

\* Positions of the delimiter in s.
DelimitersIn(s) ==
  {p \in DOMAIN s : IsPrefix(Delimiter, SubSeq(s, p, Len(s)))}

nBytesToRead == Len(expected[1])

\* The C string in a buffer: its bytes up to the first null.
CString(buffer) == SubSeq(buffer, 1, SelectInSeq(buffer, LAMBDA b : b = Nul) - 1)

\* The response as the device sends it.
OnTheWire(m, r) == [i \in DOMAIN r |-> IF m = "lines" THEN r[i] \o Delimiter ELSE r[i]]

\* How it reaches the port.
Chunks(m, r) ==
  LET bytes == FlattenSeq(OnTheWire(m, r))
  IN  IF m \in SplitModes THEN [i \in DOMAIN bytes |-> <<bytes[i]>>] ELSE OnTheWire(m, r)

\* sendCommandAndRead...Impl throws.
Fail ==
  /\ caller' = "idle"
  /\ reader' = "none"
  /\ outcome' = "failed"
  /\ results' = <<>>

-----------------------------------------------------------------------------
(* The caller: SerialCommandHandler and the ...WithTimeout functions *)

\* send() and the start of the first read; std::async starts a thread for it.
SendCommand(m, r) ==
  /\ caller = "idle"
  /\ outcome = "failed" => {mode, m} \subseteq KeptModes
  /\ Len(sending) + Len(tty) <= MaxPending
  /\ sending' = sending \o Chunks(m, r)
  /\ disturbed' = FALSE
  /\ caller' = "waiting"
  /\ reader' = "starting"
  /\ mode' = m
  /\ expected' = r
  /\ results' = <<>>
  /\ output' = <<>>
  /\ outcome' = "none"
  /\ UNCHANGED <<tty, readBuffer, late>>
  /\ UNCHANGED portVars

\* No lines or no bytes are asked for: nothing is read.
SendOnly ==
  /\ caller = "idle"
  /\ outcome # "failed"
  /\ results' = <<>>
  /\ outcome' = "ok"
  /\ UNCHANGED <<caller, mode, expected, late>>
  /\ UNCHANGED <<readVars, portVars, deviceVars>>

\* The write is incomplete: runtime_error.
SendFails ==
  /\ Faults
  /\ caller = "idle"
  /\ Fail
  /\ disturbed' = TRUE
  /\ UNCHANGED <<mode, expected, readBuffer, output, tty, sending, late>>
  /\ UNCHANGED portVars

\* The future is ready: the next line, or the end of the exchange.
Collect ==
  /\ caller = "waiting"
  /\ reader = "value"
  /\ results' = Append(results, output)
  /\ IF Len(results') < Len(expected)
     THEN /\ reader' = "starting"
          /\ UNCHANGED <<caller, outcome>>
     ELSE /\ reader' = "none"
          /\ caller' = "idle"
          /\ outcome' = "ok"
  /\ UNCHANGED <<mode, expected, readBuffer, output, late>>
  /\ UNCHANGED <<portVars, deviceVars>>

\* The future holds nullopt or an exception.
ReadFailed ==
  /\ caller = "waiting"
  /\ reader \in {"nullopt", "error"}
  /\ Fail
  /\ UNCHANGED <<mode, expected, readBuffer, output, late>>
  /\ UNCHANGED <<portVars, deviceVars>>

\* What has been read so far, and is being read, does not end the read, and
\* nothing more is to come.
Starving ==
  LET pending == IF reader # "checking" THEN <<>>
                 ELSE IF mode = "lines" THEN CString(readBuffer) ELSE readBuffer
  IN  /\ reader \in {"searching", "checking"}
      /\ sending = <<>>
      /\ tty = <<>>
      /\ IF mode = "lines"
         THEN DelimitersIn(persistent \o pending) = {}
         ELSE Len(output \o pending) < nBytesToRead

\* wait_for times out: terminateRead(), and an exception that has to wait for
\* the thread in the destructor of the future.
Timeout ==
  /\ caller = "waiting"
  /\ reader \in Running
  /\ PromptReader => reader # "starting"
  /\ LateResponses \/ Starving
  /\ terminateRead' = TRUE
  /\ caller' = "joining"
  /\ late' = (late \/ ~Starving)
  /\ UNCHANGED <<mode, expected, results, outcome, persistent>>
  /\ UNCHANGED <<readVars, deviceVars>>

\* The thread has ended; what it returns is lost.
Join ==
  /\ caller = "joining"
  /\ reader \in Ended
  /\ Fail
  /\ UNCHANGED <<mode, expected, readBuffer, output, late>>
  /\ UNCHANGED <<portVars, deviceVars>>

\* open() replaces the port: a new object, and the input flushed; what the device
\* has still to send comes nevertheless.
Reopen ==
  /\ caller = "idle"
  /\ outcome = "failed"
  /\ tty' = <<>>
  /\ persistent' = <<>>
  /\ terminateRead' = FALSE
  /\ outcome' = "none"
  /\ late' = (late /\ sending # <<>>)
  /\ UNCHANGED <<sending, disturbed, caller, mode, expected, results>>
  /\ UNCHANGED readVars

-----------------------------------------------------------------------------
(* The thread: readline and readBytes *)

\* Mutant: readline does not reset _terminateRead.
StartRead_NoReset ==
  /\ reader = "starting"
  /\ reader' = "searching"
  /\ output' = <<>>
  /\ readBuffer' = IF mode = "lines" THEN [i \in 1..BufferLen |-> Nul] ELSE <<>>
  /\ UNCHANGED portVars
  /\ UNCHANGED <<exchangeVars, deviceVars>>

\* readline resets _terminateRead, readBytes does not.
StartRead ==
  /\ reader = "starting"
  /\ reader' = "searching"
  /\ output' = <<>>
  /\ readBuffer' = IF mode = "lines" THEN [i \in 1..BufferLen |-> Nul] ELSE <<>>
  /\ terminateRead' = IF mode = "lines" THEN FALSE ELSE terminateRead
  /\ UNCHANGED persistent
  /\ UNCHANGED <<exchangeVars, deviceVars>>

\* Mutant: the delimiter stays in front of the next line.
AfterLine_KeepsDelimiter(p) == p

\* Where the next line begins when the delimiter of this one is at p.
AfterLine(p) == p + Len(Delimiter)

\* The delimiter is in _persistentBufferStr: split it there.
FindLine ==
  /\ reader = "searching"
  /\ mode = "lines"
  /\ DelimitersIn(persistent) # {}
  /\ LET p == Min(DelimitersIn(persistent))
     IN  /\ output' = SubSeq(persistent, 1, p - 1)
         /\ persistent' = SubSeq(persistent, AfterLine(p), Len(persistent))
  /\ reader' = "value"
  /\ UNCHANGED <<terminateRead, readBuffer>>
  /\ UNCHANGED <<exchangeVars, deviceVars>>

\* read() into the buffer, which keeps what it does not overwrite.
ReadIntoLineBuffer ==
  /\ reader = "searching"
  /\ mode = "lines"
  /\ DelimitersIn(persistent) = {}
  /\ LET n == Min({Len(tty), BufferLen - 1})
     IN  /\ readBuffer' = SubSeq(tty, 1, n) \o SubSeq(readBuffer, n + 1, BufferLen)
         /\ tty' = SubSeq(tty, n + 1, Len(tty))
  /\ reader' = "checking"
  /\ UNCHANGED <<sending, disturbed, output>>
  /\ UNCHANGED <<exchangeVars, portVars>>

\* Mutant: every read asks for the whole number of bytes.
MissingBytes_All == nBytesToRead

MissingBytes == nBytesToRead - Len(output)

ReadMissingBytes ==
  /\ reader = "searching"
  /\ mode = "bytes"
  /\ Len(output) < nBytesToRead
  /\ LET n == Min({Len(tty), MissingBytes})
     IN  /\ readBuffer' = SubSeq(tty, 1, n)
         /\ tty' = SubSeq(tty, n + 1, Len(tty))
  /\ reader' = "checking"
  /\ UNCHANGED <<sending, disturbed, output>>
  /\ UNCHANGED <<exchangeVars, portVars>>

\* The device is gone: readBytes throws, readline goes on as if no bytes had
\* come (Silence).
ReadError ==
  /\ Faults
  /\ reader = "searching"
  /\ mode = "bytes"
  /\ Len(output) < nBytesToRead
  /\ reader' = IF terminateRead THEN "nullopt" ELSE "error"
  /\ sending' = <<>>
  /\ disturbed' = TRUE
  /\ UNCHANGED <<tty, readBuffer, output>>
  /\ UNCHANGED <<exchangeVars, portVars>>

FoundBytes ==
  /\ reader = "searching"
  /\ mode = "bytes"
  /\ Len(output) = nBytesToRead
  /\ reader' = "value"
  /\ UNCHANGED <<readBuffer, output>>
  /\ UNCHANGED <<exchangeVars, portVars, deviceVars>>

\* Mutant: the request to stop is not looked at.
StopRequested_Ignored == FALSE

StopRequested == terminateRead

\* After every read(): stop on request, what was read is lost with it.
StopRead ==
  /\ reader = "checking"
  /\ StopRequested
  /\ reader' = "nullopt"
  /\ UNCHANGED <<readBuffer, output>>
  /\ UNCHANGED <<exchangeVars, portVars, deviceVars>>

\* Or keep what the buffer holds and go on.
KeepRead ==
  /\ reader = "checking"
  /\ ~StopRequested
  /\ reader' = "searching"
  /\ IF mode = "lines"
     THEN /\ persistent' = IF Len(persistent) > MaxPersistent THEN persistent
                           ELSE persistent \o CString(readBuffer)
          /\ UNCHANGED output
     ELSE output' = output \o readBuffer /\ UNCHANGED persistent
  /\ UNCHANGED <<terminateRead, readBuffer>>
  /\ UNCHANGED <<exchangeVars, deviceVars>>

-----------------------------------------------------------------------------
(* The device *)

Arrive ==
  /\ sending # <<>>
  /\ tty' = tty \o Head(sending)
  /\ sending' = Tail(sending)
  /\ UNCHANGED disturbed
  /\ UNCHANGED <<readVars, exchangeVars, portVars>>

\* The rest of the response never comes.
Silence ==
  /\ Faults
  /\ sending # <<>>
  /\ sending' = <<>>
  /\ disturbed' = TRUE
  /\ UNCHANGED tty
  /\ UNCHANGED <<readVars, exchangeVars, portVars>>

-----------------------------------------------------------------------------

Reader ==
  \/ StartRead \/ FindLine \/ ReadIntoLineBuffer \/ ReadMissingBytes
  \/ ReadError \/ FoundBytes \/ StopRead \/ KeepRead

Next ==
  \/ \E r \in LineResponses : SendCommand("lines", r)
  \/ \E r \in ByteResponses : SendCommand("bytes", r)
  \/ SendOnly
  \/ SendFails
  \/ Collect
  \/ ReadFailed
  \/ Timeout
  \/ Join
  \/ Reopen
  \/ Reader
  \/ Arrive
  \/ Silence

Spec == Init /\ [][Next]_vars

\* The threads run and timers expire.  Nobody has to send another command, and
\* nothing has to arrive.
FairSpec ==
  /\ Spec
  /\ WF_vars(Reader)
  /\ WF_vars(Collect \/ ReadFailed \/ Join)
  /\ WF_vars(Timeout)

-----------------------------------------------------------------------------
(* What the port promises *)

\* The handler returns exactly the response to its command, or throws.  Nothing is
\* promised of what it returns while a late response is not cleared away.
Handler == INSTANCE LinePort WITH
  Responses <- LineResponses \cup ByteResponses,
  phase <- IF caller = "idle" THEN "idle" ELSE "busy",
  asked <- expected,
  answer <- IF outcome = "ok" /\ ~late THEN results ELSE <<>>
ImplementsLinePort == Handler!Spec

\* After a successful exchange nothing of the response is left, neither on the
\* line nor in the port, that the next exchange could take for its own, unless a
\* late response is about.
CleanAfterExchange ==
  outcome = "ok" /\ ~late => persistent = <<>> /\ tty = <<>> /\ sending = <<>>

\* An exchange fails only when the device or the port did: a response that comes
\* in time is read, whatever the exchanges before have left behind.
AnsweredReadSucceeds == ~late /\ outcome = "failed" => disturbed

\* Every exchange ends, with the response or an exception: the timeout also
\* ends the thread that the caller has to wait for.
ReadReturns == caller # "idle" ~> caller = "idle"

=============================================================================
