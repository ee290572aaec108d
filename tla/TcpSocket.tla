------------------------------ MODULE TcpSocket ------------------------------
(***************************************************************************)
(* One TcpSocket and the TcpCommandHandler that uses it.  A read is an     *)
(* asynchronous composed operation on the socket, next to a timer whose    *)
(* handler cancels it; the caller, who holds the backend's port mutex,     *)
(* runs both in _io_context.run() until neither has work left.             *)
(*                                                                         *)
(* What Boost.Asio does is modelled as far as the code depends on it: the  *)
(* composed operation is a sequence of read_some operations; one that      *)
(* starts with data at hand is performed at once and its handler queued,   *)
(* any other waits until the descriptor is ready; cancel() ends only what  *)
(* is waiting; run() returns when nothing is waiting or queued.            *)
(***************************************************************************)
EXTENDS Naturals, SequencesExt

CONSTANTS
  LineResponses,  \* responses read by lines: sequences of lines
  ByteResponses,  \* responses read by bytes: sequences of one byte string
  Delimiter,      \* the bytes that end a line
  SplitModes,     \* modes in which the bytes of a response arrive one by one
  LateResponses,  \* may a timeout expire while the response is on its way?
  Faults,         \* may the device stay silent, or the peer close?
  HostKnown,      \* does the host name always resolve?
  MaxPending      \* bound: chunks and bytes on their way when a command is sent

Bytes == (UNION {ToSet(FlattenSeq(r)) : r \in LineResponses \cup ByteResponses})
         \cup ToSet(Delimiter)

\* When no lines or no bytes are asked for, nothing is read: see SendOnly.
ASSUME BytesAssumption ==
  /\ LineResponses \cup ByteResponses \subseteq Seq(Seq(Bytes))
  /\ \A r \in LineResponses : r # <<>>
  /\ \A r \in ByteResponses : Len(r) = 1 /\ r[1] # <<>>
  /\ Delimiter \in Seq(Bytes) \ {<<>>}
ASSUME EnvironmentAssumption ==
  /\ SplitModes \subseteq {"lines", "bytes"}
  /\ {LateResponses, Faults, HostKnown} \subseteq BOOLEAN
  /\ MaxPending \in Nat

VARIABLES
  alive,          \* has the process not been terminated?
  peer,           \* "none" before the first connect, "up" or "gone"
  sending,        \* chunks the device has still to send
  kernel,         \* bytes received by the system
  caller,         \* "idle", or "running" the io_context
  timer,          \* "armed" or "off"
  readSome,       \* is the current read_some "waiting" for the descriptor?
  queue,          \* what the io_context has to run, in order
  taken,          \* bytes of a read_some whose handler is queued
  buffer,         \* the streambuf
  readCompleted,
  errorCode,      \* "none", "timeout" (operation_aborted) or "eof"
  mode,           \* does the exchange read "lines" or "bytes"?
  expected,       \* the response to the command of this exchange
  results,        \* ret
  outcome,        \* of the last exchange: "none", "ok" or "failed"
  cancelLost,     \* history: in this exchange cancel() found nothing waiting
  owed            \* history: has a read on this connection failed while bytes
                  \* of its response were at hand or still to come?

ioVars == <<timer, readSome, queue, taken, kernel>>
readVars == <<buffer, readCompleted, errorCode>>
exchangeVars == <<caller, mode, expected, results, outcome, cancelLost, owed>>
networkVars == <<alive, peer, sending>>
vars == <<alive, peer, sending, kernel, caller, timer, readSome, queue, taken,
          buffer, readCompleted, errorCode, mode, expected, results, outcome,
          cancelLost, owed>>

\* readBytesWithTimeout never holds more bytes than it was asked for, and
\* run() has one read_some at a time.
TypeOK ==
  /\ alive \in BOOLEAN
  /\ peer \in {"none", "up", "gone"}
  /\ sending \in Seq(Seq(Bytes))
  /\ kernel \in Seq(Bytes)
  /\ caller \in {"idle", "running"}
  /\ timer \in {"armed", "off"}
  /\ readSome \in {"waiting", "none"}
  /\ queue \in Seq({"ready", "read", "eof", "timeout", "timer", "cancelled"})
  /\ taken \in Seq(Bytes)
  /\ buffer \in Seq(Bytes)
  /\ readCompleted \in BOOLEAN
  /\ errorCode \in {"none", "timeout", "eof"}
  /\ mode \in {"lines", "bytes"}
  /\ expected \in Seq(Seq(Bytes))
  /\ results \in Seq(Seq(Bytes))
  /\ outcome \in {"none", "ok", "failed"}
  /\ cancelLost \in BOOLEAN
  /\ owed \in BOOLEAN
  /\ mode = "bytes" /\ caller = "running" => Len(buffer \o taken) <= Len(expected[1])
  /\ readSome = "waiting" => taken = <<>>

Init ==
  /\ alive = TRUE
  /\ peer = "none"
  /\ sending = <<>>
  /\ kernel = <<>>
  /\ caller = "idle"
  /\ timer = "off"
  /\ readSome = "none"
  /\ queue = <<>>
  /\ taken = <<>>
  /\ buffer = <<>>
  /\ readCompleted = FALSE
  /\ errorCode = "none"
  /\ mode = "lines"
  /\ expected = <<>>
  /\ results = <<>>
  /\ outcome = "none"
  /\ cancelLost = FALSE
  /\ owed = FALSE

-----------------------------------------------------------------------------
(* Helpers *)

OnTheWire(m, r) ==
  [i \in DOMAIN r |-> IF m = "lines" THEN r[i] \o Delimiter ELSE r[i]]

\* How the response reaches the socket.
Chunks(m, r) ==
  LET bytes == FlattenSeq(OnTheWire(m, r))
  IN  IF m \in SplitModes THEN [i \in DOMAIN bytes |-> <<bytes[i]>>]
      ELSE OnTheWire(m, r)

HasDelimiter(s) == \E p \in DOMAIN s : IsPrefix(Delimiter, SubSeq(s, p, Len(s)))

\* Mutant: async_read without transfer_exactly ends with the first bytes.
IsComplete_AnyBytes(m, r, b) ==
  IF m = "lines" THEN HasDelimiter(b) ELSE b # <<>>

\* The completion condition: async_read_until, or transfer_exactly.
IsComplete(m, r, b) ==
  IF m = "lines" THEN HasDelimiter(b) ELSE Len(b) >= Len(r[1])

\* How many of the bytes k a read_some takes: all of them, but transfer_exactly
\* no more than it misses.
Wanted(m, r, b, k) ==
  IF m = "lines" THEN Len(k) ELSE Min({Len(k), Len(r[1]) - Len(b)})

\* A read_some begins, with the bytes k at hand; q is queued already.
BeginReadSome(m, r, b, k, q) ==
  LET n == Wanted(m, r, b, k)
  IN  /\ kernel' = SubSeq(k, n + 1, Len(k))
      /\ taken' = SubSeq(k, 1, n)
      /\ queue' = q \o (IF k # <<>> THEN <<"read">>
                        ELSE IF peer = "gone" THEN <<"eof">> ELSE <<>>)
      /\ readSome' = IF k = <<>> /\ peer # "gone" THEN "waiting" ELSE "none"

\* Mutant: the streambuf outlives the read it was made for.
BeginRead_KeepsBuffer(m, r) ==
  /\ BeginReadSome(m, r, <<>>, kernel, <<>>)
  /\ timer' = "armed"
  /\ readCompleted' = FALSE
  /\ errorCode' = "none"
  /\ UNCHANGED buffer

\* readWithTimeout begins: the timer, the read, and run().
BeginRead(m, r) ==
  /\ BeginReadSome(m, r, <<>>, kernel, <<>>)
  /\ timer' = "armed"
  /\ buffer' = <<>>
  /\ readCompleted' = FALSE
  /\ errorCode' = "none"

\* doOnReadFinish; cancelling the timer queues its handler, with an error.
OnReadFinish(error, q) ==
  /\ readCompleted' = TRUE
  /\ errorCode' = error
  /\ timer' = "off"
  /\ queue' = IF timer = "armed" THEN Append(q, "cancelled") ELSE q

-----------------------------------------------------------------------------
(* The caller: TcpCommandHandler, and the beginning and end of a read *)

\* open() makes a new TcpCommandHandler and drops the old one, and with it what
\* the old connection still owed.
Connect ==
  /\ alive
  /\ caller = "idle"
  /\ peer' = "up"
  /\ sending' = <<>>
  /\ kernel' = <<>>
  /\ outcome' = "none"
  /\ owed' = FALSE
  /\ UNCHANGED <<alive, timer, readSome, queue, taken, caller, mode, expected,
                 results, cancelLost>>
  /\ UNCHANGED readVars

\* The name does not resolve: connect() throws, ~TcpSocket cancels a socket
\* that was never opened, which is an error, and terminates the process.
ResolveFails ==
  /\ ~HostKnown
  /\ alive
  /\ caller = "idle"
  /\ alive' = FALSE
  /\ UNCHANGED <<peer, sending>>
  /\ UNCHANGED <<ioVars, readVars, exchangeVars>>

\* _opened stays true when a read has failed: whoever waits for the backend's
\* port mutex meanwhile uses the same connection before open() replaces it.
Usable == alive /\ caller = "idle" /\ peer # "none"

\* send(), and the first read.  A peer that is gone does not answer; any other
\* answers after what it still has to send.
SendCommand(m, r) ==
  /\ Usable
  /\ Len(sending) + Len(kernel) <= MaxPending
  /\ sending' = IF peer = "up" THEN sending \o Chunks(m, r) ELSE <<>>
  /\ caller' = "running"
  /\ mode' = m
  /\ expected' = r
  /\ results' = <<>>
  /\ outcome' = "none"
  /\ cancelLost' = FALSE
  /\ BeginRead(m, r)
  /\ UNCHANGED <<alive, peer, owed>>

\* No lines or no bytes are asked for: nothing is read.
SendOnly ==
  /\ Usable
  /\ results' = <<>>
  /\ outcome' = "ok"
  /\ UNCHANGED <<caller, mode, expected, cancelLost, owed>>
  /\ UNCHANGED <<networkVars, ioVars, readVars>>

\* write() throws.
SendFails ==
  /\ Usable
  /\ peer = "gone"
  /\ results' = <<>>
  /\ outcome' = "failed"
  /\ UNCHANGED <<caller, mode, expected, cancelLost, owed>>
  /\ UNCHANGED <<networkVars, ioVars, readVars>>

\* run() has nothing left to do.
RunDone ==
  /\ caller = "running"
  /\ queue = <<>>
  /\ readSome = "none"
  /\ timer = "off"

\* The read has failed: an exception, what the streambuf holds is lost, and what
\* is at hand or still comes stays in the connection.
ReadFailed ==
  /\ RunDone
  /\ errorCode # "none"
  /\ results' = <<>>
  /\ outcome' = "failed"
  /\ caller' = "idle"
  /\ owed' = (owed \/ sending # <<>> \/ kernel # <<>>)
  /\ UNCHANGED <<mode, expected, cancelLost>>
  /\ UNCHANGED <<networkVars, ioVars, readVars>>

\* All of the streambuf is the result; then the next line, or the end.
Collect ==
  /\ RunDone
  /\ errorCode = "none"
  /\ results' = Append(results, buffer)
  /\ \/ /\ Len(results') < Len(expected)
        /\ BeginRead(mode, expected)
        /\ UNCHANGED <<caller, outcome>>
     \/ /\ Len(results') = Len(expected)
        /\ caller' = "idle"
        /\ outcome' = "ok"
        /\ UNCHANGED <<ioVars, readVars>>
  /\ UNCHANGED <<mode, expected, cancelLost, owed>>
  /\ UNCHANGED networkVars

-----------------------------------------------------------------------------
(* The handlers that run() runs *)

NextIs(handler) == queue # <<>> /\ Head(queue) = handler

\* The descriptor is ready: perform the waiting read_some; its handler is next.
RunReady ==
  /\ NextIs("ready")
  /\ readSome = "waiting"
  /\ kernel # <<>>
  /\ LET n == Wanted(mode, expected, buffer, kernel)
     IN  /\ taken' = SubSeq(kernel, 1, n)
         /\ kernel' = SubSeq(kernel, n + 1, Len(kernel))
  /\ readSome' = "none"
  /\ queue' = <<"read">> \o Tail(queue)
  /\ UNCHANGED timer
  /\ UNCHANGED <<networkVars, exchangeVars, readVars>>

\* The handler of a read_some that has delivered bytes: the composed operation
\* is complete, or begins another one.
RunRead ==
  /\ NextIs("read")
  /\ buffer' = buffer \o taken
  /\ \/ /\ IsComplete(mode, expected, buffer')
        /\ OnReadFinish("none", Tail(queue))
        /\ taken' = <<>>
        /\ UNCHANGED <<kernel, readSome>>
     \/ /\ ~IsComplete(mode, expected, buffer')
        /\ BeginReadSome(mode, expected, buffer', kernel, Tail(queue))
        /\ UNCHANGED <<timer, readCompleted, errorCode>>
  /\ UNCHANGED <<networkVars, exchangeVars>>

\* The descriptor is ready because the peer has closed the connection.
RunReadyAtEof ==
  /\ NextIs("ready")
  /\ readSome = "waiting"
  /\ kernel = <<>>
  /\ OnReadFinish("eof", Tail(queue))
  /\ readSome' = "none"
  /\ UNCHANGED <<taken, kernel, buffer>>
  /\ UNCHANGED <<networkVars, exchangeVars>>

\* The read_some was cancelled, or has met the end of the stream.
RunError ==
  /\ NextIs("timeout") \/ NextIs("eof")
  /\ OnReadFinish(Head(queue), Tail(queue))
  /\ UNCHANGED <<readSome, taken, kernel, buffer>>
  /\ UNCHANGED <<networkVars, exchangeVars>>

\* Mutant: the timer's handler looks at the wrong flag.
CancelsRead_Never == FALSE

\* Does the timer's handler call _socket.cancel()?
CancelsRead == ~readCompleted

\* doOnTimeout: cancel() ends a read_some that waits, and no other.
RunTimer ==
  /\ NextIs("timer")
  /\ IF CancelsRead /\ readSome = "waiting"
     THEN /\ readSome' = "none"
          /\ queue' = Append(Tail(queue), "timeout")
     ELSE /\ queue' = Tail(queue)
          /\ UNCHANGED readSome
  /\ cancelLost' = (cancelLost \/ (CancelsRead /\ readSome # "waiting"))
  /\ UNCHANGED <<timer, taken, kernel, caller, mode, expected, results, outcome, owed>>
  /\ UNCHANGED <<networkVars, readVars>>

\* A cancelled timer, or a descriptor nobody waits for any more.
RunNothing ==
  /\ NextIs("cancelled") \/ (NextIs("ready") /\ readSome = "none")
  /\ queue' = Tail(queue)
  /\ UNCHANGED <<timer, readSome, taken, kernel>>
  /\ UNCHANGED <<networkVars, exchangeVars, readVars>>

\* Nothing that is still to come would end the read.
Starving == sending = <<>> /\ kernel = <<>> /\ queue = <<>> /\ readSome = "waiting"

\* The timer expires: its handler is queued.  While handlers are queued this is
\* a timer that was found expired together with what is ahead of it.
Expire ==
  /\ timer = "armed"
  /\ LateResponses \/ Starving
  /\ timer' = "off"
  /\ queue' = Append(queue, "timer")
  /\ UNCHANGED <<readSome, taken, kernel>>
  /\ UNCHANGED <<networkVars, exchangeVars, readVars>>

-----------------------------------------------------------------------------
(* The device *)

\* The descriptor becomes ready for a read_some that waits.
Wake == queue' = IF readSome = "waiting" /\ ~Contains(queue, "ready")
                 THEN Append(queue, "ready") ELSE queue

Arrive ==
  /\ sending # <<>>
  /\ kernel' = kernel \o Head(sending)
  /\ sending' = Tail(sending)
  /\ Wake
  /\ UNCHANGED <<alive, peer, timer, readSome, taken>>
  /\ UNCHANGED <<readVars, exchangeVars>>

\* The rest of the response never comes.
Silence ==
  /\ Faults
  /\ sending # <<>>
  /\ sending' = <<>>
  /\ UNCHANGED <<alive, peer>>
  /\ UNCHANGED <<ioVars, readVars, exchangeVars>>

\* The peer closes the connection.
PeerCloses ==
  /\ Faults
  /\ peer = "up"
  /\ peer' = "gone"
  /\ sending' = <<>>
  /\ Wake
  /\ UNCHANGED <<alive, kernel, timer, readSome, taken>>
  /\ UNCHANGED <<readVars, exchangeVars>>

-----------------------------------------------------------------------------

Run == RunRead \/ RunReady \/ RunReadyAtEof \/ RunError \/ RunTimer \/ RunNothing

Next ==
  \/ Connect
  \/ ResolveFails
  \/ \E r \in LineResponses : SendCommand("lines", r)
  \/ \E r \in ByteResponses : SendCommand("bytes", r)
  \/ SendOnly
  \/ SendFails
  \/ ReadFailed
  \/ Collect
  \/ Run
  \/ Expire
  \/ Arrive
  \/ Silence
  \/ PeerCloses

Spec == Init /\ [][Next]_vars

\* run() runs what is queued, and the timer expires.  Nobody has to connect or
\* to send a command, and nothing has to arrive.
FairSpec ==
  /\ Spec
  /\ WF_vars(Run)
  /\ WF_vars(ReadFailed \/ Collect)
  /\ WF_vars(Expire)

-----------------------------------------------------------------------------
(* What the socket promises *)

\* The handler returns exactly the bytes the device has sent, or throws.  Its
\* lines keep their delimiter, those of a SerialPort do not.  Nothing is promised
\* of what it returns on a connection that owes a response.
WireHandler == INSTANCE LinePort WITH
  Responses <- {OnTheWire("lines", r) : r \in LineResponses} \cup ByteResponses,
  phase <- IF caller = "idle" THEN "idle" ELSE "busy",
  asked <- OnTheWire(mode, expected),
  answer <- IF outcome = "ok" /\ ~owed THEN results ELSE <<>>
ImplementsWirePort == WireHandler!Spec

\* After a successful exchange nothing of the response is left for the next one,
\* earlier failures on the same connection included, unless one of them has left
\* bytes of its response behind.
CleanAfterExchange ==
  outcome = "ok" /\ ~owed => kernel = <<>> /\ taken = <<>> /\ sending = <<>>

\* Whenever the timer expires, every read ends, with a result or an exception.
ReadReturns == caller = "running" ~> caller = "idle"

\* The one way not to return is a timeout whose cancel() came when no read_some
\* was waiting.
ReadReturnsUnlessCancelLost ==
  caller = "running" ~> (caller = "idle" \/ cancelLost)

\* A connection that cannot be established is reported, the process goes on.
ConnectThrowsOnly == alive

=============================================================================
