# Verification of the ChimeraTK CommandBasedBackend

TLA+ models of the DeviceAccess backend for devices that are controlled by text
or binary commands over a serial line or TCP, what TLC checks about them, and
what TLAPS proves. Paths are relative to the repository (`src/src/...` is the
repository's own `src` directory).

## 1. The system

An application holds register accessors of one device. A transfer renders a
command from the map file's template, sends it over the port, waits for the
response (a number of lines or of bytes) and matches it against a pattern.

| part | state | operations | talks to |
|---|---|---|---|
| `CommandBasedBackend` | `_opened`, the active exception (base class), `_commandHandler`, `_mux`, `_lastWrittenRegister`, `_defaultRecoveryRegister`, the catalogue | `open` (also recovery), `close`, `sendCommandAndRead` | accessors call it; it calls the command handler under `_mux` |
| `CommandBasedBackendRegisterAccessor` | the user's buffer, the read and write transfer buffers, the version number; regexes, checksummers | `doPreRead`, `doReadTransferSynchronously`, `doPostRead`, `doPreWrite`, `doWriteTransfer`, each in the application's thread | backend; sets `_lastWrittenRegister` directly |
| `SerialCommandHandler`, `SerialPort` | file descriptor, `_persistentBufferStr`, `_terminateRead` | send; read lines or bytes with a timeout, in a thread made by `std::async` | the device |
| `TcpCommandHandler`, `TcpSocket` | socket, `_io_context`, per read: timer, stream buffer, `readCompleted`, `errorCode` | connect, disconnect, send; read lines or bytes with a timeout, as handlers run by `_io_context.run()` | the device |
| `CommandHandler` | default delimiter, timeout | chooses the delimiters of a call | |
| `CommandBasedBackendRegisterInfo`, `InteractionInfo` | command and response patterns, endings, types, checksums; constant after construction | construction from JSON, validation, regexes | catalogue |
| `Checksum`, `stringUtils`, `jsonUtils`, `injaUtils`, `mapFileKeys` | none | pure functions | register info, accessors |

Hard behaviours:

* Several application threads run transfers; only the exchange itself is under
  `_mux`. `isFunctional`, `assert(_commandHandler)` and the assignment of
  `_lastWrittenRegister` are outside, and so are `open` and `close`.
* Responses carry no identification. A response that comes late, or a part of
  one left over, is indistinguishable from the next response.
* Each transport has its own timeout race: a thread and a flag on the serial
  side, a timer and a cancellation on the TCP side.
* Bytes arrive in pieces of any size; the ports put lines together.
* Recovery reads the register that was used last; which one that is depends on
  the whole history of transfers.
* A transfer of an accessor can fail in each of its phases, and the phases share
  buffers that outlive the transfer.
* A register's settings come from five places (map file, register, section, the
  other section's type, defaults), and some setters destroy what others have set.
* Values pass through digits, bytes and regular expressions, with widths and
  signs of the user type, of the slot and of the catalogue's data type.

What makes the parts correct: exchanges exclude each other; a value is accepted
only from the response to its own command; nothing of an exchange is left for
the next; the handler outlives its users; a failed device becomes functional
only through a tested `open`; every wait ends; a port returns exactly the
device's response or throws. For the pure parts: checksums agree with their
definition, tag orders that make no sense are rejected, settings come from the
innermost level that has them, a register is accepted only if the accessor can
rely on its lists and patterns, what is written and read is the number the
digits denote, and a value that does not fit is refused. For the accessor: a
success means a current, whole, intact value, or an executed write.

## 2. Modules

| module | models |
|---|---|
| `CommandBasedBackend` | the backend object, transfers of any number of threads, open/close/recovery, the device as a queue of response lines |
| `CommandBasedBackend_proofs` | theorems about it: exclusion, the handler's life, recovery; and whose lines are on their way: responses are the reader's own, nothing is left, nobody starves |
| `LinePort` | abstract: a command is answered by exactly its response, or the call throws |
| `SerialPort` | `SerialCommandHandler` + `SerialPort`: caller, reading thread, file descriptor, device |
| `SerialPort_proofs` | theorems about it: types, the exchange with a device that sends whole lines, that it implements `LinePort` |
| `TcpSocket` | `TcpCommandHandler` + `TcpSocket`: caller, timer, composed read, handler queue, device |
| `TcpSocket_proofs` | theorems about it: types, the exchange, that it implements `LinePort` |
| `SequenceFacts` | lemmas about sequences, prefixes, flattening and finite counting that several proofs need |
| `RegisterAccessor` | one accessor: construction, the phases of reading and writing, its buffers and version number |
| `RegisterAccessor_proofs` | theorems about it |
| `MapFile` | the backend's constructor: the frame of the map file, the catalogue, the properties of what is accepted |
| `MapFile_proofs` | theorems about every map file: the properties of `MapFile` |
| `RegisterInfo` | from the JSON of a register to `InteractionInfo`s, data type and verdict |
| `ChecksumTags` | the tags of a pattern: legal orders, payloads, what can be rendered |
| `Conversions` | integers, byte strings and hexadecimal strings |
| `Conversions_proofs` | theorems about them: what is written and read is the number that the digits denote |
| `ChecksumAlgorithms` | the checksums of binary interactions, and the length their regular expressions expect |
| `ValueTransport` | an integer written, stored by the device, and read back over a line that may damage a byte |
| `ValueTransport_proofs` | theorems about it, and about the checksums |
| `MC...` | values of the constants for TLC |

How they depend on each other:

    CommandBasedBackend          RegisterAccessor        MapFile            ValueTransport
      = many accessors,            = one accessor,         RegisterInfo       ChecksumAlgorithms
        one handler                  many transfers        ChecksumTags       Conversions
           |  assumes an exchange
        LinePort  <-- implemented by SerialPort, TcpSocket

The layers of communication meet in `LinePort`: what `SerialPort` and `TcpSocket`
are checked to implement is what `CommandBasedBackend` assumes of one exchange
(`SendCommand`, `ReadLine`, `FinishExchange`, `Timeout`), with two deviations it
carries in its own state: a TCP read may return several lines (`LinesPerRead`),
and on a serial line late responses survive a reopening (`ResponsesAfterOpen`).
`RegisterAccessor` takes an exchange as one step, in which the device answers
something. That the response belongs to its command is `ResponseIsOwn` of
`CommandBasedBackend`; `RegisterAccessor` is about what the accessor makes of it.
What `RegisterAccessor` takes for granted about patterns and lists (every element
has a capture group, every checksum a payload) is what `MapFile` checks of an
accepted register; that a value survives its conversions is checked in
`ValueTransport`.

### CommandBasedBackend

`pc[t]` walks through the code of a transfer: `assign` is the assignment at the
end of `doPreRead`/`doPreWrite`, `check` the `isFunctional` test, `assert` and
`lock` the first lines of `sendCommandAndRead`, `send` and `reading` the
handler's work under `_mux`, `received` the evaluation of the response, `failed`
the moment between the exception leaving the accessor and
`TransferElement` reporting it by `setException`. `open` is `OpenHandler` (the
new handler), `lookup`, and then a transfer without the `isFunctional` test.
A line is the thread whose command it answers and becomes `Stale` when that
thread has left the exchange, so that "own response" can be stated though the
code cannot see it. Two threads in the assignment of one `std::string` at a time
(`raced`) give the old or new value, a torn one, or the end of the process.
`exception`, `opened` and their setters belong to the DeviceAccess base class
and are modelled from how this code uses them.

Not in this module: rendering and matching (the response is accepted or
rejected by choice, except that a result of two lines never matches a pattern
written for one), and logic errors without effect on the state.

### SerialPort

One action per step of `readline`/`readBytes` between which the other thread can
act: `ReadIntoLineBuffer`/`ReadMissingBytes` (the system call), then
`StopRead`/`KeepRead` (the test of `_terminateRead` and the append), `FindLine`.
The line buffer is modelled with its stale contents: `read()` overwrites only as
many bytes as it delivers, and what is appended is the C string in the buffer.
`Timeout` is the expiry of `wait_for` with `terminateRead()`; `joining` is the
destructor of the future, which waits for the thread. `PromptReader` says whether
the thread has started to run before the timeout can expire. `late` is history: a
timeout has expired while its response was on its way. Opening the port again
forgets it if the device has sent everything by then, since that flushes the input;
what comes later answers the next command, and nothing is promised while `late`.

### TcpSocket

The queue holds what `_io_context.run()` still has to run. `BeginReadSome` is an
asio read_some: performed at once and its handler queued when bytes are at hand,
waiting for the descriptor otherwise; `RunReady` performs a waiting one.
`RunTimer` is `doOnTimeout`: `cancel()` ends a read_some that waits and has no
effect on one whose handler is queued. `RunDone` is the return of `run()`.
A read that fails only throws (`TcpSocket.cc:139`): the connection stays `Usable`, and
a thread that waited for the backend's mutex does use it before `open()` replaces it
(`Connect`). `owed` is history: on this connection a read has failed while bytes of
its response were at hand or still to come. They answer the next command, so
nothing is promised while `owed`. The
limit of 512 bytes per read_some is left out: a boundary at any byte is covered
by bytes that arrive one by one.

### RegisterAccessor

`pc` names the phase that comes next: `doPreRead`, `doReadTransferSynchronously`
or `ReadTransferFails`, `doPostRead`; `doPreWrite`, `doWriteTransfer` or
`WriteTransferFails`. Between them other threads change the backend's state
(`BackendChanges`: a failed transfer of theirs, `open`, `close`) and the device
changes its register (`DeviceChanges`). `readBuffer` is `_readTransferBuffer`,
which keeps the last response when a transfer throws; `doPostRead` is called all
the same, with TransferElement's flag (`updateDataBuffer`), and converts one
element after the other into the user's buffer before it inspects the checksum.
`version` is a flag that flips with every new version number. A response is the
data and the data its checksum was computed from; a damaged one differs in one
of the two. `FillBuffer` is the application between transfers.
`answer` and `executed` are history: they hold what the device had, and did,
during this transfer, which the code cannot see.

### MapFile, RegisterInfo, ChecksumTags

`MapFile` is the constructor of the backend as a small machine: `ParseFrame` and
then one `AddRegister` per register, until one of them throws. The register's
construction is a function, `RegisterInfo(json, delimiter)`, whose parts have the
names of the code: `FromRegisterLevel` is the register level's pass,
`populateFromJson` the section's, both through `setTypeFromJson`,
`setEndingsFromJson`, `setFixedWidthFromJson` and the others in the code's order;
`BeforeEndings` is what the code does to the endings before it looks at a key.
The variant `_responseInfo` is the record `reading`, and each setter builds a new
one when it changes the alternative, as the code does. `IsBad...` and `throwIf...`
are the tests that throw; `Verdict` gives the exception.
A JSON object is a function from its keys to values; a pattern is a sequence of
tokens, since only tags and their order matter to validation.

What reading this part of the code turned up, and the model reproduces:

* `inspectChecksum` (accessor) walks through the capture groups in textual
  order, not by the index of their tag.
* Of a repeated tag only the last occurrence is validated. A tag of a smaller
  index inside a payload of a greater one is accepted, though a comment in
  `Checksum.cc` says that overlaps throw. Hence the condition of
  `PayloadsComeInOrder`.
* The response's expressions are filled with as many checksums as the command
  has (`CommandBasedBackendRegisterInfo.cc:1263`): a register with a checksum in
  its command only is always rejected, and so is one with checksums in its
  response only, with a `runtime_error` instead of a `logic_error`; with
  different checksums in both the lengths the expressions want are the command's.
* A capture group written out in a response is rejected by the count of the
  checksum groups. The command's pattern is not rendered at construction.
* `"delimiter": ""` in the metadata rejects every text register, because the
  interaction that is not active keeps the empty delimiter.
* `nRespBytes` at the register level and a delimiter in the section give a read
  of zero lines; so does a write with a response and no `nRespLines` (`FIXME`
  13531). `nRespBytes` leaves a text command the delimiter of the register or the
  map file, although `mapFileKeys.h:52` says that it defaults to the empty one:
  `DelimitersAreInnermost` leaves that case out, `BytesNeedNoDelimiter` states the
  documentation's and fails (run `map_byte_responses`). A delimiter that a binary
  register sets at its own level is wiped when the section's endings are read.
* The data type of a decimal integer is computed from the number of digits with
  `log2(width + 1)`, and a signed and an unsigned type of equal width are
  reconciled to a signed one of that width, which holds the bits but not the
  numbers. `DataTypeHoldsBoth` is therefore about slots of hexadecimal digits, and
  about bits; of the logarithm nothing is claimed.

### Conversions, ChecksumAlgorithms, ValueTransport

A byte string is a sequence of bytes, a hexadecimal string one of digits. The
operators have the names of `stringUtils`; `hexStrOfWidth` and `hexStrCompact` are
the two overflow behaviours in use (a fixed width, or none), `EXPAND` and
`TRUNCATE` have no caller. `char` is signed, as on the platforms of the project.
`ValueTransport` composes them to the life of one value: `doPreWrite` renders it,
`Answer` lets the device return it or some other content, `Damage` changes a
byte, `doPostRead` takes the response apart and accepts or refuses.
Powers, sums, the number of some digits and the CRC are recursive functions of an
index, which TLC evaluates and TLAPS can reason about.

What they show of the boundaries: an odd number of signed digits writes 8 as
"8", which is read as -8 (`WrittenDigitsDenoteValue` holds modulo the width
there); an odd number of digits in a binary response is padded on the way and
never matches; an unsigned value with its sign bit set is sign-extended into a
wider signed slot; `0x0081` from a signed slot of four digits is read into an
`int8` as -127 (run `narrow_read`).

## 3. Runs

Instances are small but hold the cases that matter. For the backend and the ports: registers that are
read-only, write-only with and without response, read in two lines; two threads
(a third one only adds waiting for the mutex); lines of zero to two bytes, a
delimiter of two bytes, byte strings that contain the delimiter.

| run | shows |
|---|---|
| `backend_serial` | two threads, serial, responses in time or never, open/close apart from transfers: all safety properties, `FunctionalOnlyThroughOpen`, and that the mutex is always released |
| `backend_concurrent` | TCP, open/close at any moment, late responses: what survives it |
| `serial_port` | lines that arrive whole and fit the buffer, bytes in pieces, silences, port errors, timeouts at any moment: every exchange ends; until a timeout has left a response on its way it implements `LinePort`, leaves nothing over, and an exchange fails only if the device or the port did, also on a port that goes on reading lines after a timeout |
| `tcp_wire` | one line or bytes, in pieces, timeouts at any moment, a connection used again after failed reads: exactly what was sent, or an exception, as long as no failed read has left bytes behind; the call returns unless a cancellation was lost |
| `register_accessor` | whole and partial accessors, checksum, acknowledged writes, failures in every phase: a success is a current, whole, intact value or an executed write, and the version number tells a mixture from a value |
| `map_file` | every combination of the endings' keys at two levels, of types and widths, of checksum tags and names, and of the frame: what is accepted means what the file says, and the accessor can rely on it |
| `conversions` | integers of one and two bytes through slots of one to six digits and without width, text and binary, with checksums and a damaged byte: exact or refused |

Runs that end in a counterexample show a disagreement between the code and what
its documentation says (`PROJECT.json`, `findings`):

| run | what happens |
|---|---|
| `backend_late_two_threads` | a transfer that passed `isFunctional` before another's timeout accepts the other's late response |
| `serial_split_arrival` | the uncleared line buffer duplicates bytes of a line that arrives in pieces |
| `register_inheritance` | `signed` and `fractionalBits` of the register level are lost in a section that does not repeat them |
| `map_byte_responses` | a command whose response is a number of bytes keeps an outer level's delimiter |
| `narrow_read` | a signed response too great for the user type is read as another number |

The same models reproduce, with other values of the constants:

* `backend_serial` with `ExclusiveLifecycle = FALSE`: `close` or `open` destroys the
  handler under a running transfer (`HandlerAlive` fails; `CommandBasedBackend.cc:76`).
* `backend_serial` with `Transport = "ETHERNET"` and one thread: the first read takes
  both lines, the second times out (`AnsweredTransferIsNotStarved` fails;
  `TcpSocket.cc:147`).
* `serial_port` with `PromptReader = FALSE`: a timeout before the
  thread runs is undone by `readline`, and the caller waits for ever (`ReadReturns`
  fails; `SerialPort.cc:97`).
* `tcp_wire` with `HostKnown = TRUE` and `ReadReturns` as the property: a timeout while
  a piece of the line is being handled cancels nothing, and the caller waits for
  ever (`TcpSocket.cc:115`). `ReadReturnsUnlessCancelLost` is what remains.
* `tcp_wire` with `ConnectThrowsOnly` as the invariant: a name that does not resolve
  ends the process: `disconnect()` throws a `ChimeraTK::runtime_error`, since
  `cancel()` fails on a socket that is not open, and the destructor that called it
  catches that and calls `std::terminate` (`TcpSocket.cc:58`).
* `tcp_wire` with `~owed` struck from `CleanAfterExchange`: an exchange on the
  same connection as one that has timed out leaves a response behind, the late one or
  its own (`TcpSocket.cc:139`): the schedule of `backend_late_two_threads`.
* `SerialPort` with `BufferLen = 4` and the line `<<"a", "b", "a">>`: bytes of
  the long line stay in `_persistentBufferStr` (`CleanAfterExchange` fails).
* `SerialPort` with a line that contains `Nul`: the delimiter behind it is lost
  and the read times out (`AnsweredReadSucceeds` fails).
* `SerialPort` with `KeptModes = {"bytes"}`: after one timeout every `readBytes`
  fails at once, since only `readline` resets the flag (`AnsweredReadSucceeds`
  fails).
* `TcpSocket` implements `LinePort` for responses with their delimiters
  (`OnTheWire`), `SerialPort` for the lines without: `makeCombinedReadString`
  appends the delimiter to both.
* `CommandBasedBackend`: reads, not only writes, change
  `_lastWrittenRegister`, documented as the last register written.

Bounds. `MaxInFlight` (lines on their way when a command is sent) is at least
the longest response plus one late response; a send beyond it is not modelled,
the failing send is. `MaxPending` bounds what of earlier responses is on its way
when a command is sent, in chunks the device has still to send and bytes that have
arrived: 1 on the serial port, a whole line that is late, or the last byte; 4 on TCP,
the longest response, which arrives byte by byte. A send beyond it is not modelled;
the theorems hold for every bound.
`MaxPersistent` is above the longest response; beyond it stale bytes are no longer
appended, which does not stop the reading thread.

`register_accessor` has a register of two elements, the least in which a read can
fail half way and a window can be a proper part; of its four values one does not
fit the user type and one does not fit the command's slot. `map_file` varies each
key by being absent or different on each level, so that a value tells where it
comes from; each family fixes the keys that the other families are about.
Patterns have up to two checksums, the least in which they can overlap, and all
orders of their six tags. `MaxNElements` stands for the greatest `unsigned int` and
is passed by one register. `conversions` has all values of one byte and, of two
bytes, those next to the powers of 16 and their halves, where digits, nibbles
and signs change; slots are narrower, as wide and wider than the type. A damaged
byte has one bit, or all, changed, or is one more.

Deadlock is checked except in `tcp_wire`, where the process may have been
terminated or a read may wait for ever, and in `map_file`, `conversions` and the
three runs of the same modules, which end when the file is read or the value is.

Fairness. Threads are scheduled by the system and timers expire, so every step
of a transfer that is enabled for ever is taken, handlers that are queued run,
and a timeout whose wait goes on expires. Nothing makes an application start an
operation, a device answer, or a mutex prefer the thread that waits longest. In
`CommandBasedBackend` without late responses time passing means that the device
sends or drops the next line (`Respond \/ LoseLine`).

## 4. Proofs

Every theorem holds for every value of the constants that satisfies the named
assumptions of the module, and the hypothesis that is stated in it. The runs are
their small instances: each of the properties below is checked by one.

### CommandBasedBackend_proofs

For every set of threads, every catalogue and both transports:

* `TypeCorrect`: the type invariant. It is inductive as it stands; the sequences
  of lines need `ReplaceAllType`.
* `Exclusion`: `PortExclusive`. Strengthened to `PortInv`: a thread that sends
  or reads holds the mutex. Nothing about open and close is assumed.
* `RecoveryRegister_Readable`: with a readable default recovery register,
  `_lastWrittenRegister` is readable unless assignments overlapped. The invariant
  adds that a second thread in the assignment has set `raced`.
* `HandlerSafety`: when open and close are kept apart from transfers, no
  assertion on the handler fires and no destroyed one is used. `HandlerInv`
  relates the operations of all threads to each other and to the handler: a thread
  in `open` or `close` is alone, and whoever is past the assertion has a handler.
* `RecoveryOnlyThroughOpen`: the action property `FunctionalOnlyThroughOpen`, when
  open and close are kept apart from transfers and every read command has a
  response. From `HandlerInv`, and from `RecoveryTestInv`: a thread that is done with
  `open` has read the lines of its test. The second hypothesis is needed: a read
  without a response would succeed without the device, and the validation of the
  map file rejects such a register (`throwIfBadReadMarks`).

From `~LateResponses` (a device that answers in time or not at all), with open and
close at any moment:

* `OwnResponses` (`ResponseIsOwn`) and `CleanLine` (`LineCleanBetweenExchanges`).
  Neither is inductive. `OwnInv` says whose lines are on their way: every line
  still to come or in the input buffer answers the command of the thread that
  holds the mutex (`LineInv`, `HolderInv`), together with what that thread has read
  they are no more than it will read (`ExchangeInv`), so none is left when it has
  read enough, and none when it times out, for then none of its own is on the
  way. Results begin empty (`PositionInv`) and grow only by lines of the holder
  (`ReceivedInv`). The assumption is needed: `backend_late_two_threads` shows what
  a late response does.
* `NoStarvation` (`AnsweredTransferIsNotStarved`) on a serial line. `CountInv`
  sharpens "no more than" to "as many as", unless the device withheld a line
  (`muted`). The transport is needed: on TCP one read may take two lines.

### SerialPort_proofs

`TypeCorrect` holds for every device and every timeout. Its strengthening `ReadInv`
ties the response to the mode and bounds what `readBytes` holds.

`NothingIsLeftBehind` (`CleanAfterExchange`), `AnswersAreRead`
(`AnsweredReadSucceeds`) and `ImplementsHandler` (`ImplementsLinePort`) assume
`WholeLines`: a line arrives whole, has neither the delimiter nor a null byte within,
the lines of a response fit into `readline`'s buffer together, and after a failed
read of bytes the port is opened again. Timeouts may expire at any moment, but what
the properties promise ends when one has left a response on its way (`late`):
`TimelyInv` is `ExchangeInv` as long as that has not happened.
Each part is one that the code needs and does not check: without it the
counterexamples of section 3 appear (`serial_split_arrival`, `BufferLen = 4`, a line
with `Nul`, `KeptModes = {"bytes"}`). `serial_port` satisfies it. `ExchangeInv` is a
conservation law: what `readline` has kept, what waits at the file descriptor and
what the device has still to send are consecutive pieces of the response,
beginning where the results end (`LinesInv`, with a cut of the response into three
as a witness); for `readBytes` the same byte by byte (`BytesInv`). `JoinInv` says that
the caller waits for the thread only when nothing is to come, `IdleInv` that
between exchanges nothing is held. One lemma per action shows that no step
loses, adds or reorders a piece.

### TcpSocket_proofs

`TypeCorrect` holds for all responses. `NothingIsLeftBehind` (`CleanAfterExchange`)
and `ImplementsHandler` (`ImplementsWirePort`) assume `OneLineAnswers`: a response to
a read of lines has one line, whose delimiter is complete only at its end. That is
the case in which TCP keeps the promise (with two lines one read may take both).
Nothing is assumed of timers, of how the bytes arrive, of what the peer does, or of
when a connection is used again. But both properties promise something only while
not `owed`: when a read has timed out and bytes of its response are at hand or still
to come, the next command on that connection is answered by them, until `open()`
makes a new one. Reuse after any other failure keeps every promise.
The invariant has the bytes (stream buffer, what a read_some has taken, kernel, and
to come are the response, in this order) and the operation: exactly one read_some
is waiting, queued or ended, and a cancelled one is never taken for a complete one.

### RegisterAccessor_proofs

For every register, window, user type and slot, with and without checksum and
acknowledgement: `TypeCorrect`, `ReadsAreCurrent`, `AcknowledgedWritesArrive` and
`VersionsMeanWholeUpdates`. The properties speak of a transfer that has ended;
`TransferInv` says what one under way has: that a response in the transfer buffer,
when the transfer did not throw, is one of those that the register's value at
that moment allows (`Responses(answer)`), that the write buffer is the user's
buffer, and that no success of an earlier transfer is still noted.
`InspectedIsAnswer` is the step from a right checksum to undamaged data. Assumed is
that a checksum tells any two values apart (in the model it stands for the data)
and that an empty buffer is no register content.

### MapFile_proofs

For every map file whose values have the kinds that nlohmann's `get<>()` demands
(it throws otherwise, before the code here goes on), in which no path occurs twice
and no register has two sections of a kind (an object has each key once):
`WellTypedFile`. Then all invariants of `map_file` hold:

* `CatalogueInvariant`: every entry of the catalogue is `RegisterInfo` of the
  register of that path, with the verdict "accepted" and the delimiter of the frame.
  This is the inductive invariant; everything else is about what `RegisterInfo`
  accepts, for all JSON.
* `AgreeingLists` (`ChecksumListsAgree`): a pattern that `IsValidChecksumPattern` has
  every tag of every checksum, so as many tags of each kind as checksums
  (`TagsOfChecksums`, by counting).
* `InnermostDelimiters`, `DeclaredReads`: from lemmas on each setter
  (`...Setter`: what it changes and that it leaves the rest), on a level
  (`EndingsAfter`, `FormatAfter`, `RegisterLevel`, `SectionLevel`) and on both
  (`TextLevels`, `BinaryLevels`, `InteractionMembers`). `ReadingAfter` folds what a level
  does to the variant `_responseInfo` into one operator.
* `PayloadsInOrder`: in a valid pattern without repeated tags a payload holds only
  tags of checksums before its own (`OnlyEarlierTags`).
* `NarrowestDataType` (`DataTypeHoldsBoth`): from `BitsOfWidth` and `ReconciledSlots`.
* `TypeCorrect` (`TypeOK`): among others, that the integers of a transfer have at most
  20 decimal or 16 hexadecimal characters, whatever the five places of the
  settings say.

### Conversions_proofs

Nothing is bounded here: integer types of any number of bytes, widths and strings
of any length.

* `BytesSurvive`, `EvenDigitsSurvive`: `binaryStrFromHexStr` undoes
  `hexStrFromBinaryStr`, and, for an even number of digits, the other way round. So
  packing a binary command and unpacking a binary response lose nothing; for an odd
  number of digits `conversions` shows that they do.
* `ReadNumber` (`toUserTypeHexInt`): a value of the type; the number of the digits,
  where the type is as wide; nothing only where the type does not have that number.
* `EvenWidth`, `OddWidth` (`hexStrFromInt`): exactly the values that have digits of the
  width are written, into digits that denote them. For an odd number of signed
  digits only the number modulo the width is right, which is what the code's test of
  the cut nibble leaves.
* `CompactDigits` (`hexStrFromInt` without a width): the digits denote the value, and
  fewer cannot.

The number of a string of digits is a recursive function. That such a function
exists is `StepsExist`, and induction is `Upwards`; both speak of sets instead of
predicates, so that the provers can instantiate them. What the proofs live on: digits
joined (`JoinedNumber`), zeros or the sign's digits in front (`LeadingZeros`,
`ExtendedDigits`), a number's digits denote it (`NumberOfDigits`), two hexadecimal
digits are a byte (`TwoDigitsPerByte`), and the width that `getIntNaturalByteWidth`
computes is the least one (`NaturalWidth`).

### ValueTransport_proofs

For all sets of cases, contents and damages that satisfy `CasesAssumption` (a type has
a byte at least, a slot one width or none, a binary slot has one, and only binary
ones have a checksum), all invariants of `conversions` hold: `TypeCorrect`,
`WrittenDigits`, `TooWideIsRefused`, `FewestDigits`, `ReadNumbers`, `DamageDetected` and
`IntactAccepted`. Each is an instance of `TransportInv`, which says what the phases of
a transfer leave behind:

* `CommandInv`: the digits fit the slot, and, until the device has put other contents
  there, are those that `toTransportLayerHexInt` makes of the value (or there are
  none, and it makes none).
* `LineInv`: the transfer buffer is what the sender renders of the digits, or, when it
  is damaged, differs from it in one byte.
* `ReadInv`: what is accepted is what `toUserTypeHexInt` makes of the digits, from an
  undamaged response; a refused intact one has a number that the type lacks, or is
  an odd number of digits that was padded.

`ChecksumsDiffer` is the step for damaged responses: a changed byte changes the sum by
less than 256, hence modulo 256 and more, and it changes the register of the CRC, since
an exclusive or with the same number (`XorLosesNothing`) and the shift with the
polynomial's feedback (`ShiftLosesNothing`: the polynomial is odd) map different
registers to different ones. Damage to the checksum's own digits, or across its boundary, is
`DamagedResponse`. SHA-256 is not modelled, and nothing of the kind
could be proved of it.

### Lemmas, and what is only model-checked

The lemmas about a step have one case per action. Facts about sequences are in
`SequenceFacts`, among them that the recursive function inside `FlattenSeq` exists
and what it returns: induction over the naturals is by `SetInduction` there, which
speaks of a set of numbers instead of a predicate.

Only model-checked: liveness (`PortReleased`, `ReadReturns`,
`ReadReturnsUnlessCancelLost`), since fairness and ENABLED are outside the prover's
reach.

## 5. Not modelled

* nlohmann's JSON, inja and `std::regex` themselves, and the texts of logs and
  errors. Patterns are token sequences; a response that does not match is a choice
  in `RegisterAccessor` and a length in `ValueTransport`.
* SHA-256 (its value; its length and place are), and the checksums of text
  interactions: they are printed as decimal numbers while the expression wants a
  fixed number of hexadecimal digits (`Checksum.cc:135`). A hazard without a property.
* Floating point values and `Boolean`: `toTransportLayerHexFloat` writes all bytes of
  the user type whatever the slot's width is. A hazard without a property.
  Scaling by fractional bits changes only the number that is converted.
* Decimal digits, and the overflow behaviours `EXPAND` and `TRUNCATE`, which nobody
  calls.
* `SerialCommandHandler::waitAndReadline` (used by the dummy server only), the
  dummy server and the tests.
* Waiting on the mutex and the phases of an accessor are in different modules:
  `RegisterAccessor` has one accessor and lets other threads change the rest.

## 6. Plan

1. Done: `CommandBasedBackend` with its first theorems, `LinePort`, `SerialPort`,
   `TcpSocket`.
2. Done: `RegisterAccessor` with its theorems; `MapFile`, `RegisterInfo`,
   `ChecksumTags`; `Conversions` with its round trips, `ChecksumAlgorithms`,
   `ValueTransport`.
3. Done: theorems about every safety property of `CommandBasedBackend`, `SerialPort`,
   `TcpSocket`, `RegisterAccessor`, `MapFile` and `ValueTransport` that a run checks, with
   both refinements of `LinePort` and `FunctionalOnlyThroughOpen`.
4. A composition of `CommandBasedBackend` with `LinePort` in place of its own
   line model, so that the two layers are tied by a refinement.
