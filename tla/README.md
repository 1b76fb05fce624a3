# A specification of libmodbus 3.0.6, its TCP servers, the ATI sensor driver and the Qt programs

TLA+ modules for the Modbus library under `src/libmodbus-3.0.6`, for the TCP
servers that come with it, for the force/torque sensor driver built on it and
for the Qt examples under `src/modbus_qt_eg`, TLC configurations that check them on
small instances, and proofs, checked by TLAPS, of the theorems that matter
most. Line numbers are of `src/libmodbus-3.0.6/src/` where no directory is
given. `PROJECT.json` ties every definition to its lines, every run to its
properties and every hazard of the code to the properties that cover it.

## 1. The system

### Components

| component | state | operations |
|---|---|---|
| protocol arithmetic (`modbus.c:100-320`, `:478-590`, headers) | none | lengths and byte counts of frames, `check_confirmation` |
| reception, `receive_msg` (`modbus.c:329-472`) | bytes so far, step, bytes to read, timer | read header, meta bytes and data; time out; flush; reconnect; check integrity |
| server, `modbus_reply` (`modbus.c:641-1012`) | four tables, the request, the answer | one branch per function code, `modbus_reply_exception`, the application's stores |
| client calls (`modbus.c:1014-1447`) | transaction identifier, request, error recovery mode | build, send, wait, check |
| connection (`modbus-tcp.c`, `modbus-rtu.c`) | `ctx->s` | connect, close, flush, the reconnections of link recovery, listen and accept |
| shared contexts | `static t_id` (`modbus-tcp.c:109`), one descriptor per context | any call, from any thread |
| packing (`modbus-data.c`, `modbus.c:595-619`, `:1038-1053`, `:1203-1262`) | none | bits to bytes and back, floats |
| TCP servers (`tests/bandwidth-server-many-up.c`, `tests/bandwidth-server-one.c`, `modbus-tcp.c:400-585`) | descriptor sets, `fdmax`, `ctx->s` | listen, accept, select, serve, close, SIGINT |
| sensor driver (`sensor/connect_ATI_FT.c`) | calibration, bias, contexts left open; lock, gains and stream of the sensor | read calibration, unlock, write gains, lock, stream, SIGINT |
| Qt slave (`modbus_qt_eg/slave`) | tables of the device, boxes and lines, busy box, window | edit, connect, change of the device, `dataWritten` |
| Qt ADU editor (`modbus_qt_eg/adueditor`) | buttons, device, store of requests with their timers and retries, queued errors | connect, send, time out and resend, answer, disconnect |
| Qt master (`modbus_qt_eg/master`) | window, selection of rows to write, list of answers | connect, change of the device, select, read, write |
| Qt RTU programs (`modbus_new`) | as the Qt master and slave | as the Qt master and slave |

### How they interact

A client function builds a request with the backend's `build_request_basis`,
passes it to `send_msg`, waits in `receive_msg` for one message and compares it
with the request in `check_confirmation`. A server application loops over
`modbus_receive` (`receive_msg` for an indication) and `modbus_reply`, which
reads and writes tables the application shares with it. Both ends use the
same `receive_msg` with different ideas of how long a message is. With
`MODBUS_ERROR_RECOVERY_LINK`, `send_msg` and `receive_msg` close and connect the
context again from inside a call; with `MODBUS_ERROR_RECOVERY_PROTOCOL` an
answer that does not match leads to a sleep and a flush. The sensor driver is a
client over RTU that opens a new context for every step, and whose SIGINT
handler calls the library on top of whatever `main` was doing. The TCP servers
move one context from connection to connection with `modbus_set_socket`. The Qt
programs do not use the library: their protocol is in QtSerialBus, which is not
in this repository, and what is theirs is the state kept around it, by slots
that call each other through signals, timers and queued calls.

### What is hard in it, and what makes it correct

- **Framing.** Messages arrive in pieces of any size, late and next to each
  other. The length of a message is computed in four places written apart: the
  builders, `receive_msg`, `modbus_reply` and
  `compute_response_length_from_request`. *They must agree for every function
  and quantity; a message returned is one whole frame; a corrupt count never
  makes the reader overrun its buffer; a call never waits for ever.*
- **Late answers.** A request that timed out can still take effect, and its
  answer arrive, during a later call. *A call accepts only its own answer; it
  has at most one effect, and exactly one if it succeeded; after a success no
  earlier write is still on its way; recovery brings requests and answers back
  into step.*
- **A server's tables** change between reception and reply. *A refused request
  changes nothing, an accepted one only what it addresses; the answer has the
  values of the moment of the reply; what is acknowledged is stored.*
- **Descriptors.** Recovery closes and reopens a descriptor inside a call, the
  number stays in `ctx->s`, and the kernel gives it to somebody else. *A
  connect that reports success has a connection; no context touches another's
  connection; nothing leaks; a send comes to an end.*
- **Threads** share `t_id`, and a context's descriptor. *Identifiers on one
  connection are unique; no thread takes another's answer.*
- **The select loop** accepts and closes connections while it goes over a set
  of descriptors selected before, and the kernel gives numbers away again. *The
  set handed to `select` is always the open connections; nothing is called that
  waits for an idle client; requests and answers are not exchanged between
  clients; everybody is served.*
- **Bits** are packed into bytes at one end and unpacked at the other, by loops
  written apart. *What arrives is what was sent, and no neighbour changes.*
- **The Qt programs** keep the same thing in several widgets and in a device,
  joined by signals whose order matters. *A window shows what its device holds
  and whether it is connected; one request is pending at most, takes only its
  own answer, and always comes to an end; no row is sent that could not be
  edited.*
- **The sensor** keeps its lock, gains and stream over runs of the driver, and
  each step of the start can fail with or without its effect. *Records are read
  only with a complete calibration that the sensor uses; retries do not use up
  the descriptors; the bias is computed from all the rows it should be (by
  division in whole numbers); the start ends.*

## 2. The modules

| module | what it is | extends |
|---|---|---|
| `ModbusProtocol` | the length arithmetic and `check_confirmation`, as operators | |
| `ModbusExchange` | one call from builder to verdict | `ModbusProtocol` |
| `ModbusReceive` | `receive_msg`, byte by byte | `ModbusProtocol` |
| `ModbusBits` | bits between arrays, bytes and tables, and the floats | |
| `ModbusServer` | the server loop, `modbus_reply` and the tables | `ModbusProtocol`, `ModbusBits` |
| `ModbusTransaction` | client, server and connection over many calls | |
| `ModbusCall` | what a call promises; implemented by `ModbusTransaction` | |
| `ModbusThreads` | threads on shared contexts | |
| `ModbusLink` | `ctx->s` against the descriptors of the process | |
| `ModbusTcpServers` | the servers of many clients and of one | |
| `ATISensor` | the sensor driver and the sensor | |
| `QtWindow` | connect button and actions of the Qt master and slave | |
| `QtSlave` | the Qt slave | `QtWindow` |
| `QtConnection` | a Qt client's device and its TCP connection | |
| `QtAduEditor` | the ADU editor | `QtConnection` |
| `QtMaster` | connection and write selection of the Qt master | `QtConnection`, `QtWindow` |
| `QtModbus` | the slave and, as its client, the editor or the master | `QtSlave`, `QtAduEditor`, `QtMaster` |
| `ModbusFramesProofs` | theorems about the frames and their reader | `ModbusReceive`, `ModbusExchange`, `TLAPS` |
| other `...Proofs` | theorems about the module they are named after | that module, `TLAPS` |
| `MC...` | values of constants for TLC | that module |

**ModbusProtocol.** `MetaLengthAfterFunction`, `DataLengthAfterMeta`,
`ResponseLengthFromRequest` and `CheckConfirmation` are the C functions of
those names; `RequestLength` and `ResponseLength` are what the client functions
and `modbus_reply` build. `RTU` and `TCP` are the two backends: header, checksum,
largest ADU and preset request lengths.

**ModbusExchange.** `Refuse`/`Send` are the client function before and after its
check of the limit, `Indication` and `Confirmation` are `receive_msg` at either
end, `Reply` and `ReplyException` the server, `Check` is `check_confirmation`.
Nothing is lost or late here: what is asked is whether the arithmetic agrees.
Its variables and its specification (`stage`, `frameLength`, `ExchangeSpec`) have
names of their own, so that one proof module can speak of builders and reader.

**ModbusReceive.** A state between two steps is `receive_msg` in `select`; one
`recv` is one step, and its four outcomes are the actions `RecvPart` (bytes still
missing), `RecvStep` (on to meta bytes or data), `RecvTooMany` ("too many data")
and `RecvLast` (`check_integrity`). `Timeout`, `Closed` and `BadDescriptor` are
the error paths of `select` and `recv`, each with what its recovery mode does;
`Flush` is the end of `_sleep_and_flush`. A byte carries its position in the
frame it was written in, which no code reads: properties are stated with it, and
it stands for the CRC. That the CRC tells every damaged message is assumed.
`RequestFrame`, `ResponseFrame` and `ExceptionFrame` are the frames the library
writes, with the place of their byte count; `FramesFramed` says of the undamaged
frames of `Modes` that their length is the one the reader works out.
`mode` is one of `Modes`: backend, end, recovery, the frames of the peer and
what the line may do to them.

**ModbusBits.** A byte is the set of positions of its ones. `Fill`, `Filling` and
`IoStatus` are the loop of `response_io_status`, one cell after the other, with
its byte under construction, `ReadDest` and `WriteBytes` the client's two loops,
`SetBitsFromBytes` the server's; the rest are the conversions of `modbus-data.c`.

**ModbusServer.** One action per branch of `modbus_reply`. A branch with an
error is one action with it (`Refuse` with the exception code, in the order of
the checks in C). The application stores into a table between any two steps.
A request holds the fields `modbus_reply` reads at their offsets and the bytes or
values carried after the byte count, which need not be as many as the quantity
announces. Coils go through `ModbusBits` both ways. A value past the end of the frame is what the buffer held before:
any value.

**ModbusTransaction.** Frames are whole, since `ModbusReceive` shows what has to
hold for that. `Call` builds a request, `Send`, `SendLost` and `SendFails` are
`send_msg`, and `Timeout`, `Closed`, `Accept`, `Mismatch`, `BadCrc` and `Flush`
are `receive_msg` and `check_confirmation`. The server takes one request after
the other, also those of a connection that is closed by then. `Modes` is a set:
one run looks at several combinations of backend, recovery and pace.
**ModbusCall** has three variables and five steps: what the caller may rely on.

**ModbusThreads.** `Load`, `Store` and `Build` split `++t_id` and its use as a
compiler may; the rest is `Send`, `Confirm`, `Timeout` of each thread. `numbered`
and `number` count the identifiers given and say which of them a call got: they
are a history no code reads, in which `UniqueTid` and `OwnAnswer` say how far the
wrap of the identifier may go (`RoundAgain`).

**ModbusLink.** `Established` and `Failed` are the outcomes of the connect
functions of the three backends, as the number they leave in `ctx->s` and what
they return; `table` is the kernel's. `foreign` records what was done through a
number that belongs to another context.

**ModbusTcpServers.** `refset`, `rdset`, `fdmax` and `masterSocket` are the
variables of `bandwidth-server-many-up.c`, `table` the kernel's descriptors. One
`select`, one look at a descriptor, one `accept`, one `recv` and one
`modbus_reply` are a step each, and clients connect, send, read and close between
any two of them. Accepting can fail, listening can fail, and SIGINT can come at
any step. `program` chooses between this loop and the one of
`bandwidth-server-one.c`, with the listen, accept and reply they share. A request
is two parts, so that half of one can arrive.

**QtModbus** composes the window of the slave with one client, over the
connection of `QtConnection`: the classes of QtSerialBus and QTcpSocket are
modelled from what the programs do with them, and marked external. A slot is one
step with all the slots its signals call. In **QtSlave** an edit writes into the
device and `dataWritten` back into the widgets (`UpdateWidgets`), and a line whose
text changes by that is written into the device again (`WriteBack`, the
`setRegister` that `setText` calls). In **QtAduEditor** `store` is `m_transactionStore` with the
retries of every request; a timer is `Timeout(i)`, which resends under the
identifier the spin boxes show by then (`Resend`), an error is a queued call.
Whether a message belongs to the present request (`now`) is a mark no code
reads. In **QtMaster** spin box, combo box and table model follow each other by
three signals (`SetAddress`, `SetSize`); `Editable` is what the table of
`TableRows` rows lets the user edit, `Written` what a write sends, at most
`WriteLimit` rows. The table is made with the number `FirstItem`, the combo box
shows another (`MasterInit`).

**ATISensor.** `pc` is the step of `main`; every function of the driver is an
action, a call of the library in it works, or is disturbed with or without its
effect on the sensor (what `ModbusCall` leaves open for a call that failed).
`Held` is the descriptor `main` may have open itself when SIGINT comes, and
`buffer` says whether the bytes looked at last pass the checks: any, before the
first read.
`Restart` is the next run of the program, which finds the sensor as it is.

Definitions commented "for mutation" are faulty variants of a definition next
to them: with one of them in its place, the run named for it in `PROJECT.json`
finds the property violated.

## 3. What TLC checks

Run `tlc -config X.cfg M` in this directory.

| run | module, cfg | distinct states | result |
|---|---|---|---|
| `exchange` | `MCModbusExchange` | 292 896 | holds |
| `receive` | `MCModbusReceive`, `MCReceive.cfg` | 283 554 | holds |
| `server` | `MCModbusServer`, `MCServer.cfg` | 444 672 | holds |
| `transaction` | `MCModbusTransaction`, `MCTransaction.cfg` | 247 376 | holds |
| `tcp_servers` | `MCModbusTcpServers`, `MCTcpServers.cfg` | 127 313 | holds |
| `threads_locked` | `MCModbusThreads`, `MCThreadsLocked.cfg` | 109 891 | holds |
| `threads_shared` | `MCModbusThreads`, `MCThreadsShared.cfg` | | violated |
| `link` | `MCModbusLink`, `MCLink.cfg` | 41 838 | holds |
| `link_close` | `MCModbusLink`, `MCLinkClose.cfg` | | violated |
| `link_pi` | `MCModbusLink`, `MCLinkPi.cfg` | | violated |
| `sensor` | `ATISensor`, `MCATISensor.cfg` | 942 | holds |
| `qt` | `MCQtModbus`, `MCQt.cfg` | 319 680 | holds |

**exchange.** Every quantity from 0 to one past the limit, of every function,
on both backends: the arithmetic is checked over its whole range. Only the
second quantity of write-and-read is sampled, at its limits and inside, and the
exception codes: the first three, the last defined one and the first that is
not. Frames agree (`RequestFramed`, `ResponseFramed`), fit the ADU
(`FramesFitAdu`), a legal call gets the number it asked for (`AnswerAccepted`),
and an exception is reported as that exception (`ExceptionReported`). The last
has two exceptions that the property names: an answer to `report_slave_id`,
and one to a read of 0 values, are `EMBBADDATA`.

**receive.** Three modes. A server on a serial line that damages frames: two
frames from six, four of them damaged (count too small, count 255, wrong
function, truncated), in every cut, without recovery as
`modbus_set_error_recovery.txt` advises for servers; two frames are enough for
the end of one to be mistaken for the beginning of the other. A TCP client with
both recovery modes: three frames of each shape of answer, resets, reconnections
that work or do not, and a peer that completes within the sleep what it has
begun (`prompt`). A client on a serial line with the same recovery and damaged
answers. The buffer is never overrun (`BufferBound`), an undamaged message takes
no byte of the next (`NoReadPastFrame`), what is returned is a whole frame
(`ReturnsWholeFrame`), a client that recovers starts every message at a frame,
also after a timeout in mid frame (`StartsOnBoundary`), and a message begun is
ended (`CallReturns`). Without `prompt`, `StartsOnBoundary` does not hold over
TCP, which has no checksum. `fill` is a value that looks like a function code or
a count when the reader is out of step.

**server.** Tables of three and one cells, limits of two registers and three
bits, and every function with addresses and quantities on both sides of every
limit, so that each comparison is met below, at and above. A byte has two bits
(`BitsPerByte`), so that three coils need a full byte and one begun, and a
quantity can end on either. Requests to another slave and broadcasts, byte
counts smaller than the quantity, function codes without implementation.
`RefusedChangesNothing`, `WritesAddressedOnly`, `AnswersCurrentValues` (also for
write-and-read, which answers what it has just written) and
`AcknowledgedIsStored` are action properties of the replies; the last two look
at bits through `ModbusBits`, from the array of one end to that of the other.

**transaction.** TCP with each of the four combinations of the recovery modes,
where answers are late, connections reset and reconnections fail; a serial line
with link recovery, which loses and damages messages and is late only within
the sleep. `OwnAnswer`, `QuietAfterOk`, and the implementation of `ModbusCall`
hold in all of them. `Resync` says that once the network is healthy calls stop
failing, with both recovery modes set. Two operations, of which the client can
tell one from the other, and four identifiers: a wrap happens, and `Window`
keeps a message from being as old as the range of identifiers (65536 calls in
the code). Over a serial line with arbitrarily late answers, `OwnAnswer` does
not hold by nature of the protocol, since nothing in an RTU answer names its
request: hence the pace "sleep" there.

**tcp_servers.** Two clients and three descriptors, just enough for the listening
socket and both connections: numbers are used again, and `accept` runs out of
them when a client comes back before its old connection is closed; two requests outstanding for each client, in one piece
or two, and room for one answer before `send` blocks; a queue of two connections.
`WatchesAll`: whatever opens and closes during the loop, `refset` is the listener
and the open connections, within `fdmax`. `NeverWaitsForIdle`: `accept` and the
untimed first `select` of `modbus_receive` are called only where something waits.
`EachToItsOwn`: what a client waits for is, in order, what is answered, served and
sent. `Served`: every request is answered, or its connection closed.

**threads_locked.** Three threads on two contexts, two calls each: what holds when
the application itself serialises all calls of the process. There are three
identifiers for six calls, so that they go round, and a late answer meets a call
that has its identifier again. `UniqueTid` and `OwnAnswer` say that this takes all
the identifiers in between (65536 calls in the code) and that nothing else does
it, timeouts or other threads.

**link.** Two contexts of all pairs of backends (network or serial), with every
subset under link recovery, three descriptors and two broken connections: one
descriptor more than contexts, so that the kernel has a choice and a leak can be
told from a shortage; two breaks, so that each context can lose its own.
`PlainConnectReports`, `OwnDescriptor`, `NoLeak` and `SendEnds` each state under
which backends and modes they hold; the runs below show what is left out.

**sensor.** Three disturbed calls, two descriptors and two bias rows: more
faults than descriptors, so that leaks can exhaust them, and two records more
than rows (`MaxSuccess`; records that pass after that are not counted any more,
they do nothing the bias depends on). State space is small because calls are
whole and one process runs.

**qt.** Two tables, one of boxes and one of lines, of two rows; a request that
writes both rows at once, so that the slave hears of two changes; two
identifiers and two messages under way, so that an answer can come late and find
its identifier in use; one retry, so that a timeout happens before and after it;
one queued error; a master with a table of six rows that is given the number five
at first and a write limited to three, in the order of 50, 30 and 10 in the
program, so that address and size can exceed the limit together and rows can be
edited that no write sends. `WidgetsShowTables` and `ConnectedIsShown` are about
the windows, `OneRequest`, `OwnAnswer`, `SendWithoutDeviceOnlyAfterAbort` and
`SendComesBack` about the editor, `WrittenIsEditable` and `EditableStaysWritten`
about the master: no row is sent that could not be edited, and from the first
change of the size on the rows that can be edited are those that are sent; before
it there are more of them. `OwnAnswer` says that an
answer to an earlier request is taken for the present one only if the user sent
this under an identifier still under way; `SendComesBack` that Send, or Connect,
is enabled again after every request whose identifier is left alone.

### Where the code disagrees with its documentation

- `threads_shared`: a context is not "thread safe" (`libmodbus.txt:119-121`):
  of two threads on one context either takes the answer of the other, even when
  all answers are in time (`modbus.c:367`).
- `link_close`: `modbus_close` leaves the number in `ctx->s`
  (`modbus-tcp.c:346`); when link recovery then fails to reconnect, and the
  number goes to another context, `modbus_close` closes the other's connection.
- `link_pi`: `modbus_connect` of a TCP PI context decides by `ctx->s < 0`
  (`modbus-tcp.c:333`) and returns 0 after a second connect that failed.

With the constants of `threads_shared` TLC finds `UniqueTid` violated, too: the
identifier must be "unique" at a time on a connection, says the comment at
`modbus-tcp.c:107-108`, but of two threads both load `t_id` before either stores
it (`:111-115`), and send the same one. It is the lock of `threads_locked` that
keeps the property.

Seen while modelling, without a sentence of the repository to hold against it:
threads on contexts of their own race for `t_id` as well (a thread that stores
an old value sets the identifiers of the others back, so that a late answer can
fit again; hence one lock for the process in `threads_locked`, not one for each
context); link recovery after `EIO` sends on a dead descriptor for ever
(`modbus.c:188-192`, `SendSpins`); `read_exception_status` gets no answer
(`modbus.c:916`); a failed write leaves the sensor unlocked, and a failed open
leaves it streaming, where the next run of the driver cannot start;
an oversized message is refused (`modbus.c:431`) without the sleep and flush that
`doc/modbus_set_error_recovery.txt:35-38` describes for an invalid length, so
that its rest is read as the next message (harmless over RTU by its CRC);
`modbus_get_byte_from_bits` asserts `nb_bits < 8` where `nb_bits > 8` has just
been tested (`modbus-data.c:63-65`). In the Qt programs: the master starts with
rows 0 to 29 of its table to be edited and writes rows 0 to 9 only, since the
table is given the combo box's number (`master/mainwindow.cpp:71`,
`mainwindow.ui:332`) before the box shows 10 (`:90`) and before the table listens
to it (`:91`); the master lets an
address of 1000 be chosen (`master/mainwindow.ui:166`) and asserts that it is
smaller (`master/mainwindow.cpp:348`); its list of answers numbers every line by
the start address (`:246`) and appends overlapping reads to one list (`:237`); the
slave, when the type of connection is changed while it is connected, goes on
showing "Disconnect" (`slave/mainwindow.cpp:96`); the editor, when a disconnect
finishes a pending request, leaves Send enabled without a device
(`adueditor/mainwindow.cpp:126`, `:228`), and the timer of a request follows
the identifier the spin boxes show when it fires
(`adueditor/modbustcpclient_p.h:90`).

### Fairness

- `ModbusReceive`: weak fairness of the receiving steps, of `Timeout`, `Flush`,
  `Closed` and `BadDescriptor`: `select`, `recv` and the sleep return. Weak
  fairness of `Arrive`: a frame on its way goes on arriving. Nothing is assumed
  of the peer beginning a frame.
- `ModbusTransaction`: weak fairness of the client's steps as one (the library
  goes on inside a call) and of the server's. None of `Settle`: `Resync` is
  conditional on it.
- `ModbusLink`: weak fairness of the sending steps; strong fairness of
  `SendRecovers`, since the loop of `send_msg` tries to connect again and again
  and each attempt can fail: a server that is up again at some time is reached.
- `ModbusTcpServers`: weak fairness of the server's steps as one, since it is
  one thread; strong fairness of a successful `accept`, since the loop tries
  again as long as a connection waits; weak fairness of each client reading its
  answers, without which `send` blocks the one thread for all.
- `QtModbus`: weak fairness of the queued error and of each timer: the event
  loop runs. None of the user, the slave or the network.
- `ATISensor`: weak fairness of the steps of `main` that are not disturbed.
  `main` does not wait for anything but the line.

## 4. What is proved

`tlapm X.tla` checks every theorem of module X, for every value of the
constants that its named assumptions admit.

| theorem | states | argument |
|---|---|---|
| `ModbusFramesProofs!RequestsFramed`, `ResponsesFramed`, `FramesFit`, `AnswersAccepted`, `ExceptionsReported` | of `ModbusExchange`: `[]RequestFramed`, `[]ResponseFramed`, `[]FramesFitAdu`, `[]AnswerAccepted`, `[]ExceptionReported` | `CallInv` ties `frameLength`, `read`, `rsp` and `outcome` to the request at each `stage`; lemmas on the length operators show that reader and builder compute the same, with the rounding of bit counts to bytes, that limits keep the PDU within 253 bytes, and what `check_confirmation` says of an answer |
| `ModbusFramesProofs!TypeCorrect`, `NoOverflow` | of `ModbusReceive`: `[]TypeOK`, `[]BufferBound` | `ReceiveInv`: in each step, `Len(msg) + toRead` is at most what that step can have announced; `BufferBound` alone is not inductive, since the step after next is bounded only by what was read in this one |
| `ModbusFramesProofs!FrameRespected`, `StaysInStep`, `WholeFrames` | `[]NoReadPastFrame`, `[]StartsOnBoundary`, and `[]ReturnsWholeFrame` where there is a checksum or the reader recovers, if the frames are framed (`FramesFramed`) | `StreamInv`: message, buffer of the kernel and what the peer has still to write are one stream (`Stream`), in which every undamaged frame goes on byte by byte to its end (`Flow`); what a step has still to read is what that frame still has (`Sized`); with both recovery modes message and stream start with a frame (`Aligned`), but during the sleep |
| `ModbusFramesProofs!LibraryFramed` | the hypothesis of the line above, for frames the library builds for calls it does not refuse | the lemmas of the first line, and the place of the byte count |
| `ModbusServerProofs!TypeCorrect`, `RefusalHarmless`, `WritesStayAddressed`, `AcknowledgedTakesEffect`, `ValuesCurrent` | `[]TypeOK`; the action properties `RefusedChangesNothing`, `WritesAddressedOnly`, `AcknowledgedIsStored`, `AnswersCurrentValues` | one lemma per function code, from the order of checks and stores in its branch; for the answers with bits, that the loop of `response_io_status` has after n cells made all full bytes and begun the next (`FillNext`, `FillingIs`) |
| `ModbusServerProofs!BitsRoundTrip`, `ByteRoundTrip`, `FloatRoundTrip` | facts about `ModbusBits`; the first is the whole way of bits, from the array of the client through a written frame, the table of the server and a read frame back into an array | positions: `pos` is bit `pos % BitsPerByte` of byte `pos \div BitsPerByte`, at both ends; halves of 32 bits |
| `ModbusTransactionProofs!TypeCorrect`, `AnswersOwn` | `[]TypeOK`; `[]OwnAnswer` where answers can be told apart (`TellsApart`) | over TCP `IInv`: every message on its way has the identifier `tid - age` modulo `TidMod` and an age below `TidMod`, so that an equal identifier means age 0; on a serial line `InStep`: after the sleep of link recovery nothing is left of an earlier call |
| `ModbusTransactionProofs!QuietAfterAnswer`, `CallImplemented` | likewise `[]QuietAfterOk` and the refinement of `ModbusCall` | `OwnInv`: the latest call has one request or one answer on its way at most, the last in its queue, since the server works in order; its answer is there only when no request is, and tells whether the effect took place. `QuietAfterOk` is not inductive by itself: it holds after `Accept` only because of what the answer excludes. `OneCallInv` joins these, and the refinement adds one lemma per kind of step |
| `ModbusThreadsProofs!TypeCorrect`, `IdentifiersUnique`, `LockedOwnAnswer` | `[]TypeOK` with any lock; with one lock for the process `[]UniqueTid`, `[]OwnAnswer`, for any number of calls and identifiers | `LockInv`: one thread is in a call, `t_id` is the number of identifiers given so far modulo `TidMod`, so is the identifier of every message with the number of its call, no two messages are of one call, and between `Build` and `Send` none is of the caller's; equal identifiers then are a multiple of `TidMod` calls apart |
| `ModbusLinkProofs!TypeCorrect`, `ConnectTruthful`, `ConnectionsApart`, `NothingLeaks` | `[]TypeOK`, `[]PlainConnectReports`, `[]OwnDescriptor`, `[]NoLeak` | `Reported`: a 0 returned comes with an entry of the context in the table; `Apart`: a connected context holds -1 or the number of an open connection of its own, and every open descriptor is the one a connected context holds; a stale number is left only in contexts that are not connected, which use it for nothing; `Held` says of every backend and mode that an open descriptor is held by the context that opened it |
| `ModbusTcpServersProofs!TypeCorrect`, `WatchesAllDescriptors`, `IdleNeverBlocks`, `AnswersToTheirOwn` | `[]TypeOK`, `[]WatchesAll`, `[]NeverWaitsForIdle`, `[]EachToItsOwn` | `IInv`: `Pending` (what `select` found of the descriptors still to be visited is still so, because only the server reads and a closed peer stays readable), `OneEach` (a client has one connection, in the queue or on one descriptor), `Listening`, and what holds before the loop (`Fresh`) and in a call (`OnConnection`); for the answers `ServeInv`: what an open client waits for is, in order, the answers it has not read, the request being served and what it sent, two parts each (`Matches`) |
| `ATISensorProofs!TypeCorrect`, `CalibratedStreams`, `LeaksBounded`, `BiasComplete` | `[]TypeOK`, `[]StreamsCalibrated`, `[]LeaksPaidFor`, `[]BiasReady` | `IInv`: what has been read and written at each step of `main` (`StartSteps`), that a refused write was paid for by a disturbed unlock (`RefusalPaidFor`), and that rows are filled in order (`RowsInOrder`) |
| `QtModbusProofs!TypeCorrect`, `WidgetsTell`, `ConnectionShown`, `OneRequestPending`, `WrittenRowsEditable`, `EditableRowsWritten`, `SendOnlyAfterAbort`, `AnswersOwn` | `[]TypeOK`, `[]WidgetsShowTables`, `[]ConnectedIsShown`, `[]OneRequest`, `[]WrittenIsEditable`, and the action properties `EditableStaysWritten`, `SendWithoutDeviceOnlyAfterAbort` and `OwnAnswer` | `IInv`: the windows of slave and master tell the state; `WithDevice` (no connection and no request without a device), `OneRequest` and `NoneSince` (an earlier attempt under way with the identifier of a pending request was so when that was enqueued) for the editor; `Selection` (the table model follows the boxes, or nothing has been changed since the start); `Quiet` (nothing is under way but over a connection) |

Assumptions: a preset request is the header and five bytes, the ADU has room
for a PDU of 253 bytes between header and checksum and is not longer than the
buffers, and the identification of a slave fits in a PDU (`BackendsAssumption`
and `CodesAssumption` of `ModbusExchange`; both backends do); frames consist of
bytes and the ADU is ten bytes longer than the header (`FramesAssumption`,
`BackendAssumption` of `ModbusReceive`); sizes, bounds and counters are natural
numbers, with at least one identifier; more records are counted than the bias has
rows (`NumbersAssumption`); the limit of a write is at most the rows of the
master's table and the number it starts with (`MasterAssumption`);
requests have the fields of their function, and the byte count of write-and-read
is the number of bytes that follow, as `receive_msg` reads them
(`RequestsAssumption` of `ModbusServer`); the user of the Qt client writes only
tables a client can write (`PdusAssumption`). TLC evaluates each of them in a run.
Where a module with a proof module states its types (`TypeOK`) they are proved,
and no run repeats them.

Three hypotheses are stated in the theorems:

- `FramesFramed`: an undamaged frame is as long as its function code and byte
  count say. `LibraryFramed` proves it of every frame the library builds, and TLC
  evaluates it on the modes of the run `receive`. Without it a peer that
  announces one length and sends another would be the error. Damaged frames are
  any.
- `TellsApart`: TCP, or a serial line with link recovery on which answers come
  within the sleep; an answer over RTU names no request, and without either the
  late answer of one call is accepted by the next.
- `Lock = "process"`: the application serialises its calls, what
  `libmodbus.txt:119-121` leaves to it. Nothing is assumed of the number of calls
  or identifiers: what the wrap does is in the properties.

What `response_io_status` fills is defined by recursion over the cells. It is a
recursive function and not a `RECURSIVE` operator, and `FillingIs` shows it equal
to a closed form without an induction theorem: of the cells at which the two
differ there is a least one (`Least`), the two agree at the cell before, and one
step of the loop keeps them equal (`FillNext`).

Model-checked only: liveness (`CallReturns`, `Resync`, `SendEnds`, `StartEnds`,
`Served`, `SendComesBack`), which the prover does not reach. Every other property
of a run that holds is a theorem. What neither a run nor a theorem says:
`ReturnsWholeFrame` over TCP without both recovery modes, where a timeout in mid
frame puts the reader out of step for good, and `OwnAnswer` on a serial line
without link recovery.

## 5. What is not modelled

- Table entries other than 0 and 1: the tables of `ModbusServer` hold what the
  API stores (an entry of 2 would spread into the neighbouring bits of an answer,
  `modbus.c:595`).
- RTU port settings (`modbus-rtu.c:310-805` but for their success or failure)
  and RS-485 mode: they are handed to the kernel. The Windows variants, and an
  interrupted `select` (`EINTR`).
- Setters, constructors, allocation, `modbus_strerror`, logging: no state that
  any of the properties depends on beyond the constants of the modules.
- Processes with network and serial contexts at a time (`ENOTSOCK`).
- `FD_SET` of descriptor -1 (`modbus.c:348`, and the servers after a failed
  listen), undefined in C: the servers hang or die there.
- Unit tests and bandwidth clients: sequences of calls with fixed inputs.
- `connect_ATI_FT1.c`, a predecessor of the sensor driver that nothing builds,
  and `sensor/unit-test-client.c`, a copy of the unit test.
- The bytes of a sensor record: whether they pass status bit and checksum is a
  choice. A record read out of step is such a choice as well.
- Of the Qt programs: the list of answers and the edited values of the master,
  what a serial slave answers, listen-only mode, serial parameters and the
  settings dialogs; `modbus_new`, whose programs are smaller copies of the master
  and the slave for a serial port.

## 6. Plan

1. Contexts of mixed kinds in `ModbusLink`, and what `ENOTSOCK` does to them.
2. Which contexts may be of TCP PI, or recover their link, before
   `ClosesOwn` and `ConnectReports` fail: a theorem for the largest such set.
3. The lost updates of `t_id` without a lock: what still holds of one thread per
   context.
4. The Qt master's reads: several requests under way, whose answers are
   appended to one list.
