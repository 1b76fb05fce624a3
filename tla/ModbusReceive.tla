---------------------------- MODULE ModbusReceive ----------------------------
(***************************************************************************)
(* receive_msg: how one end of a connection cuts a stream of bytes into    *)
(* Modbus messages.  The peer writes frames that arrive in pieces of any   *)
(* size, late, or not at all; the connection may be reset between any two  *)
(* bytes.  The function reads header and function code, then the meta      *)
(* bytes the function calls for, then the data the byte count announces,   *)
(* and gives up on a timeout, a reset, an oversized message or a bad CRC.  *)
(*                                                                         *)
(* A byte is a record: b is its value, i its position in the frame the     *)
(* peer wrote, n the length of that frame and ok whether the frame left    *)
(* the peer, and crossed the line, undamaged.  The code reads b only; i, n *)
(* and ok exist to state properties and to stand for the CRC.              *)
(***************************************************************************)
EXTENDS ModbusProtocol, Sequences

CONSTANT
  Modes    \* the ends of a connection to look at, records of
           \*   backend     RTU or TCP
           \*   type        "INDICATION" (server) or "CONFIRMATION" (client)
           \*   link        MODBUS_ERROR_RECOVERY_LINK is set
           \*   protocol    MODBUS_ERROR_RECOVERY_PROTOCOL is set
           \*   byteTimeout byte_timeout is used (tv_sec # -1)
           \*   frames      frames the peer may write: [fn, count, at, n, ok]
           \*   fill        value of the bytes the code does not interpret
           \*   maxFrames   bound: frames the peer writes
           \*   canReset    the connection can be reset (TCP)
           \*   prompt      a frame begun by the peer is complete before a
           \*               sleep of response_timeout ends

Byte == [b : 0..255, i : Nat, n : Nat, ok : BOOLEAN]

(* The bytes of a frame: function code, the byte count at the position     *)
(* where its builder put it, filler.                                       *)
BytesOf(m, f) ==
  [p \in 1..f.n |->
     [b  |-> CASE p = m.backend.header + 1 -> f.fn
               [] p = f.at                 -> f.count
               [] OTHER                    -> m.fill,
      i  |-> p,
      n  |-> f.n,
      ok |-> f.ok]]

(* The frames the library writes.  modbus_write_bits,                      *)
(* modbus_write_registers and modbus_write_and_read_registers put the byte *)
(* count behind the addresses and quantities, modbus_reply behind the      *)
(* function code; 0 where there is no count.  nb is the quantity written   *)
(* or read, idLength the length of the answer to report_slave_id.          *)
RequestCountAt(backend, fn) ==
  CASE fn \in MultipleFunctions          -> backend.preset + 1
    [] fn = FC_WRITE_AND_READ_REGISTERS  -> backend.preset + 5
    [] OTHER                             -> 0

ResponseCountAt(backend, fn) ==
  IF fn \in SingleFunctions \union MultipleFunctions THEN 0 ELSE backend.header + 2

RequestFrame(backend, fn, nb) ==
  [fn |-> fn, count |-> RequestByteCount(fn, nb), at |-> RequestCountAt(backend, fn),
   n |-> RequestLength(backend, fn, nb), ok |-> TRUE]

ResponseFrame(backend, fn, nb, idLength) ==
  [fn |-> fn, count |-> ResponseByteCount(fn, nb, idLength),
   at |-> ResponseCountAt(backend, fn),
   n |-> ResponseLength(backend, fn, nb, idLength), ok |-> TRUE]

ExceptionFrame(backend, fn) ==
  [fn |-> fn + 128, count |-> 0, at |-> 0, n |-> ExceptionLength(backend), ok |-> TRUE]

ASSUME BackendAssumption ==
  \A m \in Modes :
    /\ m.backend.header \in Nat /\ m.backend.checksum \in Nat /\ m.backend.maxAdu \in Nat
    /\ m.backend.header + 10 <= m.backend.maxAdu

ASSUME ModesAssumption ==
  \A m \in Modes :
    /\ m.type \in MsgTypes
    /\ {m.link, m.protocol, m.byteTimeout, m.canReset, m.prompt} \subseteq BOOLEAN
    /\ m.maxFrames \in Nat

ASSUME FramesAssumption ==
  \A m \in Modes : \A f \in m.frames : BytesOf(m, f) \in Seq(Byte)

(* A frame of which receive_msg reads every byte and no other.             *)
Framed(m, f) ==
  /\ f.fn \in 0..255 /\ f.count \in 0..255
  /\ f.n = ReceivedLength(m.backend, f.fn, f.count, m.type)
  /\ HasByteCount(f.fn, m.type) =>
       f.at = m.backend.header + 1 + ByteCountOffset(f.fn, m.type)
  /\ f.at # m.backend.header + 1
  /\ f.n <= m.backend.maxAdu

(* What the theorems about frames suppose of Modes: the builders give it,  *)
(* and damaged frames are any.                                             *)
FramesFramed == \A m \in Modes : \A f \in m.frames : f.ok => Framed(m, f)

VARIABLES
  mode,       \* one of Modes
  out,        \* bytes the peer has still to write of the frame it has begun
  wire,       \* bytes that have arrived and that nobody has read
  conn,       \* "up", "reset" (closed by the peer) or "closed" (no descriptor)
  written,    \* number of frames the peer has begun
  pc,         \* "idle", "loop" (in the while loop) or "sleep" (_sleep_and_flush)
  msg,        \* the bytes received so far; msg_length is Len(msg)
  step,       \* _STEP_FUNCTION, _STEP_META or _STEP_DATA
  toRead,     \* length_to_read
  timer,      \* whether p_tv points to a timeout
  result      \* "none" before the first return, then "ok" or the error

env  == <<out, conn, written>>
vars == <<out, wire, conn, written, pc, msg, step, toRead, timer, result, mode>>

Backend == mode.backend
MsgType == mode.type

Errors == {"ETIMEDOUT", "ECONNRESET", "EBADF", "EMBBADDATA", "EMBBADCRC"}

TypeOK ==
  /\ mode \in Modes
  /\ out \in Seq(Byte) /\ wire \in Seq(Byte) /\ msg \in Seq(Byte)
  /\ conn \in {"up", "reset", "closed"}
  /\ written \in 0..mode.maxFrames
  /\ pc \in {"idle", "loop", "sleep"}
  /\ step \in {"FUNCTION", "META", "DATA"}
  /\ toRead \in Nat
  /\ timer \in BOOLEAN
  /\ result \in {"none", "ok"} \union Errors

Init ==
  /\ mode \in Modes
  /\ out = <<>> /\ wire = <<>> /\ conn = "up" /\ written = 0
  /\ pc = "idle" /\ msg = <<>> /\ step = "FUNCTION" /\ toRead = 0
  /\ timer = FALSE /\ result = "none"

-----------------------------------------------------------------------------
(* The peer and the line.                                                  *)

PeerBegins(f) ==
  /\ conn = "up" /\ out = <<>> /\ written < mode.maxFrames
  /\ out' = BytesOf(mode, f)
  /\ written' = written + 1
  /\ UNCHANGED <<wire, conn, pc, msg, step, toRead, timer, result, mode>>

(* The next k bytes arrive.                                                *)
Arrive(k) ==
  /\ wire' = wire \o SubSeq(out, 1, k)
  /\ out' = SubSeq(out, k + 1, Len(out))
  /\ UNCHANGED <<conn, written, pc, msg, step, toRead, timer, result, mode>>

(* The peer closes the connection, or dies: what it had not written is     *)
(* lost, what has arrived can still be read.                               *)
PeerResets ==
  /\ mode.canReset /\ conn = "up"
  /\ conn' = "reset"
  /\ out' = <<>>
  /\ UNCHANGED <<wire, written, pc, msg, step, toRead, timer, result, mode>>

-----------------------------------------------------------------------------
(* receive_msg.                                                            *)

Return(rc) == pc' = "idle" /\ result' = rc

(* A server waits for ever for the first byte, a client response_timeout.  *)
FirstTimer == MsgType = "CONFIRMATION"

(* The application calls modbus_receive or a function that waits for a     *)
(* confirmation.                                                           *)
Call ==
  /\ pc = "idle"
  /\ pc' = "loop"
  /\ msg' = <<>>
  /\ step' = "FUNCTION"
  /\ toRead' = Backend.header + 1
  /\ timer' = FirstTimer
  /\ UNCHANGED <<out, wire, conn, written, result, mode>>

(* modbus_close and one modbus_connect, whose result is ignored.           *)
Reconnect ==
  /\ conn' \in {"up", "closed"}
  /\ out' = <<>> /\ wire' = <<>>
  /\ UNCHANGED written

(* select times out.  With link recovery the error is returned after       *)
(* _sleep_and_flush.                                                       *)
Timeout ==
  /\ pc = "loop" /\ conn # "closed"
  /\ timer /\ wire = <<>> /\ conn # "reset"
  /\ IF mode.link
     THEN pc' = "sleep" /\ result' = "ETIMEDOUT"
     ELSE Return("ETIMEDOUT")
  /\ UNCHANGED <<out, wire, conn, written, msg, step, toRead, timer, mode>>

FlushNothing ==   \* for mutation: the sleep without the flush
  /\ pc = "sleep"
  /\ mode.prompt => out = <<>>
  /\ pc' = "idle"
  /\ UNCHANGED <<out, wire, conn, written, msg, step, toRead, timer, result, mode>>

(* The end of _sleep_and_flush: every byte that has arrived is dropped.    *)
Flush ==
  /\ pc = "sleep"
  /\ mode.prompt => out = <<>>
  /\ wire' = <<>>
  /\ pc' = "idle"
  /\ UNCHANGED <<out, conn, written, msg, step, toRead, timer, result, mode>>

(* select on a descriptor that is closed.                                  *)
BadDescriptor ==
  /\ pc = "loop" /\ conn = "closed"
  /\ Return("EBADF")
  /\ IF mode.link THEN Reconnect ELSE UNCHANGED <<out, wire, conn, written>>
  /\ UNCHANGED <<msg, step, toRead, timer, mode>>

(* recv returns 0: the peer closed the connection.                         *)
Closed ==
  /\ pc = "loop" /\ conn = "reset" /\ wire = <<>>
  /\ Return("ECONNRESET")
  /\ IF mode.link THEN Reconnect ELSE UNCHANGED <<out, wire, conn, written>>
  /\ UNCHANGED <<msg, step, toRead, timer, mode>>

(* recv takes the bytes that are there, at most length_to_read.            *)
Taken    == IF toRead < Len(wire) THEN toRead ELSE Len(wire)
Received == msg \o SubSeq(wire, 1, Taken)
Unread   == SubSeq(wire, Taken + 1, Len(wire))

Function(m)  == m[Backend.header + 1].b

ByteCountEarly(m) ==   \* for mutation: the byte before the byte count
  m[Backend.header + ByteCountOffset(Function(m), MsgType)].b

ByteCount(m) == m[Backend.header + 1 + ByteCountOffset(Function(m), MsgType)].b

(* The bytes to read, and the step, after the message m is complete for    *)
(* the current step.                                                       *)
AfterMeta(m) ==
  [step |-> "DATA",
   toRead |-> DataLengthAfterMeta(Backend, Function(m), ByteCount(m), MsgType)]

AfterFunction(m) ==
  LET meta == MetaLengthAfterFunction(Function(m), MsgType)
  IN  IF meta # 0 THEN [step |-> "META", toRead |-> meta] ELSE AfterMeta(m)

AfterStep(m) ==
  CASE step = "FUNCTION" -> AfterFunction(m)
    [] step = "META"     -> AfterMeta(m)
    [] step = "DATA"     -> [step |-> "DATA", toRead |-> 0]

TooManyAlready(m) == Len(m) > Backend.maxAdu   \* for mutation: the data not counted

(* The announced data would overflow the ADU.                              *)
TooManyData(m) ==
  AfterStep(m).step = "DATA" /\ Len(m) + AfterStep(m).toRead > Backend.maxAdu

TimerKept == timer   \* for mutation: the first timeout kept between bytes

(* Between two bytes of a message the byte timeout applies, if it is used. *)
TimerAfterBytes == timer \/ mode.byteTimeout

Readable == pc = "loop" /\ conn # "closed" /\ wire # <<>>

(* Some of the bytes are still missing.                                    *)
RecvPart ==
  /\ Readable /\ Taken < toRead
  /\ msg' = Received /\ wire' = Unread
  /\ toRead' = toRead - Taken
  /\ timer' = TimerAfterBytes
  /\ UNCHANGED <<out, conn, written, pc, step, result, mode>>

(* The step is complete and the next one has bytes to read.                *)
RecvStep ==
  /\ Readable /\ Taken = toRead
  /\ AfterStep(Received).toRead # 0
  /\ ~TooManyData(Received)
  /\ msg' = Received /\ wire' = Unread
  /\ step' = AfterStep(Received).step
  /\ toRead' = AfterStep(Received).toRead
  /\ timer' = TimerAfterBytes
  /\ UNCHANGED <<out, conn, written, pc, result, mode>>

(* EMBBADDATA, "too many data".                                            *)
RecvTooMany ==
  /\ Readable /\ Taken = toRead
  /\ TooManyData(Received)
  /\ msg' = Received /\ wire' = Unread
  /\ toRead' = AfterStep(Received).toRead
  /\ Return("EMBBADDATA")
  /\ UNCHANGED <<out, conn, written, step, timer, mode>>

(* One undamaged frame, whole: what the CRC of RTU accepts.                *)
Whole(m) ==
  /\ m # <<>>
  /\ m[1].i = 1 /\ m[1].ok
  /\ m[Len(m)].i = Len(m) /\ m[Len(m)].n = Len(m)

IntegrityAssumed(m) == m # <<>>   \* for mutation: no CRC

(* check_integrity: the TCP backend has nothing to check.                  *)
Integrity(m) == Backend.checksum = 0 \/ Whole(m)

(* The last byte is there; check_integrity looks at the message.  RTU      *)
(* drops what has arrived after a bad CRC, without the sleep.              *)
RecvLast ==
  /\ Readable /\ Taken = toRead
  /\ AfterStep(Received).toRead = 0
  /\ ~TooManyData(Received)
  /\ msg' = Received
  /\ step' = AfterStep(Received).step
  /\ toRead' = 0
  /\ IF Integrity(Received)
     THEN Return("ok") /\ wire' = Unread
     ELSE /\ Return("EMBBADCRC")
          /\ wire' = IF mode.protocol THEN <<>> ELSE Unread
  /\ UNCHANGED <<out, conn, written, timer, mode>>

Receive == RecvPart \/ RecvStep \/ RecvTooMany \/ RecvLast

Next ==
  \/ \E f \in mode.frames : PeerBegins(f)
  \/ \E k \in 1..Len(out) : Arrive(k)
  \/ PeerResets
  \/ Call \/ Timeout \/ Flush \/ BadDescriptor \/ Closed \/ Receive

Spec == Init /\ [][Next]_vars

(* select and recv return when they can, the timer of select and the sleep *)
(* end, and a line that has begun to deliver a frame goes on.              *)
Fairness ==
  /\ WF_vars(Receive) /\ WF_vars(Timeout) /\ WF_vars(Flush)
  /\ WF_vars(BadDescriptor) /\ WF_vars(Closed)
  /\ WF_vars(\E k \in 1..Len(out) : Arrive(k))

FairSpec == Spec /\ Fairness

-----------------------------------------------------------------------------
(* The bytes asked of recv always fit the ADU, whatever the peer sends:    *)
(* msg + msg_length and length_to_read stay inside the caller's buffer.    *)
BufferBound == pc = "loop" => Len(msg) + toRead <= Backend.maxAdu

(* A message that began with the first byte of an undamaged frame never    *)
(* takes a byte of the next frame, however the bytes of both arrived.      *)
NoReadPastFrame ==
  (msg # <<>> /\ msg[1].i = 1 /\ msg[1].ok) =>
    \A p \in 1..(Len(msg) - 1) : msg[p].i < msg[p].n

(* What receive_msg returns as a message is one whole frame.               *)
ReturnsWholeFrame == (pc = "idle" /\ result = "ok") => Whole(msg)

(* With both recovery modes on, a line without damage, and a peer that     *)
(* finishes a frame it has begun within the sleep, every message starts    *)
(* with the first byte of a frame, timeouts in mid frame and resets        *)
(* included.                                                               *)
Recovers == mode.link /\ mode.protocol /\ mode.prompt /\ \A f \in mode.frames : f.ok

StartsOnBoundary == (Recovers /\ msg # <<>>) => msg[1].i = 1

(* A client's call always returns, and a server that has received part of  *)
(* a request does not wait for the rest for ever.                          *)
CallReturns ==
  (pc = "loop" /\ (MsgType = "CONFIRMATION" \/ msg # <<>>)) ~> (pc = "idle")
=============================================================================
