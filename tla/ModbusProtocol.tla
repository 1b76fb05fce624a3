--------------------------- MODULE ModbusProtocol ---------------------------
(***************************************************************************)
(* The arithmetic of Modbus frames as libmodbus computes it: how many      *)
(* bytes receive_msg reads after each step, how long the request a client  *)
(* builds and the answer a server builds are, and what check_confirmation  *)
(* makes of an answer.  Every operator is a pure function of the backend   *)
(* (RTU or TCP) and of the few bytes the C code looks at.                  *)
(***************************************************************************)
EXTENDS Integers

(* Function codes.                                                         *)
FC_READ_COILS               == 1
FC_READ_DISCRETE_INPUTS     == 2
FC_READ_HOLDING_REGISTERS   == 3
FC_READ_INPUT_REGISTERS     == 4
FC_WRITE_SINGLE_COIL        == 5
FC_WRITE_SINGLE_REGISTER    == 6
FC_READ_EXCEPTION_STATUS    == 7
FC_WRITE_MULTIPLE_COILS     == 15
FC_WRITE_MULTIPLE_REGISTERS == 16
FC_REPORT_SLAVE_ID          == 17
FC_WRITE_AND_READ_REGISTERS == 23

ReadBitFunctions  == {FC_READ_COILS, FC_READ_DISCRETE_INPUTS}
ReadRegFunctions  == {FC_READ_HOLDING_REGISTERS, FC_READ_INPUT_REGISTERS}
SingleFunctions   == {FC_WRITE_SINGLE_COIL, FC_WRITE_SINGLE_REGISTER}
MultipleFunctions == {FC_WRITE_MULTIPLE_COILS, FC_WRITE_MULTIPLE_REGISTERS}

(* The functions for which the library has a client call.                  *)
ClientFunctions ==
  ReadBitFunctions \union ReadRegFunctions \union SingleFunctions
    \union MultipleFunctions
    \union {FC_REPORT_SLAVE_ID, FC_WRITE_AND_READ_REGISTERS}

MAX_READ_BITS          == 2000
MAX_WRITE_BITS         == 1968
MAX_READ_REGISTERS     == 125
MAX_WRITE_REGISTERS    == 123
MAX_RW_WRITE_REGISTERS == 121

(* The largest quantity a request of each function may carry; the client   *)
(* refuses more before it sends (EMBMDATA), the server answers more with   *)
(* ILLEGAL_DATA_VALUE.                                                     *)
MaxQuantity(fn) ==
  CASE fn \in ReadBitFunctions                -> MAX_READ_BITS
    [] fn = FC_WRITE_MULTIPLE_COILS           -> MAX_WRITE_BITS
    [] fn \in ReadRegFunctions                -> MAX_READ_REGISTERS
    [] fn = FC_WRITE_AND_READ_REGISTERS       -> MAX_READ_REGISTERS
    [] fn = FC_WRITE_MULTIPLE_REGISTERS       -> MAX_WRITE_REGISTERS
    [] OTHER                                  -> 1

(* The two backends: header_length, checksum_length and max_adu_length.    *)
RTU == [header |-> 1, checksum |-> 2, maxAdu |-> 256, preset |-> 6]
TCP == [header |-> 7, checksum |-> 0, maxAdu |-> 260, preset |-> 12]

MAX_PDU_LENGTH        == 253   \* an ADU without header and checksum
MAX_MESSAGE_LENGTH    == 260
MSG_LENGTH_UNDEFINED  == -1
MODBUS_EXCEPTION_MAX  == 12

-----------------------------------------------------------------------------
(* What receive_msg reads.  The message type is "INDICATION" for a request *)
(* read by a server and "CONFIRMATION" for an answer read by a client.     *)

MsgTypes == {"INDICATION", "CONFIRMATION"}

(* Bytes between the function code and the point where the length of the   *)
(* rest is known.                                                          *)
MetaLengthAfterFunction(fn, type) ==
  CASE type = "INDICATION" /\ fn <= FC_WRITE_SINGLE_REGISTER    -> 4
    [] type = "INDICATION" /\ fn \in MultipleFunctions          -> 5
    [] type = "INDICATION" /\ fn = FC_WRITE_AND_READ_REGISTERS  -> 9
    [] type = "CONFIRMATION" /\ fn \in SingleFunctions \union MultipleFunctions -> 4
    [] type = "CONFIRMATION"
         /\ fn \notin SingleFunctions \union MultipleFunctions  -> 1
    [] OTHER                                                    -> 0

(* Three ways to get HasByteCount wrong, for mutation: write_and_read      *)
(* forgotten in a request, report_slave_id forgotten in an answer, and the *)
(* echoes of single writes taken for answers with a count.                 *)
HasByteCountNoWriteAndRead(fn, type) ==
  IF type = "INDICATION"
  THEN fn \in MultipleFunctions
  ELSE \/ fn <= FC_READ_INPUT_REGISTERS
       \/ fn \in {FC_REPORT_SLAVE_ID, FC_WRITE_AND_READ_REGISTERS}

HasByteCountNoSlaveId(fn, type) ==
  IF type = "INDICATION"
  THEN fn \in MultipleFunctions \union {FC_WRITE_AND_READ_REGISTERS}
  ELSE fn <= FC_READ_INPUT_REGISTERS \/ fn = FC_WRITE_AND_READ_REGISTERS

(* Functions whose frames carry a byte count, and the offset of that byte  *)
(* from the function code.                                                 *)
HasByteCount(fn, type) ==
  IF type = "INDICATION"
  THEN fn \in MultipleFunctions \union {FC_WRITE_AND_READ_REGISTERS}
  ELSE \/ fn <= FC_READ_INPUT_REGISTERS
       \/ fn \in {FC_REPORT_SLAVE_ID, FC_WRITE_AND_READ_REGISTERS}

ByteCountOffset(fn, type) ==
  IF type = "CONFIRMATION"
  THEN 1
  ELSE IF fn = FC_WRITE_AND_READ_REGISTERS THEN 9 ELSE 5

(* Bytes still to read once the meta bytes are there, byteCount being the  *)
(* value of the byte at ByteCountOffset.                                   *)
DataLengthAfterMeta(be, fn, byteCount, type) ==
  (IF HasByteCount(fn, type) THEN byteCount ELSE 0) + be.checksum

(* The whole length receive_msg reads for a message.                       *)
ReceivedLength(be, fn, byteCount, type) ==
  be.header + 1 + MetaLengthAfterFunction(fn, type)
    + DataLengthAfterMeta(be, fn, byteCount, type)

-----------------------------------------------------------------------------
(* What the client and the server build.                                   *)

BytesOfBits(nb) == nb \div 8 + (IF nb % 8 # 0 THEN 1 ELSE 0)

(* The byte count a request puts on the wire; nb is the quantity written.  *)
RequestByteCount(fn, nb) ==
  CASE fn = FC_WRITE_MULTIPLE_COILS -> BytesOfBits(nb)
    [] fn \in {FC_WRITE_MULTIPLE_REGISTERS, FC_WRITE_AND_READ_REGISTERS} -> nb * 2
    [] OTHER -> 0

(* Length of the request ADU.  build_request_basis returns preset bytes    *)
(* (header, function, address, quantity); report_slave_id takes four back; *)
(* RTU appends the CRC in send_msg_pre.                                    *)
RequestLength(be, fn, nb) ==
  be.preset + be.checksum +
    CASE fn \in MultipleFunctions          -> 1 + RequestByteCount(fn, nb)
      [] fn = FC_WRITE_AND_READ_REGISTERS  -> 5 + RequestByteCount(fn, nb)
      [] fn = FC_REPORT_SLAVE_ID           -> -4
      [] OTHER                             -> 0

(* The byte count of a normal answer; nb is the quantity read, idLength    *)
(* the bytes after the count in an answer to report_slave_id.              *)
ResponseByteCount(fn, nb, idLength) ==
  CASE fn \in ReadBitFunctions -> BytesOfBits(nb)
    [] fn \in ReadRegFunctions \union {FC_WRITE_AND_READ_REGISTERS} -> nb * 2
    [] fn = FC_REPORT_SLAVE_ID -> idLength
    [] OTHER -> 0

(* Length of the answer modbus_reply sends: the function code and either   *)
(* the counted bytes or the echo of address and quantity or value.         *)
ResponseLength(be, fn, nb, idLength) ==
  be.header + be.checksum +
    (IF fn \in SingleFunctions \union MultipleFunctions
     THEN 5 ELSE 2 + ResponseByteCount(fn, nb, idLength))

ExceptionLength(be) == be.header + be.checksum + 2

-----------------------------------------------------------------------------
(* What the client expects.                                                *)

(* compute_response_length_from_request, nb being the quantity field of    *)
(* the request.                                                            *)
ResponseLengthFromRequest(be, fn, nb) ==
  IF fn = FC_REPORT_SLAVE_ID
  THEN MSG_LENGTH_UNDEFINED
  ELSE be.header + be.checksum +
         CASE fn \in ReadBitFunctions -> 2 + BytesOfBits(nb)
           [] fn \in ReadRegFunctions \union {FC_WRITE_AND_READ_REGISTERS} -> 2 + 2 * nb
           [] fn = FC_READ_EXCEPTION_STATUS -> 3
           [] OTHER -> 5

(* An answer as check_confirmation sees it: its length, function code, the *)
(* byte after the function code (byte count or exception code) and the     *)
(* quantity that a multiple write echoes.                                  *)
NormalResponse(be, fn, nb, idLength) ==
  [length   |-> ResponseLength(be, fn, nb, idLength),
   function |-> fn,
   second   |-> ResponseByteCount(fn, nb, idLength),
   quantity |-> nb]

ExceptionResponse(be, fn, code) ==
  [length   |-> ExceptionLength(be),
   function |-> fn + 128,
   second   |-> code,
   quantity |-> 0]

(* The quantities check_confirmation compares.                             *)
RequestedValues(fn, nb, rsp) ==
  CASE fn \in ReadBitFunctions -> BytesOfBits(nb)
    [] fn \in ReadRegFunctions \union MultipleFunctions
              \union {FC_WRITE_AND_READ_REGISTERS} -> nb
    [] fn = FC_REPORT_SLAVE_ID -> rsp.second
    [] OTHER -> 1

AnsweredBytes(fn, rsp) ==   \* for mutation: bytes taken for registers
  CASE fn \in MultipleFunctions -> rsp.quantity
    [] fn \in SingleFunctions   -> 1
    [] OTHER                    -> rsp.second

AnsweredValues(fn, rsp) ==
  CASE fn \in ReadBitFunctions \union {FC_REPORT_SLAVE_ID} -> rsp.second
    [] fn \in ReadRegFunctions \union {FC_WRITE_AND_READ_REGISTERS} -> rsp.second \div 2
    [] fn \in MultipleFunctions -> rsp.quantity
    [] OTHER -> 1

ExceptionVerdictInclusive(rsp) ==   \* for mutation: off by one
  IF rsp.second <= MODBUS_EXCEPTION_MAX
  THEN [verdict |-> "exception", value |-> rsp.second, flush |-> FALSE]
  ELSE [verdict |-> "EMBBADEXC", value |-> 0, flush |-> FALSE]

(* What an exception answer to the right function becomes.                 *)
ExceptionVerdict(rsp) ==
  IF rsp.second < MODBUS_EXCEPTION_MAX
  THEN [verdict |-> "exception", value |-> rsp.second, flush |-> FALSE]
  ELSE [verdict |-> "EMBBADEXC", value |-> 0, flush |-> FALSE]

(* check_confirmation after the transaction identifier has been compared:  *)
(* a verdict, the value or exception code that goes with it, and whether   *)
(* protocol recovery sleeps and flushes.                                   *)
CheckConfirmation(be, fn, nb, rsp) ==
  LET computed == ResponseLengthFromRequest(be, fn, nb)
      bad      == [verdict |-> "EMBBADDATA", value |-> 0, flush |-> TRUE]
  IN  IF rsp.length = computed \/ computed = MSG_LENGTH_UNDEFINED
      THEN IF /\ rsp.function = fn
              /\ RequestedValues(fn, nb, rsp) = AnsweredValues(fn, rsp)
           THEN [verdict |-> "ok", value |-> AnsweredValues(fn, rsp), flush |-> FALSE]
           ELSE bad
      ELSE IF rsp.length = ExceptionLength(be) /\ fn = rsp.function - 128
           THEN ExceptionVerdict(rsp)
           ELSE bad
=============================================================================
