---------------------------- MODULE ModbusServer ----------------------------
(***************************************************************************)
(* A slave: the application's loop around modbus_receive, modbus_reply and *)
(* modbus_reply_exception, and the mapping of four tables modbus_reply     *)
(* works on.  The application may store into the tables at any time        *)
(* between two calls, also after it has received a request and before it   *)
(* answers.  A request is what the reply reads out of the frame: the       *)
(* fields at their offsets and the values that follow the byte count.      *)
(***************************************************************************)
EXTENDS ModbusProtocol, ModbusBits

CONSTANTS
  NbBits, NbInputBits, NbRegisters, NbInputRegisters,  \* sizes of the tables
  Values,      \* what a register, and the value field of a request, can hold
  Filters,     \* TRUE for RTU: requests to other slaves are ignored
  Slave,       \* ctx->slave
  Requests,    \* the requests that may arrive
  Codes,       \* codes the application gives to modbus_reply_exception
  IdBytes,     \* the bytes of the answer to report_slave_id
  MaxReadBits, MaxWriteBits, MaxReadRegisters, MaxWriteRegisters,
  MaxRWWriteRegisters                                  \* the protocol's limits

ASSUME SizesAssumption ==
  {NbBits, NbInputBits, NbRegisters, NbInputRegisters} \subseteq Nat

(* ON and OFF in a request.                                                *)
COIL_ON    == 65280
COIL_OFF   == 0
MODBUS_BROADCAST_ADDRESS == 0

(* nb is the quantity of a request, the value in a single write; data, in  *)
(* write_bits bytes, is what the frame carries after the byte count, which *)
(* modbus_reply does not compare with nb in write_bits and                 *)
(* write_registers.                                                        *)
Request == [slave : Nat, fn : 0..255, address : Nat, nb : Nat,
            addressWrite : Nat, nbWrite : Nat, nbWriteBytes : Nat,
            data : Seq(Values), bytes : Seq(Byte)]

ASSUME RequestsAssumption ==
  /\ Bits \subseteq Values
  /\ Codes \subseteq Nat
  /\ Requests \subseteq Request
  /\ \A r \in Requests :
       /\ r.fn = FC_WRITE_SINGLE_REGISTER => r.nb \in Values
       \* the byte count decides how much data receive_msg reads
       /\ r.fn = FC_WRITE_AND_READ_REGISTERS => r.nbWriteBytes = 2 * Len(r.data)

NoRequest == [slave |-> 0, fn |-> 0, address |-> 0, nb |-> 0, addressWrite |-> 0,
              nbWrite |-> 0, nbWriteBytes |-> 0, data |-> <<>>,
              bytes |-> <<>>]

ASSUME IdAssumption == IdBytes \in Seq(Nat)

VARIABLES
  bits, inputBits, registers, inputRegisters,  \* modbus_mapping_t
  pc,      \* "waiting" in modbus_receive, "indicated", "replied"
  req,     \* the request received
  rsp      \* what was sent for it

tables == <<bits, inputBits, registers, inputRegisters>>
vars   == <<bits, inputBits, registers, inputRegisters, pc, req, rsp>>

(* An answer: kind "data" carries values or bytes read, "echo" repeats the *)
(* fields of the request, "exception" carries a code; "none" is no answer  *)
(* and "error" no answer and -1 returned.                                  *)
Answer(kind, code, values) == [kind |-> kind, code |-> code, values |-> values]
NoAnswer == Answer("none", 0, <<>>)
Echo     == Answer("echo", 0, <<>>)
Data(vs) == Answer("data", 0, vs)

ILLEGAL_FUNCTION     == 1
ILLEGAL_DATA_ADDRESS == 2
ILLEGAL_DATA_VALUE   == 3

TypeOK ==
  /\ bits \in [0..(NbBits - 1) -> Bits]
  /\ inputBits \in [0..(NbInputBits - 1) -> Bits]
  /\ registers \in [0..(NbRegisters - 1) -> Values]
  /\ inputRegisters \in [0..(NbInputRegisters - 1) -> Values]
  /\ pc \in {"waiting", "indicated", "replied"}
  /\ req \in Requests \union {NoRequest}
  /\ rsp.kind \in {"none", "error", "exception", "echo", "data"}

(* modbus_mapping_new fills the tables with 0.                             *)
Init ==
  /\ bits = [i \in 0..(NbBits - 1) |-> 0]
  /\ inputBits = [i \in 0..(NbInputBits - 1) |-> 0]
  /\ registers = [i \in 0..(NbRegisters - 1) |-> 0]
  /\ inputRegisters = [i \in 0..(NbInputRegisters - 1) |-> 0]
  /\ pc = "waiting" /\ req = NoRequest /\ rsp = NoAnswer

-----------------------------------------------------------------------------
(* The application.                                                        *)

(* modbus_receive returns a request.                                       *)
Receive(r) ==
  /\ pc = "waiting"
  /\ pc' = "indicated" /\ req' = r
  /\ UNCHANGED <<tables, rsp>>

(* The loop starts over with the next modbus_receive.                      *)
Loop ==
  /\ pc = "replied"
  /\ pc' = "waiting" /\ req' = NoRequest /\ rsp' = NoAnswer
  /\ UNCHANGED tables

(* The application stores into a table, as a device does with a            *)
(* measurement.                                                            *)
StoreBit(i, b) ==
  /\ bits' = [bits EXCEPT ![i] = b]
  /\ UNCHANGED <<inputBits, registers, inputRegisters, pc, req, rsp>>

StoreInputBit(i, b) ==
  /\ inputBits' = [inputBits EXCEPT ![i] = b]
  /\ UNCHANGED <<bits, registers, inputRegisters, pc, req, rsp>>

StoreRegister(i, v) ==
  /\ registers' = [registers EXCEPT ![i] = v]
  /\ UNCHANGED <<bits, inputBits, inputRegisters, pc, req, rsp>>

StoreInputRegister(i, v) ==
  /\ inputRegisters' = [inputRegisters EXCEPT ![i] = v]
  /\ UNCHANGED <<bits, inputBits, registers, pc, req, rsp>>

-----------------------------------------------------------------------------
(* modbus_reply.                                                           *)

(* filter_request: RTU answers its own address and the broadcast address,  *)
(* TCP every address.                                                      *)
Mine(r) == Filters => r.slave \in {Slave, MODBUS_BROADCAST_ADDRESS}

Serve(fns) == pc = "indicated" /\ Mine(req) /\ req.fn \in fns /\ pc' = "replied" /\ UNCHANGED req

Filtered ==
  /\ pc = "indicated" /\ ~Mine(req)
  /\ pc' = "replied" /\ rsp' = NoAnswer
  /\ UNCHANGED <<tables, req>>

Refuse(code) == rsp' = Answer("exception", code, <<>>) /\ UNCHANGED tables

Addresses(first, nb) == first..(first + nb - 1)

(* The range check shared by the functions that take a quantity.           *)
Fits(first, nb, size) == first + nb <= size

(* The values of registers from address first on, as the answer lists      *)
(* them.                                                                   *)
Slice(table, first, nb) == [p \in 1..nb |-> table[first + p - 1]]

(* Registers after nb values are stored from address first on.  Values the *)
(* frame does not hold are whatever is in the buffer behind it.            *)
Stored(table, first, nb, data, behind) ==
  [i \in DOMAIN table |->
     IF i \in Addresses(first, nb)
     THEN IF i - first + 1 <= Len(data) THEN data[i - first + 1] ELSE behind[i - first + 1]
     ELSE table[i]]

ReadTable(fn, size, max, values) ==
  /\ Serve({fn})
  /\ IF req.nb < 1 \/ max < req.nb THEN Refuse(ILLEGAL_DATA_VALUE)
     ELSE IF ~Fits(req.address, req.nb, size) THEN Refuse(ILLEGAL_DATA_ADDRESS)
     ELSE rsp' = Data(values) /\ UNCHANGED tables

ReadBits ==
  ReadTable(FC_READ_COILS, NbBits, MaxReadBits, IoStatus(bits, req.address, req.nb))
ReadInputBits ==
  ReadTable(FC_READ_DISCRETE_INPUTS, NbInputBits, MaxReadBits,
            IoStatus(inputBits, req.address, req.nb))
ReadRegisters ==
  ReadTable(FC_READ_HOLDING_REGISTERS, NbRegisters, MaxReadRegisters,
            Slice(registers, req.address, req.nb))
ReadInputRegisters ==
  ReadTable(FC_READ_INPUT_REGISTERS, NbInputRegisters, MaxReadRegisters,
            Slice(inputRegisters, req.address, req.nb))

(* Here the address is checked before the value.                           *)
WriteBit ==
  /\ Serve({FC_WRITE_SINGLE_COIL})
  /\ IF req.address >= NbBits THEN Refuse(ILLEGAL_DATA_ADDRESS)
     ELSE IF req.nb \notin {COIL_ON, COIL_OFF} THEN Refuse(ILLEGAL_DATA_VALUE)
     ELSE /\ bits' = [bits EXCEPT ![req.address] = IF req.nb = COIL_OFF THEN 0 ELSE 1]
          /\ rsp' = Echo
          /\ UNCHANGED <<inputBits, registers, inputRegisters>>

WriteRegister ==
  /\ Serve({FC_WRITE_SINGLE_REGISTER})
  /\ IF req.address >= NbRegisters THEN Refuse(ILLEGAL_DATA_ADDRESS)
     ELSE /\ registers' = [registers EXCEPT ![req.address] = req.nb]
          /\ rsp' = Echo
          /\ UNCHANGED <<bits, inputBits, inputRegisters>>

WriteBits ==
  /\ Serve({FC_WRITE_MULTIPLE_COILS})
  /\ IF req.nb < 1 \/ MaxWriteBits < req.nb THEN Refuse(ILLEGAL_DATA_VALUE)
     ELSE IF ~Fits(req.address, req.nb, NbBits) THEN Refuse(ILLEGAL_DATA_ADDRESS)
     ELSE /\ \E behind \in [1..BytesFor(req.nb) -> Byte] :
               bits' = SetBitsFromBytes(bits, req.address, req.nb, req.bytes \o behind)
          /\ rsp' = Echo
          /\ UNCHANGED <<inputBits, registers, inputRegisters>>

(* Faulty variant, for mutation: the registers are stored before the range *)
(* is checked.                                                             *)
WriteRegistersUnchecked ==
  /\ Serve({FC_WRITE_MULTIPLE_REGISTERS})
  /\ IF req.nb < 1 \/ MaxWriteRegisters < req.nb
     THEN Refuse(ILLEGAL_DATA_VALUE)
     ELSE /\ \E behind \in [1..req.nb -> Values] :
               registers' = Stored(registers, req.address, req.nb, req.data, behind)
          /\ rsp' = IF ~Fits(req.address, req.nb, NbRegisters)
                    THEN Answer("exception", ILLEGAL_DATA_ADDRESS, <<>>) ELSE Echo
          /\ UNCHANGED <<bits, inputBits, inputRegisters>>

WriteRegisters ==
  /\ Serve({FC_WRITE_MULTIPLE_REGISTERS})
  /\ IF req.nb < 1 \/ MaxWriteRegisters < req.nb THEN Refuse(ILLEGAL_DATA_VALUE)
     ELSE IF ~Fits(req.address, req.nb, NbRegisters) THEN Refuse(ILLEGAL_DATA_ADDRESS)
     ELSE /\ \E behind \in [1..req.nb -> Values] :
               registers' = Stored(registers, req.address, req.nb, req.data, behind)
          /\ rsp' = Echo
          /\ UNCHANGED <<bits, inputBits, inputRegisters>>

ReportSlaveId ==
  /\ Serve({FC_REPORT_SLAVE_ID})
  /\ rsp' = Data(IdBytes)
  /\ UNCHANGED tables

(* "FIXME Not implemented": modbus_reply returns -1 and sends nothing.     *)
ReadExceptionStatus ==
  /\ Serve({FC_READ_EXCEPTION_STATUS})
  /\ rsp' = Answer("error", 0, <<>>)
  /\ UNCHANGED tables

IllegalReadWrite(r) ==
  \/ r.nbWrite < 1 \/ MaxRWWriteRegisters < r.nbWrite
  \/ r.nb < 1 \/ MaxReadRegisters < r.nb
  \/ r.nbWriteBytes # r.nbWrite * 2

(* Faulty variant, for mutation: the answer is built before the write.     *)
ReadAndWrite ==
  /\ Serve({FC_WRITE_AND_READ_REGISTERS})
  /\ IF IllegalReadWrite(req) THEN Refuse(ILLEGAL_DATA_VALUE)
     ELSE IF ~Fits(req.address, req.nb, NbRegisters)
              \/ ~Fits(req.addressWrite, req.nbWrite, NbRegisters)
          THEN Refuse(ILLEGAL_DATA_ADDRESS)
     ELSE /\ registers' = Stored(registers, req.addressWrite, req.nbWrite, req.data, req.data)
          /\ rsp' = Data(Slice(registers, req.address, req.nb))
          /\ UNCHANGED <<bits, inputBits, inputRegisters>>

(* "Write first and read the data for the response."                       *)
WriteAndRead ==
  /\ Serve({FC_WRITE_AND_READ_REGISTERS})
  /\ IF IllegalReadWrite(req) THEN Refuse(ILLEGAL_DATA_VALUE)
     ELSE IF ~Fits(req.address, req.nb, NbRegisters)
              \/ ~Fits(req.addressWrite, req.nbWrite, NbRegisters)
          THEN Refuse(ILLEGAL_DATA_ADDRESS)
     ELSE /\ registers' = Stored(registers, req.addressWrite, req.nbWrite, req.data, req.data)
          /\ rsp' = Data(Slice(registers', req.address, req.nb))
          /\ UNCHANGED <<bits, inputBits, inputRegisters>>

IllegalFunction ==
  /\ Serve((0..255) \ (ClientFunctions \union {FC_READ_EXCEPTION_STATUS}))
  /\ Refuse(ILLEGAL_FUNCTION)

(* The application answers with modbus_reply_exception instead.            *)
ReplyException(code) ==
  /\ pc = "indicated" /\ Mine(req)
  /\ pc' = "replied" /\ UNCHANGED <<tables, req>>
  /\ rsp' = IF code < MODBUS_EXCEPTION_MAX
            THEN Answer("exception", code, <<>>) ELSE Answer("error", 0, <<>>)

Reply ==
  \/ Filtered
  \/ ReadBits \/ ReadInputBits \/ ReadRegisters \/ ReadInputRegisters
  \/ WriteBit \/ WriteRegister \/ WriteBits \/ WriteRegisters
  \/ ReportSlaveId \/ ReadExceptionStatus \/ WriteAndRead \/ IllegalFunction

Next ==
  \/ \E r \in Requests : Receive(r)
  \/ Loop
  \/ \E i \in 0..(NbBits - 1), b \in Bits : StoreBit(i, b)
  \/ \E i \in 0..(NbInputBits - 1), b \in Bits : StoreInputBit(i, b)
  \/ \E i \in 0..(NbRegisters - 1), v \in Values : StoreRegister(i, v)
  \/ \E i \in 0..(NbInputRegisters - 1), v \in Values : StoreInputRegister(i, v)
  \/ Reply
  \/ \E code \in Codes : ReplyException(code)

Spec == Init /\ [][Next]_vars

-----------------------------------------------------------------------------
Serving == pc = "indicated" /\ pc' = "replied"

(* The addresses of each table a request asks to write.                    *)
BitsWritten(r) ==
  CASE r.fn = FC_WRITE_SINGLE_COIL    -> {r.address}
    [] r.fn = FC_WRITE_MULTIPLE_COILS -> Addresses(r.address, r.nb)
    [] OTHER                          -> {}

RegistersWritten(r) ==
  CASE r.fn = FC_WRITE_SINGLE_REGISTER    -> {r.address}
    [] r.fn = FC_WRITE_MULTIPLE_REGISTERS -> Addresses(r.address, r.nb)
    [] r.fn = FC_WRITE_AND_READ_REGISTERS -> Addresses(r.addressWrite, r.nbWrite)
    [] OTHER                              -> {}

(* A request that is refused, filtered or not implemented changes nothing: *)
(* no part of a write takes effect before a check fails.                   *)
HarmlessRefusal ==
  (Serving /\ rsp'.kind \in {"none", "error", "exception"}) => UNCHANGED tables

RefusedChangesNothing == [][HarmlessRefusal]_vars

(* Serving a request changes cells the request names and no other, and     *)
(* never an input table.                                                   *)
AddressedOnly ==
  Serving =>
    /\ \A i \in DOMAIN bits : bits'[i] # bits[i] => i \in BitsWritten(req)
    /\ \A i \in DOMAIN registers :
         registers'[i] # registers[i] => i \in RegistersWritten(req)
    /\ UNCHANGED <<inputBits, inputRegisters>>

WritesAddressedOnly == [][AddressedOnly]_vars

(* The table a read, and the read part of write_and_read, takes from.      *)
TableRead(r) ==
  CASE r.fn = FC_READ_COILS             -> bits
    [] r.fn = FC_READ_DISCRETE_INPUTS   -> inputBits
    [] r.fn \in {FC_READ_HOLDING_REGISTERS, FC_WRITE_AND_READ_REGISTERS} -> registers
    [] r.fn = FC_READ_INPUT_REGISTERS   -> inputRegisters

(* What the client's function stores for an answer with values read.       *)
Received(r, values) ==
  IF r.fn \in ReadBitFunctions THEN ReadDest(values, r.nb) ELSE values

(* The values a client gets are those the mapping holds when the answer is *)
(* sent, the request's own write included, and as many as were asked for,  *)
(* bits of several bytes included.                                         *)
CurrentValues ==
  (Serving /\ rsp'.kind = "data" /\ req.fn # FC_REPORT_SLAVE_ID) =>
    /\ Len(rsp'.values) = IF req.fn \in ReadBitFunctions THEN BytesFor(req.nb) ELSE req.nb
    /\ \A p \in 1..req.nb :
         Received(req, rsp'.values)[p] = TableRead(req)'[req.address + p - 1]

AnswersCurrentValues == [][CurrentValues]_vars

(* A write that is acknowledged has taken effect as a whole: every bit the *)
(* client's function has put into the bytes, and every register of the     *)
(* frame, is in its cell.                                                  *)
WholeWrite ==
  (Serving /\ rsp'.kind \in {"echo", "data"}) =>
    /\ req.fn = FC_WRITE_MULTIPLE_COILS =>
         \A src \in [1..req.nb -> Bits] :
           WriteBytes(src, req.nb) = req.bytes =>
             \A p \in 1..req.nb : bits'[req.address + p - 1] = src[p]
    /\ req.fn = FC_WRITE_MULTIPLE_REGISTERS =>
         \A p \in 1..Len(req.data) :
           p <= req.nb => registers'[req.address + p - 1] = req.data[p]
    /\ req.fn = FC_WRITE_AND_READ_REGISTERS =>
         \A p \in 1..Len(req.data) : registers'[req.addressWrite + p - 1] = req.data[p]

AcknowledgedIsStored == [][WholeWrite]_vars
=============================================================================
