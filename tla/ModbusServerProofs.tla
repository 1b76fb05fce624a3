-------------------------- MODULE ModbusServerProofs --------------------------
(***************************************************************************)
(* modbus_reply stays inside the four tables, changes only the cells a     *)
(* request names, changes nothing when it refuses, and answers with the    *)
(* values the mapping holds: for tables of any size, any limits and any    *)
(* set of requests.                                                        *)
(***************************************************************************)
EXTENDS ModbusServer, SequenceTheorems, WellFoundedInduction, TLAPS

(* A table keeps its addresses and the type of its cells when values of    *)
(* that type are stored into it.                                           *)
LEMMA StoredType ==
  ASSUME NEW S, NEW D \in SUBSET Int, NEW table \in [D -> S], NEW first \in Int,
         NEW nb \in Int, NEW data \in Seq(S), NEW behind,
         \A p \in 1..nb : p > Len(data) => behind[p] \in S
  PROVE  Stored(table, first, nb, data, behind) \in [D -> S]
<1> DEFINE p(i) == i - first + 1
<1>1. Len(data) \in Nat /\ \A q \in 1..Len(data) : data[q] \in S
  BY LenProperties, ElementOfSeq
<1>2. ASSUME NEW i \in D, i \in Addresses(first, nb)
      PROVE  (IF p(i) <= Len(data) THEN data[p(i)] ELSE behind[p(i)]) \in S
  <2>1. i \in Int /\ p(i) \in 1..nb
    BY <1>2 DEF Addresses
  <2>2. CASE p(i) <= Len(data)
    BY <1>1, <2>1, <2>2
  <2>3. CASE ~(p(i) <= Len(data))
    <3>1. p(i) > Len(data)
      BY <1>1, <2>1, <2>3
    <3>2. QED
      BY <2>1, <2>3, <3>1
  <2>4. QED
    BY <2>2, <2>3
<1>3. DOMAIN table = D
  OBVIOUS
<1>4. QED
  BY <1>2, <1>3 DEF Stored

(* Unpacked bits are 0 or 1 whatever the bytes hold.                       *)
LEMMA SetBitsType ==
  ASSUME NEW D, NEW dest \in [D -> Bits], NEW index, NEW nb, NEW bytes
  PROVE  SetBitsFromBytes(dest, index, nb, bytes) \in [D -> Bits]
<1>1. \A byte, shift : BitOf(byte, shift) \in Bits
  BY DEF BitOf, Bits
<1>2. QED
  BY <1>1 DEF SetBitsFromBytes

LEMMA IndicatedRequest ==
  ASSUME TypeOK, req.fn # 0
  PROVE  req \in Requests /\ req \in Request
  BY RequestsAssumption DEF TypeOK, NoRequest

-----------------------------------------------------------------------------
(* The four reads, and every refusal, leave the tables alone.              *)
LEMMA ReadKeeps ==
  ASSUME ReadBits \/ ReadInputBits \/ ReadRegisters \/ ReadInputRegisters
           \/ ReportSlaveId \/ ReadExceptionStatus \/ IllegalFunction \/ Filtered
           \/ \E code \in Codes : ReplyException(code)
  PROVE  /\ UNCHANGED <<bits, inputBits, registers, inputRegisters, req>>
         /\ pc' = "replied"
         /\ rsp'.kind \in {"none", "error", "exception", "data"}
<1> USE DEF tables, Serve, Answer
<1>1. CASE ReadBits
  BY <1>1 DEF ReadBits, ReadTable, Refuse, Data
<1>2. CASE ReadInputBits
  BY <1>2 DEF ReadInputBits, ReadTable, Refuse, Data
<1>3. CASE ReadRegisters
  BY <1>3 DEF ReadRegisters, ReadTable, Refuse, Data
<1>4. CASE ReadInputRegisters
  BY <1>4 DEF ReadInputRegisters, ReadTable, Refuse, Data
<1>5. CASE ReportSlaveId
  BY <1>5 DEF ReportSlaveId, Data
<1>6. CASE ReadExceptionStatus
  BY <1>6 DEF ReadExceptionStatus
<1>7. CASE IllegalFunction
  BY <1>7 DEF IllegalFunction, Refuse
<1>8. CASE Filtered
  BY <1>8 DEF Filtered, NoAnswer
<1>9. ASSUME NEW code \in Codes, ReplyException(code)
      PROVE  /\ UNCHANGED <<bits, inputBits, registers, inputRegisters, req>>
             /\ pc' = "replied"
             /\ rsp'.kind \in {"none", "error", "exception", "data"}
  BY <1>9 DEF ReplyException
<1>10. QED
  BY <1>1, <1>2, <1>3, <1>4, <1>5, <1>6, <1>7, <1>8, <1>9

(* Addresses of a range inside a table.                                    *)
LEMMA InTable ==
  ASSUME NEW first \in Nat, NEW nb \in Nat, NEW size \in Nat, Fits(first, nb, size)
  PROVE  /\ Addresses(first, nb) \subseteq 0..(size - 1)
         /\ \A p \in 1..nb : first + p - 1 \in Addresses(first, nb)
  BY DEF Fits, Addresses

(* The type of the tables after each write.                                *)
LEMMA WriteTypes ==
  ASSUME TypeOK, WriteBit \/ WriteRegister \/ WriteBits \/ WriteRegisters \/ WriteAndRead
  PROVE  /\ bits' \in [0..(NbBits - 1) -> Bits]
         /\ registers' \in [0..(NbRegisters - 1) -> Values]
         /\ UNCHANGED <<inputBits, inputRegisters, req>>
         /\ pc' = "replied"
         /\ rsp'.kind \in {"exception", "echo", "data"}
<1> DEFINE Good == /\ bits' \in [0..(NbBits - 1) -> Bits]
                   /\ registers' \in [0..(NbRegisters - 1) -> Values]
                   /\ UNCHANGED <<inputBits, inputRegisters, req>>
                   /\ pc' = "replied"
                   /\ rsp'.kind \in {"exception", "echo", "data"}
<1> USE DEF Serve
<1>1. req.fn # 0 => req \in Requests /\ req \in Request
  BY IndicatedRequest
<1>2. bits \in [0..(NbBits - 1) -> Bits] /\ registers \in [0..(NbRegisters - 1) -> Values]
  BY DEF TypeOK
<1>D. 0..(NbBits - 1) \in SUBSET Int /\ 0..(NbRegisters - 1) \in SUBSET Int
  BY SizesAssumption
<1>3. CASE WriteBit
  BY <1>2, <1>3 DEF WriteBit, Bits, Refuse, tables, Answer, Echo
<1>4. CASE WriteRegister
  <2>1. req.nb \in Values
    BY <1>1, <1>4, RequestsAssumption DEF WriteRegister, FC_WRITE_SINGLE_REGISTER
  <2>2. QED
    BY <1>2, <1>4, <2>1 DEF WriteRegister, Refuse, tables, Answer, Echo
<1>5. CASE WriteBits
  <2>1. ASSUME NEW bytes
        PROVE  SetBitsFromBytes(bits, req.address, req.nb, bytes) \in [0..(NbBits - 1) -> Bits]
    BY <1>2, SetBitsType
  <2>2. CASE Refuse(ILLEGAL_DATA_VALUE) \/ Refuse(ILLEGAL_DATA_ADDRESS)
    BY <1>2, <1>5, <2>2 DEF Refuse, tables, Answer, WriteBits
  <2>3. CASE /\ \E behind \in [1..BytesFor(req.nb) -> Byte] :
                  bits' = SetBitsFromBytes(bits, req.address, req.nb, req.bytes \o behind)
             /\ rsp' = Echo
             /\ UNCHANGED <<inputBits, registers, inputRegisters>>
    <3>1. bits' \in [0..(NbBits - 1) -> Bits]
      BY <2>1, <2>3
    <3>2. QED
      BY <1>2, <1>5, <2>3, <3>1 DEF Echo, Answer, WriteBits
  <2>4. QED
    BY <1>5, <2>2, <2>3 DEF WriteBits
<1>6. CASE WriteRegisters
  <2>1. req.data \in Seq(Values) /\ req.address \in Nat /\ req.nb \in Nat
    BY <1>1, <1>6 DEF WriteRegisters, FC_WRITE_MULTIPLE_REGISTERS, Request
  <2>2. ASSUME NEW behind \in [1..req.nb -> Values]
        PROVE  Stored(registers, req.address, req.nb, req.data, behind)
                 \in [0..(NbRegisters - 1) -> Values]
    <3>1. \A p \in 1..req.nb : p > Len(req.data) => behind[p] \in Values
      BY <2>2
    <3>2. req.address \in Int /\ req.nb \in Int
      BY <2>1
    <3>3. QED
      BY <1>2, <1>D, <2>1, <3>1, <3>2, StoredType
  <2>3. CASE Refuse(ILLEGAL_DATA_VALUE) \/ Refuse(ILLEGAL_DATA_ADDRESS)
    BY <1>2, <1>6, <2>3 DEF Refuse, tables, Answer, WriteRegisters
  <2>4. CASE /\ \E behind \in [1..req.nb -> Values] :
                  registers' = Stored(registers, req.address, req.nb, req.data, behind)
             /\ rsp' = Echo
             /\ UNCHANGED <<bits, inputBits, inputRegisters>>
    <3>1. registers' \in [0..(NbRegisters - 1) -> Values]
      BY <2>2, <2>4
    <3>2. QED
      BY <1>2, <1>6, <2>4, <3>1 DEF Echo, Answer, WriteRegisters
  <2>5. QED
    BY <1>6, <2>3, <2>4 DEF WriteRegisters
<1>7. CASE WriteAndRead
  <2>1. /\ req.data \in Seq(Values) /\ req.addressWrite \in Nat /\ req.nbWrite \in Nat
        /\ req.nbWriteBytes = 2 * Len(req.data)
    <3>1. req.fn = FC_WRITE_AND_READ_REGISTERS /\ req \in Requests /\ req \in Request
      BY <1>1, <1>7 DEF WriteAndRead, FC_WRITE_AND_READ_REGISTERS
    <3>2. req.nbWriteBytes = 2 * Len(req.data)
      BY <3>1, RequestsAssumption
    <3>3. QED
      BY <3>1, <3>2 DEF Request
  <2>2. ASSUME ~IllegalReadWrite(req)
        PROVE  Stored(registers, req.addressWrite, req.nbWrite, req.data, req.data)
                 \in [0..(NbRegisters - 1) -> Values]
    <3>1. req.nbWrite = Len(req.data)
      BY <2>1, <2>2, LenProperties DEF IllegalReadWrite
    <3>2. \A p \in 1..req.nbWrite : p > Len(req.data) => req.data[p] \in Values
      BY <2>1, <3>1
    <3>3. req.addressWrite \in Int /\ req.nbWrite \in Int
      BY <2>1
    <3>4. QED
      BY <1>2, <1>D, <2>1, <3>2, <3>3, StoredType
  <2>3. CASE Refuse(ILLEGAL_DATA_VALUE) \/ Refuse(ILLEGAL_DATA_ADDRESS)
    BY <1>2, <1>7, <2>3 DEF Refuse, tables, Answer, WriteAndRead
  <2>4. CASE /\ ~IllegalReadWrite(req)
             /\ registers' = Stored(registers, req.addressWrite, req.nbWrite,
                                    req.data, req.data)
             /\ rsp' = Data(Slice(registers', req.address, req.nb))
             /\ UNCHANGED <<bits, inputBits, inputRegisters>>
    BY <1>2, <1>7, <2>2, <2>4 DEF WriteAndRead, Data, Answer
  <2>5. QED
    BY <1>7, <2>3, <2>4 DEF WriteAndRead
<1>8. QED
  BY <1>3, <1>4, <1>5, <1>6, <1>7

(* The mapping keeps its shape and its types: modbus_reply never stores    *)
(* outside the tables, nor a value a cell cannot hold.                     *)
THEOREM TypeCorrect == Spec => []TypeOK
<1>1. Init => TypeOK
  BY RequestsAssumption DEF Init, TypeOK, Bits, NoAnswer, Answer
<1>2. TypeOK /\ [Next]_vars => TypeOK'
  <2> SUFFICES ASSUME TypeOK, [Next]_vars
               PROVE  TypeOK'
    OBVIOUS
  <2> USE DEF TypeOK
  <2>1. ASSUME NEW r \in Requests, Receive(r)
        PROVE  TypeOK'
    BY <2>1 DEF Receive, tables
  <2>2. CASE Loop
    BY <2>2 DEF Loop, tables, NoAnswer, Answer
  <2>3. ASSUME NEW i \in 0..(NbBits - 1), NEW b \in Bits, StoreBit(i, b)
        PROVE  TypeOK'
    BY <2>3 DEF StoreBit
  <2>4. ASSUME NEW i \in 0..(NbInputBits - 1), NEW b \in Bits, StoreInputBit(i, b)
        PROVE  TypeOK'
    BY <2>4 DEF StoreInputBit
  <2>5. ASSUME NEW i \in 0..(NbRegisters - 1), NEW v \in Values, StoreRegister(i, v)
        PROVE  TypeOK'
    BY <2>5 DEF StoreRegister
  <2>6. ASSUME NEW i \in 0..(NbInputRegisters - 1), NEW v \in Values,
               StoreInputRegister(i, v)
        PROVE  TypeOK'
    BY <2>6 DEF StoreInputRegister
  <2>7. CASE WriteBit \/ WriteRegister \/ WriteBits \/ WriteRegisters \/ WriteAndRead
    BY <2>7, WriteTypes
  <2>8. CASE ReadBits \/ ReadInputBits \/ ReadRegisters \/ ReadInputRegisters
               \/ ReportSlaveId \/ ReadExceptionStatus \/ IllegalFunction \/ Filtered
               \/ \E code \in Codes : ReplyException(code)
    BY <2>8, ReadKeeps
  <2>9. CASE UNCHANGED vars
    BY <2>9 DEF vars
  <2>10. QED
    BY <2>1, <2>2, <2>3, <2>4, <2>5, <2>6, <2>7, <2>8, <2>9 DEF Next, Reply
<1>3. QED
  BY <1>1, <1>2, PTL DEF Spec

-----------------------------------------------------------------------------
(* The steps that serve a request are those of modbus_reply and            *)
(* modbus_reply_exception.                                                 *)
LEMMA ServingSteps ==
  ASSUME [Next]_vars, Serving
  PROVE  \/ ReadBits \/ ReadInputBits \/ ReadRegisters \/ ReadInputRegisters
           \/ ReportSlaveId \/ ReadExceptionStatus \/ IllegalFunction \/ Filtered
           \/ \E code \in Codes : ReplyException(code)
         \/ WriteBit \/ WriteRegister \/ WriteBits \/ WriteRegisters \/ WriteAndRead
<1> USE DEF Serving
<1>1. ~Loop /\ pc' # pc
  BY DEF Loop
<1>2. ASSUME NEW r \in Requests PROVE ~Receive(r)
  BY DEF Receive
<1>3. ASSUME NEW i, NEW v
      PROVE  ~StoreBit(i, v) /\ ~StoreInputBit(i, v) /\ ~StoreRegister(i, v)
               /\ ~StoreInputRegister(i, v)
  BY <1>1 DEF StoreBit, StoreInputBit, StoreRegister, StoreInputRegister
<1>4. ~UNCHANGED vars
  BY <1>1 DEF vars
<1>5. QED
  BY <1>1, <1>2, <1>3, <1>4 DEF Next, Reply

(* A refusal, of whatever kind, has no effect on the mapping.              *)
THEOREM RefusalHarmless == Spec => RefusedChangesNothing
<1>1. [Next]_vars => [HarmlessRefusal]_vars
  <2> SUFFICES ASSUME [Next]_vars, Serving,
                      rsp'.kind \in {"none", "error", "exception"}
               PROVE  UNCHANGED tables
    BY DEF HarmlessRefusal
  <2> USE DEF Refuse, Echo, Data, Answer
  <2>1. CASE WriteBit
    BY <2>1 DEF WriteBit
  <2>2. CASE WriteRegister
    BY <2>2 DEF WriteRegister
  <2>3. CASE WriteBits
    BY <2>3 DEF WriteBits
  <2>4. CASE WriteRegisters
    BY <2>4 DEF WriteRegisters
  <2>5. CASE WriteAndRead
    BY <2>5 DEF WriteAndRead
  <2>6. QED
    BY <2>1, <2>2, <2>3, <2>4, <2>5, ServingSteps, ReadKeeps DEF tables
<1>2. QED
  BY <1>1, PTL DEF Spec, RefusedChangesNothing

(* Only the cells a request names change, whatever values follow the frame *)
(* in the buffer.                                                          *)
THEOREM WritesStayAddressed == Spec => WritesAddressedOnly
<1>1. TypeOK /\ [Next]_vars => [AddressedOnly]_vars
  <2> SUFFICES ASSUME TypeOK, [Next]_vars, Serving
               PROVE  AddressedOnly
    BY DEF AddressedOnly
  <2>1. /\ bits \in [0..(NbBits - 1) -> Bits]
        /\ registers \in [0..(NbRegisters - 1) -> Values]
        /\ 0..(NbBits - 1) \in SUBSET Int /\ 0..(NbRegisters - 1) \in SUBSET Int
    BY SizesAssumption DEF TypeOK
  <2> DEFINE Only(tab, tabNext, written) ==
               \A i \in DOMAIN tab : tabNext[i] # tab[i] => i \in written
  <2>2. ASSUME NEW first, NEW nb, NEW data, NEW behind
        PROVE  /\ Only(bits, SetBitsFromBytes(bits, first, nb, data), Addresses(first, nb))
               /\ Only(registers, Stored(registers, first, nb, data, behind),
                       Addresses(first, nb))
    BY DEF Stored, SetBitsFromBytes, Addresses
  <2>3. CASE WriteBit
    <3>1. req.fn = FC_WRITE_SINGLE_COIL
      BY <2>3 DEF WriteBit, Serve
    <3>2. BitsWritten(req) = {req.address}
      BY <3>1 DEF BitsWritten, FC_WRITE_SINGLE_COIL, FC_WRITE_MULTIPLE_COILS
    <3>3. Only(bits, bits', {req.address}) /\ UNCHANGED <<inputBits, registers, inputRegisters>>
      BY <2>1, <2>3 DEF WriteBit, Refuse, tables
    <3>4. QED
      BY <3>2, <3>3 DEF AddressedOnly
  <2>4. CASE WriteRegister
    <3>1. req.fn = FC_WRITE_SINGLE_REGISTER
      BY <2>4 DEF WriteRegister, Serve
    <3>2. RegistersWritten(req) = {req.address}
      BY <3>1 DEF RegistersWritten, FC_WRITE_SINGLE_REGISTER, FC_WRITE_MULTIPLE_REGISTERS,
                  FC_WRITE_AND_READ_REGISTERS
    <3>3. Only(registers, registers', {req.address}) /\ UNCHANGED <<bits, inputBits, inputRegisters>>
      BY <2>1, <2>4 DEF WriteRegister, Refuse, tables
    <3>4. QED
      BY <3>2, <3>3 DEF AddressedOnly
  <2>5. CASE WriteBits
    <3>1. req.fn = FC_WRITE_MULTIPLE_COILS
      BY <2>5 DEF WriteBits, Serve
    <3>2. BitsWritten(req) = Addresses(req.address, req.nb)
      BY <3>1 DEF BitsWritten, FC_WRITE_SINGLE_COIL, FC_WRITE_MULTIPLE_COILS
    <3>3. \/ UNCHANGED <<bits, inputBits, registers, inputRegisters>>
          \/ /\ \E bytes : bits' = SetBitsFromBytes(bits, req.address, req.nb, bytes)
             /\ UNCHANGED <<inputBits, registers, inputRegisters>>
      BY <2>5 DEF WriteBits, Refuse, tables
    <3>4. Only(bits, bits', Addresses(req.address, req.nb))
      BY <2>2, <3>3
    <3>5. QED
      BY <3>2, <3>3, <3>4 DEF AddressedOnly
  <2>6. CASE WriteRegisters
    <3>1. req.fn = FC_WRITE_MULTIPLE_REGISTERS
      BY <2>6 DEF WriteRegisters, Serve
    <3>2. RegistersWritten(req) = Addresses(req.address, req.nb)
      BY <3>1 DEF RegistersWritten, FC_WRITE_SINGLE_REGISTER, FC_WRITE_MULTIPLE_REGISTERS,
                  FC_WRITE_AND_READ_REGISTERS
    <3>3. \/ UNCHANGED <<bits, inputBits, registers, inputRegisters>>
          \/ /\ \E behind : registers' = Stored(registers, req.address, req.nb, req.data, behind)
             /\ UNCHANGED <<bits, inputBits, inputRegisters>>
      BY <2>6 DEF WriteRegisters, Refuse, tables
    <3>4. Only(registers, registers', Addresses(req.address, req.nb))
      BY <2>2, <3>3
    <3>5. QED
      BY <3>2, <3>3, <3>4 DEF AddressedOnly
  <2>7. CASE WriteAndRead
    <3>1. req.fn = FC_WRITE_AND_READ_REGISTERS
      BY <2>7 DEF WriteAndRead, Serve
    <3>2. RegistersWritten(req) = Addresses(req.addressWrite, req.nbWrite)
      BY <3>1 DEF RegistersWritten, FC_WRITE_SINGLE_REGISTER, FC_WRITE_MULTIPLE_REGISTERS,
                  FC_WRITE_AND_READ_REGISTERS
    <3>3. \/ UNCHANGED <<bits, inputBits, registers, inputRegisters>>
          \/ /\ registers' = Stored(registers, req.addressWrite, req.nbWrite, req.data, req.data)
             /\ UNCHANGED <<bits, inputBits, inputRegisters>>
      BY <2>7 DEF WriteAndRead, Refuse, tables
    <3>4. Only(registers, registers', Addresses(req.addressWrite, req.nbWrite))
      BY <2>2, <3>3
    <3>5. QED
      BY <3>2, <3>3, <3>4 DEF AddressedOnly
  <2>8. QED
    BY <2>3, <2>4, <2>5, <2>6, <2>7, ServingSteps, ReadKeeps DEF AddressedOnly
<1>2. QED
  BY <1>1, TypeCorrect, PTL DEF Spec, WritesAddressedOnly

-----------------------------------------------------------------------------
(* A position is its byte times the size of a byte, plus its bit.          *)
LEMMA Division ==
  ASSUME NEW a \in Nat, NEW b \in Nat \ {0}
  PROVE  /\ a \div b \in Nat /\ a % b \in 0..(b - 1)
         /\ a = b * (a \div b) + (a % b)
<1>0. a \in Int /\ b \in Int /\ b > 0
  OBVIOUS
<1>1. a \div b \in Int /\ a % b \in 0..(b - 1)
  OBVIOUS
<1>2. a = b * (a \div b) + (a % b)
  BY <1>0
<1>3. a \div b >= 0
  <2>1. CASE a \div b <= -1
    <3>1. b * (a \div b) <= -b
      BY <1>1, <2>1
    <3>2. QED
      BY <1>1, <1>2, <3>1
  <2>2. QED
    BY <1>1, <2>1
<1>4. QED
  BY <1>1, <1>2, <1>3

(* More bytes hold more bits.                                              *)
LEMMA Product ==
  ASSUME NEW b \in Nat \ {0}, NEW k \in Nat, NEW q \in Nat, k >= q + 1
  PROVE  b * k >= b * q + b
<1>1. b * k = b * q + b * (k - q)
  OBVIOUS
<1>2. b * (k - q) >= b
  OBVIOUS
<1>3. QED
  BY <1>1, <1>2

(* Every bit has its byte in a frame for nb of them.                       *)
LEMMA ByteOfBit ==
  ASSUME NEW nb \in Nat, NEW p \in 1..nb
  PROVE  /\ BytesFor(nb) \in Nat
         /\ (p - 1) \div BitsPerByte + 1 \in 1..BytesFor(nb)
         /\ (p - 1) % BitsPerByte \in Positions
         /\ ((p - 1) \div BitsPerByte) * BitsPerByte + ((p - 1) % BitsPerByte) = p - 1
<1> DEFINE B == BitsPerByte
           q == (p - 1) \div B
           m == (p - 1) % B
           k == nb \div B
           r == nb % B
<1>1. B \in Nat \ {0} /\ p - 1 \in Nat
  BY BitsPerByteAssumption
<1>2. q \in Nat /\ m \in 0..(B - 1) /\ p - 1 = B * q + m
  BY <1>1, Division
<1>3. k \in Nat /\ r \in 0..(B - 1) /\ nb = B * k + r
  BY <1>1, Division
<1>4. q * B = B * q
  BY <1>1, <1>2
<1>5. q * B + m = p - 1
  BY <1>2, <1>4
<1>6. m \in Positions
  BY <1>2 DEF Positions
<1> SUFFICES q + 1 \in 1..BytesFor(nb) /\ BytesFor(nb) \in Nat
  BY <1>5, <1>6
<1> HIDE DEF B, q, m, k, r
<1>7. CASE q >= k + 1
  <2>1. B * q >= B * k + B
    BY <1>1, <1>2, <1>3, <1>7, Product
  <2>2. B * q \in Int /\ B * k \in Int
    BY <1>1, <1>2, <1>3
  <2>3. p - 1 < nb /\ p \in Int
    OBVIOUS
  <2>4. FALSE
    BY <1>1, <1>2, <1>3, <2>1, <2>2, <2>3
  <2>5. QED
    BY <2>4
<1>8. CASE q <= k
  <2>1. CASE r # 0
    <3>1. BytesFor(nb) = k + 1
      BY <2>1 DEF BytesFor, k, r, B
    <3>2. QED
      BY <1>2, <1>3, <1>8, <3>1
  <2>2. CASE r = 0
    <3>1. BytesFor(nb) = k
      BY <1>3, <2>2 DEF BytesFor, k, r, B
    <3>2. q # k
      BY <1>1, <1>2, <1>3, <2>2
    <3>3. q + 1 <= k
      BY <1>2, <1>3, <1>8, <3>2
    <3>4. QED
      BY <1>2, <1>3, <3>1, <3>3
  <2>3. QED
    BY <2>1, <2>2
<1>9. QED
  BY <1>2, <1>3, <1>7, <1>8

(* modbus_write_bits puts bit p at its place in its byte.                  *)
LEMMA PackedBit ==
  ASSUME NEW nb \in Nat, NEW src \in [1..nb -> Bits], NEW p \in 1..nb
  PROVE  BitOf(WriteBytes(src, nb)[(p - 1) \div BitsPerByte + 1], (p - 1) % BitsPerByte) = src[p]
<1> DEFINE k == (p - 1) \div BitsPerByte + 1
           m == (p - 1) % BitsPerByte
           pos(j, bit) == (j - 1) * BitsPerByte + bit + 1
<1>1. k \in 1..BytesFor(nb) /\ m \in Positions
  BY ByteOfBit
<1>2. pos(k, m) = p
  <2>1. ((p - 1) \div BitsPerByte) * BitsPerByte + m = p - 1
    BY ByteOfBit
  <2>2. (p - 1) \div BitsPerByte \in Int /\ k - 1 = (p - 1) \div BitsPerByte
    BY BitsPerByteAssumption
  <2>3. (k - 1) * BitsPerByte + m = p - 1
    BY <2>1, <2>2
  <2>4. (k - 1) * BitsPerByte \in Int /\ m \in Int
    BY <1>1, <2>2, BitsPerByteAssumption DEF Positions
  <2>5. QED
    BY <2>3, <2>4
<1>3. WriteBytes(src, nb)[k] =
        {bit \in Positions : pos(k, bit) <= nb /\ src[pos(k, bit)] # 0}
  BY <1>1 DEF WriteBytes
<1>4. m \in WriteBytes(src, nb)[k] <=> src[p] # 0
  <2>1. m \in WriteBytes(src, nb)[k] <=> pos(k, m) <= nb /\ src[pos(k, m)] # 0
    BY <1>1, <1>3
  <2>2. QED
    BY <1>2, <2>1
<1>5. src[p] \in {0, 1}
  BY DEF Bits
<1>6. QED
  BY <1>4, <1>5 DEF BitOf

(* The bytes a client packs are as many as the quantity needs.             *)
LEMMA PackedBytes ==
  ASSUME NEW nb \in Nat, NEW src
  PROVE  /\ BytesFor(nb) \in Nat
         /\ WriteBytes(src, nb) \in Seq(Byte)
         /\ Len(WriteBytes(src, nb)) = BytesFor(nb)
<1>1. BytesFor(nb) \in Nat
  <2>1. nb \div BitsPerByte \in Nat
    BY BitsPerByteAssumption, Division
  <2>2. QED
    BY <2>1 DEF BytesFor
<1>2. WriteBytes(src, nb) \in [1..BytesFor(nb) -> Byte]
  BY DEF WriteBytes, Byte
<1>3. QED
  BY <1>1, <1>2

(* The server stores a packed bit in its cell, whatever bytes are behind   *)
(* those of the frame.                                                     *)
LEMMA PackedIsStored ==
  ASSUME NEW size \in Nat, NEW table \in [0..(size - 1) -> Bits],
         NEW index \in Nat, NEW nb \in Nat, Fits(index, nb, size),
         NEW src \in [1..nb -> Bits], NEW behind \in Seq(Byte), NEW p \in 1..nb
  PROVE  SetBitsFromBytes(table, index, nb, WriteBytes(src, nb) \o behind)[index + p - 1] = src[p]
<1> DEFINE bytes == WriteBytes(src, nb) \o behind
           i == index + p - 1
           k == (p - 1) \div BitsPerByte + 1
<1>1. i \in 0..(size - 1) /\ i \in index..(index + nb - 1) /\ i - index = p - 1
  BY DEF Fits
<1>2. bytes[k] = WriteBytes(src, nb)[k]
  <2>1. k \in 1..BytesFor(nb) /\ BytesFor(nb) \in Nat
    BY ByteOfBit
  <2>2. WriteBytes(src, nb) \in Seq(Byte) /\ Len(WriteBytes(src, nb)) = BytesFor(nb)
    BY PackedBytes
  <2> HIDE DEF k
  <2>3. QED
    BY <2>1, <2>2, ConcatProperties
<1>3. SetBitsFromBytes(table, index, nb, bytes)[i] = BitOf(bytes[k], (p - 1) % BitsPerByte)
  BY <1>1 DEF SetBitsFromBytes
<1>4. QED
  BY <1>2, <1>3, PackedBit

(* A register of the frame is in its cell after a store.                   *)
LEMMA StoredRegister ==
  ASSUME TypeOK, NEW first \in Nat, NEW nb \in Nat, NEW data \in Seq(Values), NEW behind,
         Fits(first, nb, NbRegisters), NEW p \in 1..Len(data), p <= nb
  PROVE  Stored(registers, first, nb, data, behind)[first + p - 1] = data[p]
<1>1. Len(data) \in Nat /\ NbRegisters \in Nat /\ DOMAIN registers = 0..(NbRegisters - 1)
  BY SizesAssumption, LenProperties DEF TypeOK
<1>2. p \in 1..nb /\ p \in Int /\ p <= Len(data)
  BY <1>1
<1> DEFINE i == first + p - 1
<1>3. i \in 0..(NbRegisters - 1) /\ i \in Addresses(first, nb) /\ i - first + 1 = p
  BY <1>1, <1>2 DEF Fits, Addresses
<1> HIDE DEF i
<1>4. Stored(registers, first, nb, data, behind)[i] =
        IF i \in Addresses(first, nb)
        THEN IF i - first + 1 <= Len(data) THEN data[i - first + 1] ELSE behind[i - first + 1]
        ELSE registers[i]
  BY <1>1, <1>3 DEF Stored
<1>5. Stored(registers, first, nb, data, behind)[i] = data[p]
  BY <1>2, <1>3, <1>4
<1>6. QED
  BY <1>5 DEF i

(* Which step acknowledged a write of several cells.                       *)
LEMMA FunctionOfServe ==
  ASSUME [Next]_vars, Serving, rsp'.kind \in {"echo", "data"}
  PROVE  /\ req.fn = FC_WRITE_MULTIPLE_COILS => WriteBits
         /\ req.fn = FC_WRITE_MULTIPLE_REGISTERS => WriteRegisters
         /\ req.fn = FC_WRITE_AND_READ_REGISTERS => WriteAndRead
<1> USE DEF Serve
<1>1. ~IllegalFunction /\ ~ReadExceptionStatus /\ ~Filtered
  BY DEF IllegalFunction, Refuse, ReadExceptionStatus, Filtered, NoAnswer, Answer
<1>2. ASSUME NEW code \in Codes PROVE ~ReplyException(code)
  BY DEF ReplyException, Answer
<1>3. /\ ReadBits => req.fn = FC_READ_COILS
      /\ ReadInputBits => req.fn = FC_READ_DISCRETE_INPUTS
      /\ ReadRegisters => req.fn = FC_READ_HOLDING_REGISTERS
      /\ ReadInputRegisters => req.fn = FC_READ_INPUT_REGISTERS
  BY DEF ReadBits, ReadInputBits, ReadRegisters, ReadInputRegisters, ReadTable
<1>4. /\ WriteBit => req.fn = FC_WRITE_SINGLE_COIL
      /\ WriteRegister => req.fn = FC_WRITE_SINGLE_REGISTER
      /\ WriteBits => req.fn = FC_WRITE_MULTIPLE_COILS
      /\ WriteRegisters => req.fn = FC_WRITE_MULTIPLE_REGISTERS
      /\ WriteAndRead => req.fn = FC_WRITE_AND_READ_REGISTERS
      /\ ReportSlaveId => req.fn = FC_REPORT_SLAVE_ID
  BY DEF WriteBit, WriteRegister, WriteBits, WriteRegisters, WriteAndRead, ReportSlaveId
<1>5. QED
  BY <1>1, <1>2, <1>3, <1>4, ServingSteps
     DEF FC_READ_COILS, FC_READ_DISCRETE_INPUTS, FC_READ_HOLDING_REGISTERS,
         FC_READ_INPUT_REGISTERS, FC_WRITE_SINGLE_COIL, FC_WRITE_SINGLE_REGISTER,
         FC_WRITE_MULTIPLE_COILS, FC_WRITE_MULTIPLE_REGISTERS, FC_WRITE_AND_READ_REGISTERS,
         FC_REPORT_SLAVE_ID

(* An acknowledgement means that the whole write is in the tables: each    *)
(* bit the client packed, and each register the frame carries.             *)
THEOREM AcknowledgedTakesEffect == Spec => AcknowledgedIsStored
<1>1. TypeOK /\ [Next]_vars => [WholeWrite]_vars
  <2> SUFFICES ASSUME TypeOK, [Next]_vars, Serving, rsp'.kind \in {"echo", "data"}
               PROVE  WholeWrite
    BY DEF WholeWrite
  <2> USE DEF FC_WRITE_MULTIPLE_COILS, FC_WRITE_MULTIPLE_REGISTERS, FC_WRITE_AND_READ_REGISTERS
  <2>1. /\ bits \in [0..(NbBits - 1) -> Bits]
        /\ registers \in [0..(NbRegisters - 1) -> Values]
        /\ 0..(NbBits - 1) \in SUBSET Int /\ 0..(NbRegisters - 1) \in SUBSET Int
        /\ NbBits \in Nat /\ NbRegisters \in Nat
    BY SizesAssumption DEF TypeOK
  <2>2. ASSUME req.fn = FC_WRITE_MULTIPLE_COILS,
               NEW src \in [1..req.nb -> Bits], WriteBytes(src, req.nb) = req.bytes,
               NEW p \in 1..req.nb
        PROVE  bits'[req.address + p - 1] = src[p]
    <3>1. req.address \in Nat /\ req.nb \in Nat
      BY <2>2, IndicatedRequest DEF Request
    <3>2. WriteBits
      BY <2>2, FunctionOfServe
    <3>3. ~Refuse(ILLEGAL_DATA_VALUE) /\ ~Refuse(ILLEGAL_DATA_ADDRESS)
      BY DEF Refuse, Answer
    <3>4. Fits(req.address, req.nb, NbBits)
      BY <3>2, <3>3 DEF WriteBits
    <3>5. PICK behind \in [1..BytesFor(req.nb) -> Byte] :
            bits' = SetBitsFromBytes(bits, req.address, req.nb, req.bytes \o behind)
      BY <3>2, <3>3 DEF WriteBits
    <3>6. behind \in Seq(Byte)
      <4>1. BytesFor(req.nb) \in Nat
        BY <3>1, PackedBytes
      <4>2. QED
        BY <4>1
    <3>7. SetBitsFromBytes(bits, req.address, req.nb, WriteBytes(src, req.nb) \o behind)
            [req.address + p - 1] = src[p]
      <4>1. PICK index, nb : index = req.address /\ nb = req.nb
        OBVIOUS
      <4>2. /\ NbBits \in Nat /\ bits \in [0..(NbBits - 1) -> Bits]
            /\ index \in Nat /\ nb \in Nat /\ Fits(index, nb, NbBits)
            /\ src \in [1..nb -> Bits] /\ p \in 1..nb
        BY <2>1, <2>2, <3>1, <3>4, <4>1
      <4>3. SetBitsFromBytes(bits, index, nb, WriteBytes(src, nb) \o behind)[index + p - 1] = src[p]
        BY <3>6, <4>2, PackedIsStored
      <4>4. QED
        BY <4>1, <4>3
    <3>8. QED
      BY <2>2, <3>5, <3>7
  <2>3. ASSUME req.fn = FC_WRITE_MULTIPLE_REGISTERS, NEW p \in 1..Len(req.data), p <= req.nb
        PROVE  registers'[req.address + p - 1] = req.data[p]
    <3>1. req.address \in Nat /\ req.nb \in Nat /\ req.data \in Seq(Values)
      BY <2>3, IndicatedRequest DEF Request
    <3>2. WriteRegisters
      BY <2>3, FunctionOfServe
    <3>3. ~Refuse(ILLEGAL_DATA_VALUE) /\ ~Refuse(ILLEGAL_DATA_ADDRESS)
      BY DEF Refuse, Answer
    <3>4. Fits(req.address, req.nb, NbRegisters)
      BY <3>2, <3>3 DEF WriteRegisters
    <3>5. PICK behind : registers' = Stored(registers, req.address, req.nb, req.data, behind)
      BY <3>2, <3>3 DEF WriteRegisters
    <3>6. Stored(registers, req.address, req.nb, req.data, behind)[req.address + p - 1]
            = req.data[p]
      BY <2>3, <3>1, <3>4, StoredRegister
    <3>7. QED
      BY <3>5, <3>6
  <2>4. ASSUME req.fn = FC_WRITE_AND_READ_REGISTERS, NEW p \in 1..Len(req.data)
        PROVE  registers'[req.addressWrite + p - 1] = req.data[p]
    <3>1. /\ req.addressWrite \in Nat /\ req.nbWrite \in Nat /\ req.data \in Seq(Values)
          /\ req.nbWriteBytes = 2 * Len(req.data)
      <4>1. req \in Requests /\ req \in Request
        BY <2>4, IndicatedRequest
      <4>2. req.nbWriteBytes = 2 * Len(req.data)
        BY <2>4, <4>1, RequestsAssumption
      <4>3. QED
        BY <4>1, <4>2 DEF Request
    <3>2. WriteAndRead
      BY <2>4, FunctionOfServe
    <3>3. ~Refuse(ILLEGAL_DATA_VALUE) /\ ~Refuse(ILLEGAL_DATA_ADDRESS)
      BY DEF Refuse, Answer
    <3>4. ~IllegalReadWrite(req) /\ Fits(req.addressWrite, req.nbWrite, NbRegisters)
      BY <3>2, <3>3 DEF WriteAndRead
    <3>5. registers' = Stored(registers, req.addressWrite, req.nbWrite, req.data, req.data)
      BY <3>2, <3>3 DEF WriteAndRead
    <3>6. p <= req.nbWrite
      BY <3>1, <3>4, LenProperties DEF IllegalReadWrite
    <3>7. Stored(registers, req.addressWrite, req.nbWrite, req.data, req.data)
            [req.addressWrite + p - 1] = req.data[p]
      BY <2>4, <3>1, <3>4, <3>6, StoredRegister
    <3>8. QED
      BY <3>5, <3>7
  <2>5. QED
    BY <2>2, <2>3, <2>4 DEF WholeWrite
<1>2. QED
  BY <1>1, TypeCorrect, PTL DEF Spec, AcknowledgedIsStored

-----------------------------------------------------------------------------
(* The two conversions an application uses around a table.                 *)

(* modbus_set_bits_from_byte and modbus_get_byte_from_bits: a byte set     *)
(* anywhere in a table of bits is got back as that byte, and nothing else  *)
(* of the table changes.                                                   *)
THEOREM ByteRoundTrip ==
  ASSUME NEW D \in SUBSET Int, NEW dest \in [D -> Bits], NEW index \in Int, NEW value \in Byte,
         \A i \in Positions : index + i \in D
  PROVE  /\ ByteFromBits(SetBitsFromByte(dest, index, value), index, BitsPerByte) = value
         /\ \A i \in D : i \notin index..(index + BitsPerByte - 1) =>
              SetBitsFromByte(dest, index, value)[i] = dest[i]
<1> DEFINE set == SetBitsFromByte(dest, index, value)
<1>1. ASSUME NEW i \in Positions
      PROVE  set[index + i] = BitOf(value, i) /\ i < BitsPerByte
  <2>1. i \in Int /\ 0 <= i /\ i <= BitsPerByte - 1 /\ BitsPerByte \in Nat
    BY BitsPerByteAssumption DEF Positions
  <2>2. index + i \in index..(index + BitsPerByte - 1) /\ index + i - index = i
    BY <2>1
  <2>3. QED
    BY <2>1, <2>2 DEF SetBitsFromByte
<1>2. \A i \in Positions : set[index + i] # 0 <=> i \in value
  BY <1>1 DEF BitOf
<1>3. \A i \in D : i \notin index..(index + BitsPerByte - 1) => set[i] = dest[i]
  BY DEF SetBitsFromByte
<1> HIDE DEF set
<1>4. ByteFromBits(set, index, BitsPerByte) = {i \in Positions : i \in value}
  BY <1>1, <1>2 DEF ByteFromBits
<1>5. value \subseteq Positions
  BY DEF Byte
<1>6. QED
  BY <1>3, <1>4, <1>5 DEF set

(* A number split into two halves of base w, each of which is a digit.     *)
LEMMA Halves ==
  ASSUME NEW w \in Nat \ {0}, NEW f \in Nat
  PROVE  /\ f = (f \div w) * w + (f % w) /\ f % w \in 0..(w - 1)
         /\ f < w * w => f \div w \in 0..(w - 1)
<1>1. f = (f \div w) * w + (f % w) /\ f % w \in 0..(w - 1)
  OBVIOUS
<1>2. f < w * w => (f \div w) < w /\ 0 <= (f \div w)
  OBVIOUS
<1>3. QED
  BY <1>1, <1>2

(* modbus_set_float and modbus_get_float: the 32 bits of a float set into  *)
(* two registers fit into 16 bits each, and are got back.                  *)
THEOREM FloatRoundTrip ==
  ASSUME NEW f \in Nat, f < RegisterRange * RegisterRange
  PROVE  /\ GetFloat(SetFloat(f)) = f
         /\ SetFloat(f)[1] \in 0..(RegisterRange - 1) /\ SetFloat(f)[2] \in 0..(RegisterRange - 1)
<1> DEFINE w == RegisterRange
           low == f % w
           high == f \div w
<1>1. w \in Nat \ {0}
  BY DEF RegisterRange
<1>2. SetFloat(f) = <<low, high>>
  BY DEF SetFloat
<1> HIDE DEF w
<1>3. f = high * w + low /\ low \in 0..(w - 1) /\ high \in 0..(w - 1)
  BY <1>1, Halves DEF w
<1> HIDE DEF low, high
<1>4. <<low, high>>[1] = low /\ <<low, high>>[2] = high
  OBVIOUS
<1>5. GetFloat(<<low, high>>) = high * w + low
  BY <1>4 DEF GetFloat, w
<1>6. QED
  BY <1>2, <1>3, <1>4, <1>5 DEF w
-----------------------------------------------------------------------------
(* The answer to a read of bits.                                           *)

(* Every set of numbers has a least one: what a recursive definition gives *)
(* is shown by looking at the first argument where it would not.           *)
LEMMA Least ==
  ASSUME NEW T \in SUBSET Nat, T # {}
  PROVE  \E m \in T : \A n \in T : m <= n
<1> DEFINE R == OpToRel(<, Nat)
<1>1. IsWellFoundedOn(R, Nat)
  BY NatLessThanWellFounded
<1>2. R = {ss \in Nat \X Nat : ss[1] < ss[2]}
  BY DEF OpToRel
<1> HIDE DEF R
<1>3. PICK m \in T : \A n \in T : ~(<<n, m>> \in R)
  BY <1>1, WFMin
<1>4. ASSUME NEW n \in T
      PROVE  m <= n
  <2>1. n \in Nat /\ m \in Nat /\ ~(<<n, m>> \in R)
    BY <1>3
  <2>2. ~(n < m)
    BY <1>2, <2>1
  <2>3. QED
    BY <2>1, <2>2
<1>5. QED
  BY <1>4

LEMMA DivisionOf ==
  ASSUME NEW b \in Nat \ {0}, NEW q \in Nat, NEW r \in 0..(b - 1)
  PROVE  b * q + r \in Nat /\ (b * q + r) \div b = q /\ (b * q + r) % b = r
<1> DEFINE a == b * q + r  k == a \div b  m == a % b
<1>0. b * q \in Nat
  OBVIOUS
<1>1. a \in Nat
  BY <1>0
<1>2. k \in Nat /\ m \in 0..(b - 1) /\ a = b * k + m
  BY <1>1, Division
<1>3. b * k \in Nat
  BY <1>2
<1>4. a = b * q + r
  OBVIOUS
<1> HIDE DEF a, k, m
<1>5. ~(k >= q + 1)
  <2>1. SUFFICES ASSUME k >= q + 1 PROVE FALSE
    OBVIOUS
  <2>2. b * k >= b * q + b
    BY <1>2, <2>1, Product
  <2>3. QED
    BY <1>0, <1>2, <1>3, <1>4, <2>2
<1>6. ~(q >= k + 1)
  <2>1. SUFFICES ASSUME q >= k + 1 PROVE FALSE
    OBVIOUS
  <2>2. b * q >= b * k + b
    BY <1>2, <2>1, Product
  <2>3. QED
    BY <1>0, <1>2, <1>3, <1>4, <2>2
<1>7. k = q
  BY <1>2, <1>5, <1>6
<1>8. m = r
  BY <1>0, <1>2, <1>4, <1>7
<1>9. QED
  BY <1>1, <1>7, <1>8 DEF a, k, m

(* The k-th byte of an answer, the full bytes, the byte in the making, and *)
(* what response_io_status has made of the first n cells.                  *)
Packed(table, address, k) ==
  {s \in Positions : table[address + (BitsPerByte * (k - 1) + s)] # 0}

FullBytes(table, address, q) == [k \in 1..q |-> Packed(table, address, k)]

Begun(table, address, q, m) ==
  {s \in Positions : s < m /\ table[address + (BitsPerByte * q + s)] # 0}

Filled(table, address, n) ==
  LET q == n \div BitsPerByte
      m == n % BitsPerByte
  IN  [rsp |-> FullBytes(table, address, q), byte |-> Begun(table, address, q, m), shift |-> m]

LEMMA FullBytesType ==
  ASSUME NEW table, NEW address, NEW q \in Nat
  PROVE  /\ FullBytes(table, address, q) \in Seq(Byte)
         /\ Len(FullBytes(table, address, q)) = q
         /\ \A k \in 1..q : FullBytes(table, address, q)[k] = Packed(table, address, k)
<1>1. \A k : Packed(table, address, k) \in Byte
  BY DEF Packed, Byte
<1>2. QED
  BY <1>1 DEF FullBytes

LEMMA FilledAt ==
  ASSUME NEW table, NEW address \in Nat, NEW q \in Nat, NEW m \in 0..(BitsPerByte - 1)
  PROVE  Filled(table, address, BitsPerByte * q + m) =
           [rsp |-> FullBytes(table, address, q), byte |-> Begun(table, address, q, m),
            shift |-> m]
  BY BitsPerByteAssumption, DivisionOf DEF Filled

(* A byte with a further cell at a shift.                                  *)
With(byte, shift, cell) == byte \union (IF cell = 0 THEN {} ELSE {shift})

(* One more cell in the byte in the making.                                *)
LEMMA BegunNext ==
  ASSUME NEW table, NEW address \in Nat, NEW q \in Nat, NEW m \in 0..(BitsPerByte - 1)
  PROVE  With(Begun(table, address, q, m), m, table[address + (BitsPerByte * q + m)])
           = Begun(table, address, q, m + 1)
<1>1. Positions = 0..(BitsPerByte - 1)
  BY DEF Positions
<1>2. \A s \in Positions : s < m + 1 <=> s < m \/ s = m
  BY <1>1, BitsPerByteAssumption
<1>3. QED
  BY <1>1, <1>2 DEF Begun, With

LEMMA BegunWhole ==
  ASSUME NEW table, NEW address \in Nat, NEW q \in Nat
  PROVE  /\ Begun(table, address, q, BitsPerByte) = Packed(table, address, q + 1)
         /\ Begun(table, address, q, 0) = {}
<1>1. \A s \in Positions : s < BitsPerByte /\ ~(s < 0)
  BY BitsPerByteAssumption DEF Positions
<1>2. q + 1 - 1 = q
  OBVIOUS
<1>3. QED
  BY <1>1, <1>2 DEF Begun, Packed

LEMMA FullBytesNext ==
  ASSUME NEW table, NEW address \in Nat, NEW q \in Nat
  PROVE  Append(FullBytes(table, address, q), Packed(table, address, q + 1))
           = FullBytes(table, address, q + 1)
<1> DEFINE a == FullBytes(table, address, q)
           b == FullBytes(table, address, q + 1)
           e == Packed(table, address, q + 1)
<1>1. a \in Seq(Byte) /\ Len(a) = q /\ \A k \in 1..q : a[k] = Packed(table, address, k)
  BY FullBytesType
<1>2. b \in Seq(Byte) /\ Len(b) = q + 1 /\ \A k \in 1..(q + 1) : b[k] = Packed(table, address, k)
  BY FullBytesType, q + 1 \in Nat
<1>3. e \in Byte
  BY DEF Packed, Byte
<1> HIDE DEF a, b
<1>4. /\ Append(a, e) \in Seq(Byte) /\ Len(Append(a, e)) = q + 1
      /\ \A k \in 1..q : Append(a, e)[k] = a[k]
      /\ Append(a, e)[q + 1] = e
  BY <1>1, <1>3, AppendProperties
<1>5. \A k \in 1..(q + 1) : k \in 1..q \/ k = q + 1
  OBVIOUS
<1>6. \A k \in 1..(q + 1) : Append(a, e)[k] = b[k]
  BY <1>1, <1>2, <1>4, <1>5
<1>7. QED
  BY <1>2, <1>4, <1>6, SeqEqual DEF a, b

(* A step of response_io_status on a byte in the making.                   *)
LEMMA FillStep ==
  ASSUME NEW before, NEW cell
  PROVE  /\ before.shift = BitsPerByte - 1 =>
              Fill(before, cell) =
                [rsp |-> Append(before.rsp, With(before.byte, before.shift, cell)),
                 byte |-> {}, shift |-> 0]
         /\ before.shift # BitsPerByte - 1 =>
              Fill(before, cell) =
                [rsp |-> before.rsp, byte |-> With(before.byte, before.shift, cell),
                 shift |-> before.shift + 1]
  BY DEF Fill, With

LEMMA FillNext ==
  ASSUME NEW table, NEW address \in Nat, NEW q \in Nat, NEW m \in 0..(BitsPerByte - 1)
  PROVE  Fill(Filled(table, address, BitsPerByte * q + m),
              table[address + (BitsPerByte * q + m)])
           = Filled(table, address, BitsPerByte * q + m + 1)
<1>1. BitsPerByte \in Nat \ {0} /\ BitsPerByte * q \in Nat
  BY BitsPerByteAssumption
<1>2. PICK n, cell, full, begun, next :
        /\ n = BitsPerByte * q + m
        /\ cell = table[address + n]
        /\ full = FullBytes(table, address, q)
        /\ begun = Begun(table, address, q, m)
        /\ next = Begun(table, address, q, m + 1)
  OBVIOUS
<1> DEFINE before == Filled(table, address, n)
<1>3. before.rsp = full /\ before.byte = begun /\ before.shift = m
  <2>1. before = [rsp |-> full, byte |-> begun, shift |-> m]
    BY <1>2, FilledAt
  <2>2. QED
    BY <2>1
<1>4. next = With(begun, m, cell)
  BY <1>2, BegunNext
<1>5. CASE m = BitsPerByte - 1
  <2>1. n + 1 = BitsPerByte * (q + 1) + 0
    <3>1. BitsPerByte * (q + 1) = BitsPerByte * q + BitsPerByte
      BY <1>1
    <3>2. QED
      BY <1>1, <1>2, <1>5, <3>1
  <2>2. m + 1 = BitsPerByte
    BY <1>1, <1>5
  <2>3. Append(full, next) = FullBytes(table, address, q + 1)
    BY <1>2, <2>2, BegunWhole, FullBytesNext
  <2>4. /\ Begun(table, address, q + 1, 0) = {}
        /\ q + 1 \in Nat /\ 0 \in 0..(BitsPerByte - 1)
    BY <1>1, BegunWhole
  <2>5. Filled(table, address, BitsPerByte * (q + 1) + 0) =
          [rsp |-> FullBytes(table, address, q + 1), byte |-> {}, shift |-> 0]
    BY <2>4, FilledAt
  <2>6. Filled(table, address, n + 1) = [rsp |-> Append(full, next), byte |-> {}, shift |-> 0]
    BY <2>1, <2>3, <2>5
  <2>7. Fill(before, cell) = [rsp |-> Append(full, next), byte |-> {}, shift |-> 0]
    <3> HIDE DEF before
    <3>1. QED
      BY <1>3, <1>4, <1>5, FillStep
  <2>8. QED
    BY <1>2, <2>6, <2>7
<1>6. CASE m # BitsPerByte - 1
  <2>1. m + 1 \in 0..(BitsPerByte - 1)
    BY <1>1, <1>6
  <2>2. n + 1 = BitsPerByte * q + (m + 1)
    BY <1>1, <1>2
  <2>3. Filled(table, address, n + 1) = [rsp |-> full, byte |-> next, shift |-> m + 1]
    BY <1>2, <2>1, <2>2, FilledAt
  <2>4. Fill(before, cell) = [rsp |-> full, byte |-> next, shift |-> m + 1]
    <3> HIDE DEF before
    <3>1. QED
      BY <1>3, <1>4, <1>6, FillStep
  <2>5. QED
    BY <1>2, <2>3, <2>4
<1>7. QED
  BY <1>5, <1>6

(* response_io_status gives what it should, for every number of bits.      *)
LEMMA FillingIs ==
  ASSUME NEW table, NEW address \in Nat, NEW nb \in Nat
  PROVE  Filling(table, address, nb) = Filled(table, address, nb)
<1> DEFINE start == [rsp |-> <<>>, byte |-> {}, shift |-> 0]
           next(f, n) == Fill(f[n - 1], table[address + n - 1])
           F == CHOOSE fill : fill = [n \in 0..nb |-> IF n = 0 THEN start ELSE next(fill, n)]
           G == [n \in 0..nb |-> Filled(table, address, n)]
<1>1. Filling(table, address, nb) = F[nb]
  BY DEF Filling
<1>2. start = Filled(table, address, 0)
  <2>1. BitsPerByte * 0 + 0 = 0 /\ 0 \in 0..(BitsPerByte - 1)
    BY BitsPerByteAssumption
  <2>2. Filled(table, address, BitsPerByte * 0 + 0) =
          [rsp |-> FullBytes(table, address, 0), byte |-> Begun(table, address, 0, 0), shift |-> 0]
    BY <2>1, FilledAt
  <2>3. FullBytes(table, address, 0) = <<>>
    BY FullBytesType, EmptySeq
  <2>4. QED
    BY <2>1, <2>2, <2>3, BegunWhole
<1>3. ASSUME NEW n \in 1..nb
      PROVE  Fill(Filled(table, address, n - 1), table[address + n - 1]) = Filled(table, address, n)
  <2> DEFINE q == (n - 1) \div BitsPerByte
             m == (n - 1) % BitsPerByte
  <2>1. n - 1 \in Nat
    OBVIOUS
  <2>2. q \in Nat /\ m \in 0..(BitsPerByte - 1) /\ n - 1 = BitsPerByte * q + m
    BY <2>1, BitsPerByteAssumption, Division
  <2> HIDE DEF q, m
  <2>3. Fill(Filled(table, address, BitsPerByte * q + m), table[address + (BitsPerByte * q + m)])
          = Filled(table, address, BitsPerByte * q + m + 1)
    BY <2>2, FillNext
  <2>4. address + (BitsPerByte * q + m) = address + n - 1 /\ BitsPerByte * q + m + 1 = n
    <3> DEFINE x == BitsPerByte * q + m
    <3>1. n - 1 = x
      BY <2>2
    <3> HIDE DEF x
    <3>2. address + x = address + n - 1 /\ x + 1 = n
      BY <3>1
    <3>3. QED
      BY <3>2 DEF x
  <2>5. QED
    BY <2>2, <2>3, <2>4
<1>4. G = [n \in 0..nb |-> IF n = 0 THEN start ELSE next(G, n)]
  <2>1. ASSUME NEW n \in 0..nb
        PROVE  Filled(table, address, n) = IF n = 0 THEN start ELSE next(G, n)
    <3>1. CASE n = 0
      BY <1>2, <3>1
    <3>2. CASE n # 0
      <4>1. n \in 1..nb /\ n - 1 \in 0..nb
        BY <3>2
      <4>2. next(G, n) = Fill(Filled(table, address, n - 1), table[address + n - 1])
        BY <4>1
      <4>3. QED
        BY <1>3, <3>2, <4>1, <4>2
    <3>3. QED
      BY <3>1, <3>2
  <2> HIDE DEF start, next
  <2>2. QED
    BY <2>1
<1>5. F = [n \in 0..nb |-> IF n = 0 THEN start ELSE next(F, n)]
  <2> HIDE DEF G, start
  <2>1. QED
    BY <1>4
<1> HIDE DEF F, start
<1>6. \A n \in 0..nb : F[n] = IF n = 0 THEN start ELSE next(F, n)
  <2> HIDE DEF next
  <2>1. QED
    BY <1>5
<1> DEFINE T == {n \in 0..nb : F[n] # Filled(table, address, n)}
<1>7. T = {}
  <2>1. SUFFICES ASSUME T # {} PROVE FALSE
    OBVIOUS
  <2>2. T \in SUBSET Nat
    OBVIOUS
  <2> HIDE DEF T
  <2>3. PICK m \in T : \A n \in T : m <= n
    BY <2>1, <2>2, Least
  <2>4. m \in 0..nb /\ F[m] # Filled(table, address, m)
    BY DEF T
  <2>5. m # 0
    BY <1>2, <1>6, <2>4
  <2>6. m \in 1..nb /\ m - 1 \in 0..nb /\ m - 1 \notin T
    BY <2>2, <2>3, <2>4, <2>5
  <2>7. F[m - 1] = Filled(table, address, m - 1)
    BY <2>6 DEF T
  <2>8. F[m] = Fill(F[m - 1], table[address + m - 1])
    BY <1>6, <2>4, <2>5
  <2>9. QED
    BY <1>3, <2>4, <2>6, <2>7, <2>8
<1>8. nb \in 0..nb
  OBVIOUS
<1>9. QED
  BY <1>1, <1>7, <1>8

(* The bytes of the answer: as many as the quantity needs, and each cell   *)
(* at its bit.                                                             *)
LEMMA StatusBytes ==
  ASSUME NEW table, NEW address \in Nat, NEW nb \in Nat
  PROVE  /\ Len(IoStatus(table, address, nb)) = BytesFor(nb)
         /\ \A p \in 1..nb :
              BitOf(IoStatus(table, address, nb)[(p - 1) \div BitsPerByte + 1],
                    (p - 1) % BitsPerByte)
                = IF table[address + p - 1] # 0 THEN 1 ELSE 0
<1>1. PICK k, r, full, byte, status :
        /\ k = nb \div BitsPerByte
        /\ r = nb % BitsPerByte
        /\ full = FullBytes(table, address, k)
        /\ byte = Begun(table, address, k, r)
        /\ status = IoStatus(table, address, nb)
  OBVIOUS
<1>2. BitsPerByte \in Nat \ {0}
  BY BitsPerByteAssumption
<1>3. k \in Nat /\ r \in 0..(BitsPerByte - 1) /\ nb = BitsPerByte * k + r
  BY <1>1, <1>2, Division
<1>4. Filling(table, address, nb) = [rsp |-> full, byte |-> byte, shift |-> r]
  BY <1>1, FillingIs DEF Filled
<1>5. status = IF r # 0 THEN Append(full, byte) ELSE full
  BY <1>1, <1>4 DEF IoStatus
<1>6. BytesFor(nb) = k + (IF r # 0 THEN 1 ELSE 0)
  BY <1>1 DEF BytesFor
<1>7. full \in Seq(Byte) /\ Len(full) = k /\ \A j \in 1..k : full[j] = Packed(table, address, j)
  BY <1>1, <1>3, FullBytesType
<1>8. byte \in Byte
  BY <1>1 DEF Begun, Byte
<1>9. /\ Len(Append(full, byte)) = k + 1
      /\ \A j \in 1..k : Append(full, byte)[j] = full[j]
      /\ Append(full, byte)[k + 1] = byte
  BY <1>7, <1>8, AppendProperties
<1>10. Len(status) = BytesFor(nb)
  BY <1>3, <1>5, <1>6, <1>7, <1>9
<1>11. ASSUME NEW p \in 1..nb
       PROVE  BitOf(status[(p - 1) \div BitsPerByte + 1], (p - 1) % BitsPerByte)
                = IF table[address + p - 1] # 0 THEN 1 ELSE 0
  <2>1. PICK q, m : q = (p - 1) \div BitsPerByte /\ m = (p - 1) % BitsPerByte
    OBVIOUS
  <2>2. p - 1 \in Nat
    OBVIOUS
  <2>3. q \in Nat /\ m \in 0..(BitsPerByte - 1) /\ p - 1 = BitsPerByte * q + m
    BY <1>2, <2>1, <2>2, Division
  <2>4. q + 1 \in 1..BytesFor(nb) /\ m \in Positions
    BY <2>1, ByteOfBit
  <2>5. address + p - 1 = address + (BitsPerByte * q + m)
    <3>1. address + p - 1 = address + (p - 1)
      OBVIOUS
    <3>2. QED
      BY <2>3, <3>1
  <2>6. m \in status[q + 1] <=> table[address + (BitsPerByte * q + m)] # 0
    <3>1. CASE q + 1 \in 1..k
      <4>1. status[q + 1] = Packed(table, address, q + 1)
        BY <1>5, <1>7, <1>9, <3>1
      <4>2. status[q + 1] = Begun(table, address, q, BitsPerByte)
        BY <2>3, <4>1, BegunWhole
      <4>3. m < BitsPerByte
        BY <1>2, <2>3
      <4>4. QED
        BY <2>4, <4>2, <4>3 DEF Begun
    <3>2. CASE q + 1 \notin 1..k
      <4>1. r # 0 /\ q = k
        BY <1>3, <1>6, <2>3, <2>4, <3>2
      <4>2. status[q + 1] = Begun(table, address, q, r)
        BY <1>1, <1>5, <1>9, <4>1
      <4>3. m < r
        <5>1. PICK w \in Nat : w = BitsPerByte * q
          BY <1>2, <2>3
        <5>2. p - 1 < nb
          OBVIOUS
        <5>3. p - 1 = w + m /\ nb = w + r
          BY <1>3, <2>3, <4>1, <5>1
        <5>4. QED
          BY <1>2, <1>3, <2>3, <5>2, <5>3
      <4>4. QED
        BY <2>4, <4>2, <4>3 DEF Begun
    <3>3. QED
      BY <3>1, <3>2
  <2>7. QED
    BY <2>1, <2>5, <2>6 DEF BitOf
<1>12. QED
  BY <1>1, <1>10, <1>11

(* A client that asks for nb bits of a table stores exactly the cells.     *)
LEMMA BitsReceived ==
  ASSUME NEW size \in Nat, NEW table \in [0..(size - 1) -> Bits],
         NEW address \in Nat, NEW nb \in Nat, Fits(address, nb, size), NEW values,
         values = IoStatus(table, address, nb)
  PROVE  /\ Len(values) = BytesFor(nb)
         /\ \A p \in 1..nb : ReadDest(values, nb)[p] = table[address + p - 1]
<1>1. Len(values) = BytesFor(nb)
  BY StatusBytes
<1>2. ASSUME NEW p \in 1..nb
      PROVE  ReadDest(values, nb)[p] = table[address + p - 1]
  <2>1. address + p - 1 \in 0..(size - 1)
    BY DEF Fits
  <2>2. table[address + p - 1] \in {0, 1}
    BY <2>1 DEF Bits
  <2>3. ReadDest(values, nb)[p] = IF table[address + p - 1] # 0 THEN 1 ELSE 0
    BY StatusBytes DEF ReadDest
  <2>4. QED
    BY <2>2, <2>3
<1>3. QED
  BY <1>1, <1>2

(* modbus_write_bits, modbus_reply to it, and modbus_read_bits with the    *)
(* answer to that: an array of any number of bits, packed by the client,   *)
(* is stored by the server from the address on, no other cell changes, and *)
(* a read of the same cells unpacks the array again.                       *)
THEOREM BitsRoundTrip ==
  ASSUME NEW size \in Nat, NEW table \in [0..(size - 1) -> Bits],
         NEW index \in Nat, NEW nb \in Nat, Fits(index, nb, size),
         NEW src \in [1..nb -> Bits], NEW behind \in Seq(Byte), NEW stored,
         stored = SetBitsFromBytes(table, index, nb, WriteBytes(src, nb) \o behind)
  PROVE  /\ \A p \in 1..nb : stored[index + p - 1] = src[p]
         /\ \A i \in 0..(size - 1) : i \notin index..(index + nb - 1) => stored[i] = table[i]
         /\ ReadDest(IoStatus(stored, index, nb), nb) = src
<1>1. ASSUME NEW p \in 1..nb
      PROVE  stored[index + p - 1] = src[p]
  <2>1. SetBitsFromBytes(table, index, nb, WriteBytes(src, nb) \o behind)[index + p - 1] = src[p]
    BY PackedIsStored
  <2>2. QED
    BY <2>1
<1>2. \A i \in 0..(size - 1) : i \notin index..(index + nb - 1) => stored[i] = table[i]
  BY DEF SetBitsFromBytes
<1>3. stored \in [0..(size - 1) -> Bits]
  BY DEF SetBitsFromBytes, BitOf, Bits
<1>4. ASSUME NEW p \in 1..nb
      PROVE  ReadDest(IoStatus(stored, index, nb), nb)[p] = src[p]
  <2>1. ReadDest(IoStatus(stored, index, nb), nb)[p] = stored[index + p - 1]
    BY <1>3, BitsReceived
  <2>2. QED
    BY <1>1, <2>1
<1>5. ReadDest(IoStatus(stored, index, nb), nb) = [p \in 1..nb |-> src[p]]
  BY <1>4 DEF ReadDest
<1>6. QED
  BY <1>1, <1>2, <1>5

(* The functions that answer with values, each from its table.             *)
LEMMA ReadSteps ==
  ASSUME [Next]_vars, Serving, rsp'.kind = "data", req.fn # FC_REPORT_SLAVE_ID
  PROVE  \/ ReadBits \/ ReadInputBits \/ ReadRegisters \/ ReadInputRegisters
         \/ WriteAndRead
<1>1. ~IllegalFunction /\ ~ReadExceptionStatus /\ ~Filtered
  BY DEF IllegalFunction, Refuse, ReadExceptionStatus, Filtered, NoAnswer, Answer
<1>2. ASSUME NEW code \in Codes PROVE ~ReplyException(code)
  BY DEF ReplyException, Answer
<1>3. /\ WriteBit => rsp'.kind # "data"
      /\ WriteRegister => rsp'.kind # "data"
      /\ WriteBits => rsp'.kind # "data"
      /\ WriteRegisters => rsp'.kind # "data"
  BY DEF WriteBit, WriteRegister, WriteBits, WriteRegisters, Refuse, Echo, Answer
<1>4. ~ReportSlaveId
  BY DEF ReportSlaveId, Serve
<1>5. QED
  BY <1>1, <1>2, <1>3, <1>4, ServingSteps

(* What an answer with values says of the request.                         *)
LEMMA ReadAnswer ==
  ASSUME NEW fn, NEW size, NEW max, NEW values,
         ReadTable(fn, size, max, values), rsp'.kind = "data"
  PROVE  /\ req.fn = fn /\ Fits(req.address, req.nb, size) /\ rsp'.values = values
         /\ UNCHANGED <<bits, inputBits, registers, inputRegisters, req>>
<1>1. req.fn = fn /\ req' = req
  BY DEF ReadTable, Serve
<1>2. \A code : ~Refuse(code)
  BY DEF Refuse, Answer
<1>3. Fits(req.address, req.nb, size) /\ rsp' = Data(values) /\ UNCHANGED tables
  BY <1>2 DEF ReadTable
<1>4. QED
  BY <1>1, <1>3 DEF Data, Answer, tables

(* Registers are listed from the first address on.                         *)
LEMMA SliceCells ==
  ASSUME NEW table, NEW first, NEW nb \in Nat
  PROVE  /\ Len(Slice(table, first, nb)) = nb
         /\ \A p \in 1..nb : Slice(table, first, nb)[p] = table[first + p - 1]
<1>1. PICK S : \A p \in 1..nb : table[first + p - 1] \in S
  <2>1. \A p \in 1..nb : table[first + p - 1] \in {table[first + q - 1] : q \in 1..nb}
    OBVIOUS
  <2>2. QED
    BY <2>1
<1>2. [p \in 1..nb |-> table[first + p - 1]] \in [1..nb -> S]
  BY <1>1
<1>3. Slice(table, first, nb) \in [1..nb -> S]
  BY <1>2 DEF Slice
<1>4. Len(Slice(table, first, nb)) = nb
  BY <1>3
<1>5. QED
  BY <1>4 DEF Slice

(* The values a client gets are those the mapping holds when the answer is *)
(* sent, the request's own write included: for tables and quantities of    *)
(* any size, the bits of any number of bytes included.                     *)
THEOREM ValuesCurrent == Spec => AnswersCurrentValues
<1>1. TypeOK /\ [Next]_vars => [CurrentValues]_vars
  <2> SUFFICES ASSUME TypeOK, [Next]_vars, Serving, rsp'.kind = "data",
                      req.fn # FC_REPORT_SLAVE_ID
               PROVE  CurrentValues
    BY DEF CurrentValues
  <2> USE DEF FC_READ_COILS, FC_READ_DISCRETE_INPUTS, FC_READ_HOLDING_REGISTERS,
              FC_READ_INPUT_REGISTERS, FC_WRITE_AND_READ_REGISTERS
  <2> DEFINE a == req.address
             nb == req.nb
  <2>1. req.fn # 0 => a \in Nat /\ nb \in Nat
    BY IndicatedRequest DEF Request
  <2>2. /\ NbBits \in Nat /\ bits \in [0..(NbBits - 1) -> Bits]
        /\ NbInputBits \in Nat /\ inputBits \in [0..(NbInputBits - 1) -> Bits]
    BY SizesAssumption DEF TypeOK
  <2>3. ASSUME NEW size \in Nat, NEW table \in [0..(size - 1) -> Bits],
               req.fn \in ReadBitFunctions, Fits(a, nb, size),
               rsp'.values = IoStatus(table, a, nb), TableRead(req)' = table
        PROVE  CurrentValues
    <3>1. a \in Nat /\ nb \in Nat
      BY <2>1, <2>3 DEF ReadBitFunctions
    <3>2. PICK values : values = rsp'.values
      OBVIOUS
    <3> HIDE DEF a, nb
    <3>3. /\ Len(values) = BytesFor(nb)
          /\ \A p \in 1..nb : ReadDest(values, nb)[p] = table[a + p - 1]
      BY <2>3, <3>1, <3>2, BitsReceived
    <3>4. Received(req, rsp'.values) = ReadDest(values, nb)
      BY <2>3, <3>2 DEF Received, nb
    <3>5. QED
      BY <2>3, <3>2, <3>3, <3>4 DEF CurrentValues, a, nb
  <2>4. CASE ReadBits
    <3>1. /\ req.fn = FC_READ_COILS /\ Fits(a, nb, NbBits)
          /\ rsp'.values = IoStatus(bits, a, nb) /\ bits' = bits /\ req' = req
      BY <2>4, ReadAnswer DEF ReadBits
    <3>2. TableRead(req)' = bits
      BY <3>1 DEF TableRead
    <3>3. QED
      BY <2>2, <2>3, <3>1, <3>2 DEF ReadBitFunctions
  <2>5. CASE ReadInputBits
    <3>1. /\ req.fn = FC_READ_DISCRETE_INPUTS /\ Fits(a, nb, NbInputBits)
          /\ rsp'.values = IoStatus(inputBits, a, nb) /\ inputBits' = inputBits /\ req' = req
      BY <2>5, ReadAnswer DEF ReadInputBits
    <3>2. TableRead(req)' = inputBits
      BY <3>1 DEF TableRead
    <3>3. QED
      BY <2>2, <2>3, <3>1, <3>2 DEF ReadBitFunctions
  <2>6. ASSUME NEW table, req.fn \notin ReadBitFunctions, req.fn # 0,
               rsp'.values = Slice(table, a, nb), TableRead(req)' = table
        PROVE  CurrentValues
    <3>1. nb \in Nat
      BY <2>1, <2>6
    <3>2. Received(req, rsp'.values) = rsp'.values
      BY <2>6 DEF Received
    <3>3. QED
      BY <2>6, <3>1, <3>2, SliceCells DEF CurrentValues
  <2>7. CASE ReadRegisters
    <3>1. /\ req.fn = FC_READ_HOLDING_REGISTERS
          /\ rsp'.values = Slice(registers, a, nb) /\ registers' = registers /\ req' = req
      BY <2>7, ReadAnswer DEF ReadRegisters
    <3>2. TableRead(req)' = registers
      BY <3>1 DEF TableRead
    <3>3. QED
      BY <2>6, <3>1, <3>2 DEF ReadBitFunctions
  <2>8. CASE ReadInputRegisters
    <3>1. /\ req.fn = FC_READ_INPUT_REGISTERS
          /\ rsp'.values = Slice(inputRegisters, a, nb) /\ inputRegisters' = inputRegisters
          /\ req' = req
      BY <2>8, ReadAnswer DEF ReadInputRegisters
    <3>2. TableRead(req)' = inputRegisters
      BY <3>1 DEF TableRead
    <3>3. QED
      BY <2>6, <3>1, <3>2 DEF ReadBitFunctions
  <2>9. CASE WriteAndRead
    <3>1. req.fn = FC_WRITE_AND_READ_REGISTERS
      BY <2>9 DEF WriteAndRead, Serve
    <3>2. rsp'.values = Slice(registers', a, nb)
      <4>1. \A code : ~Refuse(code)
        BY DEF Refuse, Answer
      <4>2. rsp' = Data(Slice(registers', a, nb))
        BY <2>9, <4>1 DEF WriteAndRead
      <4>3. QED
        BY <4>2 DEF Data, Answer
    <3>3. TableRead(req)' = registers'
      BY <2>9, <3>1 DEF TableRead, WriteAndRead, Serve
    <3>4. QED
      BY <2>6, <3>1, <3>2, <3>3 DEF ReadBitFunctions
  <2>10. QED
    BY <2>4, <2>5, <2>7, <2>8, <2>9, ReadSteps
<1>2. QED
  BY <1>1, TypeCorrect, PTL DEF Spec, AnswersCurrentValues
=============================================================================
