--------------------------- MODULE MCModbusServer ---------------------------
(* Requests for the runs of ModbusServer: every function, addresses and    *)
(* quantities on both sides of every limit, frames with fewer values than  *)
(* the quantity announces, the slave itself, another one and broadcast.    *)
EXTENDS ModbusServer

Blank(fn) == [NoRequest EXCEPT !.slave = Slave, !.fn = fn]

MCReads ==
  {[Blank(fn) EXCEPT !.address = a, !.nb = n] :
     fn \in ReadBitFunctions, a \in 0..3, n \in 0..4}
  \union {[Blank(fn) EXCEPT !.address = a, !.nb = n] :
            fn \in ReadRegFunctions, a \in 0..3, n \in 0..3}

MCSingleWrites ==
  {[Blank(FC_WRITE_SINGLE_COIL) EXCEPT !.address = a, !.nb = v] :
     a \in 0..3, v \in {COIL_OFF, 1, COIL_ON}}
  \union {[Blank(FC_WRITE_SINGLE_REGISTER) EXCEPT !.address = a, !.nb = v] :
            a \in 0..3, v \in {0, 1}}

(* Bits of an array, packed by modbus_write_bits; a byte count that is too *)
(* small for the quantity.                                                 *)
MCBitWrites ==
  {[Blank(FC_WRITE_MULTIPLE_COILS) EXCEPT !.address = a, !.nb = n, !.bytes = b] :
     a \in 0..3, n \in 0..4,
     b \in {<<>>} \union {WriteBytes(src, 3) : src \in {<<0, 0, 1>>, <<1, 0, 1>>, <<0, 1, 0>>}}
             \union {WriteBytes(<<1, 0>>, 2)}}

MCRegisterWrites ==
  {[Blank(FC_WRITE_MULTIPLE_REGISTERS) EXCEPT !.address = a, !.nb = n, !.data = d] :
     a \in 0..3, n \in 0..3, d \in {<<>>, <<1>>, <<0, 1>>}}

MCWriteAndReads ==
  {[Blank(FC_WRITE_AND_READ_REGISTERS) EXCEPT
      !.address = a, !.nb = n, !.addressWrite = w, !.nbWrite = m,
      !.nbWriteBytes = 2 * Len(d), !.data = d] :
     a \in {1, 2}, n \in {0, 2, 3}, w \in {0, 2}, m \in 0..3, d \in {<<1>>, <<0, 1>>}}

MCOthers == {Blank(fn) : fn \in {FC_REPORT_SLAVE_ID, FC_READ_EXCEPTION_STATUS, 8, 66}}

MCForeign ==
  {[Blank(FC_WRITE_SINGLE_REGISTER) EXCEPT !.slave = s, !.nb = 1] :
     s \in {MODBUS_BROADCAST_ADDRESS, Slave + 1}}

MCRequests ==
  MCReads \union MCSingleWrites \union MCBitWrites \union MCRegisterWrites
    \union MCWriteAndReads
    \union MCOthers \union MCForeign

MCIdBytes == <<180, 255>>
=============================================================================
