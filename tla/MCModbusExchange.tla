-------------------------- MODULE MCModbusExchange --------------------------
(* Every quantity of every call the library makes, one past the limits     *)
(* included, on both backends.                                             *)
EXTENDS ModbusExchange

MCBackends == {RTU, TCP}

MCRequests ==
  [fn : ReadBitFunctions, nb : 0..(MAX_READ_BITS + 1), nbWrite : {0}]
    \union [fn : ReadRegFunctions, nb : 0..(MAX_READ_REGISTERS + 1), nbWrite : {0}]
    \union [fn : SingleFunctions \union {FC_REPORT_SLAVE_ID}, nb : {0}, nbWrite : {0}]
    \union {[fn |-> FC_WRITE_MULTIPLE_COILS, nb |-> n, nbWrite |-> n] :
              n \in 0..(MAX_WRITE_BITS + 1)}
    \union {[fn |-> FC_WRITE_MULTIPLE_REGISTERS, nb |-> n, nbWrite |-> n] :
              n \in 0..(MAX_WRITE_REGISTERS + 1)}
    \union [fn : {FC_WRITE_AND_READ_REGISTERS}, nb : 0..(MAX_READ_REGISTERS + 1),
            nbWrite : {0, 1, 2, 60, MAX_RW_WRITE_REGISTERS, MAX_RW_WRITE_REGISTERS + 1}]
=============================================================================
