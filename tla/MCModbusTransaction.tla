------------------------- MODULE MCModbusTransaction -------------------------
(* Modes for the run of ModbusTransaction: TCP with every combination of   *)
(* the recovery modes, and a serial line with link recovery, where answers *)
(* come before a sleep that follows a timeout ends.                        *)
EXTENDS ModbusTransaction

MCModes ==
  [tcp : {TRUE}, link : BOOLEAN, protocol : BOOLEAN, pace : {"any"}] \union
  [tcp : {FALSE}, link : {TRUE}, protocol : BOOLEAN, pace : {"sleep"}]
=============================================================================
