---------------------------- MODULE MCModbusLink ----------------------------
(* Two contexts for the runs of ModbusLink.                                *)
EXTENDS ModbusLink

CONSTANTS a, b
=============================================================================
