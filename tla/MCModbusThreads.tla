--------------------------- MODULE MCModbusThreads ---------------------------
(* Two threads on one context, and a third on its own.                     *)
EXTENDS ModbusThreads, TLC

CONSTANTS t1, t2, t3, ctx1, ctx2

MCShared == (t1 :> ctx1) @@ (t2 :> ctx1)
MCBoth   == (t1 :> ctx1) @@ (t2 :> ctx1) @@ (t3 :> ctx2)
=============================================================================
