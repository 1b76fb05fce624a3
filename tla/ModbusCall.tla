----------------------------- MODULE ModbusCall -----------------------------
(***************************************************************************)
(* What an application may rely on when it calls modbus_write_... or       *)
(* modbus_read_...: a call has at most one effect on the server; a call    *)
(* that succeeds had exactly one, while it was running; a call answered    *)
(* with an exception has none; only a call that failed otherwise leaves it *)
(* open whether, and when, its effect takes place -- until the next call   *)
(* is made, from where on it is no longer looked at.                       *)
(***************************************************************************)
VARIABLES
  calling,  \* the call has not returned
  effect,   \* how often the latest call took effect on the server
  outcome   \* "none" before the return, then "ok", "exception" or "error"

callVars == <<calling, effect, outcome>>

CallInit == calling = FALSE /\ effect = 0 /\ outcome = "none"

Invoke ==
  /\ ~calling
  /\ calling' = TRUE /\ effect' = 0 /\ outcome' = "none"

TakeEffect ==
  /\ effect = 0
  /\ calling \/ outcome = "error"
  /\ effect' = 1
  /\ UNCHANGED <<calling, outcome>>

ReturnOk ==
  /\ calling /\ effect = 1
  /\ calling' = FALSE /\ outcome' = "ok" /\ UNCHANGED effect

ReturnException ==
  /\ calling /\ effect = 0
  /\ calling' = FALSE /\ outcome' = "exception" /\ UNCHANGED effect

ReturnError ==
  /\ calling
  /\ calling' = FALSE /\ outcome' = "error" /\ UNCHANGED effect

CallNext == Invoke \/ TakeEffect \/ ReturnOk \/ ReturnException \/ ReturnError

CallSpec == CallInit /\ [][CallNext]_callVars
=============================================================================
