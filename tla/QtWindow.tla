------------------------------- MODULE QtWindow -------------------------------
(***************************************************************************)
(* What the windows of the Qt master and of the Qt slave show of their     *)
(* Modbus device: the text of the connect button and two actions, set by   *)
(* onStateChanged and once more by the click that changes the state.       *)
(***************************************************************************)

Windows == [text: {"Connect", "Disconnect"}, connect: BOOLEAN, disconnect: BOOLEAN]

InitActions == [text |-> "Connect", connect |-> TRUE, disconnect |-> FALSE]

(* The button keeps its text while the device is connecting or closing.    *)
OnStateChanged(w, state) ==
  [text       |-> CASE state = "Unconnected" -> "Connect"
                    [] state = "Connected" -> "Disconnect"
                    [] OTHER -> w.text,
   connect    |-> state = "Unconnected",
   disconnect |-> state # "Unconnected"]

(* The two actions, as a click on the button leaves them.                  *)
Offer(w, connect) == [w EXCEPT !.connect = connect, !.disconnect = ~connect]

ShowsConnected(w) == w.text = "Disconnect" /\ w.disconnect /\ ~w.connect
=============================================================================
