----------------------------- MODULE QtConnection -----------------------------
(***************************************************************************)
(* The device of a Qt client and its TCP connection, as the two programs   *)
(* use the QtSerialBus classes: the state of the device, what is on its    *)
(* way to the server and back.  TCP keeps the order and loses nothing but  *)
(* what is on its way when a side closes.                                  *)
(***************************************************************************)
EXTENDS Integers, Sequences

VARIABLES
  state,     \* of the client's device
  link,      \* its connection: "none", "up", or "cut" by the server
  requests,  \* written and not yet read by the server
  answers    \* written and not yet read by the client

connectionVars == <<state, link, requests, answers>>

States == {"Unconnected", "Connecting", "Connected", "Closing"}

ConnectionTypeOK(Message) ==
  /\ state \in States /\ link \in {"none", "up", "cut"}
  /\ requests \in Seq(Message) /\ answers \in Seq(Message)

ConnectionInit ==
  /\ state = "Unconnected" /\ link = "none" /\ requests = <<>> /\ answers = <<>>

(* The socket is closed from the client's side, or has been.               *)
HangUp(s) == state' = s /\ link' = "none" /\ requests' = <<>> /\ answers' = <<>>

(* connectDevice of an unconnected device: the outcome comes later.        *)
ConnectDevice ==
  /\ state = "Unconnected" /\ state' = "Connecting"
  /\ UNCHANGED <<link, requests, answers>>

(* A connection is made, where somebody listens.                           *)
Established ==
  /\ state = "Connecting" /\ state' = "Connected" /\ link' = "up"
  /\ UNCHANGED <<requests, answers>>

(* What is written to a connection that the server has closed is lost.     *)
Write(message) ==
  /\ requests' = IF link = "up" THEN Append(requests, message) ELSE requests
  /\ UNCHANGED <<state, link, answers>>

(* The server closes; what it has not read is lost.                        *)
Cut ==
  /\ link' = IF link = "up" THEN "cut" ELSE link
  /\ requests' = <<>>
  /\ UNCHANGED <<state, answers>>
=============================================================================
