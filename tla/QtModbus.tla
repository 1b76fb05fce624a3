------------------------------- MODULE QtModbus -------------------------------
(***************************************************************************)
(* The Qt examples together: the slave window serves, over TCP, a client   *)
(* that is the ADU editor or the master window.                            *)
(***************************************************************************)
EXTENDS QtSlave, QtAduEditor, QtMaster

(* A request is for a table, and may write some of its rows: coils or      *)
(* holding registers.                                                      *)
ASSUME PdusAssumption ==
  \A pdu \in Pdus :
    /\ pdu.table \in Tables /\ DOMAIN pdu.cells \subseteq Rows
    /\ \A r \in DOMAIN pdu.cells :
         /\ pdu.table \in {"Coils", "HoldingRegisters"}
         /\ pdu.cells[r] \in (IF pdu.table = "Coils" THEN {0, 1} ELSE Numbers)

VARIABLE client  \* "editor" or "master"

vars == <<client, slaveVars, editorVars, masterVars, connectionVars>>

TypeOK ==
  /\ client \in {"editor", "master"}
  /\ SlaveTypeOK /\ EditorTypeOK /\ MasterTypeOK

Init ==
  /\ client \in {"editor", "master"}
  /\ SlaveInit /\ EditorInit /\ MasterInit

-----------------------------------------------------------------------------
(* The slave.                                                              *)

SlaveActs ==
  \/ SlaveUser /\ UNCHANGED connectionVars
  \/ SlaveCloses /\ Cut

(* The slave reads a request that is meant for its address and answers it. *)
SlaveServes ==
  /\ requests # <<>> /\ Serve(Head(requests).pdu.table, Head(requests).pdu.cells)
  /\ requests' = Tail(requests) /\ answers' = Append(answers, Head(requests))
  /\ UNCHANGED <<state, link>>

(* It is meant for another, or the slave only listens.                     *)
SlaveIgnores ==
  /\ requests # <<>> /\ Listens
  /\ requests' = Tail(requests)
  /\ UNCHANGED <<slaveVars, state, link, answers>>

-----------------------------------------------------------------------------
(* What the connection tells the client.                                   *)

Opened ==
  /\ Listens /\ Established
  /\ IF client = "master"
     THEN Hears("Connected") /\ UNCHANGED <<masterType, selection, editorVars>>
     ELSE UNCHANGED <<masterVars, editorVars>>

Refused ==
  /\ state = "Connecting" /\ ~Listens /\ HangUp("Unconnected")
  /\ IF client = "master"
     THEN Hears("Unconnected") /\ UNCHANGED <<masterType, selection, editorVars>>
     ELSE /\ SetError
          /\ UNCHANGED <<masterVars, connectEnabled, sendEnabled, device, tId, store, crashed>>

(* The end of the connection: an error, and the store is cleaned up.       *)
RemoteClosed ==
  /\ state = "Connected" /\ link = "cut" /\ HangUp("Unconnected")
  /\ IF client = "master"
     THEN Hears("Unconnected") /\ UNCHANGED <<masterType, selection, editorVars>>
     ELSE /\ SetError /\ CleanupTransactionStore
          /\ UNCHANGED <<masterVars, connectEnabled, device, tId, crashed>>

(* An answer finishes the request stored under its identifier, and is      *)
(* dropped if there is none.                                               *)
Answered ==
  /\ answers # <<>> /\ answers' = Tail(answers)
  /\ LET id == Head(answers).id
     IN  IF id \in Pending THEN Take(id) /\ sendEnabled' = TRUE
         ELSE UNCHANGED <<store, sendEnabled>>
  /\ UNCHANGED <<masterVars, connectEnabled, device, tId, errors, crashed,
                 state, link, requests>>

EditorUser ==
  \/ EditorConnect \/ EditorDisconnect \/ ValueChanged \/ SendWithoutDevice \/ SendFails
  \/ \E pdu \in Pdus : Enqueue(pdu)

Network == Opened \/ Refused \/ RemoteClosed \/ Answered

Next ==
  \/ UNCHANGED <<client, editorVars, masterVars>> /\ (SlaveActs \/ SlaveServes \/ SlaveIgnores)
  \/ UNCHANGED <<client, slaveVars>> /\ Network
  \/ UNCHANGED <<client, slaveVars, masterVars>> /\ client = "editor"
       /\ (EditorUser \/ ErrorOccurred \/ \E i \in Ids : Timeout(i))
  \/ UNCHANGED <<client, slaveVars, editorVars>> /\ client = "master" /\ (MasterUser \/ Closed)

Spec == Init /\ [][Next]_vars

(* The event loop of the editor runs: timers fire and queued calls are     *)
(* made.                                                                   *)
FairSpec ==
  /\ Spec
  /\ WF_vars(client = "editor" /\ ErrorOccurred /\ UNCHANGED <<client, slaveVars, masterVars>>)
  /\ \A i \in Ids :
       WF_vars(client = "editor" /\ Timeout(i) /\ UNCHANGED <<client, slaveVars, masterVars>>)

-----------------------------------------------------------------------------
(* A connected device is shown as connected, in the text of the button and *)
(* in both actions, by the slave and by the master.                        *)
ConnectedIsShown == SlaveShown /\ (client = "master" => MasterShown)

(* Send, Connect and Disconnect, a reply, a timeout and an error each      *)
(* switch the Send button: while a request waits for its answer it is      *)
(* disabled, and no second request is pending.                             *)
OneRequest ==
  Pending # {} => ~sendEnabled /\ device = "made" /\ \A i, j \in Pending : i = j

(* Without a device Send would use a null pointer.  It is enabled so only  *)
(* by a disconnect while a request was pending, whose reply finishes after *)
(* interface.ui has disabled Send.                                         *)
SendWithoutDeviceOnlyAfterAbort ==
  [][sendEnabled' /\ device' = "none" =>
       (sendEnabled /\ device = "none") \/ Pending # {}]_vars

(* The answer to an earlier request is taken for that to the present one   *)
(* only if the user sent this under an identifier that was still under way.*)
OwnAnswer ==
  [][\A i \in Pending \ DOMAIN store' :
       answers # <<>> /\ answers' = Tail(answers) /\ state' = state
         => Head(answers).now \/ store[i].reused]_vars

(* While its identifier is left alone, a request is answered, times out or *)
(* fails: Send or Connect is enabled again.  (Changed meanwhile, and its   *)
(* answer lost, it keeps Send disabled until the user disconnects.)        *)
SendComesBack ==
  \A i \in Ids :
    (i \in Pending /\ store[i].timer /\ [](tId = i)) ~> (sendEnabled \/ connectEnabled \/ crashed)
=============================================================================
