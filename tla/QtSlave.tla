-------------------------------- MODULE QtSlave --------------------------------
(***************************************************************************)
(* The window of the Qt slave: check boxes and edit lines show the four    *)
(* tables of its device, an edit is written into the device, and what a    *)
(* client writes comes back to the window as dataWritten.  The device is   *)
(* made anew, from the window, each time the type of connection is chosen. *)
(***************************************************************************)
EXTENDS Integers, QtWindow

CONSTANTS
  Tables,   \* the tables, of "Coils", "DiscreteInputs", "InputRegisters", "HoldingRegisters"
  Rows,     \* the addresses of each
  Numbers   \* what a register may hold; 0 and 1 are also the values of a bit

ASSUME SlaveAssumption ==
  /\ Tables \subseteq {"Coils", "DiscreteInputs", "InputRegisters", "HoldingRegisters"}
  /\ Rows \subseteq Nat
  /\ Numbers \subseteq Nat /\ {0, 1} \subseteq Numbers

VARIABLES
  connectType,  \* "Serial" or "Tcp"
  slaveState,   \* of modbusDevice: "Unconnected" or "Connected" after every call
  slaveWindow,
  data,         \* the tables of modbusDevice
  widgets,      \* what the boxes and lines show
  setBusyBox,   \* the box is checked
  deviceBusy    \* the device answers every request with "busy"

slaveVars == <<connectType, slaveState, slaveWindow, data, widgets, setBusyBox, deviceBusy>>

Bits == {"Coils", "DiscreteInputs"}

(* A line may be empty, which toInt reads as 0.                            *)
Empty == -1

Texts(t) == IF t \in Bits THEN {0, 1} ELSE Numbers \union {Empty}
ToInt(text) == IF text = Empty THEN 0 ELSE text

SlaveTypeOK ==
  /\ connectType \in {"Serial", "Tcp"} /\ slaveState \in {"Unconnected", "Connected"}
  /\ slaveWindow \in Windows
  /\ data \in [Tables -> [Rows -> Numbers]]
  /\ widgets \in [Tables -> [Rows -> Numbers \union {Empty}]]
  /\ \A t \in Tables, r \in Rows : widgets[t][r] \in Texts(t)
  /\ setBusyBox \in BOOLEAN /\ deviceBusy \in BOOLEAN

(* setupDeviceData, into a device with tables of zeros.                    *)
SetupDeviceData(w) == [t \in Tables |-> [r \in Rows |-> ToInt(w[t][r])]]

SlaveInit ==
  /\ connectType = "Serial" /\ slaveState = "Unconnected" /\ slaveWindow = InitActions
  /\ widgets = [t \in Tables |-> [r \in Rows |-> IF t \in Bits THEN 0 ELSE Empty]]
  /\ data = SetupDeviceData(widgets)
  /\ setBusyBox = FALSE /\ deviceBusy = FALSE

Listens == connectType = "Tcp" /\ slaveState = "Connected"

-----------------------------------------------------------------------------
(* Faulty variant, for mutation: the loop ends one row early.              *)
UpdateWidgetsShort(w, d, t, rows) ==
  LET shown == {r \in rows : \E row \in rows : r < row}
  IN  [w EXCEPT ![t] = [r \in Rows |-> IF r \in shown THEN d[t][r] ELSE @[r]]]

(* updateWidgets: only the tables a client may write are shown again.      *)
UpdateWidgets(w, d, t, rows) ==
  IF t \in {"Coils", "HoldingRegisters"}
  THEN [w EXCEPT ![t] = [r \in Rows |-> IF r \in rows THEN d[t][r] ELSE @[r]]]
  ELSE w

(* setText of updateWidgets reaches setRegister if the text of a line      *)
(* changes, w before and shown after it: what the line shows is written    *)
(* back into the device.  A box is set without such a signal.              *)
WriteBack(d, w, shown) ==
  [t \in Tables |-> [r \in Rows |->
     IF t = "HoldingRegisters" /\ shown[t][r] # w[t][r] THEN ToInt(shown[t][r]) ELSE d[t][r]]]

(* setData of rows of a table: dataWritten is emitted when a value changes,*)
(* and updateWidgets is called before setData returns.                     *)
SetData(w, t, cells) ==
  LET d == [data EXCEPT ![t] = [r \in Rows |-> IF r \in DOMAIN cells THEN cells[r] ELSE @[r]]]
  IN  IF d = data
      THEN widgets' = w /\ UNCHANGED data
      ELSE /\ widgets' = UpdateWidgets(w, d, t, DOMAIN cells)
           /\ data' = WriteBack(d, w, widgets')

(* coilChanged, discreteInputChanged and setRegister: the user clicks a    *)
(* box or types into a line.                                               *)
Edit(t, r, text) ==
  /\ text # widgets[t][r]
  /\ SetData([widgets EXCEPT ![t][r] = text], t, [row \in {r} |-> ToInt(text)])
  /\ UNCHANGED <<connectType, slaveState, slaveWindow, setBusyBox, deviceBusy>>

ToggleBusy ==
  /\ setBusyBox' = ~setBusyBox /\ deviceBusy' = setBusyBox'
  /\ UNCHANGED <<connectType, slaveState, slaveWindow, data, widgets>>

(* Faulty variant, for mutation: the actions are exchanged.                *)
SlaveConnectSwapped ==
  /\ slaveState = "Unconnected" /\ slaveState' = "Connected"
  /\ slaveWindow' =
       Offer(OnStateChanged(OnStateChanged(slaveWindow, "Connecting"), "Connected"), TRUE)
  /\ UNCHANGED <<connectType, data, widgets, setBusyBox, deviceBusy>>

(* on_connectButton_clicked, of the button and of both actions, for a      *)
(* device that is not connected: connectDevice opens the port or listens.  *)
SlaveConnect ==
  /\ slaveState = "Unconnected" /\ slaveState' = "Connected"
  /\ slaveWindow' =
       Offer(OnStateChanged(OnStateChanged(slaveWindow, "Connecting"), "Connected"), FALSE)
  /\ UNCHANGED <<connectType, data, widgets, setBusyBox, deviceBusy>>

SlaveConnectFails ==
  /\ slaveState = "Unconnected"
  /\ slaveWindow' = OnStateChanged(OnStateChanged(slaveWindow, "Connecting"), "Unconnected")
  /\ UNCHANGED <<connectType, slaveState, data, widgets, setBusyBox, deviceBusy>>

SlaveDisconnect ==
  /\ slaveState = "Connected" /\ slaveState' = "Unconnected"
  /\ slaveWindow' =
       Offer(OnStateChanged(OnStateChanged(slaveWindow, "Closing"), "Unconnected"), TRUE)
  /\ UNCHANGED <<connectType, data, widgets, setBusyBox, deviceBusy>>

(* on_connectType_currentIndexChanged: disconnect() takes the device off   *)
(* the window's slots, and delete closes it, so that onStateChanged hears  *)
(* nothing.  The new device gets tables, options and values of the window. *)
ChangeType ==
  /\ connectType' = IF connectType = "Serial" THEN "Tcp" ELSE "Serial"
  /\ slaveState' = "Unconnected"
  /\ data' = SetupDeviceData(widgets)
  /\ deviceBusy' = setBusyBox
  /\ UNCHANGED <<slaveWindow, widgets, setBusyBox>>

(* A request of a client: it is answered, and may write rows of a table    *)
(* unless the device is busy.                                              *)
Serve(t, cells) ==
  /\ Listens
  /\ IF deviceBusy THEN UNCHANGED <<data, widgets>> ELSE SetData(widgets, t, cells)
  /\ UNCHANGED <<connectType, slaveState, slaveWindow, setBusyBox, deviceBusy>>

SlaveUser ==
  \/ \E t \in Tables, r \in Rows : \E text \in Texts(t) : Edit(t, r, text)
  \/ ToggleBusy \/ SlaveConnect \/ SlaveConnectFails

(* What ends the connections of clients.                                   *)
SlaveCloses == SlaveDisconnect \/ ChangeType

-----------------------------------------------------------------------------
(* Whoever writes, and through whatever changes of the device: the boxes   *)
(* and lines show what a client would read, and the busy box how it would  *)
(* be answered.                                                            *)
WidgetsShowTables ==
  /\ data = SetupDeviceData(widgets)
  /\ deviceBusy = setBusyBox

(* A device that is connected is shown as connected.  (The opposite fails  *)
(* after the type was changed: the window still offers to disconnect.)     *)
SlaveShown == slaveState = "Connected" => ShowsConnected(slaveWindow)
=============================================================================
