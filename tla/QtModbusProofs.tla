---------------------------- MODULE QtModbusProofs ----------------------------
(***************************************************************************)
(* The windows of the Qt examples, for any tables, identifiers, requests   *)
(* and retries: what the slave's boxes and lines show is what its device   *)
(* holds, a connected device is shown as connected, the editor has one     *)
(* request at a time and takes the answer of an earlier one for its own    *)
(* only under an identifier that was still under way, no row is written    *)
(* that could not be edited, and the rows that can be edited stay those    *)
(* that are written.                                                       *)
(***************************************************************************)
EXTENDS QtModbus, SequenceTheorems, TLAPS

(* Without a device the editor has neither connection nor request; the     *)
(* master does nothing of the editor's.                                    *)
WithDevice ==
  /\ client = "master" => device = "none"
  /\ device = "none" => /\ DOMAIN store = {} /\ requests = <<>> /\ answers = <<>>
                        /\ client = "editor" => state = "Unconnected"
  /\ connectEnabled <=> device = "none"

(* An earlier attempt under way, with the identifier of a pending request, *)
(* was so when that request was enqueued.                                  *)
Known(m, s) == m.id \in DOMAIN s /\ ~m.now => s[m.id].reused
NoneSince(messages, s) == \A k \in 1..Len(messages) : Known(messages[k], s)

(* The model of the table knows the size chosen, or still the number it    *)
(* was made with, and then nothing was changed yet.                        *)
Selection ==
  /\ modelAddress = writeAddress
  /\ writeSize <= WriteLimit - writeAddress
  /\ \/ modelNumber = writeSize
     \/ writeAddress = 0 /\ writeSize = WriteLimit /\ modelNumber = FirstItem

(* Nothing is under way but over a connection.                             *)
Quiet == state # "Connected" => link = "none" /\ requests = <<>> /\ answers = <<>>

EditorInv ==
  /\ EditorTypeOK
  /\ WithDevice
  /\ OneRequest
  /\ NoneSince(requests, store) /\ NoneSince(answers, store)

IInv ==
  /\ client \in {"editor", "master"}
  /\ SlaveTypeOK /\ WidgetsShowTables /\ SlaveShown
  /\ EditorInv /\ Quiet
  /\ MasterTypeOK /\ Selection
  /\ client = "master" => MasterShown

-----------------------------------------------------------------------------
LEMMA WindowTypes ==
  ASSUME NEW w \in Windows, NEW s, NEW b \in BOOLEAN
  PROVE  OnStateChanged(w, s) \in Windows /\ Offer(w, b) \in Windows
<1>1. OnStateChanged(w, s).text \in {"Connect", "Disconnect"}
  BY DEF OnStateChanged, Windows
<1>2. OnStateChanged(w, s) \in Windows
  BY <1>1 DEF OnStateChanged, Windows
<1>3. Offer(w, b) \in Windows
  BY DEF Offer, Windows
<1>4. QED
  BY <1>2, <1>3

(* A window that has heard of a connection, and was offered to end it.     *)
LEMMA ShownAfterConnect ==
  ASSUME NEW w \in Windows
  PROVE  /\ ShowsConnected(OnStateChanged(w, "Connected"))
         /\ ShowsConnected(Offer(OnStateChanged(w, "Connected"), FALSE))
  BY DEF ShowsConnected, OnStateChanged, Offer, Windows

-----------------------------------------------------------------------------
(* The slave.                                                              *)

SlaveTables == data \in [Tables -> [Rows -> Numbers]]

LEMMA ToIntType ==
  ASSUME NEW t, NEW text \in Texts(t)
  PROVE  /\ ToInt(text) \in Numbers
         /\ text \in Numbers \union {Empty}
         /\ ToInt(text) \in Texts(t) /\ ToInt(ToInt(text)) = ToInt(text)
  BY SlaveAssumption DEF Texts, ToInt, Empty

(* The device and the window have their types and agree.                   *)
Agree(d, w) ==
  /\ d \in [Tables -> [Rows -> Numbers]]
  /\ w \in [Tables -> [Rows -> Numbers \union {Empty}]]
  /\ \A t \in Tables, r \in Rows : w[t][r] \in Texts(t)
  /\ d = SetupDeviceData(w)

(* Values for rows of a table; the window w agrees with the device, except *)
(* where it shows these values already or will be told of them.            *)
Proper(w, t, cells) ==
  /\ DOMAIN cells \subseteq Rows
  /\ \A r \in DOMAIN cells : cells[r] \in Numbers /\ cells[r] \in Texts(t)
  /\ w \in [Tables -> [Rows -> Numbers \union {Empty}]]
  /\ \A u \in Tables, r \in Rows : w[u][r] \in Texts(u)
  /\ \A u \in Tables, r \in Rows : u # t \/ r \notin DOMAIN cells => ToInt(w[u][r]) = data[u][r]
  /\ \/ w = widgets /\ t \in {"Coils", "HoldingRegisters"}
     \/ \A r \in DOMAIN cells : ToInt(w[t][r]) = cells[r]

LEMMA SetDataKeeps ==
  ASSUME Agree(data, widgets), NEW t \in Tables, NEW cells, NEW w,
         Proper(w, t, cells), SetData(w, t, cells)
  PROVE  Agree(data', widgets')
<1> USE DEF Proper
<1> DEFINE d == [data EXCEPT ![t] = [r \in Rows |-> IF r \in DOMAIN cells THEN cells[r] ELSE @[r]]]
<1>T. data \in [Tables -> [Rows -> Numbers]] /\ data = SetupDeviceData(widgets)
  BY DEF Agree
<1>1. /\ d = data => data' = d /\ widgets' = w
      /\ d # data => /\ widgets' = UpdateWidgets(w, d, t, DOMAIN cells)
                     /\ data' = WriteBack(d, w, widgets')
  BY DEF SetData
<1>2. /\ d \in [Tables -> [Rows -> Numbers]]
      /\ \A u \in Tables, r \in Rows :
           d[u][r] = IF u = t /\ r \in DOMAIN cells THEN cells[r] ELSE data[u][r]
  <2>1. [r \in Rows |-> IF r \in DOMAIN cells THEN cells[r] ELSE data[t][r]] \in [Rows -> Numbers]
    BY <1>T
  <2>2. d = [data EXCEPT ![t] = [r \in Rows |-> IF r \in DOMAIN cells THEN cells[r] ELSE data[t][r]]]
    BY <1>T
  <2>3. QED
    BY <1>T, <2>1, <2>2
<1> HIDE DEF d
<1> DEFINE v == UpdateWidgets(w, d, t, DOMAIN cells)
<1> HIDE DEF v
<1>3. /\ v \in [Tables -> [Rows -> Numbers \union {Empty}]]
      /\ \A u \in Tables, r \in Rows : v[u][r] \in Texts(u)
      /\ \A u \in Tables, r \in Rows : ToInt(v[u][r]) = d[u][r]
  <2>1. CASE t \in {"Coils", "HoldingRegisters"}
    <3>1. v = [w EXCEPT ![t] = [r \in Rows |-> IF r \in DOMAIN cells THEN d[t][r] ELSE w[t][r]]]
      BY <2>1 DEF v, UpdateWidgets
    <3>2. \A u \in Tables, r \in Rows :
            v[u][r] = IF u = t /\ r \in DOMAIN cells THEN cells[r] ELSE w[u][r]
      <4>1. \A u \in Tables, r \in Rows : u # t => v[u][r] = w[u][r]
        BY <3>1
      <4>2. \A r \in Rows : v[t][r] = IF r \in DOMAIN cells THEN d[t][r] ELSE w[t][r]
        BY <3>1
      <4>3. QED
        BY <1>2, <4>1, <4>2
    <3>3. \A u \in Tables, r \in Rows : v[u][r] \in Texts(u) /\ v[u][r] \in Numbers \union {Empty}
      BY <3>2
    <3>4. v \in [Tables -> [Rows -> Numbers \union {Empty}]]
      <4>1. [r \in Rows |-> IF r \in DOMAIN cells THEN d[t][r] ELSE w[t][r]]
              \in [Rows -> Numbers \union {Empty}]
        BY <1>2
      <4>2. QED
        BY <3>1, <4>1
    <3>5. \A u \in Tables, r \in Rows : ToInt(v[u][r]) = d[u][r]
      <4>1. \A r \in DOMAIN cells : ToInt(cells[r]) = cells[r]
        BY SlaveAssumption DEF ToInt, Empty
      <4>2. QED
        BY <1>2, <3>2, <4>1
    <3>6. QED
      BY <3>3, <3>4, <3>5
  <2>2. CASE t \notin {"Coils", "HoldingRegisters"}
    <3>1. v = w /\ \A r \in DOMAIN cells : ToInt(w[t][r]) = cells[r]
      BY <2>2 DEF v, UpdateWidgets
    <3>2. QED
      BY <1>2, <3>1
  <2>3. QED
    BY <2>1, <2>2
<1>4. d = data => \A u \in Tables, r \in Rows : ToInt(w[u][r]) = d[u][r]
  <2>1. ASSUME d = data, NEW r \in DOMAIN cells
        PROVE  cells[r] = data[t][r]
    BY <1>2, <2>1
  <2>2. \A u \in Tables, r \in Rows : data[u][r] = ToInt(widgets[u][r])
    BY <1>T DEF SetupDeviceData
  <2>3. QED
    BY <1>2, <2>1, <2>2
<1>5. /\ widgets' \in [Tables -> [Rows -> Numbers \union {Empty}]]
      /\ \A u \in Tables, r \in Rows : widgets'[u][r] \in Texts(u)
      /\ \A u \in Tables, r \in Rows : ToInt(widgets'[u][r]) = d[u][r]
  <2>1. CASE d = data
    BY <1>1, <1>4, <2>1
  <2>2. CASE d # data
    BY <1>1, <1>3, <2>2 DEF v
  <2>3. QED
    BY <2>1, <2>2
<1>6. d = SetupDeviceData(widgets')
  BY <1>2, <1>5 DEF SetupDeviceData
<1>7. data' = d
  <2>1. CASE d # data
    <3>1. WriteBack(d, w, widgets') = [u \in Tables |-> [r \in Rows |-> d[u][r]]]
      BY <1>5 DEF WriteBack
    <3>2. QED
      BY <1>1, <1>2, <2>1, <3>1
  <2>2. QED
    BY <1>1, <2>1
<1>8. QED
  BY <1>2, <1>5, <1>6, <1>7 DEF Agree

LEMMA SlaveSteps ==
  ASSUME SlaveTypeOK, WidgetsShowTables, SlaveShown,
         \/ SlaveUser \/ SlaveCloses \/ UNCHANGED slaveVars
         \/ \E pdu \in Pdus : Serve(pdu.table, pdu.cells)
  PROVE  SlaveTypeOK' /\ WidgetsShowTables' /\ SlaveShown'
<1>T. /\ data \in [Tables -> [Rows -> Numbers]] /\ slaveWindow \in Windows
      /\ widgets \in [Tables -> [Rows -> Numbers \union {Empty}]]
      /\ \A t \in Tables, r \in Rows : widgets[t][r] \in Texts(t)
      /\ data = SetupDeviceData(widgets)
  BY DEF SlaveTypeOK, WidgetsShowTables
<1>A. Agree(data, widgets)
  BY <1>T DEF Agree
<1>D. \A t \in Tables, r \in Rows : data[t][r] = ToInt(widgets[t][r])
  BY <1>T DEF SetupDeviceData
<1>1. ASSUME NEW t \in Tables, NEW r \in Rows, NEW text \in Texts(t), Edit(t, r, text)
      PROVE  SlaveTypeOK' /\ WidgetsShowTables' /\ SlaveShown'
  <2> DEFINE w == [widgets EXCEPT ![t][r] = text]
             cells == [row \in {r} |-> ToInt(text)]
  <2>1. SetData(w, t, cells)
        /\ UNCHANGED <<connectType, slaveState, slaveWindow, setBusyBox, deviceBusy>>
    BY <1>1 DEF Edit
  <2>2. \A u \in Tables, row \in Rows :
          w[u][row] = IF u = t /\ row = r THEN text ELSE widgets[u][row]
    BY <1>T
  <2>3. w \in [Tables -> [Rows -> Numbers \union {Empty}]]
    <3>1. [widgets[t] EXCEPT ![r] = text] \in [Rows -> Numbers \union {Empty}]
      BY <1>T, ToIntType
    <3>2. w = [widgets EXCEPT ![t] = [widgets[t] EXCEPT ![r] = text]]
      BY <1>T
    <3>3. QED
      BY <1>T, <3>1, <3>2
  <2>4. DOMAIN cells = {r} /\ cells[r] = ToInt(text) /\ ToInt(text) \in Numbers
        /\ ToInt(text) \in Texts(t)
    BY ToIntType
  <2> HIDE DEF w, cells
  <2>5. Proper(w, t, cells)
    <3>1. \A u \in Tables, row \in Rows : w[u][row] \in Texts(u)
      BY <1>T, <2>2
    <3>2. \A u \in Tables, row \in Rows :
            u # t \/ row \notin DOMAIN cells => ToInt(w[u][row]) = data[u][row]
      BY <1>D, <2>2, <2>4
    <3>3. \A row \in DOMAIN cells : ToInt(w[t][row]) = cells[row]
      BY <2>2, <2>4
    <3>4. DOMAIN cells \subseteq Rows
          /\ \A row \in DOMAIN cells : cells[row] \in Numbers /\ cells[row] \in Texts(t)
      BY <2>4
    <3>5. QED
      BY <2>3, <3>1, <3>2, <3>3, <3>4 DEF Proper
  <2>6. Agree(data', widgets')
    BY <1>A, <2>1, <2>5, SetDataKeeps
  <2>7. QED
    BY <2>1, <2>6 DEF Agree, SlaveTypeOK, WidgetsShowTables, SlaveShown
<1>2. ASSUME NEW t \in Tables, NEW cells, DOMAIN cells \subseteq Rows,
             \A r \in DOMAIN cells : cells[r] \in Numbers /\ cells[r] \in Texts(t),
             t \in {"Coils", "HoldingRegisters"} \/ DOMAIN cells = {},
             Serve(t, cells)
      PROVE  SlaveTypeOK' /\ WidgetsShowTables' /\ SlaveShown'
  <2>1. UNCHANGED <<connectType, slaveState, slaveWindow, setBusyBox, deviceBusy>>
    BY <1>2 DEF Serve
  <2>2. CASE UNCHANGED <<data, widgets>>
    BY <2>1, <2>2 DEF SlaveTypeOK, WidgetsShowTables, SlaveShown, SetupDeviceData
  <2>3. CASE SetData(widgets, t, cells)
    <3>1. \A u \in Tables, r \in Rows :
            u # t \/ r \notin DOMAIN cells => ToInt(widgets[u][r]) = data[u][r]
      BY <1>D
    <3>2. Proper(widgets, t, cells)
      BY <1>T, <1>2, <3>1 DEF Proper
    <3>3. Agree(data', widgets')
      BY <1>A, <2>3, <3>2, SetDataKeeps
    <3>4. QED
      BY <2>1, <3>3 DEF Agree, SlaveTypeOK, WidgetsShowTables, SlaveShown
  <2>4. QED
    BY <1>2, <2>2, <2>3 DEF Serve
<1>P. ASSUME NEW pdu \in Pdus, Serve(pdu.table, pdu.cells)
      PROVE  SlaveTypeOK' /\ WidgetsShowTables' /\ SlaveShown'
  <2>1. /\ pdu.table \in Tables /\ DOMAIN pdu.cells \subseteq Rows
        /\ \A r \in DOMAIN pdu.cells :
             /\ pdu.table \in {"Coils", "HoldingRegisters"}
             /\ pdu.cells[r] \in (IF pdu.table = "Coils" THEN {0, 1} ELSE Numbers)
    BY PdusAssumption
  <2>2. \A r \in DOMAIN pdu.cells : pdu.cells[r] \in Numbers /\ pdu.cells[r] \in Texts(pdu.table)
    BY <2>1, SlaveAssumption DEF Texts, Bits
  <2>3. pdu.table \in {"Coils", "HoldingRegisters"} \/ DOMAIN pdu.cells = {}
    BY <2>1
  <2>4. QED
    BY <1>P, <1>2, <2>1, <2>2, <2>3
<1>3. CASE ToggleBusy
  BY <1>3, <1>T DEF ToggleBusy, SlaveTypeOK, WidgetsShowTables, SlaveShown, SetupDeviceData
<1>4. CASE SlaveConnect
  <2>1. OnStateChanged(slaveWindow, "Connecting") \in Windows
    BY <1>T, WindowTypes
  <2>2. slaveWindow' \in Windows /\ ShowsConnected(slaveWindow')
    BY <1>4, <2>1, WindowTypes, ShownAfterConnect DEF SlaveConnect
  <2>3. QED
    BY <1>4, <1>T, <2>2 DEF SlaveConnect, SlaveTypeOK, WidgetsShowTables, SlaveShown, SetupDeviceData
<1>5. CASE SlaveConnectFails
  <2>1. slaveWindow' \in Windows
    BY <1>5, <1>T, WindowTypes DEF SlaveConnectFails
  <2>2. QED
    BY <1>5, <1>T, <2>1
       DEF SlaveConnectFails, SlaveTypeOK, WidgetsShowTables, SlaveShown, SetupDeviceData
<1>6. CASE SlaveDisconnect
  <2>1. slaveWindow' \in Windows
    BY <1>6, <1>T, WindowTypes DEF SlaveDisconnect
  <2>2. QED
    BY <1>6, <1>T, <2>1
       DEF SlaveDisconnect, SlaveTypeOK, WidgetsShowTables, SlaveShown, SetupDeviceData
<1>7. CASE ChangeType
  BY <1>7, <1>T DEF ChangeType, SlaveTypeOK, WidgetsShowTables, SlaveShown, SetupDeviceData
<1>8. CASE UNCHANGED slaveVars
  BY <1>8, <1>T DEF slaveVars, SlaveTypeOK, WidgetsShowTables, SlaveShown, SetupDeviceData
<1>9. QED
  BY <1>1, <1>P, <1>3, <1>4, <1>5, <1>6, <1>7, <1>8 DEF SlaveUser, SlaveCloses

-----------------------------------------------------------------------------
(* The master.                                                             *)

LEMMA LeastOfTwo ==
  ASSUME NEW a \in Int, NEW b \in Int, a <= b
  PROVE  Min({a, b}) = a
<1>1. \E m \in {a, b} : \A x \in {a, b} : m <= x
  OBVIOUS
<1>2. Min({a, b}) \in {a, b} /\ \A x \in {a, b} : Min({a, b}) <= x
  BY <1>1 DEF Min
<1>3. QED
  BY <1>2

(* A model that was told the size makes the rows of a write editable.      *)
ToldOfSize == modelNumber = writeSize => Editable = Written

LEMMA EditableRows ==
  ASSUME MasterTypeOK, Selection
  PROVE  /\ Written \subseteq Editable
         /\ ToldOfSize
<1>1. /\ writeAddress \in 0..WriteLimit - 1 /\ writeSize \in 1..WriteLimit
      /\ {modelNumber, WriteLimit, TableRows, FirstItem} \subseteq Nat
      /\ WriteLimit <= TableRows /\ WriteLimit <= FirstItem
  BY MasterAssumption DEF MasterTypeOK
<1>2. Min({writeSize, WriteLimit - writeAddress}) = writeSize
  BY <1>1, LeastOfTwo DEF Selection
<1>3. Written = {row \in Int : writeAddress <= row /\ row < writeAddress + writeSize}
  BY <1>1, <1>2 DEF Written
<1>4. Editable = {row \in 0..TableRows - 1 :
                    writeAddress <= row /\ row < writeAddress + modelNumber}
  BY <1>1 DEF Editable, Selection
<1>5. \A row \in Int : writeAddress <= row /\ row < writeAddress + writeSize
                        => row \in 0..TableRows - 1
  BY <1>1 DEF Selection
<1>6. writeSize <= modelNumber
  BY <1>1 DEF Selection
<1>7. QED
  BY <1>1, <1>3, <1>4, <1>5, <1>6 DEF ToldOfSize

LEMMA EditableRowsAfter == MasterTypeOK' /\ Selection' => ToldOfSize'
<1>1. MasterTypeOK /\ Selection => ToldOfSize
  BY EditableRows
<1>2. QED
  BY <1>1, PTL

LEMMA MasterSteps ==
  ASSUME MasterTypeOK, MasterShown, Selection, MasterUser \/ Closed
  PROVE  MasterTypeOK' /\ MasterShown' /\ Selection'
<1>T. /\ masterWindow \in Windows /\ masterType \in {"Serial", "Tcp"}
      /\ writeAddress \in 0..WriteLimit - 1 /\ modelAddress \in 0..WriteLimit - 1
      /\ writeSize \in 1..WriteLimit /\ modelNumber \in 1..FirstItem
      /\ WriteLimit \in Nat \ {0} /\ FirstItem \in Nat /\ WriteLimit <= FirstItem
  BY MasterAssumption DEF MasterTypeOK
<1>W. \A s : OnStateChanged(masterWindow, s) \in Windows
  BY <1>T, WindowTypes
<1>1. CASE UNCHANGED selection
  <2>1. masterWindow' \in Windows /\ masterType' \in {"Serial", "Tcp"}
        /\ (state' = "Connected" => ShowsConnected(masterWindow'))
    <3>1. CASE MasterConnect
      BY <3>1, <1>T, <1>W, WindowTypes, ShownAfterConnect DEF MasterConnect, ConnectDevice
    <3>2. CASE MasterConnectFails
      BY <3>2, <1>T, <1>W, WindowTypes DEF MasterConnectFails, connectionVars
    <3>3. CASE MasterDisconnect
      BY <3>3, <1>T, <1>W, WindowTypes DEF MasterDisconnect, HangUp
    <3>4. CASE ChangeMasterType
      BY <3>4, <1>T, <1>W DEF ChangeMasterType, HangUp, Hears
    <3>5. CASE Closed
      BY <3>5, <1>T, <1>W DEF Closed, HangUp, Hears
    <3>6. CASE UNCHANGED <<masterWindow, masterType, state>>
      BY <3>6, <1>T DEF MasterShown
    <3>7. QED
      BY <3>1, <3>2, <3>3, <3>4, <3>5, <3>6
         DEF MasterUser, SetAddress, SetSize, connectionVars
  <2>2. QED
    BY <1>1, <1>T, <2>1 DEF MasterTypeOK, MasterShown, Selection, selection
<1>2. ASSUME NEW i \in 0..WriteLimit - 1, SetAddress(i)
      PROVE  MasterTypeOK' /\ MasterShown' /\ Selection'
  <2>1. UNCHANGED <<masterWindow, masterType, state>> /\ writeAddress' = i /\ modelAddress' = i
    BY <1>2 DEF SetAddress, connectionVars
  <2>2. CASE writeSize > WriteLimit - i
    <3>1. writeSize' = WriteLimit - i /\ modelNumber' = WriteLimit - i
      BY <1>2, <2>2 DEF SetAddress
    <3>2. WriteLimit - i \in 1..WriteLimit /\ WriteLimit - i \in 1..FirstItem
      BY <1>T
    <3>3. MasterTypeOK'
      BY <1>T, <2>1, <3>1, <3>2 DEF MasterTypeOK
    <3>4. MasterShown'
      BY <2>1 DEF MasterShown
    <3>5. /\ modelNumber' = writeSize' /\ modelAddress' = writeAddress'
          /\ writeSize' <= WriteLimit - writeAddress'
      BY <1>T, <2>1, <3>1
    <3>6. QED
      BY <3>3, <3>4, <3>5 DEF Selection
  <2>3. CASE ~(writeSize > WriteLimit - i)
    <3>1. writeSize' = writeSize /\ modelNumber' = modelNumber
      BY <1>2, <2>3 DEF SetAddress
    <3>2. QED
      BY <1>T, <2>1, <2>3, <3>1 DEF MasterTypeOK, MasterShown, Selection
  <2>4. QED
    BY <2>2, <2>3
<1>3. ASSUME NEW n \in 1..WriteLimit, SetSize(n)
      PROVE  MasterTypeOK' /\ MasterShown' /\ Selection'
  <2>1. UNCHANGED <<masterWindow, masterType, state, writeAddress, modelAddress>>
        /\ writeSize' = n /\ n \in 1..WriteLimit - writeAddress
        /\ modelNumber' = IF n = writeSize THEN modelNumber ELSE n
    BY <1>3 DEF SetSize, connectionVars
  <2>2. n \in 1..FirstItem
    BY <1>T
  <2>3. MasterTypeOK'
    BY <1>T, <2>1, <2>2 DEF MasterTypeOK
  <2>4. n <= WriteLimit - writeAddress
    BY <1>T, <2>1
  <2>5. MasterShown'
    BY <2>1 DEF MasterShown
  <2>6. Selection'
    <3>1. CASE n = writeSize
      BY <1>T, <2>1, <2>4, <3>1 DEF Selection
    <3>2. CASE n # writeSize
      <4>1. /\ modelNumber' = writeSize' /\ modelAddress' = writeAddress'
            /\ writeSize' <= WriteLimit - writeAddress'
        BY <1>T, <2>1, <2>4, <3>2 DEF Selection
      <4>2. QED
        BY <4>1 DEF Selection
    <3>3. QED
      BY <3>1, <3>2
  <2>7. QED
    BY <2>3, <2>5, <2>6
<1>4. QED
  BY <1>1, <1>2, <1>3
     DEF MasterUser, MasterConnect, MasterConnectFails, MasterDisconnect, ChangeMasterType, Closed

(* A step leaves boxes and model alone, or tells the model the size.       *)
LEMMA SelectionTold ==
  ASSUME MasterTypeOK, [Next]_vars
  PROVE  \/ UNCHANGED selection
         \/ modelNumber' = writeSize'
         \/ UNCHANGED <<writeSize, modelNumber>>
<1>1. CASE UNCHANGED vars \/ UNCHANGED masterVars
  BY <1>1 DEF vars, masterVars, selection
<1>2. CASE Network
  BY <1>2 DEF Network, Opened, Refused, RemoteClosed, Answered, masterVars, selection
<1>3. CASE MasterUser \/ Closed
  <2>1. ASSUME NEW i \in 0..WriteLimit - 1, SetAddress(i)
        PROVE  modelNumber' = writeSize' \/ UNCHANGED <<writeSize, modelNumber>>
    BY <2>1 DEF SetAddress
  <2>2. ASSUME NEW n \in 1..WriteLimit, SetSize(n)
        PROVE  modelNumber' = writeSize' \/ UNCHANGED <<writeSize, modelNumber>>
    BY <2>2 DEF SetSize
  <2>3. QED
    BY <1>3, <2>1, <2>2
       DEF MasterUser, MasterConnect, MasterConnectFails, MasterDisconnect, ChangeMasterType, Closed
<1>4. QED
  BY <1>1, <1>2, <1>3 DEF Next

-----------------------------------------------------------------------------
(* The editor and the connection.                                          *)

LEMMA Emptied == DOMAIN <<>> = {} /\ <<>> \in Seq(Messages) /\ Len(<<>>) = 0
<1>1. \A S : <<>> \in Seq(S)
  BY EmptySeq
<1>2. QED
  BY <1>1, EmptySeq

LEMMA Appended ==
  ASSUME NEW S, NEW q \in Seq(S), NEW e \in S
  PROVE  /\ Append(q, e) \in Seq(S) /\ Len(Append(q, e)) = Len(q) + 1 /\ Len(q) \in Nat
         /\ Append(q, e) # <<>>
         /\ \A k \in 1..Len(q) : Append(q, e)[k] = q[k]
         /\ Append(q, e)[Len(q) + 1] = e
<1>1. /\ Append(q, e) \in Seq(S) /\ Len(Append(q, e)) = Len(q) + 1 /\ Len(q) \in Nat
      /\ \A k \in 1..Len(q) : Append(q, e)[k] = q[k]
      /\ Append(q, e)[Len(q) + 1] = e
  BY AppendProperties, LenProperties
<1>2. QED
  BY <1>1

LEMMA HeadTail ==
  ASSUME NEW S, NEW q \in Seq(S), q # <<>>
  PROVE  /\ Head(q) \in S /\ Tail(q) \in Seq(S) /\ Len(q) \in Nat \ {0}
         /\ Head(q) = q[1] /\ Len(Tail(q)) = Len(q) - 1
         /\ \A k \in 1..Len(Tail(q)) : Tail(q)[k] = q[k + 1] /\ k + 1 \in 1..Len(q)
  BY HeadTailProperties, EmptySeq

LEMMA AgedMessages ==
  ASSUME NEW q \in Seq(Messages)
  PROVE  /\ Aged(q) \in Seq(Messages) /\ Len(Aged(q)) = Len(q) /\ Len(q) \in Nat
         /\ \A k \in 1..Len(q) : Aged(q)[k].id = q[k].id
<1>1. Len(q) \in Nat /\ DOMAIN q = 1..Len(q) /\ \A k \in 1..Len(q) : q[k] \in Messages
  BY LenProperties, ElementOfSeq
<1>2. ASSUME NEW m \in Messages
      PROVE  [m EXCEPT !.now = FALSE] \in Messages /\ [m EXCEPT !.now = FALSE].id = m.id
  BY DEF Messages
<1> DEFINE old(k) == [q[k] EXCEPT !.now = FALSE]
<1>3. \A k \in 1..Len(q) : old(k) \in Messages /\ old(k).id = q[k].id
  BY <1>1, <1>2
<1>4. Aged(q) = [k \in 1..Len(q) |-> old(k)]
  BY <1>1 DEF Aged
<1> HIDE DEF old
<1>5. Aged(q) \in [1..Len(q) -> Messages] /\ \A k \in 1..Len(q) : Aged(q)[k].id = q[k].id
  BY <1>3, <1>4
<1>6. Aged(q) \in Seq(Messages) /\ Len(Aged(q)) = Len(q)
  BY <1>1, <1>5, IsASeq, LenProperties
<1>7. QED
  BY <1>1, <1>5, <1>6

LEMMA ElementChanges ==
  ASSUME NEW e \in Elements
  PROVE  /\ [e EXCEPT !.timer = FALSE] \in Elements /\ [e EXCEPT !.timer = FALSE].reused = e.reused
         /\ e.retries > 0 => Again(e) \in Elements /\ Again(e).reused = e.reused
<1>1. [e EXCEPT !.timer = FALSE] \in Elements /\ [e EXCEPT !.timer = FALSE].reused = e.reused
  BY DEF Elements
<1>2. ASSUME e.retries > 0
      PROVE  Again(e) \in Elements /\ Again(e).reused = e.reused
  <2>1. e.retries - 1 \in 0..Retries
    BY <1>2, EditorAssumption DEF Elements
  <2>2. QED
    BY <2>1 DEF Elements, Again
<1>3. QED
  BY <1>1, <1>2

(* The store and what is under way, whichever state they are of.           *)
LEMMA StopTimer ==
  ASSUME NEW D, NEW s \in [D -> Elements], NEW i \in D
  PROVE  /\ [s EXCEPT ![i].timer = FALSE] \in [D -> Elements]
         /\ \A j \in D : [s EXCEPT ![i].timer = FALSE][j].reused = s[j].reused
<1>1. [s[i] EXCEPT !.timer = FALSE] \in Elements /\ [s[i] EXCEPT !.timer = FALSE].reused = s[i].reused
  BY ElementChanges
<1> DEFINE e == [s[i] EXCEPT !.timer = FALSE]
<1>2. [s EXCEPT ![i].timer = FALSE] = [s EXCEPT ![i] = e]
  OBVIOUS
<1> HIDE DEF e
<1>3. e \in Elements /\ e.reused = s[i].reused
  BY <1>1 DEF e
<1>4. QED
  BY <1>2, <1>3

LEMMA NoneSinceKept ==
  ASSUME NEW q, NEW s, NEW s2, NoneSince(q, s), DOMAIN s2 \subseteq DOMAIN s,
         \A i \in DOMAIN s2 : s2[i].reused = s[i].reused
  PROVE  NoneSince(q, s2)
BY DEF NoneSince, Known

LEMMA NoneSinceEmpty ==
  ASSUME NEW s
  PROVE  NoneSince(<<>>, s)
BY EmptySeq DEF NoneSince

LEMMA NoneSinceTail ==
  ASSUME NEW q \in Seq(Messages), NEW s, q # <<>>, NoneSince(q, s)
  PROVE  NoneSince(Tail(q), s) /\ Known(Head(q), s)
<1>1. /\ Len(q) \in Nat \ {0} /\ Head(q) = q[1]
      /\ \A k \in 1..Len(Tail(q)) : Tail(q)[k] = q[k + 1] /\ k + 1 \in 1..Len(q)
  BY HeadTail
<1>2. 1 \in 1..Len(q)
  BY <1>1
<1>3. QED
  BY <1>1, <1>2 DEF NoneSince

LEMMA NoneSinceAppend ==
  ASSUME NEW q \in Seq(Messages), NEW e \in Messages, NEW s, NoneSince(q, s), Known(e, s)
  PROVE  NoneSince(Append(q, e), s)
<1>1. /\ Len(Append(q, e)) = Len(q) + 1 /\ Len(q) \in Nat
      /\ \A k \in 1..Len(q) : Append(q, e)[k] = q[k]
      /\ Append(q, e)[Len(q) + 1] = e
  BY Appended
<1>2. ASSUME NEW k \in 1..Len(Append(q, e))
      PROVE  Known(Append(q, e)[k], s)
  <2>1. k \in 1..Len(q) \/ k = Len(q) + 1
    BY <1>1
  <2>2. CASE k \in 1..Len(q)
    BY <1>1, <2>2 DEF NoneSince
  <2>3. CASE k = Len(q) + 1
    BY <1>1, <2>3
  <2>4. QED
    BY <2>1, <2>2, <2>3
<1>3. QED
  BY <1>2 DEF NoneSince

LEMMA EmptyStore == <<>> \in [DOMAIN <<>> -> Elements] /\ DOMAIN <<>> = {}
<1>1. <<>> \in Seq(Elements) /\ Len(<<>>) = 0
  BY EmptySeq
<1>2. <<>> \in [1..0 -> Elements] /\ DOMAIN <<>> = 1..0
  BY <1>1, LenProperties
<1>3. QED
  BY <1>2

LEMMA TakenFromStore ==
  ASSUME EditorTypeOK, NEW i \in Ids, Take(i)
  PROVE  /\ DOMAIN store' = DOMAIN store \ {i} /\ store' \in [DOMAIN store' -> Elements]
         /\ \A j \in DOMAIN store' : store'[j].reused = store[j].reused
<1>1. store' = [j \in DOMAIN store \ {i} |-> store[j]]
  BY DEF Take, Restrict, Pending
<1>2. QED
  BY <1>1 DEF EditorTypeOK, Pending

LEMMA WriteKeeps ==
  ASSUME EditorTypeOK, NEW m \in Messages, m.now, Write(m),
         NEW s, NoneSince(requests, s), NoneSince(answers, s)
  PROVE  /\ ConnectionTypeOK(Messages)' /\ UNCHANGED <<state, answers>>
         /\ NoneSince(requests', s) /\ NoneSince(answers', s)
<1>1. /\ requests \in Seq(Messages) /\ answers \in Seq(Messages)
      /\ state \in States /\ link \in {"none", "up", "cut"}
  BY DEF EditorTypeOK, ConnectionTypeOK
<1>2. Known(m, s)
  BY DEF Known
<1>3. requests' \in Seq(Messages) /\ NoneSince(requests', s)
  BY <1>1, <1>2, NoneSinceAppend, Appended DEF Write
<1>4. QED
  BY <1>1, <1>3 DEF Write, ConnectionTypeOK

LEMMA DisconnectSteps ==
  ASSUME EditorInv, client = "editor", UNCHANGED client, DisconnectClicked,
         errors' \in 0..MaxErrors, crashed' \in BOOLEAN
  PROVE  EditorInv'
<1>1. /\ connectEnabled' = TRUE /\ device' = "none" /\ store' = <<>> /\ sendEnabled' \in BOOLEAN
      /\ state' = "Unconnected" /\ link' = "none" /\ requests' = <<>> /\ answers' = <<>>
      /\ tId' \in Ids
  BY DEF DisconnectClicked, HangUp, EditorInv, EditorTypeOK
<1>2. EditorTypeOK'
  BY <1>1, EmptyStore, Emptied DEF EditorTypeOK, ConnectionTypeOK, States, Pending
<1>3. WithDevice'
  BY <1>1, EmptyStore DEF WithDevice
<1>4. OneRequest'
  BY <1>1, EmptyStore DEF OneRequest, Pending
<1>5. QED
  BY <1>1, <1>2, <1>3, <1>4, NoneSinceEmpty DEF EditorInv

LEMMA EnqueueSteps ==
  ASSUME EditorInv, client = "editor", UNCHANGED client, NEW pdu \in Pdus, Enqueue(pdu)
  PROVE  EditorInv'
<1> DEFINE element == [pdu |-> pdu, retries |-> Retries, timer |-> TRUE, reused |-> UnderWay(tId)]
           m == [id |-> tId, pdu |-> pdu, now |-> TRUE]
<1>T. /\ requests \in Seq(Messages) /\ answers \in Seq(Messages) /\ tId \in Ids
      /\ state \in States /\ link \in {"none", "up", "cut"}
  BY DEF EditorInv, EditorTypeOK, ConnectionTypeOK
<1>1. /\ sendEnabled /\ state = "Connected" /\ Insert(tId, element) /\ answers' = Aged(answers)
      /\ requests' = IF link = "up" THEN Append(Aged(requests), m) ELSE Aged(requests)
      /\ sendEnabled' = FALSE /\ UNCHANGED <<connectEnabled, device, tId, errors, crashed, state, link>>
  BY DEF Enqueue
<1>2. DOMAIN store = {}
  BY <1>1 DEF EditorInv, OneRequest, Pending
<1>3. device = "made"
  BY <1>1 DEF EditorInv, WithDevice, EditorTypeOK
<1>4. element \in Elements /\ element.reused = UnderWay(tId) /\ m \in Messages /\ m.now
  BY <1>T, EditorAssumption DEF Elements, Messages, UnderWay
<1> HIDE DEF element, m
<1>5. /\ DOMAIN store' = {tId} /\ store'[tId] = element
      /\ store' \in [DOMAIN store' -> Elements]
  BY <1>1, <1>2, <1>4 DEF Insert, Pending
<1>6. ASSUME NEW q \in Seq(Messages), \A k \in 1..Len(q) : q[k] \in Range(requests) \union Range(answers)
      PROVE  NoneSince(Aged(q), store') /\ Aged(q) \in Seq(Messages)
  <2>1. /\ Aged(q) \in Seq(Messages) /\ Len(Aged(q)) = Len(q)
        /\ \A k \in 1..Len(q) : Aged(q)[k].id = q[k].id
    BY AgedMessages
  <2>2. ASSUME NEW k \in 1..Len(q), q[k].id = tId
        PROVE  store'[tId].reused
    BY <1>4, <1>5, <1>6, <2>2 DEF UnderWay
  <2>3. \A k \in 1..Len(q) : Known(Aged(q)[k], store')
    BY <1>5, <2>1, <2>2 DEF Known
  <2>4. QED
    BY <2>1, <2>3 DEF NoneSince
<1>7. /\ \A k \in 1..Len(requests) : requests[k] \in Range(requests)
      /\ \A k \in 1..Len(answers) : answers[k] \in Range(answers)
  BY <1>T, LenProperties DEF Range
<1>8. /\ NoneSince(Aged(requests), store') /\ Aged(requests) \in Seq(Messages)
      /\ NoneSince(Aged(answers), store') /\ Aged(answers) \in Seq(Messages)
  BY <1>T, <1>6, <1>7
<1>9. Known(m, store')
  BY <1>4 DEF Known
<1>10. NoneSince(requests', store') /\ requests' \in Seq(Messages)
  BY <1>1, <1>4, <1>8, <1>9, NoneSinceAppend, Appended
<1>11. EditorTypeOK'
  BY <1>T, <1>1, <1>5, <1>8, <1>10 DEF EditorInv, EditorTypeOK, ConnectionTypeOK, Pending
<1>12. WithDevice'
  BY <1>1, <1>3 DEF EditorInv, WithDevice
<1>13. OneRequest'
  BY <1>1, <1>3, <1>5 DEF OneRequest, Pending
<1>14. QED
  BY <1>1, <1>8, <1>10, <1>11, <1>12, <1>13 DEF EditorInv

(* What a step of the editor leaves of the store, when requests are only   *)
(* taken out of it or sent again.                                          *)
LEMMA TimeoutSteps ==
  ASSUME EditorInv, client = "editor", UNCHANGED client, NEW i \in Ids, Timeout(i)
  PROVE  EditorInv'
<1>T. /\ EditorTypeOK /\ tId \in Ids /\ store \in [DOMAIN store -> Elements]
      /\ DOMAIN store \subseteq Ids
      /\ NoneSince(requests, store) /\ NoneSince(answers, store)
  BY DEF EditorInv, EditorTypeOK, Pending
<1>1. device = "made" /\ i \in DOMAIN store /\ ~sendEnabled
  BY DEF Timeout, TimeoutOfAnother, Resend, ResendFails, TimeoutError, Expires, EditorInv,
         OneRequest, Pending
<1>2. CASE TimeoutOfAnother(i)
  <2>1. /\ store' = [store EXCEPT ![i].timer = FALSE]
        /\ UNCHANGED <<connectEnabled, sendEnabled, device, tId, errors, crashed, connectionVars>>
    BY <1>2 DEF TimeoutOfAnother
  <2>2. /\ store' \in [DOMAIN store -> Elements]
        /\ \A j \in DOMAIN store : store'[j].reused = store[j].reused
    BY <1>1, <1>T, <2>1, StopTimer
  <2>3. DOMAIN store' = DOMAIN store
    BY <2>2
  <2>4. NoneSince(requests', store') /\ NoneSince(answers', store')
    BY <1>T, <2>1, <2>2, <2>3, NoneSinceKept DEF connectionVars
  <2>5. EditorTypeOK'
    BY <1>T, <2>1, <2>2, <2>3 DEF EditorTypeOK, ConnectionTypeOK, Pending, connectionVars
  <2>6. WithDevice' /\ OneRequest'
    BY <2>1, <2>3 DEF EditorInv, WithDevice, OneRequest, Pending, connectionVars
  <2>7. QED
    BY <2>4, <2>5, <2>6 DEF EditorInv
<1>3. CASE Resend(i)
  <2> DEFINE m == [id |-> tId, pdu |-> store[tId].pdu, now |-> TRUE]
             stopped == [store EXCEPT ![i].timer = FALSE]
  <2>1. /\ tId \in DOMAIN store /\ store[tId].retries > 0 /\ Write(m)
        /\ store' = [stopped EXCEPT ![tId] = Again(store[tId])]
        /\ UNCHANGED <<connectEnabled, sendEnabled, device, tId, errors, crashed>>
    BY <1>3 DEF Resend, Pending
  <2>2. store[tId] \in Elements
    BY <1>T, <2>1
  <2>3. m \in Messages /\ m.now
    BY <1>T, <2>2 DEF Messages, Elements
  <2>4. Again(store[tId]) \in Elements /\ Again(store[tId]).reused = store[tId].reused
    BY <2>1, <2>2, ElementChanges
  <2>5. /\ stopped \in [DOMAIN store -> Elements]
        /\ \A j \in DOMAIN store : stopped[j].reused = store[j].reused
    BY <1>1, <1>T, StopTimer
  <2> HIDE DEF m, stopped
  <2>6. /\ store' \in [DOMAIN store -> Elements] /\ DOMAIN store' = DOMAIN store
        /\ \A j \in DOMAIN store : store'[j].reused = store[j].reused
    BY <2>1, <2>4, <2>5
  <2>7. NoneSince(requests, store') /\ NoneSince(answers, store')
    BY <1>T, <2>6, NoneSinceKept
  <2>8. /\ ConnectionTypeOK(Messages)' /\ UNCHANGED <<state, answers>>
        /\ NoneSince(requests', store') /\ NoneSince(answers', store')
    BY <1>T, <2>1, <2>3, <2>7, WriteKeeps
  <2>9. EditorTypeOK'
    BY <1>T, <2>1, <2>6, <2>8 DEF EditorTypeOK, Pending
  <2>10. WithDevice' /\ OneRequest'
    BY <1>1, <2>1, <2>6, <2>8 DEF EditorInv, WithDevice, OneRequest, Pending
  <2>11. QED
    BY <2>8, <2>9, <2>10 DEF EditorInv
<1>4. ASSUME Take(tId), UNCHANGED <<connectEnabled, device, tId, crashed, connectionVars>>,
             sendEnabled' \in BOOLEAN, errors' \in 0..MaxErrors, tId \in DOMAIN store
      PROVE  EditorInv'
  <2>1. /\ DOMAIN store' = DOMAIN store \ {tId} /\ store' \in [DOMAIN store' -> Elements]
        /\ \A j \in DOMAIN store' : store'[j].reused = store[j].reused
    BY <1>T, <1>4, TakenFromStore
  <2>2. NoneSince(requests', store') /\ NoneSince(answers', store')
    BY <1>T, <1>4, <2>1, NoneSinceKept DEF connectionVars
  <2>3. EditorTypeOK'
    BY <1>T, <1>4, <2>1 DEF EditorTypeOK, ConnectionTypeOK, Pending, connectionVars
  <2>4. DOMAIN store' = {}
    BY <1>4, <2>1 DEF EditorInv, OneRequest, Pending
  <2>5. WithDevice' /\ OneRequest'
    BY <1>1, <1>4, <2>4 DEF EditorInv, WithDevice, OneRequest, Pending, connectionVars
  <2>6. QED
    BY <2>2, <2>3, <2>5 DEF EditorInv
<1>5. CASE ResendFails(i)
  <2>1. errors' \in 0..MaxErrors
    BY <1>5, <1>T, EditorAssumption DEF ResendFails, SetError, EditorTypeOK
  <2>2. sendEnabled' \in BOOLEAN
    BY <1>5, <1>T DEF ResendFails, EditorTypeOK
  <2>3. QED
    BY <1>4, <1>5, <2>1, <2>2 DEF ResendFails, Pending
<1>6. CASE TimeoutError(i)
  <2>1. errors' \in 0..MaxErrors /\ sendEnabled' \in BOOLEAN
    BY <1>6, <1>T DEF TimeoutError, EditorTypeOK
  <2>2. QED
    BY <1>4, <1>6, <2>1 DEF TimeoutError, Pending
<1>7. QED
  BY <1>2, <1>3, <1>5, <1>6 DEF Timeout

LEMMA EditorSteps ==
  ASSUME EditorInv, client = "editor", UNCHANGED client,
         EditorUser \/ ErrorOccurred \/ \E i \in Ids : Timeout(i)
  PROVE  EditorInv'
<1>T. EditorTypeOK /\ ConnectionTypeOK(Messages)
  BY DEF EditorInv, EditorTypeOK
<1>1. CASE EditorConnect
  <2>1. device = "none" /\ DOMAIN store = {} /\ requests = <<>> /\ answers = <<>>
    BY <1>1 DEF EditorConnect, EditorInv, WithDevice
  <2>2. /\ connectEnabled' = FALSE /\ sendEnabled' = TRUE /\ device' = "made"
        /\ state' = "Connecting" /\ UNCHANGED <<tId, store, errors, crashed, link, requests, answers>>
    BY <1>1 DEF EditorConnect, ConnectDevice
  <2>3. EditorTypeOK'
    BY <1>T, <2>2 DEF EditorTypeOK, ConnectionTypeOK, Pending, States
  <2>4. WithDevice' /\ OneRequest'
    BY <2>1, <2>2 DEF WithDevice, OneRequest, Pending, EditorInv
  <2>5. QED
    BY <2>2, <2>3, <2>4 DEF EditorInv
<1>2. ASSUME DisconnectClicked, errors' \in 0..MaxErrors, crashed' \in BOOLEAN
      PROVE  EditorInv'
  BY <1>2, DisconnectSteps
<1>3. CASE EditorDisconnect
  BY <1>2, <1>3, <1>T DEF EditorDisconnect, EditorTypeOK
<1>4. ASSUME UNCHANGED <<connectEnabled, sendEnabled, device, store, connectionVars>>,
             tId' \in Ids, errors' \in 0..MaxErrors, crashed' \in BOOLEAN
      PROVE  EditorInv'
  <2>1. UNCHANGED <<state, link, requests, answers>>
    BY <1>4 DEF connectionVars
  <2>2. EditorTypeOK'
    BY <1>4, <1>T, <2>1 DEF EditorTypeOK, ConnectionTypeOK, Pending
  <2>3. WithDevice' /\ OneRequest'
    BY <1>4, <2>1 DEF EditorInv, WithDevice, OneRequest, Pending
  <2>4. QED
    BY <1>4, <2>1, <2>2, <2>3 DEF EditorInv
<1>5. CASE ErrorOccurred
  <2>1. errors' \in 0..MaxErrors
    BY <1>5, <1>T, EditorAssumption DEF ErrorOccurred, EditorTypeOK
  <2>2. CASE device = "none"
    BY <1>4, <1>5, <1>T, <2>1, <2>2 DEF ErrorOccurred, EditorTypeOK
  <2>3. CASE device # "none"
    BY <1>2, <1>5, <1>T, <2>1, <2>3 DEF ErrorOccurred, EditorTypeOK
  <2>4. QED
    BY <2>2, <2>3
<1>6. CASE ValueChanged
  BY <1>4, <1>6, <1>T DEF ValueChanged, EditorTypeOK
<1>7. CASE SendWithoutDevice
  BY <1>4, <1>7, <1>T DEF SendWithoutDevice, EditorTypeOK
<1>8. CASE SendFails
  <2>1. errors' \in 0..MaxErrors
    BY <1>8, <1>T, EditorAssumption DEF SendFails, SetError, EditorTypeOK
  <2>2. QED
    BY <1>4, <1>8, <1>T, <2>1 DEF SendFails, EditorTypeOK
<1>9. QED
  BY <1>1, <1>3, <1>5, <1>6, <1>7, <1>8, EnqueueSteps, TimeoutSteps DEF EditorUser

(* A step of the slave, of the connection or of the master that leaves the *)
(* editor's variables alone, and of the connection only takes away.        *)
LEMMA EditorLeftAlone ==
  ASSUME EditorInv, UNCHANGED <<client, editorVars>>,
         state' \in States, link' \in {"none", "up", "cut"},
         requests' \in Seq(Messages), answers' \in Seq(Messages),
         NoneSince(requests', store), NoneSince(answers', store),
         requests = <<>> /\ answers = <<>> => requests' = <<>> /\ answers' = <<>>,
         client = "editor" /\ device = "none" => state' = "Unconnected"
  PROVE  EditorInv'
<1>1. UNCHANGED <<connectEnabled, sendEnabled, device, tId, store, errors, crashed>>
  BY DEF editorVars
<1>2. EditorTypeOK'
  BY <1>1 DEF EditorInv, EditorTypeOK, ConnectionTypeOK, Pending
<1>3. WithDevice' /\ OneRequest'
  BY <1>1 DEF EditorInv, WithDevice, OneRequest, Pending
<1>4. QED
  BY <1>1, <1>2, <1>3 DEF EditorInv

LEMMA SlaveLeavesEditor ==
  ASSUME EditorInv, UNCHANGED <<client, editorVars>>, SlaveActs \/ SlaveServes \/ SlaveIgnores
  PROVE  EditorInv'
<1>T. /\ requests \in Seq(Messages) /\ answers \in Seq(Messages)
      /\ state \in States /\ link \in {"none", "up", "cut"}
      /\ NoneSince(requests, store) /\ NoneSince(answers, store)
      /\ client = "editor" /\ device = "none" => state = "Unconnected"
  BY DEF EditorInv, EditorTypeOK, ConnectionTypeOK, WithDevice
<1>1. CASE UNCHANGED connectionVars
  BY <1>1, <1>T, EditorLeftAlone DEF connectionVars
<1>2. CASE Cut
  BY <1>2, <1>T, EditorLeftAlone, Emptied, NoneSinceEmpty DEF Cut
<1>3. CASE SlaveServes
  <2>1. /\ requests # <<>> /\ requests' = Tail(requests)
        /\ answers' = Append(answers, Head(requests)) /\ UNCHANGED <<state, link>>
    BY <1>3 DEF SlaveServes
  <2>2. /\ requests' \in Seq(Messages) /\ Head(requests) \in Messages
        /\ NoneSince(requests', store) /\ Known(Head(requests), store)
    BY <1>T, <2>1, HeadTail, NoneSinceTail
  <2>3. answers' \in Seq(Messages) /\ NoneSince(answers', store)
    BY <1>T, <2>1, <2>2, Appended, NoneSinceAppend
  <2>4. QED
    BY <1>T, <2>1, <2>2, <2>3, EditorLeftAlone
<1>4. CASE SlaveIgnores
  <2>1. requests # <<>> /\ requests' = Tail(requests) /\ UNCHANGED <<answers, state, link>>
    BY <1>4 DEF SlaveIgnores
  <2>2. requests' \in Seq(Messages) /\ NoneSince(requests', store)
    BY <1>T, <2>1, HeadTail, NoneSinceTail
  <2>3. QED
    BY <1>T, <2>1, <2>2, EditorLeftAlone
<1>5. QED
  BY <1>1, <1>2, <1>3, <1>4 DEF SlaveActs

LEMMA MasterLeavesEditor ==
  ASSUME EditorInv, UNCHANGED <<client, editorVars>>, client = "master", MasterUser \/ Closed
  PROVE  EditorInv'
<1>T. /\ requests = <<>> /\ answers = <<>>
      /\ state \in States /\ link \in {"none", "up", "cut"}
  BY DEF EditorInv, EditorTypeOK, ConnectionTypeOK, WithDevice
<1>1. /\ requests' = <<>> /\ answers' = <<>>
      /\ state' \in States /\ link' \in {"none", "up", "cut"}
  BY <1>T DEF MasterUser, MasterConnect, MasterConnectFails, MasterDisconnect, ChangeMasterType,
              Closed, SetAddress, SetSize, ConnectDevice, HangUp, States, connectionVars
<1>2. QED
  BY <1>1, EditorLeftAlone, Emptied, NoneSinceEmpty

LEMMA NetworkSteps ==
  ASSUME EditorInv, UNCHANGED client, client \in {"editor", "master"}, Network
  PROVE  EditorInv'
<1>T. /\ EditorTypeOK /\ requests \in Seq(Messages) /\ answers \in Seq(Messages)
      /\ state \in States /\ link \in {"none", "up", "cut"}
      /\ NoneSince(requests, store) /\ NoneSince(answers, store)
      /\ device \in {"none", "made"} /\ sendEnabled \in BOOLEAN
      /\ client = "editor" /\ device = "none" => state = "Unconnected"
  BY DEF EditorInv, EditorTypeOK, ConnectionTypeOK, WithDevice
<1>0. ASSUME UNCHANGED <<device, connectEnabled>>, EditorTypeOK', OneRequest',
             NoneSince(requests', store'), NoneSince(answers', store'),
             device = "none" => /\ UNCHANGED store /\ requests' = <<>> /\ answers' = <<>>
                                /\ client = "editor" => state' = "Unconnected"
      PROVE  EditorInv'
  BY <1>0 DEF EditorInv, WithDevice
<1>1. CASE Opened
  <2>1. /\ UNCHANGED editorVars /\ state = "Connecting" /\ state' = "Connected" /\ link' = "up"
        /\ UNCHANGED <<requests, answers>>
    BY <1>1 DEF Opened, Established
  <2>2. QED
    BY <1>T, <2>1, EditorLeftAlone DEF States
<1>2. CASE Refused
  <2>1. /\ state' = "Unconnected" /\ link' = "none" /\ requests' = <<>> /\ answers' = <<>>
        /\ UNCHANGED <<connectEnabled, sendEnabled, device, tId, store, crashed>>
        /\ errors' = errors \/ SetError
    BY <1>2 DEF Refused, HangUp, editorVars
  <2>2. errors' \in 0..MaxErrors
    BY <1>T, <2>1, EditorAssumption DEF SetError, EditorTypeOK
  <2>3. EditorTypeOK'
    BY <1>T, <2>1, <2>2, Emptied DEF EditorTypeOK, ConnectionTypeOK, Pending, States
  <2>4. OneRequest'
    BY <2>1 DEF EditorInv, OneRequest, Pending
  <2>5. QED
    BY <1>0, <2>1, <2>3, <2>4, NoneSinceEmpty
<1>3. CASE RemoteClosed
  <2>1. /\ state = "Connected"
        /\ state' = "Unconnected" /\ link' = "none" /\ requests' = <<>> /\ answers' = <<>>
        /\ UNCHANGED <<connectEnabled, device, tId, crashed>>
        /\ \/ UNCHANGED <<errors, store, sendEnabled>> /\ client = "master"
           \/ SetError /\ store' = <<>> /\ sendEnabled' \in BOOLEAN /\ client = "editor"
    BY <1>3, <1>T DEF RemoteClosed, HangUp, editorVars, CleanupTransactionStore
  <2>2. errors' \in 0..MaxErrors
    BY <1>T, <2>1, EditorAssumption DEF SetError, EditorTypeOK
  <2>3. /\ DOMAIN store' \subseteq DOMAIN store /\ store' \in [DOMAIN store' -> Elements]
        /\ UNCHANGED store \/ DOMAIN store' = {}
    BY <1>T, <2>1, EmptyStore DEF EditorTypeOK, Pending
  <2>4. EditorTypeOK'
    BY <1>T, <2>1, <2>2, <2>3, Emptied DEF EditorTypeOK, ConnectionTypeOK, Pending, States
  <2>5. OneRequest'
    <3>1. CASE DOMAIN store' = {}
      BY <3>1 DEF OneRequest, Pending
    <3>2. CASE UNCHANGED <<store, sendEnabled>>
      BY <2>1, <3>2 DEF EditorInv, OneRequest, Pending
    <3>3. QED
      BY <2>1, <3>1, <3>2, EmptyStore
  <2>6. device = "none" => UNCHANGED store
    BY <1>T, <2>1
  <2>7. QED
    BY <1>0, <2>1, <2>4, <2>5, <2>6, NoneSinceEmpty
<1>4. CASE Answered
  <2> DEFINE id == Head(answers).id
  <2>1. /\ answers # <<>> /\ answers' = Tail(answers)
        /\ IF id \in DOMAIN store THEN Take(id) /\ sendEnabled' = TRUE
           ELSE UNCHANGED <<store, sendEnabled>>
        /\ UNCHANGED <<connectEnabled, device, tId, errors, crashed, state, link, requests>>
    BY <1>4 DEF Answered, Pending
  <2>2. answers' \in Seq(Messages) /\ NoneSince(answers', store) /\ id \in Ids
    <3>1. Head(answers) \in Messages /\ answers' \in Seq(Messages) /\ NoneSince(answers', store)
      BY <1>T, <2>1, HeadTail, NoneSinceTail
    <3>2. QED
      BY <3>1 DEF Messages
  <2> HIDE DEF id
  <2>3. device = "made"
    BY <1>T, <2>1 DEF EditorInv, WithDevice
  <2>4. CASE id \in DOMAIN store
    <3>1. /\ DOMAIN store' = DOMAIN store \ {id} /\ store' \in [DOMAIN store' -> Elements]
          /\ \A j \in DOMAIN store' : store'[j].reused = store[j].reused
      BY <1>T, <2>1, <2>2, <2>4, TakenFromStore
    <3>2. DOMAIN store' = {}
      BY <2>4, <3>1 DEF EditorInv, OneRequest, Pending
    <3>3. EditorTypeOK'
      BY <1>T, <2>1, <2>2, <2>4, <3>1 DEF EditorTypeOK, ConnectionTypeOK, Pending
    <3>4. NoneSince(requests', store') /\ NoneSince(answers', store')
      BY <3>2 DEF NoneSince, Known
    <3>5. OneRequest'
      BY <3>2 DEF OneRequest, Pending
    <3>6. QED
      BY <1>0, <2>1, <2>3, <3>3, <3>4, <3>5
  <2>5. CASE id \notin DOMAIN store
    <3>1. UNCHANGED <<store, sendEnabled>>
      BY <2>1, <2>5
    <3>2. EditorTypeOK'
      BY <1>T, <2>1, <2>2, <3>1 DEF EditorTypeOK, ConnectionTypeOK, Pending
    <3>3. OneRequest'
      BY <2>1, <3>1 DEF EditorInv, OneRequest, Pending
    <3>4. QED
      BY <1>0, <1>T, <2>1, <2>2, <2>3, <3>1, <3>2, <3>3
  <2>6. QED
    BY <2>4, <2>5
<1>5. QED
  BY <1>1, <1>2, <1>3, <1>4 DEF Network

(* The master's window hears what the connection tells.                    *)
LEMMA NetworkOfMaster ==
  ASSUME MasterTypeOK, Selection, client = "master" => MasterShown, UNCHANGED client,
         client \in {"editor", "master"}, Network
  PROVE  MasterTypeOK' /\ Selection' /\ (client' = "master" => MasterShown')
<1>T. masterWindow \in Windows
  BY DEF MasterTypeOK
<1>1. /\ UNCHANGED <<masterType, selection>> /\ masterWindow' \in Windows
      /\ client = "master" => MasterShown'
  <2>1. CASE client = "master" /\ Opened
    <3>1. /\ masterWindow' = OnStateChanged(masterWindow, "Connected")
          /\ UNCHANGED <<masterType, selection>>
      BY <2>1 DEF Opened, Hears
    <3>2. ShowsConnected(masterWindow')
      BY <3>1 DEF OnStateChanged, ShowsConnected
    <3>3. QED
      BY <1>T, <3>1, <3>2, WindowTypes DEF MasterShown
  <2>2. CASE client = "master" /\ Refused
    BY <1>T, <2>2, WindowTypes DEF Refused, HangUp, Hears, MasterShown
  <2>3. CASE client = "master" /\ RemoteClosed
    BY <1>T, <2>3, WindowTypes DEF RemoteClosed, HangUp, Hears, MasterShown
  <2>4. CASE Answered
    BY <1>T, <2>4 DEF Answered, masterVars, selection, MasterShown
  <2>5. CASE client = "editor"
    BY <1>T, <2>5 DEF Network, Opened, Refused, RemoteClosed, Answered, masterVars, selection
  <2>6. QED
    BY <2>1, <2>2, <2>3, <2>4, <2>5 DEF Network
<1>2. QED
  BY <1>1 DEF MasterTypeOK, Selection, selection

-----------------------------------------------------------------------------
LEMMA QuietKept ==
  ASSUME Quiet, Next, requests \in Seq(Messages), answers \in Seq(Messages)
  PROVE  Quiet'
<1>1. CASE UNCHANGED connectionVars
  BY <1>1 DEF Quiet, connectionVars
<1>2. CASE UNCHANGED connectionVars \/ Cut \/ SlaveServes \/ SlaveIgnores
  BY <1>2 DEF Quiet, connectionVars, Cut, SlaveServes, SlaveIgnores
<1>3. CASE \E s : HangUp(s)
  BY <1>3 DEF Quiet, HangUp
<1>4. CASE Opened \/ Answered
  BY <1>4 DEF Quiet, Opened, Established, Answered
<1>5. ASSUME NEW pdu, Enqueue(pdu)
      PROVE  Quiet'
  BY <1>5 DEF Quiet, Enqueue
<1>6. ASSUME NEW m, Write(m)
      PROVE  Quiet'
  BY <1>6 DEF Quiet, Write
<1>7. ASSUME NEW i, Timeout(i)
      PROVE  Quiet'
  BY <1>1, <1>6, <1>7 DEF Timeout, TimeoutOfAnother, Resend, ResendFails, TimeoutError
<1>8. CASE ConnectDevice
  BY <1>8 DEF Quiet, ConnectDevice
<1>9. CASE Network
  BY <1>3, <1>4, <1>9 DEF Network, Refused, RemoteClosed
<1>10. CASE EditorUser \/ ErrorOccurred
  BY <1>1, <1>3, <1>5, <1>8, <1>10
     DEF EditorUser, EditorConnect, EditorDisconnect, DisconnectClicked, ValueChanged,
         SendWithoutDevice, SendFails, ErrorOccurred
<1>11. CASE MasterUser \/ Closed
  <2>1. CASE MasterConnect
    BY <1>8, <2>1 DEF MasterConnect, Quiet
  <2>2. QED
    BY <1>1, <1>3, <1>11, <2>1
       DEF MasterUser, MasterConnectFails, MasterDisconnect, ChangeMasterType, Closed, SetAddress,
           SetSize
<1>12. QED
  BY <1>2, <1>7, <1>9, <1>10, <1>11 DEF Next, SlaveActs

LEMMA Initially == Init => IInv
<1> SUFFICES ASSUME Init PROVE IInv
  OBVIOUS
<1>1. SlaveTypeOK /\ WidgetsShowTables /\ SlaveShown
  <2>1. /\ connectType = "Serial" /\ slaveState = "Unconnected" /\ slaveWindow = InitActions
        /\ widgets = [t \in Tables |-> [r \in Rows |-> IF t \in Bits THEN 0 ELSE Empty]]
        /\ data = SetupDeviceData(widgets) /\ setBusyBox = FALSE /\ deviceBusy = FALSE
    BY DEF Init, SlaveInit
  <2>2. \A t \in Tables, r \in Rows :
          widgets[t][r] = (IF t \in Bits THEN 0 ELSE Empty) /\ data[t][r] = 0
    BY <2>1 DEF SetupDeviceData, ToInt, Empty
  <2>3. data \in [Tables -> [Rows -> Numbers]]
    BY <2>1, SlaveAssumption DEF SetupDeviceData, ToInt, Empty
  <2>4. widgets \in [Tables -> [Rows -> Numbers \union {Empty}]]
    BY <2>1, SlaveAssumption
  <2>5. \A t \in Tables, r \in Rows : widgets[t][r] \in Texts(t)
    BY <2>2 DEF Texts
  <2>6. InitActions \in Windows
    BY DEF InitActions, Windows
  <2>7. QED
    BY <2>1, <2>3, <2>4, <2>5, <2>6 DEF SlaveTypeOK, WidgetsShowTables, SlaveShown
<1>2. EditorInv /\ Quiet
  <2>1. /\ connectEnabled = TRUE /\ sendEnabled = FALSE /\ device = "none" /\ crashed = FALSE
        /\ tId \in Ids /\ store = <<>> /\ errors = 0
        /\ state = "Unconnected" /\ link = "none" /\ requests = <<>> /\ answers = <<>>
    BY DEF Init, EditorInit, ConnectionInit
  <2>2. EditorTypeOK
    <3>1. 0 \in 0..MaxErrors
      BY EditorAssumption
    <3>2. DOMAIN store \subseteq Ids /\ store \in [DOMAIN store -> Elements]
      BY <2>1, EmptyStore
    <3>3. ConnectionTypeOK(Messages)
      BY <2>1, Emptied DEF ConnectionTypeOK, States
    <3>4. QED
      BY <2>1, <3>1, <3>2, <3>3 DEF EditorTypeOK, Pending
  <2>3. WithDevice /\ OneRequest
    BY <2>1, EmptyStore DEF WithDevice, OneRequest, Pending
  <2>4. QED
    BY <2>1, <2>2, <2>3, NoneSinceEmpty DEF EditorInv, Quiet
<1>3. MasterTypeOK /\ Selection /\ (client = "master" => MasterShown)
  <2>1. InitActions \in Windows
    BY DEF InitActions, Windows
  <2>2. QED
    BY <2>1, MasterAssumption
       DEF Init, MasterInit, ConnectionInit, MasterTypeOK, Selection, MasterShown
<1>4. QED
  BY <1>1, <1>2, <1>3 DEF IInv, Init

LEMMA Inductive == IInv /\ [Next]_vars => IInv'
<1> SUFFICES ASSUME IInv, [Next]_vars PROVE IInv'
  OBVIOUS
<1>T. /\ client \in {"editor", "master"} /\ SlaveTypeOK /\ WidgetsShowTables /\ SlaveShown
      /\ EditorInv /\ Quiet /\ MasterTypeOK /\ Selection /\ (client = "master" => MasterShown)
      /\ requests \in Seq(Messages) /\ answers \in Seq(Messages)
  BY DEF IInv, EditorInv, EditorTypeOK, ConnectionTypeOK
<1>1. CASE UNCHANGED vars
  <2>1. /\ UNCHANGED <<client, connectType, slaveState, slaveWindow, data, widgets, setBusyBox, deviceBusy>>
        /\ UNCHANGED <<connectEnabled, sendEnabled, device, tId, store, errors, crashed>>
        /\ UNCHANGED <<masterType, masterWindow, writeAddress, writeSize, modelAddress, modelNumber>>
        /\ UNCHANGED <<state, link, requests, answers>>
    BY <1>1 DEF vars, slaveVars, editorVars, masterVars, connectionVars
  <2>2. SlaveTypeOK' /\ WidgetsShowTables' /\ SlaveShown'
    BY <1>T, <2>1, SlaveSteps DEF slaveVars
  <2>3. EditorInv'
    BY <1>T, <2>1, EditorLeftAlone
       DEF editorVars, EditorInv, EditorTypeOK, ConnectionTypeOK, WithDevice
  <2>4. MasterTypeOK' /\ Selection' /\ (client' = "master" => MasterShown') /\ Quiet'
    BY <1>T, <2>1 DEF MasterTypeOK, Selection, MasterShown, Quiet
  <2>5. QED
    BY <1>T, <2>1, <2>2, <2>3, <2>4 DEF IInv
<1>2. CASE Next
  <2>0. Quiet'
    BY <1>2, <1>T, QuietKept
  <2>1. CASE UNCHANGED <<client, editorVars, masterVars>> /\ (SlaveActs \/ SlaveServes \/ SlaveIgnores)
    <3>1. SlaveTypeOK' /\ WidgetsShowTables' /\ SlaveShown'
      <4>1. CASE SlaveActs \/ SlaveIgnores
        BY <1>T, <4>1, SlaveSteps DEF SlaveActs, SlaveIgnores
      <4>2. CASE SlaveServes
        <5>1. Head(requests) \in Messages
          BY <1>T, <4>2, HeadTail DEF SlaveServes
        <5>2. Head(requests).pdu \in Pdus
          BY <5>1 DEF Messages
        <5>3. QED
          BY <1>T, <4>2, <5>2, SlaveSteps DEF SlaveServes
      <4>3. QED
        BY <2>1, <4>1, <4>2
    <3>2. EditorInv'
      BY <1>T, <2>1, SlaveLeavesEditor
    <3>3. MasterTypeOK' /\ Selection' /\ (client' = "master" => MasterShown')
      <4>1. state' = state
        BY <2>1 DEF SlaveActs, SlaveServes, SlaveIgnores, Cut, connectionVars
      <4>2. QED
        BY <1>T, <2>1, <4>1 DEF MasterTypeOK, Selection, MasterShown, masterVars
    <3>4. QED
      BY <1>T, <2>0, <2>1, <3>1, <3>2, <3>3 DEF IInv
  <2>2. CASE UNCHANGED <<client, slaveVars>> /\ Network
    <3>1. SlaveTypeOK' /\ WidgetsShowTables' /\ SlaveShown'
      BY <1>T, <2>2, SlaveSteps
    <3>2. EditorInv'
      BY <1>T, <2>2, NetworkSteps
    <3>3. MasterTypeOK' /\ Selection' /\ (client' = "master" => MasterShown')
      BY <1>T, <2>2, NetworkOfMaster
    <3>4. QED
      BY <1>T, <2>0, <2>2, <3>1, <3>2, <3>3 DEF IInv
  <2>3. CASE /\ UNCHANGED <<client, slaveVars, masterVars>> /\ client = "editor"
             /\ EditorUser \/ ErrorOccurred \/ \E i \in Ids : Timeout(i)
    <3>1. SlaveTypeOK' /\ WidgetsShowTables' /\ SlaveShown'
      BY <1>T, <2>3, SlaveSteps
    <3>2. EditorInv'
      BY <1>T, <2>3, EditorSteps
    <3>3. MasterTypeOK' /\ Selection'
      BY <1>T, <2>3 DEF MasterTypeOK, Selection, masterVars
    <3>4. QED
      BY <1>T, <2>0, <2>3, <3>1, <3>2, <3>3 DEF IInv
  <2>4. CASE /\ UNCHANGED <<client, slaveVars, editorVars>> /\ client = "master"
             /\ MasterUser \/ Closed
    <3>1. SlaveTypeOK' /\ WidgetsShowTables' /\ SlaveShown'
      BY <1>T, <2>4, SlaveSteps
    <3>2. EditorInv'
      BY <1>T, <2>4, MasterLeavesEditor
    <3>3. MasterTypeOK' /\ Selection' /\ MasterShown'
      BY <1>T, <2>4, MasterSteps
    <3>4. QED
      BY <1>T, <2>0, <2>4, <3>1, <3>2, <3>3 DEF IInv
  <2>5. QED
    BY <1>2, <2>1, <2>2, <2>3, <2>4 DEF Next
<1>3. QED
  BY <1>1, <1>2

LEMMA Invariance == Spec => []IInv
<1>1. QED
  BY Initially, Inductive, PTL DEF Spec

(* The types of the three windows and of the connection.                   *)
THEOREM TypeCorrect == Spec => []TypeOK
<1>1. IInv => TypeOK
  BY DEF IInv, EditorInv, TypeOK
<1>2. QED
  BY <1>1, Invariance, PTL

(* The slave's boxes and lines show what a client reads from its device,   *)
(* for any tables and rows, whoever wrote it and however often the type of *)
(* connection was changed.                                                 *)
THEOREM WidgetsTell == Spec => []WidgetsShowTables
<1>1. IInv => WidgetsShowTables
  BY DEF IInv
<1>2. QED
  BY <1>1, Invariance, PTL

(* A device that is connected is shown so by its window.                   *)
THEOREM ConnectionShown == Spec => []ConnectedIsShown
<1>1. IInv => ConnectedIsShown
  BY DEF IInv, ConnectedIsShown
<1>2. QED
  BY <1>1, Invariance, PTL

(* The editor has one request pending at most, and then Send is disabled.  *)
THEOREM OneRequestPending == Spec => []OneRequest
<1>1. IInv => OneRequest
  BY DEF IInv, EditorInv
<1>2. QED
  BY <1>1, Invariance, PTL

(* No write request sends a row that the user could not edit, for a table, *)
(* a limit and a combo box of any length.                                  *)
THEOREM WrittenRowsEditable == Spec => []WrittenIsEditable
<1>1. IInv => WrittenIsEditable
  BY EditableRows DEF IInv, WrittenIsEditable
<1>2. QED
  BY <1>1, Invariance, PTL

(* Once the rows of a write are those that can be edited they stay so, and *)
(* the first change of the size makes them so.                             *)
THEOREM EditableRowsWritten == Spec => EditableStaysWritten
<1> DEFINE A == Editable = Written \/ writeSize' # writeSize => Editable' = Written'
<1>1. ASSUME IInv, IInv', [Next]_vars
      PROVE  A
  <2> SUFFICES ASSUME Editable = Written \/ writeSize' # writeSize
               PROVE  Editable' = Written'
    OBVIOUS
  <2>1. ToldOfSize'
    BY <1>1, EditableRowsAfter DEF IInv
  <2>2. UNCHANGED selection => Editable' = Written'
    BY <1>1 DEF selection, Editable, Written
  <2>3. CASE UNCHANGED <<writeSize, modelNumber>> /\ modelNumber # writeSize
    <3>1. writeAddress' = 0 /\ writeAddress = 0
      BY <1>1, <2>3 DEF IInv, Selection
    <3>2. UNCHANGED selection
      BY <1>1, <2>3, <3>1 DEF IInv, Selection, selection
    <3>3. QED
      BY <2>2, <3>2
  <2>4. QED
    BY <1>1, <2>1, <2>2, <2>3, SelectionTold DEF IInv, ToldOfSize
<1>2. QED
  BY <1>1, Invariance, PTL DEF Spec, EditableStaysWritten

(* Send is enabled without a device only by a disconnect that finishes a   *)
(* pending request.                                                        *)
THEOREM SendOnlyAfterAbort == Spec => SendWithoutDeviceOnlyAfterAbort
<1> DEFINE A == sendEnabled' /\ device' = "none" =>
                  (sendEnabled /\ device = "none") \/ Pending # {}
<1>1. ASSUME [Next]_vars
      PROVE  A
  <2>1. CASE UNCHANGED <<sendEnabled, device>>
    BY <2>1
  <2>2. CASE DisconnectClicked
    BY <2>2 DEF DisconnectClicked
  <2>3. CASE Network
    <3>1. CASE Answered
      BY <3>1 DEF Answered
    <3>2. CASE RemoteClosed
      BY <3>2 DEF RemoteClosed, CleanupTransactionStore, editorVars
    <3>3. CASE Opened \/ Refused
      BY <2>1, <3>3 DEF Opened, Refused, editorVars
    <3>4. QED
      BY <2>3, <3>1, <3>2, <3>3 DEF Network
  <2>4. CASE EditorUser
    BY <2>1, <2>2, <2>4
       DEF EditorUser, EditorConnect, EditorDisconnect, ValueChanged, SendWithoutDevice, SendFails,
           Enqueue
  <2>5. CASE ErrorOccurred
    BY <2>1, <2>2, <2>5 DEF ErrorOccurred
  <2>6. ASSUME NEW i \in Ids, Timeout(i)
        PROVE  A
    BY <2>1, <2>6 DEF Timeout, TimeoutOfAnother, Resend, ResendFails, TimeoutError
  <2>7. CASE UNCHANGED editorVars
    BY <2>1, <2>7 DEF editorVars
  <2>8. QED
    BY <1>1, <2>3, <2>4, <2>5, <2>6, <2>7 DEF Next, vars
<1>2. QED
  BY <1>1, PTL DEF Spec, SendWithoutDeviceOnlyAfterAbort

(* The answer of an earlier request finishes the present one only if the   *)
(* user sent it under an identifier that was still under way: what is sent *)
(* again by a timer is the request of that identifier, whichever timer.    *)
THEOREM AnswersOwn == Spec => OwnAnswer
<1> DEFINE A == \A i \in Pending \ DOMAIN store' :
                  answers # <<>> /\ answers' = Tail(answers) /\ state' = state
                    => Head(answers).now \/ store[i].reused
<1>1. ASSUME IInv, [Next]_vars
      PROVE  A
  <2>T. /\ EditorInv /\ Quiet /\ answers \in Seq(Messages) /\ EditorTypeOK
        /\ DOMAIN store \subseteq Ids
    BY <1>1 DEF IInv, EditorInv, EditorTypeOK, ConnectionTypeOK, Pending
  <2>1. CASE UNCHANGED answers
    <3>1. answers # <<>> => Len(Tail(answers)) # Len(answers)
      BY <2>T, HeadTail
    <3>2. QED
      BY <2>1, <3>1
  <2>2. CASE DOMAIN store \subseteq DOMAIN store'
    BY <2>2 DEF Pending
  <2>3. CASE \E s : HangUp(s) /\ s # "Connected"
    <3>1. state' # "Connected"
      BY <2>3 DEF HangUp
    <3>2. QED
      BY <2>T, <3>1 DEF Quiet
  <2>4. CASE Answered
    <3> DEFINE id == Head(answers).id
    <3>1. /\ answers # <<>>
          /\ IF id \in DOMAIN store THEN Take(id) ELSE UNCHANGED store
      BY <2>4 DEF Answered, Pending
    <3>2. Known(Head(answers), store) /\ Head(answers) \in Messages
      BY <2>T, <3>1, NoneSinceTail, HeadTail DEF EditorInv
    <3>3. id \in Ids
      BY <3>2 DEF Messages
    <3>4. CASE id \in DOMAIN store
      <4>1. DOMAIN store' = DOMAIN store \ {id}
        BY <2>T, <3>1, <3>3, <3>4, TakenFromStore
      <4>2. DOMAIN store \ DOMAIN store' \subseteq {id}
        BY <4>1
      <4>3. Head(answers).now \/ store[id].reused
        BY <3>2, <3>4 DEF Known
      <4>4. QED
        BY <4>2, <4>3 DEF Pending
    <3>5. CASE id \notin DOMAIN store
      BY <2>2, <3>1, <3>5
    <3>6. QED
      BY <3>4, <3>5
  <2>5. CASE UNCHANGED editorVars
    BY <2>2, <2>5 DEF editorVars
  <2>6. CASE Network
    BY <2>3, <2>4, <2>5, <2>6 DEF Network, Opened, Refused, RemoteClosed
  <2>7. CASE EditorUser
    <3>1. ASSUME NEW pdu, Enqueue(pdu)
          PROVE  DOMAIN store \subseteq DOMAIN store'
      BY <3>1 DEF Enqueue, Insert, Pending
    <3>2. QED
      BY <2>1, <2>2, <2>3, <2>7, <3>1
         DEF EditorUser, EditorConnect, EditorDisconnect, DisconnectClicked, ValueChanged,
             SendWithoutDevice, SendFails, connectionVars
  <2>8. CASE ErrorOccurred
    BY <2>1, <2>3, <2>8 DEF ErrorOccurred, DisconnectClicked, connectionVars
  <2>9. ASSUME NEW i \in Ids, Timeout(i)
        PROVE  A
    BY <2>1, <2>9
       DEF Timeout, TimeoutOfAnother, Resend, ResendFails, TimeoutError, Write, connectionVars
  <2>10. QED
    BY <1>1, <2>5, <2>6, <2>7, <2>8, <2>9 DEF Next, vars
<1>2. QED
  BY <1>1, Invariance, PTL DEF Spec, OwnAnswer
=============================================================================
