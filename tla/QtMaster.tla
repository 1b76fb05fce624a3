------------------------------- MODULE QtMaster -------------------------------
(***************************************************************************)
(* The window of the Qt master: its connection, and the table of values    *)
(* for write requests.  The user chooses an address and a number of rows,  *)
(* which the model of the table gets to know by signals of its own.  What  *)
(* the window does with answers is to list them.                           *)
(***************************************************************************)
EXTENDS QtConnection, QtWindow, FiniteSetsExt

CONSTANTS
  TableRows,   \* RowCount of writeregistermodel.cpp, 50 in the program
  WriteLimit,  \* the rows of a write, and its addresses: 10
  FirstItem    \* of the combo box as it is designed: 30

ASSUME MasterAssumption ==
  /\ {TableRows, WriteLimit, FirstItem} \subseteq Nat
  /\ 0 < WriteLimit /\ WriteLimit <= TableRows /\ WriteLimit <= FirstItem

VARIABLES
  masterType,     \* "Serial" or "Tcp"
  masterWindow,
  writeAddress,   \* the spin box
  writeSize,      \* the number shown in the combo box
  modelAddress,   \* m_address of WriteRegisterModel
  modelNumber     \* its m_number

masterVars == <<masterType, masterWindow, writeAddress, writeSize, modelAddress, modelNumber>>
selection  == <<writeAddress, writeSize, modelAddress, modelNumber>>

MasterTypeOK ==
  /\ masterType \in {"Serial", "Tcp"} /\ masterWindow \in Windows
  /\ {writeAddress, modelAddress} \subseteq 0..WriteLimit - 1
  /\ writeSize \in 1..WriteLimit /\ modelNumber \in 1..FirstItem

(* The model is given the number of the combo box while this has the items *)
(* 30 and 10 of the designer, and is not told that it gets the items 1 to  *)
(* 10 and shows 10: the signal is connected after that.                    *)
MasterInit ==
  /\ masterType = "Serial" /\ masterWindow = InitActions
  /\ writeAddress = 0 /\ modelAddress = 0
  /\ writeSize = WriteLimit /\ modelNumber = FirstItem
  /\ ConnectionInit

-----------------------------------------------------------------------------
(* The state of the device changes, and the window hears of it.            *)
Hears(s) == masterWindow' = OnStateChanged(masterWindow, s)

(* on_connectButton_clicked, of the button and of both actions.  A device  *)
(* that is connecting or closing refuses connectDevice, and all the click  *)
(* does is to show an error; a serial port is open at once.                *)
MasterConnect ==
  /\ state = "Unconnected"
  /\ IF masterType = "Tcp"
     THEN /\ ConnectDevice
          /\ masterWindow' = Offer(OnStateChanged(masterWindow, "Connecting"), FALSE)
     ELSE /\ state' = "Connected" /\ UNCHANGED <<link, requests, answers>>
          /\ masterWindow' =
               Offer(OnStateChanged(OnStateChanged(masterWindow, "Connecting"), "Connected"), FALSE)
  /\ UNCHANGED <<masterType, selection>>

(* No such port, or no valid address.                                      *)
MasterConnectFails ==
  /\ state = "Unconnected"
  /\ masterWindow' = OnStateChanged(OnStateChanged(masterWindow, "Connecting"), "Unconnected")
  /\ UNCHANGED <<masterType, selection, connectionVars>>

(* A socket with bytes to be written stays in "Closing" for a while.       *)
MasterDisconnect ==
  /\ state = "Connected"
  /\ \E s \in {"Closing", "Unconnected"} :
       /\ s = "Closing" => masterType = "Tcp"
       /\ HangUp(s)
       /\ masterWindow' = Offer(OnStateChanged(OnStateChanged(masterWindow, "Closing"), s), TRUE)
  /\ UNCHANGED <<masterType, selection>>

Closed ==
  /\ state = "Closing" /\ HangUp("Unconnected") /\ Hears("Unconnected")
  /\ UNCHANGED <<masterType, selection>>

(* on_connectType_currentIndexChanged: disconnectDevice, and the device is *)
(* deleted, closed or still closing.                                       *)
ChangeMasterType ==
  /\ masterType' = IF masterType = "Serial" THEN "Tcp" ELSE "Serial"
  /\ \/ state \in {"Connecting", "Connected"}
        /\ \/ Hears("Unconnected")
           \/ masterType = "Tcp" /\ Hears("Closing")
     \/ state \in {"Unconnected", "Closing"} /\ UNCHANGED masterWindow
  /\ HangUp("Unconnected")
  /\ UNCHANGED selection

-----------------------------------------------------------------------------
(* Faulty variants, for mutation: the model is not told of the smaller     *)
(* size, or not of the address.                                            *)
SetAddressQuietly(i) ==
  /\ writeAddress' = i /\ modelAddress' = i
  /\ writeSize' = Min({writeSize, WriteLimit - i})
  /\ UNCHANGED <<modelNumber, masterType, masterWindow, connectionVars>>
SetAddressUnheard(i) ==
  /\ writeAddress' = i
  /\ writeSize' = Min({writeSize, WriteLimit - i})
  /\ modelNumber' = IF writeSize > WriteLimit - i THEN WriteLimit - i ELSE modelNumber
  /\ UNCHANGED <<modelAddress, masterType, masterWindow, connectionVars>>

(* The address is changed: setStartAddress of the model, then the items    *)
(* that would go beyond the limit are disabled and a smaller one chosen,   *)
(* whose text goes to setNumberOfValues.                                   *)
SetAddress(i) ==
  /\ writeAddress' = i /\ modelAddress' = i
  /\ IF writeSize > WriteLimit - i
     THEN writeSize' = WriteLimit - i /\ modelNumber' = WriteLimit - i
     ELSE UNCHANGED <<writeSize, modelNumber>>
  /\ UNCHANGED <<masterType, masterWindow, connectionVars>>

SetSize(n) ==
  /\ n \in 1..WriteLimit - writeAddress
  /\ writeSize' = n
  /\ modelNumber' = IF n = writeSize THEN modelNumber ELSE n
  /\ UNCHANGED <<writeAddress, modelAddress, masterType, masterWindow, connectionVars>>

MasterUser ==
  \/ MasterConnect \/ MasterConnectFails \/ MasterDisconnect \/ ChangeMasterType
  \/ \E i \in 0..WriteLimit - 1 : SetAddress(i)
  \/ \E n \in 1..WriteLimit : SetSize(n)

-----------------------------------------------------------------------------
(* flags and writeRequest: the rows the user may edit, and those sent.     *)
Editable == {row \in 0..TableRows - 1 : modelAddress <= row /\ row < modelAddress + modelNumber}
Written  == writeAddress..writeAddress + Min({writeSize, WriteLimit - writeAddress}) - 1

(* The window, its two boxes and the model of the table each have their    *)
(* own idea of the rows of a write.  No row is sent that could not be      *)
(* edited.                                                                 *)
WrittenIsEditable == Written \subseteq Editable

(* At the start more rows can be edited than are sent (0 to 29 in the      *)
(* program, and 0 to 9).  From the first change of the size, by the user   *)
(* or by that of the address, what can be edited is what is sent.          *)
EditableStaysWritten ==
  [][Editable = Written \/ writeSize' # writeSize => Editable' = Written']_masterVars

MasterShown == state = "Connected" => ShowsConnected(masterWindow)
=============================================================================
