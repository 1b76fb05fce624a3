----------------------------- MODULE QtAduEditor -----------------------------
(***************************************************************************)
(* The ADU editor: a client whose user writes the header of a request, so  *)
(* that the transaction identifier, with which answers are matched and     *)
(* requests timed, is that of two spin boxes.  The client device is made   *)
(* by Connect and deleted by Disconnect; errors come through the queue of  *)
(* the event loop.  The connections of interface.ui run before the slots   *)
(* of the same button.                                                     *)
(***************************************************************************)
EXTENDS QtConnection, Functions

CONSTANTS
  Ids,         \* transaction identifiers
  Pdus,        \* requests the user writes
  Retries,     \* m_numberOfRetries
  MaxInFlight, \* bound: requests and answers under way when one more is sent
  MaxErrors    \* bound: calls in the queue of the event loop

ASSUME EditorAssumption ==
  Retries \in Nat /\ MaxInFlight \in Nat \ {0} /\ MaxErrors \in Nat \ {0}

VARIABLES
  connectEnabled, \* connectButton; disconnectButton is enabled when it is not
  sendEnabled,    \* sendButton
  device,         \* m_device: "none" or "made"
  tId,            \* of the spin boxes, which m_tId follows
  store,          \* m_transactionStore: the requests under their identifiers
  errors,         \* calls of the lambda of errorOccurred in the queue
  crashed         \* m_device was used after it was deleted

editorVars == <<connectEnabled, sendEnabled, device, tId, store, errors, crashed>>

(* A QueueElement; whether messages with its identifier were under way     *)
(* when it was enqueued is not kept by the program.                        *)
Elements == [pdu: Pdus, retries: 0..Retries, timer: BOOLEAN, reused: BOOLEAN]
Pending  == DOMAIN store

(* A message is an attempt at the request that waits for its answer now,   *)
(* or at an earlier one.                                                   *)
Messages == [id: Ids, pdu: Pdus, now: BOOLEAN]

EditorTypeOK ==
  /\ connectEnabled \in BOOLEAN /\ sendEnabled \in BOOLEAN /\ crashed \in BOOLEAN
  /\ device \in {"none", "made"}
  /\ tId \in Ids
  /\ Pending \subseteq Ids /\ store \in [Pending -> Elements]
  /\ errors \in 0..MaxErrors
  /\ ConnectionTypeOK(Messages)

EditorInit ==
  /\ connectEnabled = TRUE /\ sendEnabled = FALSE /\ device = "none" /\ crashed = FALSE
  /\ tId \in Ids
  /\ store = <<>> /\ errors = 0
  /\ ConnectionInit

-----------------------------------------------------------------------------
Insert(id, element) ==
  store' = [i \in Pending \union {id} |-> IF i = id THEN element ELSE store[i]]
Take(id) == store' = Restrict(store, Pending \ {id})

(* errorOccurred puts a call into the queue of the event loop.             *)
SetError == errors < MaxErrors /\ errors' = errors + 1

(* cleanupTransactionStore: what is pending finishes with an error, and    *)
(* the lambda of finished enables Send.                                    *)
CleanupTransactionStore ==
  /\ store' = <<>>
  /\ sendEnabled' = (sendEnabled \/ Pending # {})

(* connectButton.clicked.                                                  *)
EditorConnect ==
  /\ connectEnabled /\ ~crashed
  /\ connectEnabled' = FALSE /\ sendEnabled' = TRUE
  /\ device' = "made" /\ ConnectDevice
  /\ UNCHANGED <<tId, store, errors, crashed>>

(* Faulty variant, for mutation: Send stays as it is.                      *)
DisconnectKeepsSend ==
  /\ connectEnabled' = TRUE
  /\ device' = "none"
  /\ store' = <<>>
  /\ UNCHANGED sendEnabled
  /\ HangUp("Unconnected")
  /\ UNCHANGED tId

(* disconnectButton.clicked: Send is disabled, then disconnectAndDelete.   *)
(* disconnectDevice closes the socket at once, which cleans up the store,  *)
(* unless bytes are still to be written: then the device is deleted, with  *)
(* its replies, before anything finishes.                                  *)
DisconnectClicked ==
  /\ connectEnabled' = TRUE
  /\ device' = "none"
  /\ store' = <<>>
  /\ \E atOnce \in BOOLEAN : sendEnabled' = (atOnce /\ Pending # {})
  /\ HangUp("Unconnected")
  /\ UNCHANGED tId

EditorDisconnect ==
  /\ ~connectEnabled /\ ~crashed
  /\ DisconnectClicked
  /\ UNCHANGED <<errors, crashed>>

(* The lambda of errorOccurred asks m_device for the error and clicks      *)
(* Disconnect.                                                             *)
ErrorOccurred ==
  /\ errors > 0 /\ ~crashed /\ errors' = errors - 1
  /\ IF device = "none"
     THEN crashed' = TRUE
          /\ UNCHANGED <<connectEnabled, sendEnabled, device, tId, store, connectionVars>>
     ELSE DisconnectClicked /\ UNCHANGED crashed

(* valueChanged.                                                           *)
ValueChanged ==
  /\ ~crashed /\ tId' \in Ids \ {tId}
  /\ UNCHANGED <<connectEnabled, sendEnabled, device, store, errors, crashed, connectionVars>>

(* A message of an earlier request is no longer one of the present.        *)
Aged(messages) == [k \in DOMAIN messages |-> [messages[k] EXCEPT !.now = FALSE]]

UnderWay(i) == \E m \in Range(requests) \union Range(answers) : m.id = i

(* on_sendButton_clicked.  Without a device it uses a null pointer; a      *)
(* device that is not connected, or a failing write, reports an error and  *)
(* gives no reply; else enqueueRequest stores the request under m_tId.     *)
SendWithoutDevice ==
  /\ sendEnabled /\ ~crashed /\ device = "none"
  /\ crashed' = TRUE
  /\ UNCHANGED <<connectEnabled, sendEnabled, device, tId, store, errors, connectionVars>>

SendFails ==
  /\ sendEnabled /\ ~crashed /\ device = "made" /\ SetError
  /\ UNCHANGED <<connectEnabled, sendEnabled, device, tId, store, crashed, connectionVars>>

(* Faulty variant, for mutation: Send is not disabled.                     *)
EnqueueAgain(pdu) ==
  /\ sendEnabled /\ ~crashed /\ state = "Connected"
  /\ Len(requests) + Len(answers) < MaxInFlight
  /\ Insert(tId, [pdu |-> pdu, retries |-> Retries, timer |-> TRUE, reused |-> UnderWay(tId)])
  /\ requests' = LET old == Aged(requests)
                 IN IF link = "up" THEN Append(old, [id |-> tId, pdu |-> pdu, now |-> TRUE])
                    ELSE old
  /\ answers' = Aged(answers)
  /\ UNCHANGED <<connectEnabled, sendEnabled, device, tId, errors, crashed, state, link>>

Enqueue(pdu) ==
  /\ sendEnabled /\ ~crashed /\ state = "Connected"
  /\ Len(requests) + Len(answers) < MaxInFlight
  /\ Insert(tId, [pdu |-> pdu, retries |-> Retries, timer |-> TRUE, reused |-> UnderWay(tId)])
  /\ requests' = LET old == Aged(requests)
                 IN IF link = "up" THEN Append(old, [id |-> tId, pdu |-> pdu, now |-> TRUE])
                    ELSE old
  /\ answers' = Aged(answers)
  /\ sendEnabled' = FALSE
  /\ UNCHANGED <<connectEnabled, device, tId, errors, crashed, state, link>>

-----------------------------------------------------------------------------
(* The timer of a stored request is single-shot, and what it times out is  *)
(* the request under the m_tId of that moment.                             *)
Expires(i) == device = "made" /\ ~crashed /\ i \in Pending /\ store[i].timer

(* Faulty variant, for mutation: the request is sent again under m_tId.    *)
TimeoutRenames(i) ==
  /\ Expires(i) /\ tId \notin Pending
  /\ store' = [id \in (Pending \ {i}) \union {tId} |-> IF id = tId THEN store[i] ELSE store[id]]
  /\ Write([id |-> tId, pdu |-> store[i].pdu, now |-> TRUE])
  /\ UNCHANGED <<connectEnabled, sendEnabled, device, tId, errors, crashed>>

TimeoutOfAnother(i) ==
  /\ Expires(i) /\ tId \notin Pending
  /\ store' = [store EXCEPT ![i].timer = FALSE]
  /\ UNCHANGED <<connectEnabled, sendEnabled, device, tId, errors, crashed, connectionVars>>

(* Faulty variant, for mutation: the timer is not started again.           *)
ResendOnce(i) ==
  /\ Expires(i) /\ tId \in Pending /\ store[tId].retries > 0
  /\ store' = [store EXCEPT ![i].timer = FALSE]
  /\ Write([id |-> tId, pdu |-> store[tId].pdu, now |-> TRUE])
  /\ UNCHANGED <<connectEnabled, sendEnabled, device, tId, errors, crashed>>

(* One retry less, and the timer is started.                               *)
Again(e) == [pdu |-> e.pdu, retries |-> e.retries - 1, timer |-> TRUE, reused |-> e.reused]

Resend(i) ==
  /\ Expires(i) /\ tId \in Pending /\ store[tId].retries > 0
  /\ store' = [store EXCEPT ![i].timer = FALSE, ![tId] = Again(store[tId])]
  /\ Write([id |-> tId, pdu |-> store[tId].pdu, now |-> TRUE])
  /\ UNCHANGED <<connectEnabled, sendEnabled, device, tId, errors, crashed>>

(* The request was taken out of the store, and its reply never finishes.   *)
ResendFails(i) ==
  /\ Expires(i) /\ tId \in Pending /\ store[tId].retries > 0
  /\ Take(tId) /\ SetError
  /\ UNCHANGED <<connectEnabled, sendEnabled, device, tId, crashed, connectionVars>>

TimeoutError(i) ==
  /\ Expires(i) /\ tId \in Pending /\ store[tId].retries = 0
  /\ Take(tId) /\ sendEnabled' = TRUE
  /\ UNCHANGED <<connectEnabled, device, tId, errors, crashed, connectionVars>>

Timeout(i) == TimeoutOfAnother(i) \/ Resend(i) \/ ResendFails(i) \/ TimeoutError(i)
=============================================================================
