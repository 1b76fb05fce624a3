--------------------------- MODULE ModbusExchange ---------------------------
(***************************************************************************)
(* One library call followed from the client's build_request to the        *)
(* verdict of check_confirmation, with nothing lost or delayed.  It checks *)
(* that four pieces of code written apart agree about the length of every  *)
(* frame: the client functions that build requests, receive_msg on both    *)
(* sides, modbus_reply, and compute_response_length_from_request.          *)
(***************************************************************************)
EXTENDS ModbusProtocol

CONSTANTS
  Backends,        \* the backends, RTU and TCP
  Requests,        \* the calls: [fn, nb, nbWrite] as the application makes them
  ExceptionCodes,  \* exception codes a server may answer with
  IdLength         \* bytes of the device specific answer to report_slave_id

(* A preset request is the header, the function code and four bytes; an    *)
(* ADU has room for a PDU between header and checksum.                     *)
ASSUME BackendsAssumption ==
  \A b \in Backends : /\ {b.header, b.checksum, b.maxAdu, b.preset} \subseteq Nat
                      /\ b.preset = b.header + 5
                      /\ b.header + MAX_PDU_LENGTH + b.checksum <= b.maxAdu
                      /\ b.maxAdu <= MAX_MESSAGE_LENGTH

(* nb is the quantity field of the request (0 where it holds a value or an *)
(* address only), nbWrite the quantity of values the request carries.      *)
ASSUME RequestsAssumption ==
  \A r \in Requests : /\ r.fn \in ClientFunctions
                      /\ r.nb \in Nat /\ r.nbWrite \in Nat
                      /\ r.fn \in MultipleFunctions => r.nbWrite = r.nb

ASSUME CodesAssumption ==
  ExceptionCodes \subseteq 0..255 /\ IdLength \in 0..(MAX_PDU_LENGTH - 2)

VARIABLES
  stage,        \* "call", "sent", "indicated", "answered", "confirmed", "checked", "refused"
  be,           \* the backend of both ends
  req,          \* the call
  frameLength,  \* length of the frame on the wire
  read,         \* length receive_msg takes for that frame
  rsp,          \* the answer
  outcome       \* what check_confirmation returned

exchangeVars == <<stage, be, req, frameLength, read, rsp, outcome>>

NoResponse == [length |-> 0, function |-> 0, second |-> 0, quantity |-> 0]
NoOutcome  == [verdict |-> "none", value |-> 0, flush |-> FALSE]

TooManyWritten(r) ==   \* for mutation: only the second limit of 0x17 is checked
  r.fn = FC_WRITE_AND_READ_REGISTERS /\ r.nbWrite > MAX_RW_WRITE_REGISTERS

(* The limit the client checks before it sends.                            *)
TooMany(r) ==
  \/ /\ r.fn \notin SingleFunctions \union {FC_REPORT_SLAVE_ID}
     /\ r.nb > MaxQuantity(r.fn)
  \/ r.fn = FC_WRITE_AND_READ_REGISTERS /\ r.nbWrite > MAX_RW_WRITE_REGISTERS

(* The quantities modbus_reply answers with ILLEGAL_DATA_VALUE.            *)
IllegalQuantity(r) ==
  \/ /\ r.fn \notin SingleFunctions \union {FC_REPORT_SLAVE_ID}
     /\ r.nb < 1 \/ r.nb > MaxQuantity(r.fn)
  \/ /\ r.fn = FC_WRITE_AND_READ_REGISTERS
     /\ r.nbWrite < 1 \/ r.nbWrite > MAX_RW_WRITE_REGISTERS

ExchangeInit ==
  /\ stage = "call"
  /\ be \in Backends
  /\ req \in Requests
  /\ frameLength = 0 /\ read = 0
  /\ rsp = NoResponse
  /\ outcome = NoOutcome

(* The call refuses a quantity above the limit: EMBMDATA, nothing is sent. *)
Refuse ==
  /\ stage = "call"
  /\ TooMany(req)
  /\ stage' = "refused"
  /\ UNCHANGED <<be, req, frameLength, read, rsp, outcome>>

(* The call builds the request and sends it.                               *)
Send ==
  /\ stage = "call"
  /\ ~TooMany(req)
  /\ frameLength' = RequestLength(be, req.fn, req.nbWrite)
  /\ stage' = "sent"
  /\ UNCHANGED <<be, req, read, rsp, outcome>>

(* The server reads the request with modbus_receive.                       *)
Indication ==
  /\ stage = "sent"
  /\ read' = ReceivedLength(be, req.fn, RequestByteCount(req.fn, req.nbWrite), "INDICATION")
  /\ stage' = "indicated"
  /\ UNCHANGED <<be, req, frameLength, rsp, outcome>>

(* The server answers normally.                                            *)
Reply ==
  /\ stage = "indicated"
  /\ ~IllegalQuantity(req)
  /\ rsp' = NormalResponse(be, req.fn, req.nb, IdLength)
  /\ frameLength' = rsp'.length
  /\ stage' = "answered"
  /\ UNCHANGED <<be, req, read, outcome>>

(* The server answers with an exception: its own, or one the application   *)
(* asked modbus_reply_exception for.                                       *)
ReplyException(code) ==
  /\ stage = "indicated"
  /\ rsp' = ExceptionResponse(be, req.fn, code)
  /\ frameLength' = rsp'.length
  /\ stage' = "answered"
  /\ UNCHANGED <<be, req, read, outcome>>

(* The client reads the answer with receive_msg.                           *)
Confirmation ==
  /\ stage = "answered"
  /\ read' = ReceivedLength(be, rsp.function, rsp.second, "CONFIRMATION")
  /\ stage' = "confirmed"
  /\ UNCHANGED <<be, req, frameLength, rsp, outcome>>

(* check_confirmation.                                                     *)
Check ==
  /\ stage = "confirmed"
  /\ outcome' = CheckConfirmation(be, req.fn, req.nb, rsp)
  /\ stage' = "checked"
  /\ UNCHANGED <<be, req, frameLength, read, rsp>>

ExchangeNext ==
  \/ Refuse \/ Send \/ Indication \/ Reply
  \/ \E code \in ExceptionCodes : ReplyException(code)
  \/ Confirmation \/ Check

ExchangeSpec == ExchangeInit /\ [][ExchangeNext]_exchangeVars

-----------------------------------------------------------------------------
(* The server reads exactly the bytes of the request the client built, for *)
(* every function and quantity: one byte more and it waits for the next    *)
(* request, one byte less and the next request starts with the remainder   *)
(* (receive_msg against the request builders of the client calls).         *)
RequestFramed == stage = "indicated" => read = frameLength

(* The client reads exactly the bytes of the answer the server built,      *)
(* exceptions included (receive_msg against modbus_reply).                 *)
ResponseFramed == stage = "confirmed" => read = frameLength

(* No frame of a legal call is longer than the ADU the backend allows, so  *)
(* receive_msg never refuses one with EMBBADDATA "too many data" and the   *)
(* buffers of MAX_MESSAGE_LENGTH bytes hold it.                            *)
FramesFitAdu == frameLength <= be.maxAdu /\ frameLength <= MAX_MESSAGE_LENGTH

(* The client accepts the server's normal answer to every legal call, and  *)
(* returns the number of values or bytes that was asked for                *)
(* (check_confirmation against modbus_reply).                              *)
AnswerAccepted ==
  (stage = "checked" /\ rsp.function = req.fn) =>
    /\ outcome.verdict = "ok"
    /\ outcome.value =
         CASE req.fn \in ReadBitFunctions     -> BytesOfBits(req.nb)
           [] req.fn \in SingleFunctions      -> 1
           [] req.fn = FC_REPORT_SLAVE_ID     -> IdLength
           [] OTHER                           -> req.nb

(* An exception answer with a defined code reaches the application as that *)
(* exception, and never makes protocol recovery flush -- except where the  *)
(* length of a normal answer is that of an exception or is unknown: a read *)
(* of zero values and report_slave_id, which report EMBBADDATA instead.    *)
ExceptionReported ==
  (stage = "checked" /\ rsp.function # req.fn) =>
    IF \/ req.fn = FC_REPORT_SLAVE_ID
       \/ /\ req.fn \in ReadBitFunctions \union ReadRegFunctions
                          \union {FC_WRITE_AND_READ_REGISTERS}
          /\ req.nb = 0
    THEN outcome.verdict = "EMBBADDATA"
    ELSE /\ ~outcome.flush
         /\ IF rsp.second < MODBUS_EXCEPTION_MAX
            THEN outcome.verdict = "exception" /\ outcome.value = rsp.second
            ELSE outcome.verdict = "EMBBADEXC"
=============================================================================
