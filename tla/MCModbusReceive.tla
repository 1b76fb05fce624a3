--------------------------- MODULE MCModbusReceive ---------------------------
(* Modes for the run of ModbusReceive: a server on a noisy serial line, a  *)
(* TCP client and a client on a noisy serial line.  The lengths of the     *)
(* frames are those of the request and answer builders, so that a run also *)
(* checks the reader against the builders.                                 *)
EXTENDS ModbusReceive

MCResponses ==
  {ResponseFrame(TCP, FC_READ_COILS, 9, 3),
   ResponseFrame(TCP, FC_WRITE_SINGLE_REGISTER, 1, 3),
   ResponseFrame(TCP, FC_REPORT_SLAVE_ID, 1, 3), ExceptionFrame(TCP, FC_READ_COILS)}

(* Requests and answers damaged on the line: the byte count or the         *)
(* function code is wrong, or bytes are missing.                           *)
Damaged(f, fn, count, n) ==
  [fn |-> fn, count |-> count, at |-> f.at, n |-> n, ok |-> FALSE]

MCNoisyRequests ==
  LET w == RequestFrame(RTU, FC_WRITE_MULTIPLE_REGISTERS, 1)
  IN  {w, RequestFrame(RTU, FC_READ_COILS, 1),
       Damaged(w, w.fn, 1, w.n),  Damaged(w, w.fn, 255, w.n),
       Damaged(w, FC_REPORT_SLAVE_ID, w.count, w.n), Damaged(w, w.fn, w.count, w.n - 2)}

MCNoisyResponses ==
  LET r == ResponseFrame(RTU, FC_READ_HOLDING_REGISTERS, 1, 3)
  IN  {r, ExceptionFrame(RTU, FC_READ_COILS), Damaged(r, r.fn, 255, r.n),
       Damaged(r, FC_WRITE_SINGLE_COIL, r.count, r.n)}

(* No recovery, the documented advice for servers.                         *)
MCSerialServer ==
  [backend |-> RTU, type |-> "INDICATION", link |-> FALSE, protocol |-> FALSE,
   byteTimeout |-> TRUE, frames |-> MCNoisyRequests, fill |-> 16, maxFrames |-> 2,
   canReset |-> FALSE, prompt |-> FALSE]

MCTcpClient ==
  [backend |-> TCP, type |-> "CONFIRMATION", link |-> TRUE, protocol |-> TRUE,
   byteTimeout |-> FALSE, frames |-> MCResponses, fill |-> 2, maxFrames |-> 3,
   canReset |-> TRUE, prompt |-> TRUE]

MCSerialClient ==
  [backend |-> RTU, type |-> "CONFIRMATION", link |-> TRUE, protocol |-> TRUE,
   byteTimeout |-> TRUE, frames |-> MCNoisyResponses, fill |-> 0, maxFrames |-> 3,
   canReset |-> FALSE, prompt |-> TRUE]

MCModes == {MCSerialServer, MCTcpClient, MCSerialClient}

(* The frames of all three are as the theorems want them.                  *)
ASSUME MCFramesFramed == FramesFramed
=============================================================================
