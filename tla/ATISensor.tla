------------------------------ MODULE ATISensor ------------------------------
(***************************************************************************)
(* The driver of the ATI force/torque sensor, a client of the library over *)
(* RTU, over many runs of its process.  It reads the calibration in two    *)
(* parts, unlocks the sensor's memory, writes the gains and offsets of the *)
(* calibration, locks the memory, starts the stream of records and reads   *)
(* records for ever; SIGINT runs STOP_STREAM on top of whatever it does.   *)
(* A call of the library works, or is disturbed: its request or its answer *)
(* is lost, so that it fails with or without its effect on the sensor      *)
(* (what ModbusTransaction shows of a call that failed).                   *)
(***************************************************************************)
EXTENDS Integers

CONSTANTS
  BiasNum,      \* BIAS_NUM
  Descriptors,  \* how many descriptors the process may open
  MaxFaults,    \* bound: disturbed calls
  MaxSuccess    \* bound: records accepted by one process that are counted

ASSUME NumbersAssumption ==
  /\ BiasNum \in Nat /\ Descriptors \in Nat
  /\ MaxFaults \in Nat
  \* once the bias is computed a further record changes nothing but the count
  /\ MaxSuccess \in Nat /\ BiasNum < MaxSuccess

VARIABLES
  pc,           \* the step of main the process is at
  cal,          \* the parts of Calibration_ONE that have been read
  leaked,       \* contexts never closed, each with its descriptor
  success,      \* SuccessRead
  buffer,       \* whether read_buffer holds a record that passes the checks
  rows,         \* the rows of ATI_FT_BIAS_MATRIX that have been filled
  bias,         \* the rows ATI_FT_BIAS was computed from
  sensor,       \* the sensor: locked, the gains in use, streaming
  faults        \* number of disturbed calls

process == <<cal, leaked, success, buffer, rows, bias>>
vars    == <<pc, process, sensor, faults>>

Parts  == {"matrix", "gains"}
Before == {"calibration1", "calibration2", "readGage", "unlock", "write", "lock", "rereadGage"}
After  == {"start", "open", "stream"}                    \* after the loop

TypeOK ==
  /\ pc \in Before \union After \union {"exited"}
  /\ cal \subseteq Parts
  /\ leaked \in Nat
  /\ success \in 0..MaxSuccess
  /\ buffer \in BOOLEAN
  /\ rows \subseteq 0..(BiasNum - 1)
  /\ bias \subseteq 0..(BiasNum - 1)
  /\ sensor \in [locked : BOOLEAN, gains : {"other", "partial", "calibration"}, streaming : BOOLEAN]
  /\ faults \in 0..MaxFaults

(* read_buffer is not initialized: what it holds may pass the checks.      *)
Init ==
  /\ pc = "calibration1"
  /\ cal = {} /\ leaked = 0 /\ success = 0 /\ buffer \in BOOLEAN /\ rows = {} /\ bias = {}
  /\ sensor = [locked |-> TRUE, gains |-> "other", streaming |-> FALSE]
  /\ faults = 0

GoTo(step) == pc' = step

-----------------------------------------------------------------------------
(* Calls of the library.  A streaming sensor does not answer requests.     *)

CanOpen      == leaked < Descriptors
Disturbed    == faults < MaxFaults /\ faults' = faults + 1
ConnectFails == Disturbed \/ (~CanOpen /\ UNCHANGED faults)

Works == CanOpen /\ ~sensor.streaming /\ UNCHANGED faults
Fails == ConnectFails \/ (sensor.streaming /\ UNCHANGED faults)

(* A request that changes the sensor, when it works and when it does not;  *)
(* no sensor streams here, main has just read from it.                     *)
Obeyed(to)  == Works /\ sensor' = to
Unheard(to) == CanOpen /\ Disturbed /\ sensor' \in {sensor, to}

-----------------------------------------------------------------------------
(* ATI_READ_CALIBRATION, ATI_PRINT_CALIBRATION and ATI_READ_GAGE; when one *)
(* of them fails main starts over.                                         *)
ReadPart(part, from, to) ==
  /\ pc = from
  /\ \/ Works /\ cal' = cal \union {part} /\ GoTo(to)
     \/ Fails /\ GoTo("calibration1") /\ UNCHANGED cal
  /\ UNCHANGED <<leaked, success, buffer, rows, bias, sensor>>

ReadCalibration ==
  \/ ReadPart("matrix", "calibration1", "calibration2")
  \/ ReadPart("gains", "calibration2", "readGage")

ReadGage ==
  /\ pc = "readGage"
  /\ \/ Works /\ GoTo("unlock")
     \/ Fails /\ GoTo("calibration1")
  /\ UNCHANGED <<process, sensor>>

(* After ATI_WRITE_GAGE failed; the result is ignored.                     *)
RereadGage ==
  /\ pc = "rereadGage"
  /\ GoTo("calibration1")
  /\ UNCHANGED <<process, sensor, faults>>

-----------------------------------------------------------------------------
(* ATI_WRITE_GAGE.                                                         *)

Locked(yes) == [sensor EXCEPT !.locked = yes]

(* Faulty variant, for mutation: the command to lock is sent.              *)
UnlockSwapped ==
  /\ pc = "unlock"
  /\ \/ ConnectFails /\ GoTo("rereadGage") /\ UNCHANGED sensor
     \/ GoTo("write") /\ (Obeyed(Locked(TRUE)) \/ Unheard(Locked(TRUE)))
  /\ UNCHANGED process

(* modbus_connect, and the command to unlock: what comes back is ignored.  *)
Unlock ==
  /\ pc = "unlock"
  /\ \/ ConnectFails /\ GoTo("rereadGage") /\ UNCHANGED sensor
     \/ GoTo("write") /\ (Obeyed(Locked(FALSE)) \/ Unheard(Locked(FALSE)))
  /\ UNCHANGED process

(* The sensor refuses the write while its memory is locked.                *)
Gains   == IF "gains" \in cal THEN "calibration" ELSE "partial"
Written == [sensor EXCEPT !.gains = IF sensor.locked THEN @ ELSE Gains]

WriteWorks == ~sensor.locked /\ Obeyed(Written)
WriteFails == Unheard(Written) \/ (sensor.locked /\ UNCHANGED <<sensor, faults>>)

(* Faulty variant, for mutation: the result is not looked at.              *)
WriteUnchecked ==
  /\ pc = "write" /\ GoTo("lock")
  /\ WriteWorks \/ WriteFails
  /\ UNCHANGED process

(* When the write fails the function returns at once: the memory stays     *)
(* unlocked and the context is neither closed nor freed.                   *)
Write ==
  /\ pc = "write"
  /\ \/ WriteWorks /\ GoTo("lock") /\ UNCHANGED leaked
     \/ WriteFails /\ GoTo("rereadGage") /\ leaked' = leaked + 1
  /\ UNCHANGED <<cal, success, buffer, rows, bias>>

(* What comes back is ignored here, too.                                   *)
Lock ==
  /\ pc = "lock" /\ GoTo("start")
  /\ Obeyed(Locked(TRUE)) \/ Unheard(Locked(TRUE))
  /\ UNCHANGED process

-----------------------------------------------------------------------------
(* ATI_START_STREAMING, whose result main ignores; without the five bytes  *)
(* of the confirmation the context stays open.                             *)
Streaming == [sensor EXCEPT !.streaming = TRUE]

StartStreaming ==
  /\ pc = "start" /\ GoTo("open")
  /\ \/ ConnectFails /\ UNCHANGED <<sensor, leaked>>
     \/ Obeyed(Streaming) /\ UNCHANGED leaked
     \/ Unheard(Streaming) /\ leaked' = leaked + 1
  /\ UNCHANGED <<cal, success, buffer, rows, bias>>

(* open and the two ioctl; main returns when one of them fails.            *)
Open ==
  /\ pc = "open"
  /\ \/ CanOpen /\ GoTo("stream") /\ UNCHANGED faults
     \/ ConnectFails /\ GoTo("exited")
  /\ UNCHANGED <<process, sensor>>

(* The first BiasNum records that pass status bit and checksum fill a row  *)
(* of the bias matrix each, the next one computes the bias.                *)
AcceptTooEarly ==   \* for mutation: the bias is computed one record early
  /\ success' = success + 1
  /\ rows' = IF success < BiasNum THEN rows \union {success} ELSE rows
  /\ bias' = IF success + 1 = BiasNum THEN rows ELSE bias

Accept ==
  /\ success' = success + 1
  /\ rows' = IF success < BiasNum THEN rows \union {success} ELSE rows
  /\ bias' = IF success = BiasNum THEN rows ELSE bias

Record(passes) ==
  /\ buffer' = passes
  /\ IF passes /\ success < MaxSuccess THEN Accept ELSE UNCHANGED <<success, rows, bias>>
  /\ UNCHANGED <<cal, leaked>>

(* Thirteen bytes, a record or the ends of two; they pass or they do not.  *)
ReadRecord ==
  /\ pc = "stream" /\ sensor.streaming
  /\ \E passes \in BOOLEAN : Record(passes)
  /\ UNCHANGED <<pc, sensor, faults>>

-----------------------------------------------------------------------------
(* The descriptors that main has open besides the leaked ones when the     *)
(* signal comes: that of the context it writes and locks with, that of the *)
(* stream, and at the other steps none or that of the function it is in.   *)
Held == IF pc \in {"write", "lock", "stream"} THEN {1} ELSE {0, 1}

(* SIGINT: STOP_STREAM opens a context of its own, sends the command to    *)
(* stop and exits, whatever main was doing.                                *)
StopAndExit ==
  /\ pc # "exited" /\ \E held \in Held : leaked + held < Descriptors
  /\ \/ sensor' = [sensor EXCEPT !.streaming = FALSE] /\ UNCHANGED faults
     \/ Disturbed /\ UNCHANGED sensor
  /\ GoTo("exited")
  /\ UNCHANGED process

(* When it cannot open one it returns: main goes on, a read it interrupted *)
(* fails, and the buffer is looked at again as if a record had come.       *)
StopFails ==
  /\ pc # "exited"
  /\ Disturbed \/ (UNCHANGED faults /\ \E held \in Held : leaked + held >= Descriptors)
  /\ IF pc = "stream" THEN Record(buffer) ELSE UNCHANGED process
  /\ UNCHANGED <<pc, sensor>>

(* The next run of the program finds the sensor as the last one left it.   *)
Restart ==
  /\ pc = "exited" /\ GoTo("calibration1")
  /\ cal' = {} /\ leaked' = 0 /\ success' = 0 /\ buffer' \in BOOLEAN /\ rows' = {} /\ bias' = {}
  /\ UNCHANGED <<sensor, faults>>

-----------------------------------------------------------------------------
Startup ==
  \/ ReadCalibration \/ ReadGage \/ RereadGage
  \/ Unlock \/ Write \/ Lock \/ StartStreaming \/ Open

Next == Startup \/ ReadRecord \/ StopAndExit \/ StopFails \/ Restart

Spec == Init /\ [][Next]_vars

(* main does not stop by itself, and no line disturbs every call.          *)
FairSpec == Spec /\ WF_vars(Startup /\ UNCHANGED faults)

-----------------------------------------------------------------------------
(* Records are only read with the whole calibration, and from a sensor     *)
(* that uses the gains of that calibration: no failed step of the start,   *)
(* in this run of the program or an earlier one, is passed over.           *)
StreamsCalibrated ==
  pc \in After => cal = Parts /\ sensor.gains = "calibration"

(* The contexts ATI_WRITE_GAGE and ATI_START_STREAMING leave open are paid *)
(* for by disturbed calls, even when the write was refused in a run of     *)
(* ATI_WRITE_GAGE whose unlocking was lost: the loop of main does not use  *)
(* up the descriptors by itself.                                           *)
LeaksPaidFor == leaked <= faults

(* The bias subtracted from the records is computed from all BIAS_NUM rows *)
(* (their sum divided by BIAS_NUM, in whole numbers).                      *)
BiasReady == success > BiasNum => bias = 0..(BiasNum - 1)

(* A start against a sensor that is not streaming comes to an end: every   *)
(* function that failed is tried again, and no leaked context can stop it  *)
(* while the disturbed calls are fewer than the descriptors.               *)
StartEnds ==
  (pc = "calibration1" /\ ~sensor.streaming)
    ~> (pc \in {"stream", "exited"} \/ faults >= Descriptors)
=============================================================================
