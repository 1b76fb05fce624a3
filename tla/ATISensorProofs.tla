--------------------------- MODULE ATISensorProofs ---------------------------
(***************************************************************************)
(* The driver of the sensor, for any numbers of records in the bias, of    *)
(* descriptors and of disturbed calls: it streams with the calibration it  *)
(* has read, its bias is computed from whole rows, and its own loop leaks  *)
(* no more contexts than calls were disturbed.                             *)
(***************************************************************************)
EXTENDS ATISensor, TLAPS

(* What has been read, and written, at each step of the start.             *)
StartSteps ==
  /\ pc = "calibration2" => "matrix" \in cal
  /\ pc \notin {"calibration1", "calibration2", "exited"} => cal = Parts
  /\ pc \in {"lock"} \union After => sensor.gains = "calibration"

(* A write that is going to be refused has already been paid for.          *)
RefusalPaidFor == (pc = "write" /\ sensor.locked) => leaked < faults

(* The rows are filled in order.                                           *)
RowsInOrder == rows = {i \in 0..(BiasNum - 1) : i < success}

IInv == TypeOK /\ StartSteps /\ LeaksPaidFor /\ RefusalPaidFor /\ RowsInOrder /\ BiasReady

-----------------------------------------------------------------------------
LEMMA FaultsGrow ==
  ASSUME TypeOK, Disturbed
  PROVE  faults' = faults + 1 /\ faults' \in 0..MaxFaults
BY NumbersAssumption DEF TypeOK, Disturbed

(* A failing connection, a call that works and one that goes unheard each  *)
(* leave the count of faults in its range, and never lower it.             *)
LEMMA FaultsKept ==
  ASSUME TypeOK,
         ConnectFails \/ Works \/ Fails \/ Disturbed \/ UNCHANGED faults
  PROVE  faults' \in 0..MaxFaults /\ faults' >= faults
BY FaultsGrow DEF TypeOK, ConnectFails, Works, Fails

(* The sensor after a request that changes it in one way or not at all.    *)
LEMMA SensorType ==
  ASSUME TypeOK, NEW yes \in BOOLEAN
  PROVE  /\ Locked(yes) \in [locked : BOOLEAN, gains : {"other", "partial", "calibration"}, streaming : BOOLEAN]
         /\ Locked(yes).locked = yes /\ Locked(yes).gains = sensor.gains
         /\ Written \in [locked : BOOLEAN, gains : {"other", "partial", "calibration"}, streaming : BOOLEAN]
         /\ Written.locked = sensor.locked
         /\ Streaming \in [locked : BOOLEAN, gains : {"other", "partial", "calibration"}, streaming : BOOLEAN]
         /\ Streaming.locked = sensor.locked /\ Streaming.gains = sensor.gains
BY DEF TypeOK, Locked, Written, Gains, Streaming

LEMMA BiasUntouched ==
  ASSUME RowsInOrder, BiasReady, UNCHANGED <<success, rows, bias>>
  PROVE  RowsInOrder' /\ BiasReady'
BY DEF RowsInOrder, BiasReady

-----------------------------------------------------------------------------
(* The start.                                                              *)

LEMMA ReadCalibrationKeeps ==
  ASSUME IInv, ReadCalibration
  PROVE  IInv'
<1> USE DEF IInv, TypeOK, StartSteps, LeaksPaidFor, RefusalPaidFor
<1>1. faults' \in 0..MaxFaults /\ faults' >= faults
  BY FaultsKept DEF ReadCalibration, ReadPart
<1>2. UNCHANGED <<leaked, success, buffer, rows, bias, sensor>>
  BY DEF ReadCalibration, ReadPart
<1>3. /\ pc' \in {"calibration1", "calibration2", "readGage"}
      /\ pc' = "calibration2" => "matrix" \in cal'
      /\ pc' = "readGage" => cal' = Parts
      /\ cal' \subseteq Parts
  <2>1. CASE ReadPart("matrix", "calibration1", "calibration2")
    BY <2>1 DEF ReadPart, GoTo, Parts
  <2>2. CASE ReadPart("gains", "calibration2", "readGage")
    BY <2>2 DEF ReadPart, GoTo, Parts
  <2>3. QED
    BY <2>1, <2>2 DEF ReadCalibration
<1>a. TypeOK'
  BY <1>1, <1>2, <1>3, NumbersAssumption DEF Before, After
<1>b. StartSteps'
  BY <1>1, <1>2, <1>3 DEF Before, After
<1>c. LeaksPaidFor' /\ RefusalPaidFor'
  BY <1>1, <1>2, <1>3, NumbersAssumption DEF Before, After
<1>d. RowsInOrder' /\ BiasReady'
  BY <1>1, <1>2, <1>3, BiasUntouched
<1>e. QED
  BY <1>a, <1>b, <1>c, <1>d

LEMMA GageKeeps ==
  ASSUME IInv, ReadGage \/ RereadGage
  PROVE  IInv'
<1> USE DEF IInv, TypeOK, StartSteps, LeaksPaidFor, RefusalPaidFor
<1>1. faults' \in 0..MaxFaults /\ faults' >= faults
  BY FaultsKept DEF ReadGage, RereadGage
<1>2. UNCHANGED <<process, sensor>> /\ pc' \in {"unlock", "calibration1"}
      /\ (pc' = "unlock" => pc = "readGage")
  BY DEF ReadGage, RereadGage, GoTo
<1>3. QED
  BY <1>1, <1>2, BiasUntouched, NumbersAssumption DEF process, Before, After

LEMMA UnlockKeeps ==
  ASSUME IInv, Unlock
  PROVE  IInv'
<1> USE DEF IInv, TypeOK, StartSteps, LeaksPaidFor, RefusalPaidFor
<1>1. UNCHANGED process /\ pc = "unlock" /\ pc' \in {"write", "rereadGage"}
  BY DEF Unlock, GoTo
<1>2. faults' \in 0..MaxFaults /\ faults' >= faults
  BY FaultsKept DEF Unlock, Obeyed, Unheard
<1>3. sensor' \in {sensor, Locked(FALSE)}
  BY DEF Unlock, Obeyed, Unheard
<1>4. pc' = "write" /\ sensor'.locked => faults' = faults + 1
  BY <1>1, SensorType, FaultsGrow DEF Unlock, GoTo, Obeyed, Unheard
<1>a. TypeOK'
  BY <1>1, <1>2, <1>3, <1>4, SensorType, NumbersAssumption DEF process, Before, After
<1>b. StartSteps'
  BY <1>1, <1>2, <1>3, <1>4, SensorType DEF process, Before, After
<1>c. LeaksPaidFor' /\ RefusalPaidFor'
  BY <1>1, <1>2, <1>3, <1>4, SensorType, NumbersAssumption DEF process, Before, After
<1>d. RowsInOrder' /\ BiasReady'
  BY <1>1, <1>2, <1>3, <1>4, BiasUntouched DEF process
<1>e. QED
  BY <1>a, <1>b, <1>c, <1>d

LEMMA WriteKeeps ==
  ASSUME IInv, Write
  PROVE  IInv'
<1> USE DEF IInv, TypeOK, StartSteps, LeaksPaidFor, RefusalPaidFor
<1>1. UNCHANGED <<cal, success, buffer, rows, bias>> /\ pc = "write" /\ cal = Parts
  BY DEF Write, After
<1>2. sensor' \in {sensor, Written}
  BY DEF Write, WriteWorks, WriteFails, Obeyed, Unheard
<1>3. CASE WriteWorks /\ GoTo("lock") /\ UNCHANGED leaked
  <2>1. sensor' = Written /\ ~sensor.locked /\ faults' = faults
    BY <1>3 DEF WriteWorks, Obeyed, Works
  <2>2. sensor'.gains = "calibration"
    BY <1>1, <2>1 DEF Written, Gains, Parts
  <2>3. QED
    BY <1>1, <1>3, <2>1, <2>2, SensorType, BiasUntouched, NumbersAssumption DEF GoTo, Before, After
<1>4. CASE WriteFails /\ GoTo("rereadGage") /\ leaked' = leaked + 1
  <2>1. faults' \in 0..MaxFaults /\ leaked' <= faults'
    <3>1. CASE Unheard(Written)
      BY <1>4, <3>1, FaultsGrow, BiasUntouched, NumbersAssumption DEF Unheard
    <3>2. CASE sensor.locked /\ UNCHANGED <<sensor, faults>>
      BY <1>1, <1>4, <3>2, BiasUntouched, NumbersAssumption
    <3>3. QED
      BY <1>4, <3>1, <3>2 DEF WriteFails
  <2>2. QED
    BY <1>1, <1>2, <1>4, <2>1, SensorType, BiasUntouched, NumbersAssumption DEF GoTo, Before, After
<1>5. QED
  BY <1>3, <1>4 DEF Write

LEMMA LockKeeps ==
  ASSUME IInv, Lock
  PROVE  IInv'
<1> USE DEF IInv, TypeOK, StartSteps, LeaksPaidFor, RefusalPaidFor
<1>1. UNCHANGED process /\ pc = "lock" /\ pc' = "start"
  BY DEF Lock, GoTo
<1>2. sensor' \in {sensor, Locked(TRUE)} /\ faults' \in 0..MaxFaults /\ faults' >= faults
  BY FaultsKept DEF Lock, Obeyed, Unheard
<1>a. TypeOK'
  BY <1>1, <1>2, SensorType, NumbersAssumption DEF process, Before, After
<1>b. StartSteps'
  BY <1>1, <1>2, SensorType DEF process, Before, After
<1>c. LeaksPaidFor' /\ RefusalPaidFor'
  BY <1>1, <1>2, SensorType, NumbersAssumption DEF process, Before, After
<1>d. RowsInOrder' /\ BiasReady'
  BY <1>1, <1>2, BiasUntouched DEF process
<1>e. QED
  BY <1>a, <1>b, <1>c, <1>d

LEMMA StartStreamingKeeps ==
  ASSUME IInv, StartStreaming
  PROVE  IInv'
<1> USE DEF IInv, TypeOK, StartSteps, LeaksPaidFor, RefusalPaidFor
<1>1. UNCHANGED <<cal, success, buffer, rows, bias>> /\ pc = "start" /\ pc' = "open"
  BY DEF StartStreaming, GoTo
<1>2. sensor' \in {sensor, Streaming} /\ faults' \in 0..MaxFaults /\ faults' >= faults
  BY FaultsKept DEF StartStreaming, Obeyed, Unheard
<1>3. leaked' = leaked \/ (leaked' = leaked + 1 /\ faults' = faults + 1)
  BY FaultsGrow DEF StartStreaming, Unheard
<1>4. QED
  BY <1>1, <1>2, <1>3, SensorType, BiasUntouched, NumbersAssumption DEF Before, After

LEMMA OpenKeeps ==
  ASSUME IInv, Open
  PROVE  IInv'
<1> USE DEF IInv, TypeOK, StartSteps, LeaksPaidFor, RefusalPaidFor
<1>1. UNCHANGED <<process, sensor>> /\ pc = "open" /\ pc' \in {"stream", "exited"}
  BY DEF Open, GoTo
<1>2. faults' \in 0..MaxFaults /\ faults' >= faults
  BY FaultsKept DEF Open
<1>3. QED
  BY <1>1, <1>2, BiasUntouched, NumbersAssumption DEF process, Before, After

-----------------------------------------------------------------------------
(* Records, the signal and the next run.                                   *)

LEMMA RecordKeeps ==
  ASSUME IInv, NEW passes \in BOOLEAN, Record(passes), pc = "stream",
         UNCHANGED <<pc, sensor>>, faults' \in 0..MaxFaults, faults' >= faults
  PROVE  IInv'
<1> USE DEF IInv, TypeOK, StartSteps, LeaksPaidFor, RefusalPaidFor, RowsInOrder, BiasReady
<1>1. buffer' = passes /\ UNCHANGED <<cal, leaked>>
  BY DEF Record
<1>2. CASE passes /\ success < MaxSuccess
  <2>1. /\ success < MaxSuccess /\ success' = success + 1
        /\ rows' = IF success < BiasNum THEN rows \union {success} ELSE rows
        /\ bias' = IF success = BiasNum THEN rows ELSE bias
    BY <1>2 DEF Record, Accept
  <2>2. success' \in 0..MaxSuccess /\ success \in Nat /\ BiasNum \in Nat
    BY <2>1, NumbersAssumption
  <2>3. rows' = {i \in 0..(BiasNum - 1) : i < success'}
    BY <2>1, <2>2
  <2>4. bias' \subseteq 0..(BiasNum - 1)
    BY <2>1
  <2>5. success' > BiasNum => bias' = 0..(BiasNum - 1)
    <3>1. CASE success = BiasNum
      BY <2>1, <2>2, <3>1
    <3>2. CASE success # BiasNum
      BY <2>1, <2>2, <3>2
    <3>3. QED
      BY <3>1, <3>2
  <2>6. QED
    BY <1>1, <2>2, <2>3, <2>4, <2>5, NumbersAssumption DEF After
<1>3. CASE ~(passes /\ success < MaxSuccess)
  <2>1. UNCHANGED <<success, rows, bias>>
    BY <1>3 DEF Record
  <2>a. TypeOK'
    BY <1>1, <2>1, NumbersAssumption DEF After
  <2>b. StartSteps'
    BY <1>1, <2>1 DEF After
  <2>c. LeaksPaidFor' /\ RefusalPaidFor'
    BY <1>1, <2>1, NumbersAssumption DEF After
  <2>d. RowsInOrder' /\ BiasReady'
    BY <1>1, <2>1, BiasUntouched
  <2>e. QED
    BY <2>a, <2>b, <2>c, <2>d
<1>4. QED
  BY <1>2, <1>3

LEMMA StreamKeeps ==
  ASSUME IInv, ReadRecord \/ StopFails
  PROVE  IInv'
<1>1. CASE ReadRecord
  <2>1. faults' \in 0..MaxFaults /\ faults' >= faults
    BY <1>1, FaultsKept DEF IInv, ReadRecord
  <2>2. QED
    BY <1>1, <2>1, RecordKeeps DEF ReadRecord
<1>2. CASE StopFails
  <2>1. faults' \in 0..MaxFaults /\ faults' >= faults
    BY <1>2, FaultsKept DEF IInv, StopFails
  <2>2. CASE pc = "stream"
    BY <1>2, <2>1, <2>2, RecordKeeps DEF StopFails, IInv, TypeOK
  <2>3. CASE pc # "stream"
    <3> USE DEF IInv, TypeOK, StartSteps, LeaksPaidFor, RefusalPaidFor
    <3>1. UNCHANGED <<pc, cal, leaked, success, buffer, rows, bias, sensor>>
      BY <1>2, <2>3 DEF StopFails, process
    <3>a. TypeOK'
      BY <2>1, <3>1, NumbersAssumption
    <3>b. StartSteps'
      BY <2>1, <3>1
    <3>c. LeaksPaidFor' /\ RefusalPaidFor'
      BY <2>1, <3>1, NumbersAssumption
    <3>d. RowsInOrder' /\ BiasReady'
      BY <2>1, <3>1, BiasUntouched
    <3>e. QED
      BY <3>a, <3>b, <3>c, <3>d
  <2>4. QED
    BY <2>2, <2>3
<1>3. QED
  BY <1>1, <1>2

LEMMA StopAndExitKeeps ==
  ASSUME IInv, StopAndExit
  PROVE  IInv'
<1> USE DEF IInv, TypeOK, StartSteps, LeaksPaidFor, RefusalPaidFor
<1>1. UNCHANGED process /\ pc' = "exited"
  BY DEF StopAndExit, GoTo
<1>2. faults' \in 0..MaxFaults /\ faults' >= faults
  BY FaultsKept DEF StopAndExit
<1>3. sensor' \in [locked : BOOLEAN, gains : {"other", "partial", "calibration"}, streaming : BOOLEAN]
  BY DEF StopAndExit
<1>4. QED
  BY <1>1, <1>2, <1>3, BiasUntouched, NumbersAssumption DEF process, After

LEMMA RestartKeeps ==
  ASSUME IInv, Restart
  PROVE  IInv'
<1>1. TypeOK'
  <2>1. pc' \in Before /\ buffer' \in BOOLEAN /\ leaked' \in Nat
    BY DEF Restart, GoTo, Before
  <2>2. cal' \subseteq Parts /\ rows' \subseteq 0..(BiasNum - 1) /\ bias' \subseteq 0..(BiasNum - 1)
    BY DEF Restart
  <2>3. success' \in 0..MaxSuccess /\ faults' \in 0..MaxFaults
    BY NumbersAssumption DEF Restart, IInv, TypeOK
  <2>4. sensor' \in [locked : BOOLEAN, gains : {"other", "partial", "calibration"}, streaming : BOOLEAN]
    BY DEF Restart, IInv, TypeOK
  <2>5. QED
    BY <2>1, <2>2, <2>3, <2>4 DEF TypeOK
<1>2. StartSteps'
  BY DEF StartSteps, Restart, GoTo, After
<1>3. LeaksPaidFor' /\ RefusalPaidFor'
  BY DEF IInv, TypeOK, LeaksPaidFor, RefusalPaidFor, Restart, GoTo
<1>4. RowsInOrder' /\ BiasReady'
  BY NumbersAssumption DEF RowsInOrder, BiasReady, Restart
<1>5. QED
  BY <1>1, <1>2, <1>3, <1>4 DEF IInv

-----------------------------------------------------------------------------
LEMMA InitHolds ==
  ASSUME Init
  PROVE  IInv
<1>1. TypeOK
  <2>1. pc \in Before /\ buffer \in BOOLEAN /\ leaked \in Nat
    BY DEF Init, Before
  <2>2. cal \subseteq Parts /\ rows \subseteq 0..(BiasNum - 1) /\ bias \subseteq 0..(BiasNum - 1)
    BY DEF Init
  <2>3. success \in 0..MaxSuccess /\ faults \in 0..MaxFaults
    BY NumbersAssumption DEF Init
  <2>4. sensor \in [locked : BOOLEAN, gains : {"other", "partial", "calibration"}, streaming : BOOLEAN]
    BY DEF Init
  <2>5. QED
    BY <2>1, <2>2, <2>3, <2>4 DEF TypeOK
<1>2. StartSteps
  BY DEF StartSteps, Init, After
<1>3. LeaksPaidFor /\ RefusalPaidFor
  BY DEF LeaksPaidFor, RefusalPaidFor, Init
<1>4. RowsInOrder /\ BiasReady
  BY NumbersAssumption DEF RowsInOrder, BiasReady, Init
<1>5. QED
  BY <1>1, <1>2, <1>3, <1>4 DEF IInv

LEMMA StepKeeps ==
  ASSUME IInv, [Next]_vars
  PROVE  IInv'
<1>1. CASE Startup
  BY <1>1, ReadCalibrationKeeps, GageKeeps, UnlockKeeps, WriteKeeps, LockKeeps,
     StartStreamingKeeps, OpenKeeps DEF Startup
<1>2. CASE ReadRecord \/ StopAndExit \/ StopFails \/ Restart
  BY <1>2, StreamKeeps, StopAndExitKeeps, RestartKeeps
<1>3. CASE UNCHANGED vars
  BY <1>3 DEF vars, process, IInv, TypeOK, StartSteps, LeaksPaidFor, RefusalPaidFor,
     RowsInOrder, BiasReady
<1>4. QED
  BY <1>1, <1>2, <1>3 DEF Next

(* What holds of every reachable state of the driver, step by step.        *)
THEOREM Invariance == Spec => []IInv
<1>1. Init => IInv
  BY InitHolds
<1>2. IInv /\ [Next]_vars => IInv'
  BY StepKeeps
<1>3. QED
  BY <1>1, <1>2, PTL DEF Spec

(* Every variable keeps its type.                                          *)
THEOREM TypeCorrect == Spec => []TypeOK
<1>1. IInv => TypeOK
  BY DEF IInv
<1>2. QED
  BY <1>1, Invariance, PTL

(* Whatever fails, is signalled or is run again: records are only read     *)
(* with the whole calibration, from a sensor that uses it.                 *)
THEOREM CalibratedStreams == Spec => []StreamsCalibrated
<1>1. IInv => StreamsCalibrated
  BY DEF IInv, StartSteps, StreamsCalibrated, After
<1>2. QED
  BY <1>1, Invariance, PTL

(* The driver leaks no more contexts than calls were disturbed.            *)
THEOREM LeaksBounded == Spec => []LeaksPaidFor
<1>1. IInv => LeaksPaidFor
  BY DEF IInv
<1>2. QED
  BY <1>1, Invariance, PTL

(* The bias is computed from BIAS_NUM rows, each filled by then.           *)
THEOREM BiasComplete == Spec => []BiasReady
<1>1. IInv => BiasReady
  BY DEF IInv
<1>2. QED
  BY <1>1, Invariance, PTL
=============================================================================
