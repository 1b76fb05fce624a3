-------------------------- MODULE ModbusFramesProofs --------------------------
(***************************************************************************)
(* The frames of the library and the function that reads them.             *)
(*                                                                         *)
(* receive_msg, for every backend whose ADU holds the longest meta part,   *)
(* every kind of message, every recovery mode and every set of frames: it  *)
(* never asks recv for bytes beyond the ADU; and when undamaged frames are *)
(* as long as their function code and byte count say, it never reads past  *)
(* one, returns whole frames and stays in step with the peer.              *)
(*                                                                         *)
(* The builders, for every backend, every set of calls and every exception *)
(* code: their frames are as long as the reader takes them to be, and no   *)
(* longer than an ADU; a normal answer is accepted and an exception is     *)
(* reported as that exception.                                             *)
(***************************************************************************)
EXTENDS ModbusReceive, ModbusExchange, SequenceTheorems, TLAPS

(* What the assumptions say of the mode of a run, which never changes.     *)
LEMMA ModeFacts ==
  ASSUME TypeOK
  PROVE  /\ Backend.header \in Nat /\ Backend.checksum \in Nat /\ Backend.maxAdu \in Nat
         /\ Backend.header + 10 <= Backend.maxAdu
         /\ MsgType \in MsgTypes
         /\ mode.byteTimeout \in BOOLEAN
         /\ mode.maxFrames \in Nat
         /\ \A f \in mode.frames : BytesOf(mode, f) \in Seq(Byte)
BY BackendAssumption, ModesAssumption, FramesAssumption DEF TypeOK, Backend, MsgType

LEMMA ModeKept ==
  ASSUME Next
  PROVE  /\ mode' = mode /\ Backend' = Backend /\ MsgType' = MsgType
<1>1. mode' = mode
  BY DEF Next, PeerBegins, Arrive, PeerResets, Call, Timeout, Flush, BadDescriptor, Closed,
         Receive, RecvPart, RecvStep, RecvTooMany, RecvLast
<1>2. QED
  BY <1>1 DEF Backend, MsgType

(* The tables of receive_msg: the meta part is at most nine bytes and      *)
(* contains the byte count whenever there is one.                          *)
LEMMA MetaTable ==
  ASSUME TypeOK, NEW fn \in 0..255
  PROVE  /\ MetaLengthAfterFunction(fn, MsgType) \in 0..9
         /\ HasByteCount(fn, MsgType) =>
              ByteCountOffset(fn, MsgType) \in 1..MetaLengthAfterFunction(fn, MsgType)
<1> USE DEF MetaLengthAfterFunction, HasByteCount, ByteCountOffset, MultipleFunctions,
            SingleFunctions, FC_WRITE_SINGLE_COIL, FC_WRITE_SINGLE_REGISTER,
            FC_WRITE_MULTIPLE_COILS, FC_WRITE_MULTIPLE_REGISTERS,
            FC_WRITE_AND_READ_REGISTERS, FC_READ_INPUT_REGISTERS, FC_REPORT_SLAVE_ID
<1>1. CASE MsgType = "INDICATION"
  BY <1>1
<1>2. CASE MsgType = "CONFIRMATION"
  BY <1>2
<1>3. QED
  BY <1>1, <1>2, ModeFacts DEF MsgTypes

LEMMA ByteValue ==
  ASSUME NEW m \in Seq(Byte), NEW p \in 1..Len(m)
  PROVE  m[p].b \in 0..255
<1>1. m[p] \in Byte
  BY ElementOfSeq
<1>2. QED
  BY <1>1 DEF Byte

LEMMA FunctionValue ==
  ASSUME TypeOK, NEW m \in Seq(Byte), Len(m) >= Backend.header + 1
  PROVE  Function(m) \in 0..255
<1>1. Backend.header + 1 \in 1..Len(m)
  BY ModeFacts, LenProperties
<1>2. QED
  BY <1>1, ByteValue DEF Function

(* What recv returns: at most length_to_read bytes, appended to msg.       *)
LEMMA Recv ==
  ASSUME TypeOK, wire # <<>>
  PROVE  /\ Taken \in Nat /\ Taken <= toRead
         /\ Received \in Seq(Byte)
         /\ Len(Received) = Len(msg) + Taken
         /\ \A p \in 1..Len(msg) : Received[p] = msg[p]
         /\ Unread \in Seq(Byte)
<1>1. /\ toRead \in Nat /\ msg \in Seq(Byte) /\ wire \in Seq(Byte)
      /\ Len(wire) \in Nat /\ Len(msg) \in Nat
  BY LenProperties DEF TypeOK
<1>2. Taken \in Nat /\ Taken <= toRead /\ Taken <= Len(wire)
  BY <1>1 DEF Taken
<1>3. \A p \in 1..Len(wire) : wire[p] \in Byte
  BY <1>1, ElementOfSeq
<1>4. /\ SubSeq(wire, 1, Taken) \in Seq(Byte)
      /\ Len(SubSeq(wire, 1, Taken)) = Taken
  <2>1. \A p \in 1..Taken : wire[p] \in Byte
    BY <1>1, <1>2, <1>3
  <2>2. QED
    BY <1>2, <2>1, SubSeqProperties
<1>5. Unread \in Seq(Byte)
  <2>1. \A p \in (Taken + 1)..Len(wire) : wire[p] \in Byte
    BY <1>1, <1>2, <1>3
  <2>2. QED
    BY <1>1, <1>2, <2>1, SubSeqProperties DEF Unread
<1>6. /\ Received \in Seq(Byte)
      /\ Len(Received) = Len(msg) + Taken
      /\ \A p \in 1..Len(msg) + Taken : p <= Len(msg) => Received[p] = msg[p]
  BY <1>1, <1>4, ConcatProperties DEF Received
<1>7. \A p \in 1..Len(msg) : Received[p] = msg[p]
  BY <1>1, <1>2, <1>6
<1>8. QED
  BY <1>2, <1>5, <1>6, <1>7

-----------------------------------------------------------------------------
(* Where the loop stands: how much of the message the current step covers. *)
StepInv ==
  pc = "loop" =>
    /\ step = "FUNCTION" => Len(msg) + toRead = Backend.header + 1
    /\ step = "META" =>
         /\ Len(msg) >= Backend.header + 1
         /\ Len(msg) + toRead =
              Backend.header + 1 + MetaLengthAfterFunction(Function(msg), MsgType)
    /\ step = "DATA" => Len(msg) + toRead <= Backend.maxAdu

ReceiveInv == TypeOK /\ StepInv

(* The data part asked for is a natural number: the byte count is read     *)
(* only where it has been received.                                        *)
LEMMA DataLength ==
  ASSUME TypeOK, NEW m \in Seq(Byte), Len(m) >= Backend.header + 1,
         HasByteCount(Function(m), MsgType) =>
           Len(m) >= Backend.header + 1 + ByteCountOffset(Function(m), MsgType)
  PROVE  AfterMeta(m).step = "DATA" /\ AfterMeta(m).toRead \in Nat
<1>1. Backend.header \in Nat /\ Backend.checksum \in Nat /\ Len(m) \in Nat
  BY ModeFacts, LenProperties
<1>3. Function(m) \in 0..255
  BY FunctionValue
<1>4. CASE HasByteCount(Function(m), MsgType)
  <2>1. ByteCountOffset(Function(m), MsgType) \in Nat \ {0}
    BY DEF ByteCountOffset
  <2>2. Backend.header + 1 + ByteCountOffset(Function(m), MsgType) \in 1..Len(m)
    BY <1>1, <1>4, <2>1
  <2>3. ByteCount(m) \in 0..255
    BY <2>2, ByteValue DEF ByteCount
  <2>4. \A c \in 0..255, k \in Nat : c + k \in Nat
    OBVIOUS
  <2>5. DataLengthAfterMeta(Backend, Function(m), ByteCount(m), MsgType)
          = ByteCount(m) + Backend.checksum
    BY <1>4 DEF DataLengthAfterMeta
  <2>6. QED
    BY <1>1, <2>3, <2>4, <2>5 DEF AfterMeta
<1>5. CASE ~HasByteCount(Function(m), MsgType)
  BY <1>1, <1>5 DEF AfterMeta, DataLengthAfterMeta
<1>6. QED
  BY <1>4, <1>5

(* When a step's bytes are all there, the next step is one of META and     *)
(* DATA, and its length is a natural number.                               *)
LEMMA NextStep ==
  ASSUME ReceiveInv, Readable, Taken = toRead
  PROVE  /\ AfterStep(Received).step \in {"META", "DATA"}
         /\ AfterStep(Received).toRead \in Nat
         /\ AfterStep(Received).step = "META" =>
              /\ Len(Received) = Backend.header + 1
              /\ AfterStep(Received).toRead =
                   MetaLengthAfterFunction(Function(Received), MsgType)
<1>T. TypeOK
  BY DEF ReceiveInv
<1> USE <1>T
<1> DEFINE m == Received
<1>1. /\ m \in Seq(Byte) /\ Len(m) = Len(msg) + toRead
      /\ \A p \in 1..Len(msg) : m[p] = msg[p]
      /\ pc = "loop"
  BY Recv DEF ReceiveInv, Readable
<1>2. Backend.header \in Nat /\ Len(m) \in Nat /\ Len(msg) \in Nat
  BY <1>1, ModeFacts, LenProperties DEF ReceiveInv, TypeOK
<1> HIDE DEF m
<1>4. CASE step = "FUNCTION"
  <2>1. Len(m) = Backend.header + 1
    BY <1>1, <1>4 DEF ReceiveInv, StepInv
  <2>2. Function(m) \in 0..255
    <3>1. Len(m) >= Backend.header + 1
      BY <1>2, <2>1
    <3>2. QED
      BY <1>1, <3>1, FunctionValue
  <2> DEFINE meta == MetaLengthAfterFunction(Function(m), MsgType)
  <2>3. meta \in 0..9
    BY <2>2, MetaTable
  <2>4. AfterStep(m) = AfterFunction(m)
    BY <1>4 DEF AfterStep
  <2>5. CASE meta # 0
    <3>1. AfterFunction(m) = [step |-> "META", toRead |-> meta]
      BY <2>5 DEF AfterFunction
    <3>2. QED
      BY <2>1, <2>3, <2>4, <3>1 DEF m
  <2>6. CASE meta = 0
    <3>1. AfterFunction(m) = AfterMeta(m)
      BY <2>6 DEF AfterFunction
    <3>2. ~HasByteCount(Function(m), MsgType)
      BY <2>2, <2>6, MetaTable
    <3>3. AfterMeta(m).step = "DATA" /\ AfterMeta(m).toRead \in Nat
      BY <1>1, <1>2, <2>1, <3>2, DataLength
    <3>4. QED
      BY <2>4, <3>1, <3>3 DEF m
  <2>7. QED
    BY <2>5, <2>6
<1>5. CASE step = "META"
  <2>1. /\ Len(msg) >= Backend.header + 1
        /\ Len(m) = Backend.header + 1
                      + MetaLengthAfterFunction(Function(msg), MsgType)
    BY <1>1, <1>5 DEF ReceiveInv, StepInv
  <2>2. Function(m) = Function(msg)
    BY <1>1, <1>2, <2>1 DEF Function
  <2>3. Function(m) \in 0..255
    <3>1. Len(m) >= Backend.header + 1
      BY <1>1, <1>2, <2>1 DEF ReceiveInv, TypeOK
    <3>2. QED
      BY <1>1, <3>1, FunctionValue
  <2>4. /\ MetaLengthAfterFunction(Function(m), MsgType) \in 0..9
        /\ HasByteCount(Function(m), MsgType) =>
             ByteCountOffset(Function(m), MsgType)
               \in 1..MetaLengthAfterFunction(Function(m), MsgType)
    BY <2>3, MetaTable
  <2>5. AfterMeta(m).step = "DATA" /\ AfterMeta(m).toRead \in Nat
    <3>1. Len(m) >= Backend.header + 1
      BY <1>2, <2>1, <2>2, <2>4
    <3>2. ASSUME HasByteCount(Function(m), MsgType)
          PROVE  Len(m) >= Backend.header + 1 + ByteCountOffset(Function(m), MsgType)
      <4> DEFINE meta   == MetaLengthAfterFunction(Function(m), MsgType)
                 offset == ByteCountOffset(Function(m), MsgType)
      <4>1. meta \in 0..9 /\ offset \in 1..meta
        BY <2>4, <3>2
      <4>2. Len(m) = Backend.header + 1 + meta
        BY <2>1, <2>2
      <4> HIDE DEF meta, offset, m
      <4>3. Len(m) >= Backend.header + 1 + offset
        BY <1>2, <4>1, <4>2
      <4>4. QED
        BY <4>3 DEF offset
    <3>3. QED
      BY <1>1, <3>1, <3>2, DataLength
  <2>6. QED
    BY <1>5, <2>5 DEF AfterStep, m
<1>6. CASE step = "DATA"
  BY <1>6 DEF AfterStep, m
<1>7. QED
  BY <1>4, <1>5, <1>6 DEF ReceiveInv, TypeOK
-----------------------------------------------------------------------------
(* The peer and the line only move bytes and close the connection.         *)
LEMMA EnvironmentStep ==
  ASSUME ReceiveInv,
         \/ \E f \in mode.frames : PeerBegins(f)
         \/ \E k \in 1..Len(out) : Arrive(k)
         \/ PeerResets
  PROVE  ReceiveInv'
<1>0. mode' = mode /\ Backend' = Backend /\ MsgType' = MsgType
  BY ModeKept DEF Next
<1>M. mode.maxFrames \in Nat /\ \A f \in mode.frames : BytesOf(mode, f) \in Seq(Byte)
  BY ModeFacts DEF ReceiveInv
<1> USE <1>0 DEF ReceiveInv, StepInv, Function, TypeOK
<1>1. ASSUME NEW f \in mode.frames, PeerBegins(f)
      PROVE  ReceiveInv'
  <2>1. out' \in Seq(Byte)
    BY <1>1, <1>M DEF PeerBegins
  <2>2. written' \in 0..mode.maxFrames
    BY <1>1, <1>M DEF PeerBegins
  <2>3. QED
    BY <1>1, <2>1, <2>2 DEF PeerBegins
<1>2. ASSUME NEW k \in 1..Len(out), Arrive(k)
      PROVE  ReceiveInv'
  <2>1. out \in Seq(Byte) /\ wire \in Seq(Byte) /\ Len(out) \in Nat /\ k \in Nat
    BY LenProperties
  <2>2. \A p \in 1..Len(out) : out[p] \in Byte
    BY ElementOfSeq
  <2>3. SubSeq(out, 1, k) \in Seq(Byte)
    <3>1. \A p \in 1..k : out[p] \in Byte
      BY <2>1, <2>2
    <3>2. QED
      BY <2>1, <3>1, SubSeqProperties
  <2>4. SubSeq(out, k + 1, Len(out)) \in Seq(Byte)
    <3>1. \A p \in (k + 1)..Len(out) : out[p] \in Byte
      BY <2>1, <2>2
    <3>2. QED
      BY <2>1, <3>1, SubSeqProperties
  <2>5. wire' \in Seq(Byte) /\ out' \in Seq(Byte)
    BY <1>2, <2>1, <2>3, <2>4, ConcatProperties DEF Arrive
  <2>6. QED
    BY <1>2, <2>5 DEF Arrive
<1>3. CASE PeerResets
  BY <1>3 DEF PeerResets
<1>4. QED
  BY <1>1, <1>2, <1>3

(* A step of receive_msg other than recv leaves the loop or enters it with *)
(* an empty message.                                                       *)
LEMMA ControlStep ==
  ASSUME ReceiveInv, Call \/ Timeout \/ Flush \/ BadDescriptor \/ Closed
  PROVE  ReceiveInv'
<1>0. mode' = mode /\ Backend' = Backend /\ MsgType' = MsgType
  BY ModeKept DEF Next
<1>M. Backend.header \in Nat
  BY ModeFacts DEF ReceiveInv
<1> USE <1>0 DEF ReceiveInv, StepInv, Function, TypeOK, Errors
<1>1. CASE Call
  <2>1. Backend.header + 1 \in Nat
    BY <1>M
  <2>2. Len(<<>>) = 0
    OBVIOUS
  <2>3. \A h \in Nat : 0 + (h + 1) = h + 1
    OBVIOUS
  <2>4. QED
    BY <1>1, <2>1, <2>2, <2>3, <1>M DEF Call, FirstTimer
<1>2. CASE Timeout
  BY <1>2 DEF Timeout, Return
<1>3. CASE Flush
  BY <1>3 DEF Flush
<1>4. CASE BadDescriptor
  <2>1. /\ UNCHANGED <<msg, written, step, toRead, timer>>
        /\ pc' = "idle" /\ result' = "EBADF"
    BY <1>4 DEF BadDescriptor, Return, Reconnect
  <2>2. /\ out' \in Seq(Byte) /\ wire' \in Seq(Byte)
        /\ conn' \in {"up", "reset", "closed"}
    BY <1>4, EmptySeq DEF BadDescriptor, Reconnect
  <2>3. QED
    BY <2>1, <2>2
<1>5. CASE Closed
  <2>1. /\ UNCHANGED <<msg, written, step, toRead, timer>>
        /\ pc' = "idle" /\ result' = "ECONNRESET"
    BY <1>5 DEF Closed, Return, Reconnect
  <2>2. /\ out' \in Seq(Byte) /\ wire' \in Seq(Byte)
        /\ conn' \in {"up", "reset", "closed"}
    BY <1>5, EmptySeq DEF Closed, Reconnect
  <2>3. QED
    BY <2>1, <2>2
<1>6. QED
  BY <1>1, <1>2, <1>3, <1>4, <1>5

(* recv, and the choice of the next step.                                  *)
LEMMA RecvPreserves ==
  ASSUME ReceiveInv, Receive
  PROVE  ReceiveInv'
<1>0. mode' = mode /\ Backend' = Backend /\ MsgType' = MsgType
  BY ModeKept DEF Next
<1>1. /\ wire # <<>> /\ pc = "loop"
  BY DEF Receive, RecvPart, RecvStep, RecvTooMany, RecvLast, Readable
<1>2. /\ Taken \in Nat /\ Taken <= toRead
      /\ Received \in Seq(Byte) /\ Len(Received) = Len(msg) + Taken
      /\ \A p \in 1..Len(msg) : Received[p] = msg[p]
      /\ Unread \in Seq(Byte)
  BY <1>1, Recv DEF ReceiveInv
<1>3. /\ Len(msg) \in Nat /\ toRead \in Nat /\ Backend.header \in Nat
      /\ Backend.maxAdu \in Nat
  BY ModeFacts, LenProperties DEF ReceiveInv, TypeOK
<1>4. TimerAfterBytes \in BOOLEAN
  BY DEF TimerAfterBytes
<1>5. CASE RecvPart
  <2>1. TypeOK'
    BY <1>2, <1>3, <1>4, <1>5 DEF RecvPart, ReceiveInv, TypeOK
  <2>2. Len(msg') + toRead' = Len(msg) + toRead /\ Len(msg') >= Len(msg)
    <3>1. msg' = Received /\ toRead' = toRead - Taken
      BY <1>5 DEF RecvPart
    <3>2. Len(msg') = Len(msg) + Taken
      BY <1>2, <3>1
    <3> HIDE DEF Taken
    <3>3. QED
      BY <1>2, <1>3, <3>1, <3>2
  <2>3. step = "META" => Function(msg') = Function(msg)
    <3>1. SUFFICES ASSUME step = "META"
                   PROVE  Received[Backend.header + 1] = msg[Backend.header + 1]
      BY <1>5 DEF RecvPart, Function
    <3>2. Len(msg) >= Backend.header + 1
      BY <1>1, <3>1 DEF ReceiveInv, StepInv
    <3>3. Backend.header + 1 \in 1..Len(msg)
      BY <1>3, <3>2
    <3>4. QED
      BY <1>2, <3>3
  <2>4. step = "META" => Len(msg') >= Backend.header + 1
    BY <1>1, <1>2, <1>3, <1>5 DEF RecvPart, ReceiveInv, StepInv
  <2>5. step' = step
    BY <1>5 DEF RecvPart
  <2>6. StepInv'
    BY <1>0, <1>1, <2>2, <2>3, <2>4, <2>5 DEF ReceiveInv, StepInv, Function
  <2>7. QED
    BY <2>1, <2>6 DEF ReceiveInv
<1>6. CASE RecvStep \/ RecvTooMany \/ RecvLast
  <2>1. Readable /\ Taken = toRead
    BY <1>6 DEF RecvStep, RecvTooMany, RecvLast
  <2>2. /\ AfterStep(Received).step \in {"META", "DATA"}
        /\ AfterStep(Received).toRead \in Nat
        /\ AfterStep(Received).step = "META" =>
             /\ Len(Received) = Backend.header + 1
             /\ AfterStep(Received).toRead =
                  MetaLengthAfterFunction(Function(Received), MsgType)
    BY <2>1, NextStep
  <2>3. /\ msg' = Received
        /\ step' = AfterStep(Received).step \/ step' = step
        /\ toRead' = AfterStep(Received).toRead
        /\ wire' = Unread \/ wire' = <<>>
        /\ out' = out /\ conn' = conn /\ written' = written
        /\ pc' = "loop" \/ pc' = "idle"
        /\ timer' = timer \/ timer' = TimerAfterBytes
        /\ result' = result \/ result' \in {"ok", "EMBBADDATA", "EMBBADCRC"}
    <3>1. CASE RecvStep
      BY <1>1, <3>1 DEF RecvStep
    <3>2. CASE RecvTooMany
      BY <3>2 DEF RecvTooMany, Return
    <3>3. CASE RecvLast
      BY <3>3 DEF RecvLast, Return
    <3>4. QED
      BY <1>6, <3>1, <3>2, <3>3
  <2>4. TypeOK'
    <3>1. wire' \in Seq(Byte)
      BY <1>2, <2>3, EmptySeq
    <3>2. timer' \in BOOLEAN
      BY <1>4, <2>3 DEF ReceiveInv, TypeOK
    <3>3. result' \in {"none", "ok"} \union Errors
      BY <2>3 DEF ReceiveInv, TypeOK, Errors
    <3>4. msg' \in Seq(Byte) /\ step' \in {"FUNCTION", "META", "DATA"} /\ toRead' \in Nat
      BY <1>2, <2>2, <2>3 DEF ReceiveInv, TypeOK
    <3>5. /\ out' \in Seq(Byte) /\ conn' \in {"up", "reset", "closed"}
          /\ written' \in 0..mode.maxFrames /\ pc' \in {"idle", "loop", "sleep"}
      BY <2>3 DEF ReceiveInv, TypeOK
    <3>6. QED
      BY <1>0, <3>1, <3>2, <3>3, <3>4, <3>5 DEF ReceiveInv, TypeOK
  <2>5. CASE RecvStep
    <3>1. step' = AfterStep(Received).step /\ ~TooManyData(Received)
      BY <2>5 DEF RecvStep
    <3>2. Len(Received) \in Nat
      BY <1>2, <1>3
    <3>3. step' = "DATA" =>
            Len(Received) + AfterStep(Received).toRead <= Backend.maxAdu
      BY <1>3, <2>2, <3>1, <3>2 DEF TooManyData
    <3>4. step' = "META" => /\ Len(msg') >= Backend.header + 1
                            /\ Len(msg') + toRead' = Backend.header + 1
                                 + MetaLengthAfterFunction(Function(msg'), MsgType)
      <4>1. SUFFICES ASSUME step' = "META"
                     PROVE  /\ Len(msg') >= Backend.header + 1
                            /\ Len(msg') + toRead' = Backend.header + 1
                                 + MetaLengthAfterFunction(Function(msg'), MsgType)
        OBVIOUS
      <4>2. /\ Len(msg') = Backend.header + 1
            /\ toRead' = MetaLengthAfterFunction(Function(msg'), MsgType)
        BY <2>2, <2>3, <3>1, <4>1
      <4>3. QED
        BY <1>3, <4>2
    <3>5. step' = "DATA" => Len(msg') + toRead' <= Backend.maxAdu
      BY <2>3, <3>3
    <3>6. step' # "FUNCTION"
      BY <2>2, <3>1
    <3>7. StepInv'
      BY <1>0, <3>4, <3>5, <3>6 DEF StepInv, Function
    <3>8. QED
      BY <2>4, <3>7 DEF ReceiveInv
  <2>6. CASE RecvTooMany \/ RecvLast
    <3>1. pc' = "idle"
      BY <2>6 DEF RecvTooMany, RecvLast, Return
    <3>2. QED
      BY <2>4, <3>1 DEF ReceiveInv, StepInv
  <2>7. QED
    BY <1>6, <2>5, <2>6
<1>7. QED
  BY <1>5, <1>6 DEF Receive

LEMMA InitialState ==
  ASSUME Init
  PROVE  ReceiveInv
<1>1. out \in Seq(Byte) /\ wire \in Seq(Byte) /\ msg \in Seq(Byte)
  BY EmptySeq DEF Init
<1>2. written \in 0..mode.maxFrames
  BY ModesAssumption DEF Init
<1>3. TypeOK
  BY <1>1, <1>2 DEF Init, TypeOK
<1>4. StepInv
  BY DEF Init, StepInv
<1>5. QED
  BY <1>3, <1>4 DEF ReceiveInv

LEMMA Invariance == Spec => []ReceiveInv
<1>1. Init => ReceiveInv
  BY InitialState
<1>2. ReceiveInv /\ [Next]_vars => ReceiveInv'
  <2> SUFFICES ASSUME ReceiveInv, [Next]_vars
               PROVE  ReceiveInv'
    OBVIOUS
  <2>1. CASE Next
    BY <2>1, EnvironmentStep, ControlStep, RecvPreserves DEF Next
  <2>2. CASE UNCHANGED vars
    BY <2>2 DEF vars, ReceiveInv, TypeOK, StepInv, Function, Backend, MsgType
  <2>3. QED
    BY <2>1, <2>2
<1>3. QED
  BY <1>1, <1>2, PTL DEF Spec

(* Type correctness of receive_msg's state.                                *)
THEOREM TypeCorrect == Spec => []TypeOK
<1>1. ReceiveInv => TypeOK
  BY DEF ReceiveInv
<1>2. QED
  BY <1>1, Invariance, PTL

(* The buffer of the caller holds whatever receive_msg asks recv for.      *)
THEOREM NoOverflow == Spec => []BufferBound
<1>1. ReceiveInv => BufferBound
  <2> SUFFICES ASSUME ReceiveInv, pc = "loop"
               PROVE  Len(msg) + toRead <= Backend.maxAdu
    BY DEF BufferBound
  <2>M. /\ Backend.header \in Nat /\ Backend.maxAdu \in Nat
        /\ Backend.header + 10 <= Backend.maxAdu
    BY ModeFacts DEF ReceiveInv
  <2>1. /\ Len(msg) \in Nat /\ toRead \in Nat /\ msg \in Seq(Byte)
        /\ step \in {"FUNCTION", "META", "DATA"}
    BY LenProperties DEF ReceiveInv, TypeOK
  <2>2. CASE step = "META"
    <3>1. MetaLengthAfterFunction(Function(msg), MsgType) \in 0..9
      BY <2>1, <2>2, FunctionValue, MetaTable DEF ReceiveInv, StepInv
    <3>2. Len(msg) + toRead =
            Backend.header + 1 + MetaLengthAfterFunction(Function(msg), MsgType)
      BY <2>2 DEF ReceiveInv, StepInv
    <3>3. \A h, a \in Nat, k \in 0..9 : h + 10 <= a => h + 1 + k <= a
      OBVIOUS
    <3>4. QED
      BY <2>M, <3>1, <3>2, <3>3
  <2>3. CASE step = "FUNCTION"
    <3>1. \A h, a \in Nat : h + 10 <= a => h + 1 <= a
      OBVIOUS
    <3>2. QED
      BY <2>M, <2>3, <3>1 DEF ReceiveInv, StepInv
  <2>4. CASE step = "DATA"
    BY <2>4 DEF ReceiveInv, StepInv
  <2>5. QED
    BY <2>1, <2>2, <2>3, <2>4
<1>2. QED
  BY <1>1, Invariance, PTL

-----------------------------------------------------------------------------
(* A run of bytes of the line: every undamaged frame in it is there byte   *)
(* by byte, as far as the run goes, and is followed by the first byte of   *)
(* another one.                                                            *)
Follows(m, s, p, f) ==
  \A q \in p..Len(s) : q - p < f.n => s[q] = BytesOf(m, f)[q - p + 1]

Flow(m, s) ==
  /\ \A p \in 1..Len(s) :
       s[p].i = 1 /\ s[p].ok => \E f \in m.frames : f.ok /\ Follows(m, s, p, f)
  /\ \A p \in 1..(Len(s) - 1) : s[p].i = s[p].n => s[p + 1].i = 1
  /\ (\A f \in m.frames : f.ok) => \A p \in 1..Len(s) : s[p].ok

Ended(s) == s # <<>> => s[Len(s)].i = s[Len(s)].n

LEMMA FrameBytes ==
  ASSUME TypeOK, NEW f \in mode.frames
  PROVE  /\ BytesOf(mode, f) \in Seq(Byte)
         /\ Len(BytesOf(mode, f)) \in Nat
         /\ \A p \in 1..Len(BytesOf(mode, f)) :
              /\ BytesOf(mode, f)[p].i = p
              /\ BytesOf(mode, f)[p].n = Len(BytesOf(mode, f))
              /\ BytesOf(mode, f)[p].ok = f.ok
         /\ f.n \in Nat => Len(BytesOf(mode, f)) = f.n
<1> DEFINE s == BytesOf(mode, f)
<1>1. s \in Seq(Byte) /\ Len(s) \in Nat /\ DOMAIN s = 1..Len(s)
  BY ModeFacts, LenProperties
<1>2. DOMAIN s = 1..f.n
  BY DEF BytesOf
<1>3. \A p \in 1..f.n : s[p].i = p /\ s[p].n = f.n /\ s[p].ok = f.ok
  BY DEF BytesOf
<1>4. \A p \in 1..Len(s) : s[p] \in Byte
  BY <1>1, ElementOfSeq
<1>5. Len(s) # 0 => f.n \in Nat
  <2>1. Len(s) # 0 => 1 \in 1..Len(s)
    BY <1>1
  <2>2. 1 \in 1..Len(s) => s[1].n = f.n
    BY <1>1, <1>2, <1>3
  <2> HIDE DEF s
  <2>3. 1 \in 1..Len(s) => s[1].n \in Nat
    BY <1>4 DEF Byte
  <2>4. QED
    BY <2>1, <2>2, <2>3
<1>6. f.n \in Nat => Len(s) = f.n
  <2> HIDE DEF s
  <2>1. SUFFICES ASSUME f.n \in Nat PROVE Len(s) = f.n
    OBVIOUS
  <2>2. \A k, n \in Nat : (1..k = 1..n) => k = n
    <3>1. SUFFICES ASSUME NEW k \in Nat, NEW n \in Nat, 1..k = 1..n, k < n PROVE FALSE
      OBVIOUS
    <3>2. n \in 1..n /\ n \notin 1..k
      BY <3>1
    <3>3. QED
      BY <3>1, <3>2
  <2>3. QED
    BY <1>1, <1>2, <2>1, <2>2
<1> HIDE DEF s
<1>7. \A p \in 1..Len(s) : s[p].n = Len(s)
  <2>1. SUFFICES ASSUME NEW p \in 1..Len(s) PROVE s[p].n = Len(s)
    OBVIOUS
  <2>2. Len(s) # 0
    BY <1>1
  <2>3. QED
    BY <1>1, <1>2, <1>3, <1>5, <1>6, <2>2
<1>8. QED
  BY <1>1, <1>2, <1>3, <1>6, <1>7 DEF s

LEMMA FlowEmpty == Flow(mode, <<>>) /\ Ended(<<>>)
<1>1. Len(<<>>) = 0
  OBVIOUS
<1>2. QED
  BY <1>1 DEF Flow, Ended

(* The rest of a run, and its beginning, are runs.                         *)
LEMMA FlowSuffix ==
  ASSUME NEW a \in Seq(Byte), NEW b \in Seq(Byte), Flow(mode, a \o b)
  PROVE  Flow(mode, b)
<1> DEFINE s == a \o b
<1>1. /\ Len(a) \in Nat /\ Len(b) \in Nat /\ Len(s) = Len(a) + Len(b)
      /\ \A p \in 1..Len(b) : s[p + Len(a)] = b[p] /\ p + Len(a) \in 1..Len(s)
  BY ConcatProperties, LenProperties
<1> HIDE DEF s
<1>2. ASSUME NEW p \in 1..Len(b), b[p].i = 1, b[p].ok
      PROVE  \E f \in mode.frames : f.ok /\ Follows(mode, b, p, f)
  <2>1. PICK f \in mode.frames : f.ok /\ Follows(mode, s, p + Len(a), f)
    BY <1>1, <1>2 DEF Flow, s
  <2>2. ASSUME NEW q \in p..Len(b), q - p < f.n
        PROVE  b[q] = BytesOf(mode, f)[q - p + 1]
    <3>1. q \in 1..Len(b) /\ s[q + Len(a)] = b[q]
      BY <1>1, <2>2
    <3>2. q + Len(a) \in (p + Len(a))..Len(s) /\ (q + Len(a)) - (p + Len(a)) = q - p
      BY <1>1, <2>2
    <3>3. QED
      BY <2>1, <2>2, <3>1, <3>2 DEF Follows
  <2>3. QED
    BY <2>1, <2>2 DEF Follows
<1>3. ASSUME NEW p \in 1..(Len(b) - 1), b[p].i = b[p].n
      PROVE  b[p + 1].i = 1
  <2>1. /\ p \in 1..Len(b) /\ p + 1 \in 1..Len(b) /\ p + Len(a) \in 1..(Len(s) - 1)
        /\ (p + 1) + Len(a) = (p + Len(a)) + 1
    BY <1>1, <1>3
  <2>2. s[p + Len(a)] = b[p] /\ s[(p + 1) + Len(a)] = b[p + 1]
    BY <1>1, <2>1, Zenon
  <2>3. QED
    BY <1>3, <2>1, <2>2 DEF Flow, s
<1>4. (\A f \in mode.frames : f.ok) => \A p \in 1..Len(b) : b[p].ok
  BY <1>1 DEF Flow, s
<1>5. QED
  BY <1>2, <1>3, <1>4 DEF Flow

LEMMA FlowPrefix ==
  ASSUME NEW a \in Seq(Byte), NEW b \in Seq(Byte), Flow(mode, a \o b)
  PROVE  Flow(mode, a)
<1> DEFINE s == a \o b
<1>1. /\ Len(a) \in Nat /\ Len(b) \in Nat /\ Len(s) = Len(a) + Len(b)
      /\ \A p \in 1..Len(a) : s[p] = a[p] /\ p \in 1..Len(s)
  BY ConcatProperties, LenProperties
<1> HIDE DEF s
<1>2. ASSUME NEW p \in 1..Len(a), a[p].i = 1, a[p].ok
      PROVE  \E f \in mode.frames : f.ok /\ Follows(mode, a, p, f)
  <2>1. PICK f \in mode.frames : f.ok /\ Follows(mode, s, p, f)
    BY <1>1, <1>2 DEF Flow, s
  <2>2. ASSUME NEW q \in p..Len(a), q - p < f.n
        PROVE  a[q] = BytesOf(mode, f)[q - p + 1]
    <3>1. q \in 1..Len(a) /\ q \in p..Len(s)
      BY <1>1, <2>2
    <3>2. QED
      BY <1>1, <2>1, <2>2, <3>1 DEF Follows
  <2>3. QED
    BY <2>1, <2>2 DEF Follows
<1>3. ASSUME NEW p \in 1..(Len(a) - 1), a[p].i = a[p].n
      PROVE  a[p + 1].i = 1
  <2>1. p \in 1..Len(a) /\ p + 1 \in 1..Len(a) /\ p \in 1..(Len(s) - 1)
    BY <1>1, <1>3
  <2>2. QED
    BY <1>1, <1>3, <2>1 DEF Flow, s
<1>4. (\A f \in mode.frames : f.ok) => \A p \in 1..Len(a) : a[p].ok
  BY <1>1 DEF Flow, s
<1>5. QED
  BY <1>2, <1>3, <1>4 DEF Flow

LEMMA EndedSuffix ==
  ASSUME NEW a \in Seq(Byte), NEW b \in Seq(Byte), Ended(a \o b)
  PROVE  Ended(b)
<1> DEFINE s == a \o b
<1>1. /\ Len(a) \in Nat /\ Len(b) \in Nat /\ Len(s) = Len(a) + Len(b)
      /\ \A p \in 1..Len(b) : s[p + Len(a)] = b[p]
  BY ConcatProperties, LenProperties
<1>2. b # <<>> => Len(b) # 0
  BY EmptySeq
<1> HIDE DEF s
<1>3. SUFFICES ASSUME b # <<>> PROVE b[Len(b)].i = b[Len(b)].n
  BY DEF Ended
<1>4. Len(b) \in 1..Len(b) /\ Len(b) + Len(a) = Len(s) /\ Len(s) # 0
  BY <1>1, <1>2, <1>3
<1>5. s # <<>>
  BY <1>4
<1>6. s[Len(s)] = b[Len(b)]
  BY <1>1, <1>4
<1>7. QED
  BY <1>5, <1>6 DEF Ended, s

(* What the tables of receive_msg make of a function and a byte count.     *)
LEMMA LengthNatural ==
  ASSUME TypeOK, NEW fn \in 0..255, NEW c \in 0..255
  PROVE  /\ MetaLengthAfterFunction(fn, MsgType) \in 0..9
         /\ DataLengthAfterMeta(Backend, fn, c, MsgType) \in Nat
         /\ ReceivedLength(Backend, fn, c, MsgType) \in Nat
<1> DEFINE meta == MetaLengthAfterFunction(fn, MsgType)
           data == DataLengthAfterMeta(Backend, fn, c, MsgType)
<1>1. meta \in 0..9
  BY MetaTable
<1>2. Backend.header \in Nat /\ Backend.checksum \in Nat
  BY ModeFacts
<1>3. data \in Nat
  <2>1. \A k \in Nat : c + k \in Nat /\ 0 + k \in Nat
    OBVIOUS
  <2>2. data = c + Backend.checksum \/ data = 0 + Backend.checksum
    BY DEF DataLengthAfterMeta
  <2>3. QED
    BY <1>2, <2>1, <2>2
<1>4. ReceivedLength(Backend, fn, c, MsgType) = Backend.header + 1 + meta + data
  BY DEF ReceivedLength
<1> HIDE DEF meta, data
<1>5. ReceivedLength(Backend, fn, c, MsgType) \in Nat
  BY <1>1, <1>2, <1>3, <1>4
<1>6. QED
  BY <1>1, <1>3, <1>5 DEF meta, data

(* The peer begins a frame when nothing is left of the last one.           *)
LEMMA FlowFrame ==
  ASSUME TypeOK, FramesFramed, NEW s \in Seq(Byte), Flow(mode, s), Ended(s), NEW f \in mode.frames
  PROVE  Flow(mode, s \o BytesOf(mode, f)) /\ Ended(s \o BytesOf(mode, f))
<1> DEFINE b == BytesOf(mode, f)
           t == s \o b
<1>1. /\ b \in Seq(Byte) /\ Len(b) \in Nat
      /\ \A p \in 1..Len(b) : b[p].i = p /\ b[p].n = Len(b) /\ b[p].ok = f.ok
      /\ f.n \in Nat => Len(b) = f.n
  BY FrameBytes
<1>2. /\ Len(s) \in Nat /\ t \in Seq(Byte) /\ Len(t) = Len(s) + Len(b)
      /\ \A p \in 1..Len(s) + Len(b) : t[p] = IF p <= Len(s) THEN s[p] ELSE b[p - Len(s)]
  BY <1>1, ConcatProperties, LenProperties
<1>3. mode \in Modes
  BY DEF TypeOK
<1>4. \A g \in mode.frames : g.ok => g.n \in Nat /\ Len(BytesOf(mode, g)) = g.n
  <2>1. SUFFICES ASSUME NEW g \in mode.frames, g.ok
                 PROVE  g.n \in Nat /\ Len(BytesOf(mode, g)) = g.n
    OBVIOUS
  <2>2. Framed(mode, g)
    BY <1>3, <2>1 DEF FramesFramed
  <2>3. g.n \in Nat
    <3>1. g.fn \in 0..255 /\ g.count \in 0..255
      BY <2>2 DEF Framed
    <3>2. ReceivedLength(Backend, g.fn, g.count, MsgType) \in Nat
      BY <3>1, LengthNatural
    <3>3. QED
      BY <2>2, <3>2 DEF Framed, Backend, MsgType
  <2>4. QED
    BY <2>1, <2>3, FrameBytes
<1> HIDE DEF t, b
<1>5. ASSUME NEW p \in 1..Len(t), t[p].i = 1, t[p].ok
      PROVE  \E g \in mode.frames : g.ok /\ Follows(mode, t, p, g)
  <2>1. CASE p <= Len(s)
    <3>1. p \in 1..Len(s) /\ t[p] = s[p] /\ s # <<>>
      BY <1>2, <2>1
    <3>2. PICK g \in mode.frames : g.ok /\ Follows(mode, s, p, g)
      BY <1>5, <3>1 DEF Flow
    <3>3. g.n \in Nat /\ Len(BytesOf(mode, g)) = g.n
      BY <1>4, <3>2
    <3>4. g.n <= Len(s) - p + 1
      <4>1. SUFFICES ASSUME Len(s) - p < g.n PROVE g.n <= Len(s) - p + 1
        BY <1>2, <3>1, <3>3
      <4>2. Len(s) \in p..Len(s)
        BY <1>2, <3>1
      <4>3. s[Len(s)] = BytesOf(mode, g)[Len(s) - p + 1]
        BY <3>2, <4>1, <4>2 DEF Follows
      <4>4. Len(s) - p + 1 \in 1..Len(BytesOf(mode, g))
        BY <1>2, <3>1, <3>3, <4>1
      <4>5. s[Len(s)].i = Len(s) - p + 1 /\ s[Len(s)].n = g.n
        BY <3>3, <4>3, <4>4, FrameBytes
      <4>6. QED
        BY <3>1, <3>3, <4>5 DEF Ended
    <3>5. ASSUME NEW q \in p..Len(t), q - p < g.n
          PROVE  t[q] = BytesOf(mode, g)[q - p + 1]
      <4>1. q \in p..Len(s) /\ q \in 1..Len(s) + Len(b) /\ q <= Len(s)
        BY <1>1, <1>2, <3>1, <3>3, <3>4, <3>5
      <4>2. t[q] = s[q]
        BY <1>2, <4>1
      <4>3. QED
        BY <3>2, <3>5, <4>1, <4>2 DEF Follows
    <3>6. QED
      BY <3>2, <3>5 DEF Follows
  <2>2. CASE p > Len(s)
    <3>1. p - Len(s) \in 1..Len(b) /\ t[p] = b[p - Len(s)]
      BY <1>1, <1>2, <1>5, <2>2
    <3>2. p = Len(s) + 1 /\ f.ok
      BY <1>1, <1>2, <1>5, <3>1
    <3>3. f.n \in Nat /\ Len(b) = f.n
      BY <1>4, <3>2 DEF b
    <3>4. ASSUME NEW q \in p..Len(t), q - p < f.n
          PROVE  t[q] = b[q - p + 1]
      <4>1. q \in 1..Len(s) + Len(b) /\ ~(q <= Len(s)) /\ q - Len(s) = q - p + 1
        BY <1>1, <1>2, <3>2, <3>4
      <4>2. QED
        BY <1>2, <4>1
    <3>5. QED
      BY <3>2, <3>4 DEF Follows, b
  <2>3. QED
    BY <1>2, <2>1, <2>2
<1>6. ASSUME NEW p \in 1..(Len(t) - 1), t[p].i = t[p].n
      PROVE  t[p + 1].i = 1
  <2>1. CASE p < Len(s)
    <3>1. p \in 1..(Len(s) - 1) /\ t[p] = s[p] /\ t[p + 1] = s[p + 1]
      BY <1>1, <1>2, <2>1
    <3>2. QED
      BY <1>6, <3>1 DEF Flow
  <2>2. CASE p = Len(s)
    <3>1. 1 \in 1..Len(b) /\ t[p + 1] = b[1]
      BY <1>1, <1>2, <2>2
    <3>2. QED
      BY <1>1, <3>1
  <2>3. CASE p > Len(s)
    <3>1. /\ p - Len(s) \in 1..Len(b) /\ p - Len(s) # Len(b)
          /\ t[p] = b[p - Len(s)]
      BY <1>1, <1>2, <2>3
    <3>2. b[p - Len(s)].i = p - Len(s) /\ b[p - Len(s)].n = Len(b)
      BY <1>1, <3>1
    <3>3. t[p].i # t[p].n
      BY <3>1, <3>2
    <3>4. QED
      BY <1>6, <3>3
  <2>4. QED
    BY <1>1, <1>2, <1>6, <2>1, <2>2, <2>3
<1>7. Flow(mode, t)
  <2>1. ASSUME \A g \in mode.frames : g.ok, NEW p \in 1..Len(t)
        PROVE  t[p].ok
    <3>1. CASE p <= Len(s)
      <4>1. p \in 1..Len(s) /\ t[p] = s[p]
        BY <1>1, <1>2, <3>1
      <4>2. QED
        BY <2>1, <4>1 DEF Flow
    <3>2. CASE p > Len(s)
      <4>1. p - Len(s) \in 1..Len(b) /\ t[p] = b[p - Len(s)]
        BY <1>1, <1>2, <3>2
      <4>2. b[p - Len(s)].ok = f.ok
        BY <1>1, <4>1
      <4>3. QED
        BY <2>1, <4>1, <4>2
    <3>3. QED
      BY <1>1, <1>2, <3>1, <3>2
  <2>2. QED
    BY <1>5, <1>6, <2>1 DEF Flow
<1>8. Ended(t)
  <2>1. CASE Len(b) = 0
    <3>1. b = <<>>
      BY <1>1, <2>1, EmptySeq
    <3>2. t = s
      BY <3>1, ConcatEmptySeq DEF t
    <3>3. QED
      BY <3>2
  <2>2. CASE Len(b) # 0
    <3>1. Len(t) \in 1..Len(s) + Len(b) /\ ~(Len(t) <= Len(s)) /\ Len(t) - Len(s) = Len(b)
      BY <1>1, <1>2, <2>2
    <3>2. t[Len(t)] = b[Len(b)] /\ Len(b) \in 1..Len(b)
      BY <1>1, <1>2, <2>2, <3>1
    <3>3. QED
      BY <1>1, <3>2 DEF Ended
  <2>3. QED
    BY <2>1, <2>2
<1>9. QED
  BY <1>7, <1>8 DEF t, b

-----------------------------------------------------------------------------
(* How long the message will be, as far as the current step knows.         *)
Sized(m, st, k) ==
  /\ st = "FUNCTION" => Len(m) + k = Backend.header + 1
  /\ st = "META" =>
       /\ Len(m) >= Backend.header + 1
       /\ Len(m) + k =
            Backend.header + 1 + MetaLengthAfterFunction(Function(m), MsgType)
  /\ st = "DATA" =>
       /\ Len(m) >= Backend.header + 1 + MetaLengthAfterFunction(Function(m), MsgType)
       /\ Len(m) + k = ReceivedLength(Backend, Function(m), ByteCount(m), MsgType)

(* Bytes that are added behind them change neither the function code nor   *)
(* the byte count.                                                         *)
LEMMA SameHead ==
  ASSUME TypeOK, NEW a \in Seq(Byte), NEW m \in Seq(Byte), Len(a) <= Len(m),
         \A p \in 1..Len(a) : m[p] = a[p], Len(a) >= Backend.header + 1
  PROVE  /\ Function(m) = Function(a)
         /\ /\ Len(a) >= Backend.header + 1 + MetaLengthAfterFunction(Function(a), MsgType)
            /\ HasByteCount(Function(a), MsgType)
            => ByteCount(m) = ByteCount(a)
<1>1. Backend.header \in Nat /\ Len(a) \in Nat
  BY ModeFacts, LenProperties
<1>2. Backend.header + 1 \in 1..Len(a)
  BY <1>1
<1>3. Function(m) = Function(a)
  BY <1>2 DEF Function
<1>4. Function(a) \in 0..255
  BY FunctionValue
<1>5. ASSUME Len(a) >= Backend.header + 1 + MetaLengthAfterFunction(Function(a), MsgType),
             HasByteCount(Function(a), MsgType)
      PROVE  ByteCount(m) = ByteCount(a)
  <2> DEFINE meta   == MetaLengthAfterFunction(Function(a), MsgType)
             offset == ByteCountOffset(Function(a), MsgType)
  <2>1. meta \in 0..9 /\ offset \in 1..meta
    BY <1>4, <1>5, MetaTable
  <2>2. Len(a) >= Backend.header + 1 + meta
    BY <1>5
  <2> HIDE DEF meta, offset
  <2>3. Backend.header + 1 + offset \in 1..Len(a)
    BY <1>1, <2>1, <2>2
  <2>4. m[Backend.header + 1 + offset] = a[Backend.header + 1 + offset]
    BY <2>3
  <2>5. QED
    BY <1>3, <2>4 DEF ByteCount, offset
<1>6. QED
  BY <1>3, <1>5

(* A function without a byte count has the same length whatever the byte   *)
(* at that place says.                                                     *)
LEMMA SameLength ==
  ASSUME NEW fn, NEW c, NEW d, HasByteCount(fn, MsgType) => c = d
  PROVE  ReceivedLength(Backend, fn, c, MsgType) = ReceivedLength(Backend, fn, d, MsgType)
BY DEF ReceivedLength, DataLengthAfterMeta

(* A part of the bytes of a step: the length stays the same.               *)
LEMMA SizedPart ==
  ASSUME ReceiveInv, Sized(msg, step, toRead), wire # <<>>
  PROVE  Sized(Received, step, toRead - Taken)
<1>1. /\ TypeOK /\ msg \in Seq(Byte) /\ toRead \in Nat
      /\ Taken \in Nat /\ Taken <= toRead
      /\ Received \in Seq(Byte) /\ Len(Received) = Len(msg) + Taken
      /\ \A p \in 1..Len(msg) : Received[p] = msg[p]
      /\ Len(msg) \in Nat /\ Backend.header \in Nat
  BY Recv, ModeFacts, LenProperties DEF ReceiveInv, TypeOK
<1> DEFINE r == Received  t == Taken
<1> HIDE DEF r, t
<1>2. /\ r \in Seq(Byte) /\ Len(r) = Len(msg) + t /\ t \in Nat /\ t <= toRead
      /\ Len(r) + (toRead - t) = Len(msg) + toRead /\ Len(msg) <= Len(r)
      /\ \A p \in 1..Len(msg) : r[p] = msg[p]
  BY <1>1 DEF r, t
<1>3. CASE step = "FUNCTION"
  BY <1>2, <1>3 DEF Sized, r, t
<1>4. CASE step = "META"
  <2>1. Len(msg) >= Backend.header + 1
    BY <1>4 DEF Sized
  <2>2. Function(r) = Function(msg)
    BY <1>1, <1>2, <2>1, SameHead
  <2>3. Len(r) >= Backend.header + 1
    BY <1>1, <1>2, <2>1
  <2>4. QED
    BY <1>2, <1>4, <2>2, <2>3 DEF Sized, r, t
<1>5. CASE step = "DATA"
  <2> DEFINE meta == MetaLengthAfterFunction(Function(msg), MsgType)
  <2>1. Len(msg) >= Backend.header + 1 + meta
    BY <1>5 DEF Sized
  <2>2. Len(msg) >= Backend.header + 1
    <3>1. Function(msg) \in Int => meta \in Nat
      BY DEF MetaLengthAfterFunction
    <3>2. meta \in Nat
      BY DEF MetaLengthAfterFunction
    <3> HIDE DEF meta
    <3>3. QED
      BY <1>1, <2>1, <3>2
  <2>3. /\ Function(r) = Function(msg)
        /\ HasByteCount(Function(msg), MsgType) => ByteCount(r) = ByteCount(msg)
    BY <1>1, <1>2, <2>1, <2>2, SameHead
  <2>4. ReceivedLength(Backend, Function(r), ByteCount(r), MsgType)
          = ReceivedLength(Backend, Function(msg), ByteCount(msg), MsgType)
    BY <2>3, SameLength
  <2>5. Len(r) >= Backend.header + 1 + meta
    <3>1. meta \in Nat
      BY DEF MetaLengthAfterFunction
    <3> HIDE DEF meta
    <3>2. QED
      BY <1>1, <1>2, <2>1, <3>1
  <2>6. QED
    BY <1>2, <1>5, <2>3, <2>4, <2>5 DEF Sized, r, t
<1>6. QED
  BY <1>1, <1>3, <1>4, <1>5 DEF ReceiveInv, TypeOK

(* The bytes of a step are all there: the next step starts at the length   *)
(* the message has.                                                        *)
LEMMA SizedNext ==
  ASSUME ReceiveInv, Sized(msg, step, toRead), Readable, Taken = toRead
  PROVE  /\ Sized(Received, AfterStep(Received).step, AfterStep(Received).toRead)
         /\ AfterStep(Received).step = "META" => AfterStep(Received).toRead # 0
<1>1. /\ TypeOK /\ msg \in Seq(Byte) /\ toRead \in Nat
      /\ Received \in Seq(Byte) /\ Len(Received) = Len(msg) + toRead
      /\ Sized(Received, step, toRead - toRead)
      /\ Len(Received) \in Nat /\ Backend.header \in Nat /\ Backend.checksum \in Nat
  BY Recv, SizedPart, ModeFacts, LenProperties DEF ReceiveInv, TypeOK, Readable
<1>2. Sized(Received, step, 0)
  BY <1>1
<1> DEFINE r    == Received
           meta == MetaLengthAfterFunction(Function(r), MsgType)
<1> HIDE DEF r
<1>3. meta \in Nat
  BY DEF MetaLengthAfterFunction
<1>4. ASSUME Len(r) = Backend.header + 1 + meta
      PROVE  Sized(r, AfterMeta(r).step, AfterMeta(r).toRead)
  <2> DEFINE data == DataLengthAfterMeta(Backend, Function(r), ByteCount(r), MsgType)
  <2>1. ReceivedLength(Backend, Function(r), ByteCount(r), MsgType)
          = Backend.header + 1 + meta + data
    BY DEF ReceivedLength
  <2>2. AfterMeta(r).step = "DATA" /\ AfterMeta(r).toRead = data
    BY DEF AfterMeta
  <2>3. Len(r) + data = Backend.header + 1 + meta + data
    BY <1>4
  <2>4. Len(r) >= Backend.header + 1 + meta
    <3> HIDE DEF meta
    <3>1. QED
      BY <1>1, <1>3, <1>4
  <2>5. QED
    BY <2>1, <2>2, <2>3, <2>4 DEF Sized
<1>5. CASE step = "FUNCTION"
  <2>1. Len(r) = Backend.header + 1
    BY <1>1, <1>2, <1>5 DEF Sized, r
  <2>2. CASE meta # 0
    <3>1. AfterStep(r).step = "META" /\ AfterStep(r).toRead = meta
      BY <1>5, <2>2 DEF AfterStep, AfterFunction
    <3>2. Len(r) >= Backend.header + 1 /\ Len(r) + meta = Backend.header + 1 + meta
      BY <1>1, <2>1
    <3>3. QED
      BY <2>2, <3>1, <3>2 DEF Sized, r
  <2>3. CASE meta = 0
    <3>1. AfterStep(r) = AfterMeta(r) /\ AfterMeta(r).step = "DATA"
      BY <1>5, <2>3 DEF AfterStep, AfterFunction, AfterMeta
    <3>2. Len(r) = Backend.header + 1 + meta
      BY <1>1, <2>1, <2>3
    <3>3. QED
      BY <1>4, <3>1, <3>2 DEF r
  <2>4. QED
    BY <2>2, <2>3
<1>6. CASE step = "META"
  <2>1. Len(r) + 0 = Backend.header + 1 + meta
    BY <1>2, <1>6 DEF Sized, r
  <2>2. Len(r) = Backend.header + 1 + meta
    <3> HIDE DEF meta
    <3>1. QED
      BY <1>1, <2>1 DEF r
  <2>3. AfterStep(r) = AfterMeta(r) /\ AfterMeta(r).step = "DATA"
    BY <1>6 DEF AfterStep, AfterMeta
  <2>4. QED
    BY <1>4, <2>2, <2>3 DEF r
<1>7. CASE step = "DATA"
  <2>1. AfterStep(r).step = "DATA" /\ AfterStep(r).toRead = 0
    BY <1>7 DEF AfterStep
  <2>2. QED
    BY <1>2, <1>7, <2>1 DEF r
<1>8. QED
  BY <1>1, <1>5, <1>6, <1>7 DEF ReceiveInv, TypeOK

(* A message that begins like a frame of which every byte is read never    *)
(* asks for more than that frame, and in the last step for all of it.      *)
LEMMA SizedFrame ==
  ASSUME TypeOK, NEW f \in mode.frames, Framed(mode, f), f.n = Len(BytesOf(mode, f)),
         NEW m \in Seq(Byte), NEW k \in Nat, NEW st \in {"FUNCTION", "META", "DATA"},
         Sized(m, st, k),
         \A q \in 1..Len(m) : q <= f.n => m[q] = BytesOf(mode, f)[q]
  PROVE  /\ Len(m) + k <= f.n
         /\ st = "DATA" => Len(m) + k = f.n
<1> DEFINE h    == Backend.header
           meta == MetaLengthAfterFunction(f.fn, MsgType)
           data == DataLengthAfterMeta(Backend, f.fn, f.count, MsgType)
           off  == ByteCountOffset(f.fn, MsgType)
<1>1. /\ f.fn \in 0..255 /\ f.count \in 0..255
      /\ f.n = ReceivedLength(Backend, f.fn, f.count, MsgType)
      /\ HasByteCount(f.fn, MsgType) => f.at = h + 1 + off
      /\ f.at # h + 1
  BY DEF Framed, Backend, MsgType
<1>2. meta \in 0..9 /\ data \in Nat /\ h \in Nat /\ Len(m) \in Nat
  <2>1. Len(m) \in Nat
    BY LenProperties
  <2>2. h \in Nat
    BY ModeFacts
  <2>3. meta \in 0..9 /\ data \in Nat
    <3> HIDE DEF h
    <3>1. QED
      BY <1>1, LengthNatural
  <2>4. QED
    BY <2>1, <2>2, <2>3, Zenon
<1>3. f.n = h + 1 + meta + data
  <2> HIDE DEF h, meta, data
  <2>1. ReceivedLength(Backend, f.fn, f.count, MsgType) = h + 1 + meta + data
    BY Zenon DEF ReceivedLength, h, meta, data
  <2>2. QED
    BY <1>1, <2>1, Zenon
<1>4. HasByteCount(f.fn, MsgType) => off \in 1..meta
  BY <1>1, MetaTable
<1>H. h = mode.backend.header
  BY DEF Backend
<1> HIDE DEF h, meta, data, off
<1>5. \A q \in 1..f.n : BytesOf(mode, f)[q].b =
        CASE q = h + 1 -> f.fn [] q = f.at -> f.count [] OTHER -> mode.fill
  BY <1>H DEF BytesOf
<1>6. f.n \in Nat /\ h + 1 \in 1..f.n /\ h + 1 + meta <= f.n
  BY <1>2, <1>3
<1>7. ASSUME Len(m) >= h + 1
      PROVE  Function(m) = f.fn
  <2>1. h + 1 \in 1..Len(m) /\ h + 1 <= f.n
    BY <1>2, <1>6, <1>7
  <2>2. m[h + 1] = BytesOf(mode, f)[h + 1]
    BY <2>1
  <2>3. BytesOf(mode, f)[h + 1].b = f.fn
    BY <1>1, <1>5, <1>6
  <2>4. QED
    BY <2>2, <2>3 DEF Function, h
<1>8. ASSUME Len(m) >= h + 1 + meta, HasByteCount(f.fn, MsgType)
      PROVE  ByteCount(m) = f.count
  <2>1. f.at = h + 1 + off /\ off \in 1..meta
    BY <1>1, <1>4, <1>8
  <2>2. f.at \in 1..Len(m) /\ f.at \in 1..f.n /\ f.at <= f.n /\ f.at # h + 1
    BY <1>2, <1>6, <1>8, <2>1
  <2>3. m[f.at] = BytesOf(mode, f)[f.at]
    BY <2>2
  <2>4. BytesOf(mode, f)[f.at].b = f.count
    BY <1>5, <2>2
  <2>5. Function(m) = f.fn
    BY <1>2, <1>7, <1>8
  <2>6. QED
    BY <2>1, <2>3, <2>4, <2>5 DEF ByteCount, h, off
<1>9. CASE st = "FUNCTION"
  <2>1. Len(m) + k = h + 1
    BY <1>9 DEF Sized, h
  <2>2. QED
    BY <1>6, <1>9, <2>1
<1>10. CASE st = "META"
  <2>1. Len(m) >= h + 1
    BY <1>10 DEF Sized, h
  <2>2. Len(m) + k = h + 1 + meta
    BY <1>7, <1>10, <2>1 DEF Sized, h, meta
  <2>3. QED
    BY <1>6, <1>10, <2>2
<1>11. CASE st = "DATA"
  <2>1. Len(m) >= h + 1 + MetaLengthAfterFunction(Function(m), MsgType)
    BY <1>11 DEF Sized, h
  <2>2. Len(m) >= h + 1
    <3> DEFINE mu == MetaLengthAfterFunction(Function(m), MsgType)
    <3>1. mu \in Nat
      BY DEF MetaLengthAfterFunction
    <3>2. Len(m) >= h + 1 + mu
      BY <2>1
    <3> HIDE DEF mu
    <3>3. QED
      BY <1>2, <3>1, <3>2
  <2>3. Function(m) = f.fn
    BY <1>7, <2>2
  <2>4. Len(m) >= h + 1 + meta
    BY <2>1, <2>3 DEF meta
  <2>5. HasByteCount(f.fn, MsgType) => ByteCount(m) = f.count
    BY <1>8, <2>4
  <2>6. ReceivedLength(Backend, f.fn, ByteCount(m), MsgType) = f.n
    BY <1>1, <2>5, SameLength
  <2>7. Len(m) + k = f.n
    BY <1>11, <2>3, <2>6 DEF Sized
  <2>8. QED
    BY <1>6, <2>7
<1>12. QED
  BY <1>9, <1>10, <1>11

-----------------------------------------------------------------------------
(* What the line still holds of the bytes of this connection: the message  *)
(* that is being received, what has arrived, what the peer has to write.   *)
Kept == IF pc = "loop" THEN msg ELSE <<>>

Stream == Kept \o (wire \o out)

Aligned ==
  /\ msg # <<>> => msg[1].i = 1
  /\ (pc # "sleep" /\ Stream # <<>>) => Stream[1].i = 1

StreamInv ==
  /\ ReceiveInv
  /\ pc = "loop" => Sized(msg, step, toRead)
  /\ Flow(mode, Stream)
  /\ conn = "up" => Ended(Stream)
  /\ NoReadPastFrame
  /\ Recovers => Aligned
  /\ pc = "sleep" => result = "ETIMEDOUT"
  /\ (Backend.checksum # 0 \/ Recovers) => ReturnsWholeFrame

LEMMA StreamType ==
  ASSUME TypeOK
  PROVE  Kept \in Seq(Byte) /\ wire \o out \in Seq(Byte) /\ Stream \in Seq(Byte)
<1>1. Kept \in Seq(Byte)
  BY EmptySeq DEF TypeOK, Kept
<1>2. wire \o out \in Seq(Byte)
  BY ConcatProperties DEF TypeOK
<1>3. QED
  BY <1>1, <1>2, ConcatProperties DEF Stream

LEMMA Regroup ==
  ASSUME NEW a \in Seq(Byte), NEW b \in Seq(Byte), NEW c \in Seq(Byte)
  PROVE  (a \o b) \o c = a \o (b \o c)
BY ConcatAssociative

(* recv moves bytes from the line to the message.                          *)
LEMMA StreamRead ==
  ASSUME TypeOK, pc = "loop", wire # <<>>
  PROVE  /\ Stream = Received \o (Unread \o out)
         /\ Received \in Seq(Byte) /\ Unread \o out \in Seq(Byte)
<1>1. /\ msg \in Seq(Byte) /\ wire \in Seq(Byte) /\ out \in Seq(Byte)
      /\ Received \in Seq(Byte) /\ Unread \in Seq(Byte)
      /\ toRead \in Nat /\ Len(wire) \in Nat
  BY Recv, LenProperties DEF TypeOK
<1> DEFINE a == SubSeq(wire, 1, Taken)
<1>2. Taken \in 0..Len(wire)
  BY <1>1 DEF Taken
<1>3. a \o Unread = wire
  <2>1. 1 \in 1..Len(wire) + 1 /\ Taken \in (1 - 1)..Len(wire) /\ Len(wire) \in Taken..Len(wire)
    BY <1>1, <1>2
  <2>2. SubSeq(wire, 1, Taken) \o SubSeq(wire, Taken + 1, Len(wire)) = SubSeq(wire, 1, Len(wire))
    BY <1>1, <2>1, ConcatAdjacentSubSeq
  <2>3. SubSeq(wire, 1, Len(wire)) = wire
    BY <1>1, SubSeqFull
  <2>4. QED
    BY <2>2, <2>3 DEF Unread
<1>4. a \in Seq(Byte)
  <2>1. \A p \in 1..Len(wire) : wire[p] \in Byte
    BY <1>1, ElementOfSeq
  <2>2. \A p \in 1..Taken : wire[p] \in Byte
    BY <1>1, <1>2, <2>1
  <2>3. QED
    BY <1>2, <2>2, SubSeqProperties
<1>5. Received = msg \o a
  BY DEF Received
<1> HIDE DEF a
<1>6. Unread \o out \in Seq(Byte)
  BY <1>1, ConcatProperties
<1> DEFINE u == Unread  w == u \o out
<1> HIDE DEF u, w
<1>7. wire \o out = a \o w
  <2>1. (a \o u) \o out = a \o (u \o out)
    BY <1>1, <1>4, Regroup DEF u
  <2>2. QED
    BY <1>3, <2>1 DEF u, w
<1>8. msg \o (a \o w) = (msg \o a) \o w
  <2>1. w \in Seq(Byte)
    BY <1>6 DEF u, w
  <2>2. (msg \o a) \o w = msg \o (a \o w)
    <3>1. msg \in Seq(Byte) /\ a \in Seq(Byte)
      BY <1>1, <1>4
    <3>2. QED
      BY <2>1, <3>1, Regroup
  <2>3. QED
    BY <2>2
<1>9. QED
  BY <1>1, <1>5, <1>6, <1>7, <1>8 DEF Stream, Kept, u, w

(* What is left when the first bytes are read or dropped.                  *)
LEMMA StreamRest ==
  ASSUME StreamInv, NEW a \in Seq(Byte), NEW b \in Seq(Byte), Stream = a \o b
  PROVE  Flow(mode, b) /\ (conn = "up" => Ended(b))
BY FlowSuffix, EndedSuffix DEF StreamInv

(* A message, being the beginning of the stream, that starts like an       *)
(* undamaged frame is the beginning of that frame.                         *)
LEMMA ReadInside ==
  ASSUME FramesFramed, StreamInv,
         NEW m \in Seq(Byte), NEW r \in Seq(Byte), Stream = m \o r,
         NEW st \in {"FUNCTION", "META", "DATA"}, NEW k \in Nat, Sized(m, st, k),
         m # <<>>, m[1].i = 1, m[1].ok
  PROVE  \E f \in mode.frames :
           /\ f.ok /\ f.n \in Nat /\ Framed(mode, f) /\ f.n = Len(BytesOf(mode, f))
           /\ Len(m) + k <= f.n /\ (st = "DATA" => Len(m) + k = f.n)
           /\ \A q \in 1..Len(m) : m[q] = BytesOf(mode, f)[q]
<1>T. TypeOK
  BY DEF StreamInv, ReceiveInv
<1>1. /\ Len(m) \in Nat /\ Len(r) \in Nat /\ Len(m) # 0
      /\ Len(Stream) = Len(m) + Len(r)
      /\ \A q \in 1..Len(m) : Stream[q] = m[q]
  <2>1. /\ Len(m) \in Nat /\ Len(r) \in Nat /\ Len(Stream) = Len(m) + Len(r)
        /\ \A q \in 1..Len(m) + Len(r) :
             Stream[q] = IF q <= Len(m) THEN m[q] ELSE r[q - Len(m)]
    BY ConcatProperties, LenProperties
  <2>2. Len(m) # 0
    BY EmptySeq
  <2>3. QED
    BY <2>1, <2>2
<1>2. 1 \in 1..Len(Stream) /\ Stream[1] = m[1]
  BY <1>1
<1>3. PICK f \in mode.frames : f.ok /\ Follows(mode, Stream, 1, f)
  BY <1>2 DEF StreamInv, Flow
<1>4. Framed(mode, f)
  BY <1>3, <1>T DEF FramesFramed, TypeOK
<1>5. f.n \in Nat /\ f.n = Len(BytesOf(mode, f))
  <2>1. ReceivedLength(Backend, f.fn, f.count, MsgType) \in Nat
    BY <1>4, <1>T, LengthNatural DEF Framed
  <2>2. f.n \in Nat
    BY <1>4, <2>1 DEF Framed, Backend, MsgType
  <2>3. QED
    BY <1>T, <2>2, FrameBytes
<1>6. \A q \in 1..Len(m) : q <= f.n => m[q] = BytesOf(mode, f)[q]
  <2>1. SUFFICES ASSUME NEW q \in 1..Len(m), q <= f.n
                 PROVE  m[q] = BytesOf(mode, f)[q]
    OBVIOUS
  <2>2. q \in 1..Len(Stream) /\ q - 1 < f.n /\ q - 1 + 1 = q
    BY <1>1, <1>5, <2>1
  <2>3. Stream[q] = BytesOf(mode, f)[q]
    BY <1>3, <2>2 DEF Follows
  <2>4. QED
    BY <1>1, <2>1, <2>3
<1>7. Len(m) + k <= f.n /\ (st = "DATA" => Len(m) + k = f.n)
  BY <1>T, <1>4, <1>5, <1>6, SizedFrame
<1>8. \A q \in 1..Len(m) : q <= f.n
  BY <1>1, <1>5, <1>7
<1>9. QED
  BY <1>3, <1>4, <1>5, <1>6, <1>7, <1>8

(* So no byte of it is the last of the frame, unless it is the last one.   *)
LEMMA InsideFrame ==
  ASSUME FramesFramed, StreamInv,
         NEW m \in Seq(Byte), NEW r \in Seq(Byte), Stream = m \o r,
         NEW st \in {"FUNCTION", "META", "DATA"}, NEW k \in Nat, Sized(m, st, k),
         m # <<>>, m[1].i = 1, m[1].ok
  PROVE  \A p \in 1..(Len(m) - 1) : m[p].i < m[p].n
<1>1. PICK f \in mode.frames :
           /\ f.ok /\ f.n \in Nat /\ Framed(mode, f) /\ f.n = Len(BytesOf(mode, f))
           /\ Len(m) + k <= f.n /\ (st = "DATA" => Len(m) + k = f.n)
           /\ \A q \in 1..Len(m) : m[q] = BytesOf(mode, f)[q]
  BY ReadInside
<1>2. TypeOK
  BY DEF StreamInv, ReceiveInv
<1>3. SUFFICES ASSUME NEW p \in 1..(Len(m) - 1) PROVE m[p].i < m[p].n
  OBVIOUS
<1>4. Len(m) \in Nat
  BY LenProperties
<1>5. p \in 1..Len(m) /\ p \in 1..Len(BytesOf(mode, f)) /\ p < f.n
  BY <1>1, <1>3, <1>4
<1>6. m[p].i = p /\ m[p].n = f.n
  <2>1. BytesOf(mode, f)[p].i = p /\ BytesOf(mode, f)[p].n = f.n
    BY <1>1, <1>2, <1>5, FrameBytes
  <2>2. QED
    BY <1>1, <1>5, <2>1
<1>7. QED
  BY <1>5, <1>6

-----------------------------------------------------------------------------
(* The peer and the line: the stream grows by a frame, or loses its end.   *)
LEMMA StreamEnvironment ==
  ASSUME FramesFramed, StreamInv,
         \/ \E f \in mode.frames : PeerBegins(f)
         \/ \E k \in 1..Len(out) : Arrive(k)
         \/ PeerResets
  PROVE  StreamInv'
<1>T. TypeOK /\ ReceiveInv
  BY DEF StreamInv, ReceiveInv
<1>1. ReceiveInv' /\ TypeOK'
  BY <1>T, EnvironmentStep DEF ReceiveInv
<1>2. /\ mode' = mode /\ Backend' = Backend /\ MsgType' = MsgType
      /\ UNCHANGED <<pc, msg, step, toRead, result>>
  BY ModeKept DEF Next, PeerBegins, Arrive, PeerResets
<1>3. /\ (pc = "loop" => Sized(msg, step, toRead))'
      /\ NoReadPastFrame'
      /\ (pc = "sleep" => result = "ETIMEDOUT")'
      /\ ((Backend.checksum # 0 \/ Recovers) => ReturnsWholeFrame)'
      /\ Kept' = Kept
      /\ Recovers' = Recovers
  BY <1>2 DEF StreamInv, Sized, Function, ByteCount, NoReadPastFrame, ReturnsWholeFrame, Whole,
              Recovers, Kept
<1>4. SUFFICES /\ Flow(mode, Stream')
               /\ conn' = "up" => Ended(Stream')
               /\ (Recovers /\ pc # "sleep" /\ Stream' # <<>>) => Stream'[1].i = 1
  <2>1. Flow(mode, Stream)' /\ (conn = "up" => Ended(Stream))'
    BY <1>2, <1>4 DEF Flow, Follows, Ended
  <2>2. (Recovers => Aligned)'
    BY <1>2, <1>3, <1>4 DEF StreamInv, Aligned
  <2>3. QED
    BY <1>1, <1>3, <2>1, <2>2 DEF StreamInv
<1>5. /\ Kept \in Seq(Byte) /\ Stream \in Seq(Byte)
      /\ wire \in Seq(Byte) /\ out \in Seq(Byte) /\ wire' \in Seq(Byte) /\ out' \in Seq(Byte)
  BY <1>T, <1>1, StreamType DEF TypeOK
<1>6. /\ Flow(mode, Stream) /\ (conn = "up" => Ended(Stream))
      /\ (Recovers /\ pc # "sleep" /\ Stream # <<>>) => Stream[1].i = 1
  BY DEF StreamInv, Aligned
<1>7. ASSUME NEW f \in mode.frames, PeerBegins(f)
      PROVE  /\ Flow(mode, Stream')
             /\ conn' = "up" => Ended(Stream')
             /\ (Recovers /\ pc # "sleep" /\ Stream' # <<>>) => Stream'[1].i = 1
  <2> DEFINE b == BytesOf(mode, f)
  <2>1. conn = "up" /\ out = <<>> /\ out' = b /\ wire' = wire
    BY <1>7 DEF PeerBegins
  <2>2. /\ b \in Seq(Byte) /\ Len(b) \in Nat
        /\ \A p \in 1..Len(b) : b[p].i = p
    BY <1>T, FrameBytes
  <2>3. Stream = Kept \o wire
    BY <1>5, <2>1, ConcatEmptySeq DEF Stream
  <2>4. Stream' = Stream \o b
    <3> HIDE DEF b
    <3>1. (Kept \o wire) \o b = Kept \o (wire \o b)
      <4>1. Kept \in Seq(Byte) /\ wire \in Seq(Byte) /\ b \in Seq(Byte)
        BY <1>5, <2>2
      <4>2. QED
        BY <4>1, Regroup
    <3>2. QED
      BY <1>3, <2>1, <2>3, <3>1 DEF Stream
  <2>5. Flow(mode, Stream') /\ Ended(Stream')
    BY <1>T, <1>5, <1>6, <2>1, <2>4, FlowFrame
  <2>6. ASSUME Recovers, pc # "sleep", Stream' # <<>>
        PROVE  Stream'[1].i = 1
    <3> HIDE DEF b
    <3>1. /\ Len(Stream) \in Nat /\ Len(Stream') = Len(Stream) + Len(b)
          /\ \A p \in 1..Len(Stream) + Len(b) :
               Stream'[p] = IF p <= Len(Stream) THEN Stream[p] ELSE b[p - Len(Stream)]
      BY <1>5, <2>2, <2>4, ConcatProperties, LenProperties
    <3>2. CASE Stream = <<>>
      <4>1. Stream' = b
        BY <2>2, <2>4, <3>2, ConcatEmptySeq
      <4>2. Len(b) # 0
        BY <2>2, <2>6, <4>1, EmptySeq
      <4>3. QED
        BY <2>2, <4>1, <4>2
    <3>3. CASE Stream # <<>>
      <4>1. Len(Stream) # 0
        BY <1>5, <3>3, EmptySeq
      <4>2. Stream'[1] = Stream[1]
        BY <2>2, <3>1, <4>1
      <4>3. QED
        BY <1>6, <2>6, <3>3, <4>2
    <3>4. QED
      BY <3>2, <3>3
  <2>7. QED
    BY <2>5, <2>6
<1>8. ASSUME NEW k \in 1..Len(out), Arrive(k)
      PROVE  Stream' = Stream /\ conn' = conn
  <2> DEFINE a == SubSeq(out, 1, k)  b == SubSeq(out, k + 1, Len(out))
  <2>1. wire' = wire \o a /\ out' = b /\ conn' = conn
    BY <1>8 DEF Arrive
  <2>2. Len(out) \in Nat /\ \A p \in 1..Len(out) : out[p] \in Byte
    BY <1>5, LenProperties, ElementOfSeq
  <2>3. a \in Seq(Byte)
    <3>1. k \in Int /\ \A p \in 1..k : out[p] \in Byte
      BY <1>8, <2>2
    <3>2. QED
      BY <3>1, SubSeqProperties
  <2>4. b \in Seq(Byte)
    BY <1>5, <2>1
  <2>5. a \o b = out
    <3>1. 1 \in 1..Len(out) + 1 /\ k \in (1 - 1)..Len(out) /\ Len(out) \in k..Len(out)
      BY <1>8, <2>2
    <3>2. a \o b = SubSeq(out, 1, Len(out))
      BY <1>5, <3>1, ConcatAdjacentSubSeq
    <3>3. QED
      BY <1>5, <3>2, SubSeqFull
  <2> HIDE DEF a, b
  <2>6. (wire \o a) \o b = wire \o (a \o b)
    <3>1. wire \in Seq(Byte)
      BY <1>5
    <3>2. QED
      BY <2>3, <2>4, <3>1, Regroup
  <2>7. QED
    BY <1>3, <2>1, <2>5, <2>6 DEF Stream
<1>9. CASE PeerResets
  <2>1. out' = <<>> /\ wire' = wire /\ conn' = "reset"
    BY <1>9 DEF PeerResets
  <2>2. Stream' = Kept \o wire
    BY <1>3, <1>5, <2>1, ConcatEmptySeq DEF Stream
  <2>3. Stream' \in Seq(Byte) /\ Stream = Stream' \o out
    <3>1. Kept \o wire \in Seq(Byte)
      BY <1>5, ConcatProperties
    <3>2. (Kept \o wire) \o out = Kept \o (wire \o out)
      <4>1. Kept \in Seq(Byte) /\ wire \in Seq(Byte) /\ out \in Seq(Byte)
        BY <1>5
      <4>2. QED
        BY <4>1, Regroup
    <3>3. QED
      BY <2>2, <3>1, <3>2 DEF Stream
  <2>4. Flow(mode, Stream')
    BY <1>5, <1>6, <2>3, FlowPrefix
  <2>5. ASSUME Recovers, pc # "sleep", Stream' # <<>>
        PROVE  Stream'[1].i = 1
    <3> DEFINE s == Stream'
    <3>1. s \in Seq(Byte) /\ s # <<>> /\ Stream = s \o out
      BY <2>3, <2>5
    <3> HIDE DEF s
    <3>2. /\ Len(s) \in Nat \ {0} /\ Len(out) \in Nat
          /\ Len(Stream) = Len(s) + Len(out)
          /\ \A p \in 1..Len(s) + Len(out) :
               Stream[p] = IF p <= Len(s) THEN s[p] ELSE out[p - Len(s)]
      BY <1>5, <3>1, ConcatProperties, LenProperties, EmptySeq
    <3>3. Stream[1] = s[1] /\ Len(Stream) # 0
      BY <3>2
    <3>4. Stream # <<>>
      BY <3>3, EmptySeq
    <3>5. QED
      BY <1>6, <2>5, <3>3, <3>4 DEF s
  <2>6. QED
    BY <2>1, <2>4, <2>5
<1>10. QED
  BY <1>6, <1>7, <1>8, <1>9

(* Entering and leaving receive_msg without recv: the stream is the same,  *)
(* loses the message that is given up, or is dropped.                      *)
LEMMA StreamControl ==
  ASSUME StreamInv, Call \/ Timeout \/ Flush \/ BadDescriptor \/ Closed
  PROVE  StreamInv'
<1>T. TypeOK /\ ReceiveInv
  BY DEF StreamInv, ReceiveInv
<1>1. ReceiveInv' /\ TypeOK'
  BY <1>T, ControlStep DEF ReceiveInv
<1>2. mode' = mode /\ Backend' = Backend /\ MsgType' = MsgType /\ Recovers' = Recovers
  BY ModeKept DEF Next, Recovers
<1>3. /\ msg \in Seq(Byte) /\ Kept \in Seq(Byte) /\ wire \o out \in Seq(Byte)
      /\ wire \in Seq(Byte) /\ out \in Seq(Byte)
      /\ <<>> \in Seq(Byte) /\ <<>> \o <<>> = <<>>
      /\ Backend.header \in Nat
  BY <1>T, StreamType, EmptySeq, ConcatEmptySeq, ModeFacts DEF TypeOK
<1>4. /\ Flow(mode, wire \o out) /\ (conn = "up" => Ended(wire \o out))
      /\ Stream = Kept \o (wire \o out)
  BY <1>3, StreamRest DEF Stream
<1>5. SUFFICES /\ msg' = msg \/ msg' = <<>>
               /\ pc' = "loop" => Sized(msg', step', toRead')
               /\ Flow(mode, Stream')
               /\ conn' = "up" => Ended(Stream')
               /\ (Recovers /\ pc' # "sleep" /\ Stream' # <<>>) => Stream'[1].i = 1
               /\ pc' = "sleep" => result' = "ETIMEDOUT"
               /\ pc' = "idle" => result' # "ok"
  <2>1. (pc = "loop" => Sized(msg, step, toRead))'
    BY <1>2, <1>5 DEF Sized, Function, ByteCount
  <2>2. Flow(mode, Stream)' /\ (conn = "up" => Ended(Stream))'
    BY <1>2, <1>5 DEF Flow, Follows, Ended
  <2>3. NoReadPastFrame'
    BY <1>5 DEF StreamInv, NoReadPastFrame
  <2>4. (Recovers => Aligned)'
    BY <1>2, <1>5 DEF StreamInv, Aligned
  <2>5. ReturnsWholeFrame'
    BY <1>5 DEF ReturnsWholeFrame
  <2>6. QED
    BY <1>1, <1>5, <2>1, <2>2, <2>3, <2>4, <2>5 DEF StreamInv
<1>6. Flow(mode, <<>>) /\ Ended(<<>>)
  BY FlowEmpty
<1>7. CASE Call
  <2>1. /\ pc = "idle" /\ pc' = "loop" /\ msg' = <<>> /\ step' = "FUNCTION"
        /\ toRead' = Backend.header + 1 /\ wire' = wire /\ out' = out /\ conn' = conn
    BY <1>7 DEF Call
  <2>2. Stream' = Stream
    BY <2>1 DEF Stream, Kept
  <2>3. Sized(msg', step', toRead')
    <3>1. Len(<<>>) + (Backend.header + 1) = Backend.header + 1
      BY <1>3, EmptySeq
    <3>2. QED
      BY <2>1, <3>1 DEF Sized
  <2>4. QED
    BY <2>1, <2>2, <2>3 DEF StreamInv, Aligned
<1>8. CASE Timeout
  <2>1. /\ pc = "loop" /\ pc' = IF mode.link THEN "sleep" ELSE "idle"
        /\ result' = "ETIMEDOUT" /\ wire' = wire /\ out' = out /\ conn' = conn /\ msg' = msg
    BY <1>8 DEF Timeout, Return
  <2>2. Stream' = wire \o out
    BY <1>3, <2>1, ConcatEmptySeq DEF Stream, Kept
  <2>3. Recovers => pc' = "sleep"
    BY <2>1 DEF Recovers
  <2>4. QED
    BY <1>4, <2>1, <2>2, <2>3
<1>9. CASE Flush
  <2>1. /\ pc = "sleep" /\ pc' = "idle" /\ (mode.prompt => out = <<>>)
        /\ wire' = <<>> /\ out' = out /\ conn' = conn /\ msg' = msg /\ result' = result
    BY <1>9 DEF Flush
  <2>2. Stream' = out
    BY <1>3, <2>1, ConcatEmptySeq DEF Stream, Kept
  <2>3. Stream = wire \o out
    BY <1>3, <2>1, ConcatEmptySeq DEF Stream, Kept
  <2>4. Flow(mode, out) /\ (conn = "up" => Ended(out))
    BY <1>3, <2>3, StreamRest
  <2>5. Recovers => Stream' = <<>>
    BY <2>1, <2>2 DEF Recovers
  <2>6. result' # "ok"
    BY <2>1 DEF StreamInv
  <2>7. QED
    BY <2>1, <2>2, <2>4, <2>5, <2>6
<1>10. CASE BadDescriptor \/ Closed
  <2>1. /\ pc = "loop" /\ pc' = "idle" /\ result' \in {"EBADF", "ECONNRESET"} /\ msg' = msg
        /\ IF mode.link THEN Reconnect ELSE UNCHANGED <<out, wire, conn, written>>
    BY <1>10 DEF BadDescriptor, Closed, Return
  <2>2. CASE mode.link
    <3>1. Stream' = <<>>
      BY <1>3, <2>1, <2>2 DEF Reconnect, Stream, Kept
    <3>2. QED
      BY <1>6, <2>1, <3>1
  <2>3. CASE ~mode.link
    <3>1. Stream' = wire \o out /\ conn' = conn
      BY <1>3, <2>1, <2>3, ConcatEmptySeq DEF Stream, Kept
    <3>2. ~Recovers
      BY <2>3 DEF Recovers
    <3>3. QED
      BY <1>4, <2>1, <3>1, <3>2
  <2>4. QED
    BY <2>2, <2>3
<1>11. QED
  BY <1>7, <1>8, <1>9, <1>10

(* recv: the bytes go from the line to the message.  A message that ends   *)
(* is the whole frame when every byte of the line is undamaged and every   *)
(* message so far has ended where its frame does.                          *)
LEMMA StreamReceive ==
  ASSUME FramesFramed, StreamInv, Receive
  PROVE  StreamInv'
<1>T. TypeOK /\ ReceiveInv
  BY DEF StreamInv, ReceiveInv
<1>1. ReceiveInv' /\ TypeOK'
  BY <1>T, RecvPreserves DEF ReceiveInv
<1>2. mode' = mode /\ Backend' = Backend /\ MsgType' = MsgType /\ Recovers' = Recovers
  BY ModeKept DEF Next, Recovers
<1>3. /\ pc = "loop" /\ wire # <<>> /\ msg' = Received /\ out' = out /\ conn' = conn
      /\ pc' \in {"loop", "idle"}
  BY DEF Receive, RecvPart, RecvStep, RecvTooMany, RecvLast, Readable, Return
<1> DEFINE m    == Received
           rest == Unread \o out
<1>4. Stream = m \o rest /\ m \in Seq(Byte) /\ rest \in Seq(Byte) /\ out \in Seq(Byte)
  BY <1>T, <1>3, StreamRead DEF TypeOK
<1>5. Flow(mode, rest) /\ (conn = "up" => Ended(rest))
  BY <1>4, StreamRest
<1>A. Taken \in Nat /\ Taken <= toRead /\ toRead \in Nat /\ Unread \in Seq(Byte)
  BY <1>T, <1>3, Recv DEF TypeOK
<1>6. Sized(msg, step, toRead) /\ step \in {"FUNCTION", "META", "DATA"}
  BY <1>T, <1>3 DEF StreamInv, TypeOK
<1> HIDE DEF m, rest
<1>7. m # <<>> => Stream # <<>> /\ Stream[1] = m[1]
  <2>1. SUFFICES ASSUME m # <<>> PROVE Stream # <<>> /\ Stream[1] = m[1]
    OBVIOUS
  <2>2. /\ Len(m) \in Nat \ {0} /\ Len(rest) \in Nat /\ Len(Stream) = Len(m) + Len(rest)
        /\ \A p \in 1..Len(m) + Len(rest) :
             Stream[p] = IF p <= Len(m) THEN m[p] ELSE rest[p - Len(m)]
    BY <1>4, <2>1, ConcatProperties, LenProperties, EmptySeq
  <2>3. Stream[1] = m[1] /\ Len(Stream) # 0
    BY <2>2
  <2>4. QED
    BY <2>3, EmptySeq
<1>8. Recovers /\ m # <<>> => m[1].i = 1 /\ m[1].ok
  <2>1. SUFFICES ASSUME Recovers, m # <<>> PROVE m[1].i = 1 /\ m[1].ok
    OBVIOUS
  <2>2. Stream # <<>> /\ Stream[1] = m[1]
    BY <1>7, <2>1
  <2>3. Stream[1].i = 1
    BY <1>3, <2>1, <2>2 DEF StreamInv, Aligned
  <2>4. 1 \in 1..Len(Stream)
    <3>1. Len(Stream) \in Nat \ {0}
      BY <1>T, <2>2, StreamType, EmptySeq
    <3>2. QED
      BY <3>1
  <2>5. Stream[1].ok
    BY <2>1, <2>4 DEF StreamInv, Flow, Recovers
  <2>6. QED
    BY <2>2, <2>3, <2>5
<1>9. ASSUME NEW st \in {"FUNCTION", "META", "DATA"}, NEW k \in Nat, Sized(m, st, k)
      PROVE  NoReadPastFrame'
  <2>1. SUFFICES ASSUME m # <<>>, m[1].i = 1, m[1].ok
                 PROVE  \A p \in 1..(Len(m) - 1) : m[p].i < m[p].n
    BY <1>3 DEF NoReadPastFrame, m
  <2>2. QED
    BY <1>4, <1>9, <2>1, InsideFrame
<1>10. ASSUME pc' = "loop", wire' = Unread
       PROVE  Stream' = Stream
  BY <1>3, <1>4, <1>10 DEF Stream, Kept, m, rest
<1>11. ASSUME pc' = "idle", wire' = Unread
       PROVE  Stream' = rest
  <2>1. rest \in Seq(Byte) /\ <<>> \o rest = rest
    BY <1>4, ConcatEmptySeq
  <2>2. QED
    BY <1>3, <1>11, <2>1 DEF Stream, Kept, rest
<1>12. CASE RecvPart
  <2>1. /\ pc' = "loop" /\ wire' = Unread /\ step' = step /\ toRead' = toRead - Taken
    BY <1>3, <1>12 DEF RecvPart
  <2>2. Sized(m, step, toRead - Taken) /\ toRead - Taken \in Nat
    BY <1>T, <1>3, <1>6, <1>A, SizedPart DEF m
  <2>3. NoReadPastFrame'
    BY <1>6, <1>9, <2>2
  <2>4. (pc = "loop" => Sized(msg, step, toRead))'
    BY <1>2, <1>3, <2>1, <2>2 DEF Sized, Function, ByteCount, m
  <2>5. Stream' = Stream
    BY <1>10, <2>1
  <2>6. Flow(mode, Stream)' /\ (conn = "up" => Ended(Stream))'
    BY <1>2, <1>3, <2>5 DEF StreamInv, Flow, Follows, Ended
  <2>7. (Recovers => Aligned)'
    BY <1>2, <1>3, <1>8, <2>1, <2>5 DEF StreamInv, Aligned, m
  <2>8. QED
    BY <1>1, <2>1, <2>3, <2>4, <2>6, <2>7 DEF StreamInv, ReturnsWholeFrame
<1> DEFINE st == AfterStep(m).step
           k  == AfterStep(m).toRead
<1>13. ASSUME Readable, Taken = toRead
       PROVE  /\ st \in {"META", "DATA"} /\ k \in Nat /\ Sized(m, st, k)
              /\ st = "META" => k # 0
  BY <1>T, <1>6, <1>13, NextStep, SizedNext DEF m
<1>14. ASSUME Readable, Taken = toRead, st = "DATA", Recovers
       PROVE  /\ Len(m) + k <= Backend.maxAdu
              /\ k = 0 => Whole(m) /\ (rest # <<>> => rest[1].i = 1)
  <2>1. k \in Nat /\ Sized(m, "DATA", k)
    BY <1>13, <1>14
  <2>2. Len(m) \in Nat /\ Len(rest) \in Nat
    BY <1>4, LenProperties
  <2> HIDE DEF k, st
  <2>3. CASE m = <<>>
    <3>1. Len(m) = 0
      BY <2>3, EmptySeq
    <3>2. Backend.header \in Nat /\ Len(m) >= Backend.header + 1
      <4> DEFINE meta == MetaLengthAfterFunction(Function(m), MsgType)
      <4>1. Len(m) >= Backend.header + 1 + meta
        BY <2>1 DEF Sized
      <4>2. meta \in Nat
        BY DEF MetaLengthAfterFunction
      <4>3. Backend.header \in Nat
        BY <1>T, ModeFacts
      <4> HIDE DEF meta
      <4>4. QED
        BY <2>2, <4>1, <4>2, <4>3
    <3>3. QED
      BY <3>1, <3>2
  <2>4. CASE m # <<>>
    <3>1. m[1].i = 1 /\ m[1].ok
      BY <1>8, <1>14, <2>4
    <3>2. PICK f \in mode.frames :
             /\ f.ok /\ f.n \in Nat /\ Framed(mode, f) /\ f.n = Len(BytesOf(mode, f))
             /\ Len(m) + k = f.n
             /\ \A q \in 1..Len(m) : m[q] = BytesOf(mode, f)[q]
      BY <1>4, <2>1, <2>4, <3>1, ReadInside
    <3>3. Len(m) + k <= Backend.maxAdu
      BY <3>2 DEF Framed, Backend
    <3>4. ASSUME k = 0
          PROVE  Whole(m) /\ (rest # <<>> => rest[1].i = 1)
      <4>1. Len(m) = f.n /\ Len(m) \in Nat \ {0}
        BY <1>4, <2>2, <2>4, <3>2, <3>4, EmptySeq
      <4>2. Len(m) \in 1..Len(m) /\ Len(m) \in 1..Len(BytesOf(mode, f))
        BY <3>2, <4>1
      <4>3. /\ BytesOf(mode, f)[Len(m)].i = Len(m)
            /\ BytesOf(mode, f)[Len(m)].n = Len(BytesOf(mode, f))
        BY <1>T, <4>2, FrameBytes
      <4>4. m[Len(m)].i = Len(m) /\ m[Len(m)].n = Len(m)
        BY <3>2, <4>1, <4>2, <4>3
      <4>5. ASSUME rest # <<>>
            PROVE  rest[1].i = 1
        <5>1. Len(rest) \in Nat \ {0}
          BY <1>4, <4>5, EmptySeq
        <5>2. /\ Len(Stream) = Len(m) + Len(rest)
              /\ \A p \in 1..Len(m) + Len(rest) :
                   Stream[p] = IF p <= Len(m) THEN m[p] ELSE rest[p - Len(m)]
          BY <1>4, ConcatProperties
        <5>3. /\ Len(m) \in 1..(Len(Stream) - 1)
              /\ Stream[Len(m)] = m[Len(m)] /\ Stream[Len(m) + 1] = rest[1]
          <6>1. /\ Len(m) \in 1..(Len(Stream) - 1) /\ Len(m) \in 1..Len(m) + Len(rest)
                /\ Len(m) + 1 \in 1..Len(m) + Len(rest) /\ ~(Len(m) + 1 <= Len(m))
                /\ Len(m) + 1 - Len(m) = 1 /\ Len(m) <= Len(m)
            BY <4>1, <5>1, <5>2
          <6>2. QED
            BY <5>2, <6>1
        <5>4. Stream[Len(m)].i = Stream[Len(m)].n
          BY <4>4, <5>3
        <5>5. Stream[Len(m) + 1].i = 1
          BY <5>3, <5>4 DEF StreamInv, Flow
        <5>6. QED
          BY <5>3, <5>5
      <4>6. QED
        BY <2>4, <3>1, <4>4, <4>5 DEF Whole
    <3>5. QED
      BY <3>3, <3>4
  <2>5. QED
    BY <2>3, <2>4 DEF k
<1>15. CASE RecvStep
  <2>1. /\ Readable /\ Taken = toRead
        /\ pc' = "loop" /\ wire' = Unread /\ step' = st /\ toRead' = k
    BY <1>3, <1>15 DEF RecvStep, m
  <2>2. st \in {"FUNCTION", "META", "DATA"} /\ k \in Nat /\ Sized(m, st, k)
    BY <1>13, <2>1
  <2>3. NoReadPastFrame'
    BY <1>9, <2>2
  <2>4. (pc = "loop" => Sized(msg, step, toRead))'
    BY <1>2, <1>3, <2>1, <2>2 DEF Sized, Function, ByteCount, m
  <2>5. Stream' = Stream
    BY <1>10, <2>1
  <2>6. Flow(mode, Stream)' /\ (conn = "up" => Ended(Stream))'
    BY <1>2, <1>3, <2>5 DEF StreamInv, Flow, Follows, Ended
  <2>7. (Recovers => Aligned)'
    BY <1>2, <1>3, <1>8, <2>1, <2>5 DEF StreamInv, Aligned, m
  <2>8. QED
    BY <1>1, <2>1, <2>3, <2>4, <2>6, <2>7 DEF StreamInv, ReturnsWholeFrame
<1>16. CASE RecvTooMany
  <2>1. /\ Readable /\ Taken = toRead /\ TooManyData(m)
        /\ pc' = "idle" /\ wire' = Unread /\ result' = "EMBBADDATA"
    BY <1>16 DEF RecvTooMany, Return, m
  <2>2. st \in {"FUNCTION", "META", "DATA"} /\ k \in Nat /\ Sized(m, st, k)
    BY <1>13, <2>1
  <2>3. NoReadPastFrame'
    BY <1>9, <2>2
  <2>4. st = "DATA" /\ Len(m) + k > Backend.maxAdu
    BY <2>1 DEF TooManyData
  <2>5. ~Recovers
    <3>1. SUFFICES ASSUME Recovers PROVE FALSE
      OBVIOUS
    <3>2. Len(m) + k <= Backend.maxAdu
      BY <1>14, <2>1, <2>4, <3>1
    <3>3. Len(m) \in Nat /\ k \in Nat /\ Backend.maxAdu \in Nat
      BY <1>T, <1>4, <2>2, ModeFacts, LenProperties
    <3> HIDE DEF k
    <3>4. QED
      BY <2>4, <3>2, <3>3
  <2>6. Stream' = rest
    BY <1>11, <2>1
  <2>7. Flow(mode, Stream)' /\ (conn = "up" => Ended(Stream))'
    BY <1>2, <1>3, <1>5, <2>6 DEF Flow, Follows, Ended
  <2>8. QED
    BY <1>1, <1>2, <2>1, <2>3, <2>5, <2>7 DEF StreamInv, ReturnsWholeFrame
<1>17. CASE RecvLast
  <2>1. /\ Readable /\ Taken = toRead /\ k = 0 /\ pc' = "idle"
        /\ IF Integrity(m)
           THEN result' = "ok" /\ wire' = Unread
           ELSE result' = "EMBBADCRC" /\ wire' \in {<<>>, Unread}
    BY <1>17 DEF RecvLast, Return, m
  <2>2. /\ st = "DATA" /\ k \in Nat /\ Sized(m, st, k)
        /\ st \in {"FUNCTION", "META", "DATA"}
    BY <1>13, <2>1
  <2>3. NoReadPastFrame'
    BY <1>9, <2>2
  <2>4. Stream' = rest \/ (Stream' = out /\ ~Integrity(m))
    <3>1. CASE wire' = Unread
      BY <1>11, <2>1, <3>1
    <3>2. CASE wire' = <<>> /\ ~Integrity(m)
      <4>1. <<>> \o (<<>> \o out) = out
        BY <1>4, ConcatEmptySeq
      <4>2. QED
        BY <1>3, <2>1, <3>2, <4>1 DEF Stream, Kept
    <3>3. QED
      BY <2>1, <3>1, <3>2
  <2>5. Flow(mode, out) /\ (conn = "up" => Ended(out))
    BY <1>4, <1>5, <1>A, FlowSuffix, EndedSuffix DEF rest
  <2>6. Flow(mode, Stream)' /\ (conn = "up" => Ended(Stream))'
    <3>1. Flow(mode, Stream') /\ (conn = "up" => Ended(Stream'))
      BY <1>5, <2>4, <2>5
    <3>2. QED
      BY <1>2, <1>3, <3>1 DEF Flow, Follows, Ended
  <2>7. Recovers => /\ Whole(m) /\ (rest # <<>> => rest[1].i = 1)
    BY <1>14, <2>1, <2>2
  <2>8. Whole(m) => Integrity(m)
    BY DEF Integrity
  <2>9. (Recovers => Aligned)'
    BY <1>2, <1>3, <1>8, <2>4, <2>7, <2>8 DEF Aligned, m
  <2>10. ((Backend.checksum # 0 \/ Recovers) => ReturnsWholeFrame)'
    <3>1. (Backend.checksum # 0 \/ Recovers) /\ result' = "ok" => Whole(m)
      BY <2>1, <2>7 DEF Integrity
    <3>2. QED
      BY <1>2, <1>3, <3>1 DEF ReturnsWholeFrame, Whole, m
  <2>11. QED
    BY <1>1, <2>1, <2>3, <2>6, <2>9, <2>10 DEF StreamInv
<1>18. QED
  BY <1>12, <1>15, <1>16, <1>17 DEF Receive

LEMMA StreamInvariance == Spec /\ FramesFramed => []StreamInv
<1>1. Init => StreamInv
  <2> SUFFICES ASSUME Init PROVE StreamInv
    OBVIOUS
  <2>1. ReceiveInv
    BY InitialState
  <2>2. Stream = <<>>
    <3>1. <<>> \in Seq(Byte) /\ <<>> \o <<>> = <<>>
      BY EmptySeq, ConcatEmptySeq
    <3>2. QED
      BY <3>1 DEF Init, Stream, Kept
  <2>3. QED
    BY <2>1, <2>2, FlowEmpty DEF Init, StreamInv, Aligned, NoReadPastFrame, ReturnsWholeFrame
<1>2. FramesFramed /\ StreamInv /\ [Next]_vars => StreamInv'
  <2> SUFFICES ASSUME FramesFramed, StreamInv, [Next]_vars
               PROVE  StreamInv'
    OBVIOUS
  <2>1. CASE Next
    BY <2>1, StreamEnvironment, StreamControl, StreamReceive DEF Next
  <2>2. CASE UNCHANGED vars
    <3>1. /\ mode' = mode /\ UNCHANGED <<pc, msg, wire, out, conn, step, toRead, result>>
          /\ Backend' = Backend /\ MsgType' = MsgType /\ Recovers' = Recovers
      BY <2>2 DEF vars, Backend, MsgType, Recovers
    <3>2. ReceiveInv'
      BY <2>2 DEF vars, StreamInv, ReceiveInv, TypeOK, StepInv, Function, Backend, MsgType
    <3>3. Stream' = Stream
      BY <3>1 DEF Stream, Kept
    <3>4. Flow(mode, Stream)' /\ (conn = "up" => Ended(Stream))'
      <4>1. Flow(mode, Stream)' <=> Flow(mode', Stream')
        BY Zenon DEF Flow, Follows, BytesOf
      <4>2. (conn = "up" => Ended(Stream))' <=> (conn' = "up" => Ended(Stream'))
        BY Zenon DEF Ended
      <4>3. QED
        BY <3>1, <3>3, <4>1, <4>2, Zenon DEF StreamInv
    <3>5. (pc = "loop" => Sized(msg, step, toRead))'
      BY <3>1 DEF StreamInv, Sized, Function, ByteCount
    <3>6. /\ NoReadPastFrame' /\ (Recovers => Aligned)'
          /\ (pc = "sleep" => result = "ETIMEDOUT")'
      BY <3>1, <3>3 DEF StreamInv, NoReadPastFrame, Aligned
    <3>7. ((Backend.checksum # 0 \/ Recovers) => ReturnsWholeFrame)'
      BY <3>1 DEF StreamInv, ReturnsWholeFrame, Whole
    <3>8. QED
      BY <3>2, <3>4, <3>5, <3>6, <3>7 DEF StreamInv
  <2>3. QED
    BY <2>1, <2>2
<1>3. FramesFramed => []FramesFramed
  OBVIOUS
<1>4. QED
  BY <1>1, <1>2, <1>3, PTL DEF Spec

(* A message that starts with the first byte of an undamaged frame stops   *)
(* at its last byte, however the bytes arrive and whatever damaged frames  *)
(* come before or after it: receive_msg reads what the builders wrote.     *)
THEOREM FrameRespected == Spec /\ FramesFramed => []NoReadPastFrame
<1>1. StreamInv => NoReadPastFrame
  BY DEF StreamInv
<1>2. QED
  BY <1>1, StreamInvariance, PTL

(* With both recovery modes, a line without damage and a peer that         *)
(* finishes a frame within the sleep, receive_msg is never out of step:    *)
(* neither a timeout in mid frame nor a reset makes a message start inside *)
(* a frame.                                                                *)
THEOREM StaysInStep == Spec /\ FramesFramed => []StartsOnBoundary
<1>1. StreamInv => StartsOnBoundary
  BY DEF StreamInv, Aligned, StartsOnBoundary
<1>2. QED
  BY <1>1, StreamInvariance, PTL

(* What receive_msg returns is one whole undamaged frame, where the        *)
(* backend has a checksum and, without one, where nothing puts it out of   *)
(* step.                                                                   *)
THEOREM WholeFrames ==
  Spec /\ FramesFramed => []((Backend.checksum # 0 \/ Recovers) => ReturnsWholeFrame)
<1>1. StreamInv => ((Backend.checksum # 0 \/ Recovers) => ReturnsWholeFrame)
  BY DEF StreamInv
<1>2. QED
  BY <1>1, StreamInvariance, PTL

-----------------------------------------------------------------------------
(* Function codes are numbers in every proof below.                        *)
USE DEF FC_READ_COILS, FC_READ_DISCRETE_INPUTS, FC_READ_EXCEPTION_STATUS,
        FC_READ_HOLDING_REGISTERS, FC_READ_INPUT_REGISTERS, FC_REPORT_SLAVE_ID,
        FC_WRITE_AND_READ_REGISTERS, FC_WRITE_MULTIPLE_COILS,
        FC_WRITE_MULTIPLE_REGISTERS, FC_WRITE_SINGLE_COIL,
        FC_WRITE_SINGLE_REGISTER, MultipleFunctions, ReadBitFunctions,
        ReadRegFunctions, SingleFunctions

(* A request is read whole by the server: the builders and the meta/data   *)
(* tables of receive_msg give the same length.                             *)
LEMMA RequestLengths ==
  ASSUME NEW b \in Backends, NEW r \in Requests
  PROVE  /\ RequestLength(b, r.fn, r.nbWrite) \in Int
         /\ ReceivedLength(b, r.fn, RequestByteCount(r.fn, r.nbWrite), "INDICATION")
              = RequestLength(b, r.fn, r.nbWrite)
<1>1. /\ b.header \in Nat /\ b.checksum \in Nat
      /\ b.preset = b.header + 5
  BY BackendsAssumption
<1>2. r.fn \in ClientFunctions /\ r.nbWrite \in Nat
  BY RequestsAssumption
<1>3. RequestByteCount(r.fn, r.nbWrite) \in Int
  BY <1>2 DEF RequestByteCount, BytesOfBits
<1> DEFINE count == RequestByteCount(r.fn, r.nbWrite)
<1>4. CASE r.fn \in MultipleFunctions
  <2>1. r.fn = 15 \/ r.fn = 16
    BY <1>4
  <2>2. RequestLength(b, r.fn, r.nbWrite) = b.preset + b.checksum + (1 + count)
    BY <2>1 DEF RequestLength
  <2>3. MetaLengthAfterFunction(r.fn, "INDICATION") = 5
    BY <2>1 DEF MetaLengthAfterFunction
  <2>4. DataLengthAfterMeta(b, r.fn, count, "INDICATION") = count + b.checksum
    BY <1>4 DEF DataLengthAfterMeta, HasByteCount
  <2> HIDE DEF count
  <2>5. QED
    BY <1>1, <1>3, <2>2, <2>3, <2>4 DEF ReceivedLength, count
<1>5. CASE r.fn = FC_WRITE_AND_READ_REGISTERS
  <2>1. r.fn = 23 /\ r.fn \notin MultipleFunctions
    BY <1>5
  <2>2. RequestLength(b, r.fn, r.nbWrite) = b.preset + b.checksum + (5 + count)
    BY <2>1 DEF RequestLength
  <2>3. MetaLengthAfterFunction(r.fn, "INDICATION") = 9
    BY <2>1 DEF MetaLengthAfterFunction
  <2>4. DataLengthAfterMeta(b, r.fn, count, "INDICATION") = count + b.checksum
    BY <1>5 DEF DataLengthAfterMeta, HasByteCount
  <2> HIDE DEF count
  <2>5. QED
    BY <1>1, <1>3, <2>2, <2>3, <2>4 DEF ReceivedLength, count
<1>6. CASE r.fn = FC_REPORT_SLAVE_ID
  BY <1>1, <1>6
     DEF RequestLength, ReceivedLength, MetaLengthAfterFunction,
         DataLengthAfterMeta, HasByteCount
<1>7. CASE r.fn \in ReadBitFunctions \union ReadRegFunctions \union SingleFunctions
  BY <1>1, <1>7
     DEF RequestLength, ReceivedLength, MetaLengthAfterFunction,
         DataLengthAfterMeta, HasByteCount
<1>8. QED
  BY <1>2, <1>4, <1>5, <1>6, <1>7 DEF ClientFunctions

(* A normal answer is read whole by the client.                            *)
LEMMA ResponseLengths ==
  ASSUME NEW b \in Backends, NEW r \in Requests,
         NEW a, a = NormalResponse(b, r.fn, r.nb, IdLength)
  PROVE  ReceivedLength(b, a.function, a.second, "CONFIRMATION") = a.length
<1>1. b.header \in Nat /\ b.checksum \in Nat
  BY BackendsAssumption
<1>2. r.fn \in ClientFunctions /\ r.nb \in Nat /\ IdLength \in Nat
  BY RequestsAssumption, CodesAssumption
<1>3. /\ a.function = r.fn
      /\ a.second = ResponseByteCount(r.fn, r.nb, IdLength)
      /\ a.length = ResponseLength(b, r.fn, r.nb, IdLength)
  BY DEF NormalResponse
<1>4. ResponseByteCount(r.fn, r.nb, IdLength) \in Int
  BY <1>2 DEF ResponseByteCount, BytesOfBits
<1>5. CASE r.fn \in SingleFunctions \union MultipleFunctions
  BY <1>1, <1>3, <1>5
     DEF ResponseLength, ReceivedLength, MetaLengthAfterFunction,
         DataLengthAfterMeta, HasByteCount
<1>6. CASE r.fn \in ReadBitFunctions \union ReadRegFunctions
                      \union {FC_REPORT_SLAVE_ID, FC_WRITE_AND_READ_REGISTERS}
  BY <1>1, <1>3, <1>4, <1>6
     DEF ResponseLength, ReceivedLength, MetaLengthAfterFunction,
         DataLengthAfterMeta, HasByteCount
<1>7. QED
  BY <1>2, <1>5, <1>6 DEF ClientFunctions

(* So is an exception: its function code is above every code that carries  *)
(* a byte count.                                                           *)
LEMMA ExceptionLengths ==
  ASSUME NEW b \in Backends, NEW r \in Requests, NEW code \in ExceptionCodes,
         NEW a, a = ExceptionResponse(b, r.fn, code)
  PROVE  ReceivedLength(b, a.function, a.second, "CONFIRMATION") = a.length
<1>1. b.header \in Nat /\ b.checksum \in Nat
  BY BackendsAssumption
<1>2. r.fn \in ClientFunctions /\ code \in Int
  BY RequestsAssumption, CodesAssumption
<1>3. a.function = r.fn + 128 /\ a.second = code /\ a.length = ExceptionLength(b)
  BY DEF ExceptionResponse
<1>4. r.fn \in 1..23
  BY <1>2 DEF ClientFunctions
<1>5. QED
  BY <1>1, <1>2, <1>3, <1>4
     DEF ExceptionLength, ReceivedLength, MetaLengthAfterFunction,
         DataLengthAfterMeta, HasByteCount

-----------------------------------------------------------------------------
(* The quantities of a request that the client sends.                      *)
LEMMA Quantities ==
  ASSUME NEW r \in Requests, ~TooMany(r)
  PROVE  /\ r.fn \in ReadBitFunctions => r.nb <= 2000
         /\ r.fn = FC_WRITE_MULTIPLE_COILS => r.nbWrite <= 1968
         /\ r.fn = FC_WRITE_MULTIPLE_REGISTERS => r.nbWrite <= 123
         /\ r.fn = FC_WRITE_AND_READ_REGISTERS => r.nbWrite <= 121
         /\ r.fn \in ReadRegFunctions \union {FC_WRITE_AND_READ_REGISTERS} => r.nb <= 125
BY RequestsAssumption
   DEF TooMany, MaxQuantity, MAX_READ_BITS, MAX_WRITE_BITS, MAX_READ_REGISTERS,
       MAX_WRITE_REGISTERS, MAX_RW_WRITE_REGISTERS

(* Eight bits to a byte.                                                   *)
LEMMA BytesBound ==
  ASSUME NEW n \in Nat
  PROVE  /\ BytesOfBits(n) \in Nat
         /\ n <= 2000 => BytesOfBits(n) <= 250
         /\ n <= 1968 => BytesOfBits(n) <= 246
         /\ BytesOfBits(n) = 0 <=> n = 0
BY DEF BytesOfBits

(* The PDU of a request that is sent, and of its normal answer.            *)
LEMMA RequestFits ==
  ASSUME NEW b \in Backends, NEW r \in Requests, ~TooMany(r)
  PROVE  RequestLength(b, r.fn, r.nbWrite) <= b.header + b.checksum + MAX_PDU_LENGTH
<1>1. /\ b.header \in Nat /\ b.checksum \in Nat /\ b.preset = b.header + 5
      /\ r.fn \in ClientFunctions /\ r.nbWrite \in Nat
  BY BackendsAssumption, RequestsAssumption
<1> DEFINE count == RequestByteCount(r.fn, r.nbWrite)
<1>2. CASE r.fn = FC_WRITE_MULTIPLE_COILS
  <2>1. count = BytesOfBits(r.nbWrite) /\ BytesOfBits(r.nbWrite) \in Nat
        /\ BytesOfBits(r.nbWrite) <= 246
    BY <1>1, <1>2, Quantities, BytesBound DEF RequestByteCount
  <2>2. RequestLength(b, r.fn, r.nbWrite) = b.preset + b.checksum + (1 + count)
    BY <1>2 DEF RequestLength
  <2> HIDE DEF count
  <2>3. QED
    BY <1>1, <2>1, <2>2 DEF MAX_PDU_LENGTH
<1>3. CASE r.fn = FC_WRITE_MULTIPLE_REGISTERS
  <2>1. count = r.nbWrite * 2 /\ r.nbWrite <= 123
    BY <1>3, Quantities DEF RequestByteCount
  <2>2. RequestLength(b, r.fn, r.nbWrite) = b.preset + b.checksum + (1 + count)
    BY <1>3 DEF RequestLength
  <2> HIDE DEF count
  <2>3. QED
    BY <1>1, <2>1, <2>2 DEF MAX_PDU_LENGTH
<1>4. CASE r.fn = FC_WRITE_AND_READ_REGISTERS
  <2>1. count = r.nbWrite * 2 /\ r.nbWrite <= 121
    BY <1>4, Quantities DEF RequestByteCount
  <2>2. RequestLength(b, r.fn, r.nbWrite) = b.preset + b.checksum + (5 + count)
    BY <1>4 DEF RequestLength
  <2> HIDE DEF count
  <2>3. QED
    BY <1>1, <2>1, <2>2 DEF MAX_PDU_LENGTH
<1>5. CASE r.fn \notin MultipleFunctions \union {FC_WRITE_AND_READ_REGISTERS}
  <2>1. \/ RequestLength(b, r.fn, r.nbWrite) = b.preset + b.checksum + (-4)
        \/ RequestLength(b, r.fn, r.nbWrite) = b.preset + b.checksum + 0
    BY <1>5 DEF RequestLength
  <2>2. QED
    BY <1>1, <2>1 DEF MAX_PDU_LENGTH
<1>6. QED
  BY <1>2, <1>3, <1>4, <1>5

LEMMA ResponseFits ==
  ASSUME NEW b \in Backends, NEW r \in Requests, ~TooMany(r)
  PROVE  /\ ResponseLength(b, r.fn, r.nb, IdLength) \in Int
         /\ ResponseLength(b, r.fn, r.nb, IdLength) <= b.header + b.checksum + MAX_PDU_LENGTH
<1>1. /\ b.header \in Nat /\ b.checksum \in Nat
      /\ r.fn \in ClientFunctions /\ r.nb \in Nat /\ IdLength \in 0..251
  BY BackendsAssumption, RequestsAssumption, CodesAssumption DEF MAX_PDU_LENGTH
<1> DEFINE count == ResponseByteCount(r.fn, r.nb, IdLength)
<1>2. CASE r.fn \in SingleFunctions \union MultipleFunctions
  BY <1>1, <1>2 DEF ResponseLength, MAX_PDU_LENGTH
<1>3. CASE r.fn \notin SingleFunctions \union MultipleFunctions
  <2>1. ResponseLength(b, r.fn, r.nb, IdLength) = b.header + b.checksum + (2 + count)
    BY <1>3 DEF ResponseLength
  <2>2. count \in 0..251
    <3>1. CASE r.fn \in ReadBitFunctions
      <4>1. count = BytesOfBits(r.nb)
        BY <3>1 DEF ResponseByteCount
      <4>2. r.nb \in Nat /\ r.nb <= 2000
        BY <1>1, <3>1, Quantities
      <4>3. BytesOfBits(r.nb) \in Nat /\ BytesOfBits(r.nb) <= 250
        BY <4>2, BytesBound
      <4> HIDE DEF count
      <4>4. QED
        BY <4>1, <4>3
    <3>2. CASE r.fn \in ReadRegFunctions \union {FC_WRITE_AND_READ_REGISTERS}
      <4>1. count = r.nb * 2 /\ r.nb <= 125
        BY <3>2, Quantities DEF ResponseByteCount
      <4> HIDE DEF count
      <4>2. QED
        BY <1>1, <4>1
    <3>3. CASE r.fn = FC_REPORT_SLAVE_ID
      BY <1>1, <3>3 DEF ResponseByteCount
    <3>4. QED
      BY <1>1, <1>3, <3>1, <3>2, <3>3 DEF ClientFunctions
  <2> HIDE DEF count
  <2>3. QED
    BY <1>1, <2>1, <2>2 DEF MAX_PDU_LENGTH
<1>4. QED
  BY <1>2, <1>3

-----------------------------------------------------------------------------
(* check_confirmation on the answers modbus_reply builds.                  *)
LEMMA NormalAccepted ==
  ASSUME NEW b \in Backends, NEW r \in Requests,
         NEW a, a = NormalResponse(b, r.fn, r.nb, IdLength),
         NEW o, o = CheckConfirmation(b, r.fn, r.nb, a)
  PROVE  o.verdict = "ok" /\ o.value = AnsweredValues(r.fn, a)
<1>1. /\ b.header \in Nat /\ b.checksum \in Nat
      /\ r.fn \in ClientFunctions /\ r.nb \in Nat
  BY BackendsAssumption, RequestsAssumption
<1>2. /\ a.length = ResponseLength(b, r.fn, r.nb, IdLength) /\ a.function = r.fn
      /\ a.second = ResponseByteCount(r.fn, r.nb, IdLength) /\ a.quantity = r.nb
  BY DEF NormalResponse
<1>3. \/ ResponseLengthFromRequest(b, r.fn, r.nb) = a.length
      \/ ResponseLengthFromRequest(b, r.fn, r.nb) = MSG_LENGTH_UNDEFINED
  <2>1. CASE r.fn \in SingleFunctions \union MultipleFunctions
    BY <1>2, <2>1 DEF ResponseLengthFromRequest, ResponseLength
  <2>2. CASE r.fn \in ReadBitFunctions
    BY <1>2, <2>2 DEF ResponseLengthFromRequest, ResponseLength, ResponseByteCount
  <2>3. CASE r.fn \in ReadRegFunctions \union {FC_WRITE_AND_READ_REGISTERS}
    BY <1>1, <1>2, <2>3
       DEF ResponseLengthFromRequest, ResponseLength, ResponseByteCount
  <2>4. CASE r.fn = FC_REPORT_SLAVE_ID
    BY <2>4 DEF ResponseLengthFromRequest
  <2>5. QED
    BY <1>1, <2>1, <2>2, <2>3, <2>4 DEF ClientFunctions
<1>4. RequestedValues(r.fn, r.nb, a) = AnsweredValues(r.fn, a)
  <2>1. CASE r.fn \in ReadRegFunctions \union {FC_WRITE_AND_READ_REGISTERS}
    <3>1. a.second = r.nb * 2 /\ (r.nb * 2) \div 2 = r.nb
      BY <1>1, <1>2, <2>1 DEF ResponseByteCount
    <3>2. QED
      BY <2>1, <3>1 DEF RequestedValues, AnsweredValues
  <2>2. CASE r.fn \in ReadBitFunctions
    BY <1>2, <2>2 DEF RequestedValues, AnsweredValues, ResponseByteCount
  <2>3. CASE r.fn \in SingleFunctions \union MultipleFunctions \union {FC_REPORT_SLAVE_ID}
    BY <1>2, <2>3 DEF RequestedValues, AnsweredValues
  <2>4. QED
    BY <1>1, <2>1, <2>2, <2>3 DEF ClientFunctions
<1>5. QED
  BY <1>2, <1>3, <1>4 DEF CheckConfirmation

-----------------------------------------------------------------------------

(* ... and on exceptions: they are as long as a normal answer only where   *)
(* that has no length of its own, or no values.                            *)
LEMMA ExceptionsTold ==
  ASSUME NEW b \in Backends, NEW r \in Requests, NEW code \in ExceptionCodes,
         NEW a, a = ExceptionResponse(b, r.fn, code),
         NEW o, o = CheckConfirmation(b, r.fn, r.nb, a)
  PROVE  IF \/ r.fn = FC_REPORT_SLAVE_ID
            \/ /\ r.fn \in ReadBitFunctions \union ReadRegFunctions
                             \union {FC_WRITE_AND_READ_REGISTERS}
               /\ r.nb = 0
         THEN o.verdict = "EMBBADDATA"
         ELSE /\ ~o.flush
              /\ IF a.second < MODBUS_EXCEPTION_MAX
                 THEN o.verdict = "exception" /\ o.value = a.second
                 ELSE o.verdict = "EMBBADEXC"
<1>1. /\ b.header \in Nat /\ b.checksum \in Nat
      /\ r.fn \in ClientFunctions /\ r.nb \in Nat /\ r.fn \in 1..23
  BY BackendsAssumption, RequestsAssumption DEF ClientFunctions
<1>2. /\ a.length = b.header + b.checksum + 2
      /\ a.function = r.fn + 128 /\ a.second = code /\ a.function # r.fn
  BY <1>1 DEF ExceptionResponse, ExceptionLength
<1> DEFINE computed == ResponseLengthFromRequest(b, r.fn, r.nb)
<1>3. CASE computed \in {a.length, MSG_LENGTH_UNDEFINED}
  <2>1. o.verdict = "EMBBADDATA"
    BY <1>2, <1>3 DEF CheckConfirmation
  <2>2. \/ r.fn = FC_REPORT_SLAVE_ID
        \/ /\ r.fn \in ReadBitFunctions \union ReadRegFunctions
                         \union {FC_WRITE_AND_READ_REGISTERS}
           /\ r.nb = 0
    <3>1. CASE r.fn \in ReadBitFunctions
      <4>1. computed = b.header + b.checksum + (2 + BytesOfBits(r.nb))
        BY <3>1 DEF ResponseLengthFromRequest
      <4>2. BytesOfBits(r.nb) \in Nat /\ (BytesOfBits(r.nb) = 0 <=> r.nb = 0)
        BY <1>1, BytesBound
      <4> HIDE DEF computed
      <4>3. BytesOfBits(r.nb) = 0
        BY <1>1, <1>2, <1>3, <4>1, <4>2 DEF MSG_LENGTH_UNDEFINED
      <4>4. QED
        BY <3>1, <4>2, <4>3
    <3>2. CASE r.fn \in ReadRegFunctions \union {FC_WRITE_AND_READ_REGISTERS}
      <4>1. computed = b.header + b.checksum + (2 + 2 * r.nb)
        BY <3>2 DEF ResponseLengthFromRequest
      <4> HIDE DEF computed
      <4>2. QED
        BY <1>1, <1>2, <1>3, <3>2, <4>1 DEF MSG_LENGTH_UNDEFINED
    <3>3. CASE r.fn \in SingleFunctions \union MultipleFunctions
      <4>1. computed = b.header + b.checksum + 5
        BY <3>3 DEF ResponseLengthFromRequest
      <4> HIDE DEF computed
      <4>2. QED
        BY <1>1, <1>2, <1>3, <4>1 DEF MSG_LENGTH_UNDEFINED
    <3>4. QED
      BY <1>1, <3>1, <3>2, <3>3 DEF ClientFunctions
  <2>3. QED
    BY <2>1, <2>2
<1>4. CASE computed \notin {a.length, MSG_LENGTH_UNDEFINED}
  <2>1. /\ r.fn # FC_REPORT_SLAVE_ID
        /\ r.nb = 0 => r.fn \notin ReadBitFunctions \union ReadRegFunctions
                                     \union {FC_WRITE_AND_READ_REGISTERS}
    <3>1. r.fn = FC_REPORT_SLAVE_ID => computed = MSG_LENGTH_UNDEFINED
      BY DEF ResponseLengthFromRequest
    <3>2. ASSUME r.nb = 0, r.fn \in ReadBitFunctions
          PROVE  computed = a.length
      <4>1. computed = b.header + b.checksum + (2 + BytesOfBits(0))
        BY <3>2 DEF ResponseLengthFromRequest
      <4>2. BytesOfBits(0) = 0
        BY BytesBound
      <4> HIDE DEF computed
      <4>3. QED
        BY <1>1, <1>2, <4>1, <4>2
    <3>3. ASSUME r.nb = 0, r.fn \in ReadRegFunctions \union {FC_WRITE_AND_READ_REGISTERS}
          PROVE  computed = a.length
      <4>1. computed = b.header + b.checksum + (2 + 2 * 0)
        BY <3>3 DEF ResponseLengthFromRequest
      <4> HIDE DEF computed
      <4>2. QED
        BY <1>1, <1>2, <4>1
    <3> HIDE DEF computed
    <3>4. QED
      BY <1>4, <3>1, <3>2, <3>3
  <2>2. o = ExceptionVerdict(a)
    BY <1>1, <1>2, <1>4 DEF CheckConfirmation, ExceptionLength
  <2>3. QED
    BY <2>1, <2>2 DEF ExceptionVerdict
<1>5. QED
  BY <1>3, <1>4

-----------------------------------------------------------------------------
(* The inductive invariant: what is on the wire is the built request until *)
(* the server has read it, and the built answer after it has answered.     *)
Answered ==
  \/ rsp = NormalResponse(be, req.fn, req.nb, IdLength)
  \/ \E code \in ExceptionCodes : rsp = ExceptionResponse(be, req.fn, code)

CallInv ==
  /\ be \in Backends
  /\ req \in Requests
  /\ stage = "sent" => frameLength = RequestLength(be, req.fn, req.nbWrite)
  /\ RequestFramed
  /\ stage = "answered" => frameLength = rsp.length
  /\ stage \in {"answered", "confirmed", "checked"} => Answered
  /\ ResponseFramed
  /\ stage = "checked" => outcome = CheckConfirmation(be, req.fn, req.nb, rsp)
  /\ FramesFitAdu

LEMMA Fits ==
  ASSUME NEW b \in Backends, NEW n \in Int, n <= b.header + b.checksum + MAX_PDU_LENGTH
  PROVE  n <= b.maxAdu /\ n <= MAX_MESSAGE_LENGTH
BY BackendsAssumption DEF MAX_PDU_LENGTH, MAX_MESSAGE_LENGTH

LEMMA CallInvariant == ExchangeSpec => []CallInv
<1>1. ExchangeInit => CallInv
  BY BackendsAssumption
     DEF ExchangeInit, CallInv, RequestFramed, ResponseFramed, FramesFitAdu, MAX_MESSAGE_LENGTH
<1>2. CallInv /\ [ExchangeNext]_exchangeVars => CallInv'
  <2> SUFFICES ASSUME CallInv, [ExchangeNext]_exchangeVars
               PROVE  CallInv'
    OBVIOUS
  <2> be \in Backends /\ req \in Requests
    BY DEF CallInv
  <2>1. CASE Refuse
    BY <2>1 DEF Refuse, CallInv, RequestFramed, ResponseFramed, FramesFitAdu
  <2>2. CASE Send
    <3>1. frameLength' <= be.maxAdu /\ frameLength' <= MAX_MESSAGE_LENGTH
      BY <2>2, RequestLengths, RequestFits, Fits DEF Send
    <3>2. QED
      BY <2>2, <3>1 DEF Send, CallInv, RequestFramed, ResponseFramed, FramesFitAdu
  <2>3. CASE Indication
    BY <2>3, RequestLengths
       DEF Indication, CallInv, RequestFramed, ResponseFramed, FramesFitAdu
  <2>4. CASE Reply
    <3>1. ~TooMany(req)
      BY <2>4, RequestsAssumption DEF Reply, IllegalQuantity, TooMany
    <3>2. rsp' = NormalResponse(be, req.fn, req.nb, IdLength) /\ frameLength' = rsp'.length
      BY <2>4 DEF Reply
    <3>3. frameLength' <= be.maxAdu /\ frameLength' <= MAX_MESSAGE_LENGTH
      <4>1. frameLength' = ResponseLength(be, req.fn, req.nb, IdLength)
        BY <3>2 DEF NormalResponse
      <4>2. frameLength' \in Int /\ frameLength' <= be.header + be.checksum + MAX_PDU_LENGTH
        BY <3>1, <4>1, ResponseFits
      <4>3. QED
        BY <4>2, Fits
    <3>4. QED
      BY <2>4, <3>2, <3>3
         DEF Reply, CallInv, Answered, RequestFramed, ResponseFramed, FramesFitAdu
  <2>5. ASSUME NEW code \in ExceptionCodes, ReplyException(code)
        PROVE  CallInv'
    <3>1. rsp' = ExceptionResponse(be, req.fn, code) /\ frameLength' = rsp'.length
      BY <2>5 DEF ReplyException
    <3>2. frameLength' = be.header + be.checksum + 2
      BY <3>1 DEF ExceptionResponse, ExceptionLength
    <3>3. frameLength' <= be.maxAdu /\ frameLength' <= MAX_MESSAGE_LENGTH
      BY <3>2, Fits, BackendsAssumption DEF MAX_PDU_LENGTH, MAX_MESSAGE_LENGTH
    <3>4. QED
      BY <2>5, <3>1, <3>3
         DEF ReplyException, CallInv, Answered, RequestFramed, ResponseFramed, FramesFitAdu
  <2>6. CASE Confirmation
    <3>1. read' = frameLength
      BY <2>6, ResponseLengths, ExceptionLengths DEF Confirmation, CallInv, Answered
    <3>2. QED
      BY <2>6, <3>1
         DEF Confirmation, CallInv, Answered, RequestFramed, ResponseFramed, FramesFitAdu
  <2>7. CASE Check
    BY <2>7 DEF Check, CallInv, Answered, RequestFramed, ResponseFramed, FramesFitAdu
  <2>8. CASE UNCHANGED exchangeVars
    BY <2>8 DEF exchangeVars, CallInv, Answered, RequestFramed, ResponseFramed, FramesFitAdu
  <2>9. QED
    BY <2>1, <2>2, <2>3, <2>4, <2>5, <2>6, <2>7, <2>8 DEF ExchangeNext
<1>3. QED
  BY <1>1, <1>2, PTL DEF ExchangeSpec

-----------------------------------------------------------------------------
(* A request is read whole, neither a byte more nor a byte less, by        *)
(* modbus_receive of the server (receive_msg against the builders).        *)
THEOREM RequestsFramed == ExchangeSpec => []RequestFramed
<1>1. CallInv => RequestFramed
  BY DEF CallInv
<1>2. QED
  BY <1>1, CallInvariant, PTL

(* So is every answer, normal or an exception, by the client (receive_msg  *)
(* against modbus_reply).                                                  *)
THEOREM ResponsesFramed == ExchangeSpec => []ResponseFramed
<1>1. CallInv => ResponseFramed
  BY DEF CallInv
<1>2. QED
  BY <1>1, CallInvariant, PTL

(* No frame is longer than the ADU of its backend or than the buffers of   *)
(* the library, whatever quantities the application asks for.              *)
THEOREM FramesFit == ExchangeSpec => []FramesFitAdu
<1>1. CallInv => FramesFitAdu
  BY DEF CallInv
<1>2. QED
  BY <1>1, CallInvariant, PTL

(* check_confirmation accepts every normal answer of modbus_reply and      *)
(* returns the number of values or bytes asked for.                        *)
THEOREM AnswersAccepted == ExchangeSpec => []AnswerAccepted
<1>1. ASSUME CallInv, stage = "checked", rsp.function = req.fn
      PROVE  /\ outcome.verdict = "ok"
             /\ outcome.value =
                  CASE req.fn \in ReadBitFunctions     -> BytesOfBits(req.nb)
                    [] req.fn \in SingleFunctions      -> 1
                    [] req.fn = FC_REPORT_SLAVE_ID     -> IdLength
                    [] OTHER                           -> req.nb
  <2>1. /\ be \in Backends /\ req \in Requests
        /\ outcome = CheckConfirmation(be, req.fn, req.nb, rsp)
        /\ req.fn \in ClientFunctions /\ req.nb \in Nat
    BY <1>1, RequestsAssumption DEF CallInv
  <2>2. rsp = NormalResponse(be, req.fn, req.nb, IdLength)
    <3>1. \A code : ExceptionResponse(be, req.fn, code).function # req.fn
      BY <2>1 DEF ExceptionResponse, ClientFunctions
    <3>2. QED
      BY <1>1, <3>1 DEF CallInv, Answered
  <2>3. outcome.verdict = "ok" /\ outcome.value = AnsweredValues(req.fn, rsp)
    BY <2>1, <2>2, NormalAccepted
  <2>4. rsp.second = ResponseByteCount(req.fn, req.nb, IdLength) /\ rsp.quantity = req.nb
    BY <2>2 DEF NormalResponse
  <2>5. CASE req.fn \in ReadRegFunctions \union {FC_WRITE_AND_READ_REGISTERS}
    <3>1. rsp.second = req.nb * 2 /\ (req.nb * 2) \div 2 = req.nb
      BY <2>1, <2>4, <2>5 DEF ResponseByteCount
    <3>2. QED
      BY <2>3, <2>5, <3>1 DEF AnsweredValues
  <2>6. CASE req.fn \notin ReadRegFunctions \union {FC_WRITE_AND_READ_REGISTERS}
    BY <2>1, <2>3, <2>4, <2>6 DEF AnsweredValues, ResponseByteCount, ClientFunctions
  <2>7. QED
    BY <2>3, <2>5, <2>6
<1>2. CallInv => AnswerAccepted
  BY <1>1 DEF AnswerAccepted
<1>3. QED
  BY <1>2, CallInvariant, PTL

(* An exception reaches the application as that exception, and makes no    *)
(* protocol recovery flush, but for the two cases the property names.      *)
THEOREM ExceptionsReported == ExchangeSpec => []ExceptionReported
<1>1. ASSUME CallInv, stage = "checked", rsp.function # req.fn
      PROVE  ExceptionReported
  <2>1. /\ be \in Backends /\ req \in Requests
        /\ outcome = CheckConfirmation(be, req.fn, req.nb, rsp)
    BY <1>1 DEF CallInv
  <2>2. PICK code \in ExceptionCodes : rsp = ExceptionResponse(be, req.fn, code)
    BY <1>1 DEF CallInv, Answered, NormalResponse
  <2>3. QED
    BY <2>1, <2>2, ExceptionsTold DEF ExceptionReported
<1>2. CallInv => ExceptionReported
  BY <1>1 DEF ExceptionReported
<1>3. QED
  BY <1>2, CallInvariant, PTL

-----------------------------------------------------------------------------
(* The frames the library builds satisfy what the theorems about           *)
(* receive_msg assume of undamaged frames.                                 *)
LEMMA RequestCount ==
  ASSUME NEW r \in Requests, ~TooMany(r)
  PROVE  RequestByteCount(r.fn, r.nbWrite) \in 0..255
<1>1. r.fn \in ClientFunctions /\ r.nbWrite \in Nat
  BY RequestsAssumption
<1> DEFINE count == RequestByteCount(r.fn, r.nbWrite)
<1>2. CASE r.fn = FC_WRITE_MULTIPLE_COILS
  <2>1. count = BytesOfBits(r.nbWrite) /\ BytesOfBits(r.nbWrite) \in Nat
        /\ BytesOfBits(r.nbWrite) <= 246
    BY <1>1, <1>2, Quantities, BytesBound DEF RequestByteCount
  <2> HIDE DEF count
  <2>2. QED
    BY <2>1 DEF count
<1>3. CASE r.fn \in {FC_WRITE_MULTIPLE_REGISTERS, FC_WRITE_AND_READ_REGISTERS}
  <2>1. count = r.nbWrite * 2 /\ r.nbWrite <= 123
    BY <1>1, <1>3, Quantities DEF RequestByteCount
  <2> HIDE DEF count
  <2>2. QED
    BY <1>1, <2>1 DEF count
<1>4. CASE r.fn \notin MultipleFunctions \union {FC_WRITE_AND_READ_REGISTERS}
  BY <1>4 DEF RequestByteCount
<1>5. QED
  BY <1>2, <1>3, <1>4

LEMMA ResponseCount ==
  ASSUME NEW r \in Requests, ~TooMany(r)
  PROVE  ResponseByteCount(r.fn, r.nb, IdLength) \in 0..255
<1>1. r.fn \in ClientFunctions /\ r.nb \in Nat /\ IdLength \in 0..251
  BY RequestsAssumption, CodesAssumption DEF MAX_PDU_LENGTH
<1> DEFINE count == ResponseByteCount(r.fn, r.nb, IdLength)
<1>2. CASE r.fn \in ReadBitFunctions
  <2>1. count = BytesOfBits(r.nb) /\ r.nb <= 2000
    BY <1>2, Quantities DEF ResponseByteCount
  <2>2. BytesOfBits(r.nb) \in Nat /\ BytesOfBits(r.nb) <= 250
    BY <1>1, <2>1, BytesBound
  <2> HIDE DEF count
  <2>3. QED
    BY <2>1, <2>2 DEF count
<1>3. CASE r.fn \in ReadRegFunctions \union {FC_WRITE_AND_READ_REGISTERS}
  <2>1. count = r.nb * 2 /\ r.nb <= 125
    BY <1>3, Quantities DEF ResponseByteCount
  <2> HIDE DEF count
  <2>2. QED
    BY <1>1, <2>1 DEF count
<1>4. CASE r.fn = FC_REPORT_SLAVE_ID
  BY <1>1, <1>4 DEF ResponseByteCount
<1>5. CASE r.fn \in SingleFunctions \union MultipleFunctions
  BY <1>5 DEF ResponseByteCount
<1>6. QED
  BY <1>1, <1>2, <1>3, <1>4, <1>5 DEF ClientFunctions

LEMMA BuiltFramed ==
  ASSUME NEW m, m.backend \in Backends, NEW r \in Requests, ~TooMany(r)
  PROVE  /\ m.type = "INDICATION" => Framed(m, RequestFrame(m.backend, r.fn, r.nbWrite))
         /\ m.type = "CONFIRMATION" =>
              /\ Framed(m, ResponseFrame(m.backend, r.fn, r.nb, IdLength))
              /\ Framed(m, ExceptionFrame(m.backend, r.fn))
<1> DEFINE b == m.backend
<1>1. /\ b \in Backends /\ b.header \in Nat /\ b.checksum \in Nat /\ b.maxAdu \in Nat
      /\ b.preset = b.header + 5 /\ b.header + 253 + b.checksum <= b.maxAdu
  BY BackendsAssumption DEF MAX_PDU_LENGTH
<1>2. r.fn \in ClientFunctions /\ r.fn \in 1..23 /\ r.nb \in Nat /\ r.nbWrite \in Nat
  BY RequestsAssumption DEF ClientFunctions
<1>3. ASSUME m.type = "INDICATION"
      PROVE  Framed(m, RequestFrame(b, r.fn, r.nbWrite))
  <2> DEFINE f == RequestFrame(b, r.fn, r.nbWrite)
  <2>1. /\ f.fn = r.fn /\ f.count = RequestByteCount(r.fn, r.nbWrite)
        /\ f.n = RequestLength(b, r.fn, r.nbWrite) /\ f.at = RequestCountAt(b, r.fn)
    BY DEF RequestFrame
  <2>2. f.fn \in 0..255 /\ f.count \in 0..255
    BY <1>2, <2>1, RequestCount
  <2>3. f.n = ReceivedLength(b, f.fn, f.count, m.type)
    BY <1>1, <1>3, <2>1, RequestLengths
  <2>4. f.n <= b.maxAdu
    BY <1>1, <2>1, RequestLengths, RequestFits, Fits
  <2>5. /\ HasByteCount(f.fn, m.type) => f.at = b.header + 1 + ByteCountOffset(f.fn, m.type)
        /\ f.at # b.header + 1
    <3>1. CASE r.fn \in MultipleFunctions
      BY <1>1, <1>3, <2>1, <3>1 DEF RequestCountAt, ByteCountOffset
    <3>2. CASE r.fn = FC_WRITE_AND_READ_REGISTERS
      BY <1>1, <1>3, <2>1, <3>2 DEF RequestCountAt, ByteCountOffset
    <3>3. CASE r.fn \notin MultipleFunctions \union {FC_WRITE_AND_READ_REGISTERS}
      BY <1>1, <1>3, <2>1, <3>3 DEF RequestCountAt, HasByteCount
    <3>4. QED
      BY <3>1, <3>2, <3>3
  <2>6. QED
    BY <2>2, <2>3, <2>4, <2>5 DEF Framed
<1>4. ASSUME m.type = "CONFIRMATION"
      PROVE  Framed(m, ResponseFrame(b, r.fn, r.nb, IdLength))
  <2> DEFINE f == ResponseFrame(b, r.fn, r.nb, IdLength)
  <2>1. /\ f.fn = r.fn /\ f.count = ResponseByteCount(r.fn, r.nb, IdLength)
        /\ f.n = ResponseLength(b, r.fn, r.nb, IdLength) /\ f.at = ResponseCountAt(b, r.fn)
    BY DEF ResponseFrame
  <2>2. f.fn \in 0..255 /\ f.count \in 0..255
    BY <1>2, <2>1, ResponseCount
  <2>3. f.n = ReceivedLength(b, f.fn, f.count, m.type)
    <3> DEFINE a == NormalResponse(b, r.fn, r.nb, IdLength)
    <3>1. ReceivedLength(b, a.function, a.second, "CONFIRMATION") = a.length
      BY <1>1, ResponseLengths
    <3>2. a.function = f.fn /\ a.second = f.count /\ a.length = f.n
      BY <2>1 DEF NormalResponse
    <3>3. QED
      BY <1>4, <3>1, <3>2
  <2>4. f.n <= b.maxAdu
    BY <1>1, <2>1, ResponseFits, Fits
  <2>5. /\ HasByteCount(f.fn, m.type) => f.at = b.header + 1 + ByteCountOffset(f.fn, m.type)
        /\ f.at # b.header + 1
    <3>1. CASE r.fn \in SingleFunctions \union MultipleFunctions
      BY <1>1, <1>4, <2>1, <3>1 DEF ResponseCountAt, HasByteCount
    <3>2. CASE r.fn \notin SingleFunctions \union MultipleFunctions
      BY <1>1, <1>4, <2>1, <3>2 DEF ResponseCountAt, ByteCountOffset
    <3>3. QED
      BY <3>1, <3>2
  <2>6. QED
    BY <2>2, <2>3, <2>4, <2>5 DEF Framed
<1>5. ASSUME m.type = "CONFIRMATION"
      PROVE  Framed(m, ExceptionFrame(b, r.fn))
  <2> DEFINE f == ExceptionFrame(b, r.fn)
  <2>1. /\ f.fn = r.fn + 128 /\ f.count = 0 /\ f.at = 0
        /\ f.n = b.header + b.checksum + 2
    BY DEF ExceptionFrame, ExceptionLength
  <2>2. f.fn \in 129..151
    BY <1>2, <2>1
  <2>3. /\ MetaLengthAfterFunction(f.fn, m.type) = 1 /\ ~HasByteCount(f.fn, m.type)
    BY <1>5, <2>2 DEF MetaLengthAfterFunction, HasByteCount
  <2>4. f.n = ReceivedLength(b, f.fn, f.count, m.type)
    BY <1>1, <2>1, <2>3 DEF ReceivedLength, DataLengthAfterMeta
  <2>5. f.n <= b.maxAdu /\ f.at # b.header + 1
    BY <1>1, <2>1
  <2>6. QED
    BY <2>1, <2>2, <2>3, <2>4, <2>5 DEF Framed
<1>6. QED
  BY <1>3, <1>4, <1>5

(* Every undamaged frame of every mode is one the library builds for a     *)
(* call that the client does not refuse: the request at the server's end,  *)
(* the answer or an exception at the client's.                             *)
LibraryFrames ==
  \A m \in Modes :
    /\ m.backend \in Backends
    /\ \A f \in m.frames : f.ok =>
         \E r \in Requests :
           /\ ~TooMany(r)
           /\ m.type = "INDICATION" => f = RequestFrame(m.backend, r.fn, r.nbWrite)
           /\ m.type = "CONFIRMATION" =>
                f \in {ResponseFrame(m.backend, r.fn, r.nb, IdLength),
                       ExceptionFrame(m.backend, r.fn)}

(* The builders and the reader agree: frames of the library are as long as *)
(* receive_msg takes them to be, with the byte count where it looks for    *)
(* it, and fit the ADU.                                                    *)
THEOREM LibraryFramed == LibraryFrames => FramesFramed
<1>1. SUFFICES ASSUME LibraryFrames, NEW m \in Modes, NEW f \in m.frames, f.ok
               PROVE  Framed(m, f)
  BY DEF FramesFramed
<1>2. PICK r \in Requests :
        /\ ~TooMany(r)
        /\ m.type = "INDICATION" => f = RequestFrame(m.backend, r.fn, r.nbWrite)
        /\ m.type = "CONFIRMATION" =>
             f \in {ResponseFrame(m.backend, r.fn, r.nb, IdLength),
                    ExceptionFrame(m.backend, r.fn)}
  BY <1>1 DEF LibraryFrames
<1>3. m.backend \in Backends /\ m.type \in {"INDICATION", "CONFIRMATION"}
  BY <1>1, ModesAssumption DEF LibraryFrames, MsgTypes
<1>4. CASE m.type = "INDICATION"
  BY <1>2, <1>3, <1>4, BuiltFramed
<1>5. CASE m.type = "CONFIRMATION"
  BY <1>2, <1>3, <1>5, BuiltFramed
<1>6. QED
  BY <1>3, <1>4, <1>5
=============================================================================
