----------------------- MODULE ModbusTransactionProofs -----------------------
(***************************************************************************)
(* A TCP client never takes a late answer for its own, whatever the        *)
(* recovery modes, resets and delays, for every range of transaction       *)
(* identifiers: as long as no message outlives TidMod calls, two messages  *)
(* on their way never carry one identifier for different calls.  On a      *)
(* serial line there is no identifier: a client with link recovery keeps   *)
(* in step because nothing is left on the line when its sleep ends.  From  *)
(* this, and from the order in which the server works, that the whole      *)
(* implements the abstract call over both.                                 *)
(***************************************************************************)
EXTENDS ModbusTransaction, SequenceTheorems, TLAPS

(* The identifier of a message that was sent age calls ago, t being the    *)
(* identifier of the latest call.                                          *)
Sent(m, t) == m.tid = t - m.age \/ m.tid = t - m.age + TidMod

TimelyMessage(tcp, t) == {m \in Message : tcp => Sent(m, t)}
TimelyAnswer(tcp, t)  == {m \in Answer : tcp => Sent(m, t)}

IInv ==
  /\ mode \in Modes
  /\ pc \in {"idle", "send", "wait", "sleep"}
  /\ op \in Ops /\ tid \in Tids
  /\ conn \in {"up", "reset", "closed"}
  /\ result \in {"none", "ok", "exception"} \union Errors
  /\ accepted \in Ages \union {-1}
  /\ effects \in Nat
  /\ pace \in {"any", "sleep", "prompt"}
  /\ reqs \in Seq(TimelyMessage(mode.tcp, tid))
  /\ serving \in Seq(TimelyMessage(mode.tcp, tid))
  /\ rsps \in Seq(TimelyAnswer(mode.tcp, tid))
  /\ pc = "sleep" => result \in Errors   \* recovery hides no success
  /\ mode.tcp => OwnAnswer

(* Aging a sequence of messages, with the identifier of the next call.     *)
LEMMA AgedSeq ==
  ASSUME NEW S, NEW T, NEW s \in Seq(S),
         \A i \in 1..Len(s) : [s[i] EXCEPT !.age = @ + 1] \in T
  PROVE  Aged(s) \in Seq(T)
<1>1. Len(s) \in Nat /\ DOMAIN s = 1..Len(s)
  BY LenProperties
<1>2. Aged(s) = [i \in 1..Len(s) |-> [s[i] EXCEPT !.age = @ + 1]]
  BY <1>1 DEF Aged
<1>3. QED
  BY <1>1, <1>2, IsASeq

LEMMA DeadSeq ==
  ASSUME NEW tcp, NEW t, NEW s \in Seq(TimelyMessage(tcp, t))
  PROVE  Dead(s) \in Seq(TimelyMessage(tcp, t))
<1>1. Len(s) \in Nat /\ DOMAIN s = 1..Len(s)
  BY LenProperties
<1>2. Dead(s) = [i \in 1..Len(s) |-> [s[i] EXCEPT !.live = FALSE]]
  BY <1>1 DEF Dead
<1>3. ASSUME NEW i \in 1..Len(s)
      PROVE  [s[i] EXCEPT !.live = FALSE] \in TimelyMessage(tcp, t)
  <2>1. s[i] \in TimelyMessage(tcp, t)
    BY <1>3, ElementOfSeq
  <2>2. QED
    BY <2>1 DEF TimelyMessage, Message, Sent
<1>4. QED
  BY <1>1, <1>2, <1>3, IsASeq

LEMMA NextTidFacts ==
  ASSUME NEW a \in Ages, a + 1 < TidMod, NEW m, m \in Tids, tid \in Tids,
         m = tid - a \/ m = tid - a + TidMod
  PROVE  /\ NextTid \in Tids
         /\ m = NextTid - (a + 1) \/ m = NextTid - (a + 1) + TidMod
BY TidAssumption DEF Ages, Tids, NextTid

LEMMA CallPreserves ==
  ASSUME IInv, NEW o \in Ops, Call(o)
  PROVE  IInv'
<1>1. tid' \in Tids
  BY TidAssumption DEF Call, NextTid, IInv, Tids
<1>2. ASSUME NEW m \in TimelyMessage(mode.tcp, tid), m.age + 1 < TidMod
      PROVE  [m EXCEPT !.age = @ + 1] \in TimelyMessage(mode.tcp, tid')
  <2>1. m.age + 1 \in Ages
    BY <1>2, TidAssumption DEF TimelyMessage, Message, Ages
  <2>2. [m EXCEPT !.age = @ + 1] \in Message
    BY <2>1 DEF TimelyMessage, Message
  <2>3. mode.tcp => Sent([m EXCEPT !.age = @ + 1], tid')
    <3>1. SUFFICES ASSUME mode.tcp
                   PROVE  m.tid = tid' - (m.age + 1) \/ m.tid = tid' - (m.age + 1) + TidMod
      BY DEF Sent, TimelyMessage, Message
    <3>2. /\ m.age \in Ages /\ m.tid \in Tids /\ tid' = NextTid
          /\ m.tid = tid - m.age \/ m.tid = tid - m.age + TidMod
      BY <3>1 DEF TimelyMessage, Message, Sent, Call
    <3>3. QED
      BY <1>2, <3>2, NextTidFacts DEF IInv
  <2>4. QED
    BY <2>2, <2>3 DEF TimelyMessage
<1>3. ASSUME NEW m \in TimelyAnswer(mode.tcp, tid), m.age + 1 < TidMod
      PROVE  [m EXCEPT !.age = @ + 1] \in TimelyAnswer(mode.tcp, tid')
  <2>1. m.age + 1 \in Ages
    BY <1>3, TidAssumption DEF TimelyAnswer, Answer, Ages
  <2>2. [m EXCEPT !.age = @ + 1] \in Answer
    BY <2>1 DEF TimelyAnswer, Answer
  <2>3. mode.tcp => Sent([m EXCEPT !.age = @ + 1], tid')
    <3>1. SUFFICES ASSUME mode.tcp
                   PROVE  m.tid = tid' - (m.age + 1) \/ m.tid = tid' - (m.age + 1) + TidMod
      BY DEF Sent, TimelyAnswer, Answer
    <3>2. /\ m.age \in Ages /\ m.tid \in Tids /\ tid' = NextTid
          /\ m.tid = tid - m.age \/ m.tid = tid - m.age + TidMod
      BY <3>1 DEF TimelyAnswer, Answer, Sent, Call
    <3>3. QED
      BY <1>3, <3>2, NextTidFacts DEF IInv
  <2>4. QED
    BY <2>2, <2>3 DEF TimelyAnswer
<1>4. reqs' \in Seq(TimelyMessage(mode.tcp, tid'))
  <2>1. ASSUME NEW i \in 1..Len(reqs)
        PROVE  [reqs[i] EXCEPT !.age = @ + 1] \in TimelyMessage(mode.tcp, tid')
    <3>1. reqs[i] \in TimelyMessage(mode.tcp, tid) /\ i \in DOMAIN reqs
      BY <2>1, ElementOfSeq, LenProperties DEF IInv
    <3>2. QED
      BY <1>2, <3>1 DEF Call, Window
  <2>2. Aged(reqs) \in Seq(TimelyMessage(mode.tcp, tid'))
    BY <2>1, AgedSeq DEF IInv
  <2>3. QED
    BY <2>2 DEF Call
<1>5. serving' \in Seq(TimelyMessage(mode.tcp, tid'))
  <2>1. ASSUME NEW i \in 1..Len(serving)
        PROVE  [serving[i] EXCEPT !.age = @ + 1] \in TimelyMessage(mode.tcp, tid')
    <3>1. serving[i] \in TimelyMessage(mode.tcp, tid) /\ i \in DOMAIN serving
      BY <2>1, ElementOfSeq, LenProperties DEF IInv
    <3>2. QED
      BY <1>2, <3>1 DEF Call, Window
  <2>2. Aged(serving) \in Seq(TimelyMessage(mode.tcp, tid'))
    BY <2>1, AgedSeq DEF IInv
  <2>3. QED
    BY <2>2 DEF Call
<1>6. rsps' \in Seq(TimelyAnswer(mode.tcp, tid'))
  <2>1. ASSUME NEW i \in 1..Len(rsps)
        PROVE  [rsps[i] EXCEPT !.age = @ + 1] \in TimelyAnswer(mode.tcp, tid')
    <3>1. rsps[i] \in TimelyAnswer(mode.tcp, tid) /\ i \in DOMAIN rsps
      BY <2>1, ElementOfSeq, LenProperties DEF IInv
    <3>2. QED
      BY <1>3, <3>1 DEF Call, Window
  <2>2. Aged(rsps) \in Seq(TimelyAnswer(mode.tcp, tid'))
    BY <2>1, AgedSeq DEF IInv
  <2>3. QED
    BY <2>2 DEF Call
<1>7. QED
  BY <1>1, <1>4, <1>5, <1>6 DEF IInv, Call, OwnAnswer, Returned

LEMMA FirstOfRsps ==
  ASSUME IInv, rsps # <<>>
  PROVE  Head(rsps) \in TimelyAnswer(mode.tcp, tid) /\ Tail(rsps) \in Seq(TimelyAnswer(mode.tcp, tid))
BY HeadTailProperties DEF IInv

LEMMA FirstOfReqs ==
  ASSUME IInv, reqs # <<>>
  PROVE  Head(reqs) \in TimelyMessage(mode.tcp, tid) /\ Tail(reqs) \in Seq(TimelyMessage(mode.tcp, tid))
BY HeadTailProperties DEF IInv

LEMMA ReconnectPreserves ==
  ASSUME IInv, Reconnect
  PROVE  /\ conn' \in {"up", "reset", "closed"}
         /\ reqs' \in Seq(TimelyMessage(mode.tcp, tid)) /\ serving' \in Seq(TimelyMessage(mode.tcp, tid))
         /\ rsps' \in Seq(TimelyAnswer(mode.tcp, tid))
BY DeadSeq, EmptySeq DEF IInv, Reconnect

LEMMA SendPreserves ==
  ASSUME IInv, Send \/ SendLost \/ SendFails
  PROVE  IInv'
<1>1. CASE Send
  <2>1. [age |-> 0, tid |-> tid, op |-> op, live |-> TRUE] \in TimelyMessage(mode.tcp, tid)
    BY TidAssumption DEF TimelyMessage, Message, Sent, IInv, Ages, Tids
  <2>2. reqs' \in Seq(TimelyMessage(mode.tcp, tid))
    BY <1>1, <2>1, AppendProperties DEF Send, IInv
  <2>3. QED
    BY <1>1, <2>2 DEF Send, IInv, OwnAnswer, Returned, server
<1>2. CASE SendLost
  BY <1>2 DEF SendLost, IInv, OwnAnswer, Returned, server
<1>3. CASE SendFails
  <2>1. CASE mode.link
    <3>1. Reconnect /\ UNCHANGED <<pc, result, op, tid, accepted, effects, pace, mode>>
      BY <1>3, <2>1 DEF SendFails
    <3>2. QED
      BY <3>1, ReconnectPreserves DEF IInv, OwnAnswer, Returned
  <2>2. CASE ~mode.link
    BY <1>3, <2>2 DEF SendFails, IInv, OwnAnswer, Returned, Errors
  <2>3. QED
    BY <2>1, <2>2
<1>4. QED
  BY <1>1, <1>2, <1>3

(* A matching identifier leaves no other age than 0.                       *)
LEMMA MatchIsOwn ==
  ASSUME IInv, mode.tcp, NEW m \in TimelyAnswer(mode.tcp, tid), Matches(m)
  PROVE  m.age = 0
<1>1. m.tid = tid /\ m.age \in Ages /\ tid \in Tids
  BY DEF Matches, TimelyAnswer, Answer, IInv
<1>2. m.tid = tid - m.age \/ m.tid = tid - m.age + TidMod
  BY DEF TimelyAnswer, Sent
<1>3. QED
  BY <1>1, <1>2, TidAssumption DEF Ages, Tids

LEMMA AcceptPreserves ==
  ASSUME IInv, Accept
  PROVE  IInv'
<1>1. Head(rsps) \in TimelyAnswer(mode.tcp, tid) /\ Tail(rsps) \in Seq(TimelyAnswer(mode.tcp, tid))
  BY FirstOfRsps DEF Accept
<1>2. Head(rsps).age \in Ages
  BY <1>1 DEF TimelyAnswer, Answer
<1>3. mode.tcp => Head(rsps).age = 0
  BY <1>1, MatchIsOwn DEF Accept
<1>4. QED
  BY <1>1, <1>2, <1>3 DEF Accept, IInv, OwnAnswer, Returned, server

LEMMA WaitPreserves ==
  ASSUME IInv, Timeout \/ Closed \/ Mismatch \/ BadCrc \/ Flush
  PROVE  IInv'
<1>1. CASE Timeout
  BY <1>1 DEF Timeout, IInv, OwnAnswer, Returned, Errors, server
<1>2. CASE Closed
  <2>1. CASE mode.link
    <3>1. Reconnect
      BY <1>2, <2>1 DEF Closed
    <3>2. QED
      BY <1>2, <3>1, ReconnectPreserves DEF Closed, IInv, OwnAnswer, Returned, Errors
  <2>2. CASE ~mode.link
    BY <1>2, <2>2 DEF Closed, IInv, OwnAnswer, Returned, Errors
  <2>3. QED
    BY <2>1, <2>2
<1>3. CASE Mismatch
  <2>1. Tail(rsps) \in Seq(TimelyAnswer(mode.tcp, tid))
    BY <1>3, FirstOfRsps DEF Mismatch
  <2>2. QED
    BY <1>3, <2>1 DEF Mismatch, IInv, OwnAnswer, Returned, Errors, server
<1>4. CASE BadCrc
  <2>1. Tail(rsps) \in Seq(TimelyAnswer(mode.tcp, tid)) /\ <<>> \in Seq(TimelyAnswer(mode.tcp, tid))
    BY <1>4, FirstOfRsps, EmptySeq DEF BadCrc
  <2>2. QED
    BY <1>4, <2>1 DEF BadCrc, IInv, OwnAnswer, Returned, Errors, server
<1>5. CASE Flush
  <2>1. <<>> \in Seq(TimelyAnswer(mode.tcp, tid))
    BY EmptySeq
  <2>2. result \notin {"ok", "exception"}
    BY <1>5 DEF Flush, IInv, Errors
  <2>3. QED
    BY <1>5, <2>1, <2>2 DEF Flush, IInv, OwnAnswer, Returned, server
<1>6. QED
  BY <1>1, <1>2, <1>3, <1>4, <1>5

LEMMA ServerPreserves ==
  ASSUME IInv, Serve
  PROVE  IInv'
<1>1. CASE Take
  <2>1. Head(reqs) \in TimelyMessage(mode.tcp, tid) /\ Tail(reqs) \in Seq(TimelyMessage(mode.tcp, tid))
    BY <1>1, FirstOfReqs DEF Take
  <2>2. <<Head(reqs)>> \in Seq(TimelyMessage(mode.tcp, tid))
    BY <2>1
  <2>3. QED
    BY <1>1, <2>1, <2>2 DEF Take, IInv, OwnAnswer, Returned, client
<1>2. ASSUME NEW exc \in BOOLEAN, Reply(exc)
      PROVE  IInv'
  <2> DEFINE m == Head(serving)
             a == [age |-> m.age, tid |-> m.tid, op |-> m.op, exc |-> exc]
  <2>1. m \in TimelyMessage(mode.tcp, tid)
    BY <1>2, HeadTailProperties DEF IInv, Reply
  <2>2. a \in TimelyAnswer(mode.tcp, tid)
    BY <1>2, <2>1 DEF TimelyMessage, TimelyAnswer, Message, Answer, Sent
  <2>3. Append(rsps, a) \in Seq(TimelyAnswer(mode.tcp, tid))
    BY <2>2, AppendProperties DEF IInv
  <2>4. rsps' \in Seq(TimelyAnswer(mode.tcp, tid))
    BY <1>2, <2>3 DEF Reply, IInv
  <2>5. serving' = <<>> /\ serving' \in Seq(TimelyMessage(mode.tcp, tid)) /\ effects' \in Nat
    BY <1>2, EmptySeq DEF Reply, IInv
  <2>6. UNCHANGED <<pc, op, tid, result, accepted, conn, reqs, pace, mode>>
    BY <1>2 DEF Reply, client
  <2>7. QED
    BY <2>4, <2>5, <2>6 DEF IInv, OwnAnswer, Returned
<1>3. QED
  BY <1>1, <1>2 DEF Serve

LEMMA EnvironmentPreserves ==
  ASSUME IInv, AppReconnect \/ LoseRequest \/ LoseAnswer \/ PeerResets \/ Settle
  PROVE  IInv'
<1>1. CASE AppReconnect
  <2>1. Reconnect /\ UNCHANGED <<pc, op, tid, result, accepted, effects, pace, mode>>
    BY <1>1 DEF AppReconnect, client
  <2>2. QED
    BY <2>1, ReconnectPreserves DEF IInv, OwnAnswer, Returned
<1>2. CASE LoseRequest
  <2>1. Tail(reqs) \in Seq(TimelyMessage(mode.tcp, tid))
    BY <1>2, FirstOfReqs DEF LoseRequest
  <2>2. QED
    BY <1>2, <2>1 DEF LoseRequest, IInv, OwnAnswer, Returned, client, server
<1>3. CASE LoseAnswer
  <2>1. Tail(rsps) \in Seq(TimelyAnswer(mode.tcp, tid))
    BY <1>3, FirstOfRsps DEF LoseAnswer
  <2>2. QED
    BY <1>3, <2>1 DEF LoseAnswer, IInv, OwnAnswer, Returned, client, server
<1>4. CASE PeerResets
  <2>1. <<>> \in Seq(TimelyMessage(mode.tcp, tid)) /\ Dead(serving) \in Seq(TimelyMessage(mode.tcp, tid))
    BY EmptySeq, DeadSeq DEF IInv
  <2>2. reqs' \in Seq(TimelyMessage(mode.tcp, tid)) /\ serving' \in Seq(TimelyMessage(mode.tcp, tid))
    BY <1>4, <2>1 DEF PeerResets
  <2>3. QED
    BY <1>4, <2>2 DEF PeerResets, IInv, OwnAnswer, Returned, client
<1>5. CASE Settle
  BY <1>5 DEF Settle, IInv, OwnAnswer, Returned, client, server
<1>6. QED
  BY <1>1, <1>2, <1>3, <1>4, <1>5

LEMMA StepPreserves == IInv /\ [Next]_vars => IInv'
<1>1. SUFFICES ASSUME IInv, [Next]_vars PROVE IInv'
  OBVIOUS
<1>2. CASE UNCHANGED vars
  BY <1>1, <1>2 DEF IInv, vars, OwnAnswer, Returned, Errors
<1>3. CASE Next
  BY <1>1, <1>3, CallPreserves, SendPreserves, AcceptPreserves, WaitPreserves,
     ServerPreserves, EnvironmentPreserves
  DEF Next, ClientStep
<1>4. QED
  BY <1>1, <1>2, <1>3

LEMMA InitIInv == Init => IInv
<1>1. SUFFICES ASSUME Init PROVE IInv
  OBVIOUS
<1>2. 0 \in Tids
  BY TidAssumption DEF Tids
<1>3. QED
  BY <1>1, <1>2, EmptySeq, ModesAssumption DEF Init, IInv, OwnAnswer, Returned

LEMMA Inductive == Spec => []IInv
BY InitIInv, StepPreserves, PTL DEF Spec

LEMMA SeqOfSubset ==
  ASSUME NEW S, NEW T, S \subseteq T, NEW s \in Seq(S)
  PROVE  s \in Seq(T)
<1>1. /\ Len(s) \in Nat /\ s = [i \in 1..Len(s) |-> s[i]]
      /\ \A i \in 1..Len(s) : s[i] \in T
  BY LenProperties, ElementOfSeq
<1>2. QED
  BY <1>1, IsASeq

LEMMA IInvTypes == IInv => TypeOK
<1>1. SUFFICES ASSUME IInv PROVE TypeOK
  OBVIOUS
<1>2. TimelyMessage(mode.tcp, tid) \subseteq Message /\ TimelyAnswer(mode.tcp, tid) \subseteq Answer
  BY DEF TimelyMessage, TimelyAnswer
<1>3. reqs \in Seq(Message) /\ serving \in Seq(Message) /\ rsps \in Seq(Answer)
  BY <1>1, <1>2, SeqOfSubset DEF IInv
<1>4. QED
  BY <1>1, <1>3 DEF IInv, TypeOK

(* Every state of every behaviour has the types TypeOK gives.              *)
THEOREM TypeCorrect == Spec => []TypeOK
BY Inductive, IInvTypes, PTL

-----------------------------------------------------------------------------
(* The request and the answer of the latest call: there is at most one     *)
(* of them at most, it is the last in its queue, and nothing is left       *)
(* before it once it has been answered, since the server takes requests    *)
(* in order.  Late(s) says that s has neither.                             *)
Late(s)    == \A i \in 1..Len(s) : s[i].age # 0
OwnLast(s) == \A i \in 1..Len(s) : s[i].age = 0 => i = Len(s)
Told(s, n) == \A i \in 1..Len(s) : s[i].age = 0 => n = IF s[i].exc THEN 0 ELSE 1

OwnInv ==
  /\ OwnLast(reqs) /\ OwnLast(rsps) /\ Len(serving) <= 1
  /\ ~Late(serving) => reqs = <<>>
  /\ ~Late(reqs) \/ ~Late(serving) => effects = 0
  /\ ~Late(rsps) => ~Unanswered
  /\ Told(rsps, effects)
  /\ pc = "send" => effects = 0 /\ Late(reqs) /\ Late(serving) /\ Late(rsps)
  /\ pc = "idle" /\ result \notin Errors => ~Unanswered

(* A serial line between a client with link recovery and a server that     *)
(* answers before the sleep after a timeout ends: whatever is on the line  *)
(* belongs to the latest call, and between two calls nothing is.           *)
Recent(s) == \A i \in 1..Len(s) : s[i].age = 0

InStep ==
  /\ ~mode.tcp /\ mode.link /\ pace = "sleep" /\ conn = "up"
  /\ Recent(reqs) /\ Recent(serving) /\ Recent(rsps)
  /\ pc \in {"idle", "send"} => reqs = <<>> /\ serving = <<>> /\ rsps = <<>>

LEMMA LateEmpty == Late(<<>>) /\ OwnLast(<<>>)
BY EmptySeq DEF Late, OwnLast

LEMMA LateTail ==
  ASSUME NEW S, NEW s \in Seq(S), s # <<>>, OwnLast(s)
  PROVE  /\ OwnLast(Tail(s)) /\ (Late(s) => Late(Tail(s)))
         /\ Head(s).age = 0 => Tail(s) = <<>>
         /\ Head(s).age = 0 <=> s[1].age = 0
         /\ Len(Tail(s)) = Len(s) - 1
         /\ \A i \in 1..Len(Tail(s)) : Tail(s)[i] = s[i + 1] /\ i + 1 \in 1..Len(s)
<1>1. /\ Len(s) \in Nat /\ Len(s) >= 1 /\ Head(s) = s[1]
      /\ Tail(s) \in Seq(S) /\ Len(Tail(s)) = Len(s) - 1
      /\ \A i \in 1..Len(Tail(s)) : Tail(s)[i] = s[i + 1]
  BY HeadTailProperties, LenProperties, EmptySeq
<1>2. \A i \in 1..Len(Tail(s)) : i + 1 \in 1..Len(s)
  BY <1>1
<1>3. OwnLast(Tail(s)) /\ (Late(s) => Late(Tail(s)))
  <2> DEFINE n == Len(s)
             r == Tail(s)
  <2>1. n \in Nat /\ n >= 1 /\ Len(r) = n - 1
    BY <1>1
  <2>2. ASSUME NEW i \in 1..Len(r)
        PROVE  /\ r[i].age = 0 => i = Len(r)
               /\ Late(s) => r[i].age # 0
    <3>1. r[i] = s[i + 1] /\ i + 1 \in 1..n
      BY <1>1, <1>2, <2>2
    <3>2. s[i + 1].age = 0 => i + 1 = n
      BY <3>1 DEF OwnLast
    <3>3. Late(s) => s[i + 1].age # 0
      BY <3>1 DEF Late
    <3> HIDE DEF n, r
    <3>4. QED
      BY <2>1, <2>2, <3>1, <3>2, <3>3
  <2>3. QED
    BY <2>2 DEF Late, OwnLast
<1>4. Head(s).age = 0 => Tail(s) = <<>>
  <2>1. Head(s).age = 0 => Len(Tail(s)) = 0
    <3>1. 1 \in 1..Len(s)
      BY <1>1
    <3>2. s[1].age = 0 => 1 = Len(s)
      BY <3>1 DEF OwnLast
    <3>3. QED
      BY <1>1, <3>2
  <2>2. QED
    BY <1>1, <2>1, EmptySeq
<1>5. QED
  BY <1>1, <1>2, <1>3, <1>4

LEMMA LateAppend ==
  ASSUME NEW S, NEW s \in Seq(S), NEW m \in S, Late(s)
  PROVE  /\ OwnLast(Append(s, m)) /\ (m.age # 0 => Late(Append(s, m)))
         /\ Len(Append(s, m)) = Len(s) + 1 /\ Append(s, m)[Len(s) + 1] = m
         /\ \A i \in 1..Len(s) : Append(s, m)[i] = s[i]
BY AppendProperties, LenProperties DEF Late, OwnLast

LEMMA LateAged ==
  ASSUME NEW tcp, NEW t,
         NEW s \in Seq(TimelyMessage(tcp, t)) \union Seq(TimelyAnswer(tcp, t))
  PROVE  Late(Aged(s)) /\ OwnLast(Aged(s)) /\ Len(Aged(s)) = Len(s)
<1>1. Len(s) \in Nat /\ DOMAIN s = 1..Len(s)
  BY LenProperties
<1>2. /\ Aged(s) = [i \in 1..Len(s) |-> [s[i] EXCEPT !.age = @ + 1]]
      /\ \A i \in 1..Len(s) : s[i] \in Message \union Answer
  BY <1>1, ElementOfSeq DEF Aged, TimelyMessage, TimelyAnswer
<1>3. \A i \in 1..Len(s) : Aged(s)[i].age # 0
  BY <1>2, TidAssumption DEF Message, Answer, Ages
<1>4. Len(Aged(s)) = Len(s)
  BY <1>1, <1>2
<1>5. QED
  BY <1>3, <1>4 DEF Late, OwnLast

LEMMA LateDead ==
  ASSUME NEW tcp, NEW t, NEW s \in Seq(TimelyMessage(tcp, t))
  PROVE  /\ Late(Dead(s)) <=> Late(s)
         /\ OwnLast(Dead(s)) <=> OwnLast(s)
         /\ Len(Dead(s)) = Len(s) /\ (Dead(s) = <<>> <=> s = <<>>)
<1>1. Len(s) \in Nat /\ DOMAIN s = 1..Len(s) /\ (s = <<>> <=> Len(s) = 0)
  BY LenProperties, EmptySeq
<1>2. /\ Dead(s) = [i \in 1..Len(s) |-> [s[i] EXCEPT !.live = FALSE]]
      /\ \A i \in 1..Len(s) : s[i] \in Message
  BY <1>1, ElementOfSeq DEF Dead, TimelyMessage
<1>3. \A i \in 1..Len(s) : Dead(s)[i].age = s[i].age
  BY <1>2 DEF Message
<1>4. Dead(s) \in Seq(TimelyMessage(tcp, t))
  BY DeadSeq
<1>5. Len(Dead(s)) = Len(s) /\ (Dead(s) = <<>> <=> Len(Dead(s)) = 0)
  <2>1. DOMAIN Dead(s) = 1..Len(s) /\ DOMAIN Dead(s) = 1..Len(Dead(s)) /\ Len(Dead(s)) \in Nat
    BY <1>2, <1>4, LenProperties
  <2>2. Len(Dead(s)) = Len(s)
    BY <1>1, <2>1
  <2>3. QED
    BY <1>4, <2>2, EmptySeq
<1>6. QED
  BY <1>1, <1>3, <1>4, <1>5 DEF Late, OwnLast

LEMMA ToldLate ==
  ASSUME NEW s, NEW n, Late(s)
  PROVE  Told(s, n)
BY DEF Late, Told

LEMMA OwnCall ==
  ASSUME IInv, OwnInv, NEW o \in Ops, Call(o)
  PROVE  OwnInv'
<1>1. /\ Late(reqs') /\ OwnLast(reqs') /\ Late(serving') /\ Len(serving') = Len(serving)
      /\ Late(rsps') /\ OwnLast(rsps')
  BY LateAged DEF Call, IInv
<1>2. Told(rsps', effects')
  BY <1>1, ToldLate
<1>3. pc' = "send" /\ effects' = 0
  BY DEF Call
<1>4. QED
  BY <1>1, <1>2, <1>3 DEF OwnInv

LEMMA OwnSend ==
  ASSUME IInv, OwnInv, Send
  PROVE  OwnInv'
<1> DEFINE m == [age |-> 0, tid |-> tid, op |-> op, live |-> TRUE]
<1>1. m \in TimelyMessage(mode.tcp, tid) /\ reqs' = Append(reqs, m)
  BY TidAssumption DEF TimelyMessage, Message, Sent, IInv, Ages, Tids, Send
<1>2. Late(reqs) /\ Late(serving) /\ Late(rsps) /\ effects = 0
  BY DEF OwnInv, Send
<1>3. OwnLast(reqs')
  BY <1>1, <1>2, LateAppend DEF IInv
<1>4. pc' = "wait" /\ UNCHANGED <<serving, rsps, effects>>
  BY DEF Send, server
<1>5. QED
  BY <1>2, <1>3, <1>4 DEF OwnInv

(* A new connection delivers the requests of the old one, no answers.      *)
LEMMA OwnReconnect ==
  ASSUME IInv, OwnInv, Reconnect, UNCHANGED effects, pc' = pc \/ pc' = "idle",
         pc' = "idle" => result' \in Errors
  PROVE  OwnInv'
<1>1. /\ Late(reqs') <=> Late(reqs)
      /\ OwnLast(reqs') <=> OwnLast(reqs)
      /\ reqs' = <<>> <=> reqs = <<>>
      /\ Late(serving') <=> Late(serving)
      /\ Len(serving') = Len(serving)
  BY LateDead DEF Reconnect, IInv
<1>2. Late(rsps') /\ OwnLast(rsps')
  BY LateEmpty DEF Reconnect
<1>3. Told(rsps', effects')
  BY <1>2, ToldLate
<1>4. QED
  BY <1>1, <1>2, <1>3 DEF OwnInv

LEMMA OwnSendFails ==
  ASSUME IInv, OwnInv, SendFails
  PROVE  OwnInv'
<1>1. CASE mode.link
  <2>1. Reconnect /\ UNCHANGED <<effects, pc>> /\ pc' # "idle"
    BY <1>1 DEF SendFails
  <2>2. QED
    BY <2>1, OwnReconnect
<1>2. CASE ~mode.link
  BY <1>2 DEF SendFails, OwnInv, Errors, Unanswered
<1>3. QED
  BY <1>1, <1>2

(* The answer a call takes for its own is its own, so that nothing else is *)
(* on its way.                                                             *)
LEMMA OwnAccept ==
  ASSUME IInv, OwnInv, mode.tcp \/ InStep, Accept
  PROVE  /\ Head(rsps).age = 0
         /\ ~Unanswered
         /\ effects = IF Head(rsps).exc THEN 0 ELSE 1
         /\ OwnInv'
<1>1. Head(rsps) \in TimelyAnswer(mode.tcp, tid) /\ rsps # <<>>
  BY FirstOfRsps DEF Accept
<1>2. 1 \in 1..Len(rsps) /\ Head(rsps) = rsps[1]
  BY <1>1, HeadTailProperties, LenProperties, EmptySeq DEF IInv
<1>3. Head(rsps).age = 0
  <2>1. mode.tcp => Head(rsps).age = 0
    BY <1>1, MatchIsOwn DEF Accept
  <2>2. InStep => Head(rsps).age = 0
    BY <1>2 DEF InStep, Recent
  <2>3. QED
    BY <2>1, <2>2
<1>4. ~Late(rsps)
  BY <1>2, <1>3 DEF Late
<1>5. ~Unanswered
  BY <1>4 DEF OwnInv
<1>6. effects = IF Head(rsps).exc THEN 0 ELSE 1
  BY <1>2, <1>3 DEF OwnInv, Told
<1>7. Tail(rsps) = <<>>
  BY <1>1, <1>3, LateTail DEF IInv, OwnInv
<1>8. rsps' = <<>> /\ UNCHANGED <<reqs, serving, effects>> /\ pc' = "idle"
  BY <1>7 DEF Accept, server
<1>9. Late(rsps') /\ OwnLast(rsps')
  BY <1>8, LateEmpty
<1>10. Told(rsps', effects')
  BY <1>9, ToldLate
<1>11. OwnInv'
  BY <1>5, <1>8, <1>9, <1>10 DEF OwnInv, Unanswered
<1>12. QED
  BY <1>3, <1>5, <1>6, <1>11

LEMMA ToldTail ==
  ASSUME NEW S, NEW s \in Seq(S), s # <<>>, NEW n, Told(s, n), OwnLast(s)
  PROVE  Told(Tail(s), n)
BY LateTail DEF Told

(* The other ways a wait ends.                                             *)
LEMMA OwnWait ==
  ASSUME IInv, OwnInv, Timeout \/ Closed \/ Mismatch \/ Flush
  PROVE  OwnInv'
<1>1. CASE Timeout
  BY <1>1 DEF Timeout, OwnInv, Errors, server, Unanswered
<1>2. CASE Closed
  <2>1. CASE mode.link
    BY <1>2, <2>1, OwnReconnect DEF Closed, Errors
  <2>2. CASE ~mode.link
    BY <1>2, <2>2 DEF Closed, OwnInv, Errors, Unanswered
  <2>3. QED
    BY <2>1, <2>2
<1>3. CASE Mismatch
  <2>1. /\ rsps' = Tail(rsps) /\ rsps # <<>> /\ UNCHANGED <<reqs, serving, effects>>
        /\ pc' \in {"sleep", "idle"} /\ result' \in Errors
    BY <1>3 DEF Mismatch, server, Errors
  <2>2. OwnLast(rsps') /\ (Late(rsps) => Late(rsps'))
    BY <2>1, LateTail DEF IInv, OwnInv
  <2>3. Told(rsps', effects')
    BY <2>1, ToldTail DEF IInv, OwnInv
  <2>4. QED
    BY <2>1, <2>2, <2>3 DEF OwnInv, Unanswered
<1>4. CASE Flush
  <2>1. Late(rsps') /\ OwnLast(rsps')
    BY <1>4, LateEmpty DEF Flush
  <2>2. Told(rsps', effects')
    BY <2>1, ToldLate
  <2>3. result \in Errors
    BY <1>4 DEF Flush, IInv
  <2>4. QED
    BY <1>4, <2>1, <2>2, <2>3 DEF Flush, OwnInv, server, Unanswered
<1>5. QED
  BY <1>1, <1>2, <1>3, <1>4

LEMMA LateSingle ==
  ASSUME NEW S, NEW m \in S
  PROVE  /\ Late(<<m>>) <=> m.age # 0
         /\ Len(<<m>>) = 1
BY DEF Late

LEMMA OwnTake ==
  ASSUME IInv, OwnInv, Take
  PROVE  OwnInv'
<1>1. /\ Head(reqs) \in TimelyMessage(mode.tcp, tid) /\ reqs # <<>>
      /\ serving' = <<Head(reqs)>> /\ reqs' = Tail(reqs)
      /\ UNCHANGED <<pc, result, rsps, effects>>
  BY FirstOfReqs DEF Take, client
<1>2. /\ OwnLast(reqs') /\ (Late(reqs) => Late(reqs'))
      /\ Head(reqs).age = 0 => reqs' = <<>>
  BY <1>1, LateTail DEF IInv, OwnInv
<1>3. Late(serving') <=> Head(reqs).age # 0
  BY <1>1, LateSingle
<1>4. Len(serving') = 1
  BY <1>1, LateSingle
<1>5. Late(reqs) => Head(reqs).age # 0
  <2>1. 1 \in 1..Len(reqs) /\ Head(reqs) = reqs[1]
    BY <1>1, HeadTailProperties, LenProperties, EmptySeq DEF IInv
  <2>2. QED
    BY <2>1 DEF Late
<1>6. Unanswered
  BY <1>1 DEF Unanswered
<1>7. QED
  BY <1>1, <1>2, <1>3, <1>4, <1>5, <1>6 DEF OwnInv

LEMMA OwnReply ==
  ASSUME IInv, OwnInv, NEW exc \in BOOLEAN, Reply(exc)
  PROVE  OwnInv'
<1> DEFINE m == Head(serving)
           a == [age |-> m.age, tid |-> m.tid, op |-> m.op, exc |-> exc]
<1>1. m \in TimelyMessage(mode.tcp, tid) /\ serving # <<>>
  BY HeadTailProperties DEF IInv, Reply
<1>2. a \in TimelyAnswer(mode.tcp, tid)
  BY <1>1 DEF TimelyMessage, TimelyAnswer, Message, Answer, Sent
<1>3. Unanswered /\ Late(rsps)
  BY <1>1 DEF Unanswered, OwnInv
<1>4. /\ serving' = <<>> /\ UNCHANGED <<pc, result, reqs>>
      /\ rsps' = rsps \/ rsps' = Append(rsps, a)
      /\ effects' = IF m.age = 0 /\ ~exc THEN effects + 1 ELSE effects
  BY DEF Reply, client
<1>5. /\ OwnLast(Append(rsps, a)) /\ (a.age # 0 => Late(Append(rsps, a)))
      /\ Len(Append(rsps, a)) = Len(rsps) + 1 /\ Append(rsps, a)[Len(rsps) + 1] = a
      /\ \A i \in 1..Len(rsps) : Append(rsps, a)[i] = rsps[i]
  BY <1>2, <1>3, LateAppend DEF IInv
<1>6. OwnLast(rsps')
  BY <1>4, <1>5 DEF OwnInv
<1>7. Late(serving') /\ Len(serving') <= 1
  BY <1>4, LateEmpty
<1>8. m.age = 0 <=> ~Late(serving)
  <2>1. Len(serving) \in Nat /\ Len(serving) # 0 /\ Len(serving) <= 1
    BY <1>1, LenProperties, EmptySeq DEF IInv, OwnInv
  <2>2. Len(serving) = 1
    BY <2>1
  <2>3. m = serving[1]
    BY <1>1, HeadTailProperties DEF IInv
  <2>4. QED
    BY <2>2, <2>3 DEF Late
<1>9. CASE m.age = 0
  <2>1. reqs = <<>> /\ effects = 0 /\ pc # "send"
    BY <1>8, <1>9 DEF OwnInv
  <2>2. effects' = IF exc THEN 0 ELSE 1
    BY <1>4, <1>9, <2>1
  <2>3. Told(rsps', effects')
    <3>1. CASE rsps' = rsps
      BY <1>3, <3>1, ToldLate
    <3>2. CASE rsps' = Append(rsps, a)
      <4>1. ASSUME NEW i \in 1..Len(rsps'), rsps'[i].age = 0
            PROVE  effects' = IF rsps'[i].exc THEN 0 ELSE 1
        <5>1. i = Len(rsps) + 1 \/ i \in 1..Len(rsps)
          BY <1>5, <3>2, <4>1, LenProperties DEF IInv
        <5>2. i \notin 1..Len(rsps)
          BY <1>3, <1>5, <3>2, <4>1 DEF Late
        <5>3. rsps'[i].exc = exc
          BY <1>5, <3>2, <5>1, <5>2
        <5>4. QED
          BY <2>2, <5>3
      <4>2. QED
        BY <4>1 DEF Told
    <3>3. QED
      BY <1>4, <3>1, <3>2
  <2>4. Late(reqs') /\ ~Unanswered'
    BY <1>4, <2>1, LateEmpty DEF Unanswered
  <2>5. QED
    BY <1>4, <1>6, <1>7, <2>1, <2>3, <2>4 DEF OwnInv
<1>10. CASE m.age # 0
  <2>1. Late(rsps')
    BY <1>3, <1>4, <1>5, <1>10
  <2>2. Told(rsps', effects')
    BY <2>1, ToldLate
  <2>3. effects' = effects
    BY <1>4, <1>10
  <2>4. pc = "idle" => result \in Errors
    BY <1>3 DEF OwnInv
  <2>5. QED
    BY <1>3, <1>4, <1>6, <1>7, <2>1, <2>2, <2>3, <2>4 DEF OwnInv
<1>11. QED
  BY <1>9, <1>10

LEMMA OwnPeerResets ==
  ASSUME IInv, OwnInv, PeerResets
  PROVE  OwnInv'
<1>1. /\ Late(Dead(serving)) <=> Late(serving)
      /\ Len(Dead(serving)) = Len(serving)
      /\ Dead(serving) = <<>> <=> serving = <<>>
  BY LateDead DEF IInv
<1>2. /\ reqs' = <<>> /\ (serving' = <<>> \/ serving' = Dead(serving))
      /\ UNCHANGED <<pc, result, rsps, effects>>
  BY DEF PeerResets, client
<1>3. Late(reqs') /\ OwnLast(reqs')
  BY <1>2, LateEmpty
<1>4. CASE serving' = <<>>
  <2>1. Late(serving') /\ Len(serving') <= 1
    BY <1>4, LateEmpty
  <2>2. QED
    BY <1>2, <1>3, <1>4, <2>1 DEF OwnInv, Unanswered
<1>5. CASE serving' = Dead(serving)
  BY <1>1, <1>2, <1>3, <1>5 DEF OwnInv, Unanswered
<1>6. QED
  BY <1>2, <1>4, <1>5

(* A serial line damages an answer, or loses a request or an answer.       *)
LEMMA OwnDamage ==
  ASSUME IInv, OwnInv, BadCrc \/ LoseRequest \/ LoseAnswer
  PROVE  OwnInv'
<1>1. CASE BadCrc
  <2>1. /\ rsps' \in {Tail(rsps), <<>>} /\ rsps # <<>> /\ UNCHANGED <<reqs, serving, effects>>
        /\ pc' = "idle" /\ result' \in Errors
    BY <1>1 DEF BadCrc, server, Errors
  <2>2. OwnLast(rsps') /\ (Late(rsps) => Late(rsps')) /\ Told(rsps', effects')
    <3>1. CASE rsps' = Tail(rsps)
      BY <2>1, <3>1, LateTail, ToldTail DEF IInv, OwnInv
    <3>2. CASE rsps' = <<>>
      BY <3>2, LateEmpty, ToldLate
    <3>3. QED
      BY <2>1, <3>1, <3>2
  <2>3. QED
    BY <2>1, <2>2 DEF OwnInv, Unanswered
<1>2. CASE LoseRequest
  <2>1. /\ reqs' = Tail(reqs) /\ reqs # <<>>
        /\ UNCHANGED <<pc, result, serving, rsps, effects>>
    BY <1>2 DEF LoseRequest, client, server
  <2>2. OwnLast(reqs') /\ (Late(reqs) => Late(reqs'))
    BY <2>1, LateTail DEF IInv, OwnInv
  <2>3. Unanswered
    BY <2>1 DEF Unanswered
  <2>4. QED
    BY <2>1, <2>2, <2>3 DEF OwnInv
<1>3. CASE LoseAnswer
  <2>1. /\ rsps' = Tail(rsps) /\ rsps # <<>>
        /\ UNCHANGED <<pc, result, reqs, serving, effects>>
    BY <1>3 DEF LoseAnswer, client, server
  <2>2. OwnLast(rsps') /\ (Late(rsps) => Late(rsps')) /\ Told(rsps', effects')
    BY <2>1, LateTail, ToldTail DEF IInv, OwnInv
  <2>3. QED
    BY <2>1, <2>2 DEF OwnInv, Unanswered
<1>4. QED
  BY <1>1, <1>2, <1>3

LEMMA OwnStep ==
  ASSUME IInv, mode.tcp \/ InStep, OwnInv, [Next]_vars
  PROVE  OwnInv'
<1>1. CASE UNCHANGED vars
  BY <1>1 DEF OwnInv, vars, Unanswered
<1>2. CASE \E o \in Ops : Call(o)
  BY <1>2, OwnCall
<1>3. CASE SendLost
  BY <1>3 DEF SendLost, OwnInv, server, Unanswered
<1>4. CASE AppReconnect
  BY <1>4, OwnReconnect DEF AppReconnect, client
<1>5. CASE Serve
  BY <1>5, OwnTake, OwnReply DEF Serve
<1>6. CASE PeerResets
  BY <1>6, OwnPeerResets
<1>7. CASE Settle
  BY <1>7 DEF Settle, OwnInv, client, server, Unanswered
<1>8. CASE ClientStep
  BY <1>8, OwnSend, OwnSendFails, OwnAccept, OwnWait DEF ClientStep
<1>9. CASE BadCrc \/ LoseRequest \/ LoseAnswer
  BY <1>9, OwnDamage
<1>10. QED
  BY <1>1, <1>2, <1>3, <1>4, <1>5, <1>6, <1>7, <1>8, <1>9 DEF Next

-----------------------------------------------------------------------------
(* The serial line keeps in step.                                          *)
LEMMA RecentEmpty == Recent(<<>>)
BY EmptySeq DEF Recent

LEMMA RecentTail ==
  ASSUME NEW S, NEW s \in Seq(S), s # <<>>, Recent(s), OwnLast(s)
  PROVE  Tail(s) = <<>> /\ Head(s).age = 0 /\ ~Late(s)
<1>1. 1 \in 1..Len(s) /\ Head(s) = s[1]
  BY HeadTailProperties, LenProperties, EmptySeq
<1>2. s[1].age = 0
  BY <1>1 DEF Recent
<1>3. Tail(s) = <<>>
  BY <1>1, <1>2, LateTail
<1>4. QED
  BY <1>1, <1>2, <1>3 DEF Late

(* A step of the client of a serial line.                                  *)
LEMMA InStepClient ==
  ASSUME IInv, OwnInv, InStep, ClientStep \/ SendLost \/ BadCrc
  PROVE  InStep'
<1>1. CASE Send
  <2> DEFINE m == [age |-> 0, tid |-> tid, op |-> op, live |-> TRUE]
  <2>1. reqs = <<>> /\ reqs' = Append(<<>>, m) /\ pc' = "wait"
        /\ UNCHANGED <<conn, pace, mode, serving, rsps>>
    BY <1>1 DEF Send, InStep, server
  <2>2. Recent(reqs')
    BY <2>1 DEF Recent
  <2>3. QED
    BY <2>1, <2>2 DEF InStep
<1>2. CASE SendLost \/ SendFails \/ Closed
  BY <1>2 DEF SendLost, SendFails, Closed, InStep
<1>3. CASE Timeout
  BY <1>3 DEF Timeout, InStep, server
<1>4. CASE Accept \/ Mismatch \/ BadCrc
  <2>1. /\ rsps # <<>> /\ rsps' \in {Tail(rsps), <<>>}
        /\ UNCHANGED <<conn, pace, mode, reqs, serving>>
    BY <1>4 DEF Accept, Mismatch, BadCrc, server
  <2>2. Tail(rsps) = <<>> /\ ~Late(rsps)
    BY <2>1, RecentTail DEF IInv, OwnInv, InStep
  <2>3. reqs = <<>> /\ serving = <<>>
    BY <2>2 DEF OwnInv, Unanswered
  <2>4. QED
    BY <2>1, <2>2, <2>3, RecentEmpty DEF InStep
<1>5. CASE Flush
  <2>1. /\ rsps' = <<>> /\ reqs = <<>> /\ serving = <<>>
        /\ UNCHANGED <<conn, pace, mode, reqs, serving>>
    BY <1>5 DEF Flush, server, Unanswered, InStep
  <2>2. QED
    BY <2>1, RecentEmpty DEF InStep
<1>6. QED
  BY <1>1, <1>2, <1>3, <1>4, <1>5 DEF ClientStep

LEMMA InStepServer ==
  ASSUME IInv, OwnInv, InStep, Serve \/ LoseRequest \/ LoseAnswer
  PROVE  InStep'
<1>1. CASE Take
  <2>1. /\ Head(reqs).age = 0 /\ reqs' = <<>> /\ serving' = <<Head(reqs)>> /\ reqs # <<>>
        /\ UNCHANGED <<pc, conn, pace, mode, rsps>>
    BY <1>1, RecentTail DEF Take, client, IInv, OwnInv, InStep
  <2>2. Recent(serving')
    BY <2>1 DEF Recent
  <2>3. QED
    BY <2>1, <2>2, RecentEmpty DEF InStep
<1>2. ASSUME NEW exc \in BOOLEAN, Reply(exc)
      PROVE  InStep'
  <2> DEFINE m == Head(serving)
             a == [age |-> m.age, tid |-> m.tid, op |-> m.op, exc |-> exc]
  <2>1. /\ serving # <<>> /\ serving' = <<>> /\ rsps' \in {rsps, Append(rsps, a)}
        /\ UNCHANGED <<pc, conn, pace, mode, reqs>>
    BY <1>2 DEF Reply, client
  <2>2. m \in TimelyMessage(mode.tcp, tid) /\ 1 \in 1..Len(serving) /\ m = serving[1]
    BY <2>1, HeadTailProperties, LenProperties, EmptySeq DEF IInv
  <2>3. a \in TimelyAnswer(mode.tcp, tid) /\ a.age = 0
    BY <1>2, <2>2 DEF TimelyMessage, TimelyAnswer, Message, Answer, Sent, InStep, Recent
  <2>4. Recent(Append(rsps, a))
    <3> DEFINE r == Append(rsps, a)
    <3>1. /\ Len(rsps) \in Nat /\ Len(r) = Len(rsps) + 1
          /\ \A i \in 1..Len(rsps) : r[i] = rsps[i]
          /\ r[Len(rsps) + 1] = a
      BY <2>3, AppendProperties, LenProperties DEF IInv
    <3>2. \A i \in 1..Len(rsps) : r[i].age = 0
      BY <3>1 DEF InStep, Recent
    <3> HIDE DEF r, a
    <3>3. \A i \in 1..Len(r) : i \in 1..Len(rsps) \/ i = Len(rsps) + 1
      BY <3>1
    <3>4. QED
      BY <2>3, <3>1, <3>2, <3>3 DEF Recent, r
  <2>5. QED
    BY <2>1, <2>4, RecentEmpty DEF InStep
<1>3. CASE LoseRequest
  <2>1. reqs # <<>> /\ reqs' = <<>> /\ UNCHANGED <<pc, conn, pace, mode, serving, rsps>>
    BY <1>3, RecentTail DEF LoseRequest, client, server, IInv, OwnInv, InStep
  <2>2. QED
    BY <2>1, RecentEmpty DEF InStep
<1>4. CASE LoseAnswer
  <2>1. rsps # <<>> /\ rsps' = <<>> /\ UNCHANGED <<pc, conn, pace, mode, serving, reqs>>
    BY <1>4, RecentTail DEF LoseAnswer, client, server, IInv, OwnInv, InStep
  <2>2. QED
    BY <2>1, RecentEmpty DEF InStep
<1>5. QED
  BY <1>1, <1>2, <1>3, <1>4 DEF Serve

LEMMA InStepCall ==
  ASSUME IInv, InStep, NEW o \in Ops, Call(o)
  PROVE  InStep'
<1>1. reqs = <<>> /\ serving = <<>> /\ rsps = <<>> /\ Aged(<<>>) = <<>>
  BY EmptySeq DEF Call, InStep, Aged
<1>2. reqs' = <<>> /\ serving' = <<>> /\ rsps' = <<>> /\ UNCHANGED <<conn, pace, mode>>
  BY <1>1 DEF Call
<1>3. QED
  BY <1>2, RecentEmpty DEF InStep

LEMMA InStepKept ==
  ASSUME IInv, OwnInv, InStep, [Next]_vars
  PROVE  InStep'
<1>1. CASE UNCHANGED vars
  BY <1>1 DEF vars, InStep
<1>2. CASE \E o \in Ops : Call(o)
  BY <1>2, InStepCall
<1>3. CASE ClientStep \/ SendLost \/ BadCrc
  BY <1>3, InStepClient
<1>4. CASE Serve \/ LoseRequest \/ LoseAnswer
  BY <1>4, InStepServer
<1>5. CASE AppReconnect \/ PeerResets \/ Settle
  BY <1>5 DEF AppReconnect, PeerResets, Settle, InStep
<1>6. QED
  BY <1>1, <1>2, <1>3, <1>4, <1>5 DEF Next

(* What a client needs to tell its answers: identifiers, or a line that is *)
(* quiet when the sleep of link recovery ends.                             *)
TellsApart == mode.tcp \/ (mode.link /\ mode.pace = "sleep")

OneCallInv == IInv /\ OwnInv /\ (mode.tcp \/ InStep) /\ OwnAnswer

LEMMA OwnAnswerKept ==
  ASSUME OneCallInv, [Next]_vars
  PROVE  OwnAnswer'
<1>1. SUFFICES ASSUME pc' = "idle", result' \in {"ok", "exception"}
               PROVE  accepted' = 0
  BY DEF OwnAnswer, Returned
<1>2. CASE Accept
  BY <1>2, OwnAccept DEF Accept, OneCallInv
<1>3. CASE UNCHANGED <<pc, result, accepted>>
  BY <1>1, <1>3 DEF OneCallInv, OwnAnswer, Returned
<1>4. CASE Flush
  BY <1>1, <1>4 DEF Flush, OneCallInv, IInv, Errors
<1>5. CASE (\E o \in Ops : Call(o)) \/ Send \/ SendLost \/ SendFails
  BY <1>1, <1>5 DEF Call, Send, SendLost, SendFails
<1>6. CASE Timeout \/ Closed \/ Mismatch \/ BadCrc
  BY <1>1, <1>6 DEF Timeout, Closed, Mismatch, BadCrc
<1>7. CASE AppReconnect \/ Serve \/ LoseRequest \/ LoseAnswer \/ PeerResets \/ Settle
  BY <1>3, <1>7 DEF AppReconnect, Serve, Take, Reply, LoseRequest, LoseAnswer, PeerResets,
                    Settle, client
<1>8. CASE UNCHANGED vars
  BY <1>3, <1>8 DEF vars
<1>9. QED
  BY <1>2, <1>4, <1>5, <1>6, <1>7, <1>8 DEF Next, ClientStep

LEMMA OneCallInductive == Spec /\ TellsApart => []OneCallInv
<1>1. Init /\ TellsApart => OneCallInv
  <2>1. SUFFICES ASSUME Init, TellsApart PROVE OwnInv /\ (mode.tcp \/ InStep) /\ OwnAnswer
    BY InitIInv DEF OneCallInv
  <2>2. Told(rsps, effects) /\ Late(rsps) /\ Late(serving) /\ Late(reqs)
    BY <2>1, LateEmpty, ToldLate DEF Init
  <2>3. Len(serving) <= 1
    BY <2>1 DEF Init
  <2>4. OwnInv
    BY <2>1, <2>2, <2>3, LateEmpty DEF Init, OwnInv, Unanswered
  <2>5. ~mode.tcp => InStep
    BY <2>1, RecentEmpty DEF Init, InStep, TellsApart
  <2>6. OwnAnswer
    BY <2>1 DEF Init, OwnAnswer, Returned
  <2>7. QED
    BY <2>4, <2>5, <2>6
<1>2. [Next]_vars => mode' = mode
  BY DEF Next, vars, Call, Send, SendLost, SendFails, Timeout, Closed, Accept, Mismatch,
         BadCrc, Flush, AppReconnect, Take, Reply, LoseRequest, LoseAnswer, PeerResets,
         Settle, Serve, ClientStep
<1>3. OneCallInv /\ [Next]_vars => OneCallInv'
  BY <1>2, StepPreserves, OwnStep, InStepKept, OwnAnswerKept DEF OneCallInv
<1>4. QED
  BY <1>1, <1>3, PTL DEF Spec

(* Whatever the recovery modes, resets and delays, the answer a call takes *)
(* for its own is the answer to its own request: over TCP for every number *)
(* of identifiers, on a serial line with link recovery.                    *)
THEOREM AnswersOwn == Spec /\ TellsApart => []OwnAnswer
<1>1. OneCallInv => OwnAnswer
  BY DEF OneCallInv
<1>2. QED
  BY <1>1, OneCallInductive, PTL

(* A call that has returned an answer leaves no request on its way: no     *)
(* earlier write is going to take effect after it.                         *)
THEOREM QuietAfterAnswer == Spec /\ TellsApart => []QuietAfterOk
<1>1. OneCallInv => QuietAfterOk
  BY DEF OneCallInv, OwnInv, QuietAfterOk, Returned, Errors
<1>2. QED
  BY <1>1, OneCallInductive, PTL

-----------------------------------------------------------------------------
(* Every step of the whole is a step of the abstract call, or none.        *)
LEMMA ReturnsError ==
  ASSUME pc # "idle", pc' = "idle", result' \in Errors, UNCHANGED effects
  PROVE  Abstract!ReturnError
BY DEF Abstract!ReturnError

LEMMA AbstractCall ==
  ASSUME NEW o \in Ops, Call(o)
  PROVE  Abstract!Invoke
BY DEF Call, Abstract!Invoke

LEMMA AbstractAccept ==
  ASSUME OneCallInv, Accept
  PROVE  Abstract!ReturnOk \/ Abstract!ReturnException
<1>1. /\ effects = IF Head(rsps).exc THEN 0 ELSE 1
      /\ Head(rsps) \in TimelyAnswer(mode.tcp, tid)
  BY OwnAccept, FirstOfRsps DEF OneCallInv, Accept
<1>2. /\ pc = "wait" /\ pc' = "idle" /\ effects' = effects
      /\ result' = IF Head(rsps).exc THEN "exception" ELSE "ok"
  BY DEF Accept, server
<1>3. QED
  BY <1>1, <1>2 DEF Abstract!ReturnOk, Abstract!ReturnException, Errors

LEMMA AbstractWait ==
  ASSUME OneCallInv,
         \/ Send \/ SendLost \/ SendFails
         \/ Timeout \/ Closed \/ Mismatch \/ BadCrc \/ Flush
  PROVE  Abstract!ReturnError \/ UNCHANGED Abstract!callVars
<1>1. /\ pc # "idle" /\ UNCHANGED effects
      /\ pc' = "idle" => result' \in Errors
  <2>1. CASE Send \/ SendLost
    BY <2>1 DEF Send, SendLost, server
  <2>2. CASE SendFails
    BY <2>2 DEF SendFails, Errors
  <2>3. CASE Timeout \/ Mismatch \/ BadCrc
    BY <2>3 DEF Timeout, Mismatch, BadCrc, server, Errors
  <2>4. CASE Closed
    BY <2>4 DEF Closed, Errors
  <2>5. CASE Flush
    BY <2>5 DEF Flush, server, OneCallInv, IInv
  <2>6. QED
    BY <2>1, <2>2, <2>3, <2>4, <2>5
<1>2. CASE pc' # "idle"
  BY <1>1, <1>2 DEF Abstract!callVars
<1>3. CASE pc' = "idle" /\ result' \in Errors
  BY <1>1, <1>3, ReturnsError
<1>4. QED
  BY <1>1, <1>2, <1>3

(* The server carries out a request of the latest call while the call runs *)
(* or after it has failed, never after it has returned an answer.          *)
LEMMA AbstractReply ==
  ASSUME OneCallInv, NEW exc \in BOOLEAN, Reply(exc)
  PROVE  Abstract!TakeEffect \/ UNCHANGED Abstract!callVars
<1> DEFINE m == Head(serving)
<1>1. UNCHANGED <<pc, result>> /\ effects' = IF m.age = 0 /\ ~exc THEN effects + 1 ELSE effects
  BY DEF Reply, client
<1>2. CASE m.age = 0 /\ ~exc
  <2>1. 1 \in 1..Len(serving) /\ m = serving[1] /\ Unanswered
    BY HeadTailProperties, LenProperties, EmptySeq DEF OneCallInv, IInv, Reply, Unanswered
  <2>2. effects = 0
    BY <1>2, <2>1 DEF OneCallInv, OwnInv, Late
  <2>3. pc # "idle" \/ result \in Errors
    BY <2>1 DEF OneCallInv, OwnInv
  <2>4. QED
    BY <1>1, <1>2, <2>2, <2>3 DEF Abstract!TakeEffect
<1>3. CASE ~(m.age = 0 /\ ~exc)
  BY <1>1, <1>3 DEF Abstract!callVars
<1>4. QED
  BY <1>2, <1>3

LEMMA AbstractStep ==
  ASSUME OneCallInv, [Next]_vars
  PROVE  [Abstract!CallNext]_(Abstract!callVars)
<1>1. CASE UNCHANGED vars
  BY <1>1 DEF vars, Abstract!callVars
<1>2. CASE \E o \in Ops : Call(o)
  BY <1>2, AbstractCall DEF Abstract!CallNext
<1>3. CASE Accept
  BY <1>3, AbstractAccept DEF Abstract!CallNext
<1>4. CASE \/ Send \/ SendLost \/ SendFails
           \/ Timeout \/ Closed \/ Mismatch \/ BadCrc \/ Flush
  BY <1>4, AbstractWait DEF Abstract!CallNext
<1>5. CASE \E exc \in BOOLEAN : Reply(exc)
  BY <1>5, AbstractReply DEF Abstract!CallNext
<1>6. CASE \/ AppReconnect \/ Take \/ PeerResets \/ Settle
           \/ LoseRequest \/ LoseAnswer
  <2>1. UNCHANGED <<pc, result, effects>>
    BY <1>6 DEF AppReconnect, Take, PeerResets, Settle, LoseRequest, LoseAnswer, client, server
  <2>2. QED
    BY <2>1 DEF Abstract!callVars
<1>7. QED
  BY <1>1, <1>2, <1>3, <1>4, <1>5, <1>6 DEF Next, ClientStep, Serve

(* With every recovery mode and every number of identifiers the library    *)
(* keeps the promises of the abstract call, over TCP and, with link        *)
(* recovery, on a serial line: one effect at most, exactly one before a    *)
(* success, none before an exception.                                      *)
THEOREM CallImplemented == Spec /\ TellsApart => ImplementsCall
<1>1. Init => Abstract!CallInit
  BY DEF Init, Abstract!CallInit, Errors
<1>2. QED
  BY <1>1, AbstractStep, OneCallInductive, PTL DEF Spec, ImplementsCall, Abstract!CallSpec
=============================================================================
