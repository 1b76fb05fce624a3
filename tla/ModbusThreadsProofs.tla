------------------------- MODULE ModbusThreadsProofs -------------------------
(***************************************************************************)
(* An application that holds one lock during every call of the library     *)
(* gets what the library does not give by itself: two messages on a        *)
(* connection share an identifier, and a call accepts an answer that is    *)
(* not its own, only if all identifiers were given in between, for any     *)
(* number of threads, contexts and calls, with answers that come too late. *)
(***************************************************************************)
EXTENDS ModbusThreads, SequenceTheorems, TLAPS

Elements(s) == {s[i] : i \in 1..Len(s)}

(* The messages of a connection.                                           *)
OnLine(c) == Elements(reqs[c]) \union Elements(rsps[c])

(* No two messages of two queues are of the same call.                     *)
Distinct(s) == \A i, j \in 1..Len(s) : i # j => s[i].call # s[j].call

Apart(s, r) ==
  /\ Distinct(s) /\ Distinct(r)
  /\ \A i \in 1..Len(s) : \A j \in 1..Len(r) : s[i].call # r[j].call

OneCall == \A t, u \in Threads : pc[t] # "idle" /\ pc[u] # "idle" => t = u

(* A message carries the identifier that t_id++ gave to its call.          *)
Counted(m, n) == m.call \in 1..n /\ m.tid = m.call % TidMod

(* Where a call stands: it is the last that was given an identifier, which *)
(* is t_id, and no message is of this call before the request is sent.     *)
CallInv(t) ==
  /\ pc[t] # "idle" => result[t] = "none"
  /\ pc[t] \in {"store", "build"} => local[t] = t_id
  /\ pc[t] \in {"build", "send", "wait"} => number[t] = numbered /\ numbered # 0
  /\ pc[t] \in {"send", "wait"} => tid[t] = t_id
  /\ pc[t] \in {"build", "send"} => \A c \in Contexts : \A m \in OnLine(c) : m.call # numbered

LockInv ==
  /\ TypeOK
  /\ OneCall
  /\ t_id = numbered % TidMod
  /\ \A c \in Contexts : \A m \in OnLine(c) : Counted(m, numbered)
  /\ \A t \in Threads : CallInv(t)
  /\ \A c \in Contexts : Apart(reqs[c], rsps[c])
  /\ OwnAnswer

-----------------------------------------------------------------------------
(* Type correctness, with or without a lock.                               *)
LEMMA TidType == ASSUME NEW n \in Tids PROVE NextTid(n) \in Tids
BY ThreadsAssumption DEF Tids, NextTid

LEMMA QueueType ==
  ASSUME NEW s \in Seq(Message), s # <<>>
  PROVE  Head(s) \in Message /\ Tail(s) \in Seq(Message)
BY HeadTailProperties

LEMMA TypeStep ==
  ASSUME TypeOK, [Next]_vars
  PROVE  TypeOK'
<1> USE DEF TypeOK, calling, line
<1>0. ContextOf \in [Threads -> Contexts] /\ MaxCalls \in Nat
  BY ThreadsAssumption
<1>1. ASSUME NEW t \in Threads, Begin(t)
      PROVE  TypeOK'
  <2>1. calls[t] + 1 \in 0..MaxCalls
    BY <1>0, <1>1 DEF Begin
  <2>2. None \in Message /\ calls' \in [Threads -> 0..MaxCalls]
    BY <1>1, <2>1, ThreadsAssumption DEF Begin, None, Message, Tids
  <2>3. QED
    BY <1>1, <2>2 DEF Begin
<1>2. ASSUME NEW t \in Threads, Load(t)
      PROVE  TypeOK'
  BY <1>2 DEF Load, line
<1>3. ASSUME NEW t \in Threads, Store(t)
      PROVE  TypeOK'
  <2>1. NextTid(local[t]) \in Tids
    BY TidType
  <2>2. QED
    BY <1>3, <2>1 DEF Store, line
<1>4. ASSUME NEW t \in Threads, Build(t)
      PROVE  TypeOK'
  BY <1>4 DEF Build, line
<1>5. ASSUME NEW t \in Threads, Send(t)
      PROVE  TypeOK'
  <2> DEFINE m == [call |-> number[t], tid |-> tid[t]]
  <2>1. m \in Message /\ ContextOf[t] \in Contexts
    BY <1>0 DEF Message
  <2>2. Append(reqs[ContextOf[t]], m) \in Seq(Message)
    BY <2>1, AppendProperties
  <2>3. QED
    BY <1>5, <2>1, <2>2 DEF Send
<1>6. ASSUME NEW t \in Threads, Confirm(t)
      PROVE  TypeOK'
  <2> DEFINE s == rsps[ContextOf[t]]
  <2>1. ContextOf[t] \in Contexts /\ s \in Seq(Message) /\ s # <<>>
    BY <1>0, <1>6 DEF Confirm
  <2>2. Head(s) \in Message /\ Tail(s) \in Seq(Message)
    BY <2>1, QueueType
  <2>3. /\ result' \in [Threads -> {"none", "ok", "ETIMEDOUT", "EMBBADDATA"}]
        /\ answer' \in [Threads -> Message]
    BY <1>6, <2>2 DEF Confirm
  <2>4. rsps' \in [Contexts -> Seq(Message)]
    BY <1>6, <2>1, <2>2 DEF Confirm
  <2>5. QED
    BY <1>6, <2>3, <2>4 DEF Confirm
<1>7. ASSUME NEW t \in Threads, Timeout(t)
      PROVE  TypeOK'
  BY <1>0, <1>7 DEF Timeout
<1>8. ASSUME NEW c \in Contexts, Reply(c)
      PROVE  TypeOK'
  <2>1. reqs[c] \in Seq(Message) /\ rsps[c] \in Seq(Message) /\ reqs[c] # <<>>
    BY <1>8 DEF Reply
  <2>2. Head(reqs[c]) \in Message /\ Tail(reqs[c]) \in Seq(Message)
    BY <2>1, QueueType
  <2>3. Append(rsps[c], Head(reqs[c])) \in Seq(Message)
    BY <2>1, <2>2, AppendProperties
  <2>4. QED
    BY <1>8, <2>2, <2>3 DEF Reply, calling
<1>9. CASE UNCHANGED vars
  BY <1>9 DEF vars
<1>10. QED
  BY <1>1, <1>2, <1>3, <1>4, <1>5, <1>6, <1>7, <1>8, <1>9 DEF Next, Step

LEMMA TypeInit == Init => TypeOK
<1>1. 0 \in Tids /\ 0 \in 0..MaxCalls /\ None \in Message
  BY ThreadsAssumption DEF Tids, None, Message
<1>2. <<>> \in Seq(Message)
  BY EmptySeq
<1>3. QED
  BY <1>1, <1>2 DEF Init, TypeOK

(* Type correctness of the threads' state, whatever the lock.              *)
THEOREM TypeCorrect == Spec => []TypeOK
<1>1. QED
  BY TypeInit, TypeStep, PTL DEF Spec

-----------------------------------------------------------------------------
(* Queues.                                                                 *)
LEMMA TailOf ==
  ASSUME NEW s \in Seq(Message), s # <<>>
  PROVE  /\ Len(s) \in Nat \ {0} /\ Len(Tail(s)) = Len(s) - 1
         /\ \A i \in 1..Len(Tail(s)) : Tail(s)[i] = s[i + 1] /\ i + 1 \in 1..Len(s)
         /\ Head(s) = s[1] /\ 1 \in 1..Len(s)
         /\ Elements(Tail(s)) \subseteq Elements(s) /\ Head(s) \in Elements(s)
<1>1. /\ Len(s) \in Nat \ {0} /\ Len(Tail(s)) = Len(s) - 1
      /\ \A i \in 1..Len(Tail(s)) : Tail(s)[i] = s[i + 1]
  BY HeadTailProperties, EmptySeq
<1>2. Head(s) = s[1] /\ 1 \in 1..Len(s)
  BY <1>1
<1>3. \A i \in 1..Len(Tail(s)) : i + 1 \in 1..Len(s)
  BY <1>1
<1>4. QED
  BY <1>1, <1>2, <1>3 DEF Elements

LEMMA AppendOf ==
  ASSUME NEW s \in Seq(Message), NEW m \in Message
  PROVE  /\ Len(s) \in Nat /\ Len(Append(s, m)) = Len(s) + 1
         /\ \A i \in 1..Len(s) : Append(s, m)[i] = s[i]
         /\ Append(s, m)[Len(s) + 1] = m
         /\ Elements(Append(s, m)) \subseteq Elements(s) \union {m}
<1>1. /\ Len(s) \in Nat /\ Len(Append(s, m)) = Len(s) + 1
      /\ \A i \in 1..Len(s) : Append(s, m)[i] = s[i]
      /\ Append(s, m)[Len(s) + 1] = m
  BY AppendProperties, LenProperties
<1>2. \A i \in 1..Len(s) + 1 : i \in 1..Len(s) \/ i = Len(s) + 1
  BY <1>1
<1>3. QED
  BY <1>1, <1>2 DEF Elements

LEMMA ApartTail ==
  ASSUME NEW s, NEW r \in Seq(Message), r # <<>>, Apart(s, r)
  PROVE  Apart(s, Tail(r))
<1>1. /\ Len(Tail(r)) \in Nat
      /\ \A i \in 1..Len(Tail(r)) : Tail(r)[i] = r[i + 1] /\ i + 1 \in 1..Len(r)
  BY TailOf
<1>2. Distinct(Tail(r))
  <2>1. SUFFICES ASSUME NEW i \in 1..Len(Tail(r)), NEW j \in 1..Len(Tail(r)), i # j
                 PROVE  Tail(r)[i].call # Tail(r)[j].call
    BY DEF Distinct
  <2>2. i + 1 # j + 1
    BY <1>1, <2>1
  <2>3. QED
    BY <1>1, <2>2 DEF Apart, Distinct
<1>3. QED
  BY <1>1, <1>2 DEF Apart

LEMMA ApartSend ==
  ASSUME NEW s \in Seq(Message), NEW r \in Seq(Message), Apart(s, r), NEW m \in Message,
         \A x \in Elements(s) \union Elements(r) : x.call # m.call
  PROVE  Apart(Append(s, m), r)
<1>1. /\ Len(s) \in Nat /\ Len(Append(s, m)) = Len(s) + 1
      /\ \A i \in 1..Len(s) : Append(s, m)[i] = s[i]
      /\ Append(s, m)[Len(s) + 1] = m
  BY AppendOf
<1>2. \A i \in 1..Len(s) + 1 : i \in 1..Len(s) \/ i = Len(s) + 1
  BY <1>1
<1>3. /\ \A i \in 1..Len(s) : s[i].call # m.call
      /\ \A i \in 1..Len(r) : r[i].call # m.call
  BY DEF Elements
<1>4. Distinct(Append(s, m))
  BY <1>1, <1>2, <1>3 DEF Apart, Distinct
<1>5. ASSUME NEW i \in 1..Len(Append(s, m)), NEW j \in 1..Len(r)
      PROVE  Append(s, m)[i].call # r[j].call
  BY <1>1, <1>2, <1>3 DEF Apart
<1>6. QED
  BY <1>4, <1>5 DEF Apart

LEMMA ApartMove ==
  ASSUME NEW s \in Seq(Message), NEW r \in Seq(Message), s # <<>>, Apart(s, r)
  PROVE  Apart(Tail(s), Append(r, Head(s)))
<1> DEFINE h == Head(s)  a == Tail(s)  b == Append(r, h)
<1>1. /\ Len(s) \in Nat \ {0} /\ Len(a) = Len(s) - 1
      /\ \A i \in 1..Len(a) : a[i] = s[i + 1] /\ i + 1 \in 1..Len(s)
      /\ h = s[1] /\ 1 \in 1..Len(s) /\ h \in Message
  BY TailOf, QueueType
<1>2. /\ Len(r) \in Nat /\ Len(b) = Len(r) + 1
      /\ \A i \in 1..Len(r) : b[i] = r[i]
      /\ b[Len(r) + 1] = h
  BY <1>1, AppendOf
<1>3. \A i \in 1..Len(r) + 1 : i \in 1..Len(r) \/ i = Len(r) + 1
  BY <1>2
<1> HIDE DEF h, a, b
<1>4. \A i \in 1..Len(r) : r[i].call # h.call
  BY <1>1 DEF Apart
<1>5. \A i \in 1..Len(a) : a[i].call # h.call
  <2>1. SUFFICES ASSUME NEW i \in 1..Len(a) PROVE a[i].call # h.call
    OBVIOUS
  <2>2. i + 1 \in 1..Len(s) /\ i + 1 # 1
    BY <1>1
  <2>3. s[i + 1].call # s[1].call
    BY <1>1, <2>2 DEF Apart, Distinct
  <2>4. QED
    BY <1>1, <2>3
<1>6. Distinct(a)
  <2>1. SUFFICES ASSUME NEW i \in 1..Len(a), NEW j \in 1..Len(a), i # j
                 PROVE  a[i].call # a[j].call
    BY DEF Distinct
  <2>2. i + 1 # j + 1
    BY <1>1, <2>1
  <2>3. QED
    BY <1>1, <2>2 DEF Apart, Distinct
<1>7. Distinct(b)
  <2>1. SUFFICES ASSUME NEW i \in 1..Len(b), NEW j \in 1..Len(b), i # j
                 PROVE  b[i].call # b[j].call
    BY DEF Distinct
  <2>2. QED
    BY <1>2, <1>3, <1>4, <2>1 DEF Apart, Distinct
<1>8. ASSUME NEW i \in 1..Len(a), NEW j \in 1..Len(b)
      PROVE  a[i].call # b[j].call
  BY <1>1, <1>2, <1>3, <1>5 DEF Apart
<1>9. QED
  BY <1>6, <1>7, <1>8 DEF Apart, a, b, h

-----------------------------------------------------------------------------
(* The identifiers go round.                                               *)
LEMMA Division ==
  ASSUME NEW a \in Nat, NEW b \in Nat \ {0}
  PROVE  /\ a \div b \in Nat /\ a % b \in 0..(b - 1)
         /\ a = b * (a \div b) + (a % b)
<1>0. a \in Int /\ b \in Int /\ b > 0
  OBVIOUS
<1>1. a \div b \in Int /\ a % b \in 0..(b - 1)
  OBVIOUS
<1>2. a = b * (a \div b) + (a % b)
  BY <1>0
<1>3. a \div b >= 0
  <2>1. CASE a \div b <= -1
    <3>1. b * (a \div b) <= -b
      BY <1>1, <2>1
    <3>2. QED
      BY <1>1, <1>2, <3>1
  <2>2. QED
    BY <1>1, <2>1
<1>4. QED
  BY <1>1, <1>2, <1>3

(* A further round is TidMod more.                                         *)
LEMMA Product ==
  ASSUME NEW b \in Nat \ {0}, NEW k \in Nat, NEW q \in Nat, k >= q + 1
  PROVE  b * k >= b * q + b
<1>1. b * k = b * q + b * (k - q)
  OBVIOUS
<1>2. b * (k - q) >= b
  OBVIOUS
<1>3. QED
  BY <1>1, <1>2

LEMMA DivisionOf ==
  ASSUME NEW b \in Nat \ {0}, NEW q \in Nat, NEW r \in 0..(b - 1)
  PROVE  (b * q + r) % b = r
<1> DEFINE a == b * q + r  k == a \div b  m == a % b
<1>0. b * q \in Nat
  OBVIOUS
<1>1. a \in Nat
  BY <1>0
<1>2. k \in Nat /\ m \in 0..(b - 1) /\ a = b * k + m
  BY <1>1, Division
<1>3. b * k \in Nat
  BY <1>2
<1>4. a = b * q + r
  OBVIOUS
<1> HIDE DEF a, k, m
<1>5. ~(k >= q + 1)
  <2>1. SUFFICES ASSUME k >= q + 1 PROVE FALSE
    OBVIOUS
  <2>2. b * k >= b * q + b
    BY <1>2, <2>1, Product
  <2>3. QED
    BY <1>0, <1>2, <1>3, <1>4, <2>2
<1>6. ~(q >= k + 1)
  <2>1. SUFFICES ASSUME q >= k + 1 PROVE FALSE
    OBVIOUS
  <2>2. b * q >= b * k + b
    BY <1>2, <2>1, Product
  <2>3. QED
    BY <1>0, <1>2, <1>3, <1>4, <2>2
<1>7. k = q
  BY <1>2, <1>5, <1>6
<1>8. m = r
  BY <1>0, <1>2, <1>4, <1>7
<1>9. QED
  BY <1>8 DEF m, a

(* The branches of t_id++ give the number of the call in 16 bits.          *)
LEMMA NextOf ==
  ASSUME NEW n \in Nat
  PROVE  NextTid(n % TidMod) = (n + 1) % TidMod
<1> DEFINE q == n \div TidMod  r == n % TidMod
<1>0. TidMod \in Nat \ {0}
  BY ThreadsAssumption
<1>1. q \in Nat /\ r \in 0..(TidMod - 1) /\ n = TidMod * q + r
  BY <1>0, Division
<1> HIDE DEF q, r
<1>2. TidMod * q \in Nat
  BY <1>0, <1>1
<1>3. CASE r < TidMod - 1
  <2>1. r + 1 \in 0..(TidMod - 1) /\ n + 1 = TidMod * q + (r + 1)
    BY <1>0, <1>1, <1>2, <1>3
  <2>2. (n + 1) % TidMod = r + 1
    BY <1>0, <1>1, <2>1, DivisionOf
  <2>3. QED
    BY <1>3, <2>2 DEF NextTid, r
<1>4. CASE ~(r < TidMod - 1)
  <2>1. q + 1 \in Nat /\ 0 \in 0..(TidMod - 1)
    BY <1>0, <1>1
  <2>2. TidMod * (q + 1) = TidMod * q + TidMod
    BY <1>0, <1>1
  <2>3. n + 1 = TidMod * (q + 1) + 0
    BY <1>0, <1>1, <1>2, <1>4, <2>2
  <2>4. (n + 1) % TidMod = 0
    BY <1>0, <2>1, <2>3, DivisionOf
  <2>5. QED
    BY <1>4, <2>4 DEF NextTid, r
<1>5. QED
  BY <1>3, <1>4

(* Two calls with one identifier are a round apart at least.               *)
LEMMA SameIdentifier ==
  ASSUME NEW a \in Nat, NEW b \in Nat, a < b, a % TidMod = b % TidMod
  PROVE  RoundAgain(a, b)
<1> DEFINE j == a \div TidMod  k == b \div TidMod  r == a % TidMod
<1>0. TidMod \in Nat \ {0}
  BY ThreadsAssumption
<1>1. j \in Nat /\ k \in Nat /\ r \in Nat /\ a = TidMod * j + r /\ b = TidMod * k + r
  <2>1. /\ j \in Nat /\ r \in 0..(TidMod - 1) /\ a = TidMod * j + r
    BY <1>0, Division
  <2>2. k \in Nat /\ b = TidMod * k + (b % TidMod)
    BY <1>0, Division
  <2>3. b % TidMod = r
    OBVIOUS
  <2> HIDE DEF j, k, r
  <2>4. QED
    BY <1>0, <2>1, <2>2, <2>3
<1> HIDE DEF j, k, r
<1>2. TidMod * j \in Nat /\ TidMod * k \in Nat
  BY <1>0, <1>1
<1>3. ~(j = k)
  BY <1>1, <1>2
<1>4. ~(j >= k + 1)
  <2>1. SUFFICES ASSUME j >= k + 1 PROVE FALSE
    OBVIOUS
  <2>2. TidMod * j >= TidMod * k + TidMod
    BY <1>0, <1>1, <2>1, Product
  <2>3. QED
    BY <1>0, <1>1, <1>2, <2>2
<1>5. k >= j + 1
  BY <1>1, <1>3, <1>4
<1>6. TidMod * k >= TidMod * j + TidMod
  BY <1>0, <1>1, <1>5, Product
<1>7. QED
  BY <1>0, <1>1, <1>2, <1>6 DEF RoundAgain

-----------------------------------------------------------------------------
(* Under the lock a step of one thread leaves the others where they are.   *)
LEMMA Alone ==
  ASSUME LockInv, Lock = "process", NEW t \in Threads, Step(t)
  PROVE  \A u \in Threads : u # t => pc[u] = "idle"
<1>1. CASE Begin(t)
  BY <1>1 DEF Begin
<1>2. CASE pc[t] # "idle"
  BY <1>2 DEF LockInv, OneCall
<1>3. QED
  BY <1>1, <1>2 DEF Step, Load, Store, Build, Send, Confirm, Timeout

LEMMA OthersKept ==
  ASSUME TypeOK, NEW t \in Threads, \A u \in Threads : u # t => pc[u] = "idle",
         NEW x, pc' = [pc EXCEPT ![t] = x], CallInv(t)'
  PROVE  OneCall' /\ \A u \in Threads : CallInv(u)'
<1>1. \A u \in Threads : u # t => pc'[u] = "idle"
  BY DEF TypeOK
<1>2. OneCall'
  BY <1>1 DEF OneCall
<1>3. ASSUME NEW u \in Threads, u # t
      PROVE  CallInv(u)'
  BY <1>1, <1>3 DEF CallInv
<1>4. QED
  BY <1>2, <1>3

(* A step that gives no identifier, sends nothing and accepts nothing.     *)
LEMMA QuietStep ==
  ASSUME LockInv, TypeOK', Lock = "process", NEW t \in Threads, Step(t), CallInv(t)',
         NEW x, pc' = [pc EXCEPT ![t] = x],
         UNCHANGED <<numbered, t_id, reqs, rsps>>, OwnAnswer'
  PROVE  LockInv'
<1>1. \A u \in Threads : u # t => pc[u] = "idle"
  BY Alone
<1>2. OneCall' /\ \A u \in Threads : CallInv(u)'
  BY <1>1, OthersKept DEF LockInv
<1>3. QED
  BY <1>2 DEF LockInv, OnLine, Elements, Apart, Distinct, Counted

LEMMA LockBegin ==
  ASSUME LockInv, TypeOK', Lock = "process", NEW t \in Threads, Begin(t)
  PROVE  LockInv'
<1>1. /\ pc[t] = "idle" /\ pc' = [pc EXCEPT ![t] = "load"]
      /\ result' = [result EXCEPT ![t] = "none"] /\ answer' = [answer EXCEPT ![t] = None]
      /\ UNCHANGED <<t_id, local, tid, numbered, number, reqs, rsps>>
  BY DEF Begin, line
<1>2. CallInv(t)'
  BY <1>1 DEF LockInv, TypeOK, CallInv
<1>3. OwnAnswer'
  BY <1>1 DEF LockInv, TypeOK, OwnAnswer
<1>4. QED
  BY <1>1, <1>2, <1>3, QuietStep DEF Step

LEMMA LockLoad ==
  ASSUME LockInv, TypeOK', Lock = "process", NEW t \in Threads, Load(t)
  PROVE  LockInv'
<1>1. /\ pc[t] = "load" /\ pc' = [pc EXCEPT ![t] = "store"]
      /\ local' = [local EXCEPT ![t] = t_id]
      /\ UNCHANGED <<t_id, tid, result, answer, numbered, number, reqs, rsps>>
  BY DEF Load, line
<1>2. CallInv(t)'
  BY <1>1 DEF LockInv, TypeOK, CallInv
<1>3. OwnAnswer'
  BY <1>1 DEF LockInv, OwnAnswer
<1>4. QED
  BY <1>1, <1>2, <1>3, QuietStep DEF Step

LEMMA LockBuild ==
  ASSUME LockInv, TypeOK', Lock = "process", NEW t \in Threads, Build(t)
  PROVE  LockInv'
<1>1. /\ pc[t] = "build" /\ pc' = [pc EXCEPT ![t] = "send"]
      /\ tid' = [tid EXCEPT ![t] = t_id]
      /\ UNCHANGED <<t_id, local, result, answer, numbered, number, reqs, rsps>>
  BY DEF Build, line, LockInv, CallInv
<1>2. CallInv(t)'
  BY <1>1 DEF LockInv, TypeOK, CallInv, OnLine, Elements
<1>3. OwnAnswer'
  BY <1>1 DEF LockInv, OwnAnswer
<1>4. QED
  BY <1>1, <1>2, <1>3, QuietStep DEF Step

LEMMA LockTimeout ==
  ASSUME LockInv, TypeOK', Lock = "process", NEW t \in Threads, Timeout(t)
  PROVE  LockInv'
<1>1. /\ pc[t] = "wait" /\ pc' = [pc EXCEPT ![t] = "idle"]
      /\ result' = [result EXCEPT ![t] = "ETIMEDOUT"]
      /\ UNCHANGED <<t_id, local, tid, answer, numbered, number, reqs, rsps>>
  BY DEF Timeout
<1>2. CallInv(t)'
  BY <1>1 DEF LockInv, TypeOK, CallInv
<1>3. OwnAnswer'
  BY <1>1 DEF LockInv, TypeOK, OwnAnswer
<1>4. QED
  BY <1>1, <1>2, <1>3, QuietStep DEF Step

(* The identifier of a call: t_id counts one more, and no message is of    *)
(* that call.                                                              *)
LEMMA LockStore ==
  ASSUME LockInv, TypeOK', Lock = "process", NEW t \in Threads, Store(t)
  PROVE  LockInv'
<1>1. /\ pc[t] = "store" /\ pc' = [pc EXCEPT ![t] = "build"]
      /\ t_id' = NextTid(t_id) /\ local' = [local EXCEPT ![t] = t_id']
      /\ numbered' = numbered + 1 /\ number' = [number EXCEPT ![t] = numbered']
      /\ UNCHANGED <<tid, result, answer, reqs, rsps>>
  BY DEF Store, line, LockInv, CallInv
<1>2. numbered \in Nat
  BY DEF LockInv, TypeOK
<1>3. t_id' = numbered' % TidMod
  BY <1>1, <1>2, NextOf DEF LockInv
<1>4. \A c \in Contexts : OnLine(c)' = OnLine(c)
  BY <1>1 DEF OnLine, Elements
<1>5. ASSUME NEW c \in Contexts, NEW m \in OnLine(c)'
      PROVE  Counted(m, numbered') /\ m.call # numbered'
  <2>1. Counted(m, numbered)
    BY <1>4, <1>5 DEF LockInv
  <2>2. QED
    BY <1>1, <1>2, <2>1 DEF Counted
<1>6. CallInv(t)'
  <2>1. /\ pc'[t] = "build" /\ local'[t] = t_id' /\ result'[t] = "none"
        /\ number'[t] = numbered' /\ numbered' # 0
    BY <1>1, <1>2 DEF LockInv, TypeOK, CallInv
  <2>2. QED
    BY <1>5, <2>1 DEF CallInv
<1>7. OneCall' /\ \A u \in Threads : CallInv(u)'
  BY <1>1, <1>6, Alone, OthersKept DEF LockInv, Step
<1>8. OwnAnswer'
  <2>1. SUFFICES ASSUME NEW u \in Threads, result'[u] = "ok"
                 PROVE  answer'[u].call = number'[u] \/ RoundAgain(answer'[u].call, number'[u])
    BY DEF OwnAnswer
  <2>2. u # t
    BY <1>1, <2>1 DEF LockInv, CallInv
  <2>3. number'[u] = number[u] /\ answer' = answer /\ result' = result
    BY <1>1, <2>2 DEF LockInv, TypeOK
  <2>4. QED
    BY <2>1, <2>3 DEF LockInv, OwnAnswer
<1>9. (\A c \in Contexts : Apart(reqs[c], rsps[c]))'
  BY <1>1 DEF LockInv, Apart, Distinct
<1>10. QED
  BY <1>3, <1>5, <1>7, <1>8, <1>9 DEF LockInv, Counted

(* The request goes out as the only message of its call.                   *)
LEMMA LockSend ==
  ASSUME LockInv, TypeOK', Lock = "process", NEW t \in Threads, Send(t)
  PROVE  LockInv'
<1> DEFINE c0 == ContextOf[t]
           m == [call |-> number[t], tid |-> tid[t]]
<1>1. /\ pc[t] = "send" /\ pc' = [pc EXCEPT ![t] = "wait"]
      /\ reqs' = [reqs EXCEPT ![c0] = Append(@, m)]
      /\ UNCHANGED <<t_id, local, tid, result, answer, numbered, number, rsps>>
  BY DEF Send
<1>2. /\ c0 \in Contexts /\ m \in Message
      /\ reqs \in [Contexts -> Seq(Message)] /\ rsps \in [Contexts -> Seq(Message)]
  BY ThreadsAssumption DEF LockInv, TypeOK, Message
<1>3. Counted(m, numbered) /\ m.call = numbered
  <2>1. number[t] = numbered /\ numbered # 0 /\ tid[t] = t_id /\ t_id = numbered % TidMod
        /\ numbered \in Nat
    BY <1>1 DEF LockInv, TypeOK, CallInv
  <2>2. numbered \in 1..numbered
    BY <2>1
  <2>3. QED
    BY <2>1, <2>2 DEF Counted
<1>4. \A c \in Contexts : \A x \in OnLine(c) : x.call # m.call
  BY <1>1, <1>3 DEF LockInv, CallInv
<1> HIDE DEF m, c0
<1>5. ASSUME NEW c \in Contexts
      PROVE  OnLine(c)' \subseteq OnLine(c) \union {m}
  <2>1. CASE c = c0
    <3>1. reqs'[c] = Append(reqs[c], m) /\ rsps'[c] = rsps[c]
      BY <1>1, <1>2, <2>1
    <3>2. Elements(Append(reqs[c], m)) \subseteq Elements(reqs[c]) \union {m}
      BY <1>2, AppendOf
    <3>3. OnLine(c)' = Elements(Append(reqs[c], m)) \union Elements(rsps[c])
      BY <3>1 DEF OnLine, Elements
    <3>4. QED
      BY <3>2, <3>3 DEF OnLine
  <2>2. CASE c # c0
    BY <1>1, <1>2, <2>2 DEF OnLine, Elements
  <2>3. QED
    BY <2>1, <2>2
<1>6. CallInv(t)'
  BY <1>1 DEF LockInv, TypeOK, CallInv
<1>7. OneCall' /\ \A u \in Threads : CallInv(u)'
  BY <1>1, <1>6, Alone, OthersKept DEF LockInv, Step
<1>8. \A c \in Contexts : \A x \in OnLine(c)' : Counted(x, numbered')
  BY <1>1, <1>3, <1>5 DEF LockInv
<1>9. ASSUME NEW c \in Contexts
      PROVE  Apart(reqs'[c], rsps'[c])
  <2>1. Apart(reqs[c], rsps[c]) /\ rsps'[c] = rsps[c]
    BY <1>1 DEF LockInv
  <2>2. CASE c = c0
    <3>1. reqs'[c] = Append(reqs[c], m)
      BY <1>1, <1>2, <2>2
    <3>2. \A x \in Elements(reqs[c]) \union Elements(rsps[c]) : x.call # m.call
      BY <1>4 DEF OnLine
    <3>3. QED
      BY <1>2, <2>1, <3>1, <3>2, ApartSend
  <2>3. CASE c # c0
    BY <1>1, <1>2, <2>1, <2>3
  <2>4. QED
    BY <2>2, <2>3
<1>10. OwnAnswer' /\ t_id' = numbered' % TidMod
  BY <1>1 DEF LockInv, OwnAnswer
<1>11. QED
  <2>1. (\A c \in Contexts : Apart(reqs[c], rsps[c]))'
    BY <1>9 DEF Apart, Distinct
  <2>2. QED
    BY <1>7, <1>8, <1>10, <2>1 DEF LockInv, Counted

(* The message with the call's identifier is the answer to that call, or   *)
(* to one a round of identifiers ago.                                      *)
LEMMA LockConfirm ==
  ASSUME LockInv, TypeOK', Lock = "process", NEW t \in Threads, Confirm(t)
  PROVE  LockInv'
<1> DEFINE c0 == ContextOf[t]  m == Head(rsps[c0])
<1>1. /\ pc[t] = "wait" /\ pc' = [pc EXCEPT ![t] = "idle"]
      /\ rsps[c0] # <<>> /\ rsps' = [rsps EXCEPT ![c0] = Tail(@)]
      /\ UNCHANGED <<t_id, local, tid, numbered, number, reqs>>
  BY DEF Confirm
<1>2. /\ c0 \in Contexts
      /\ reqs \in [Contexts -> Seq(Message)] /\ rsps \in [Contexts -> Seq(Message)]
  BY ThreadsAssumption DEF LockInv, TypeOK
<1>3. m \in OnLine(c0) /\ Elements(Tail(rsps[c0])) \subseteq Elements(rsps[c0])
  <2>1. rsps[c0] \in Seq(Message)
    BY <1>2
  <2>2. m \in Elements(rsps[c0]) /\ Elements(Tail(rsps[c0])) \subseteq Elements(rsps[c0])
    BY <1>1, <2>1, TailOf
  <2>3. QED
    BY <2>2 DEF OnLine
<1>4. OwnAnswer'
  <2>1. \/ /\ m.tid = tid[t] /\ result' = [result EXCEPT ![t] = "ok"]
           /\ answer' = [answer EXCEPT ![t] = m]
        \/ result' = [result EXCEPT ![t] = "EMBBADDATA"] /\ answer' = answer
    BY DEF Confirm, Matches
  <2>2. m.tid = tid[t] => m.call = number[t] \/ RoundAgain(m.call, number[t])
    <3>1. Counted(m, numbered)
      BY <1>2, <1>3 DEF LockInv
    <3>2. tid[t] = numbered % TidMod /\ number[t] = numbered /\ numbered \in Nat
      BY <1>1 DEF LockInv, TypeOK, CallInv
    <3>3. m.call \in Nat /\ (m.call = numbered \/ m.call < numbered) /\ m.tid = m.call % TidMod
      BY <3>1, <3>2 DEF Counted
    <3> HIDE DEF m
    <3>4. QED
      BY <3>2, <3>3, SameIdentifier
  <2> HIDE DEF m, c0
  <2>3. SUFFICES ASSUME NEW u \in Threads, result'[u] = "ok"
                 PROVE  answer'[u].call = number'[u] \/ RoundAgain(answer'[u].call, number'[u])
    BY DEF OwnAnswer
  <2>4. CASE u = t
    BY <1>1, <2>1, <2>2, <2>3, <2>4 DEF LockInv, TypeOK
  <2>5. CASE u # t
    <3>1. result'[u] = result[u] /\ answer'[u] = answer[u]
      BY <2>1, <2>5 DEF LockInv, TypeOK
    <3>2. QED
      BY <1>1, <2>3, <3>1 DEF LockInv, OwnAnswer
  <2>6. QED
    BY <2>4, <2>5
<1> HIDE DEF m, c0
<1>5. \A c \in Contexts : OnLine(c)' \subseteq OnLine(c)
  <2>1. SUFFICES ASSUME NEW c \in Contexts PROVE OnLine(c)' \subseteq OnLine(c)
    OBVIOUS
  <2>2. OnLine(c)' = Elements(reqs[c]) \union Elements(rsps'[c])
    BY <1>1 DEF OnLine, Elements
  <2>3. rsps'[c] = rsps[c] \/ (c = c0 /\ rsps'[c] = Tail(rsps[c0]))
    BY <1>1, <1>2
  <2>4. QED
    BY <1>3, <2>2, <2>3 DEF OnLine
<1>6. CallInv(t)'
  BY <1>1 DEF LockInv, TypeOK, CallInv
<1>7. OneCall' /\ \A u \in Threads : CallInv(u)'
  BY <1>1, <1>6, Alone, OthersKept DEF LockInv, Step
<1>8. ASSUME NEW c \in Contexts
      PROVE  Apart(reqs'[c], rsps'[c])
  <2>1. Apart(reqs[c], rsps[c]) /\ reqs'[c] = reqs[c]
    BY <1>1 DEF LockInv
  <2>2. CASE c = c0
    BY <1>1, <1>2, <2>1, <2>2, ApartTail
  <2>3. CASE c # c0
    BY <1>1, <1>2, <2>1, <2>3
  <2>4. QED
    BY <2>2, <2>3
<1>9. QED
  <2>1. (\A c \in Contexts : Apart(reqs[c], rsps[c]))'
    BY <1>8 DEF Apart, Distinct
  <2>2. \A c \in Contexts : \A x \in OnLine(c)' : Counted(x, numbered')
    BY <1>1, <1>5 DEF LockInv
  <2>3. t_id' = numbered' % TidMod
    BY <1>1 DEF LockInv
  <2>4. QED
    BY <1>4, <1>7, <2>1, <2>2, <2>3 DEF LockInv, Counted

(* The server's answer has the identifier of the request it takes away.    *)
LEMMA LockReply ==
  ASSUME LockInv, TypeOK', NEW c0 \in Contexts, Reply(c0)
  PROVE  LockInv'
<1> DEFINE h == Head(reqs[c0])
<1>1. /\ reqs[c0] # <<>> /\ reqs' = [reqs EXCEPT ![c0] = Tail(@)]
      /\ rsps' = [rsps EXCEPT ![c0] = Append(@, h)]
      /\ UNCHANGED <<t_id, pc, local, tid, result, answer, numbered, number>>
  BY DEF Reply, calling
<1>2. reqs \in [Contexts -> Seq(Message)] /\ rsps \in [Contexts -> Seq(Message)]
  BY DEF LockInv, TypeOK
<1>3. /\ Elements(Tail(reqs[c0])) \subseteq Elements(reqs[c0])
      /\ Elements(Append(rsps[c0], h)) \subseteq Elements(rsps[c0]) \union Elements(reqs[c0])
  <2>1. reqs[c0] \in Seq(Message) /\ rsps[c0] \in Seq(Message)
    BY <1>2
  <2>2. Elements(Tail(reqs[c0])) \subseteq Elements(reqs[c0]) /\ h \in Elements(reqs[c0])
    BY <1>1, <2>1, TailOf
  <2>3. h \in Message
    BY <1>1, <2>1, QueueType
  <2> HIDE DEF h
  <2>4. Elements(Append(rsps[c0], h)) \subseteq Elements(rsps[c0]) \union {h}
    BY <2>1, <2>3, AppendOf
  <2>5. QED
    BY <2>2, <2>4
<1>4. \A c \in Contexts : OnLine(c)' \subseteq OnLine(c)
  <2>1. SUFFICES ASSUME NEW c \in Contexts PROVE OnLine(c)' \subseteq OnLine(c)
    OBVIOUS
  <2> HIDE DEF h
  <2>2. OnLine(c)' = Elements(reqs'[c]) \union Elements(rsps'[c])
    BY DEF OnLine, Elements
  <2>3. CASE c = c0
    <3>1. reqs'[c] = Tail(reqs[c0]) /\ rsps'[c] = Append(rsps[c0], h)
      BY <1>1, <1>2, <2>3
    <3>2. QED
      BY <1>3, <2>2, <2>3, <3>1 DEF OnLine
  <2>4. CASE c # c0
    <3>1. reqs'[c] = reqs[c] /\ rsps'[c] = rsps[c]
      BY <1>1, <1>2, <2>4
    <3>2. QED
      BY <2>2, <3>1 DEF OnLine
  <2>5. QED
    BY <2>3, <2>4
<1>5. ASSUME NEW u \in Threads
      PROVE  CallInv(u)'
  BY <1>1, <1>4 DEF LockInv, CallInv
<1>6. ASSUME NEW c \in Contexts
      PROVE  Apart(reqs'[c], rsps'[c])
  <2>1. Apart(reqs[c], rsps[c])
    BY DEF LockInv
  <2>2. CASE c = c0
    <3>1. reqs'[c] = Tail(reqs[c]) /\ rsps'[c] = Append(rsps[c], Head(reqs[c]))
      BY <1>1, <1>2, <2>2
    <3>2. QED
      BY <1>1, <1>2, <2>1, <2>2, <3>1, ApartMove
  <2>3. CASE c # c0
    BY <1>1, <1>2, <2>1, <2>3
  <2>4. QED
    BY <2>2, <2>3
<1>7. QED
  <2>1. (\A c \in Contexts : Apart(reqs[c], rsps[c]))'
    BY <1>6 DEF Apart, Distinct
  <2>2. \A c \in Contexts : \A x \in OnLine(c)' : Counted(x, numbered')
    BY <1>1, <1>4 DEF LockInv
  <2>3. t_id' = numbered' % TidMod /\ OneCall' /\ OwnAnswer'
    BY <1>1 DEF LockInv, OneCall, OwnAnswer
  <2>4. QED
    BY <1>5, <2>1, <2>2, <2>3 DEF LockInv, Counted

LEMMA LockStutter ==
  ASSUME LockInv, UNCHANGED vars
  PROVE  LockInv'
<1>1. UNCHANGED <<t_id, pc, local, tid, result, answer, reqs, rsps, numbered, number>>
  BY DEF vars, calling, line
<1>2. \A c \in Contexts : OnLine(c)' = OnLine(c)
  BY <1>1 DEF OnLine, Elements
<1>3. TypeOK' /\ OneCall' /\ OwnAnswer' /\ t_id' = numbered' % TidMod
  BY <1>1, TypeStep DEF LockInv, OneCall, OwnAnswer
<1>4. \A c \in Contexts : \A m \in OnLine(c)' : Counted(m, numbered')
  BY <1>1, <1>2 DEF LockInv
<1>5. ASSUME NEW u \in Threads
      PROVE  CallInv(u)'
  BY <1>1, <1>2 DEF LockInv, CallInv
<1>6. (\A c \in Contexts : Apart(reqs[c], rsps[c]))'
  BY <1>1 DEF LockInv, Apart, Distinct
<1>7. QED
  BY <1>3, <1>4, <1>5, <1>6 DEF LockInv, Counted

LEMMA LockInit == Init => LockInv
<1> SUFFICES ASSUME Init PROVE LockInv
  OBVIOUS
<1>1. numbered = 0 /\ t_id = 0 % TidMod
  BY ThreadsAssumption DEF Init
<1>2. Len(<<>>) = 0 /\ Elements(<<>>) = {}
  BY EmptySeq DEF Elements
<1>3. \A c \in Contexts : reqs[c] = <<>> /\ rsps[c] = <<>>
  BY DEF Init
<1>4. \A c \in Contexts : OnLine(c) = {}
  BY <1>2, <1>3 DEF OnLine
<1>5. Apart(<<>>, <<>>)
  BY <1>2 DEF Apart, Distinct
<1>6. \A t \in Threads : CallInv(t)
  BY DEF Init, CallInv
<1>7. OneCall /\ OwnAnswer
  BY DEF Init, OneCall, OwnAnswer
<1>8. QED
  BY TypeInit, <1>1, <1>3, <1>4, <1>5, <1>6, <1>7 DEF LockInv

LEMMA LockInductive == Spec /\ Lock = "process" => []LockInv
<1>1. LockInv /\ Lock = "process" /\ [Next]_vars => LockInv'
  <2> SUFFICES ASSUME LockInv, Lock = "process", [Next]_vars PROVE LockInv'
    OBVIOUS
  <2>1. TypeOK'
    BY TypeStep DEF LockInv
  <2>2. ASSUME NEW t \in Threads, Step(t)
        PROVE  LockInv'
    BY <2>1, <2>2, LockBegin, LockLoad, LockStore, LockBuild, LockSend, LockConfirm,
       LockTimeout DEF Step
  <2>3. ASSUME NEW c \in Contexts, Reply(c)
        PROVE  LockInv'
    BY <2>1, <2>3, LockReply
  <2>4. CASE UNCHANGED vars
    BY <2>4, LockStutter
  <2>5. QED
    BY <2>2, <2>3, <2>4 DEF Next
<1>2. Lock = "process" => [](Lock = "process")
  OBVIOUS
<1>3. QED
  BY <1>1, <1>2, LockInit, PTL DEF Spec

-----------------------------------------------------------------------------
LEMMA Joined ==
  ASSUME NEW s \in Seq(Message), NEW r \in Seq(Message), NEW i \in 1..Len(s \o r)
  PROVE  (s \o r)[i] \in Elements(s) \union Elements(r)
<1>1. /\ Len(s) \in Nat /\ Len(r) \in Nat /\ Len(s \o r) = Len(s) + Len(r)
      /\ (s \o r)[i] = IF i <= Len(s) THEN s[i] ELSE r[i - Len(s)]
  BY ConcatProperties, LenProperties
<1>2. CASE i <= Len(s)
  BY <1>1, <1>2 DEF Elements
<1>3. CASE ~(i <= Len(s))
  <2>1. i - Len(s) \in 1..Len(r)
    BY <1>1, <1>3
  <2>2. QED
    BY <1>1, <1>3, <2>1 DEF Elements
<1>4. QED
  BY <1>2, <1>3

LEMMA ApartUnique ==
  ASSUME NEW s \in Seq(Message), NEW r \in Seq(Message), Apart(s, r)
  PROVE  \A i, j \in 1..Len(s \o r) : i # j => (s \o r)[i].call # (s \o r)[j].call
<1> DEFINE q == s \o r
<1>1. /\ Len(s) \in Nat /\ Len(r) \in Nat /\ Len(q) = Len(s) + Len(r)
      /\ \A i \in 1..Len(q) : q[i] = IF i <= Len(s) THEN s[i] ELSE r[i - Len(s)]
  BY ConcatProperties, LenProperties
<1> HIDE DEF q
<1>2. SUFFICES ASSUME NEW i \in 1..Len(q), NEW j \in 1..Len(q), i # j
               PROVE  q[i].call # q[j].call
  BY DEF q
<1>3. CASE i <= Len(s) /\ j <= Len(s)
  <2>1. q[i] = s[i] /\ q[j] = s[j] /\ i \in 1..Len(s) /\ j \in 1..Len(s)
    BY <1>1, <1>2, <1>3
  <2>2. QED
    BY <1>2, <2>1 DEF Apart, Distinct
<1>4. CASE i <= Len(s) /\ ~(j <= Len(s))
  <2>1. q[i] = s[i] /\ q[j] = r[j - Len(s)] /\ i \in 1..Len(s) /\ j - Len(s) \in 1..Len(r)
    BY <1>1, <1>2, <1>4
  <2>2. QED
    BY <2>1 DEF Apart
<1>5. CASE ~(i <= Len(s)) /\ j <= Len(s)
  <2>1. q[i] = r[i - Len(s)] /\ q[j] = s[j] /\ i - Len(s) \in 1..Len(r) /\ j \in 1..Len(s)
    BY <1>1, <1>2, <1>5
  <2>2. QED
    BY <2>1 DEF Apart
<1>6. CASE ~(i <= Len(s)) /\ ~(j <= Len(s))
  <2>1. /\ q[i] = r[i - Len(s)] /\ q[j] = r[j - Len(s)]
        /\ i - Len(s) \in 1..Len(r) /\ j - Len(s) \in 1..Len(r) /\ i - Len(s) # j - Len(s)
    BY <1>1, <1>2, <1>6
  <2>2. QED
    BY <2>1 DEF Apart, Distinct
<1>7. QED
  BY <1>3, <1>4, <1>5, <1>6

(* With a lock around every call, however often the 16 bits wrap, two      *)
(* messages on a connection have the same transaction identifier only if   *)
(* all identifiers were given between their calls; without a lock the      *)
(* static counter does not give even that.                                 *)
THEOREM IdentifiersUnique == Spec /\ Lock = "process" => []UniqueTid
<1>1. LockInv => UniqueTid
  <2>1. SUFFICES ASSUME LockInv, NEW c \in Contexts,
                        NEW i \in 1..Len(Outstanding(c)), NEW j \in 1..Len(Outstanding(c)),
                        i # j, Outstanding(c)[i].tid = Outstanding(c)[j].tid
                 PROVE  \/ RoundAgain(Outstanding(c)[i].call, Outstanding(c)[j].call)
                        \/ RoundAgain(Outstanding(c)[j].call, Outstanding(c)[i].call)
    BY DEF UniqueTid
  <2>2. reqs[c] \in Seq(Message) /\ rsps[c] \in Seq(Message) /\ Apart(reqs[c], rsps[c])
    BY <2>1 DEF LockInv, TypeOK
  <2>3. Outstanding(c)[i] \in OnLine(c) /\ Outstanding(c)[j] \in OnLine(c)
    BY <2>1, <2>2, Joined DEF Outstanding, OnLine
  <2> DEFINE m == Outstanding(c)[i]  n == Outstanding(c)[j]
  <2>4. m.call # n.call /\ m.tid = n.tid
    BY <2>1, <2>2, ApartUnique DEF Outstanding
  <2>5. Counted(m, numbered) /\ Counted(n, numbered) /\ numbered \in Nat
    BY <2>1, <2>3 DEF LockInv, TypeOK
  <2> HIDE DEF m, n
  <2>6. /\ m.call \in Nat /\ n.call \in Nat /\ (m.call < n.call \/ n.call < m.call)
        /\ m.call % TidMod = n.call % TidMod
    <3>1. m.call \in Nat /\ n.call \in Nat
      BY <2>5 DEF Counted
    <3>2. m.call < n.call \/ n.call < m.call
      BY <2>4, <3>1
    <3>3. QED
      BY <2>4, <2>5, <3>1, <3>2 DEF Counted
  <2>7. RoundAgain(m.call, n.call) \/ RoundAgain(n.call, m.call)
    BY <2>6, SameIdentifier
  <2>8. QED
    BY <2>7 DEF m, n
<1>2. QED
  BY <1>1, LockInductive, PTL

(* With a lock around every call the answer a call accepts is its own,     *)
(* even when answers of calls that timed out arrive later, unless later by *)
(* a whole round of identifiers: other threads' calls cannot come between  *)
(* the request and its answer.                                             *)
THEOREM LockedOwnAnswer == Spec /\ Lock = "process" => []OwnAnswer
<1>1. LockInv => OwnAnswer
  BY DEF LockInv
<1>2. QED
  BY <1>1, LockInductive, PTL
=============================================================================
