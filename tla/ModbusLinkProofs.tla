-------------------------- MODULE ModbusLinkProofs --------------------------
(***************************************************************************)
(* For any number of contexts and descriptors: modbus_connect of a TCP or  *)
(* RTU context returns 0 only for a connection of its own; and where every *)
(* context is one of these and only RTU recovers its link, an application  *)
(* that closes what it has connected never touches the connection of       *)
(* another context.  (With link recovery over TCP, and with TCP PI, TLC    *)
(* finds it doing so.)                                                     *)
(***************************************************************************)
EXTENDS ModbusLink, TLAPS

Holds(c) == IsOpen(c) /\ table[s[c]].by = c

Table == [Descriptors -> {Free} \union [by : Contexts, peer : BOOLEAN]]

-----------------------------------------------------------------------------
(* Types.                                                                  *)

LEMMA Outcomes ==
  ASSUME TypeOK, NEW c \in Contexts, NEW t \in Table,
         NEW o \in Established(c, t) \union Failed(c, t)
  PROVE  o.s \in Descriptors \union {-1} /\ o.rc \in {"0", "-1", EAI} /\ o.table \in Table
<1>1. CASE o \in Established(c, t)
  <2>1. PICK d \in Lowest(t) :
          o = [s |-> d, table |-> [t EXCEPT ![d] = Entry(c)], rc |-> "0"]
    BY <1>1 DEF Established
  <2>2. d \in Descriptors /\ Entry(c) \in [by : Contexts, peer : BOOLEAN]
    BY <2>1 DEF Lowest, Entry
  <2>3. QED
    BY <2>1, <2>2 DEF Table
<1>2. CASE o \in TcpFailed(c, t)
  BY <1>2 DEF TcpFailed, NoSocket, Lowest
<1>3. CASE o \in PiFailed(c, t)
  BY <1>3 DEF PiFailed, TypeOK
<1>4. CASE o \in RtuFailed(t)
  BY <1>4 DEF RtuFailed, NoSocket
<1>5. QED
  BY <1>1, <1>2, <1>3, <1>4 DEF Failed

LEMMA ClosedTableType ==
  ASSUME TypeOK, NEW c \in Contexts
  PROVE  ClosedTable(c) \in Table
BY DEF TypeOK, ClosedTable, IsOpen, Table

LEMMA ThroughType ==
  ASSUME TypeOK, NEW c \in Contexts, NEW what \in {"send", "wait", "close"},
         Through(c, what)
  PROVE  foreign' \subseteq {"send", "wait", "close"}
BY DEF TypeOK, Through

LEMMA ReconnectType ==
  ASSUME TypeOK, NEW c \in Contexts,
         NEW outcomes \in SUBSET (Established(c, ClosedTable(c)) \union Failed(c, ClosedTable(c))),
         Reconnect(c, outcomes)
  PROVE  /\ s' \in [Contexts -> Descriptors \union {-1}] /\ table' \in Table
         /\ foreign' \subseteq {"send", "wait", "close"}
         /\ UNCHANGED <<kinds, connected, last, closed>>
<1>1. PICK o \in outcomes : s' = [s EXCEPT ![c] = o.s] /\ table' = o.table
  BY DEF Reconnect
<1>2. o.s \in Descriptors \union {-1} /\ o.table \in Table
  BY <1>1, ClosedTableType, Outcomes
<1>3. foreign' \subseteq {"send", "wait", "close"}
  BY ThroughType DEF Reconnect
<1>4. QED
  BY <1>1, <1>2, <1>3 DEF Reconnect, TypeOK

LEMMA ConnectTypes ==
  ASSUME TypeOK, NEW c \in Contexts, Connect(c)
  PROVE  TypeOK'
<1>1. PICK o \in Established(c, table) \union Failed(c, table) :
        /\ s' = [s EXCEPT ![c] = o.s] /\ table' = o.table
        /\ last' = [ctx |-> c, rc |-> o.rc]
        /\ connected' = IF o.rc = "0" THEN connected \union {c} ELSE connected
  BY DEF Connect
<1>2. table \in Table
  BY DEF TypeOK, Table
<1>3. o.s \in Descriptors \union {-1} /\ o.rc \in {"0", "-1", EAI} /\ o.table \in Table
  BY <1>1, <1>2, Outcomes
<1>4. UNCHANGED <<kinds, pc, foreign, closed>>
  BY DEF Connect
<1>5. s' \in [Contexts -> Descriptors \union {-1}] /\ connected' \subseteq Contexts
  BY <1>1, <1>3 DEF TypeOK
<1>6. QED
  BY <1>1, <1>3, <1>4, <1>5 DEF TypeOK, Table, kinds

LEMMA PeerClosesTypes ==
  ASSUME TypeOK, NEW d \in Descriptors, PeerCloses(d)
  PROVE  /\ TypeOK'
         /\ table'[d].by = table[d].by /\ table'[d] # Free
         /\ \A e \in Descriptors \ {d} : table'[e] = table[e]
<1>1. /\ table[d] \in [by : Contexts, peer : BOOLEAN]
      /\ table' = [table EXCEPT ![d] = [by |-> table[d].by, peer |-> FALSE]]
      /\ UNCHANGED <<kinds, s, pc, connected, last, foreign>>
  BY DEF PeerCloses, TypeOK
<1>2. closed' \in 0..MaxClosed
  BY ContextsAssumption DEF PeerCloses, TypeOK
<1>3. /\ table'[d] = [by |-> table[d].by, peer |-> FALSE]
      /\ \A e \in Descriptors \ {d} : table'[e] = table[e]
  BY <1>1 DEF TypeOK
<1>4. /\ table'[d] \in [by : Contexts, peer : BOOLEAN]
      /\ table'[d].by = table[d].by
  BY <1>1, <1>3
<1>5. table'[d] # Free
  BY <1>4, ContextsAssumption DEF Free
<1>6. table' \in Table
  BY <1>1, <1>3, <1>4 DEF TypeOK, Table
<1>7. QED
  BY <1>1, <1>2, <1>3, <1>4, <1>5, <1>6 DEF TypeOK, Table, kinds

LEMMA TypeStep ==
  ASSUME TypeOK, [Next]_vars
  PROVE  TypeOK'
<1>1. ASSUME NEW c \in Contexts, Connect(c)
      PROVE  TypeOK'
  BY <1>1, ConnectTypes
<1>2. ASSUME NEW c \in Contexts, Close(c)
      PROVE  TypeOK'
  <2>1. foreign' \subseteq {"send", "wait", "close"}
    BY <1>2, ThroughType DEF Close
  <2>2. QED
    BY <1>2, <2>1, ClosedTableType DEF Close, TypeOK, Table, kinds, NoConnect
<1>3. ASSUME NEW c \in Contexts, Call(c)
      PROVE  TypeOK'
  BY <1>3 DEF Call, TypeOK, kinds, NoConnect
<1>4. ASSUME NEW c \in Contexts, Send(c) \/ SendFails(c) \/ Return(c)
      PROVE  TypeOK'
  <2>1. foreign' \subseteq {"send", "wait", "close"}
    BY <1>4, ThroughType DEF Send, SendFails, Return
  <2>2. /\ pc' \in {[pc EXCEPT ![c] = "idle"], [pc EXCEPT ![c] = "wait"]}
        /\ UNCHANGED <<kinds, s, table, connected, last, closed>>
    BY <1>4 DEF Send, SendFails, Return
  <2>3. QED
    BY <2>1, <2>2 DEF TypeOK, kinds
<1>5. ASSUME NEW c \in Contexts, SendRecovers(c) \/ SendStaysDown(c)
      PROVE  TypeOK'
  <2>1. /\ UNCHANGED <<kinds, pc>>
        /\ \/ Reconnect(c, Established(c, ClosedTable(c)))
           \/ Reconnect(c, Failed(c, ClosedTable(c)))
    BY <1>5 DEF SendRecovers, SendStaysDown
  <2>2. QED
    BY <2>1, ReconnectType DEF TypeOK, Table, kinds
<1>6. ASSUME NEW c \in Contexts, Broken(c)
      PROVE  TypeOK'
  <2>1. pc' = [pc EXCEPT ![c] = "idle"]
    BY <1>6 DEF Broken
  <2>2. CASE Reconnect(c, Established(c, ClosedTable(c)) \union Failed(c, ClosedTable(c)))
    BY <2>1, <2>2, ReconnectType DEF TypeOK, Table, kinds
  <2>3. CASE Through(c, "wait") /\ UNCHANGED <<kinds, s, table, connected, last, closed>>
    BY <2>1, <2>3, ThroughType DEF TypeOK, kinds
  <2>4. QED
    BY <1>6, <2>2, <2>3 DEF Broken
<1>7. ASSUME NEW d \in Descriptors, PeerCloses(d)
      PROVE  TypeOK'
  BY <1>7, PeerClosesTypes
<1>8. CASE UNCHANGED vars
  BY <1>8 DEF vars, kinds, TypeOK
<1>9. QED
  BY <1>1, <1>2, <1>3, <1>4, <1>5, <1>6, <1>7, <1>8 DEF Next, Step, SendSpins

LEMMA TypeInit == Init => TypeOK
<1>1. SUFFICES ASSUME Init PROVE TypeOK
  OBVIOUS
<1>2. 0 \in 0..MaxClosed
  BY ContextsAssumption
<1>3. kind \in [Contexts -> Kinds]
  BY <1>1 DEF Init, Kinds
<1>4. QED
  BY <1>1, <1>2, <1>3 DEF Init, TypeOK

(* Every variable keeps its type, whatever backends the contexts have and  *)
(* whichever of them recover their link.                                   *)
THEOREM TypeCorrect == Spec => []TypeOK
BY TypeInit, TypeStep, PTL DEF Spec

-----------------------------------------------------------------------------
(* What modbus_connect reports.  The report is forgotten when the next     *)
(* call of the library begins, so that it is about the table as it is.     *)
Reported ==
  last.rc = "0" => NoCall /\ (kind[last.ctx] # "pi" => Holds(last.ctx))

LEMMA ReportedStep ==
  ASSUME TypeOK, Reported, [Next]_vars
  PROVE  Reported'
<1>1. ASSUME NEW c \in Contexts, Connect(c)
      PROVE  Reported'
  <2>1. PICK o \in Established(c, table) \union Failed(c, table) :
          /\ s' = [s EXCEPT ![c] = o.s] /\ table' = o.table
          /\ last' = [ctx |-> c, rc |-> o.rc]
    BY <1>1 DEF Connect
  <2>2. NoCall' /\ UNCHANGED kinds
    BY <1>1 DEF Connect, NoCall
  <2>3. CASE o \in Established(c, table)
    <3>1. PICK d \in Lowest(table) :
            o = [s |-> d, table |-> [table EXCEPT ![d] = Entry(c)], rc |-> "0"]
      BY <2>3 DEF Established
    <3>2. d \in Descriptors /\ s'[c] = d /\ table'[d] = Entry(c)
      BY <2>1, <3>1 DEF Lowest, TypeOK
    <3>3. Entry(c) # Free /\ Entry(c).by = c
      BY ContextsAssumption DEF Entry, Free
    <3>4. QED
      BY <2>1, <2>2, <3>2, <3>3 DEF Reported, Holds, IsOpen
  <2>4. CASE o \in TcpFailed(c, table)
    BY <2>1, <2>4 DEF TcpFailed, NoSocket, Reported
  <2>5. CASE o \in RtuFailed(table)
    BY <2>1, <2>5 DEF RtuFailed, NoSocket, Reported
  <2>6. CASE kind[c] = "pi"
    BY <2>1, <2>2, <2>6 DEF Reported, kinds
  <2>7. QED
    BY <2>1, <2>3, <2>4, <2>5, <2>6 DEF Failed
<1>2. ASSUME NEW c \in Contexts, Close(c) \/ Call(c)
      PROVE  Reported'
  BY <1>2 DEF Close, Call, NoConnect, Reported
<1>3. ASSUME NEW c \in Contexts, pc[c] # "idle", last' = last
      PROVE  Reported'
  BY <1>3 DEF Reported, NoCall
<1>4. ASSUME NEW d \in Descriptors, PeerCloses(d)
      PROVE  Reported'
  <2>1. table'[d] # Free /\ table'[d].by = table[d].by /\ table[d] # Free
        /\ \A e \in Descriptors \ {d} : table'[e] = table[e]
    BY <1>4, PeerClosesTypes DEF PeerCloses
  <2>2. UNCHANGED <<kinds, s, pc, last>>
    BY <1>4 DEF PeerCloses
  <2>3. QED
    BY <2>1, <2>2 DEF Reported, NoCall, Holds, IsOpen, kinds
<1>5. CASE UNCHANGED vars
  BY <1>5 DEF vars, kinds, Reported, NoCall, Holds, IsOpen
<1>6. ASSUME NEW c \in Contexts,
             \/ Send(c) \/ SendFails(c) \/ SendRecovers(c) \/ SendStaysDown(c)
             \/ Return(c) \/ Broken(c)
      PROVE  pc[c] # "idle" /\ last' = last
  BY <1>6 DEF Send, SendFails, SendRecovers, SendStaysDown, Reconnects, SendFailing,
    Return, Broken, Reconnect
<1>7. QED
  BY <1>1, <1>2, <1>3, <1>4, <1>5, <1>6 DEF Next, Step, SendSpins

(* A modbus_connect of a TCP or RTU context that returned 0 has left an    *)
(* open connection of its own in ctx->s, whatever all contexts did before. *)
THEOREM ConnectTruthful == Spec => []PlainConnectReports
<1>1. Init => TypeOK /\ Reported
  BY TypeInit DEF Init, NoConnect, Reported
<1>2. TypeOK /\ Reported /\ [Next]_vars => (TypeOK /\ Reported)'
  BY TypeStep, ReportedStep
<1>3. TypeOK /\ Reported => PlainConnectReports
  BY DEF Reported, PlainConnectReports, ConnectReports, Holds
<1>4. QED
  BY <1>1, <1>2, <1>3, PTL DEF Spec

-----------------------------------------------------------------------------
(* Every open descriptor is the one of a connected context, and a          *)
(* connected context holds its own open descriptor, or -1 while RTU has    *)
(* failed to reconnect.                                                    *)
Plain == NoPi /\ \A c \in link : kind[c] = "rtu"

Holder(c) == s[c] = -1 \/ Holds(c)

Apart ==
  /\ foreign = {}
  /\ \A c \in connected : Holder(c)
  /\ \A d \in Descriptors :
       table[d] # Free => table[d].by \in connected /\ s[table[d].by] = d
  /\ \A c \in Contexts : pc[c] # "idle" => c \in connected

(* A table without any descriptor of c, in which the other contexts have   *)
(* what they had.                                                          *)
Without(c, t) ==
  /\ t \in Table
  /\ \A d \in Descriptors : t[d] # Free => t[d] = table[d] /\ t[d].by # c
  /\ \A x \in connected \ {c} : Holds(x) => t[s[x]] = table[s[x]]

LEMMA NotMinusOne == -1 \notin Descriptors
BY ContextsAssumption

(* A descriptor that c gets from such a table, and a failure, both leave   *)
(* the contexts apart.                                                     *)
LEMMA OutcomeApart ==
  ASSUME TypeOK, Apart, NEW c \in Contexts, NEW t, Without(c, t),
         NEW o \in Established(c, t) \union TcpFailed(c, t) \union RtuFailed(t),
         s' = [s EXCEPT ![c] = o.s], table' = o.table,
         \/ o.rc = "0" /\ connected' = connected \union {c}
         \/ o.s = -1 /\ connected' = connected
         \/ c \notin connected /\ o.rc # "0" /\ connected' = connected
  PROVE  /\ \A x \in connected' : Holder(x)'
         /\ \A d \in Descriptors :
              table'[d] # Free => table'[d].by \in connected' /\ s'[table'[d].by] = d
<1>1. \A x \in Contexts \ {c} : s'[x] = s[x]
  BY DEF TypeOK
<1>2. CASE o \in TcpFailed(c, t) \union RtuFailed(t)
  <2>1. table' = t /\ connected' = connected /\ o.rc # "0"
    BY <1>2 DEF TcpFailed, RtuFailed, NoSocket
  <2>2. ASSUME NEW x \in connected'
        PROVE  Holder(x)'
    <3>1. CASE x = c
      <4>1. s'[c] = -1
        BY <2>1, <2>2, <3>1 DEF TypeOK
      <4>2. QED
        BY <3>1, <4>1 DEF Holder
    <3>2. CASE x # c
      <4>1. s'[x] = s[x] /\ Holder(x)
        BY <1>1, <2>1, <2>2, <3>2 DEF Apart, TypeOK
      <4>2. Holds(x) => table'[s'[x]] = table[s[x]]
        BY <2>1, <2>2, <3>2, <4>1 DEF Without
      <4>3. QED
        BY <4>1, <4>2 DEF Holder, Holds, IsOpen
    <3>3. QED
      BY <3>1, <3>2
  <2>3. ASSUME NEW d \in Descriptors, table'[d] # Free
        PROVE  table'[d].by \in connected' /\ s'[table'[d].by] = d
    <3>1. table'[d] = table[d] /\ table[d].by # c /\ table[d] # Free
      BY <2>1, <2>3 DEF Without
    <3>2. table[d].by \in connected /\ s[table[d].by] = d
      BY <3>1 DEF Apart
    <3>3. QED
      BY <1>1, <2>1, <3>1, <3>2 DEF TypeOK
  <2>4. QED
    BY <2>2, <2>3
<1>3. CASE o \in Established(c, t)
  <2>1. PICK n \in Lowest(t) :
          o = [s |-> n, table |-> [t EXCEPT ![n] = Entry(c)], rc |-> "0"]
    BY <1>3 DEF Established
  <2>2. n \in Descriptors /\ t[n] = Free /\ n # -1
    BY NotMinusOne DEF Lowest
  <2>3. s'[c] = n /\ connected' = connected \union {c}
    BY <2>1, <2>2 DEF TypeOK
  <2>4. table'[n] = Entry(c) /\ \A d \in Descriptors \ {n} : table'[d] = t[d]
    BY <2>1, <2>2 DEF Without, Table
  <2>5. Entry(c) # Free /\ Entry(c).by = c
    BY ContextsAssumption DEF Entry, Free
  <2>6. ASSUME NEW x \in connected'
        PROVE  Holder(x)'
    <3>1. CASE x = c
      BY <2>2, <2>3, <2>4, <2>5, <3>1 DEF Holder, Holds, IsOpen
    <3>2. CASE x # c
      <4>1. x \in connected /\ s'[x] = s[x] /\ Holder(x)
        BY <1>1, <2>3, <2>6, <3>2 DEF Apart, TypeOK
      <4>2. Holds(x) => s[x] # n /\ t[s[x]] = table[s[x]]
        BY <2>2, <3>2, <4>1 DEF Without, Holds, IsOpen
      <4>3. QED
        BY <2>4, <4>1, <4>2 DEF Holder, Holds, IsOpen
    <3>3. QED
      BY <3>1, <3>2
  <2>7. ASSUME NEW d \in Descriptors, table'[d] # Free
        PROVE  table'[d].by \in connected' /\ s'[table'[d].by] = d
    <3>1. CASE d = n
      BY <2>3, <2>4, <2>5, <3>1
    <3>2. CASE d # n
      <4>1. table'[d] = table[d] /\ table[d].by # c /\ table[d] # Free
        BY <2>4, <2>7, <3>2 DEF Without
      <4>2. table[d].by \in connected /\ s[table[d].by] = d
        BY <4>1 DEF Apart
      <4>3. QED
        BY <1>1, <2>3, <4>1, <4>2 DEF TypeOK
    <3>3. QED
      BY <3>1, <3>2
  <2>8. QED
    BY <2>6, <2>7
<1>4. QED
  BY <1>2, <1>3

(* What is left when c has closed its descriptor.                          *)
LEMMA ClosedWithout ==
  ASSUME TypeOK, Apart, NEW c \in Contexts, c \in connected
  PROVE  Without(c, ClosedTable(c))
<1>1. ClosedTable(c) \in Table
  BY ClosedTableType
<1>2. CASE Holds(c)
  <2>1. s[c] \in Descriptors /\ ClosedTable(c) = [table EXCEPT ![s[c]] = Free]
    BY <1>2 DEF Holds, IsOpen, ClosedTable
  <2>2. ClosedTable(c)[s[c]] = Free /\ \A d \in Descriptors \ {s[c]} : ClosedTable(c)[d] = table[d]
    BY <2>1 DEF TypeOK
  <2>3. ASSUME NEW d \in Descriptors, ClosedTable(c)[d] # Free
        PROVE  ClosedTable(c)[d] = table[d] /\ ClosedTable(c)[d].by # c
    BY <2>2, <2>3 DEF Apart
  <2>4. ASSUME NEW x \in connected \ {c}, Holds(x)
        PROVE  ClosedTable(c)[s[x]] = table[s[x]]
    BY <1>2, <2>2, <2>4 DEF Holds, IsOpen
  <2>5. QED
    BY <1>1, <2>3, <2>4 DEF Without
<1>3. CASE s[c] = -1
  <2>1. ClosedTable(c) = table
    BY <1>3, NotMinusOne DEF ClosedTable, IsOpen
  <2>2. \A d \in Descriptors : table[d] # Free => table[d].by # c
    BY <1>3, NotMinusOne DEF Apart
  <2>3. QED
    BY <1>1, <2>1, <2>2 DEF Without
<1>4. QED
  BY <1>2, <1>3 DEF Apart, Holder

(* A connected context does nothing through another's descriptor.          *)
LEMMA ThroughOwn ==
  ASSUME Apart, NEW c \in connected, NEW what, Through(c, what)
  PROVE  foreign' = {}
<1>1. IsOpen(c) => table[s[c]].by = c
  BY NotMinusOne DEF Apart, Holder, Holds, IsOpen
<1>2. QED
  BY <1>1 DEF Through, Apart

LEMMA ConnectApart ==
  ASSUME TypeOK, Plain, Apart, NEW c \in Contexts, Connect(c)
  PROVE  Apart'
<1>1. PICK o \in Established(c, table) \union TcpFailed(c, table) \union RtuFailed(table) :
        /\ s' = [s EXCEPT ![c] = o.s] /\ table' = o.table
        /\ connected' = IF o.rc = "0" THEN connected \union {c} ELSE connected
  BY DEF Connect, Failed, Plain, NoPi
<1>2. c \notin connected /\ UNCHANGED <<pc, foreign>>
  BY DEF Connect
<1>3. Without(c, table)
  BY <1>2 DEF Without, Apart, TypeOK, Table
<1>4. /\ \A x \in connected' : Holder(x)'
      /\ \A d \in Descriptors :
           table'[d] # Free => table'[d].by \in connected' /\ s'[table'[d].by] = d
  BY <1>1, <1>2, <1>3, OutcomeApart
<1>5. QED
  BY <1>1, <1>2, <1>4 DEF Apart

LEMMA CloseApart ==
  ASSUME TypeOK, Apart, NEW c \in Contexts, Close(c)
  PROVE  Apart'
<1>1. /\ c \in connected /\ NoCall
      /\ table' = ClosedTable(c) /\ connected' = connected \ {c}
      /\ UNCHANGED <<s, pc>>
  BY DEF Close
<1>2. foreign' = {}
  BY <1>1, ThroughOwn DEF Close
<1>3. Without(c, table')
  BY <1>1, ClosedWithout
<1>4. ASSUME NEW x \in connected'
      PROVE  Holder(x)'
  <2>1. Holder(x) /\ (Holds(x) => table'[s[x]] = table[s[x]])
    BY <1>1, <1>3, <1>4 DEF Apart, Without
  <2>2. QED
    BY <1>1, <2>1 DEF Holder, Holds, IsOpen
<1>5. ASSUME NEW d \in Descriptors, table'[d] # Free
      PROVE  table'[d].by \in connected' /\ s'[table'[d].by] = d
  <2>1. table'[d] = table[d] /\ table[d].by # c
    BY <1>3, <1>5 DEF Without
  <2>2. QED
    BY <1>1, <1>5, <2>1 DEF Apart
<1>6. QED
  BY <1>1, <1>2, <1>4, <1>5 DEF Apart, NoCall

(* Link recovery of RTU: whatever comes of it, -1 or a descriptor of its   *)
(* own is in ctx->s.                                                       *)
LEMMA ReconnectApart ==
  ASSUME TypeOK, Plain, Apart, NEW c \in link, c \in connected,
         NEW outcomes \in SUBSET (Established(c, ClosedTable(c)) \union Failed(c, ClosedTable(c))),
         Reconnect(c, outcomes),
         pc' \in {pc, [pc EXCEPT ![c] = "idle"]}
  PROVE  Apart'
<1>1. c \in Contexts /\ Failed(c, ClosedTable(c)) = RtuFailed(ClosedTable(c))
  BY DEF TypeOK, Plain, Failed
<1>2. PICK o \in Established(c, ClosedTable(c)) \union RtuFailed(ClosedTable(c)) :
        s' = [s EXCEPT ![c] = o.s] /\ table' = o.table
  BY <1>1 DEF Reconnect
<1>3. o.rc = "0" \/ o.s = -1
  BY <1>2 DEF Established, RtuFailed, NoSocket
<1>4. connected' = connected /\ connected' = connected \union {c}
  BY DEF Reconnect
<1>5. Without(c, ClosedTable(c))
  BY <1>1, ClosedWithout
<1>6. /\ \A x \in connected' : Holder(x)'
      /\ \A d \in Descriptors :
           table'[d] # Free => table'[d].by \in connected' /\ s'[table'[d].by] = d
  BY <1>1, <1>2, <1>3, <1>4, <1>5, OutcomeApart
<1>7. foreign' = {}
  BY ThroughOwn DEF Reconnect
<1>8. \A x \in Contexts : pc'[x] # "idle" => x \in connected'
  BY <1>1, <1>4 DEF Apart, TypeOK
<1>9. QED
  BY <1>6, <1>7, <1>8 DEF Apart

LEMMA ApartStep ==
  ASSUME TypeOK, Plain, Apart, [Next]_vars
  PROVE  Apart'
<1>1. ASSUME NEW c \in Contexts, Connect(c)
      PROVE  Apart'
  BY <1>1, ConnectApart
<1>2. ASSUME NEW c \in Contexts, Close(c)
      PROVE  Apart'
  BY <1>2, CloseApart
<1>3. ASSUME NEW c \in Contexts, Call(c)
      PROVE  Apart'
  BY <1>3 DEF Call, TypeOK, Apart, Holder, Holds, IsOpen
<1>4. ASSUME NEW c \in Contexts, Send(c) \/ SendFails(c) \/ Return(c) \/ (Broken(c) /\ c \notin link)
      PROVE  Apart'
  <2>1. c \in connected
    BY <1>4 DEF Send, SendFails, SendFailing, Return, Broken, Apart
  <2>2. foreign' = {}
    BY <1>4, <2>1, ThroughOwn DEF Send, SendFails, Return, Broken
  <2>3. /\ pc' \in {[pc EXCEPT ![c] = "idle"], [pc EXCEPT ![c] = "wait"]}
        /\ UNCHANGED <<s, table, connected>>
    BY <1>4 DEF Send, SendFails, Return, Broken
  <2>4. QED
    BY <2>1, <2>2, <2>3 DEF Apart, TypeOK, Holder, Holds, IsOpen
<1>5. ASSUME NEW c \in Contexts, SendRecovers(c) \/ SendStaysDown(c)
      PROVE  Apart'
  <2>1. c \in link /\ c \in connected /\ pc' = pc
    BY <1>5 DEF SendRecovers, SendStaysDown, Reconnects, SendFailing, Apart
  <2>2. CASE SendRecovers(c)
    BY <2>1, <2>2, ReconnectApart DEF SendRecovers
  <2>3. CASE SendStaysDown(c)
    BY <2>1, <2>3, ReconnectApart DEF SendStaysDown
  <2>4. QED
    BY <1>5, <2>2, <2>3
<1>6. ASSUME NEW c \in Contexts, Broken(c), c \in link
      PROVE  Apart'
  <2>1. c \in connected /\ pc' = [pc EXCEPT ![c] = "idle"]
    BY <1>6 DEF Broken, Apart
  <2>2. Reconnect(c, Established(c, ClosedTable(c)) \union Failed(c, ClosedTable(c)))
    BY <1>6 DEF Broken
  <2>3. QED
    BY <1>6, <2>1, <2>2, ReconnectApart
<1>7. ASSUME NEW d \in Descriptors, PeerCloses(d)
      PROVE  Apart'
  <2>1. table'[d] # Free /\ table'[d].by = table[d].by /\ table[d] # Free
        /\ \A e \in Descriptors \ {d} : table'[e] = table[e]
    BY <1>7, PeerClosesTypes DEF PeerCloses
  <2>2. UNCHANGED <<s, pc, connected, foreign>>
    BY <1>7 DEF PeerCloses
  <2>3. QED
    BY <2>1, <2>2 DEF Apart, Holder, Holds, IsOpen
<1>8. CASE UNCHANGED vars
  BY <1>8 DEF vars, Apart, Holder, Holds, IsOpen
<1>9. QED
  BY <1>1, <1>2, <1>3, <1>4, <1>5, <1>6, <1>7, <1>8 DEF Next, Step, SendSpins

(* Nothing is sent to, read from or closed of another context's            *)
(* connection, whatever connects fail and peers close, as long as no       *)
(* context is of TCP PI and only those of RTU recover their link.          *)
THEOREM ConnectionsApart == Spec => []OwnDescriptor
<1> DEFINE Inv == TypeOK /\ (Plain => Apart)
<1>1. Init => Inv
  BY TypeInit DEF Init, Apart, Holder
<1>2. Inv /\ [Next]_vars => Inv'
  <2>1. SUFFICES ASSUME Inv, [Next]_vars PROVE Inv'
    OBVIOUS
  <2>2. TypeOK'
    BY <2>1, TypeStep
  <2>3. UNCHANGED kinds
    BY <2>1 DEF Next, Step, Connect, Close, Call, Send, SendFails, SendRecovers,
      SendStaysDown, SendSpins, Return, Broken, Reconnect, PeerCloses, vars
  <2>4. Plain' => Plain
    BY <2>3 DEF Plain, NoPi, kinds
  <2>5. QED
    BY <2>1, <2>2, <2>4, ApartStep
<1>3. Inv => OwnDescriptor
  BY DEF Apart, Plain, OwnDescriptor
<1>4. QED
  BY <1>1, <1>2, <1>3, PTL DEF Spec

-----------------------------------------------------------------------------
(* An open descriptor is the one its context holds: a context that is not  *)
(* connected has none, so that no connect leaves an older one behind.      *)
Held ==
  /\ \A d \in Descriptors :
       table[d] # Free => table[d].by \in connected /\ s[table[d].by] = d
  /\ \A c \in Contexts : pc[c] # "idle" => c \in connected

(* From a table without descriptors of c, whatever comes of its connect.   *)
LEMMA OutcomeHeld ==
  ASSUME TypeOK, Held, NEW c \in Contexts, NEW t \in Table,
         \A d \in Descriptors : t[d] # Free => t[d] = table[d] /\ t[d].by # c,
         NEW o \in Established(c, t) \union Failed(c, t),
         s' = [s EXCEPT ![c] = o.s], table' = o.table,
         connected \subseteq connected', o.rc = "0" => c \in connected'
  PROVE  \A d \in Descriptors :
           table'[d] # Free => table'[d].by \in connected' /\ s'[table'[d].by] = d
<1>1. \A x \in Contexts \ {c} : s'[x] = s[x]
  BY DEF TypeOK
<1>2. ASSUME NEW d \in Descriptors, t[d] # Free, table'[d] = t[d]
      PROVE  table'[d].by \in connected' /\ s'[table'[d].by] = d
  <2>1. table'[d] = table[d] /\ table[d] # Free /\ table[d].by # c
    BY <1>2
  <2>2. table[d].by \in connected /\ s[table[d].by] = d /\ table[d].by \in Contexts
    BY <2>1 DEF Held, TypeOK
  <2>3. QED
    BY <1>1, <2>1, <2>2
<1>3. CASE o \in Failed(c, t)
  <2>1. o.table = t
    BY <1>3 DEF Failed, PiFailed, RtuFailed, TcpFailed, NoSocket
  <2>2. QED
    BY <1>2, <2>1
<1>4. CASE o \in Established(c, t)
  <2>1. PICK n \in Lowest(t) :
          o = [s |-> n, table |-> [t EXCEPT ![n] = Entry(c)], rc |-> "0"]
    BY <1>4 DEF Established
  <2>2. n \in Descriptors /\ s'[c] = n /\ c \in connected'
    BY <2>1 DEF Lowest, TypeOK
  <2>3. table'[n] = Entry(c) /\ \A d \in Descriptors \ {n} : table'[d] = t[d]
    BY <2>1, <2>2 DEF Table
  <2>4. QED
    BY <1>2, <2>2, <2>3 DEF Entry
<1>5. QED
  BY <1>3, <1>4

(* modbus_close frees the only descriptor of its context.                  *)
LEMMA ClosedOwn ==
  ASSUME TypeOK, Held, NEW c \in Contexts
  PROVE  /\ ClosedTable(c) \in Table
         /\ \A d \in Descriptors :
              ClosedTable(c)[d] # Free =>
                ClosedTable(c)[d] = table[d] /\ ClosedTable(c)[d].by # c
<1>1. ClosedTable(c) \in Table
  BY ClosedTableType
<1>2. ASSUME NEW d \in Descriptors, ClosedTable(c)[d] # Free
      PROVE  ClosedTable(c)[d] = table[d] /\ ClosedTable(c)[d].by # c
  <2>1. ClosedTable(c)[d] = table[d] /\ table[d] # Free /\ (IsOpen(c) => d # s[c])
    BY <1>2 DEF ClosedTable, IsOpen, TypeOK
  <2>2. table[d].by = c => s[c] = d
    BY <2>1 DEF Held
  <2>3. QED
    BY <2>1, <2>2 DEF IsOpen
<1>3. QED
  BY <1>1, <1>2

LEMMA ReconnectHeld ==
  ASSUME TypeOK, Held, NEW c \in Contexts, c \in connected,
         NEW outcomes \in SUBSET (Established(c, ClosedTable(c)) \union Failed(c, ClosedTable(c))),
         Reconnect(c, outcomes),
         pc' \in {pc, [pc EXCEPT ![c] = "idle"]}
  PROVE  Held'
<1>1. PICK o \in outcomes : s' = [s EXCEPT ![c] = o.s] /\ table' = o.table
  BY DEF Reconnect
<1>2. connected' = connected
  BY DEF Reconnect
<1>3. \A d \in Descriptors :
        table'[d] # Free => table'[d].by \in connected' /\ s'[table'[d].by] = d
  <2>1. o \in Established(c, ClosedTable(c)) \union Failed(c, ClosedTable(c))
    BY <1>1
  <2>2. connected \subseteq connected' /\ (o.rc = "0" => c \in connected')
    BY <1>2
  <2>3. QED
    BY <1>1, <2>1, <2>2, ClosedOwn, OutcomeHeld
<1>4. \A x \in Contexts : pc'[x] # "idle" => x \in connected'
  BY <1>2 DEF Held, TypeOK
<1>5. QED
  BY <1>3, <1>4 DEF Held

LEMMA HeldStep ==
  ASSUME TypeOK, Held, [Next]_vars
  PROVE  Held'
<1>1. ASSUME NEW c \in Contexts, Connect(c)
      PROVE  Held'
  <2>1. PICK o \in Established(c, table) \union Failed(c, table) :
          /\ s' = [s EXCEPT ![c] = o.s] /\ table' = o.table
          /\ connected' = IF o.rc = "0" THEN connected \union {c} ELSE connected
    BY <1>1 DEF Connect
  <2>2. c \notin connected /\ pc' = pc /\ table \in Table
    BY <1>1 DEF Connect, TypeOK, Table
  <2>3. \A d \in Descriptors : table[d] # Free => table[d].by # c
    BY <2>2 DEF Held
  <2>4. \A d \in Descriptors :
          table'[d] # Free => table'[d].by \in connected' /\ s'[table'[d].by] = d
    BY <2>1, <2>2, <2>3, OutcomeHeld
  <2>5. QED
    BY <2>1, <2>2, <2>4 DEF Held
<1>2. ASSUME NEW c \in Contexts, Close(c)
      PROVE  Held'
  <2>1. /\ table' = ClosedTable(c) /\ connected' = connected \ {c}
        /\ UNCHANGED <<s, pc>> /\ NoCall
    BY <1>2 DEF Close
  <2>2. QED
    BY <2>1, ClosedOwn DEF Held, NoCall
<1>3. ASSUME NEW c \in Contexts, Call(c)
      PROVE  Held'
  BY <1>3 DEF Call, TypeOK, Held
<1>4. ASSUME NEW c \in Contexts, Send(c) \/ SendFails(c) \/ Return(c) \/ (Broken(c) /\ c \notin link)
      PROVE  Held'
  <2>1. c \in connected
    BY <1>4 DEF Send, SendFails, SendFailing, Return, Broken, Held
  <2>2. /\ pc' \in {[pc EXCEPT ![c] = "idle"], [pc EXCEPT ![c] = "wait"]}
        /\ UNCHANGED <<s, table, connected>>
    BY <1>4 DEF Send, SendFails, Return, Broken
  <2>3. QED
    BY <2>1, <2>2 DEF Held, TypeOK
<1>5. ASSUME NEW c \in Contexts, SendRecovers(c) \/ SendStaysDown(c)
      PROVE  Held'
  <2>1. c \in connected /\ pc' = pc
    BY <1>5 DEF SendRecovers, SendStaysDown, Reconnects, SendFailing, Held
  <2>2. CASE SendRecovers(c)
    BY <2>1, <2>2, ReconnectHeld DEF SendRecovers
  <2>3. CASE SendStaysDown(c)
    BY <2>1, <2>3, ReconnectHeld DEF SendStaysDown
  <2>4. QED
    BY <1>5, <2>2, <2>3
<1>6. ASSUME NEW c \in Contexts, Broken(c), c \in link
      PROVE  Held'
  <2>1. c \in connected /\ pc' = [pc EXCEPT ![c] = "idle"]
    BY <1>6 DEF Broken, Held
  <2>2. Reconnect(c, Established(c, ClosedTable(c)) \union Failed(c, ClosedTable(c)))
    BY <1>6 DEF Broken
  <2>3. QED
    BY <2>1, <2>2, ReconnectHeld
<1>7. ASSUME NEW d \in Descriptors, PeerCloses(d)
      PROVE  Held'
  <2>1. table'[d] # Free /\ table'[d].by = table[d].by /\ table[d] # Free
        /\ \A e \in Descriptors \ {d} : table'[e] = table[e]
    BY <1>7, PeerClosesTypes DEF PeerCloses
  <2>2. UNCHANGED <<s, pc, connected>>
    BY <1>7 DEF PeerCloses
  <2>3. QED
    BY <2>1, <2>2 DEF Held
<1>8. CASE UNCHANGED vars
  BY <1>8 DEF vars, Held
<1>9. QED
  BY <1>1, <1>2, <1>3, <1>4, <1>5, <1>6, <1>7, <1>8 DEF Next, Step, SendSpins

(* No descriptor is left open that no context holds, whichever contexts    *)
(* are of TCP PI and recover their link, and however often connects fail   *)
(* and peers close.                                                        *)
THEOREM NothingLeaks == Spec => []NoLeak
<1>1. Init => TypeOK /\ Held
  BY TypeInit DEF Init, Held
<1>2. TypeOK /\ Held /\ [Next]_vars => (TypeOK /\ Held)'
  BY TypeStep, HeldStep
<1>3. Held => NoLeak
  BY DEF Held, NoLeak
<1>4. QED
  BY <1>1, <1>2, <1>3, PTL DEF Spec
=============================================================================
