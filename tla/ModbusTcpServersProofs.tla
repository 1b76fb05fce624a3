------------------------ MODULE ModbusTcpServersProofs ------------------------
(***************************************************************************)
(* The server of many clients watches exactly the open descriptors and     *)
(* never waits for an idle client: for any number of clients, descriptors  *)
(* and outstanding requests.  Between a select and the visit of a ready    *)
(* descriptor other connections are closed and new ones accepted, so that  *)
(* the invariant says of each descriptor still to be visited that it has   *)
(* kept its connection, and that this connection is on no other number.    *)
(* Answers go to the client that asked: what it waits for is, in order,    *)
(* what has been answered, what is being served and what it has sent.      *)
(***************************************************************************)
EXTENDS ModbusTcpServers, SequenceTheorems, TLAPS

(* Before it serves, a server has no connection.                           *)
Fresh ==
  /\ pc = "listen" => \A d \in Descriptors : table[d] = "nobody"
  /\ pc = "accept" => \A d \in Descriptors : table[d] \notin Clients

(* modbus_receive and modbus_reply work on an open connection.             *)
OnConnection ==
  pc \in {"receive", "reply"} =>
    /\ ctxS \in Descriptors /\ table[ctxS] \in Clients
    /\ pc = "reply" => got # <<>>

(* A client has one connection, in the queue or on one descriptor, while   *)
(* neither side has ended it.                                              *)
OneEach ==
  /\ \A d, e \in Descriptors : table[d] \in Clients /\ table[d] = table[e] => d = e
  /\ \A j, k \in 1..Len(backlog) : backlog[j] = backlog[k] => j = k
  /\ \A k \in 1..Len(backlog), d \in Descriptors : backlog[k] # table[d]
  /\ \A c \in Clients : conn[c] \in {"none", "cut"} =>
       /\ \A k \in 1..Len(backlog) : backlog[k] # c
       /\ \A d \in Descriptors : table[d] # c

Listening ==
  program = "many" /\ pc \in {"select", "scan", "receive", "reply"} =>
    /\ serverSocket \in Descriptors /\ table[serverSocket] = "listener"
    /\ \A d \in Descriptors : table[d] = "listener" => d = serverSocket

(* What select found of the descriptors still to be visited is still so.   *)
Pending ==
  program = "many" =>
    /\ pc = "scan" => \A d \in rdset : masterSocket <= d => Ready(d)
    /\ pc \in {"receive", "reply"} =>
         /\ masterSocket = ctxS
         /\ \A d \in rdset : masterSocket < d => Ready(d)
    /\ pc = "receive" /\ got = <<>> => Readable(Peer)

(* The two programs have their own steps.                                  *)
OnlyOneAccepts == pc = "accept" => program = "one"

IInv ==
  /\ OnlyOneAccepts
  /\ TypeOK /\ Fresh /\ OnConnection /\ OneEach /\ Listening /\ WatchesAll /\ Pending

-----------------------------------------------------------------------------
(* The head of a sequence and what remains after it.                       *)
LEMMA HeadTailType ==
  ASSUME NEW S, NEW q \in Seq(S), q # <<>>
  PROVE  /\ Head(q) \in S /\ Tail(q) \in Seq(S) /\ Len(q) \in Nat \ {0}
         /\ Head(q) = q[1] /\ Len(Tail(q)) = Len(q) - 1
         /\ \A k \in 1..Len(Tail(q)) : Tail(q)[k] = q[k + 1] /\ k + 1 \in 1..Len(q)
  BY HeadTailProperties, EmptySeq

LEMMA EndedType ==
  ASSUME TypeOK, NEW gone, Ended(gone)
  PROVE  /\ conn' \in [Clients -> {"none", "open", "shut", "cut"}]
         /\ pipe' \in [Clients -> Seq(Parts)]
         /\ answers' = answers /\ expect' = expect
  BY DEF Ended, TypeOK, clients

(* What a client sends are parts of requests.                              *)
LEMMA NextParts ==
  ASSUME TypeOK, NEW c \in Clients, NEW n \in {1, 2}
  PROVE  /\ NextId(c) \in Ids
         /\ SubSeq(<<<<NextId(c), "begin">>, <<NextId(c), "end">>>>, 1, n) \in Seq(Parts)
<1>1. NextId(c) \in Ids
  <2>1. expect[c] # <<>> => Last(expect[c]) \in Ids
    BY LenProperties, ElementOfSeq, EmptySeq DEF Last, TypeOK
  <2>2. QED
    BY <2>1 DEF NextId, Ids
<1> DEFINE both == <<<<NextId(c), "begin">>, <<NextId(c), "end">>>>
<1>2. <<NextId(c), "begin">> \in Parts /\ <<NextId(c), "end">> \in Parts
  BY <1>1 DEF Parts
<1>3. both[1] \in Parts /\ both[2] \in Parts
  BY <1>2
<1> HIDE DEF both
<1>4. n \in Int /\ \A k \in 1..n : both[k] \in Parts
  BY <1>3
<1>5. SubSeq(both, 1, n) \in Seq(Parts)
  BY <1>4, SubSeqProperties
<1>6. QED
  BY <1>1, <1>5 DEF both

LEMMA HalfParts ==
  ASSUME TypeOK, NEW c \in Clients, NEW p \in Half(c)
  PROVE  p \in Parts /\ <<p[1], "end">> \in Parts
<1>1. pipe[c] # <<>> => Last(pipe[c]) \in Parts
  BY LenProperties, ElementOfSeq, EmptySeq DEF Last, TypeOK
<1>2. got # <<>> => got[1] \in Parts
  BY HeadTailType DEF TypeOK
<1>3. p \in Parts
  BY <1>1, <1>2 DEF Half
<1>4. QED
  BY <1>3 DEF Parts

LEMMA AppendIsMore ==
  ASSUME NEW S, NEW q \in Seq(S), NEW e \in S
  PROVE  Append(q, e) \in Seq(S) /\ Append(q, e) # <<>>
<1>1. Append(q, e) \in Seq(S) /\ Len(Append(q, e)) = Len(q) + 1 /\ Len(q) \in Nat
  BY AppendProperties, LenProperties
<1>2. QED
  BY <1>1

(* Types: the one place where a step could put something odd is a sequence *)
(* it takes the head of, which is never empty.                             *)
LEMMA Types ==
  ASSUME IInv, [Next]_vars
  PROVE  TypeOK'
<1> USE DEF IInv, TypeOK
<1>1. CASE Listen
  <2>1. PICK d \in Lowest :
          /\ table' = [table EXCEPT ![d] = "listener"]
          /\ serverSocket' = d
          /\ (refset' = {d} /\ fdmax' = d) \/ UNCHANGED <<refset, fdmax>>
          /\ pc' \in {"select", "accept"}
    BY <1>1 DEF Listen
  <2>2. d \in Descriptors /\ d \in Int
    BY ServersAssumption DEF Lowest
  <2>3. QED
    BY <1>1, <2>1, <2>2 DEF Listen, clients
<1>2. CASE ListenFails
  BY <1>2 DEF ListenFails, loop, sets, clients
<1>3. CASE Select
  BY <1>3 DEF Select, clients
<1>4. CASE Rescan
  BY <1>4 DEF Rescan, loop, sets, clients
<1>5. CASE Accept
  <2>1. Head(backlog) \in Clients /\ Tail(backlog) \in Seq(Clients)
    BY <1>5, HeadTailType DEF Accept
  <2>2. PICK n \in Lowest :
          /\ table' = [table EXCEPT ![n] = Head(backlog)]
          /\ refset' = refset \union {n}
          /\ fdmax' = IF n > fdmax THEN n ELSE fdmax
    BY <1>5 DEF Accept
  <2>3. n \in Descriptors /\ n \in Int /\ serverSocket \in Descriptors /\ serverSocket \in Nat
    BY <1>5, ServersAssumption DEF Accept, AtReady, Lowest
  <2>4. table' \in [Descriptors -> Clients \union {"nobody", "listener"}]
    BY <2>1, <2>2
  <2>5. refset' \subseteq Descriptors /\ fdmax' \in Int /\ masterSocket' \in Nat
    BY <1>5, <2>2, <2>3 DEF Accept
  <2>6. UNCHANGED <<program, pc, serverSocket, rdset, ctxS, got, conn, pipe, answers, expect>>
        /\ backlog' \in Seq(Clients)
    BY <1>5, <2>1 DEF Accept, clients
  <2>7. QED
    BY <2>4, <2>5, <2>6
<1>6. CASE AcceptError
  BY <1>6, ServersAssumption DEF AcceptError, AtReady, sets, clients
<1>7. ASSUME NEW d \in Descriptors, SetSocket(d)
      PROVE  TypeOK'
  BY <1>7, ServersAssumption DEF SetSocket, AtReady, sets, clients
<1>8. CASE AcceptOne
  <2>1. Head(backlog) \in Clients /\ Tail(backlog) \in Seq(Clients)
    BY <1>8, HeadTailType DEF AcceptOne
  <2>2. PICK n \in Lowest : table' = [table EXCEPT ![n] = Head(backlog)] /\ ctxS' = n
    BY <1>8 DEF AcceptOne
  <2>3. n \in Int /\ table' \in [Descriptors -> Clients \union {"nobody", "listener"}]
    BY <2>1, <2>2, ServersAssumption DEF Lowest
  <2>4. backlog' \in Seq(Clients) /\ got' \in Seq(Parts)
    BY <1>8, <2>1 DEF AcceptOne
  <2>5. QED
    BY <1>8, <2>2, <2>3, <2>4 DEF AcceptOne, loop, sets, clients
<1>9. CASE AcceptOneFails
  <2>1. Ended(AllOfServer)
    BY <1>9 DEF AcceptOneFails
  <2>2. table' \in [Descriptors -> Clients \union {"nobody", "listener"}] /\ backlog' \in Seq(Clients)
    <3>1. table' = [table EXCEPT ![serverSocket] = "nobody"] /\ backlog' = <<>>
      BY <1>9 DEF AcceptOneFails
    <3>2. table' \in [Descriptors -> Clients \union {"nobody", "listener"}]
      BY <3>1
    <3>3. backlog' \in Seq(Clients)
      BY <3>1
    <3>4. QED
      BY <3>2, <3>3
  <2>3. serverSocket' = 0 /\ ctxS' = -1 /\ pc' \in {"hung", "exited"}
        /\ UNCHANGED <<program, refset, rdset, fdmax, masterSocket, got>>
    BY <1>9 DEF AcceptOneFails, sets
  <2>4. {serverSocket', fdmax', ctxS'} \subseteq Int
    BY <2>3
  <2>5. /\ conn' \in [Clients -> {"none", "open", "shut", "cut"}]
        /\ pipe' \in [Clients -> Seq(Parts)] /\ answers' = answers /\ expect' = expect
    BY <2>1, EndedType
  <2>6. pc' \in {"listen", "accept", "select", "scan", "receive", "reply", "hung", "exited"}
    BY <2>3
  <2>7. QED
    BY <2>2, <2>3, <2>4, <2>5, <2>6
<1>10. CASE Read
  <2>1. Peer \in Clients
    BY <1>10 DEF Read, OnConnection, Peer
  <2>2. pipe[Peer] \in Seq(Parts) /\ pipe[Peer] # <<>>
    BY <1>10, <2>1 DEF Read
  <2>3. Head(pipe[Peer]) \in Parts /\ Tail(pipe[Peer]) \in Seq(Parts)
    BY <2>2, HeadTailType
  <2>4. pipe' \in [Clients -> Seq(Parts)] /\ got' \in Seq(Parts)
    BY <1>10, <2>1, <2>3 DEF Read
  <2>5. QED
    BY <1>10, <2>4 DEF Read, loop, sets
<1>11. CASE ReceiveFails
  <2>1. CASE CloseConnection(ctxS)
    <3>1. Ended({table[ctxS]} \cap Clients)
      BY <2>1 DEF CloseConnection
    <3>2. ctxS + 1 \in Nat
      BY <1>11, ServersAssumption DEF ReceiveFails, OnConnection
    <3>3. table' \in [Descriptors -> Clients \union {"nobody", "listener"}]
      BY <2>1 DEF CloseConnection
    <3>4. fdmax' \in Int /\ masterSocket' \in Nat /\ refset' \subseteq Descriptors
      BY <2>1, <3>2 DEF CloseConnection
    <3>5. QED
      BY <2>1, <3>1, <3>3, <3>4, EndedType DEF CloseConnection
  <2>2. CASE Exit
    <3>1. Ended(AllOfServer)
      BY <2>2 DEF Exit
    <3>2. QED
      BY <2>2, <3>1, EndedType DEF Exit, loop, sets
  <2>3. QED
    BY <1>11, <2>1, <2>2 DEF ReceiveFails
<1>12. CASE Reply
  <2>1. got \in Seq(Parts) /\ got # <<>> /\ Peer \in Clients /\ ctxS + 1 \in Nat
    BY <1>12, ServersAssumption DEF Reply, OnConnection, Peer
  <2>2. got[1][1] \in Ids
    <3>1. got[1] \in Parts
      BY <2>1, HeadTailType
    <3>2. QED
      BY <3>1 DEF Parts
  <2>3. answers' \in [Clients -> Seq(Ids)]
    BY <1>12, <2>1, <2>2 DEF Reply
  <2>4. got' \in Seq(Parts)
    BY <1>12, EmptySeq DEF Reply
  <2>5. {ctxS, fdmax, serverSocket}' \subseteq Int /\ masterSocket' \in Nat
    BY <1>12, <2>1 DEF Reply, sets
  <2>6. QED
    BY <1>12, <2>3, <2>4, <2>5 DEF Reply, sets
<1>13. CASE Sigint
  <2>1. Ended(AllOfServer) /\ Exit
    BY <1>13 DEF Sigint, Exit
  <2>2. QED
    BY <2>1, EndedType DEF Exit, loop, sets
<1>14. ASSUME NEW c \in Clients, Connect(c)
       PROVE  TypeOK'
  BY <1>14 DEF Connect, loop, sets
<1>15. ASSUME NEW c \in Clients, NEW n \in {1, 2}, Send(c, n)
       PROVE  TypeOK'
  <2>1. NextId(c) \in Ids
    BY NextParts
  <2>2. SubSeq(<<<<NextId(c), "begin">>, <<NextId(c), "end">>>>, 1, n) \in Seq(Parts)
    BY NextParts
  <2>3. pipe' \in [Clients -> Seq(Parts)] /\ expect' \in [Clients -> Seq(Ids)]
    <3>1. Append(expect[c], NextId(c)) \in Seq(Ids)
      BY <2>1
    <3>2. pipe[c] \o SubSeq(<<<<NextId(c), "begin">>, <<NextId(c), "end">>>>, 1, n) \in Seq(Parts)
      BY <2>2, ConcatProperties
    <3>3. QED
      BY <1>15, <3>1, <3>2 DEF Send
  <2>4. QED
    BY <1>15, <2>3 DEF Send, loop, sets
<1>16. ASSUME NEW c \in Clients, SendRest(c)
       PROVE  TypeOK'
  <2>1. PICK p \in Half(c) : pipe' = [pipe EXCEPT ![c] = Append(@, <<p[1], "end">>)]
    BY <1>16 DEF SendRest
  <2>3. <<p[1], "end">> \in Parts
    BY HalfParts
  <2>4. pipe' \in [Clients -> Seq(Parts)]
    BY <2>1, <2>3
  <2>5. QED
    BY <1>16, <2>4 DEF SendRest, loop, sets
<1>17. ASSUME NEW c \in Clients, ReadAnswer(c)
       PROVE  TypeOK'
  <2>1. Tail(answers[c]) \in Seq(Ids) /\ Tail(expect[c]) \in Seq(Ids)
    BY <1>17, HeadTailType DEF ReadAnswer
  <2>2. QED
    BY <1>17, <2>1 DEF ReadAnswer, loop, sets
<1>18. ASSUME NEW c \in Clients, Shut(c)
       PROVE  TypeOK'
  <2>1. <<>> \in Seq(Ids)
    OBVIOUS
  <2>2. QED
    BY <1>18, <2>1 DEF Shut, loop, sets
<1>19. CASE UNCHANGED vars
  BY <1>19 DEF vars
<1>20. QED
  BY <1>1, <1>2, <1>3, <1>4, <1>5, <1>6, <1>7, <1>8, <1>9, <1>10, <1>11, <1>12, <1>13,
     <1>14, <1>15, <1>16, <1>17, <1>18, <1>19 DEF Next, ServerStep, ClientStep

-----------------------------------------------------------------------------
(* Connections end on the server's side: those in gone are nowhere after.  *)
LEMMA EndedOneEach ==
  ASSUME TypeOK, OneEach, NEW gone \in SUBSET Clients, Ended(gone),
         \A d \in Descriptors : table'[d] = table[d] \/ table'[d] \in {"nobody", "listener"},
         \A d \in Descriptors : table'[d] \notin gone,
         backlog' = <<>> \/ (backlog' = backlog /\ \A k \in 1..Len(backlog) : backlog[k] \notin gone)
  PROVE  OneEach'
<1>1. \A k \in 1..Len(backlog) : backlog[k] \in Clients
  BY LenProperties, ElementOfSeq DEF TypeOK
<1>2. "nobody" \notin Clients /\ "listener" \notin Clients
  BY ServersAssumption
<1>3. \A k \in 1..Len(backlog') : k \in 1..Len(backlog) /\ backlog' = backlog
  OBVIOUS
<1>4. \A d, e \in Descriptors : table'[d] \in Clients /\ table'[d] = table'[e] => d = e
  BY <1>2 DEF OneEach
<1>5. \A j, k \in 1..Len(backlog') : backlog'[j] = backlog'[k] => j = k
  BY <1>3 DEF OneEach
<1>6. \A k \in 1..Len(backlog'), d \in Descriptors : backlog'[k] # table'[d]
  BY <1>1, <1>2, <1>3 DEF OneEach
<1>7. ASSUME NEW c \in Clients, conn'[c] \in {"none", "cut"}
      PROVE  /\ \A k \in 1..Len(backlog') : backlog'[k] # c
             /\ \A d \in Descriptors : table'[d] # c
  <2>1. CASE c \in gone
    BY <1>3, <2>1
  <2>2. CASE c \notin gone
    <3>1. conn[c] \in {"none", "cut"}
      BY <1>7, <2>2 DEF Ended
    <3>2. QED
      BY <1>2, <1>3, <3>1 DEF OneEach
  <2>3. QED
    BY <2>1, <2>2
<1>8. QED
  BY <1>4, <1>5, <1>6, <1>7 DEF OneEach

(* The first of the queue gets a free descriptor.                          *)
LEMMA AcceptedOneEach ==
  ASSUME TypeOK, OneEach, backlog # <<>>, NEW n \in Descriptors, table[n] = "nobody",
         table' = [table EXCEPT ![n] = Head(backlog)], backlog' = Tail(backlog), conn' = conn
  PROVE  OneEach'
<1>1. backlog \in Seq(Clients) /\ table \in [Descriptors -> Clients \union {"nobody", "listener"}]
  BY DEF TypeOK
<1>2. /\ Head(backlog) = backlog[1] /\ 1 \in 1..Len(backlog)
      /\ \A k \in 1..Len(backlog') : backlog'[k] = backlog[k + 1] /\ k + 1 \in 1..Len(backlog)
                                     /\ k + 1 # 1 /\ k \in Int
  BY <1>1, HeadTailType
<1>3. \A d \in Descriptors : table'[d] = IF d = n THEN backlog[1] ELSE table[d]
  BY <1>1, <1>2
<1>4. \A d, e \in Descriptors : table'[d] \in Clients /\ table'[d] = table'[e] => d = e
  BY <1>2, <1>3 DEF OneEach
<1>5. \A j, k \in 1..Len(backlog') : backlog'[j] = backlog'[k] => j = k
  <2> SUFFICES ASSUME NEW j \in 1..Len(backlog'), NEW k \in 1..Len(backlog'),
                      backlog'[j] = backlog'[k]
               PROVE  j = k
    OBVIOUS
  <2>1. j + 1 = k + 1
    BY <1>2 DEF OneEach
  <2>2. QED
    BY <1>2, <2>1
<1>6. \A k \in 1..Len(backlog'), d \in Descriptors : backlog'[k] # table'[d]
  <2> SUFFICES ASSUME NEW k \in 1..Len(backlog'), NEW d \in Descriptors
               PROVE  backlog'[k] # table'[d]
    OBVIOUS
  <2>1. backlog'[k] = backlog[k + 1] /\ k + 1 \in 1..Len(backlog) /\ k + 1 # 1
    BY <1>2
  <2>2. QED
    BY <1>2, <1>3, <2>1 DEF OneEach
<1>7. \A c \in Clients : conn'[c] \in {"none", "cut"} =>
        /\ \A k \in 1..Len(backlog') : backlog'[k] # c
        /\ \A d \in Descriptors : table'[d] # c
  BY <1>2, <1>3 DEF OneEach
<1>8. QED
  BY <1>4, <1>5, <1>6, <1>7 DEF OneEach

LEMMA SameOneEach ==
  ASSUME OneEach, UNCHANGED <<table, backlog, conn>>
  PROVE  OneEach'
  BY DEF OneEach

LEMMA OneEachKept ==
  ASSUME IInv, [Next]_vars
  PROVE  OneEach'
<1> USE DEF IInv
<1>T. table \in [Descriptors -> Clients \union {"nobody", "listener"}] /\ backlog \in Seq(Clients)
      /\ conn \in [Clients -> {"none", "open", "shut", "cut"}]
  BY DEF TypeOK
<1>N. "nobody" \notin Clients /\ "listener" \notin Clients
  BY ServersAssumption
<1>1. CASE Listen
  <2>1. PICK d \in Lowest : table' = [table EXCEPT ![d] = "listener"]
    BY <1>1 DEF Listen
  <2>2. backlog' = backlog /\ conn' = conn /\ d \in Descriptors
    BY <1>1, <2>1 DEF Listen, clients, Lowest
  <2>3. \A e \in Descriptors : table'[e] = IF e = d THEN "listener" ELSE table[e]
    BY <1>T, <2>1
  <2>4. \A k \in 1..Len(backlog) : backlog[k] \in Clients
    BY <1>T
  <2>5. QED
    BY <1>N, <2>2, <2>3, <2>4 DEF OneEach
<1>2. CASE ListenFails \/ Select \/ Rescan \/ AcceptError \/ Read \/ Reply
           \/ (\E d \in Descriptors : SetSocket(d))
           \/ (\E c \in Clients : Send(c, 1) \/ Send(c, 2) \/ SendRest(c) \/ ReadAnswer(c))
           \/ UNCHANGED vars
  <2>1. UNCHANGED <<table, backlog, conn>>
    BY <1>2 DEF ListenFails, Select, Rescan, AcceptError, Read, Reply, SetSocket, Send, SendRest,
                ReadAnswer, vars, clients
  <2>2. QED
    BY <2>1, SameOneEach
<1>3. CASE Accept \/ AcceptOne
  <2>1. PICK n \in Lowest : table' = [table EXCEPT ![n] = Head(backlog)]
    BY <1>3 DEF Accept, AcceptOne
  <2>2. backlog # <<>> /\ backlog' = Tail(backlog) /\ conn' = conn
    BY <1>3 DEF Accept, AcceptOne, clients
  <2>3. n \in Descriptors /\ table[n] = "nobody"
    BY DEF Lowest
  <2>4. QED
    BY <2>1, <2>2, <2>3, AcceptedOneEach
<1>4. CASE AcceptOneFails
  <2>1. /\ table' = [table EXCEPT ![serverSocket] = "nobody"] /\ backlog' = <<>>
        /\ Ended(AllOfServer) /\ pc = "accept"
    BY <1>4 DEF AcceptOneFails
  <2>2. AllOfServer \in SUBSET Clients
    BY DEF AllOfServer
  <2>3. \A d \in Descriptors : table'[d] = table[d] \/ table'[d] \in {"nobody", "listener"}
    BY <1>T, <2>1
  <2>4. \A d \in Descriptors : table'[d] \notin AllOfServer
    BY <1>N, <2>1, <2>2, <2>3 DEF Fresh
  <2>5. QED
    BY <2>1, <2>2, <2>3, <2>4, EndedOneEach
<1>5. CASE Exit
  <2>1. table' = [d \in Descriptors |-> "nobody"] /\ backlog' = <<>> /\ Ended(AllOfServer)
    BY <1>5 DEF Exit
  <2>2. AllOfServer \in SUBSET Clients
    BY DEF AllOfServer
  <2>3. \A d \in Descriptors : table'[d] \in {"nobody", "listener"} /\ table'[d] \notin AllOfServer
    BY <1>N, <2>1, <2>2
  <2>4. QED
    BY <2>1, <2>2, <2>3, EndedOneEach
<1>6. CASE ReceiveFails /\ CloseConnection(ctxS)
  <2> DEFINE gone == {table[ctxS]} \cap Clients
  <2>1. table' = [table EXCEPT ![ctxS] = "nobody"] /\ Ended(gone) /\ backlog' = backlog
    BY <1>6 DEF CloseConnection
  <2>2. ctxS \in Descriptors /\ table[ctxS] \in Clients
    BY <1>6 DEF ReceiveFails, OnConnection
  <2>3. \A d \in Descriptors : table'[d] = IF d = ctxS THEN "nobody" ELSE table[d]
    BY <1>T, <2>1
  <2>4. \A d \in Descriptors : table'[d] \notin gone
    BY <1>N, <2>2, <2>3 DEF OneEach
  <2>5. \A k \in 1..Len(backlog) : backlog[k] \notin gone
    BY <2>2 DEF OneEach
  <2>6. gone \in SUBSET Clients
    OBVIOUS
  <2>7. \A d \in Descriptors : table'[d] = table[d] \/ table'[d] \in {"nobody", "listener"}
    BY <2>3
  <2> HIDE DEF gone
  <2>8. QED
    BY <2>1, <2>4, <2>5, <2>6, <2>7, EndedOneEach
<1>7. ASSUME NEW c \in Clients, Connect(c)
      PROVE  OneEach'
  <2>1. table' = table /\ backlog' = Append(backlog, c) /\ conn[c] = "none"
    BY <1>7 DEF Connect
  <2>2. conn' = [conn EXCEPT ![c] = "open"]
    BY <1>7 DEF Connect
  <2>3. Len(backlog) \in Nat /\ Len(backlog') = Len(backlog) + 1 /\ backlog'[Len(backlog) + 1] = c
        /\ \A k \in 1..Len(backlog) : backlog'[k] = backlog[k]
    BY <1>T, <2>1, AppendProperties
  <2>4. \A k \in 1..Len(backlog') : k \in 1..Len(backlog) \/ k = Len(backlog) + 1
    BY <2>3
  <2>5. \A j, k \in 1..Len(backlog') : backlog'[j] = backlog'[k] => j = k
    BY <2>1, <2>3, <2>4 DEF OneEach
  <2>6. \A k \in 1..Len(backlog'), d \in Descriptors : backlog'[k] # table'[d]
    BY <2>1, <2>3, <2>4 DEF OneEach
  <2>7. \A b \in Clients : conn'[b] \in {"none", "cut"} => b # c /\ conn[b] \in {"none", "cut"}
    BY <1>T, <2>2
  <2>8. \A b \in Clients : conn'[b] \in {"none", "cut"} =>
          /\ \A k \in 1..Len(backlog') : backlog'[k] # b
          /\ \A d \in Descriptors : table'[d] # b
    BY <2>1, <2>3, <2>4, <2>7 DEF OneEach
  <2>9. QED
    BY <2>1, <2>5, <2>6, <2>8 DEF OneEach
<1>8. ASSUME NEW c \in Clients, Shut(c)
      PROVE  OneEach'
  <2>1. table' = table /\ backlog' = backlog
    BY <1>8 DEF Shut
  <2>2. \A b \in Clients : conn'[b] \in {"none", "cut"} => conn[b] \in {"none", "cut"}
    BY <1>T, <1>8 DEF Shut
  <2>3. QED
    BY <2>1, <2>2 DEF OneEach
<1>9. QED
  BY <1>1, <1>2, <1>3, <1>4, <1>5, <1>6, <1>7, <1>8
     DEF Next, ServerStep, ClientStep, Sigint, ReceiveFails

-----------------------------------------------------------------------------
(* The steps after which the server watches what it did before.            *)
LEMMA SameWatches ==
  ASSUME IInv, UNCHANGED <<program, table, serverSocket, refset, fdmax, ctxS, got>>,
         pc' = pc \/ pc' \in {"hung", "exited"} \/ (pc = "select" /\ pc' = "scan")
           \/ (pc = "scan" /\ pc' = "select")
  PROVE  Fresh' /\ OnConnection' /\ Listening' /\ WatchesAll'
  BY DEF IInv, Fresh, OnConnection, Listening, WatchesAll, Connections

LEMMA WatchesKept ==
  ASSUME IInv, [Next]_vars
  PROVE  Fresh' /\ OnConnection' /\ Listening' /\ WatchesAll'
<1> USE DEF IInv
<1>T. table \in [Descriptors -> Clients \union {"nobody", "listener"}]
      /\ refset \subseteq Descriptors /\ fdmax \in Int /\ Descriptors \subseteq Int
      /\ backlog \in Seq(Clients)
  BY ServersAssumption DEF TypeOK
<1>N. "nobody" \notin Clients /\ "listener" \notin Clients
  BY ServersAssumption
<1>1. CASE Listen
  <2>1. PICK n \in Lowest :
          /\ table' = [table EXCEPT ![n] = "listener"]
          /\ serverSocket' = n
          /\ IF program = "many" THEN refset' = {n} /\ fdmax' = n /\ pc' = "select"
             ELSE UNCHANGED <<refset, fdmax>> /\ pc' = "accept"
    BY <1>1 DEF Listen
  <2>2. n \in Descriptors /\ program' = program
    BY <1>1 DEF Listen, Lowest
  <2>3. \A d \in Descriptors : table'[d] = IF d = n THEN "listener" ELSE "nobody"
    BY <1>T, <1>1, <2>1 DEF Listen, Fresh
  <2>4. Connections' = {}
    BY <1>N, <2>3 DEF Connections
  <2>5. pc' \in {"select", "accept"} /\ (program = "many" => pc' = "select")
    BY <2>1
  <2>6. Fresh' /\ OnConnection' /\ Listening'
    BY <1>N, <2>1, <2>2, <2>3, <2>5 DEF Fresh, OnConnection, Listening
  <2>7. WatchesAll'
    BY <1>T, <2>1, <2>2, <2>4, <2>5 DEF WatchesAll
  <2>8. QED
    BY <2>6, <2>7
<1>2. CASE ListenFails \/ Select \/ Rescan \/ AcceptError \/ UNCHANGED vars
           \/ (\E c \in Clients : ClientStep(c))
  <2>1. UNCHANGED <<program, table, serverSocket, refset, fdmax, ctxS, got>>
    BY <1>2 DEF ListenFails, Select, Rescan, AcceptError, vars, loop, sets, ClientStep,
                Connect, Send, SendRest, ReadAnswer, Shut
  <2>2. pc' = pc \/ pc' \in {"hung", "exited"} \/ (pc = "select" /\ pc' = "scan")
           \/ (pc = "scan" /\ pc' = "select")
    BY <1>2 DEF ListenFails, Select, Rescan, AcceptError, vars, ClientStep,
                Connect, Send, SendRest, ReadAnswer, Shut
  <2>3. QED
    BY <2>1, <2>2, SameWatches
<1>3. CASE Accept
  <2>1. PICK n \in Lowest :
          /\ table' = [table EXCEPT ![n] = Head(backlog)]
          /\ refset' = refset \union {n}
          /\ fdmax' = IF n > fdmax THEN n ELSE fdmax
    BY <1>3 DEF Accept
  <2>2. /\ pc = "scan" /\ pc' = "scan" /\ program = "many"
        /\ UNCHANGED <<program, serverSocket>> /\ backlog # <<>>
    BY <1>3 DEF Accept, AtReady
  <2>3. n \in Descriptors /\ table[n] = "nobody" /\ n \in Int
    BY <1>T DEF Lowest
  <2>4. Head(backlog) \in Clients
    BY <1>T, <2>2, HeadTailType
  <2>5. \A d \in Descriptors : table'[d] = IF d = n THEN Head(backlog) ELSE table[d]
    BY <1>T, <2>1
  <2>6. Connections' = Connections \union {n}
    BY <2>3, <2>4, <2>5 DEF Connections
  <2>7. Fresh' /\ OnConnection'
    BY <2>2 DEF Fresh, OnConnection
  <2>8. Listening'
    BY <1>N, <2>2, <2>3, <2>4, <2>5 DEF Listening
  <2>9. refset' = Connections' \union {serverSocket'}
    BY <2>1, <2>2, <2>6 DEF WatchesAll
  <2>10. \A d \in refset' : d <= fdmax'
    BY <1>T, <2>1, <2>2, <2>3 DEF WatchesAll
  <2>11. QED
    BY <2>7, <2>8, <2>9, <2>10 DEF WatchesAll
<1>4. ASSUME NEW d \in Descriptors, SetSocket(d)
      PROVE  Fresh' /\ OnConnection' /\ Listening' /\ WatchesAll'
  <2>1. /\ pc = "scan" /\ pc' = "receive" /\ program = "many" /\ ctxS' = d
        /\ UNCHANGED <<program, table, serverSocket, refset, fdmax>>
    BY <1>4 DEF SetSocket, AtReady, sets
  <2>2. d \in rdset /\ masterSocket <= d /\ d # serverSocket
    BY <1>4 DEF SetSocket, AtReady
  <2>3. table[d] \in Clients
    BY <2>1, <2>2 DEF Pending, Ready, Listening
  <2>4. QED
    BY <2>1, <2>3 DEF Fresh, OnConnection, Listening, WatchesAll, Connections
<1>5. CASE AcceptOne
  <2>1. PICK n \in Lowest : table' = [table EXCEPT ![n] = Head(backlog)] /\ ctxS' = n
    BY <1>5 DEF AcceptOne
  <2>2. pc' = "receive" /\ pc = "accept" /\ UNCHANGED program /\ backlog # <<>>
    BY <1>5 DEF AcceptOne, loop
  <2>3. Head(backlog) \in Clients /\ n \in Descriptors
    BY <1>T, <2>2, HeadTailType DEF Lowest
  <2>4. table'[n] \in Clients
    BY <1>T, <2>1, <2>3
  <2>5. program # "many"
    BY <2>2 DEF OnlyOneAccepts
  <2>6. QED
    BY <2>1, <2>2, <2>3, <2>4, <2>5 DEF Fresh, OnConnection, Listening, WatchesAll
<1>6. CASE AcceptOneFails \/ Exit
  <2>1. pc' \in {"hung", "exited"}
    BY <1>6 DEF AcceptOneFails, Exit
  <2>2. QED
    BY <2>1 DEF Fresh, OnConnection, Listening, WatchesAll
<1>7. CASE Read
  <2>1. UNCHANGED <<program, table, serverSocket, refset, fdmax, ctxS>> /\ pc = "receive"
        /\ pc' \in {"receive", "reply"} /\ got' = Append(got, Head(pipe[Peer]))
    BY <1>7 DEF Read, loop, sets
  <2>2. got' # <<>>
    <3>1. got \in Seq(Parts) /\ Peer \in Clients
      BY <2>1 DEF TypeOK, OnConnection, Peer
    <3>2. pipe[Peer] \in Seq(Parts) /\ pipe[Peer] # <<>>
      BY <1>7, <3>1 DEF Read, TypeOK
    <3>3. Head(pipe[Peer]) \in Parts
      BY <3>2, HeadTailType
    <3>4. Len(got') = Len(got) + 1 /\ Len(got) \in Nat
      BY <2>1, <3>1, <3>3, AppendProperties, LenProperties
    <3>5. QED
      BY <3>4
  <2>3. QED
    BY <2>1, <2>2 DEF Fresh, OnConnection, Listening, WatchesAll, Connections
<1>8. CASE ReceiveFails /\ CloseConnection(ctxS) /\ program = "many"
  <2>1. /\ table' = [table EXCEPT ![ctxS] = "nobody"]
        /\ refset' = refset \ {ctxS}
        /\ fdmax' = (IF ctxS = fdmax THEN fdmax - 1 ELSE fdmax)
        /\ pc = "receive" /\ pc' = "scan" /\ UNCHANGED <<program, serverSocket>>
    BY <1>8 DEF CloseConnection, ReceiveFails
  <2>2. ctxS \in Descriptors /\ table[ctxS] \in Clients /\ ctxS \in Int
    BY <1>T, <2>1 DEF OnConnection
  <2>3. \A d \in Descriptors : table'[d] = IF d = ctxS THEN "nobody" ELSE table[d]
    BY <1>T, <2>1
  <2>4. Connections' = Connections \ {ctxS}
    BY <1>N, <2>2, <2>3 DEF Connections
  <2>5. ctxS # serverSocket
    BY <1>N, <1>8, <2>1, <2>2 DEF Listening
  <2>6. Listening'
    BY <1>8, <2>1, <2>3, <2>5 DEF Listening
  <2>7. refset' = Connections' \union {serverSocket'}
    BY <1>8, <2>1, <2>4, <2>5 DEF WatchesAll
  <2>8. \A d \in refset' : d <= fdmax'
    <3>1. \A d \in refset' : d \in Int /\ d <= fdmax /\ d # ctxS
      BY <1>T, <1>8, <2>1 DEF WatchesAll
    <3>2. QED
      BY <1>T, <2>1, <2>2, <3>1
  <2>9. QED
    BY <2>1, <2>6, <2>7, <2>8 DEF Fresh, OnConnection, WatchesAll
<1>9. CASE Reply
  <2>1. UNCHANGED <<program, table, serverSocket, refset, fdmax, ctxS>> /\ pc = "reply"
        /\ (program = "many" => pc' = "scan") /\ pc' \in {"scan", "receive"}
    BY <1>9 DEF Reply, sets
  <2>2. QED
    BY <2>1 DEF Fresh, OnConnection, Listening, WatchesAll, Connections
<1>10. QED
  BY <1>1, <1>2, <1>3, <1>4, <1>5, <1>6, <1>7, <1>8, <1>9
     DEF Next, ServerStep, Sigint, ReceiveFails

-----------------------------------------------------------------------------
(* What is readable stays so while the server reads elsewhere.             *)
LEMMA SamePending ==
  ASSUME IInv, UNCHANGED <<program, pc, table, rdset, masterSocket, ctxS, got>>,
         backlog # <<>> => backlog' # <<>>,
         \A c \in Clients : (\E d \in Descriptors : table[d] = c) /\ Readable(c) => Readable(c)'
  PROVE  Pending'
<1> USE DEF IInv
<1>1. \A d \in Descriptors : Ready(d) => Ready(d)'
  BY DEF Ready
<1>2. rdset \subseteq Descriptors
  BY DEF TypeOK
<1>3. pc = "receive" => ctxS \in Descriptors /\ table[ctxS] \in Clients
  BY DEF OnConnection
<1>4. pc = "receive" /\ Readable(Peer) => Readable(Peer)'
  BY <1>3 DEF Peer
<1>5. QED
  BY <1>1, <1>2, <1>4 DEF Pending

LEMMA PendingKept ==
  ASSUME IInv, [Next]_vars
  PROVE  Pending'
<1> USE DEF IInv
<1>T. /\ table \in [Descriptors -> Clients \union {"nobody", "listener"}]
      /\ rdset \subseteq Descriptors /\ refset \subseteq Descriptors
      /\ Descriptors \subseteq Int /\ masterSocket \in Int
      /\ pipe \in [Clients -> Seq(Parts)]
      /\ conn \in [Clients -> {"none", "open", "shut", "cut"}]
  BY ServersAssumption DEF TypeOK
<1>N. "nobody" \notin Clients /\ "listener" \notin Clients
  BY ServersAssumption
<1>1. CASE Listen \/ ListenFails \/ AcceptOne \/ AcceptOneFails \/ Exit \/ Rescan
  <2>1. \/ pc' \in {"select", "accept", "hung", "exited"}
        \/ pc' = "receive" /\ program' # "many"
    BY <1>1 DEF Listen, ListenFails, AcceptOne, AcceptOneFails, Exit, Rescan, loop, OnlyOneAccepts
  <2>2. QED
    BY <2>1 DEF Pending
<1>2. CASE Select
  <2>1. /\ rdset' = {d \in refset : d <= fdmax /\ Ready(d)} /\ pc' = "scan"
        /\ UNCHANGED <<table, backlog, conn, pipe>>
    BY <1>2 DEF Select, clients
  <2>2. \A d \in rdset' : Ready(d)'
    BY <2>1 DEF Ready, Readable
  <2>3. QED
    BY <2>1, <2>2 DEF Pending
<1>3. CASE Accept
  <2>1. PICK n \in Lowest : table' = [table EXCEPT ![n] = Head(backlog)]
    BY <1>3 DEF Accept
  <2>2. /\ pc = "scan" /\ pc' = "scan" /\ program = "many" /\ masterSocket' = serverSocket + 1
        /\ masterSocket <= serverSocket
        /\ UNCHANGED <<program, serverSocket, rdset, conn, pipe>>
    BY <1>3 DEF Accept, AtReady, clients
  <2>3. n \in Descriptors /\ table[n] = "nobody"
    BY DEF Lowest
  <2>4. \A d \in Descriptors : table'[d] = IF d = n THEN Head(backlog) ELSE table[d]
    BY <1>T, <2>1
  <2>5. ASSUME NEW d \in rdset, masterSocket' <= d
        PROVE  Ready(d)'
    <3>0. serverSocket \in Descriptors /\ serverSocket \in Int /\ d \in Descriptors /\ d \in Int
      BY <1>T, <2>2 DEF Listening
    <3>1. masterSocket <= d /\ d # serverSocket /\ d \in Descriptors
      BY <1>T, <2>2, <2>5, <3>0
    <3>2. Ready(d) /\ table[d] # "listener"
      BY <2>2, <3>1 DEF Pending, Listening
    <3>3. table[d] \in Clients /\ Readable(table[d])
      BY <3>2 DEF Ready
    <3>4. table'[d] = table[d]
      BY <1>N, <2>3, <2>4, <3>1, <3>3
    <3>5. QED
      BY <1>N, <2>2, <3>3, <3>4 DEF Ready, Readable
  <2>6. QED
    BY <2>2, <2>5 DEF Pending
<1>4. CASE AcceptError
  <2>1. /\ pc = "scan" /\ pc' = "scan" /\ program = "many" /\ masterSocket' = serverSocket + 1
        /\ masterSocket <= serverSocket
        /\ UNCHANGED <<program, table, rdset, backlog, conn, pipe>>
    BY <1>4 DEF AcceptError, AtReady, sets, clients
  <2>2. ASSUME NEW d \in rdset, masterSocket' <= d
        PROVE  Ready(d)'
    <3>1. serverSocket \in Int /\ d \in Int
      BY <1>T, <2>1 DEF Listening
    <3>2. masterSocket <= d
      BY <1>T, <2>1, <2>2, <3>1
    <3>3. Ready(d)
      BY <2>1, <3>2 DEF Pending
    <3>4. QED
      BY <2>1, <3>3 DEF Ready, Readable
  <2>3. QED
    BY <2>1, <2>2 DEF Pending
<1>5. ASSUME NEW s \in Descriptors, SetSocket(s)
      PROVE  Pending'
  <2>1. /\ pc = "scan" /\ pc' = "receive" /\ program = "many" /\ ctxS' = s /\ masterSocket' = s
        /\ UNCHANGED <<program, table, rdset, backlog, conn, pipe>>
    BY <1>5 DEF SetSocket, AtReady, sets, clients
  <2>2. s \in rdset /\ masterSocket <= s /\ s # serverSocket
    BY <1>5 DEF SetSocket, AtReady
  <2>3. \A d \in rdset : masterSocket' < d => Ready(d)'
    <3>1. \A d \in rdset : s < d => masterSocket <= d
      BY <1>T, <2>2
    <3>2. QED
      BY <2>1, <3>1 DEF Pending, Ready, Readable
  <2>4. Ready(s) /\ table[s] # "listener"
    BY <2>1, <2>2 DEF Pending, Listening
  <2>5. Readable(Peer)'
    BY <2>1, <2>4 DEF Ready, Readable, Peer
  <2>6. QED
    BY <2>1, <2>3, <2>5 DEF Pending
<1>6. CASE Read
  <2>1. /\ pc = "receive" /\ pc' \in {"receive", "reply"}
        /\ UNCHANGED <<program, table, rdset, masterSocket, ctxS, backlog, conn>>
        /\ pipe' = [pipe EXCEPT ![Peer] = Tail(@)] /\ got' = Append(got, Head(pipe[Peer]))
    BY <1>6 DEF Read, loop, sets
  <2>2. ctxS \in Descriptors /\ Peer = table[ctxS] /\ Peer \in Clients
    BY <2>1 DEF OnConnection, Peer
  <2>3. got' # <<>>
    <3>1. got \in Seq(Parts) /\ pipe[Peer] \in Seq(Parts) /\ pipe[Peer] # <<>>
      BY <1>6, <2>2 DEF Read, TypeOK
    <3>2. Head(pipe[Peer]) \in Parts
      BY <3>1, HeadTailType
    <3>3. Len(got') = Len(got) + 1 /\ Len(got) \in Nat
      BY <2>1, <3>1, <3>2, AppendProperties, LenProperties
    <3>4. QED
      BY <3>3
  <2>4. ASSUME NEW d \in rdset, program = "many", masterSocket < d
        PROVE  Ready(d)'
    <3>1. Ready(d) /\ d \in Descriptors /\ d # ctxS
      BY <1>T, <2>1, <2>4 DEF Pending
    <3>2. table[d] \in Clients => pipe'[table[d]] = pipe[table[d]]
      <4>1. table[d] \in Clients => table[d] # Peer
        BY <2>2, <3>1 DEF OneEach
      <4>2. QED
        BY <1>T, <2>1, <4>1
    <3>3. QED
      BY <2>1, <3>1, <3>2 DEF Ready, Readable
  <2>5. QED
    BY <2>1, <2>3, <2>4 DEF Pending
<1>7. CASE ReceiveFails /\ CloseConnection(ctxS) /\ program = "many"
  <2> DEFINE gone == {table[ctxS]} \cap Clients
  <2>1. /\ table' = [table EXCEPT ![ctxS] = "nobody"] /\ Ended(gone)
        /\ pc = "receive" /\ pc' = "scan" /\ masterSocket' = ctxS + 1
        /\ UNCHANGED <<program, rdset, backlog>>
    BY <1>7 DEF CloseConnection, ReceiveFails
  <2>2. ctxS \in Descriptors /\ table[ctxS] \in Clients /\ ctxS \in Int /\ masterSocket = ctxS
    BY <1>T, <1>7, <2>1 DEF OnConnection, Pending
  <2>3. \A d \in Descriptors : table'[d] = IF d = ctxS THEN "nobody" ELSE table[d]
    BY <1>T, <2>1
  <2>4. ASSUME NEW d \in rdset, masterSocket' <= d
        PROVE  Ready(d)'
    <3>1. d \in Descriptors /\ d \in Int /\ masterSocket < d /\ d # ctxS
      BY <1>T, <2>1, <2>2, <2>4
    <3>2. Ready(d) /\ table'[d] = table[d]
      BY <1>7, <2>1, <2>3, <3>1 DEF Pending
    <3>3. table[d] \in Clients => table[d] \notin gone
      BY <2>2, <3>1 DEF OneEach
    <3>4. table[d] \in Clients => conn'[table[d]] = conn[table[d]] /\ pipe'[table[d]] = pipe[table[d]]
      BY <2>1, <3>3 DEF Ended
    <3>5. QED
      BY <2>1, <3>2, <3>4 DEF Ready, Readable
  <2>5. QED
    BY <2>1, <2>4 DEF Pending
<1>8. CASE Reply
  <2>1. /\ pc = "reply" /\ UNCHANGED <<program, table, rdset, backlog, conn, pipe>>
        /\ program = "many" => pc' = "scan" /\ masterSocket' = ctxS + 1
    BY <1>8 DEF Reply, sets
  <2>2. ASSUME program = "many", NEW d \in rdset, masterSocket' <= d
        PROVE  Ready(d)'
    <3>1. ctxS \in Int /\ d \in Int /\ masterSocket = ctxS
      BY <1>T, <2>1, <2>2 DEF OnConnection, Pending
    <3>2. masterSocket < d
      BY <2>1, <2>2, <3>1
    <3>3. Ready(d)
      BY <2>1, <2>2, <3>2 DEF Pending
    <3>4. QED
      BY <2>1, <3>3 DEF Ready, Readable
  <2>3. QED
    BY <2>1, <2>2 DEF Pending
<1>9. ASSUME NEW c \in Clients, ClientStep(c)
      PROVE  Pending'
  <2>1. UNCHANGED <<program, pc, table, rdset, masterSocket, ctxS, got>>
    BY <1>9 DEF ClientStep, Connect, Send, SendRest, ReadAnswer, Shut, loop, sets
  <2>2. backlog # <<>> => backlog' # <<>>
    <3>1. CASE Connect(c)
      <4>1. backlog' = Append(backlog, c) /\ backlog \in Seq(Clients)
        BY <3>1 DEF Connect, TypeOK
      <4>2. Len(backlog') = Len(backlog) + 1 /\ Len(backlog) \in Nat
        BY <4>1, AppendProperties, LenProperties
      <4>3. QED
        BY <4>2
    <3>2. QED
      BY <1>9, <3>1 DEF ClientStep, Send, SendRest, ReadAnswer, Shut
  <2>3. ASSUME NEW b \in Clients, NEW d \in Descriptors, table[d] = b, Readable(b)
        PROVE  Readable(b)'
    <3>1. CASE Send(c, 1) \/ Send(c, 2)
      <4>1. PICK n \in {1, 2} :
              pipe' = [pipe EXCEPT ![c] =
                         @ \o SubSeq(<<<<NextId(c), "begin">>, <<NextId(c), "end">>>>, 1, n)]
        BY <3>1 DEF Send
      <4>2. conn' = conn
        BY <3>1 DEF Send
      <4> DEFINE more == SubSeq(<<<<NextId(c), "begin">>, <<NextId(c), "end">>>>, 1, n)
      <4>3. pipe[c] # <<>> => pipe[c] \o more # <<>>
        <5>1. pipe[c] \in Seq(Parts) /\ more \in Seq(Parts)
          BY <1>T, NextParts
        <5> HIDE DEF more
        <5>2. Len(pipe[c] \o more) = Len(pipe[c]) + Len(more) /\ Len(pipe[c]) \in Nat
              /\ Len(more) \in Nat
          BY <5>1, ConcatProperties, LenProperties
        <5>3. pipe[c] # <<>> => Len(pipe[c]) # 0
          BY <5>1, EmptySeq
        <5>4. QED
          BY <5>2, <5>3
      <4>4. QED
        BY <1>T, <2>3, <4>1, <4>2, <4>3 DEF Readable
    <3>2. CASE SendRest(c)
      <4>1. PICK p \in Half(c) : pipe' = [pipe EXCEPT ![c] = Append(@, <<p[1], "end">>)]
        BY <3>2 DEF SendRest
      <4>2. conn' = conn /\ pipe[c] \in Seq(Parts)
        BY <1>T, <3>2 DEF SendRest
      <4>3. Append(pipe[c], <<p[1], "end">>) # <<>>
        BY <4>2, HalfParts, AppendIsMore
      <4>4. QED
        BY <1>T, <2>3, <4>1, <4>2, <4>3 DEF Readable
    <3>3. CASE ReadAnswer(c)
      BY <2>3, <3>3 DEF ReadAnswer, Readable
    <3>4. CASE Connect(c)
      <4>1. conn[c] = "none" /\ pipe' = pipe /\ conn' = [conn EXCEPT ![c] = "open"]
        BY <3>4 DEF Connect
      <4>2. b # c
        BY <2>3, <4>1 DEF OneEach
      <4>3. QED
        BY <1>T, <2>3, <4>1, <4>2 DEF Readable
    <3>5. CASE Shut(c)
      <4>1. conn[c] \in {"open", "cut"} /\ pipe' = pipe
        BY <3>5 DEF Shut
      <4>2. conn' = [conn EXCEPT ![c] = IF @ = "cut" THEN "none" ELSE "shut"]
        BY <3>5 DEF Shut
      <4>3. conn[b] # "cut"
        BY <2>3 DEF OneEach
      <4>4. conn'[b] = conn[b] \/ conn'[b] = "shut"
        BY <1>T, <4>2, <4>3
      <4>5. QED
        BY <2>3, <4>1, <4>4 DEF Readable
    <3>6. QED
      BY <1>9, <3>1, <3>2, <3>3, <3>4, <3>5 DEF ClientStep
  <2>4. QED
    BY <2>1, <2>2, <2>3, SamePending
<1>10. CASE UNCHANGED vars
  BY <1>10, SamePending DEF vars, Readable
<1>11. QED
  BY <1>1, <1>2, <1>3, <1>4, <1>5, <1>6, <1>7, <1>8, <1>9, <1>10
     DEF Next, ServerStep, Sigint, ReceiveFails
-----------------------------------------------------------------------------
LEMMA Initially ==
  ASSUME Init
  PROVE  IInv
<1> USE DEF Init
<1>1. TypeOK
  BY DEF TypeOK
<1>2. OneEach
  BY ServersAssumption DEF OneEach
<1>3. QED
  BY <1>1, <1>2 DEF IInv, OnlyOneAccepts, Fresh, OnConnection, Listening, WatchesAll, Pending

LEMMA Inductive ==
  ASSUME IInv, [Next]_vars
  PROVE  IInv'
<1>1. OnlyOneAccepts'
  <2>1. (pc' = "accept" => pc = "accept" \/ program = "one") /\ UNCHANGED program
    <3>1. CASE ServerStep \/ Sigint
      BY <3>1 DEF ServerStep, Sigint, Listen, ListenFails, Select, Rescan, Accept,
           AcceptError, SetSocket, AcceptOne, AcceptOneFails, Read, ReceiveFails,
           CloseConnection, Exit, Reply, loop, IInv, TypeOK
    <3>2. CASE \E c \in Clients : ClientStep(c)
      BY <3>2 DEF ClientStep, Connect, Send, SendRest, ReadAnswer, Shut, loop
    <3>3. CASE UNCHANGED vars
      BY <3>3 DEF vars
    <3>4. QED
      BY <3>1, <3>2, <3>3 DEF Next
  <2>2. QED
    BY <2>1 DEF IInv, OnlyOneAccepts
<1>2. QED
  BY <1>1, Types, OneEachKept, WatchesKept, PendingKept DEF IInv

LEMMA Invariance == Spec => []IInv
<1>1. Init => IInv
  BY Initially
<1>2. IInv /\ [Next]_vars => IInv'
  BY Inductive
<1>3. QED
  BY <1>1, <1>2, PTL DEF Spec

(* The variables of both server programs, and what clients send and read,  *)
(* keep their types.                                                       *)
THEOREM TypeCorrect == Spec => []TypeOK
<1>1. IInv => TypeOK
  BY DEF IInv
<1>2. QED
  BY <1>1, Invariance, PTL

(* The set the server hands to select is its listening socket and the open *)
(* connections, within fdmax, whatever opens and closes meanwhile.         *)
THEOREM WatchesAllDescriptors == Spec => []WatchesAll
<1>1. IInv => WatchesAll
  BY DEF IInv
<1>2. QED
  BY <1>1, Invariance, PTL

(* The server of many clients blocks neither in accept nor in the first    *)
(* read of modbus_receive: what select reported still holds when the loop  *)
(* gets there.                                                             *)
THEOREM IdleNeverBlocks == Spec => []NeverWaitsForIdle
<1>1. ASSUME IInv
      PROVE  NeverWaitsForIdle
  <2>1. ASSUME program = "many", AtReady(serverSocket)
        PROVE  backlog # <<>>
    <3>1. pc = "scan" /\ serverSocket \in rdset /\ masterSocket <= serverSocket
      BY <2>1 DEF AtReady
    <3>2. Ready(serverSocket) /\ table[serverSocket] = "listener"
      BY <1>1, <2>1, <3>1 DEF IInv, Pending, Listening
    <3>3. QED
      BY <3>2 DEF Ready
  <2>2. ASSUME program = "many", pc = "receive", got = <<>>
        PROVE  Peer \in Clients /\ Readable(Peer)
    BY <1>1, <2>2 DEF IInv, Pending, OnConnection, Peer
  <2>3. QED
    BY <2>1, <2>2 DEF NeverWaitsForIdle
<1>2. QED
  BY <1>1, Invariance, PTL
-----------------------------------------------------------------------------
(* What a client waits for, what it can read, and what it sent unanswered. *)
Matches(e, a, s) ==
  /\ Len(e) = Len(a) + (Len(s) + 1) \div 2
  /\ \A k \in 1..Len(a) : a[k] = e[k]
  /\ \A k \in 1..Len(s) :
       s[k] = <<e[Len(a) + (k + 1) \div 2], IF k % 2 = 1 THEN "begin" ELSE "end">>

Alternates(s) ==
  \A k \in 1..Len(s) : s[k][2] = IF k % 2 = 1 THEN "begin" ELSE "end"

(* A client that closed waits for nothing, though what it sent is still    *)
(* read; of a connection the server ended nothing is left to read.         *)
Own(c) ==
  /\ conn[c] \in {"none", "cut"} => pipe[c] = <<>>
  /\ conn[c] \in {"none", "shut"} => answers[c] = <<>> /\ expect[c] = <<>>
  /\ conn[c] = "shut" => Alternates(Unanswered(c))
  /\ conn[c] = "open" => Matches(expect[c], answers[c], Unanswered(c))

ServeInv ==
  /\ IInv
  /\ pc = "receive" => Len(got) \in {0, 1}
  /\ pc = "reply" => Len(got) = 2
  /\ \A c \in Clients : Own(c)

LEMMA MatchesEmpty == Matches(<<>>, <<>>, <<>>)
<1>1. Len(<<>>) = 0 /\ 1 \div 2 = 0
  OBVIOUS
<1>2. QED
  BY <1>1 DEF Matches

LEMMA MatchesAlternates ==
  ASSUME NEW e, NEW a, NEW s, Matches(e, a, s)
  PROVE  Alternates(s)
BY DEF Matches, Alternates

(* A request of which n parts are sent, after whole ones.                  *)
LEMMA MatchesSend ==
  ASSUME NEW e \in Seq(Ids), NEW a \in Seq(Ids), NEW s \in Seq(Parts), NEW i \in Ids,
         NEW n \in {1, 2}, NEW t \in Seq(Parts), Matches(e, a, s), Len(s) % 2 = 0,
         Len(t) = Len(s) + n, \A k \in 1..Len(s) : t[k] = s[k],
         t[Len(s) + 1] = <<i, "begin">>, n = 2 => t[Len(s) + 2] = <<i, "end">>
  PROVE  Matches(Append(e, i), a, t)
<1> DEFINE f == Append(e, i)
<1>1. /\ Len(f) = Len(e) + 1 /\ f[Len(e) + 1] = i /\ \A k \in 1..Len(e) : f[k] = e[k]
      /\ Len(e) \in Nat /\ Len(a) \in Nat /\ Len(s) \in Nat
  BY AppendProperties, LenProperties
<1> HIDE DEF f
<1>2. /\ Len(e) = Len(a) + (Len(s) + 1) \div 2
      /\ \A k \in 1..Len(a) : a[k] = e[k]
      /\ \A k \in 1..Len(s) :
           s[k] = <<e[Len(a) + (k + 1) \div 2], IF k % 2 = 1 THEN "begin" ELSE "end">>
  BY DEF Matches
<1>3. PICK m \in Nat : Len(s) = 2 * m
  <2>1. Len(s) = 2 * (Len(s) \div 2) /\ Len(s) \div 2 \in Nat
    BY <1>1
  <2>2. QED
    BY <2>1
<1>4. Len(f) = Len(a) + (Len(t) + 1) \div 2
  <2>1. (2 * m + 1) \div 2 = m /\ (2 * m + 2) \div 2 = m + 1 /\ (2 * m + 3) \div 2 = m + 1
    BY <1>3
  <2>2. Len(e) = Len(a) + m
    BY <1>2, <1>3, <2>1
  <2>3. Len(t) = 2 * m + 1 \/ Len(t) = 2 * m + 2
    BY <1>3
  <2>4. (Len(t) + 1) \div 2 = m + 1
    BY <1>3, <2>1, <2>3
  <2>5. Len(f) = Len(a) + (m + 1)
    <3>1. \A x, y \in Nat : (x + y) + 1 = x + (y + 1)
      OBVIOUS
    <3>2. Len(f) = Len(e) + 1 /\ Len(a) \in Nat
      BY <1>1
    <3>3. QED
      BY <1>3, <2>2, <3>1, <3>2, Zenon
  <2>6. QED
    BY <2>4, <2>5
<1>5. \A k \in 1..Len(a) : a[k] = f[k]
  BY <1>1, <1>2
<1>6. ASSUME NEW k \in 1..Len(t)
      PROVE  t[k] = <<f[Len(a) + (k + 1) \div 2], IF k % 2 = 1 THEN "begin" ELSE "end">>
  <2>1. CASE k \in 1..Len(s)
    <3>1. Len(a) + (k + 1) \div 2 \in 1..Len(e)
      <4>1. k \in 1..(2 * m) /\ (2 * m + 1) \div 2 = m
        BY <1>3, <2>1
      <4>2. Len(e) = Len(a) + m
        BY <1>2, <1>3, <4>1
      <4>3. (k + 1) \div 2 \in 1..m
        BY <4>1
      <4>4. QED
        BY <1>1, <4>2, <4>3
    <3>2. f[Len(a) + (k + 1) \div 2] = e[Len(a) + (k + 1) \div 2]
      BY <1>1, <3>1
    <3>3. t[k] = s[k]
      BY <2>1
    <3>4. QED
      BY <1>2, <2>1, <3>2, <3>3
  <2>2. CASE k = Len(s) + 1
    <3>1. k % 2 = 1 /\ Len(a) + (k + 1) \div 2 = Len(e) + 1
      BY <1>1, <1>2, <1>3, <2>2
    <3>2. QED
      BY <1>1, <2>2, <3>1
  <2>3. CASE k = Len(s) + 2 /\ n = 2
    <3>1. k % 2 = 0 /\ Len(a) + (k + 1) \div 2 = Len(e) + 1
      BY <1>1, <1>2, <1>3, <2>3
    <3>2. QED
      BY <1>1, <2>3, <3>1
  <2>4. QED
    BY <1>1, <1>6, <2>1, <2>2, <2>3
<1>7. QED
  BY <1>4, <1>5, <1>6 DEF Matches, f

(* The second part of the last request.                                    *)
LEMMA MatchesRest ==
  ASSUME NEW e \in Seq(Ids), NEW a \in Seq(Ids), NEW s \in Seq(Parts), NEW t \in Seq(Parts),
         Matches(e, a, s), Len(s) % 2 = 1,
         Len(t) = Len(s) + 1, \A k \in 1..Len(s) : t[k] = s[k],
         t[Len(s) + 1] = <<s[Len(s)][1], "end">>
  PROVE  Matches(e, a, t)
<1>1. /\ Len(e) \in Nat /\ Len(a) \in Nat /\ Len(s) \in Nat
  BY LenProperties
<1>2. /\ Len(e) = Len(a) + (Len(s) + 1) \div 2
      /\ \A k \in 1..Len(a) : a[k] = e[k]
      /\ \A k \in 1..Len(s) :
           s[k] = <<e[Len(a) + (k + 1) \div 2], IF k % 2 = 1 THEN "begin" ELSE "end">>
  BY DEF Matches
<1>3. /\ (Len(s) + 1 + 1) \div 2 = (Len(s) + 1) \div 2 /\ (Len(s) + 1) % 2 = 0
      /\ Len(s) \in 1..Len(s)
  BY <1>1
<1>4. Len(e) = Len(a) + (Len(t) + 1) \div 2
  BY <1>2, <1>3
<1>5. ASSUME NEW k \in 1..Len(t)
      PROVE  t[k] = <<e[Len(a) + (k + 1) \div 2], IF k % 2 = 1 THEN "begin" ELSE "end">>
  <2>1. CASE k \in 1..Len(s)
    BY <1>2, <2>1
  <2>2. CASE k = Len(s) + 1
    <3> DEFINE x == e[Len(a) + (Len(s) + 1) \div 2]
    <3>1. s[Len(s)] = <<x, IF Len(s) % 2 = 1 THEN "begin" ELSE "end">>
      BY <1>2, <1>3
    <3> HIDE DEF x
    <3>2. s[Len(s)][1] = x
      BY <3>1
    <3>3. k % 2 = 0 /\ (k + 1) \div 2 = (Len(s) + 1) \div 2
      BY <1>1, <1>3, <2>2
    <3>4. t[k] = <<x, "end">>
      BY <2>2, <3>2
    <3>5. x = e[Len(a) + (k + 1) \div 2]
      BY <3>3 DEF x
    <3>6. QED
      BY <3>3, <3>4, <3>5
  <2>3. QED
    BY <1>1, <1>5, <2>1, <2>2
<1>6. QED
  BY <1>2, <1>4, <1>5 DEF Matches

LEMMA MatchesRead ==
  ASSUME NEW e \in Seq(Ids), NEW a \in Seq(Ids), NEW s \in Seq(Parts), Matches(e, a, s),
         a # <<>>, e # <<>>
  PROVE  Matches(Tail(e), Tail(a), s)
<1> DEFINE f == Tail(e)  b == Tail(a)
<1>1. /\ Len(e) \in Nat \ {0} /\ Len(a) \in Nat \ {0} /\ Len(s) \in Nat
      /\ Len(f) = Len(e) - 1 /\ \A k \in 1..Len(f) : f[k] = e[k + 1]
      /\ Len(b) = Len(a) - 1 /\ \A k \in 1..Len(b) : b[k] = a[k + 1]
  BY HeadTailType, LenProperties
<1> HIDE DEF f, b
<1>2. /\ Len(e) = Len(a) + (Len(s) + 1) \div 2
      /\ \A k \in 1..Len(a) : a[k] = e[k]
      /\ \A k \in 1..Len(s) :
           s[k] = <<e[Len(a) + (k + 1) \div 2], IF k % 2 = 1 THEN "begin" ELSE "end">>
  BY DEF Matches
<1>3. Len(f) = Len(b) + (Len(s) + 1) \div 2
  BY <1>1, <1>2
<1>4. ASSUME NEW k \in 1..Len(b)
      PROVE  b[k] = f[k]
  <2>1. k + 1 \in 1..Len(a) /\ k \in 1..Len(f)
    BY <1>1, <1>3
  <2>2. QED
    BY <1>1, <1>2, <2>1
<1>5. ASSUME NEW k \in 1..Len(s)
      PROVE  s[k] = <<f[Len(b) + (k + 1) \div 2], IF k % 2 = 1 THEN "begin" ELSE "end">>
  <2>1. /\ Len(b) + (k + 1) \div 2 \in 1..Len(f)
        /\ Len(b) + (k + 1) \div 2 + 1 = Len(a) + (k + 1) \div 2
    BY <1>1, <1>3
  <2>2. f[Len(b) + (k + 1) \div 2] = e[Len(a) + (k + 1) \div 2]
    BY <1>1, <2>1
  <2>3. QED
    BY <1>2, <2>2
<1>6. QED
  BY <1>3, <1>4, <1>5 DEF Matches, f, b

LEMMA AlternatesRest ==
  ASSUME NEW s \in Seq(Parts), NEW t \in Seq(Parts), Alternates(s),
         Len(s) = Len(t) + 2, \A k \in 1..Len(t) : t[k] = s[k + 2]
  PROVE  Alternates(t)
<1>1. Len(t) \in Nat
  BY LenProperties
<1>2. ASSUME NEW k \in 1..Len(t)
      PROVE  t[k][2] = IF k % 2 = 1 THEN "begin" ELSE "end"
  <2>1. k + 2 \in 1..Len(s) /\ (k + 2) % 2 = k % 2
    BY <1>1
  <2>2. QED
    BY <2>1 DEF Alternates
<1>3. QED
  BY <1>2 DEF Alternates

(* The first request is answered.                                          *)
LEMMA MatchesReply ==
  ASSUME NEW e \in Seq(Ids), NEW a \in Seq(Ids), NEW s \in Seq(Parts), NEW t \in Seq(Parts),
         Matches(e, a, s), Len(s) = Len(t) + 2, \A k \in 1..Len(t) : t[k] = s[k + 2],
         s[1][1] \in Ids
  PROVE  Matches(e, Append(a, s[1][1]), t)
<1> DEFINE b == Append(a, s[1][1])
<1>1. /\ Len(e) \in Nat /\ Len(a) \in Nat /\ Len(t) \in Nat /\ Len(b) = Len(a) + 1
      /\ b[Len(a) + 1] = s[1][1] /\ \A k \in 1..Len(a) : b[k] = a[k]
  BY AppendProperties, LenProperties
<1> HIDE DEF b
<1>2. /\ Len(e) = Len(a) + (Len(s) + 1) \div 2
      /\ \A k \in 1..Len(a) : a[k] = e[k]
      /\ \A k \in 1..Len(s) :
           s[k] = <<e[Len(a) + (k + 1) \div 2], IF k % 2 = 1 THEN "begin" ELSE "end">>
  BY DEF Matches
<1>3. (Len(t) + 2 + 1) \div 2 = (Len(t) + 1) \div 2 + 1
  BY <1>1
<1>4. Len(e) = Len(b) + (Len(t) + 1) \div 2
  BY <1>1, <1>2, <1>3
<1>5. s[1][1] = e[Len(a) + 1]
  <2>1. 1 \in 1..Len(s) /\ (1 + 1) \div 2 = 1
    BY <1>1
  <2>2. QED
    BY <1>2, <2>1
<1>6. ASSUME NEW k \in 1..Len(b)
      PROVE  b[k] = e[k]
  <2>1. k \in 1..Len(a) \/ k = Len(a) + 1
    BY <1>1
  <2>2. QED
    BY <1>1, <1>2, <1>5, <2>1
<1>7. ASSUME NEW k \in 1..Len(t)
      PROVE  t[k] = <<e[Len(b) + (k + 1) \div 2], IF k % 2 = 1 THEN "begin" ELSE "end">>
  <2>1. /\ k + 2 \in 1..Len(s) /\ (k + 2) % 2 = k % 2
        /\ Len(a) + (k + 2 + 1) \div 2 = Len(b) + (k + 1) \div 2
    BY <1>1
  <2>2. s[k + 2] = <<e[Len(a) + (k + 2 + 1) \div 2], IF (k + 2) % 2 = 1 THEN "begin" ELSE "end">>
    BY <1>2, <2>1
  <2>3. QED
    BY <2>1, <2>2
<1>8. QED
  BY <1>4, <1>6, <1>7 DEF Matches, b

-----------------------------------------------------------------------------
(* The parts being served, before those still to be read.                  *)
LEMMA JoinOf ==
  ASSUME NEW x \in Seq(Parts), NEW y \in Seq(Parts)
  PROVE  /\ x \o y \in Seq(Parts) /\ Len(x \o y) = Len(x) + Len(y)
         /\ Len(x) \in Nat /\ Len(y) \in Nat
         /\ \A k \in 1..Len(x) : (x \o y)[k] = x[k]
         /\ \A k \in 1..Len(y) : (x \o y)[Len(x) + k] = y[k]
<1> DEFINE q == x \o y
<1>1. /\ q \in Seq(Parts) /\ Len(q) = Len(x) + Len(y) /\ Len(x) \in Nat /\ Len(y) \in Nat
      /\ \A k \in 1..Len(q) : q[k] = IF k <= Len(x) THEN x[k] ELSE y[k - Len(x)]
  BY ConcatProperties, LenProperties
<1> HIDE DEF q
<1>2. ASSUME NEW k \in 1..Len(x) PROVE q[k] = x[k]
  BY <1>1
<1>3. ASSUME NEW k \in 1..Len(y) PROVE q[Len(x) + k] = y[k]
  <2>1. Len(x) + k \in 1..Len(q) /\ ~(Len(x) + k <= Len(x)) /\ Len(x) + k - Len(x) = k
    BY <1>1
  <2>2. QED
    BY <1>1, <2>1
<1>4. QED
  BY <1>1, <1>2, <1>3 DEF q

LEMMA Regroup ==
  ASSUME NEW a \in Seq(Parts), NEW b \in Seq(Parts), NEW c \in Seq(Parts)
  PROVE  (a \o b) \o c = a \o (b \o c)
BY ConcatAssociative

(* The first part still to be read becomes the last one read.              *)
LEMMA JoinShift ==
  ASSUME NEW s \in Seq(Parts), NEW p \in Seq(Parts), p # <<>>
  PROVE  Append(s, Head(p)) \o Tail(p) = s \o p
<1> DEFINE h == Head(p)  r == Tail(p)  g == Append(s, h)  x == g \o r  y == s \o p
<1>1. /\ h \in Parts /\ h = p[1] /\ r \in Seq(Parts)
      /\ Len(p) \in Nat \ {0} /\ Len(r) = Len(p) - 1
      /\ \A k \in 1..Len(r) : r[k] = p[k + 1]
  BY HeadTailType
<1> HIDE DEF h, r
<1>2. /\ g \in Seq(Parts) /\ Len(g) = Len(s) + 1 /\ g[Len(s) + 1] = h /\ Len(s) \in Nat
      /\ \A k \in 1..Len(s) : g[k] = s[k]
  BY <1>1, AppendProperties, LenProperties
<1> HIDE DEF g
<1>3. /\ x \in Seq(Parts) /\ Len(x) = Len(g) + Len(r)
      /\ \A k \in 1..Len(g) : x[k] = g[k]
      /\ \A k \in 1..Len(r) : x[Len(g) + k] = r[k]
  BY <1>1, <1>2, JoinOf
<1>4. /\ y \in Seq(Parts) /\ Len(y) = Len(s) + Len(p)
      /\ \A k \in 1..Len(s) : y[k] = s[k]
      /\ \A k \in 1..Len(p) : y[Len(s) + k] = p[k]
  BY JoinOf
<1> HIDE DEF x, y
<1>5. Len(x) = Len(y)
  BY <1>1, <1>2, <1>3, <1>4
<1>6. ASSUME NEW k \in 1..Len(x)
      PROVE  x[k] = y[k]
  <2>1. CASE k \in 1..Len(s)
    <3>1. k \in 1..Len(g)
      BY <1>2, <2>1
    <3>2. QED
      BY <1>2, <1>3, <1>4, <2>1, <3>1
  <2>2. CASE k = Len(s) + 1
    <3>1. k \in 1..Len(g) /\ 1 \in 1..Len(p)
      BY <1>1, <1>2, <2>2
    <3>2. x[k] = h /\ y[k] = p[1]
      BY <1>2, <1>3, <1>4, <2>2, <3>1
    <3>3. QED
      BY <1>1, <3>2
  <2>3. CASE ~(k <= Len(s) + 1)
    <3> DEFINE j == k - Len(s) - 1
    <3>1. j \in 1..Len(r) /\ j + 1 \in 1..Len(p) /\ Len(g) + j = k /\ Len(s) + (j + 1) = k
      BY <1>1, <1>2, <1>3, <1>6, <2>3
    <3> HIDE DEF j
    <3>2. x[k] = r[j] /\ y[k] = p[j + 1]
      BY <1>3, <1>4, <3>1
    <3>3. QED
      BY <1>1, <3>1, <3>2
  <2>4. QED
    BY <1>2, <1>6, <2>1, <2>2, <2>3
<1>7. x = y
  BY <1>3, <1>4, <1>5, <1>6, SeqEqual
<1>8. QED
  BY <1>7 DEF x, y, g, r, h

LEMMA UnansweredOf ==
  ASSUME TypeOK, NEW c \in Clients
  PROVE  /\ InService(c) \in Seq(Parts) /\ pipe[c] \in Seq(Parts)
         /\ Unanswered(c) \in Seq(Parts)
         /\ answers[c] \in Seq(Ids) /\ expect[c] \in Seq(Ids)
<1>1. InService(c) \in Seq(Parts) /\ pipe[c] \in Seq(Parts)
  BY EmptySeq DEF TypeOK, InService
<1>2. Unanswered(c) \in Seq(Parts)
  BY <1>1, JoinOf DEF Unanswered
<1>3. QED
  BY <1>1, <1>2 DEF TypeOK

(* Whoever is being served is on a descriptor, open or closed by itself.   *)
LEMMA PeerOpen ==
  ASSUME IInv, pc \in {"receive", "reply"}
  PROVE  Peer \in Clients /\ conn[Peer] \in {"open", "shut"} /\ ctxS \in Descriptors
<1>1. ctxS \in Descriptors /\ table[ctxS] \in Clients
  BY DEF IInv, OnConnection
<1>2. conn[table[ctxS]] \notin {"none", "cut"}
  BY <1>1 DEF IInv, OneEach
<1>3. QED
  BY <1>1, <1>2 DEF IInv, TypeOK, Peer

LEMMA OwnAlternates ==
  ASSUME NEW c \in Clients, Own(c), conn[c] \in {"open", "shut"}
  PROVE  Alternates(Unanswered(c))
BY MatchesAlternates DEF Own

LEMMA OwnKept ==
  ASSUME NEW c \in Clients, Own(c), conn'[c] = conn[c], pipe'[c] = pipe[c],
         answers'[c] = answers[c], expect'[c] = expect[c], InService(c)' = InService(c)
  PROVE  Own(c)'
BY DEF Own, Unanswered

LEMMA OwnEnded ==
  ASSUME NEW gone, Ended(gone), NEW c \in Clients, Own(c),
         c \notin gone => InService(c)' = InService(c)
  PROVE  Own(c)'
<1>1. answers' = answers /\ expect' = expect
  BY DEF Ended
<1>2. CASE c \in gone
  <2>1. pipe'[c] = <<>> /\ conn'[c] = IF conn[c] = "shut" THEN "none" ELSE "cut"
    BY <1>2 DEF Ended
  <2>2. QED
    BY <1>1, <2>1 DEF Own
<1>3. CASE c \notin gone
  <2>1. pipe'[c] = pipe[c] /\ conn'[c] = conn[c]
    BY <1>3 DEF Ended
  <2>2. QED
    BY <1>1, <1>3, <2>1, OwnKept
<1>4. QED
  BY <1>2, <1>3

(* Steps of the server between two requests.                               *)
LEMMA OwnQuiet ==
  ASSUME ServeInv, UNCHANGED clients, pc \notin {"receive", "reply"},
         pc' \in {"receive", "reply"} => got' = <<>>
  PROVE  \A c \in Clients : Own(c)'
<1>1. UNCHANGED <<conn, pipe, answers, expect>>
  BY DEF clients
<1>2. \A c \in Clients : InService(c)' = <<>> /\ InService(c) = <<>>
  BY DEF InService
<1>3. QED
  BY <1>1, <1>2, OwnKept DEF ServeInv

LEMMA OwnExit ==
  ASSUME ServeInv, Exit
  PROVE  \A c \in Clients : Own(c)'
<1>1. pc' = "exited" /\ Ended(AllOfServer)
  BY DEF Exit
<1>2. SUFFICES ASSUME NEW c \in Clients PROVE Own(c)'
  OBVIOUS
<1>3. c \notin AllOfServer => InService(c) = <<>>
  <2>1. pc \in {"receive", "reply"} => Peer = table[ctxS] /\ ctxS \in Descriptors
    BY PeerOpen DEF ServeInv, Peer
  <2>2. QED
    BY <2>1 DEF AllOfServer, InService
<1>4. InService(c)' = <<>>
  BY <1>1 DEF InService
<1>5. QED
  BY <1>1, <1>3, <1>4, OwnEnded DEF ServeInv

(* modbus_receive moves a part from the connection to the request.         *)
LEMMA OwnRead ==
  ASSUME ServeInv, Read
  PROVE  /\ \A c \in Clients : Own(c)'
         /\ pc' = "receive" => Len(got') \in {0, 1}
         /\ pc' = "reply" => Len(got') = 2
<1> DEFINE h == Head(pipe[Peer])
<1>1. /\ pc = "receive" /\ pipe[Peer] # <<>> /\ got' = Append(got, h)
      /\ pipe' = [pipe EXCEPT ![Peer] = Tail(@)]
      /\ pc' = IF h[2] = "end" THEN "reply" ELSE "receive"
      /\ UNCHANGED <<table, ctxS, conn, answers, expect>>
  BY DEF Read
<1>2. Peer \in Clients /\ conn[Peer] \in {"open", "shut"} /\ TypeOK
  BY <1>1, PeerOpen DEF ServeInv, IInv
<1>3. got \in Seq(Parts) /\ pipe[Peer] \in Seq(Parts) /\ Len(got) \in {0, 1}
  BY <1>1, <1>2 DEF TypeOK, ServeInv
<1>4. h \in Parts /\ h = pipe[Peer][1] /\ 1 \in 1..Len(pipe[Peer]) /\ Tail(pipe[Peer]) \in Seq(Parts)
  BY <1>1, <1>3, HeadTailType
<1>5. InService(Peer) = got /\ Unanswered(Peer) = got \o pipe[Peer]
  BY <1>1 DEF InService, Unanswered
<1>6. h[2] = IF Len(got) = 0 THEN "begin" ELSE "end"
  <2>1. /\ Len(got) + 1 \in 1..Len(got \o pipe[Peer])
        /\ (got \o pipe[Peer])[Len(got) + 1] = h
    <3>1. /\ Len(got \o pipe[Peer]) = Len(got) + Len(pipe[Peer]) /\ Len(pipe[Peer]) \in Nat
          /\ \A k \in 1..Len(pipe[Peer]) : (got \o pipe[Peer])[Len(got) + k] = pipe[Peer][k]
      BY <1>3, JoinOf
    <3> HIDE DEF h
    <3>2. QED
      BY <1>3, <1>4, <3>1
  <2>2. Alternates(got \o pipe[Peer])
    BY <1>2, <1>5, OwnAlternates DEF ServeInv
  <2> HIDE DEF h
  <2>3. h[2] = IF (Len(got) + 1) % 2 = 1 THEN "begin" ELSE "end"
    BY <2>1, <2>2 DEF Alternates
  <2>4. CASE Len(got) = 0
    <3>1. (Len(got) + 1) % 2 = 1
      BY <2>4
    <3>2. QED
      BY <2>3, <2>4, <3>1
  <2>5. CASE Len(got) = 1
    <3>1. (Len(got) + 1) % 2 = 0
      BY <2>5
    <3>2. QED
      BY <2>3, <2>5, <3>1
  <2>6. QED
    BY <1>3, <2>4, <2>5
<1>7. Len(got') = Len(got) + 1
  BY <1>1, <1>3, <1>4, AppendProperties
<1>8. (pc' = "receive" => Len(got') \in {0, 1}) /\ (pc' = "reply" => Len(got') = 2)
  <2> HIDE DEF h
  <2>1. QED
    BY <1>1, <1>3, <1>6, <1>7
<1>9. Append(got, h) \o Tail(pipe[Peer]) = got \o pipe[Peer]
  BY <1>1, <1>3, JoinShift
<1>10. Peer' = Peer
  BY <1>1 DEF Peer
<1>11. ASSUME NEW c \in Clients
       PROVE  Own(c)'
  <2>1. CASE c = Peer
    <3>1. InService(c)' = Append(got, h) /\ pipe'[c] = Tail(pipe[Peer])
      BY <1>1, <1>2, <1>10, <2>1 DEF InService, TypeOK
    <3>2. Unanswered(c)' = Unanswered(c)
      BY <1>5, <1>9, <2>1, <3>1 DEF Unanswered
    <3>3. QED
      BY <1>1, <1>2, <2>1, <3>2 DEF Own, ServeInv
  <2>2. CASE c # Peer
    <3>1. InService(c)' = InService(c) /\ pipe'[c] = pipe[c]
      BY <1>1, <1>2, <1>10, <2>2 DEF InService, TypeOK
    <3>2. QED
      BY <1>1, <3>1, OwnKept DEF ServeInv
  <2>3. QED
    BY <2>1, <2>2
<1>12. QED
  BY <1>8, <1>11

(* modbus_reply: the request served becomes the last answer.               *)
LEMMA OwnReply ==
  ASSUME ServeInv, Reply
  PROVE  \A c \in Clients : Own(c)'
<1>1. /\ pc = "reply" /\ got' = <<>>
      /\ answers' = IF conn[Peer] = "open"
                    THEN [answers EXCEPT ![Peer] = Append(@, got[1][1])] ELSE answers
      /\ UNCHANGED <<table, ctxS, conn, pipe, expect>>
  BY DEF Reply
<1>2. Peer \in Clients /\ conn[Peer] \in {"open", "shut"} /\ TypeOK
  BY <1>1, PeerOpen DEF ServeInv, IInv
<1>3. got \in Seq(Parts) /\ pipe[Peer] \in Seq(Parts) /\ Len(got) = 2
  BY <1>1, <1>2 DEF TypeOK, ServeInv
<1>4. InService(Peer) = got /\ Unanswered(Peer) = got \o pipe[Peer]
  BY <1>1 DEF InService, Unanswered
<1>5. \A c \in Clients : InService(c)' = <<>>
  BY <1>1 DEF InService
<1>6. ASSUME NEW c \in Clients, c # Peer
      PROVE  Own(c)'
  <2>1. InService(c) = <<>> /\ answers'[c] = answers[c]
    BY <1>1, <1>2, <1>6 DEF InService, TypeOK
  <2>2. QED
    BY <1>1, <1>5, <2>1, OwnKept DEF ServeInv
<1>7. ASSUME NEW c \in Clients, c = Peer
      PROVE  Own(c)'
  <2> DEFINE t == pipe[c]  s == got \o t
  <2>1. got \in Seq(Parts) /\ t \in Seq(Parts) /\ Len(got) = 2 /\ Own(c)
    BY <1>3, <1>7 DEF ServeInv
  <2>2. Unanswered(c) = s
    BY <1>4, <1>7
  <2>3. Unanswered(c)' = t
    <3>1. Unanswered(c)' = <<>> \o t
      BY <1>1, <1>5 DEF Unanswered
    <3> HIDE DEF t
    <3>2. QED
      BY <2>1, <3>1, ConcatEmptySeq
  <2>4. answers[c] \in Seq(Ids) /\ expect[c] \in Seq(Ids)
    BY <1>2 DEF TypeOK
  <2>5. /\ conn'[c] = conn[c] /\ expect'[c] = expect[c]
        /\ answers'[c] = IF conn[c] = "open" THEN Append(answers[c], got[1][1]) ELSE answers[c]
    BY <1>1, <1>2, <1>7 DEF TypeOK
  <2>6. conn[c] \in {"open", "shut"}
    BY <1>2, <1>7
  <2>7. got[1][1] \in Ids
    <3>1. got # <<>>
      BY <1>1 DEF ServeInv, IInv, OnConnection
    <3>2. got[1] \in Parts
      BY <2>1, <3>1, HeadTailType
    <3>3. QED
      BY <3>2 DEF Parts
  <2> HIDE DEF t
  <2>8. /\ s \in Seq(Parts) /\ Len(s) = Len(got) + Len(t) /\ Len(t) \in Nat
        /\ \A k \in 1..Len(got) : s[k] = got[k]
        /\ \A k \in 1..Len(t) : s[Len(got) + k] = t[k]
    BY <2>1, JoinOf
  <2> HIDE DEF s
  <2>9. /\ Len(s) = Len(t) + 2 /\ s[1] = got[1]
        /\ \A k \in 1..Len(t) : t[k] = s[k + 2]
    <3>1. Len(s) = Len(t) + 2 /\ 1 \in 1..Len(got)
      BY <2>1, <2>8
    <3>2. ASSUME NEW k \in 1..Len(t)
          PROVE  t[k] = s[k + 2]
      <4>1. Len(got) + k = k + 2
        BY <2>1
      <4>2. QED
        BY <2>8, <4>1
    <3>3. QED
      BY <2>8, <3>1, <3>2
  <2>10. CASE conn[c] = "open"
    <3>1. Matches(expect[c], answers[c], s)
      BY <2>1, <2>2, <2>10 DEF Own
    <3>2. Matches(expect[c], Append(answers[c], s[1][1]), t)
      BY <2>1, <2>4, <2>7, <2>8, <2>9, <3>1, MatchesReply
    <3>3. Matches(expect'[c], answers'[c], Unanswered(c)')
      BY <2>3, <2>5, <2>9, <2>10, <3>2
    <3>4. QED
      BY <2>5, <2>10, <3>3 DEF Own
  <2>11. CASE conn[c] = "shut"
    <3>1. Alternates(s) /\ answers[c] = <<>> /\ expect[c] = <<>>
      BY <2>1, <2>2, <2>11 DEF Own
    <3>2. Alternates(t)
      BY <2>1, <2>8, <2>9, <3>1, AlternatesRest
    <3>3. QED
      BY <2>3, <2>5, <2>11, <3>1, <3>2 DEF Own
  <2>12. QED
    BY <2>6, <2>10, <2>11
<1>8. QED
  BY <1>6, <1>7

-----------------------------------------------------------------------------
(* The client's side.                                                      *)
LEMMA LastOf ==
  ASSUME NEW s \in Seq(Parts), s # <<>>
  PROVE  Last(s) = s[Len(s)] /\ Len(s) \in Nat \ {0} /\ Len(s) \in 1..Len(s)
BY EmptySeq, LenProperties DEF Last

(* A half of a request is the last of what is unanswered, and makes its    *)
(* length odd.                                                             *)
LEMMA HalfIs ==
  ASSUME ServeInv, NEW c \in Clients, conn[c] = "open", NEW p \in Half(c)
  PROVE  Len(Unanswered(c)) % 2 = 1 /\ p = Unanswered(c)[Len(Unanswered(c))]
<1>T. /\ InService(c) \in Seq(Parts) /\ pipe[c] \in Seq(Parts) /\ TypeOK
  BY UnansweredOf DEF ServeInv, IInv
<1>A. Alternates(Unanswered(c))
  BY OwnAlternates DEF ServeInv
<1> DEFINE x == InService(c)  y == pipe[c]  u == x \o y
<1>1. /\ Len(u) = Len(x) + Len(y) /\ Len(x) \in Nat /\ Len(y) \in Nat
      /\ \A k \in 1..Len(x) : u[k] = x[k]
      /\ \A k \in 1..Len(y) : u[Len(x) + k] = y[k]
  BY <1>T, JoinOf
<1>U. Unanswered(c) = u
  BY DEF Unanswered
<1>2. CASE pipe[c] # <<>>
  <2>1. p = y[Len(y)] /\ p[2] = "begin" /\ Len(y) \in 1..Len(y)
    BY <1>T, <1>2, LastOf DEF Half
  <2> HIDE DEF u, x, y
  <2>2. p = u[Len(u)] /\ Len(u) \in 1..Len(u)
    BY <1>1, <2>1
  <2>3. Len(u) % 2 = 1
    BY <1>A, <1>U, <2>1, <2>2 DEF Alternates
  <2>4. QED
    BY <1>U, <2>2, <2>3
<1>3. CASE pipe[c] = <<>>
  <2>1. pc = "receive" /\ x = got /\ got # <<>> /\ p = got[1] /\ y = <<>>
    BY <1>3 DEF Half, InService
  <2>2. Len(got) = 1
    <3>1. Len(got) # 0
      BY <1>T, <2>1, EmptySeq DEF TypeOK
    <3>2. QED
      BY <2>1, <3>1 DEF ServeInv
  <2>3. Len(y) = 0 /\ Len(x) = 1
    BY <2>1, <2>2
  <2> HIDE DEF u, x, y
  <2>4. Len(u) = 1 /\ u[1] = x[1]
    BY <1>1, <2>3
  <2>5. Len(u) % 2 = 1
    BY <2>4
  <2>6. QED
    BY <1>U, <2>1, <2>4, <2>5
<1>4. QED
  BY <1>2, <1>3

LEMMA HalfNone ==
  ASSUME ServeInv, NEW c \in Clients, conn[c] = "open", Half(c) = {}
  PROVE  Len(Unanswered(c)) % 2 = 0
<1>T. /\ InService(c) \in Seq(Parts) /\ pipe[c] \in Seq(Parts) /\ TypeOK
  BY UnansweredOf DEF ServeInv, IInv
<1>A. Alternates(Unanswered(c))
  BY OwnAlternates DEF ServeInv
<1> DEFINE x == InService(c)  y == pipe[c]  u == x \o y
<1>1. /\ Len(u) = Len(x) + Len(y) /\ Len(x) \in Nat /\ Len(y) \in Nat
      /\ \A k \in 1..Len(y) : u[Len(x) + k] = y[k]
  BY <1>T, JoinOf
<1>U. Unanswered(c) = u
  BY DEF Unanswered
<1>2. CASE pipe[c] # <<>>
  <2>1. y[Len(y)][2] # "begin" /\ Len(y) \in 1..Len(y)
    BY <1>T, <1>2, LastOf DEF Half
  <2> HIDE DEF u, x, y
  <2>2. y[Len(y)] = u[Len(u)] /\ Len(u) \in 1..Len(u) /\ Len(u) \in Nat
    BY <1>1, <2>1
  <2>3. Len(u) % 2 # 1
    BY <1>A, <1>U, <2>1, <2>2 DEF Alternates
  <2>4. Len(u) % 2 = 0
    BY <2>2, <2>3
  <2>5. QED
    BY <1>U, <2>4
<1>3. CASE pipe[c] = <<>>
  <2>1. x = <<>> \/ (x = got /\ Len(got) = 2)
    BY <1>3 DEF Half, InService, ServeInv
  <2>2. Len(y) = 0 /\ (Len(x) = 0 \/ Len(x) = 2)
    BY <1>3, <2>1
  <2> HIDE DEF u, x, y
  <2>3. Len(u) = 0 \/ Len(u) = 2
    BY <1>1, <2>2
  <2>4. 0 % 2 = 0 /\ 2 % 2 = 0
    OBVIOUS
  <2>5. QED
    BY <1>U, <2>3, <2>4
<1>4. QED
  BY <1>2, <1>3

LEMMA OwnConnect ==
  ASSUME ServeInv, NEW c \in Clients, Connect(c)
  PROVE  Own(c)'
<1>1. /\ conn[c] = "none" /\ conn' = [conn EXCEPT ![c] = "open"]
      /\ UNCHANGED <<pc, table, ctxS, got, pipe, answers, expect>>
  BY DEF Connect
<1>2. pipe[c] = <<>> /\ answers[c] = <<>> /\ expect[c] = <<>>
  BY <1>1 DEF ServeInv, Own
<1>3. InService(c)' = <<>>
  <2>1. pc \in {"receive", "reply"} => Peer # c
    BY <1>1, PeerOpen DEF ServeInv
  <2>2. QED
    BY <1>1, <2>1 DEF InService, Peer
<1>4. Unanswered(c)' = <<>>
  BY <1>1, <1>2, <1>3, EmptySeq, ConcatEmptySeq DEF Unanswered
<1>5. conn'[c] = "open"
  BY <1>1 DEF ServeInv, IInv, TypeOK
<1>6. QED
  BY <1>1, <1>2, <1>4, <1>5, MatchesEmpty DEF Own

LEMMA OwnSend ==
  ASSUME ServeInv, NEW c \in Clients, NEW n \in {1, 2}, Send(c, n)
  PROVE  Own(c)'
<1> DEFINE i == NextId(c)
           both == <<<<i, "begin">>, <<i, "end">>>>
           z == SubSeq(both, 1, n)  s == Unanswered(c)  t == InService(c) \o (pipe[c] \o z)
<1>1. /\ conn[c] = "open" /\ Half(c) = {}
      /\ pipe' = [pipe EXCEPT ![c] = @ \o z] /\ expect' = [expect EXCEPT ![c] = Append(@, i)]
      /\ UNCHANGED <<pc, table, ctxS, got, conn, answers>>
  BY DEF Send
<1>2. /\ InService(c) \in Seq(Parts) /\ pipe[c] \in Seq(Parts) /\ s \in Seq(Parts) /\ TypeOK
      /\ answers[c] \in Seq(Ids) /\ expect[c] \in Seq(Ids)
  BY UnansweredOf DEF ServeInv, IInv
<1>3. i \in Ids /\ z \in Seq(Parts)
  BY <1>2, NextParts
<1>4. Len(z) = n /\ z[1] = <<i, "begin">> /\ (n = 2 => z[2] = <<i, "end">>)
  <2>1. both[1] = <<i, "begin">> /\ both[2] = <<i, "end">>
    OBVIOUS
  <2>2. \A k \in 1..n : both[k] \in {<<i, "begin">>, <<i, "end">>}
    BY <2>1
  <2> HIDE DEF both
  <2>3. n \in Int /\ 1 \in Int
    OBVIOUS
  <2>4. Len(z) = n /\ \A k \in 1..n : z[k] = both[k]
    BY <2>2, <2>3, SubSeqProperties
  <2>5. QED
    BY <2>1, <2>4
<1> HIDE DEF z, i
<1>5. t \in Seq(Parts) /\ t = s \o z
  <2>1. pipe[c] \o z \in Seq(Parts)
    BY <1>2, <1>3, JoinOf
  <2>2. t \in Seq(Parts)
    BY <1>2, <2>1, JoinOf
  <2>3. (InService(c) \o pipe[c]) \o z = InService(c) \o (pipe[c] \o z)
    <3>1. InService(c) \in Seq(Parts) /\ pipe[c] \in Seq(Parts) /\ z \in Seq(Parts)
      BY <1>2, <1>3
    <3>2. QED
      BY <3>1, Regroup, Zenon
  <2>4. QED
    BY <2>2, <2>3 DEF Unanswered
<1>6. Unanswered(c)' = t
  <2>1. pipe'[c] = pipe[c] \o z
    BY <1>1, <1>2 DEF TypeOK
  <2>2. InService(c)' = InService(c)
    BY <1>1 DEF InService, Peer
  <2>3. QED
    BY <2>1, <2>2 DEF Unanswered
<1>7. Matches(expect[c], answers[c], s) /\ Len(s) % 2 = 0
  BY <1>1, HalfNone DEF ServeInv, Own
<1> HIDE DEF s, t
<1>8. /\ Len(t) = Len(s) + n /\ \A k \in 1..Len(s) : t[k] = s[k]
      /\ t[Len(s) + 1] = <<i, "begin">> /\ (n = 2 => t[Len(s) + 2] = <<i, "end">>)
  <2>1. /\ Len(t) = Len(s) + Len(z) /\ \A k \in 1..Len(s) : t[k] = s[k]
        /\ \A k \in 1..Len(z) : t[Len(s) + k] = z[k]
    BY <1>2, <1>3, <1>5, JoinOf
  <2>2. 1 \in 1..n /\ (n = 2 => 2 \in 1..n)
    OBVIOUS
  <2>3. QED
    BY <1>4, <2>1, <2>2
<1>9. Matches(Append(expect[c], i), answers[c], t)
  <2>1. /\ expect[c] \in Seq(Ids) /\ answers[c] \in Seq(Ids)
        /\ s \in Seq(Parts) /\ t \in Seq(Parts) /\ i \in Ids /\ n \in {1, 2}
    BY <1>2, <1>3, <1>5
  <2>2. PICK e, a : e = expect[c] /\ a = answers[c]
    OBVIOUS
  <2> HIDE DEF both
  <2>3. Matches(Append(e, i), a, t)
    <3>1. e \in Seq(Ids) /\ a \in Seq(Ids) /\ Matches(e, a, s)
      BY <1>7, <2>1, <2>2
    <3>2. s \in Seq(Parts) /\ t \in Seq(Parts) /\ i \in Ids /\ n \in {1, 2}
      BY <2>1
    <3>3. QED
      BY <1>7, <1>8, <3>1, <3>2, MatchesSend
  <2>4. QED
    BY <2>2, <2>3
<1>10. conn'[c] = "open" /\ expect'[c] = Append(expect[c], i) /\ answers'[c] = answers[c]
  BY <1>1, <1>2 DEF TypeOK
<1>11. QED
  BY <1>6, <1>9, <1>10 DEF Own

LEMMA OwnSendRest ==
  ASSUME ServeInv, NEW c \in Clients, SendRest(c)
  PROVE  Own(c)'
<1>1. PICK p \in Half(c) :
        /\ conn[c] = "open" /\ pipe' = [pipe EXCEPT ![c] = Append(@, <<p[1], "end">>)]
        /\ UNCHANGED <<pc, table, ctxS, got, conn, answers, expect>>
  BY DEF SendRest
<1> DEFINE e == <<p[1], "end">>  s == Unanswered(c)  t == InService(c) \o Append(pipe[c], e)
<1>2. /\ InService(c) \in Seq(Parts) /\ pipe[c] \in Seq(Parts) /\ s \in Seq(Parts) /\ TypeOK
      /\ answers[c] \in Seq(Ids) /\ expect[c] \in Seq(Ids)
  BY UnansweredOf DEF ServeInv, IInv
<1>3. Len(s) % 2 = 1 /\ p = s[Len(s)]
  BY <1>1, HalfIs
<1>4. e \in Parts
  BY <1>2, HalfParts
<1>5. Matches(expect[c], answers[c], s)
  BY <1>1 DEF ServeInv, Own
<1>6. Unanswered(c)' = t
  <2>1. pipe'[c] = Append(pipe[c], e)
    BY <1>1, <1>2 DEF TypeOK
  <2>2. InService(c)' = InService(c)
    BY <1>1 DEF InService, Peer
  <2>3. QED
    BY <2>1, <2>2 DEF Unanswered
<1>7. /\ t \in Seq(Parts) /\ Len(t) = Len(s) + 1 /\ \A k \in 1..Len(s) : t[k] = s[k]
      /\ t[Len(s) + 1] = e
  <2> DEFINE x == InService(c)  y == pipe[c]  z == Append(y, e)
  <2>0. x \in Seq(Parts) /\ y \in Seq(Parts)
    BY <1>2
  <2> HIDE DEF e, x, y
  <2>1. /\ z \in Seq(Parts) /\ Len(z) = Len(y) + 1 /\ z[Len(y) + 1] = e
        /\ \A k \in 1..Len(y) : z[k] = y[k]
    BY <1>4, <2>0, AppendProperties
  <2>2. /\ t \in Seq(Parts) /\ Len(t) = Len(x) + Len(z)
        /\ \A k \in 1..Len(x) : t[k] = x[k]
        /\ \A k \in 1..Len(z) : t[Len(x) + k] = z[k]
    <3>1. t = x \o z
      BY DEF x, y
    <3> HIDE DEF t, z
    <3>2. QED
      BY <2>0, <2>1, <3>1, JoinOf
  <2>3. /\ Len(s) = Len(x) + Len(y) /\ Len(x) \in Nat /\ Len(y) \in Nat
        /\ \A k \in 1..Len(x) : s[k] = x[k]
        /\ \A k \in 1..Len(y) : s[Len(x) + k] = y[k]
    <3>1. s = x \o y
      BY DEF Unanswered, x, y
    <3>2. QED
      BY <2>0, <3>1, JoinOf
  <2> HIDE DEF s, t, z
  <2>4. Len(t) = Len(s) + 1
    BY <2>1, <2>2, <2>3
  <2>5. t[Len(s) + 1] = e
    <3>1. Len(y) + 1 \in 1..Len(z) /\ Len(s) + 1 = Len(x) + (Len(y) + 1)
      BY <2>1, <2>3
    <3>2. QED
      BY <2>1, <2>2, <3>1
  <2>6. ASSUME NEW k \in 1..Len(s)
        PROVE  t[k] = s[k]
    <3>1. CASE k \in 1..Len(x)
      BY <2>2, <2>3, <3>1
    <3>2. CASE ~(k <= Len(x))
      <4> DEFINE j == k - Len(x)
      <4>1. j \in 1..Len(y) /\ j \in 1..Len(z) /\ Len(x) + j = k
        BY <2>1, <2>3, <2>6, <3>2
      <4> HIDE DEF j
      <4>2. QED
        BY <2>1, <2>2, <2>3, <4>1
    <3>3. QED
      BY <2>3, <2>6, <3>1, <3>2
  <2>7. QED
    BY <2>2, <2>4, <2>5, <2>6
<1> HIDE DEF s, t
<1>8. Matches(expect[c], answers[c], t)
  BY <1>2, <1>3, <1>5, <1>7, MatchesRest
<1>9. conn'[c] = "open" /\ expect'[c] = expect[c] /\ answers'[c] = answers[c]
  BY <1>1
<1>10. QED
  BY <1>6, <1>8, <1>9 DEF Own

LEMMA OwnReadAnswer ==
  ASSUME ServeInv, NEW c \in Clients, ReadAnswer(c)
  PROVE  Own(c)'
<1>1. /\ conn[c] \in {"open", "cut"} /\ answers[c] # <<>> /\ expect[c] # <<>>
      /\ answers' = [answers EXCEPT ![c] = Tail(@)] /\ expect' = [expect EXCEPT ![c] = Tail(@)]
      /\ UNCHANGED <<pc, table, ctxS, got, conn, pipe>>
  BY DEF ReadAnswer
<1>2. TypeOK /\ answers[c] \in Seq(Ids) /\ expect[c] \in Seq(Ids) /\ Unanswered(c) \in Seq(Parts)
  BY UnansweredOf DEF ServeInv, IInv
<1>3. answers'[c] = Tail(answers[c]) /\ expect'[c] = Tail(expect[c])
  BY <1>1, <1>2 DEF TypeOK
<1>4. Unanswered(c)' = Unanswered(c)
  BY <1>1 DEF Unanswered, InService, Peer
<1>5. conn[c] = "open" => Matches(expect'[c], answers'[c], Unanswered(c))
  BY <1>1, <1>2, <1>3, MatchesRead DEF ServeInv, Own
<1>6. QED
  BY <1>1, <1>4, <1>5 DEF ServeInv, Own

LEMMA OwnShut ==
  ASSUME ServeInv, NEW c \in Clients, Shut(c)
  PROVE  Own(c)'
<1>1. /\ conn[c] \in {"open", "cut"}
      /\ conn' = [conn EXCEPT ![c] = IF @ = "cut" THEN "none" ELSE "shut"]
      /\ answers' = [answers EXCEPT ![c] = <<>>] /\ expect' = [expect EXCEPT ![c] = <<>>]
      /\ UNCHANGED <<pc, table, ctxS, got, pipe>>
  BY DEF Shut
<1>2. TypeOK
  BY DEF ServeInv, IInv
<1>3. /\ conn'[c] = IF conn[c] = "cut" THEN "none" ELSE "shut"
      /\ answers'[c] = <<>> /\ expect'[c] = <<>>
  BY <1>1, <1>2 DEF TypeOK
<1>4. Unanswered(c)' = Unanswered(c)
  BY <1>1 DEF Unanswered, InService, Peer
<1>5. conn[c] = "open" => Alternates(Unanswered(c))
  BY OwnAlternates DEF ServeInv
<1>6. QED
  BY <1>1, <1>3, <1>4, <1>5 DEF ServeInv, Own

LEMMA OwnClient ==
  ASSUME ServeInv, NEW c \in Clients, ClientStep(c)
  PROVE  \A u \in Clients : Own(u)'
<1>1. Own(c)'
  BY OwnConnect, OwnSend, OwnSendRest, OwnReadAnswer, OwnShut DEF ClientStep
<1>2. ASSUME NEW u \in Clients, u # c
      PROVE  Own(u)'
  <2>1. UNCHANGED <<pc, table, ctxS, got>>
    BY DEF ClientStep, Connect, Send, SendRest, ReadAnswer, Shut
  <2>2. /\ conn'[u] = conn[u] /\ pipe'[u] = pipe[u]
        /\ answers'[u] = answers[u] /\ expect'[u] = expect[u]
    BY <1>2 DEF ClientStep, Connect, Send, SendRest, ReadAnswer, Shut, ServeInv, IInv, TypeOK
  <2>3. InService(u)' = InService(u)
    BY <2>1 DEF InService, Peer
  <2>4. QED
    BY <2>2, <2>3, OwnKept DEF ServeInv
<1>3. QED
  BY <1>1, <1>2

-----------------------------------------------------------------------------
LEMMA ServeStep ==
  ASSUME ServeInv, [Next]_vars
  PROVE  ServeInv'
<1>1. IInv'
  BY Inductive DEF ServeInv
<1> DEFINE Lengths == /\ pc = "receive" => Len(got) \in {0, 1}
                      /\ pc = "reply" => Len(got) = 2
<1>2. SUFFICES Lengths' /\ \A c \in Clients : Own(c)'
  BY <1>1 DEF ServeInv
<1>3. Len(<<>>) = 0
  OBVIOUS
<1>4. CASE Listen \/ ListenFails
  <2>1. UNCHANGED clients /\ pc = "listen" /\ pc' \notin {"receive", "reply"}
    BY <1>4 DEF Listen, ListenFails
  <2>2. QED
    BY <2>1, OwnQuiet
<1>5. CASE Select \/ Rescan \/ Accept \/ AcceptError
  <2>1. UNCHANGED clients /\ pc \in {"select", "scan"} /\ pc' \in {"select", "scan"}
    BY <1>5 DEF Select, Rescan, Accept, AcceptError, AtReady
  <2>2. QED
    BY <2>1, OwnQuiet
<1>6. CASE AcceptOne \/ \E d \in Descriptors : SetSocket(d)
  <2>1. UNCHANGED clients /\ pc \in {"accept", "scan"} /\ pc' = "receive" /\ got' = <<>>
    BY <1>6 DEF AcceptOne, SetSocket, AtReady
  <2>2. QED
    BY <1>3, <2>1, OwnQuiet
<1>7. CASE AcceptOneFails
  <2>1. Ended(AllOfServer) /\ pc = "accept" /\ pc' \in {"hung", "exited"}
    BY <1>7 DEF AcceptOneFails
  <2>2. \A c \in Clients : InService(c) = <<>> /\ InService(c)' = <<>>
    BY <2>1 DEF InService
  <2>3. QED
    BY <2>1, <2>2, OwnEnded DEF ServeInv
<1>8. CASE Read
  BY <1>8, OwnRead
<1>9. CASE CloseConnection(ctxS) /\ ReceiveFails
  <2>1. Ended({table[ctxS]} \cap Clients) /\ pc = "receive" /\ pc' = "scan"
    BY <1>9 DEF CloseConnection, ReceiveFails
  <2>2. \A c \in Clients : InService(c)' = <<>>
    BY <2>1 DEF InService
  <2>3. \A c \in Clients : c \notin {table[ctxS]} \cap Clients => InService(c) = <<>>
    BY DEF InService, Peer
  <2>4. QED
    BY <2>1, <2>2, <2>3, OwnEnded DEF ServeInv
<1>10. CASE Exit
  BY <1>10, OwnExit DEF Exit
<1>11. CASE Reply
  <2>1. pc' \in {"scan", "receive"} /\ got' = <<>>
    BY <1>11 DEF Reply
  <2>2. QED
    BY <1>3, <1>11, <2>1, OwnReply
<1>12. ASSUME NEW c \in Clients, ClientStep(c)
       PROVE  Lengths' /\ \A u \in Clients : Own(u)'
  <2>1. UNCHANGED <<pc, got>>
    BY <1>12 DEF ClientStep, Connect, Send, SendRest, ReadAnswer, Shut
  <2>2. QED
    BY <1>12, <2>1, OwnClient DEF ServeInv
<1>13. CASE UNCHANGED vars
  <2>1. UNCHANGED <<pc, table, ctxS, got, conn, pipe, answers, expect>>
    BY <1>13 DEF vars
  <2>2. QED
    BY <2>1 DEF ServeInv, Own, Unanswered, InService, Peer
<1>14. QED
  BY <1>4, <1>5, <1>6, <1>7, <1>8, <1>9, <1>10, <1>11, <1>12, <1>13
     DEF Next, ServerStep, Sigint, ReceiveFails

LEMMA ServeInvariance == Spec => []ServeInv
<1>1. Init => ServeInv
  <2>1. SUFFICES ASSUME Init, NEW c \in Clients PROVE Own(c)
    BY Initially DEF ServeInv, Init
  <2>2. QED
    BY <2>1 DEF Init, Own
<1>2. QED
  BY <1>1, ServeStep, PTL DEF Spec

(* Whatever opens, closes and times out in between, the answers a client   *)
(* reads are those of its own requests in their order, and what it sent    *)
(* and has no answer for is in its connection or being served.             *)
THEOREM AnswersToTheirOwn == Spec => []EachToItsOwn
<1>1. ServeInv => EachToItsOwn
  <2>1. SUFFICES ASSUME ServeInv, NEW c \in Clients, conn[c] = "open"
                 PROVE
                   LET n    == Len(answers[c])
                       rest == [k \in 1..(Len(expect[c]) - n) |-> expect[c][n + k]]
                   IN  /\ Len(expect[c]) = n + (Len(Unanswered(c)) + 1) \div 2
                       /\ \A k \in 1..n : answers[c][k] = expect[c][k]
                       /\ \A k \in 1..Len(Unanswered(c)) : Unanswered(c)[k] = Part(rest, k)
    BY DEF EachToItsOwn
  <2> DEFINE n    == Len(answers[c])
             s    == Unanswered(c)
             rest == [k \in 1..(Len(expect[c]) - n) |-> expect[c][n + k]]
  <2>2. /\ Len(expect[c]) = n + (Len(s) + 1) \div 2
        /\ \A k \in 1..n : answers[c][k] = expect[c][k]
        /\ \A k \in 1..Len(s) :
             s[k] = <<expect[c][n + (k + 1) \div 2], IF k % 2 = 1 THEN "begin" ELSE "end">>
    BY <2>1 DEF ServeInv, Own, Matches
  <2>3. n \in Nat /\ Len(s) \in Nat /\ Len(expect[c]) \in Nat
    BY UnansweredOf, LenProperties DEF ServeInv, IInv
  <2> HIDE DEF s, n
  <2>4. ASSUME NEW k \in 1..Len(s)
        PROVE  s[k] = Part(rest, k)
    <3>1. (k + 1) \div 2 \in 1..(Len(expect[c]) - n)
      BY <2>2, <2>3
    <3>2. rest[(k + 1) \div 2] = expect[c][n + (k + 1) \div 2]
      BY <3>1
    <3>3. QED
      BY <2>2, <3>2 DEF Part
  <2>5. QED
    BY <2>2, <2>4 DEF s, n
<1>2. QED
  BY <1>1, ServeInvariance, PTL
=============================================================================
