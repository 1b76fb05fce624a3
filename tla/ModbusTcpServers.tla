--------------------------- MODULE ModbusTcpServers ---------------------------
(***************************************************************************)
(* TCP servers: modbus_tcp_listen and modbus_tcp_accept, the server of     *)
(* many clients, whose select loop hands one connection after the other to *)
(* modbus_receive and modbus_reply of a single context, and the server of  *)
(* one client.  A request is two parts of its bytes, sent together or one  *)
(* after the other; the kernel keeps what is sent until it is read, and    *)
(* completes connections before the server accepts them.                   *)
(***************************************************************************)
EXTENDS Integers, Sequences, SequencesExt, FiniteSets

CONSTANTS
  Clients,        \* the clients, each with one connection at a time
  Descriptors,    \* the numbers of descriptors the process may have
  NbConnection,   \* the queue of connections not yet accepted
  MaxOutstanding, \* bound: requests of a client without an answer
  Room            \* answers that fit between the server and a client

ASSUME ServersAssumption ==
  /\ Clients \cap {"nobody", "listener"} = {}
  /\ Descriptors \subseteq Nat /\ IsFiniteSet(Descriptors)
  /\ NbConnection \in Nat \ {0} /\ MaxOutstanding \in Nat \ {0} /\ Room \in Nat \ {0}

VARIABLES
  program,      \* "many" (bandwidth-server-many-up) or "one" (bandwidth-server-one)
  pc,           \* of the server
  table,        \* descriptors of the server: free, the listener's or a connection
  serverSocket, \* server_socket, or socket of the server of one client
  refset, rdset, fdmax,
  masterSocket, \* the loop over the ready descriptors has come so far
  ctxS,         \* ctx->s
  got,          \* the parts of a request modbus_receive has read
  backlog,      \* connections to be accepted
  conn,         \* a client: "none", "open", "shut" by it or "cut" by the server
  pipe,         \* what a client sent and the server has not read
  answers,      \* what the server sent and the client has not read
  expect        \* the requests for which a client has no answer yet

sets    == <<refset, rdset, fdmax>>
loop    == <<sets, masterSocket, serverSocket, program>>
clients == <<conn, pipe, answers, expect>>
vars    == <<program, pc, table, serverSocket, refset, rdset, fdmax, masterSocket, ctxS,
             got, backlog, conn, pipe, answers, expect>>

(* Consecutive requests of a client differ in their identifier.            *)
Ids   == {0, 1}
Parts == Ids \X {"begin", "end"}

TypeOK ==
  /\ program \in {"many", "one"}
  /\ pc \in {"listen", "accept", "select", "scan", "receive", "reply", "hung", "exited"}
  /\ table \in [Descriptors -> Clients \union {"nobody", "listener"}]
  /\ {serverSocket, fdmax, ctxS} \subseteq Int /\ masterSocket \in Nat
  /\ refset \subseteq Descriptors /\ rdset \subseteq Descriptors
  /\ got \in Seq(Parts)
  /\ backlog \in Seq(Clients)
  /\ conn \in [Clients -> {"none", "open", "shut", "cut"}]
  /\ pipe \in [Clients -> Seq(Parts)]
  /\ answers \in [Clients -> Seq(Ids)] /\ expect \in [Clients -> Seq(Ids)]

Init ==
  /\ program \in {"many", "one"} /\ pc = "listen"
  /\ table = [d \in Descriptors |-> "nobody"]
  /\ serverSocket = -1 /\ refset = {} /\ rdset = {} /\ fdmax = -1
  /\ masterSocket = 0 /\ ctxS = -1 /\ got = <<>> /\ backlog = <<>>
  /\ conn = [c \in Clients |-> "none"] /\ pipe = [c \in Clients |-> <<>>]
  /\ answers = [c \in Clients |-> <<>>] /\ expect = [c \in Clients |-> <<>>]

-----------------------------------------------------------------------------
(* The kernel.                                                             *)

Lowest ==
  {d \in Descriptors : table[d] = "nobody"
                         /\ \A e \in Descriptors : table[e] = "nobody" => d <= e}

Queued(c) == \E k \in 1..Len(backlog) : backlog[k] = c

(* A connection has something to read: bytes or the end of file.           *)
Readable(c) == pipe[c] # <<>> \/ conn[c] = "shut"

Ready(d) ==
  IF table[d] = "listener" THEN backlog # <<>>
  ELSE table[d] \in Clients /\ Readable(table[d])

(* The connections of the clients in gone end on the server's side: what   *)
(* they sent is discarded, and a client that closed too may connect again. *)
Ended(gone) ==
  /\ conn' = [c \in Clients |-> IF c \notin gone THEN conn[c]
                                ELSE IF conn[c] = "shut" THEN "none" ELSE "cut"]
  /\ pipe' = [c \in Clients |-> IF c \in gone THEN <<>> ELSE pipe[c]]
  /\ UNCHANGED <<answers, expect>>

AllOfServer == {c \in Clients : Queued(c) \/ \E d \in Descriptors : table[d] = c}

(* The process ends; the kernel closes what it has open.                   *)
Exit ==
  /\ pc' = "exited"
  /\ table' = [d \in Descriptors |-> "nobody"]
  /\ backlog' = <<>>
  /\ Ended(AllOfServer)
  /\ UNCHANGED <<loop, ctxS, got>>

-----------------------------------------------------------------------------
(* modbus_tcp_listen: a socket that has got its option, its address and    *)
(* its queue; if one of these fails it is closed, and the result is -1.    *)
Listen ==
  /\ pc = "listen"
  /\ \E d \in Lowest :
       /\ table' = [table EXCEPT ![d] = "listener"]
       /\ serverSocket' = d
       /\ IF program = "many"
          THEN refset' = {d} /\ fdmax' = d /\ pc' = "select"
          ELSE UNCHANGED <<refset, fdmax>> /\ pc' = "accept"
  /\ UNCHANGED <<program, rdset, masterSocket, ctxS, got, backlog, clients>>

(* No server looks at the result.  FD_SET of -1 is undefined: it aborts, or*)
(* select waits for no descriptor at all, for ever.                        *)
ListenFails ==
  /\ pc = "listen" /\ pc' \in {"hung", "exited"}
  /\ UNCHANGED <<table, loop, ctxS, got, backlog, clients>>

-----------------------------------------------------------------------------
(* The server of many clients.                                             *)

(* Faulty variant, for mutation: rdset is not what select has left of it.  *)
SelectAll ==
  /\ pc = "select" /\ \E d \in refset : d <= fdmax /\ Ready(d)
  /\ rdset' = refset /\ masterSocket' = 0 /\ pc' = "scan"
  /\ UNCHANGED <<table, program, serverSocket, refset, fdmax, ctxS, got, backlog, clients>>

Select ==
  LET ready == {d \in refset : d <= fdmax /\ Ready(d)}
  IN  /\ pc = "select" /\ ready # {}
      /\ rdset' = ready /\ masterSocket' = 0 /\ pc' = "scan"
      /\ UNCHANGED <<table, program, serverSocket, refset, fdmax, ctxS, got, backlog, clients>>

(* The loop is at d: the next that is set, up to what fdmax now is.        *)
AtReady(d) ==
  /\ pc = "scan" /\ program = "many"
  /\ d \in rdset /\ masterSocket <= d /\ d <= fdmax
  /\ \A e \in rdset : masterSocket <= e => d <= e

Rescan ==
  /\ pc = "scan" /\ \A d \in rdset : masterSocket <= d => fdmax < d
  /\ pc' = "select"
  /\ UNCHANGED <<table, loop, ctxS, got, backlog, clients>>

Accept ==
  /\ AtReady(serverSocket) /\ backlog # <<>>
  /\ \E newfd \in Lowest :
       /\ table' = [table EXCEPT ![newfd] = Head(backlog)]
       /\ refset' = refset \union {newfd}
       /\ fdmax' = IF newfd > fdmax THEN newfd ELSE fdmax
  /\ backlog' = Tail(backlog)
  /\ masterSocket' = serverSocket + 1
  /\ UNCHANGED <<program, pc, serverSocket, rdset, ctxS, got, clients>>

(* accept fails, as it does when no descriptor is free, or for a while     *)
(* without memory: the connection stays in the queue.                      *)
AcceptError ==
  /\ AtReady(serverSocket)
  /\ masterSocket' = serverSocket + 1
  /\ UNCHANGED <<program, pc, table, serverSocket, sets, ctxS, got, backlog, clients>>

(* modbus_set_socket and the call of modbus_receive.                       *)
SetSocket(d) ==
  /\ AtReady(d) /\ d # serverSocket
  /\ ctxS' = d /\ got' = <<>> /\ pc' = "receive"
  /\ masterSocket' = d
  /\ UNCHANGED <<program, table, serverSocket, sets, backlog, clients>>

(* Faulty variant, for mutation: fdmax counts the connections.             *)
CloseConnectionCounts(d) ==
  /\ table' = [table EXCEPT ![d] = "nobody"]
  /\ Ended({table[d]} \cap Clients)
  /\ refset' = refset \ {d}
  /\ fdmax' = fdmax - 1
  /\ masterSocket' = d + 1 /\ pc' = "scan"
  /\ UNCHANGED <<program, serverSocket, rdset, ctxS, got, backlog>>

(* The connection at d is closed and taken out of the set.                 *)
CloseConnection(d) ==
  /\ table' = [table EXCEPT ![d] = "nobody"]
  /\ Ended({table[d]} \cap Clients)
  /\ refset' = refset \ {d}
  /\ fdmax' = IF d = fdmax THEN fdmax - 1 ELSE fdmax
  /\ masterSocket' = d + 1 /\ pc' = "scan"
  /\ UNCHANGED <<program, serverSocket, rdset, ctxS, got, backlog>>

-----------------------------------------------------------------------------
(* The server of one client: it ends with its connection.                  *)

AcceptOne ==
  /\ pc = "accept" /\ backlog # <<>>
  /\ \E s \in Lowest :
       /\ table' = [table EXCEPT ![s] = Head(backlog)]
       /\ ctxS' = s
  /\ backlog' = Tail(backlog)
  /\ got' = <<>> /\ pc' = "receive"
  /\ UNCHANGED <<loop, clients>>

(* modbus_tcp_accept closes the listening socket and gives its variable 0; *)
(* the server goes on to modbus_receive, whose FD_SET of -1 is undefined.  *)
AcceptOneFails ==
  /\ pc = "accept" /\ backlog # <<>>
  /\ table' = [table EXCEPT ![serverSocket] = "nobody"]
  /\ serverSocket' = 0 /\ ctxS' = -1 /\ pc' \in {"hung", "exited"}
  /\ backlog' = <<>> /\ Ended(AllOfServer)
  /\ UNCHANGED <<program, sets, masterSocket, got>>

-----------------------------------------------------------------------------
(* modbus_receive and modbus_reply on ctx->s.                              *)

Peer == table[ctxS]

(* A request is read part by part.                                         *)
Read ==
  /\ pc = "receive" /\ pipe[Peer] # <<>>
  /\ got' = Append(got, Head(pipe[Peer]))
  /\ pipe' = [pipe EXCEPT ![Peer] = Tail(@)]
  /\ pc' = IF Head(pipe[Peer])[2] = "end" THEN "reply" ELSE "receive"
  /\ UNCHANGED <<table, loop, ctxS, backlog, conn, answers, expect>>

(* Faulty variant, for mutation: after a timeout the connection is kept.   *)
ReceiveTimesOut ==
  /\ pc = "receive" /\ (conn[Peer] = "shut" \/ (pipe[Peer] = <<>> /\ got # <<>>))
  /\ IF conn[Peer] = "shut" THEN CloseConnection(ctxS)
     ELSE /\ masterSocket' = ctxS + 1 /\ pc' = "scan"
          /\ UNCHANGED <<program, table, serverSocket, sets, ctxS, got, backlog, clients>>

(* The end of file or a reset, or the byte timeout after the first part:   *)
(* -1.                                                                     *)
ReceiveFails ==
  /\ pc = "receive" /\ (conn[Peer] = "shut" \/ (pipe[Peer] = <<>> /\ got # <<>>))
  /\ IF program = "many" THEN CloseConnection(ctxS) ELSE Exit

(* The answer is put into the connection of ctx->s, as soon as there is    *)
(* room for it; a client that closed makes send fail, which no server      *)
(* looks at.                                                               *)
Reply ==
  /\ pc = "reply" /\ (conn[Peer] = "open" => Len(answers[Peer]) < Room)
  /\ answers' = IF conn[Peer] = "open"
                THEN [answers EXCEPT ![Peer] = Append(@, got[1][1])] ELSE answers
  /\ got' = <<>>
  /\ IF program = "many" THEN pc' = "scan" /\ masterSocket' = ctxS + 1
     ELSE pc' = "receive" /\ UNCHANGED masterSocket
  /\ UNCHANGED <<program, table, serverSocket, sets, ctxS, backlog, conn, pipe, expect>>

(* close_sigint, or the default action of the server of one client.        *)
Sigint == pc # "exited" /\ Exit

ServerStep ==
  \/ Listen \/ ListenFails
  \/ Select \/ Rescan \/ Accept \/ AcceptError \/ \E d \in Descriptors : SetSocket(d)
  \/ AcceptOne \/ AcceptOneFails
  \/ Read \/ ReceiveFails \/ Reply

-----------------------------------------------------------------------------
(* A client.                                                               *)

Connect(c) ==
  /\ conn[c] = "none" /\ \E d \in Descriptors : table[d] = "listener"
  /\ Len(backlog) < NbConnection
  /\ backlog' = Append(backlog, c)
  /\ conn' = [conn EXCEPT ![c] = "open"]
  /\ UNCHANGED <<pc, table, loop, ctxS, got, pipe, answers, expect>>

NextId(c) == IF expect[c] = <<>> THEN 0 ELSE 1 - Last(expect[c])

(* The first parts of requests of which the client has not sent the        *)
(* second: one at most.                                                    *)
Half(c) ==
  IF pipe[c] # <<>> THEN {p \in {Last(pipe[c])} : p[2] = "begin"}
  ELSE IF pc = "receive" /\ Peer = c /\ got # <<>> THEN {got[1]} ELSE {}

Send(c, n) ==
  /\ conn[c] = "open" /\ Half(c) = {} /\ Len(expect[c]) < MaxOutstanding
  /\ pipe' = [pipe EXCEPT ![c] =
                @ \o SubSeq(<<<<NextId(c), "begin">>, <<NextId(c), "end">>>>, 1, n)]
  /\ expect' = [expect EXCEPT ![c] = Append(@, NextId(c))]
  /\ UNCHANGED <<pc, table, loop, ctxS, got, backlog, conn, answers>>

SendRest(c) ==
  /\ conn[c] = "open"
  /\ \E p \in Half(c) : pipe' = [pipe EXCEPT ![c] = Append(@, <<p[1], "end">>)]
  /\ UNCHANGED <<pc, table, loop, ctxS, got, backlog, conn, answers, expect>>

ReadAnswer(c) ==
  /\ conn[c] \in {"open", "cut"} /\ answers[c] # <<>> /\ expect[c] # <<>>
  /\ answers' = [answers EXCEPT ![c] = Tail(@)]
  /\ expect' = [expect EXCEPT ![c] = Tail(@)]
  /\ UNCHANGED <<pc, table, loop, ctxS, got, backlog, conn, pipe>>

(* The client closes; what it did not read is gone.                        *)
Shut(c) ==
  /\ conn[c] \in {"open", "cut"}
  /\ conn' = [conn EXCEPT ![c] = IF @ = "cut" THEN "none" ELSE "shut"]
  /\ answers' = [answers EXCEPT ![c] = <<>>] /\ expect' = [expect EXCEPT ![c] = <<>>]
  /\ UNCHANGED <<pc, table, loop, ctxS, got, backlog, pipe>>

ClientStep(c) ==
  \/ Connect(c) \/ Send(c, 1) \/ Send(c, 2) \/ SendRest(c) \/ ReadAnswer(c) \/ Shut(c)

Next == ServerStep \/ Sigint \/ \E c \in Clients : ClientStep(c)

Spec == Init /\ [][Next]_vars

(* The server runs, accept does not fail for ever while a descriptor is    *)
(* free, and clients read what is answered.                                *)
FairSpec ==
  /\ Spec
  /\ WF_vars(ServerStep) /\ SF_vars(Accept)
  /\ \A c \in Clients : WF_vars(ReadAnswer(c))

-----------------------------------------------------------------------------
Connections == {d \in Descriptors : table[d] \in Clients}

(* Whatever opens and closes while the loop goes over the descriptors, the *)
(* set handed to select is the listening socket and the open connections,  *)
(* and fdmax covers it.                                                    *)
WatchesAll ==
  program = "many" /\ pc \in {"select", "scan", "receive", "reply"} =>
    /\ refset = Connections \union {serverSocket}
    /\ \A d \in refset : d <= fdmax

(* accept, and modbus_receive for its first byte, wait without a timeout:  *)
(* the server of many clients calls them only where there is a connection  *)
(* to accept and something to read, so that an idle client never keeps the *)
(* others waiting.                                                         *)
NeverWaitsForIdle ==
  program = "many" =>
    /\ AtReady(serverSocket) => backlog # <<>>
    /\ pc = "receive" /\ got = <<>> => Peer \in Clients /\ Readable(Peer)

InService(c) == IF pc \in {"receive", "reply"} /\ Peer = c THEN got ELSE <<>>

(* What a client sent that is not answered.                                *)
Unanswered(c) == InService(c) \o pipe[c]

(* The k-th part of the requests ids.                                      *)
Part(ids, k) == <<ids[(k + 1) \div 2], IF k % 2 = 1 THEN "begin" ELSE "end">>

(* The requests a client waits for are, in this order, those answered, the *)
(* one being served and those it has sent, of which only the last may be   *)
(* half sent: none is lost, answered twice or given to another client.     *)
EachToItsOwn ==
  \A c \in Clients : conn[c] = "open" =>
    LET n    == Len(answers[c])
        rest == [k \in 1..(Len(expect[c]) - n) |-> expect[c][n + k]]
    IN  /\ Len(expect[c]) = n + (Len(Unanswered(c)) + 1) \div 2
        /\ \A k \in 1..n : answers[c][k] = expect[c][k]
        /\ \A k \in 1..Len(Unanswered(c)) : Unanswered(c)[k] = Part(rest, k)

(* With a descriptor for each client, whoever sends a request gets its     *)
(* answer or sees the connection close, whatever the other clients do.     *)
(* (The server of one client lets those in its queue wait until it ends.)  *)
Waits(c, i) == conn[c] = "open" /\ expect[c] # <<>> /\ Head(expect[c]) = i

Served ==
  Cardinality(Clients) < Cardinality(Descriptors) =>
    \A c \in Clients, i \in Ids :
      (Waits(c, i) /\ (program = "many" \/ ~Queued(c))) ~> ~Waits(c, i)
=============================================================================
