----------------------------- MODULE ModbusLink -----------------------------
(***************************************************************************)
(* The descriptor of a context over its life: modbus_connect, modbus_close *)
(* and the reconnections of link recovery inside send_msg and receive_msg, *)
(* for the TCP/IPv4, TCP PI and RTU backends, in a process with several    *)
(* contexts and one table of descriptors.  ctx->s is only a number: the    *)
(* kernel gives the lowest free one to the next connection of any context. *)
(* The process has one thread; a call runs to its end.                     *)
(***************************************************************************)
EXTENDS Integers

CONSTANTS
  Contexts,     \* the contexts of the process
  Descriptors,  \* the numbers of descriptors the process may have
  MaxClosed     \* bound: connections the peers close

ASSUME ContextsAssumption ==
  /\ "nobody" \notin Contexts
  /\ Descriptors \subseteq Nat
  /\ MaxClosed \in Nat

VARIABLES
  kind,       \* the backend of each context
  link,       \* the contexts with MODBUS_ERROR_RECOVERY_LINK set
  s,          \* ctx->s
  table,      \* the descriptors: free, or whose connection it is and
              \* whether the peer still has it open
  pc,         \* "idle", "send" (send_msg) or "wait" (receive_msg)
  connected,  \* contexts the application takes for connected
  last,       \* the last modbus_connect: its context and what it returned
  foreign,    \* what was done through a descriptor of another context
  closed      \* number of connections peers have closed

kinds == <<kind, link>>
vars  == <<kinds, s, table, pc, connected, last, foreign, closed>>

Kinds      == {"tcp", "pi", "rtu"}
Free       == [by |-> "nobody", peer |-> FALSE]
Entry(c)   == [by |-> c, peer |-> TRUE]
NoConnect  == [ctx |-> "nobody", rc |-> "none"]
EAI        == "EAI"   \* an error number of getaddrinfo

TypeOK ==
  /\ kind \in [Contexts -> Kinds] /\ link \subseteq Contexts
  /\ s \in [Contexts -> Descriptors \union {-1}]
  /\ table \in [Descriptors -> {Free} \union [by : Contexts, peer : BOOLEAN]]
  /\ pc \in [Contexts -> {"idle", "send", "wait"}]
  /\ connected \subseteq Contexts
  /\ last \in {NoConnect} \union [ctx : Contexts, rc : {"0", "-1", EAI}]
  /\ foreign \subseteq {"send", "wait", "close"}
  /\ closed \in 0..MaxClosed

(* A process has contexts of the network or of serial lines, not of both.  *)
Init ==
  /\ kind \in [Contexts -> {"tcp", "pi"}] \union [Contexts -> {"rtu"}]
  /\ link \in SUBSET Contexts
  /\ s = [c \in Contexts |-> -1]
  /\ table = [d \in Descriptors |-> Free]
  /\ pc = [c \in Contexts |-> "idle"]
  /\ connected = {} /\ last = NoConnect /\ foreign = {} /\ closed = 0

-----------------------------------------------------------------------------
(* connect and close of the backends, on a table t of descriptors.         *)

(* The lowest free number, if there is one.                                *)
Lowest(t) ==
  {d \in Descriptors : t[d] = Free /\ \A e \in Descriptors : t[e] = Free => d <= e}

(* socket and connect succeed.                                             *)
Established(c, t) ==
  {[s |-> d, table |-> [t EXCEPT ![d] = Entry(c)], rc |-> "0"] : d \in Lowest(t)}

NoSocket(t) == [s |-> -1, table |-> t, rc |-> "-1"]

(* For mutation: the number in ctx->s is taken for a connection; the       *)
(* socket is not closed.                                                   *)
TcpFailedZero(c, t) ==
  {NoSocket(t)} \union {[s |-> d, table |-> t, rc |-> "0"] : d \in Lowest(t)}

TcpFailedOpen(c, t) ==
  {NoSocket(t)} \union
  {[s |-> d, table |-> [t EXCEPT ![d] = Entry(c)], rc |-> "-1"] : d \in Lowest(t)}

(* socket fails, or the options or connect fail and the socket is closed.  *)
TcpFailed(c, t) ==
  {NoSocket(t)} \union {[s |-> d, table |-> t, rc |-> "-1"] : d \in Lowest(t)}

(* No address can be connected: ctx->s is as before, and is what the       *)
(* result is taken from; or getaddrinfo fails, whose error is the result.  *)
PiFailed(c, t) ==
  {[s |-> s[c], table |-> t, rc |-> IF s[c] < 0 THEN "-1" ELSE "0"],
   [s |-> s[c], table |-> t, rc |-> EAI]}

(* For mutation: when tcsetattr fails the number stays in ctx->s.          *)
RtuFailedStale(t) ==
  {NoSocket(t)} \union {[s |-> d, table |-> t, rc |-> "-1"] : d \in Lowest(t)}

(* open fails, or tcsetattr does and the descriptor is closed: ctx->s is   *)
(* -1 after both.                                                          *)
RtuFailed(t) == {NoSocket(t)}

Failed(c, t) ==
  IF kind[c] = "pi" THEN PiFailed(c, t)
  ELSE IF kind[c] = "rtu" THEN RtuFailed(t) ELSE TcpFailed(c, t)

(* close of ctx->s, which keeps its number.                                *)
IsOpen(c)    == s[c] \in Descriptors /\ table[s[c]] # Free
ClosedTable(c) == IF IsOpen(c) THEN [table EXCEPT ![s[c]] = Free] ELSE table

Through(c, what) ==
  foreign' = IF IsOpen(c) /\ table[s[c]].by # c THEN foreign \union {what} ELSE foreign

(* modbus_close and modbus_connect inside the library.                     *)
Reconnect(c, outcomes) ==
  /\ \E o \in outcomes : s' = [s EXCEPT ![c] = o.s] /\ table' = o.table
  /\ Through(c, "close")
  /\ UNCHANGED <<kinds, connected, last, closed>>

-----------------------------------------------------------------------------
(* The application uses a context it has connected, and closes it before   *)
(* it connects again.                                                      *)
NoCall == \A c \in Contexts : pc[c] = "idle"

Connect(c) ==
  /\ NoCall /\ c \notin connected
  /\ \E o \in Established(c, table) \union Failed(c, table) :
       /\ s' = [s EXCEPT ![c] = o.s] /\ table' = o.table
       /\ last' = [ctx |-> c, rc |-> o.rc]
       /\ connected' = IF o.rc = "0" THEN connected \union {c} ELSE connected
  /\ UNCHANGED <<kinds, pc, foreign, closed>>

Close(c) ==
  /\ NoCall /\ c \in connected
  /\ table' = ClosedTable(c)
  /\ connected' = connected \ {c}
  /\ Through(c, "close")
  /\ last' = NoConnect
  /\ UNCHANGED <<kinds, s, pc, closed>>

Call(c) ==
  /\ NoCall /\ c \in connected
  /\ pc' = [pc EXCEPT ![c] = "send"] /\ last' = NoConnect
  /\ UNCHANGED <<kinds, s, table, connected, foreign, closed>>

-----------------------------------------------------------------------------
(* send_msg.                                                               *)

(* The kernel takes the bytes, of a socket even the first ones after the   *)
(* peer closed.                                                            *)
Send(c) ==
  /\ pc[c] = "send" /\ IsOpen(c)
  /\ kind[c] = "rtu" => table[s[c]].peer
  /\ pc' = [pc EXCEPT ![c] = "wait"]
  /\ Through(c, "send")
  /\ UNCHANGED <<kinds, s, table, connected, last, closed>>

(* EPIPE, ECONNRESET or EBADF; EIO of a serial line that hung up.          *)
SendFailing(c) == pc[c] = "send" /\ (IsOpen(c) => ~table[s[c]].peer)

SendFails(c) ==
  /\ SendFailing(c) /\ c \notin link
  /\ pc' = [pc EXCEPT ![c] = "idle"]
  /\ Through(c, "send")
  /\ UNCHANGED <<kinds, s, table, connected, last, closed>>

(* For mutation: the connection is closed and not made again.              *)
SendOnlyCloses(c) ==
  /\ SendFailing(c) /\ c \in link
  /\ Reconnect(c, {[s |-> s[c], table |-> ClosedTable(c), rc |-> "-1"]})
  /\ UNCHANGED <<kinds, pc>>

(* Link recovery closes, connects and sends again, until it succeeds.      *)
Reconnects(c) == SendFailing(c) /\ c \in link /\ (kind[c] = "rtu" => ~IsOpen(c))

SendRecovers(c) ==
  /\ Reconnects(c)
  /\ Reconnect(c, Established(c, ClosedTable(c)))
  /\ UNCHANGED <<kinds, pc>>

SendStaysDown(c) ==
  /\ Reconnects(c)
  /\ Reconnect(c, Failed(c, ClosedTable(c)))
  /\ UNCHANGED <<kinds, pc>>

(* After EIO it only sleeps, flushes and sends again: nothing changes.     *)
SendSpins(c) ==
  /\ SendFailing(c) /\ c \in link /\ kind[c] = "rtu" /\ IsOpen(c)
  /\ UNCHANGED vars

-----------------------------------------------------------------------------
(* receive_msg.                                                            *)

(* An answer, or the timeout and what follows it.                          *)
Return(c) ==
  /\ pc[c] = "wait" /\ IsOpen(c)
  /\ pc' = [pc EXCEPT ![c] = "idle"]
  /\ Through(c, "wait")
  /\ UNCHANGED <<kinds, s, table, connected, last, closed>>

(* recv finds the end of file.  Link recovery reconnects once and ignores  *)
(* whether it worked; the call returns the error.                          *)
Broken(c) ==
  /\ pc[c] = "wait" /\ IsOpen(c) /\ ~table[s[c]].peer
  /\ IF c \in link
     THEN Reconnect(c, Established(c, ClosedTable(c)) \union Failed(c, ClosedTable(c)))
     ELSE Through(c, "wait") /\ UNCHANGED <<kinds, s, table, connected, last, closed>>
  /\ pc' = [pc EXCEPT ![c] = "idle"]

PeerCloses(d) ==
  /\ table[d] # Free /\ table[d].peer /\ closed < MaxClosed
  /\ table' = [table EXCEPT ![d] = [by |-> table[d].by, peer |-> FALSE]]
  /\ closed' = closed + 1
  /\ UNCHANGED <<kinds, s, pc, connected, last, foreign>>

Step(c) ==
  \/ Connect(c) \/ Close(c) \/ Call(c)
  \/ Send(c) \/ SendFails(c) \/ SendRecovers(c) \/ SendStaysDown(c) \/ SendSpins(c)
  \/ Return(c) \/ Broken(c)

Next ==
  \/ \E c \in Contexts : Step(c)
  \/ \E d \in Descriptors : PeerCloses(d)

Spec == Init /\ [][Next]_vars

(* The loop of send_msg goes on; a server that is started again and again  *)
(* is reached at some time.                                                *)
FairSpec ==
  /\ Spec
  /\ \A c \in Contexts :
       /\ WF_vars(Send(c) \/ SendFails(c) \/ SendStaysDown(c))
       /\ WF_vars(Send(c)) /\ SF_vars(SendRecovers(c))

-----------------------------------------------------------------------------
(* modbus_connect.txt: "shall return 0 if successful. Otherwise it shall   *)
(* return -1": 0 means that the descriptor is that of an open connection   *)
(* of this context.                                                        *)
ConnectReports ==
  last.rc = "0" => IsOpen(last.ctx) /\ table[s[last.ctx]].by = last.ctx

(* All but TCP PI keep to it, whatever other contexts do.                  *)
PlainConnectReports == last.rc = "0" /\ kind[last.ctx] # "pi" => ConnectReports

(* Nothing is sent to, read from or closed of another context's            *)
(* connection, where no context is of TCP PI and only those of RTU recover *)
(* their link.                                                             *)
NoPi          == \A c \in Contexts : kind[c] # "pi"
OwnDescriptor == NoPi /\ (\A c \in link : kind[c] = "rtu") => foreign = {}

(* modbus_close.txt: modbus_close "shall close the connection established  *)
(* with the backend set in the context", not one of another context.       *)
ClosesOwn == NoPi => "close" \notin foreign

(* Every open descriptor can still be closed: it is the one its context    *)
(* holds, however often connections broke and were made again.             *)
NoLeak == \A d \in Descriptors : table[d] # Free => s[table[d].by] = d

(* modbus_set_error_recovery.txt: a send goes on "until success", and      *)
(* succeeds when the server can be reached again; without link recovery it *)
(* fails.  (With it, over a serial line that hung up, it does not end.)    *)
SendEnds ==
  \A c \in Contexts :
    (pc[c] = "send" /\ ~(kind[c] = "rtu" /\ c \in link)) ~> (pc[c] # "send")
=============================================================================
