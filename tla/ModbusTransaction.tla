-------------------------- MODULE ModbusTransaction --------------------------
(***************************************************************************)
(* A client, a server and the connection between them, over many calls.    *)
(* The client library builds a request, sends it, waits for one answer and *)
(* checks it; answers may come too late, be lost or damaged, the server    *)
(* may close the connection, and error recovery sleeps, flushes and        *)
(* reconnects.  Frames are whole here (ModbusReceive is about their        *)
(* bytes).  The server is the sequential loop of modbus_receive and        *)
(* modbus_reply of one connection after the other.                         *)
(*                                                                         *)
(* age counts the calls made since the request of a message was sent: 0    *)
(* means that it belongs to the latest call.  No code reads it.            *)
(***************************************************************************)
EXTENDS Integers, Sequences

CONSTANTS
  TidMod,      \* identifiers are 0..TidMod - 1 (UINT16_MAX + 1 in the code)
  Ops,         \* calls that check_confirmation can tell apart
  Modes        \* the backends, recovery modes and networks to look at:
               \* tcp: answers carry the identifier of their request;
               \* link, protocol: MODBUS_ERROR_RECOVERY_... is set;
               \* pace: how late answers are at first, see the variable

ASSUME TidAssumption == TidMod \in Nat \ {0}
ASSUME ModesAssumption ==
  Modes \subseteq [tcp : BOOLEAN, link : BOOLEAN, protocol : BOOLEAN, pace : {"any", "sleep"}]

VARIABLES
  mode,      \* one of Modes
  pc,        \* "idle", "send" (send_msg), "wait" (receive_msg), "sleep"
  op, tid,   \* the request of the latest call
  conn,      \* the client's descriptor: "up", "reset" by the peer, "closed"
  result,    \* "none" until the latest call returns, then "ok" or the error
  accepted,  \* age of the answer the latest call accepted, -1 if none
  reqs,      \* requests on their way to the server
  serving,   \* the request the server works on, a sequence of at most one
  rsps,      \* answers on their way to the client
  effects,   \* how often the request of the latest call took effect
  pace       \* "any": an answer may be arbitrarily late; "sleep": it comes
             \* before a sleep that follows a timeout ends; "prompt": it
             \* comes before the timeout

client == <<pc, op, tid, result, accepted>>
server == <<serving, effects>>
vars   == <<pc, op, tid, conn, result, accepted, reqs, serving, rsps, effects, pace, mode>>

Tids    == 0..(TidMod - 1)
Ages    == 0..(TidMod - 1)
Message == [age : Ages, tid : Tids, op : Ops, live : BOOLEAN]
Answer  == [age : Ages, tid : Tids, op : Ops, exc : BOOLEAN]
Errors  == {"ETIMEDOUT", "ECONNRESET", "EPIPE", "EMBBADDATA", "EMBBADCRC"}

TypeOK ==
  /\ mode \in Modes
  /\ pc \in {"idle", "send", "wait", "sleep"}
  /\ op \in Ops /\ tid \in Tids
  /\ conn \in {"up", "reset", "closed"}
  /\ result \in {"none", "ok", "exception"} \union Errors
  /\ accepted \in Ages \union {-1}
  /\ reqs \in Seq(Message) /\ serving \in Seq(Message) /\ rsps \in Seq(Answer)
  /\ effects \in Nat
  /\ pace \in {"any", "sleep", "prompt"}

Init ==
  /\ mode \in Modes
  /\ pc = "idle" /\ op \in Ops /\ tid = 0
  /\ conn = "up" /\ result = "none" /\ accepted = -1
  /\ reqs = <<>> /\ serving = <<>> /\ rsps = <<>>
  /\ effects = 0 /\ pace = mode.pace

Aged(s) == [i \in DOMAIN s |-> [s[i] EXCEPT !.age = @ + 1]]
Dead(s) == [i \in DOMAIN s |-> [s[i] EXCEPT !.live = FALSE]]

(* Bound: no message stays on its way while TidMod calls are made.         *)
Window ==
  /\ \A i \in DOMAIN reqs : reqs[i].age + 1 < TidMod
  /\ \A i \in DOMAIN serving : serving[i].age + 1 < TidMod
  /\ \A i \in DOMAIN rsps : rsps[i].age + 1 < TidMod

Unanswered == reqs # <<>> \/ serving # <<>>

-----------------------------------------------------------------------------
(* The client.                                                             *)

NextTid == IF tid < TidMod - 1 THEN tid + 1 ELSE 0

(* A call builds its request.                                              *)
Call(o) ==
  /\ pc = "idle" /\ Window
  /\ pc' = "send" /\ op' = o
  /\ tid' = IF mode.tcp THEN NextTid ELSE tid
  /\ result' = "none" /\ accepted' = -1 /\ effects' = 0
  /\ reqs' = Aged(reqs) /\ serving' = Aged(serving) /\ rsps' = Aged(rsps)
  /\ UNCHANGED <<conn, pace, mode>>

Send ==
  /\ pc = "send" /\ conn = "up"
  /\ pc' = "wait"
  /\ reqs' = Append(reqs, [age |-> 0, tid |-> tid, op |-> op, live |-> TRUE])
  /\ UNCHANGED <<op, tid, conn, result, accepted, server, rsps, pace, mode>>

(* The first send on a connection the peer has closed still succeeds.      *)
SendLost ==
  /\ pc = "send" /\ conn = "reset"
  /\ pc' = "wait"
  /\ UNCHANGED <<op, tid, conn, result, accepted, reqs, server, rsps, pace, mode>>

(* modbus_close and modbus_connect.  The server still reads what it has    *)
(* received on the old connection, but nobody reads its answers.           *)
Reconnect ==
  /\ conn' \in {"up", "closed"}
  /\ pace = "prompt" => conn' = "up"
  /\ reqs' = Dead(reqs) /\ serving' = Dead(serving) /\ rsps' = <<>>

(* send_msg: with link recovery it goes on until the send succeeds.        *)
SendFails ==
  /\ pc = "send" /\ conn # "up"
  /\ IF mode.link
     THEN Reconnect /\ UNCHANGED <<pc, result>>
     ELSE /\ pc' = "idle" /\ result' = "EPIPE"
          /\ UNCHANGED <<conn, reqs, serving, rsps>>
  /\ UNCHANGED <<op, tid, accepted, effects, pace, mode>>

(* Faulty variant, for mutation: the client sends its request again.       *)
TimeoutRetry ==
  /\ pc = "wait" /\ conn = "up" /\ rsps = <<>>
  /\ pace = "prompt" => ~Unanswered
  /\ Window
  /\ pc' = "send"
  /\ UNCHANGED <<op, tid, conn, result, accepted, reqs, server, rsps, pace, mode>>

(* Faulty variant, for mutation: the error is returned without cleaning.   *)
TimeoutAtOnce ==
  /\ pc = "wait" /\ conn = "up" /\ rsps = <<>>
  /\ pace = "prompt" => ~Unanswered
  /\ result' = "ETIMEDOUT" /\ pc' = "idle"
  /\ UNCHANGED <<op, tid, accepted, conn, reqs, server, rsps, pace, mode>>

(* receive_msg: no answer within response_timeout.                         *)
Timeout ==
  /\ pc = "wait" /\ conn = "up" /\ rsps = <<>>
  /\ pace = "prompt" => ~Unanswered
  /\ result' = "ETIMEDOUT"
  /\ pc' = IF mode.link THEN "sleep" ELSE "idle"
  /\ UNCHANGED <<op, tid, accepted, conn, reqs, server, rsps, pace, mode>>

(* receive_msg: end of file.                                               *)
Closed ==
  /\ pc = "wait" /\ conn = "reset" /\ rsps = <<>>
  /\ result' = "ECONNRESET" /\ pc' = "idle"
  /\ IF mode.link THEN Reconnect ELSE UNCHANGED <<conn, reqs, serving, rsps>>
  /\ UNCHANGED <<op, tid, accepted, effects, pace, mode>>

MatchesFunction(m) == m.op = op   \* for mutation: no identifier compared

(* pre_check_confirmation and check_confirmation.                          *)
Matches(m) == (mode.tcp => m.tid = tid) /\ m.op = op

Accept ==
  /\ pc = "wait" /\ rsps # <<>> /\ Matches(Head(rsps))
  /\ result' = IF Head(rsps).exc THEN "exception" ELSE "ok"
  /\ accepted' = Head(rsps).age
  /\ pc' = "idle" /\ rsps' = Tail(rsps)
  /\ UNCHANGED <<op, tid, conn, reqs, server, pace, mode>>

MismatchNoCleanup ==   \* for mutation: protocol recovery forgotten
  /\ pc = "wait" /\ rsps # <<>> /\ ~Matches(Head(rsps))
  /\ result' = "EMBBADDATA" /\ pc' = "idle"
  /\ rsps' = Tail(rsps)
  /\ UNCHANGED <<op, tid, accepted, conn, reqs, server, pace, mode>>

Mismatch ==
  /\ pc = "wait" /\ rsps # <<>> /\ ~Matches(Head(rsps))
  /\ result' = "EMBBADDATA"
  /\ pc' = IF mode.protocol THEN "sleep" ELSE "idle"
  /\ rsps' = Tail(rsps)
  /\ UNCHANGED <<op, tid, accepted, conn, reqs, server, pace, mode>>

(* A serial line damages the answer: check_integrity flushes, no sleep.    *)
BadCrc ==
  /\ ~mode.tcp /\ pc = "wait" /\ rsps # <<>>
  /\ result' = "EMBBADCRC" /\ pc' = "idle"
  /\ rsps' = IF mode.protocol THEN <<>> ELSE Tail(rsps)
  /\ UNCHANGED <<op, tid, accepted, conn, reqs, server, pace, mode>>

FlushNothing ==   \* for mutation: the sleep without the flush
  /\ pc = "sleep"
  /\ pace # "any" => ~Unanswered
  /\ pc' = "idle"
  /\ UNCHANGED <<op, tid, result, accepted, conn, reqs, server, rsps, pace, mode>>

(* The end of _sleep_and_flush.                                            *)
Flush ==
  /\ pc = "sleep"
  /\ pace # "any" => ~Unanswered
  /\ pc' = "idle" /\ rsps' = <<>>
  /\ UNCHANGED <<op, tid, result, accepted, conn, reqs, server, pace, mode>>

(* The application closes and reconnects after an error.                   *)
AppReconnect ==
  /\ pc = "idle" /\ result \in Errors /\ mode.tcp
  /\ Reconnect
  /\ UNCHANGED <<client, effects, pace, mode>>

-----------------------------------------------------------------------------
(* The server and the network.                                             *)

(* modbus_receive.                                                         *)
Take ==
  /\ serving = <<>> /\ reqs # <<>>
  /\ serving' = <<Head(reqs)>> /\ reqs' = Tail(reqs)
  /\ UNCHANGED <<client, conn, rsps, effects, pace, mode>>

(* modbus_reply: the operation is done and the answer sent.                *)
Reply(exc) ==
  /\ serving # <<>>
  /\ LET m == Head(serving)
     IN  /\ rsps' = IF m.live
                    THEN Append(rsps, [age |-> m.age, tid |-> m.tid, op |-> m.op, exc |-> exc])
                    ELSE rsps
         /\ effects' = IF m.age = 0 /\ ~exc THEN effects + 1 ELSE effects
  /\ serving' = <<>>
  /\ UNCHANGED <<client, conn, reqs, pace, mode>>

(* A serial line loses a request or an answer.                             *)
LoseRequest ==
  /\ ~mode.tcp /\ reqs # <<>>
  /\ reqs' = Tail(reqs)
  /\ UNCHANGED <<client, conn, server, rsps, pace, mode>>

LoseAnswer ==
  /\ ~mode.tcp /\ rsps # <<>>
  /\ rsps' = Tail(rsps)
  /\ UNCHANGED <<client, conn, reqs, server, pace, mode>>

(* The server closes the connection, or dies with the request it works on. *)
(* What it has answered can still be read.                                 *)
PeerResets ==
  /\ mode.tcp /\ conn = "up" /\ pace # "prompt"
  /\ conn' = "reset"
  /\ reqs' = <<>>
  /\ serving' \in {<<>>, Dead(serving)}
  /\ UNCHANGED <<client, rsps, effects, pace, mode>>

(* From now on the network and the server are healthy.                     *)
Settle ==
  /\ pace = "any"
  /\ pace' = "prompt"
  /\ UNCHANGED <<client, conn, reqs, server, rsps, mode>>

Serve == Take \/ \E exc \in BOOLEAN : Reply(exc)

ClientStep ==
  \/ Send \/ SendFails \/ Timeout \/ Closed \/ Accept \/ Mismatch \/ Flush

Next ==
  \/ \E o \in Ops : Call(o)
  \/ ClientStep \/ SendLost \/ BadCrc \/ AppReconnect
  \/ Serve \/ LoseRequest \/ LoseAnswer \/ PeerResets \/ Settle

Spec == Init /\ [][Next]_vars

(* The library and the server go on when they can: their timers end and    *)
(* what has arrived is read.                                               *)
FairSpec == Spec /\ WF_vars(ClientStep) /\ WF_vars(Serve)

-----------------------------------------------------------------------------
Returned(results) == pc = "idle" /\ result \in results

(* An answer, normal or exception, that a call accepts is the answer to    *)
(* that call's own request and not a late one to an earlier call.          *)
OwnAnswer == Returned({"ok", "exception"}) => accepted = 0

(* When a call has succeeded no earlier request can still take effect: a   *)
(* write that failed is not going to overwrite a later write.              *)
QuietAfterOk == Returned({"ok", "exception"}) => ~Unanswered

(* Once the network is healthy, error recovery ends the loss of step       *)
(* between requests and answers: from some point on no call fails.         *)
Succeeds == (pc # "idle" /\ pc' = "idle") => result' \notin Errors

Resync ==
  mode.link /\ mode.protocol /\ <>(pace = "prompt") => <>[][Succeeds]_vars

(* The whole implements the abstract call.                                 *)
Abstract ==
  INSTANCE ModbusCall WITH
    calling <- pc # "idle",
    effect  <- effects,
    outcome <- IF pc # "idle" THEN "none"
               ELSE IF result \in Errors THEN "error" ELSE result

ImplementsCall == Abstract!CallSpec
=============================================================================
