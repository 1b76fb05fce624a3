---------------------------- MODULE ModbusThreads ----------------------------
(***************************************************************************)
(* Several threads of one process that call the library over TCP, on one   *)
(* context or on one each.  The library has no lock: a context has one     *)
(* descriptor, and the transaction identifier is a static variable that    *)
(* every context of the process shares.                                    *)
(***************************************************************************)
EXTENDS Integers, Sequences

CONSTANTS
  Threads,     \* the application's threads
  Contexts,    \* modbus_t of the process
  ContextOf,   \* the context each thread uses
  Lock,        \* "none", or "process": the application itself holds one
               \* lock of the process during every call
  CanTimeout,  \* an answer can miss response_timeout
  TidMod,      \* identifiers are 0..TidMod - 1
  MaxCalls     \* bound: calls of each thread

ASSUME ThreadsAssumption ==
  /\ ContextOf \in [Threads -> Contexts]
  /\ Lock \in {"none", "process"} /\ CanTimeout \in BOOLEAN
  /\ MaxCalls \in Nat /\ TidMod \in Nat \ {0}

VARIABLES
  t_id,      \* static uint16_t t_id of _modbus_tcp_build_request_basis
  pc,        \* per thread: "idle", "load", "store", "build", "send", "wait"
  local,     \* per thread: t_id as the thread has loaded or computed it
  tid,       \* per thread: the identifier in its request
  calls,     \* per thread: number of its calls so far
  result,    \* per thread: what its last call returned
  answer,    \* per thread: the message its last call accepted
  reqs,      \* per context: requests on their way to the server
  rsps,      \* per context: answers on their way to the client
  timeouts,  \* per context: whether a call on it has timed out
  numbered,  \* history: how many calls of the process have taken an identifier
  number     \* history, per thread: which of them its last such call was

calling == <<pc, local, tid, calls, result, answer, numbered, number>>
line    == <<reqs, rsps, timeouts>>
vars    == <<t_id, calling, line>>

Tids    == 0..(TidMod - 1)
Message == [call : Nat, tid : Tids]
None    == [call |-> 0, tid |-> 0]

TypeOK ==
  /\ t_id \in Tids
  /\ pc \in [Threads -> {"idle", "load", "store", "build", "send", "wait"}]
  /\ local \in [Threads -> Tids] /\ tid \in [Threads -> Tids]
  /\ calls \in [Threads -> 0..MaxCalls]
  /\ result \in [Threads -> {"none", "ok", "ETIMEDOUT", "EMBBADDATA"}]
  /\ answer \in [Threads -> Message]
  /\ reqs \in [Contexts -> Seq(Message)] /\ rsps \in [Contexts -> Seq(Message)]
  /\ timeouts \in [Contexts -> BOOLEAN]
  /\ numbered \in Nat /\ number \in [Threads -> Nat]

Init ==
  /\ t_id = 0
  /\ pc = [t \in Threads |-> "idle"]
  /\ local = [t \in Threads |-> 0] /\ tid = [t \in Threads |-> 0]
  /\ calls = [t \in Threads |-> 0]
  /\ result = [t \in Threads |-> "none"] /\ answer = [t \in Threads |-> None]
  /\ reqs = [c \in Contexts |-> <<>>] /\ rsps = [c \in Contexts |-> <<>>]
  /\ timeouts = [c \in Contexts |-> FALSE]
  /\ numbered = 0 /\ number = [t \in Threads |-> 0]

-----------------------------------------------------------------------------
(* A thread calls a function of the library.                               *)
Begin(t) ==
  /\ pc[t] = "idle" /\ calls[t] < MaxCalls
  /\ Lock = "process" => \A u \in Threads : pc[u] = "idle"
  /\ pc' = [pc EXCEPT ![t] = "load"]
  /\ calls' = [calls EXCEPT ![t] = @ + 1]
  /\ result' = [result EXCEPT ![t] = "none"]
  /\ answer' = [answer EXCEPT ![t] = None]
  /\ UNCHANGED <<t_id, local, tid, numbered, number, line>>

(* t_id++ is a load and a store, and no order with other threads' is       *)
(* guaranteed.                                                             *)
Load(t) ==
  /\ pc[t] = "load"
  /\ local' = [local EXCEPT ![t] = t_id]
  /\ pc' = [pc EXCEPT ![t] = "store"]
  /\ UNCHANGED <<t_id, tid, calls, result, answer, numbered, number, line>>

SameTid(n) == n   \* for mutation: the identifier is never advanced

NextTid(n) == IF n < TidMod - 1 THEN n + 1 ELSE 0

Store(t) ==
  /\ pc[t] = "store"
  /\ t_id' = NextTid(local[t])
  /\ local' = [local EXCEPT ![t] = NextTid(local[t])]
  /\ pc' = [pc EXCEPT ![t] = "build"]
  /\ numbered' = numbered + 1 /\ number' = [number EXCEPT ![t] = numbered']
  /\ UNCHANGED <<tid, calls, result, answer, line>>

(* The identifier goes into the request from a register or from t_id read  *)
(* again: the compiler may do either.  Its two bytes are taken together.    *)
Build(t) ==
  /\ pc[t] = "build"
  /\ \E n \in {local[t], t_id} : tid' = [tid EXCEPT ![t] = n]
  /\ pc' = [pc EXCEPT ![t] = "send"]
  /\ UNCHANGED <<t_id, local, calls, result, answer, numbered, number, line>>

Send(t) ==
  /\ pc[t] = "send"
  /\ reqs' = [reqs EXCEPT ![ContextOf[t]] =
                Append(@, [call |-> number[t], tid |-> tid[t]])]
  /\ pc' = [pc EXCEPT ![t] = "wait"]
  /\ UNCHANGED <<t_id, local, tid, calls, result, answer, numbered, number, rsps, timeouts>>

MatchesAny(t, m) == TRUE   \* for mutation: no identifier compared

(* pre_check_confirmation.  All threads make the same kind of request.     *)
Matches(t, m) == m.tid = tid[t]

(* receive_msg takes the next answer of the descriptor, whoever asked for  *)
(* it.  An answer is read as a whole here.                                 *)
Confirm(t) ==
  /\ pc[t] = "wait" /\ rsps[ContextOf[t]] # <<>>
  /\ LET m == Head(rsps[ContextOf[t]])
     IN  IF Matches(t, m)
         THEN /\ result' = [result EXCEPT ![t] = "ok"]
              /\ answer' = [answer EXCEPT ![t] = m]
         ELSE /\ result' = [result EXCEPT ![t] = "EMBBADDATA"]
              /\ UNCHANGED answer
  /\ rsps' = [rsps EXCEPT ![ContextOf[t]] = Tail(@)]
  /\ pc' = [pc EXCEPT ![t] = "idle"]
  /\ UNCHANGED <<t_id, local, tid, calls, numbered, number, reqs, timeouts>>

(* No answer within response_timeout.  Where CanTimeout is FALSE this only *)
(* happens when no answer is left to come, another thread having taken it. *)
Timeout(t) ==
  /\ pc[t] = "wait" /\ rsps[ContextOf[t]] = <<>>
  /\ CanTimeout \/ reqs[ContextOf[t]] = <<>>
  /\ result' = [result EXCEPT ![t] = "ETIMEDOUT"]
  /\ timeouts' = [timeouts EXCEPT ![ContextOf[t]] = TRUE]
  /\ pc' = [pc EXCEPT ![t] = "idle"]
  /\ UNCHANGED <<t_id, local, tid, calls, answer, numbered, number, reqs, rsps>>

(* The server answers the requests of a connection in order.               *)
Reply(c) ==
  /\ reqs[c] # <<>>
  /\ rsps' = [rsps EXCEPT ![c] = Append(@, Head(reqs[c]))]
  /\ reqs' = [reqs EXCEPT ![c] = Tail(@)]
  /\ UNCHANGED <<t_id, calling, timeouts>>

Step(t) ==
  Begin(t) \/ Load(t) \/ Store(t) \/ Build(t) \/ Send(t) \/ Confirm(t) \/ Timeout(t)

Next == (\E t \in Threads : Step(t)) \/ (\E c \in Contexts : Reply(c))

Spec == Init /\ [][Next]_vars

-----------------------------------------------------------------------------
(* The requests and answers of a connection that nobody has read yet.      *)
Outstanding(c) == reqs[c] \o rsps[c]

(* Between the calls number a and number b the identifiers have gone round *)
(* once at least.                                                          *)
RoundAgain(a, b) == a + TidMod <= b

(* modbus-tcp.c: "at a time, on a TCP connection, this identifier must be  *)
(* unique".  With 16 bits it cannot be for ever: two messages on a         *)
(* connection that nobody has read have the same identifier only if all    *)
(* identifiers were given between their two calls.                         *)
UniqueTid ==
  \A c \in Contexts : \A i, j \in 1..Len(Outstanding(c)) :
    LET m == Outstanding(c)[i]
        n == Outstanding(c)[j]
    IN  i # j /\ m.tid = n.tid => RoundAgain(m.call, n.call) \/ RoundAgain(n.call, m.call)

(* The answer a call accepts is the answer to that very call, not one to   *)
(* another thread or to an earlier call, unless it comes so late that all  *)
(* identifiers were given in between.                                      *)
OwnAnswer ==
  \A t \in Threads :
    result[t] = "ok" =>
      answer[t].call = number[t] \/ RoundAgain(answer[t].call, number[t])

(* libmodbus.txt: a context "may be shared among as many application       *)
(* threads as necessary, without any additional locking": as long as       *)
(* answers come in time, no call finds an answer that is not its own.      *)
SharedSafely ==
  \A t \in Threads : result[t] = "EMBBADDATA" => timeouts[ContextOf[t]]
=============================================================================
