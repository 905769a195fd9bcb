----------------------------- MODULE RemoteCalls -----------------------------
(***************************************************************************)
(* What a connection promises to the threads that share it: calls have the *)
(* connection one after the other; a call is sent at most MaxSends times   *)
(* and takes effect at most as often as it was sent; it is answered only   *)
(* after it took effect, and only an answered call returns Ok.  A call     *)
(* that returned Err may have taken effect or not, may even do so later,   *)
(* and what is left of its answer may be taken for that of another call.   *)
(***************************************************************************)
EXTENDS Integers

CONSTANTS Calls, NoCall

MaxSends == 2

VARIABLES
  turn,     \* the call that has the connection, or NoCall
  status,   \* what became of each call
  sends,    \* how often each call was sent
  effects   \* how often it took effect

rvars == <<turn, status, sends, effects>>

Init ==
  /\ turn = NoCall
  /\ status = [c \in Calls |-> "new"]
  /\ sends = [c \in Calls |-> 0]
  /\ effects = [c \in Calls |-> 0]

Begin(c) ==
  /\ status[c] = "new"
  /\ status' = [status EXCEPT ![c] = "open"]
  /\ UNCHANGED <<turn, sends, effects>>

Acquire(c) ==
  /\ turn = NoCall /\ status[c] = "open" /\ sends[c] = 0
  /\ turn' = c
  /\ UNCHANGED <<status, sends, effects>>

Send(c) ==
  /\ turn = c /\ status[c] = "open" /\ sends[c] < MaxSends
  /\ sends' = [sends EXCEPT ![c] = @ + 1]
  /\ UNCHANGED <<turn, status, effects>>

Effect(c) ==
  /\ effects[c] < sends[c]
  /\ effects' = [effects EXCEPT ![c] = @ + 1]
  /\ UNCHANGED <<turn, status, sends>>

Answer(c) ==
  /\ turn = c /\ status[c] = "open" /\ effects[c] > 0
  /\ turn' = NoCall
  /\ status' = [status EXCEPT ![c] = "answered"]
  /\ UNCHANGED <<sends, effects>>

Misanswer(c) ==
  /\ turn = c /\ status[c] = "open" /\ \E d \in Calls : status[d] = "err"
  /\ turn' = NoCall
  /\ status' = [status EXCEPT ![c] = "answered"]
  /\ UNCHANGED <<sends, effects>>

ReturnOk(c) ==
  /\ status[c] = "answered"
  /\ status' = [status EXCEPT ![c] = "ok"]
  /\ UNCHANGED <<turn, sends, effects>>

ReturnErr(c) ==
  /\ status[c] \in {"open", "answered"}
  /\ status' = [status EXCEPT ![c] = "err"]
  /\ turn' = IF turn = c THEN NoCall ELSE turn
  /\ UNCHANGED <<sends, effects>>

Next ==
  \E c \in Calls :
    Begin(c) \/ Acquire(c) \/ Send(c) \/ Effect(c) \/ Answer(c) \/ Misanswer(c)
    \/ ReturnOk(c) \/ ReturnErr(c)

Spec == Init /\ [][Next]_rvars

=============================================================================
