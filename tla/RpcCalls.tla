------------------------------ MODULE RpcCalls ------------------------------
(***************************************************************************)
(* What the GUI may rely on when it calls the core: a call that succeeds   *)
(* was executed, and no call is executed twice.  A call that failed (the   *)
(* answer timed out, the connection was replaced) may have been executed   *)
(* all the same, and may even be executed later; one that was refused for lack *)
(* of a connection never is.                                               *)
(***************************************************************************)
EXTENDS Naturals

CONSTANT Calls

VARIABLES
    status,   \* "idle", "busy", then "ok" or "failed"; or "refused" at once
    ran       \* how often the core has executed each

Init ==
    /\ status = [c \in Calls |-> "idle"]
    /\ ran = [c \in Calls |-> 0]

Begin(c) ==
    /\ status[c] = "idle"
    /\ status' = [status EXCEPT ![c] = "busy"]
    /\ UNCHANGED ran

\* There is no connection: the request is never sent.
Refuse(c) ==
    /\ status[c] = "idle"
    /\ status' = [status EXCEPT ![c] = "refused"]
    /\ UNCHANGED ran

\* The core executes the request, possibly after the caller gave up on it.
Run(c) ==
    /\ status[c] \in {"busy", "failed"}
    /\ ran[c] = 0
    /\ ran' = [ran EXCEPT ![c] = 1]
    /\ UNCHANGED status

Succeed(c) ==
    /\ status[c] = "busy" /\ ran[c] = 1
    /\ status' = [status EXCEPT ![c] = "ok"]
    /\ UNCHANGED ran

Fail(c) ==
    /\ status[c] = "busy"
    /\ status' = [status EXCEPT ![c] = "failed"]
    /\ UNCHANGED ran

Next == \E c \in Calls :
            Begin(c) \/ Refuse(c) \/ Run(c) \/ Succeed(c) \/ Fail(c)

Spec == Init /\ [][Next]_<<status, ran>>
=============================================================================
