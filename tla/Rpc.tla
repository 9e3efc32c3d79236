-------------------------------- MODULE Rpc --------------------------------
(***************************************************************************)
(* What an order needs of the HTTP client: calls, one at a time, that the  *)
(* server executes at most once and that return a result only after that.  *)
(* After an error the caller knows nothing: the call may have been         *)
(* executed, may not have been, or may still be.                           *)
(***************************************************************************)
EXTENDS Naturals

CONSTANT Requests

VARIABLES state, executed

vars == <<state, executed>>

Init ==
    /\ state = [r \in Requests |-> "new"]
    /\ executed = [r \in Requests |-> 0]

Call(r) ==
    /\ state[r] = "new" /\ \A q \in Requests : state[q] # "called"
    /\ state' = [state EXCEPT ![r] = "called"]
    /\ UNCHANGED executed

Execute(r) ==
    /\ state[r] \in {"called", "error"} /\ executed[r] = 0
    /\ executed' = [executed EXCEPT ![r] = 1]
    /\ UNCHANGED state

ReturnOk(r) ==
    /\ state[r] = "called" /\ executed[r] = 1
    /\ state' = [state EXCEPT ![r] = "ok"]
    /\ UNCHANGED executed

ReturnError(r) ==
    /\ state[r] = "called"
    /\ state' = [state EXCEPT ![r] = "error"]
    /\ UNCHANGED executed

Next == \E r \in Requests : Call(r) \/ Execute(r) \/ ReturnOk(r) \/ ReturnError(r)

Spec == Init /\ [][Next]_vars
=============================================================================
