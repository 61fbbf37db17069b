--------------------------- MODULE AtMostOnceRpc ---------------------------
(***************************************************************************)
(* What labrpc promises of a Call(): the handler runs at most once; Call() *)
(* returns true only after the handler has run; it may return false        *)
(* whether the handler has run, will still run, or never runs.             *)
(***************************************************************************)
EXTENDS Naturals

CONSTANT Calls      \* the Call()s that are ever made

VARIABLES
    runs,           \* how often the handler of each call has run
    outcome         \* what Call() has returned: "none" yet, "true" or "false"

Init ==
    /\ runs = [c \in Calls |-> 0]
    /\ outcome = [c \in Calls |-> "none"]

Run(c) ==
    /\ runs[c] = 0
    /\ outcome[c] # "true"
    /\ runs' = [runs EXCEPT ![c] = 1]
    /\ UNCHANGED outcome

ReturnTrue(c) ==
    /\ outcome[c] = "none"
    /\ runs[c] = 1
    /\ outcome' = [outcome EXCEPT ![c] = "true"]
    /\ UNCHANGED runs

ReturnFalse(c) ==
    /\ outcome[c] = "none"
    /\ outcome' = [outcome EXCEPT ![c] = "false"]
    /\ UNCHANGED runs

Next == \E c \in Calls : Run(c) \/ ReturnTrue(c) \/ ReturnFalse(c)

Spec == Init /\ [][Next]_<<runs, outcome>>
=============================================================================
