----------------------------- MODULE MCHostLease -----------------------------
(* Windows and processes for the model-checking runs of HostLease.         *)
EXTENDS HostLease

\* Every call for a window of its own, in a process of its own.
EachAlone == [c \in Calls |-> c]
OwnProcess == [w \in Calls |-> w]

\* Calls 1 and 2 for one window, the others for another one.
FirstTwoTogether == [c \in Calls |-> IF c <= 2 THEN 1 ELSE 2]
TwoProcesses == [w \in {1, 2} |-> w]
=============================================================================
