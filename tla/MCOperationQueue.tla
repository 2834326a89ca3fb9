-------------------------- MODULE MCOperationQueue --------------------------
(* Specs of the requests for the model-checking runs of OperationQueue.    *)
EXTENDS OperationQueue

\* Requests 1 and 4 have one id.
MCIds == [r \in Requests |-> IF r = 4 THEN 1 ELSE r]

\* A chain of conflicts: 1 with 2 and 4, 2 with all.
MCKeys == [r \in Requests |-> CASE r = 1 -> {"x"} [] r = 2 -> {"x", "y"} [] r = 3 -> {"y"} [] OTHER -> {"x"}]

\* The second request has the highest priority.
MCRanks == [r \in Requests |-> IF r = 2 THEN 0 ELSE 1]

NoCoalescing == [r \in Requests |-> None]

\* All requests but the first two share a coalesce key.
LastTwoShare == [r \in Requests |-> IF r > 2 THEN "refresh" ELSE None]

AllShare == [r \in Requests |-> "refresh"]
=============================================================================
