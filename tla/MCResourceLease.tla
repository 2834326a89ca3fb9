--------------------------- MODULE MCResourceLease ---------------------------
(* Targets for the model-checking runs of ResourceLease.                   *)
EXTENDS ResourceLease

\* "dir" covers "file"; "sibling" shares a name prefix with "file" only; and
\* "worker" is the path of "file" on another server.
MCResources ==
    [dir     |-> {[server |-> "local", path |-> <<"p", "results">>]},
     file    |-> {[server |-> "local", path |-> <<"p", "results", "f">>]},
     sibling |-> {[server |-> "local", path |-> <<"p", "results", "ff">>]},
     worker  |-> {[server |-> "gpu1", path |-> <<"p", "results", "f">>]}]

OneEach == [w \in Windows |-> IF w = 1 THEN {"dir"} ELSE {"file"}]
TwoAndOne == [w \in Windows |-> IF w = 1 THEN {"dir", "sibling"} ELSE {"file"}]
=============================================================================
