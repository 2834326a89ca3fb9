--------------------------- MODULE MCDispatchHandoff --------------------------
(* Three workers, two of which share a directory, and a job for each of these. *)
EXTENDS DispatchHandoff, TLC

MCTargets == ("w1" :> "shared" @@ "w2" :> "other" @@ "w3" :> "shared")
MCWorkers == ("round" :> "w1" @@ "hand" :> "w3")
=============================================================================
