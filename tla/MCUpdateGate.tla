----------------------------- MODULE MCUpdateGate -----------------------------
(* The model-checking runs of UpdateGate bind its constants directly.      *)
EXTENDS UpdateGate
=============================================================================
