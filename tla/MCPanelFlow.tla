----------------------------- MODULE MCPanelFlow -----------------------------
(* The extension starts with the first version of its state.               *)
EXTENDS PanelFlow

MCInit == Init /\ host.now = 1

MCSpec == MCInit /\ [][Next]_vars /\ WF_vars(Progress) /\ WF_vars(Hear) /\ WF_vars(Beat)
=============================================================================
