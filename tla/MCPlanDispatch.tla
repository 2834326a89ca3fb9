---------------------------- MODULE MCPlanDispatch ----------------------------
(***************************************************************************)
(* Two projects with a job each that contend for one card.                 *)
(*                                                                         *)
(* Bounds: the user acts in "w1" and on job "a" only, so that "w2" (of the *)
(* same project or of the other one) has its rounds and what it takes up   *)
(* from disk.  Only "a" may get a new command, and only its tasks' windows *)
(* are closed by somebody.                                                 *)
(***************************************************************************)
EXTENDS PlanDispatch, TLC

MCRootOf == ("a" :> "main" @@ "b" :> "branch")
MCMaxFresh == ("a" :> 1 @@ "b" :> 0)

MCInit ==
    /\ Init
    /\ opened["w1"] = "main"
    /\ \A j \in Jobs : disk[j].st = "pending"

UserAction(w, j) ==
    \/ Stop(w, j) \/ Recall(w, j) \/ Requeue(w, j) \/ RemovePending(w, j) \/ Append(w, j)

MCNext ==
    \/ Register
    \/ \E w \in Windows : \/ RoundStep(w) \/ Confirm(w) \/ GiveUp(w) \/ Settle(w)
                         \/ Resume(w, "a") \/ Crash(w)
    \/ UserAction("w1", "a") \/ Detach("w1")
    \/ \E c \in Commands : WorkerStep(c)
    \/ \E n \in 0 .. MCMaxFresh["a"] : CloseWindow(<<"a", n>>)

MCSpec == MCInit /\ [][MCNext]_vars
=============================================================================
