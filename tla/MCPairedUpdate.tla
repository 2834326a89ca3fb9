--------------------------- MODULE MCPairedUpdate ---------------------------
(***************************************************************************)
(* One or two windows are open, from the start to the end.                 *)
(*                                                                         *)
(* Bounds: two windows have at most one failure and one crash between      *)
(* them, or a second release.                                              *)
(***************************************************************************)
EXTENDS PairedUpdate

VARIABLE running  \* the windows that are open

MCvars == <<vars, running>>

Only == CHOOSE w \in Windows : TRUE
Alone == running = {Only}

MCInit == Init /\ running \in {{Only}, Windows}

Within ==
    Alone \/ (faults' <= 1 /\ crashes' <= 1 /\ (latest' = 1 \/ faults' + crashes' = 0))

In(w, A) == w \in running /\ A /\ Within /\ UNCHANGED running

MCNext ==
    \/ Publish /\ Within /\ UNCHANGED running
    \/ \E w \in Windows :
        In(w, Crash(w)) \/ In(w, Check(w)) \/ In(w, Choose(w)) \/ In(w, Decline(w)) \/ In(w, Step(w))

MCSpec == MCInit /\ [][MCNext]_MCvars

\* FairSpec of the window that is open alone.
MCFairSpec ==
    /\ MCSpec
    /\ WF_MCvars(In(Only, Step(Only)))
    /\ SF_MCvars(In(Only, Choose(Only))) /\ SF_MCvars(In(Only, Check(Only)))

\* What the journal tells of a window's own installation holds while nobody
\* else writes it: another window that is refused the gate saves its own
\* journal, as failed, over the one of the window that has the gate.
ClosedUntilReloadAlone == Alone => ClosedUntilReload
PartialIsDurableAlone == Alone => PartialIsDurable
BatchIsNotReplacedAlone == [][Alone => KeepsBatch]_MCvars
BlockedEndsAlone == Alone => BlockedEndsUndisturbed
=============================================================================
