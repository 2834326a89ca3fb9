----------------------------- MODULE SlotPromise -----------------------------
(***************************************************************************)
(* What the dispatch of jobs promises of the cards, whatever windows,      *)
(* queue files, messages and workers it takes to keep the promise: the     *)
(* abstract specification that PlanDispatch implements.                    *)
(*                                                                         *)
(* A command that may run holds a slot of a card until it cannot run any   *)
(* more, it runs once, and once the projects are managed together no slot  *)
(* is given on a card that is full.                                        *)
(***************************************************************************)
EXTENDS Naturals, FiniteSets

CONSTANTS
    Commands,  \* command ids
    Cards,     \* the cards of the server
    NoCard,    \* no slot
    Quota      \* jobs that a card takes

VARIABLES
    managed,  \* the projects are registered and share the quota
    slot,     \* the card on which a command holds a slot
    risk      \* whether a command may run: "calm", "may start", "live", "spent"

promise == <<managed, slot, risk>>

Holders(held, k) == {c \in Commands : held[c] = k}

Init ==
    /\ managed \in BOOLEAN
    /\ slot = [c \in Commands |-> NoCard]
    /\ risk = [c \in Commands |-> "calm"]

Register == ~managed /\ managed' = TRUE /\ UNCHANGED <<slot, risk>>

(* A slot may go only where nothing can run on it, and comes to a command  *)
(* that nothing has been sent for.                                         *)
MayChange(c) ==
    \/ slot[c] = slot'[c]
    \/ slot'[c] = NoCard /\ risk[c] \in {"calm", "spent"}
    \/ slot[c] = NoCard /\ risk[c] = "calm"

Assign ==
    /\ slot' \in [Commands -> Cards \cup {NoCard}]
    /\ \A c \in Commands : MayChange(c)
    /\ managed => \A k \in Cards :
          Holders(slot', k) \subseteq Holders(slot, k) \/ Cardinality(Holders(slot', k)) <= Quota
    /\ UNCHANGED <<managed, risk>>

Becomes(c, from, to) ==
    /\ risk[c] \in from
    /\ risk' = [risk EXCEPT ![c] = to]
    /\ UNCHANGED <<managed, slot>>

Send(c) == slot[c] # NoCard /\ Becomes(c, {"calm"}, "may start")

Start(c) == Becomes(c, {"may start"}, "live")
End(c) == Becomes(c, {"calm", "may start", "live"}, "spent")

Next ==
    \/ Register
    \/ Assign
    \/ \E c \in Commands : Send(c) \/ Start(c) \/ End(c)

Spec == Init /\ [][Next]_promise
=============================================================================
