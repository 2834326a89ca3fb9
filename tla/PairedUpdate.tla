---------------------------- MODULE PairedUpdate ----------------------------
(***************************************************************************)
(* The update of the two paired plugins: the transaction of                *)
(* src/updates/UpdateTransaction.ts in the windows of                      *)
(* src/updates/Bootstrap.ts.                                               *)
(*                                                                         *)
(* A window's extension host runs the versions that were on the disk when  *)
(* it started; the disk changes with every installation.  The journal is   *)
(* one record in globalState, which all windows share and which survives   *)
(* them.  The gate is the v1 lease file, here an exclusive lock that its   *)
(* window gives back or loses when its host ends: HostLease has the        *)
(* protocol.  The business of a window is refused while the window is      *)
(* blocked or another window has the gate.                                 *)
(*                                                                         *)
(* The two packages are released together here, so a release is a number.  *)
(***************************************************************************)
EXTENDS Naturals, FiniteSets

CONSTANTS
    Windows,    \* extension hosts
    None,       \* no window; no journal, no plan
    MaxVersion, \* bound: releases of the pair
    MaxFaults,  \* bound: failed steps and declined confirmations
    MaxCrashes  \* bound: reloads and crashes that the update did not ask for

ASSUME BoundsAssumption ==
    MaxVersion \in Nat \ {0} /\ MaxFaults \in Nat /\ MaxCrashes \in Nat
ASSUME WindowsAssumption == None \notin Windows

VARIABLES
    latest,   \* the newest published release
    disk,     \* the version of each component on the disk
    loaded,   \* the versions that a window's host runs
    journal,  \* globalState at TRANSACTION_KEY
    gate,     \* the window that has the gate
    blocked,  \* whether a window refuses business
    lastPlan, \* the batch that a window offers
    pc,       \* the step a window's installation is at
    txn,      \* a window's transaction
    faults,   \* faults so far
    crashes,  \* crashes so far
    asked,    \* history: whether a window's host has asked for an installation
    open      \* history: the batch of the last installation asked for

vars == <<latest, disk, loaded, journal, gate, blocked, lastPlan, pc, txn,
          faults, crashes, asked, open>>

-----------------------------------------------------------------------------
\* SimpleSFTP is installed before SimpleExperiment.
Components == {1, 2}
Versions == 0..MaxVersion

\* Two components to install; the versions they replace are part of the
\* record, and so of its fingerprint.
Batch == [to : Versions, from : [Components -> Versions]]
Journal == [batch : Batch, completed : SUBSET Components, requested : BOOLEAN,
            status : {"preparing", "installing", "reload_required", "failed"}]
ASSUME JournalAssumption == None \notin Journal
Transaction == [journal : Journal, mixed : BOOLEAN, requested : BOOLEAN, prepared : SUBSET Components]

Pending(w, b) == {c \in Components : loaded[w][c] < b.to}

\* The batch, with the versions that window w runs.
Refreshed(w, b) == [to |-> b.to, from |-> loaded[w]]

\* Mutant: a journal whose reload is still to come is left alone.
Unfinished_NoReload == journal /= None /\ journal.status \in {"failed", "installing"}

\* The statuses that checkCore() and installCore() take up again.
Unfinished == journal /= None /\ journal.status \in {"failed", "installing", "reload_required"}

Blocking(j) ==
    j /= None /\ (j.requested \/ j.completed /= {} \/ j.status \in {"installing", "reload_required"})

Free(w) == gate \in {None, w}

\* Mutant: the gate is opened whoever has it.
Reopened_Any(w) == None

\* The gate after window w has given up whatever lease it has (gate.end()).
Reopened(w) == IF gate = w THEN None ELSE gate

Init ==
    /\ latest = 1
    /\ disk \in [Components -> 0..1]
    /\ loaded = [w \in Windows |-> disk]
    /\ journal = None
    /\ gate = None
    /\ blocked = [w \in Windows |-> FALSE]
    /\ lastPlan = [w \in Windows |-> None]
    /\ pc = [w \in Windows |-> "idle"]
    /\ txn = [w \in Windows |-> None]
    /\ faults = 0
    /\ crashes = 0
    /\ asked = [w \in Windows |-> FALSE]
    /\ open = None

-----------------------------------------------------------------------------
(* The environment                                                         *)

Publish ==
    /\ latest < MaxVersion
    /\ latest' = latest + 1
    /\ UNCHANGED <<disk, loaded, journal, gate, blocked, lastPlan, pc, txn,
                   faults, crashes, asked, open>>

\* The window's host ends and a new one activates (registerUpdater()).
Restart(w) ==
    /\ loaded' = [loaded EXCEPT ![w] = disk]
    /\ gate' = Reopened(w)
    /\ blocked' = [blocked EXCEPT ![w] = Blocking(journal)]
    /\ lastPlan' = [lastPlan EXCEPT ![w] = None]
    /\ pc' = [pc EXCEPT ![w] = "idle"]
    /\ txn' = [txn EXCEPT ![w] = None]
    /\ asked' = [asked EXCEPT ![w] = FALSE]

Crash(w) ==
    /\ crashes < MaxCrashes
    /\ crashes' = crashes + 1
    /\ Restart(w)
    /\ UNCHANGED <<latest, disk, journal, faults, open>>

-----------------------------------------------------------------------------
(* checkCore()                                                             *)

\* An unfinished batch is offered again, behind the gate if a part of it may
\* be installed.
Resume(w) ==
    /\ pc[w] = "idle" /\ Unfinished
    /\ Pending(w, journal.batch) /= {}
    /\ lastPlan' = [lastPlan EXCEPT ![w] = Refreshed(w, journal.batch)]
    /\ IF (journal.requested \/ journal.completed /= {} \/ journal.status /= "failed") /\ Free(w)
       THEN gate' = w /\ blocked' = [blocked EXCEPT ![w] = TRUE]
       ELSE UNCHANGED <<gate, blocked>>
    /\ UNCHANGED <<latest, disk, loaded, journal, pc, txn, faults, crashes, asked, open>>

\* The release client is asked; a batch that the window runs is finished with.
Fetch(w) ==
    /\ pc[w] = "idle"
    /\ IF Unfinished
       THEN /\ Pending(w, journal.batch) = {} /\ gate /= w
            /\ journal' = None
            /\ blocked' = [blocked EXCEPT ![w] = FALSE]
       ELSE UNCHANGED <<journal, blocked>>
    /\ lastPlan' = [lastPlan EXCEPT ![w] = [to |-> latest, from |-> loaded[w]]]
    /\ UNCHANGED <<latest, disk, loaded, gate, pc, txn, faults, crashes, asked, open>>

-----------------------------------------------------------------------------
(* installCore() and UpdateTransaction.run()                               *)

Goes(w, from, to) == pc[w] = from /\ pc' = [pc EXCEPT ![w] = to]

Fault(w, from) ==
    /\ faults < MaxFaults
    /\ faults' = faults + 1
    /\ Goes(w, from, "fail")

\* The batch is fixed, and shown to the user.
Choose(w) ==
    LET b == IF Unfinished THEN journal.batch ELSE lastPlan[w] IN
    /\ Goes(w, "idle", "chosen")
    /\ lastPlan[w] /= None /\ Pending(w, b) /= {}
    /\ txn' = [txn EXCEPT ![w] =
                  [journal |-> [batch |-> b, completed |-> Components \ Pending(w, b),
                                requested |-> FALSE, status |-> "preparing"],
                   mixed |-> FALSE, requested |-> FALSE, prepared |-> {}]]
    /\ UNCHANGED <<latest, disk, loaded, journal, gate, blocked, lastPlan,
                   faults, crashes, asked, open>>

Decline(w) ==
    /\ Goes(w, "chosen", "idle")
    /\ faults < MaxFaults
    /\ faults' = faults + 1
    /\ UNCHANGED <<latest, disk, loaded, journal, gate, blocked, lastPlan, txn,
                   crashes, asked, open>>

\* Mutant: the journal's batch may be replaced.
Mixed_Never == FALSE

\* A part of the journal's batch may be installed.
Mixed == journal /= None /\ (journal.requested \/ (journal.completed /= {} /\ journal.status /= "preparing"))

\* The transaction begins, unless it would replace a batch that is mixed.
Confirm(w) ==
    LET b == txn[w].journal.batch
        same == journal /= None /\ journal.batch = b IN
    /\ Goes(w, "chosen", IF Mixed /\ ~same THEN "idle" ELSE "gate")
    /\ txn' = [txn EXCEPT ![w].mixed = Mixed,
                          ![w].journal.requested = same /\ journal.requested]
    /\ UNCHANGED <<latest, disk, loaded, journal, gate, blocked, lastPlan,
                   faults, crashes, asked, open>>

\* beginGate() and the first save of the journal; another window's gate is an
\* error.
BeginGate(w) ==
    /\ IF Free(w)
       THEN /\ Goes(w, "gate", "wait")
            /\ gate' = w
            /\ blocked' = [blocked EXCEPT ![w] = TRUE]
            /\ journal' = txn[w].journal
       ELSE Goes(w, "gate", "fail") /\ UNCHANGED <<gate, blocked, journal>>
    /\ UNCHANGED <<latest, disk, loaded, lastPlan, txn, faults, crashes, asked, open>>

\* waitForTransfers() returns, or throws.
Wait(w) ==
    /\ \/ Goes(w, "wait", "prepare") /\ UNCHANGED faults
       \/ Fault(w, "wait")
    /\ UNCHANGED <<latest, disk, loaded, journal, gate, blocked, lastPlan, txn,
                   crashes, asked, open>>

\* The first component of a set.
First(S) == CHOOSE c \in S : \A d \in S : c <= d

Unprepared(w) == Pending(w, txn[w].journal.batch) \ txn[w].prepared

Prepare(w) ==
    /\ pc[w] = "prepare" /\ Unprepared(w) /= {}
    /\ \/ /\ Goes(w, "prepare", "prepare")
          /\ txn' = [txn EXCEPT ![w].prepared = @ \cup {First(Unprepared(w))}]
          /\ UNCHANGED faults
       \/ Fault(w, "prepare") /\ UNCHANGED txn
    /\ UNCHANGED <<latest, disk, loaded, journal, gate, blocked, lastPlan,
                   crashes, asked, open>>

AllPrepared(w) == Unprepared(w) = {}

\* The transaction and the journal of window w change together.
Saves(w, t) == txn' = [txn EXCEPT ![w] = t] /\ journal' = t.journal

BeginInstalling(w) ==
    /\ Goes(w, "prepare", "verify") /\ AllPrepared(w)
    /\ Saves(w, [txn[w] EXCEPT !.journal.status = "installing"])
    /\ UNCHANGED <<latest, disk, loaded, gate, blocked, lastPlan, faults,
                   crashes, asked, open>>

Uninstalled(w) == Components \ txn[w].journal.completed

\* Mutant: the request is not in the journal when the installer starts.
Asking_Unsaved(w) ==
    txn' = [txn EXCEPT ![w].requested = TRUE] /\ UNCHANGED journal

\* Mutant: a status that no window takes up again.
Asking_NewStatus(w) ==
    Saves(w, [txn[w] EXCEPT !.requested = TRUE, !.journal.requested = TRUE,
                            !.journal.status = "requested"])

\* The request is in the journal before the installer starts.
Asking(w) == Saves(w, [txn[w] EXCEPT !.requested = TRUE, !.journal.requested = TRUE])

\* The next package is verified and its installation is asked for.
Verify(w) ==
    /\ pc[w] = "verify" /\ Uninstalled(w) /= {}
    /\ \/ /\ Goes(w, "verify", "install")
          /\ Asking(w)
          /\ asked' = [asked EXCEPT ![w] = TRUE]
          /\ open' = txn[w].journal.batch
          /\ UNCHANGED faults
       \/ Fault(w, "verify") /\ UNCHANGED <<txn, journal, asked, open>>
    /\ UNCHANGED <<latest, disk, loaded, gate, blocked, lastPlan, crashes>>

\* The installer succeeds, or fails after or before it has changed the disk.
Install(w) ==
    /\ \/ /\ Goes(w, "install", "receipt") /\ UNCHANGED faults
          /\ disk' = [disk EXCEPT ![First(Uninstalled(w))] = txn[w].journal.batch.to]
       \/ /\ Fault(w, "install")
          /\ disk' \in {disk, [disk EXCEPT ![First(Uninstalled(w))] = txn[w].journal.batch.to]}
    /\ UNCHANGED <<latest, loaded, journal, gate, blocked, lastPlan, txn,
                   crashes, asked, open>>

\* The receipt of the installation is saved.
Receipt(w) ==
    /\ Goes(w, "receipt", "verify")
    /\ Saves(w, [txn[w] EXCEPT !.journal.completed = @ \cup {First(Uninstalled(w))}])
    /\ UNCHANGED <<latest, disk, loaded, gate, blocked, lastPlan, faults,
                   crashes, asked, open>>

Complete(w) ==
    /\ Goes(w, "verify", "reload") /\ Uninstalled(w) = {}
    /\ Saves(w, [txn[w] EXCEPT !.journal.status = "reload_required"])
    /\ UNCHANGED <<latest, disk, loaded, gate, blocked, lastPlan, faults,
                   crashes, asked, open>>

\* The window reloads, or the command throws.
Reload(w) ==
    \/ /\ pc[w] = "reload" /\ Restart(w)
       /\ UNCHANGED <<latest, disk, journal, faults, crashes, open>>
    \/ /\ Fault(w, "reload")
       /\ UNCHANGED <<latest, disk, loaded, journal, gate, blocked, lastPlan,
                      txn, crashes, asked, open>>

\* Mutant: only the request of this attempt keeps the gate.
KeepsGate_ThisAttempt(w) == txn[w].requested

KeepsGate(w) == txn[w].requested \/ txn[w].mixed

\* The catch and finally blocks.
Fail(w) ==
    /\ Goes(w, "fail", "idle")
    /\ Saves(w, [txn[w] EXCEPT !.journal.status = "failed"])
    /\ IF KeepsGate(w)
       THEN UNCHANGED <<gate, blocked>>
       ELSE /\ gate' = Reopened(w)
            /\ blocked' = [blocked EXCEPT ![w] = FALSE]
    /\ UNCHANGED <<latest, disk, loaded, lastPlan, faults, crashes, asked, open>>

Step(w) ==
    \/ Confirm(w) \/ BeginGate(w) \/ Wait(w) \/ Prepare(w) \/ BeginInstalling(w)
    \/ Verify(w) \/ Install(w) \/ Receipt(w) \/ Complete(w) \/ Reload(w) \/ Fail(w)

Check(w) == Resume(w) \/ Fetch(w)

Next ==
    \/ Publish
    \/ \E w \in Windows : Crash(w) \/ Check(w) \/ Choose(w) \/ Decline(w) \/ Step(w)

Spec == Init /\ [][Next]_vars

\* The window checks on activation and by a timer, the user confirms what is
\* offered, and a transaction goes on.
FairSpec ==
    /\ Spec
    /\ \A w \in Windows : WF_vars(Step(w)) /\ SF_vars(Choose(w)) /\ SF_vars(Check(w))

-----------------------------------------------------------------------------
(* Properties                                                              *)

TypeOK ==
    /\ latest \in Versions
    /\ disk \in [Components -> Versions]
    /\ loaded \in [Windows -> [Components -> Versions]]
    /\ journal \in Journal \cup {None}
    /\ gate \in Windows \cup {None}
    /\ blocked \in [Windows -> BOOLEAN]
    /\ lastPlan \in [Windows -> Batch \cup {None}]
    /\ pc \in [Windows -> {"idle", "chosen", "gate", "wait", "prepare", "verify",
                           "install", "receipt", "reload", "fail"}]
    /\ txn \in [Windows -> Transaction \cup {None}]
    /\ faults \in 0..MaxFaults
    /\ crashes \in 0..MaxCrashes
    /\ asked \in [Windows -> BOOLEAN]
    /\ open \in Batch \cup {None}

\* Once a host has asked for an installation it keeps the gate and its
\* business blocked until it reloads, whatever fails and however often the
\* user retries (the comment in run(): "Once requested, keep admission closed
\* until a reload reconciles disk state").
ClosedUntilReload == \A w \in Windows : asked[w] => blocked[w] /\ gate = w

\* The disk does not have all of the batch whose installation was asked for.
Partial == open /= None /\ \E c \in Components : disk[c] < open.to

\* A batch that may be installed in part can be told from the journal in every
\* state, so also by the host that starts after a crash (saveJournal() before
\* install()).
PartialIsDurable == Partial => Blocking(journal) /\ journal.batch = open

\* While a batch may be installed in part, no other one is installed over it
\* (the fingerprint check of run()).
KeepsBatch == Partial => open' = open
BatchIsNotReplaced == [][KeepsBatch]_vars

\* One window at a time waits for transfers, prepares and installs: another
\* one's failure to get the gate does not open it.
OneInstaller ==
    \A v, w \in Windows :
        {pc[v], pc[w]} \subseteq {"wait", "prepare", "verify", "install", "receipt", "reload"} => v = w

\* A window that refuses business accepts it again in the end.
BlockedEnds == \A w \in Windows : blocked[w] ~> ~blocked[w]

\* Unless a window is reloaded or crashes without the update's asking for it,
\* blocked business is accepted again in the end.
BlockedEndsUndisturbed == [](crashes = 0) => BlockedEnds
=============================================================================
