------------------------- MODULE PairedUpdate_proofs -------------------------
(***************************************************************************)
(* Proofs about PairedUpdate, for any windows, releases, faults and        *)
(* crashes: types; one window at a time waits for transfers, prepares and  *)
(* installs; and what the journal and the gate of a window that is alone   *)
(* say of its installation.                                                *)
(***************************************************************************)
EXTENDS MCPairedUpdate, TLAPS

(***************************************************************************)
(* OneInstaller is about the steps of two windows, which no guard compares.*)
(* The invariant says that a window between the gate and its reload has    *)
(* the gate, which belongs to one window: nobody else's failure, crash or  *)
(* check takes it away.                                                    *)
(***************************************************************************)
Installing == {"wait", "prepare", "verify", "install", "receipt", "reload"}

HasGate == \A w \in Windows : pc[w] \in Installing => gate = w

InstallerInv == DOMAIN pc = Windows /\ HasGate

LEMMA InitInstaller == Init => InstallerInv
  BY DEF Init, InstallerInv, HasGate, Installing

\* A new host has not begun to install, and its end gives up no other gate.
LEMMA RestartInstaller ==
  ASSUME InstallerInv, NEW w \in Windows, Restart(w)
  PROVE  InstallerInv'
  BY DEF InstallerInv, HasGate, Installing, Restart, Reopened

\* A check takes the gate only when it is free, and none is lost by it.
LEMMA CheckInstaller ==
  ASSUME InstallerInv, NEW w \in Windows, Check(w)
  PROVE  InstallerInv'
<1>1. CASE Resume(w)
  BY <1>1, WindowsAssumption DEF InstallerInv, HasGate, Installing, Resume, Free
<1>2. CASE Fetch(w)
  BY <1>2 DEF InstallerInv, HasGate, Installing, Fetch
<1> QED BY <1>1, <1>2 DEF Check

\* A step that leaves the gate as it is goes on from a step that has it, or to
\* one that does not need it.
LEMMA GoesInstaller ==
  ASSUME InstallerInv, NEW w \in Windows, NEW from, NEW to, Goes(w, from, to), UNCHANGED gate,
         to \in Installing => from \in Installing
  PROVE  InstallerInv'
  BY DEF InstallerInv, HasGate, Goes

LEMMA StepInstaller ==
  ASSUME InstallerInv, NEW w \in Windows, Step(w)
  PROVE  InstallerInv'
<1>1. CASE Confirm(w)
  BY <1>1, GoesInstaller DEF Confirm, Installing
<1>2. CASE BeginGate(w)
  <2>1. CASE Free(w)
    BY <1>2, <2>1, WindowsAssumption DEF BeginGate, Goes, Free, InstallerInv, HasGate, Installing
  <2>2. CASE ~Free(w)
    BY <1>2, <2>2, GoesInstaller DEF BeginGate, Installing
  <2> QED BY <2>1, <2>2
<1>3. CASE Wait(w)
  BY <1>3, GoesInstaller DEF Wait, Fault, Installing
<1>4. CASE Prepare(w)
  BY <1>4, GoesInstaller DEF Prepare, Fault, Installing
<1>5. CASE BeginInstalling(w)
  BY <1>5, GoesInstaller DEF BeginInstalling, Installing
<1>6. CASE Verify(w)
  BY <1>6, GoesInstaller DEF Verify, Fault, Installing
<1>7. CASE Install(w)
  BY <1>7, GoesInstaller DEF Install, Fault, Installing
<1>8. CASE Receipt(w)
  BY <1>8, GoesInstaller DEF Receipt, Installing
<1>9. CASE Complete(w)
  BY <1>9, GoesInstaller DEF Complete, Installing
<1>10. CASE Reload(w)
  BY <1>10, RestartInstaller, GoesInstaller DEF Reload, Fault, Installing
<1>11. CASE Fail(w)
  BY <1>11 DEF Fail, Goes, Reopened, InstallerInv, HasGate, Installing
<1> QED BY <1>1, <1>2, <1>3, <1>4, <1>5, <1>6, <1>7, <1>8, <1>9, <1>10, <1>11 DEF Step

LEMMA NextInstaller == InstallerInv /\ [Next]_vars => InstallerInv'
<1> SUFFICES ASSUME InstallerInv, [Next]_vars PROVE InstallerInv'
  OBVIOUS
<1>1. CASE Publish
  BY <1>1 DEF Publish, InstallerInv, HasGate
<1>2. ASSUME NEW w \in Windows, Crash(w) PROVE InstallerInv'
  BY <1>2, RestartInstaller DEF Crash
<1>3. ASSUME NEW w \in Windows, Check(w) PROVE InstallerInv'
  BY <1>3, CheckInstaller
<1>4. ASSUME NEW w \in Windows, Choose(w) PROVE InstallerInv'
  BY <1>4, GoesInstaller DEF Choose, Installing
<1>5. ASSUME NEW w \in Windows, Decline(w) PROVE InstallerInv'
  BY <1>5, GoesInstaller DEF Decline, Installing
<1>6. ASSUME NEW w \in Windows, Step(w) PROVE InstallerInv'
  BY <1>6, StepInstaller
<1>7. CASE UNCHANGED vars
  BY <1>7 DEF vars, InstallerInv, HasGate
<1> QED BY <1>1, <1>2, <1>3, <1>4, <1>5, <1>6, <1>7 DEF Next

\* Two windows never install at one time: the transaction of the one that did
\* not get the gate fails without opening it (run() and gate.end()).
THEOREM OneInstallerHolds == Spec => []OneInstaller
<1>1. InstallerInv => OneInstaller
  BY DEF InstallerInv, HasGate, OneInstaller, Installing
<1> QED BY <1>1, InitInstaller, NextInstaller, PTL DEF Spec

-----------------------------------------------------------------------------
(***************************************************************************)
(* Types.  A window at a step of an installation has a transaction, and a  *)
(* package to install from the request to the receipt.                     *)
(***************************************************************************)
Statuses == {"preparing", "installing", "reload_required", "failed"}

TypeInv ==
    /\ TypeOK
    /\ \A w \in Windows : /\ pc[w] /= "idle" => txn[w] \in Transaction
                          /\ pc[w] \in {"install", "receipt"} => Uninstalled(w) /= {}

LEMMA FirstIn == ASSUME NEW S \in SUBSET Components, S /= {} PROVE First(S) \in S
<1>1. \E c \in S : \A d \in S : c <= d
  <2>1. CASE 1 \in S
    BY <2>1 DEF Components
  <2>2. CASE 1 \notin S
    <3>1. S = {2}
      BY <2>2 DEF Components
    <3> QED BY <3>1
  <2> QED BY <2>1, <2>2
<1> QED BY <1>1 DEF First

\* What the operations on a transaction make of one.
LEMMA TransactionParts ==
  ASSUME NEW t \in Transaction
  PROVE  /\ t.journal \in Journal /\ t.journal.batch \in Batch /\ t.journal.completed \in SUBSET Components
         /\ \A s \in Statuses : LET u == [t EXCEPT !.journal.status = s] IN
               /\ u \in Transaction /\ u.journal.completed = t.journal.completed /\ u.journal.batch = t.journal.batch
               /\ u.journal.requested = t.journal.requested /\ u.mixed = t.mixed /\ u.requested = t.requested
         /\ LET u == [t EXCEPT !.requested = TRUE, !.journal.requested = TRUE] IN
               /\ u \in Transaction /\ u.journal.completed = t.journal.completed /\ u.journal.batch = t.journal.batch
               /\ u.journal.requested /\ u.requested
         /\ \A c \in Components : LET u == [t EXCEPT !.journal.completed = @ \cup {c}] IN
               /\ u \in Transaction /\ u.journal.completed = t.journal.completed \cup {c}
               /\ u.journal.batch = t.journal.batch
               /\ u.journal.requested = t.journal.requested /\ u.mixed = t.mixed /\ u.requested = t.requested
         /\ \A c \in Components : LET u == [t EXCEPT !.prepared = @ \cup {c}] IN
               u \in Transaction /\ u.journal = t.journal /\ u.mixed = t.mixed /\ u.requested = t.requested
         /\ \A m, q \in BOOLEAN : LET u == [t EXCEPT !.mixed = m, !.journal.requested = q] IN
               /\ u \in Transaction /\ u.journal.completed = t.journal.completed /\ u.journal.batch = t.journal.batch
               /\ u.journal.requested = q /\ u.mixed = m /\ u.requested = t.requested
  BY DEF Transaction, Journal, Statuses

LEMMA InitTypes == Init => TypeInv
<1> SUFFICES ASSUME Init PROVE TypeInv
  OBVIOUS
<1> USE BoundsAssumption
<1>1. latest \in Versions /\ disk \in [Components -> Versions]
  BY DEF Init, Versions
<1>2. loaded \in [Windows -> [Components -> Versions]]
  BY <1>1 DEF Init
<1>3. TypeOK
  BY <1>1, <1>2 DEF Init, TypeOK
<1> QED BY <1>3 DEF TypeInv, Init

LEMMA RestartTypes ==
  ASSUME TypeInv, NEW w \in Windows, Restart(w), UNCHANGED <<latest, disk, journal, faults, open>>,
         crashes' \in 0..MaxCrashes
  PROVE  TypeInv'
<1>1. loaded' \in [Windows -> [Components -> Versions]] /\ gate' \in Windows \cup {None}
  BY DEF TypeInv, TypeOK, Restart, Reopened
<1>2. Blocking(journal) \in BOOLEAN
  BY Zenon DEF Blocking, TypeInv, TypeOK, Journal
<1>3. blocked' \in [Windows -> BOOLEAN] /\ asked' \in [Windows -> BOOLEAN]
  BY <1>2, Zenon DEF TypeInv, TypeOK, Restart
<1>4. TypeOK'
  BY <1>1, <1>3 DEF TypeInv, TypeOK, Restart
<1> QED BY <1>4 DEF TypeInv, Restart, TypeOK, Uninstalled

LEMMA CheckTypes ==
  ASSUME TypeInv, NEW w \in Windows, Check(w)
  PROVE  TypeInv'
<1>1. CASE Resume(w)
  <2>1. Refreshed(w, journal.batch) \in Batch
    BY <1>1 DEF Resume, Unfinished, TypeInv, TypeOK, Journal, Refreshed, Batch
  <2>2. gate' \in Windows \cup {None} /\ blocked' \in [Windows -> BOOLEAN]
    BY <1>1 DEF Resume, TypeInv, TypeOK
  <2>3. TypeOK'
    BY <1>1, <2>1, <2>2 DEF Resume, TypeInv, TypeOK
  <2> QED BY <1>1, <2>3 DEF TypeInv, Resume, Uninstalled
<1>2. CASE Fetch(w)
  <2>1. [to |-> latest, from |-> loaded[w]] \in Batch
    BY DEF TypeInv, TypeOK, Batch
  <2>2. journal' \in Journal \cup {None} /\ blocked' \in [Windows -> BOOLEAN]
    BY <1>2 DEF Fetch, TypeInv, TypeOK
  <2>3. TypeOK'
    BY <1>2, <2>1, <2>2 DEF Fetch, TypeInv, TypeOK
  <2> QED BY <1>2, <2>3 DEF TypeInv, Fetch, Uninstalled
<1> QED BY <1>1, <1>2 DEF Check

LEMMA ChooseTypes ==
  ASSUME TypeInv, NEW w \in Windows, Choose(w)
  PROVE  TypeInv'
<1> DEFINE b == IF Unfinished THEN journal.batch ELSE lastPlan[w]
           t == [journal |-> [batch |-> b, completed |-> Components \ Pending(w, b),
                              requested |-> FALSE, status |-> "preparing"],
                 mixed |-> FALSE, requested |-> FALSE, prepared |-> {}]
<1>1. b \in Batch
  BY DEF Choose, Unfinished, TypeInv, TypeOK, Journal
<1>2. t \in Transaction
  BY <1>1 DEF Transaction, Journal
<1>3. /\ txn' = [txn EXCEPT ![w] = t] /\ Goes(w, "idle", "chosen")
      /\ UNCHANGED <<latest, disk, loaded, journal, gate, blocked, lastPlan, faults, crashes, asked, open>>
  BY DEF Choose
<1> HIDE DEF t, b
<1>4. TypeOK'
  BY <1>2, <1>3 DEF Goes, TypeInv, TypeOK
<1> QED BY <1>2, <1>3, <1>4 DEF TypeInv, TypeOK, Goes, Uninstalled

\* Window w goes on to a step that may be made with the transaction t.
Moves(w, to, t) ==
    /\ \E from \in {pc[w]} : Goes(w, from, to)
    /\ to \in {"idle", "gate", "wait", "prepare", "verify", "install", "receipt", "reload", "fail"}
    /\ txn' = [txn EXCEPT ![w] = t] /\ t \in Transaction
    /\ to \in {"install", "receipt"} => Components \ t.journal.completed /= {}

\* What else the steps of an installation change has its type.
RestTyped ==
    /\ UNCHANGED <<latest, loaded, lastPlan, crashes>>
    /\ disk' \in [Components -> Versions] /\ journal' \in Journal \cup {None}
    /\ gate' \in Windows \cup {None} /\ blocked' \in [Windows -> BOOLEAN]
    /\ asked' \in [Windows -> BOOLEAN] /\ open' \in Batch \cup {None} /\ faults' \in 0..MaxFaults

LEMMA MovesTypes ==
  ASSUME TypeInv, NEW w \in Windows, NEW to, NEW t, Moves(w, to, t), RestTyped
  PROVE  TypeInv'
<1>1. TypeOK'
  BY DEF TypeInv, TypeOK, Goes, Moves, RestTyped
<1> QED BY <1>1 DEF TypeInv, TypeOK, Goes, Moves, Uninstalled

LEMMA StepTypes ==
  ASSUME TypeInv, NEW w \in Windows, Step(w)
  PROVE  TypeInv'
<1>1. pc[w] /= "idle"
  BY Zenon DEF Step, Confirm, BeginGate, Wait, Prepare, BeginInstalling, Verify, Install, Receipt,
     Complete, Reload, Fail, Goes, Fault
<1> DEFINE t == txn[w]
<1>2. t \in Transaction /\ txn \in [Windows -> Transaction \cup {None}] /\ txn = [txn EXCEPT ![w] = t]
  BY <1>1 DEF TypeInv, TypeOK
<1>t. TypeOK /\ w \in Windows
  BY DEF TypeInv
<1>3. t.journal \in Journal /\ t.journal.batch \in Batch /\ t.journal.completed \in SUBSET Components
  BY <1>2, TransactionParts
<1>s. ASSUME NEW s \in Statuses
      PROVE  /\ [t EXCEPT !.journal.status = s] \in Transaction
             /\ [t EXCEPT !.journal.status = s].journal \in Journal
  BY <1>2, <1>s, TransactionParts
<1>f. ASSUME NEW from, Fault(w, from) PROVE faults' \in 0..MaxFaults
  BY <1>f, <1>t, BoundsAssumption DEF Fault, TypeOK
<1>c. ASSUME pc[w] \in {"install", "receipt"}
      PROVE  First(Uninstalled(w)) \in Components /\ Uninstalled(w) /= {}
  <2>1. Uninstalled(w) \in SUBSET Components /\ Uninstalled(w) /= {}
    BY <1>c DEF TypeInv, Uninstalled
  <2> QED BY <2>1, FirstIn
<1>4. CASE Confirm(w)
  <2> DEFINE q == (journal /= None /\ journal.batch = t.journal.batch) /\ journal.requested
             to == IF Mixed /\ ~(journal /= None /\ journal.batch = t.journal.batch) THEN "idle" ELSE "gate"
             u == [t EXCEPT !.mixed = Mixed, !.journal.requested = q]
  <2>1. Mixed \in BOOLEAN /\ q \in BOOLEAN
    BY <1>t, Zenon DEF Mixed, TypeOK, Journal
  <2>2. u \in Transaction
    BY <1>2, <2>1, TransactionParts
  <2>3. txn' = [txn EXCEPT ![w] = u]
    <3>1. txn' = [txn EXCEPT ![w].mixed = Mixed, ![w].journal.requested = q]
      BY <1>4 DEF Confirm
    <3>2. [txn EXCEPT ![w].mixed = Mixed, ![w].journal.requested = q] = [txn EXCEPT ![w] = u]
      OBVIOUS
    <3> HIDE DEF q, u
    <3> QED BY <3>1, <3>2
  <2>4. Goes(w, "chosen", to) /\ to \in {"idle", "gate"}
    BY <1>4 DEF Confirm
  <2>5. RestTyped
    BY <1>t, <1>4 DEF Confirm, RestTyped, TypeOK
  <2> HIDE DEF u, to
  <2>6. Moves(w, to, u)
    BY <2>2, <2>3, <2>4 DEF Moves, Goes
  <2> QED BY <2>5, <2>6, MovesTypes
<1>5. CASE BeginGate(w)
  <2>1. PICK to \in {"wait", "fail"} : Moves(w, to, t)
    BY <1>2, <1>5 DEF BeginGate, Moves, Goes
  <2>2. RestTyped
    BY <1>t, <1>3, <1>5 DEF BeginGate, RestTyped, TypeOK
  <2> QED BY <2>1, <2>2, MovesTypes
<1>6. CASE Wait(w)
  <2>1. PICK to \in {"prepare", "fail"} : Moves(w, to, t)
    BY <1>2, <1>6 DEF Wait, Fault, Moves, Goes
  <2>2. RestTyped
    BY <1>t, <1>6, <1>f DEF Wait, RestTyped, TypeOK
  <2> QED BY <2>1, <2>2, MovesTypes
<1>7. CASE Prepare(w)
  <2>1. RestTyped
    BY <1>t, <1>7, <1>f DEF Prepare, RestTyped, TypeOK
  <2>2. CASE Goes(w, "prepare", "prepare") /\ txn' = [txn EXCEPT ![w].prepared = @ \cup {First(Unprepared(w))}]
    <3> DEFINE c == First(Unprepared(w))
               u == [t EXCEPT !.prepared = @ \cup {c}]
    <3>1. c \in Components
      <4>1. Unprepared(w) \in SUBSET Components /\ Unprepared(w) /= {}
        BY <1>7 DEF Prepare, Unprepared, Pending
      <4> QED BY <4>1, FirstIn
    <3>2. u \in Transaction
      BY <1>2, <3>1, TransactionParts
    <3>3. txn' = [txn EXCEPT ![w] = u]
      <4> HIDE DEF c
      <4>1. txn' = [txn EXCEPT ![w].prepared = @ \cup {c}]
        BY <2>2 DEF c
      <4>2. [txn EXCEPT ![w].prepared = @ \cup {c}] = [txn EXCEPT ![w] = u]
        OBVIOUS
      <4> QED BY <4>1, <4>2
    <3> HIDE DEF u
    <3>4. Moves(w, "prepare", u)
      BY <2>2, <3>2, <3>3 DEF Moves, Goes
    <3> QED BY <2>1, <3>4, MovesTypes
  <2>3. CASE Fault(w, "prepare") /\ UNCHANGED txn
    <3>1. Moves(w, "fail", t)
      BY <1>2, <2>3 DEF Fault, Moves, Goes
    <3> QED BY <2>1, <3>1, MovesTypes
  <2> QED BY <1>7, <2>2, <2>3 DEF Prepare
<1>8. CASE BeginInstalling(w)
  <2> DEFINE u == [t EXCEPT !.journal.status = "installing"]
  <2>1. u \in Transaction /\ u.journal \in Journal
    BY <1>s DEF Statuses
  <2>2. Goes(w, "prepare", "verify") /\ txn' = [txn EXCEPT ![w] = u] /\ journal' = u.journal
    BY <1>8 DEF BeginInstalling, Saves
  <2> HIDE DEF u
  <2>3. RestTyped
    BY <1>t, <1>8, <2>1, <2>2 DEF BeginInstalling, RestTyped, TypeOK
  <2>4. Moves(w, "verify", u)
    BY <2>1, <2>2 DEF Moves, Goes
  <2> QED BY <2>3, <2>4, MovesTypes
<1>9. CASE Verify(w)
  <2>1. CASE Goes(w, "verify", "install") /\ Asking(w) /\ asked' = [asked EXCEPT ![w] = TRUE]
             /\ open' = t.journal.batch /\ UNCHANGED faults
    <3> DEFINE u == [t EXCEPT !.requested = TRUE, !.journal.requested = TRUE]
    <3>1. u \in Transaction /\ u.journal \in Journal /\ u.journal.completed = t.journal.completed
      BY <1>2, TransactionParts
    <3>2. txn' = [txn EXCEPT ![w] = u] /\ journal' = u.journal
      BY <2>1 DEF Asking, Saves
    <3>3. Components \ u.journal.completed /= {}
      BY <1>9, <3>1 DEF Verify, Uninstalled
    <3> HIDE DEF u
    <3>4. RestTyped
      BY <1>t, <1>3, <1>9, <2>1, <3>1, <3>2 DEF Verify, RestTyped, TypeOK
    <3>5. Moves(w, "install", u)
      BY <2>1, <3>1, <3>2, <3>3 DEF Moves, Goes
    <3> QED BY <3>4, <3>5, MovesTypes
  <2>2. CASE Fault(w, "verify") /\ UNCHANGED <<txn, journal, asked, open>>
    <3>1. RestTyped
      BY <1>t, <1>9, <1>f, <2>2 DEF Verify, RestTyped, TypeOK
    <3>2. Moves(w, "fail", t)
      BY <1>2, <2>2 DEF Fault, Moves, Goes
    <3> QED BY <3>1, <3>2, MovesTypes
  <2> QED BY <1>9, <2>1, <2>2 DEF Verify
<1>10. CASE Install(w)
  <2>1. Components \ t.journal.completed /= {} /\ First(Uninstalled(w)) \in Components
    BY <1>10, <1>c DEF Install, Fault, Goes, Uninstalled
  <2>2. PICK to \in {"receipt", "fail"} : Moves(w, to, t)
    BY <1>2, <1>10, <2>1 DEF Install, Fault, Moves, Goes
  <2>3. disk' \in [Components -> Versions]
    BY <1>3, <1>t, <1>10 DEF Install, TypeOK, Batch
  <2>4. RestTyped
    BY <1>t, <1>10, <1>f, <2>3 DEF Install, RestTyped, TypeOK
  <2> QED BY <2>2, <2>4, MovesTypes
<1>11. CASE Receipt(w)
  <2> DEFINE c == First(Uninstalled(w))
             u == [t EXCEPT !.journal.completed = @ \cup {c}]
  <2>1. c \in Components
    BY <1>c, <1>11 DEF Receipt, Goes
  <2>2. u \in Transaction /\ u.journal \in Journal
    BY <1>2, <2>1, TransactionParts
  <2>3. Goes(w, "receipt", "verify") /\ txn' = [txn EXCEPT ![w] = u] /\ journal' = u.journal
    BY <1>11 DEF Receipt, Saves
  <2> HIDE DEF u, c
  <2>4. RestTyped
    BY <1>t, <1>11, <2>2, <2>3 DEF Receipt, RestTyped, TypeOK
  <2>5. Moves(w, "verify", u)
    BY <2>2, <2>3 DEF Moves, Goes
  <2> QED BY <2>4, <2>5, MovesTypes
<1>12. CASE Complete(w)
  <2> DEFINE u == [t EXCEPT !.journal.status = "reload_required"]
  <2>1. u \in Transaction /\ u.journal \in Journal
    BY <1>s DEF Statuses
  <2>2. Goes(w, "verify", "reload") /\ txn' = [txn EXCEPT ![w] = u] /\ journal' = u.journal
    BY <1>12 DEF Complete, Saves
  <2> HIDE DEF u
  <2>3. RestTyped
    BY <1>t, <1>12, <2>1, <2>2 DEF Complete, RestTyped, TypeOK
  <2>4. Moves(w, "reload", u)
    BY <2>1, <2>2 DEF Moves, Goes
  <2> QED BY <2>3, <2>4, MovesTypes
<1>13. CASE Reload(w)
  <2>1. CASE Restart(w) /\ UNCHANGED <<latest, disk, journal, faults, crashes, open>>
    BY <1>t, <2>1, RestartTypes DEF TypeOK
  <2>2. CASE Fault(w, "reload") /\ UNCHANGED <<latest, disk, loaded, journal, gate, blocked, lastPlan, txn, crashes, asked, open>>
    <3>1. RestTyped
      BY <1>t, <1>f, <2>2 DEF RestTyped, TypeOK
    <3>2. Moves(w, "fail", t)
      BY <1>2, <2>2 DEF Fault, Moves, Goes
    <3> QED BY <3>1, <3>2, MovesTypes
  <2> QED BY <1>13, <2>1, <2>2 DEF Reload
<1>14. CASE Fail(w)
  <2> DEFINE u == [t EXCEPT !.journal.status = "failed"]
  <2>1. u \in Transaction /\ u.journal \in Journal
    BY <1>s DEF Statuses
  <2>2. Goes(w, "fail", "idle") /\ txn' = [txn EXCEPT ![w] = u] /\ journal' = u.journal
    BY <1>14 DEF Fail, Saves
  <2> HIDE DEF u
  <2>3. gate' \in Windows \cup {None} /\ blocked' \in [Windows -> BOOLEAN]
    BY <1>t, <1>14 DEF Fail, Reopened, TypeOK
  <2>4. RestTyped
    BY <1>t, <1>14, <2>1, <2>2, <2>3 DEF Fail, RestTyped, TypeOK
  <2>5. Moves(w, "idle", u)
    BY <2>1, <2>2 DEF Moves, Goes
  <2> QED BY <2>4, <2>5, MovesTypes
<1> QED BY <1>4, <1>5, <1>6, <1>7, <1>8, <1>9, <1>10, <1>11, <1>12, <1>13, <1>14 DEF Step

LEMMA NextTypes == TypeInv /\ [Next]_vars => TypeInv'
<1> SUFFICES ASSUME TypeInv, [Next]_vars PROVE TypeInv'
  OBVIOUS
<1>1. CASE Publish
  <2>1. latest' \in Versions
    BY <1>1, BoundsAssumption DEF Publish, TypeInv, TypeOK, Versions
  <2> QED BY <1>1, <2>1 DEF Publish, TypeInv, TypeOK, Uninstalled
<1>2. ASSUME NEW w \in Windows, Crash(w) PROVE TypeInv'
  <2>1. crashes' \in 0..MaxCrashes
    BY <1>2, BoundsAssumption DEF Crash, TypeInv, TypeOK
  <2> QED BY <1>2, <2>1, RestartTypes DEF Crash
<1>3. ASSUME NEW w \in Windows, Check(w) PROVE TypeInv'
  BY <1>3, CheckTypes
<1>4. ASSUME NEW w \in Windows, Choose(w) PROVE TypeInv'
  BY <1>4, ChooseTypes
<1>5. ASSUME NEW w \in Windows, Decline(w) PROVE TypeInv'
  <2>1. faults' \in 0..MaxFaults
    BY <1>5, BoundsAssumption DEF Decline, TypeInv, TypeOK
  <2>2. RestTyped
    BY <1>5, <2>1 DEF Decline, RestTyped, TypeInv, TypeOK
  <2>3. Moves(w, "idle", txn[w])
    BY <1>5 DEF Decline, Goes, Moves, TypeInv, TypeOK
  <2> QED BY <2>2, <2>3, MovesTypes
<1>6. ASSUME NEW w \in Windows, Step(w) PROVE TypeInv'
  BY <1>6, StepTypes
<1>7. CASE UNCHANGED vars
  BY <1>7 DEF vars, TypeInv, TypeOK, Uninstalled
<1> QED BY <1>1, <1>2, <1>3, <1>4, <1>5, <1>6, <1>7 DEF Next

\* The state has its types in every state, whatever fails.
THEOREM TypeCorrect == Spec => []TypeOK
<1>1. TypeInv => TypeOK
  BY DEF TypeInv
<1> QED BY <1>1, InitTypes, NextTypes, PTL DEF Spec

-----------------------------------------------------------------------------
(***************************************************************************)
(* One window alone, for any releases, faults and crashes.                 *)
(*                                                                         *)
(* The properties relate what has been asked of the installer to the       *)
(* journal; the invariant adds why every attempt keeps that relation.      *)
(* Nothing is installed that the window runs already, so a journal that    *)
(* the window is found to have finished with is not about a batch in part; *)
(* an attempt that follows a request is about the same batch and carries   *)
(* the request on, or ends before it takes the gate; and an attempt that   *)
(* goes on from there has its transaction in the journal.                  *)
(***************************************************************************)
Requested == journal /= None /\ journal.requested

Own(w) ==
    /\ \A c \in Components : loaded[w][c] <= disk[c]
    /\ pc[w] /= "idle" => Uninstalled(w) \subseteq Pending(w, txn[w].journal.batch)
    /\ pc[w] \in Installing \cup {"fail"} => journal = txn[w].journal /\ blocked[w] /\ gate = w
    /\ pc[w] = "install" => open = txn[w].journal.batch /\ txn[w].journal.requested
    /\ asked[w] => blocked[w] /\ gate = w /\ Requested
    /\ asked[w] /\ pc[w] \in Installing \cup {"gate", "fail"} => KeepsGate(w)
    /\ (asked[w] \/ Partial) /\ pc[w] = "gate" =>
           txn[w].journal.batch = journal.batch /\ txn[w].journal.requested

SoloInv ==
    /\ gate \in {None, Only}
    /\ \A v \in Windows \ {Only} : ~asked[v]
    /\ Partial => Requested /\ journal.batch = open
    /\ Only \in Windows => Own(Only)

LEMMA InitSolo == Init => SoloInv
<1> SUFFICES ASSUME Init PROVE SoloInv
  OBVIOUS
<1>1. disk \in [Components -> 0..1] /\ \A w \in Windows : loaded[w] = disk
  BY DEF Init
<1>2. \A w \in Windows : \A c \in Components : loaded[w][c] <= disk[c]
  BY <1>1
<1> QED BY <1>2 DEF Init, SoloInv, Own, Partial, Installing

\* A step on the way from the gate to the reload, or into the catch block,
\* that keeps the batch and the request of its transaction in the journal.
LEMMA OnwardSolo ==
  ASSUME TypeInv, SoloInv, NEW w \in Windows, w = Only, NEW from \in Installing, NEW to, Goes(w, from, to),
         to \in (Installing \ {"install"}) \cup {"fail"},
         NEW t \in Transaction, txn' = [txn EXCEPT ![w] = t], journal' = t.journal,
         t.journal.batch = txn[w].journal.batch, txn[w].journal.completed \subseteq t.journal.completed,
         t.journal.requested = txn[w].journal.requested, t.mixed = txn[w].mixed,
         t.requested = txn[w].requested, UNCHANGED <<disk, loaded, gate, blocked, asked, open>>
  PROVE  SoloInv'
<1>1. /\ pc[w] = from /\ pc'[w] = to /\ pc[w] /= "idle" /\ txn'[w] = t
      /\ UNCHANGED <<loaded[w], disk, gate, blocked[w], asked[w], open>>
  BY DEF Goes, TypeInv, TypeOK, Installing
<1>2. /\ Own(w) /\ journal = txn[w].journal /\ blocked[w] /\ gate = w
      /\ t.journal \in Journal /\ t.journal /= None
  BY <1>1, JournalAssumption DEF SoloInv, Own, Transaction, Installing
<1>3. /\ Partial' <=> Partial
      /\ Requested => t.journal.requested
      /\ t.journal.requested => Requested'
      /\ KeepsGate(w) => KeepsGate(w)'
      /\ journal'.batch = journal.batch
  BY <1>1, <1>2 DEF Requested, Partial, KeepsGate
<1>4. Uninstalled(w)' \subseteq Pending(w, txn[w].journal.batch)'
  BY <1>1, <1>2 DEF Own, Uninstalled, Pending
<1>5. Own(w)'
  BY <1>1, <1>2, <1>3, <1>4 DEF Own, Installing
<1>6. Partial' => Requested' /\ journal'.batch = open'
  BY <1>1, <1>3 DEF SoloInv
<1> QED BY <1>1, <1>5, <1>6 DEF SoloInv

\* The journal belongs to the batch in part, so a window that has finished with
\* the journal's batch has all of it.
LEMMA CheckSolo ==
  ASSUME TypeInv, SoloInv, NEW w \in Windows, w = Only, Check(w)
  PROVE  SoloInv'
<1>0. Own(w) /\ pc[w] = "idle"
  BY DEF SoloInv, Check, Resume, Fetch
<1>1. CASE Resume(w)
  <2>1. /\ UNCHANGED <<pc, txn, asked, loaded, disk, journal, open>> /\ gate' \in {None, w}
        /\ asked[w] => gate' = w /\ blocked'[w]
    BY <1>0, <1>1 DEF Resume, SoloInv, Own, TypeInv, TypeOK
  <2>2. (Partial' <=> Partial) /\ (Requested' <=> Requested)
    BY <2>1 DEF Partial, Requested
  <2>3. Own(w)'
    BY <1>0, <2>1, <2>2 DEF Own, Installing
  <2> QED BY <2>1, <2>2, <2>3 DEF SoloInv
<1>2. CASE Fetch(w)
  <2>1. UNCHANGED <<pc, txn, asked, loaded, disk, gate, open>>
    BY <1>2 DEF Fetch
  <2>2. CASE Unfinished
    <3>1. Pending(w, journal.batch) = {} /\ ~asked[w]
      BY <1>0, <1>2, <2>2 DEF Fetch, Own
    <3>2. ~Partial
      <4> SUFFICES ASSUME Partial PROVE FALSE
        OBVIOUS
      <4>1. PICK c \in Components : disk[c] < open.to
        BY DEF Partial
      <4>2. journal.batch = open /\ loaded[w][c] <= disk[c]
        BY <1>0 DEF SoloInv, Own
      <4>3. disk[c] \in Nat /\ loaded[w][c] \in Nat /\ open.to \in Nat
        BY DEF TypeInv, TypeOK, Versions, Batch, Partial
      <4>4. c \in Pending(w, journal.batch)
        BY <4>1, <4>2, <4>3 DEF Pending
      <4> QED BY <3>1, <4>4
    <3>3. ~Partial'
      BY <2>1, <3>2 DEF Partial
    <3>4. Own(w)'
      BY <1>0, <2>1, <3>1, <3>3 DEF Own, Installing
    <3> QED BY <2>1, <3>3, <3>4 DEF SoloInv
  <2>3. CASE ~Unfinished
    <3>1. UNCHANGED <<journal, blocked>>
      BY <1>2, <2>3 DEF Fetch
    <3> QED BY <2>1, <3>1 DEF SoloInv, Own, Partial, Requested, KeepsGate, Uninstalled, Pending
  <2> QED BY <2>2, <2>3
<1> QED BY <1>1, <1>2 DEF Check

\* A host that starts runs what is on the disk, and has asked for nothing.
LEMMA RestartSolo ==
  ASSUME TypeInv, SoloInv, NEW w \in Windows, w = Only, Restart(w), UNCHANGED <<disk, journal, open>>
  PROVE  SoloInv'
<1>1. /\ loaded'[w] = disk /\ ~asked'[w] /\ pc'[w] = "idle" /\ gate' = None
      /\ \A v \in Windows \ {Only} : ~asked'[v]
  BY DEF Restart, Reopened, SoloInv, TypeInv, TypeOK
<1>2. \A c \in Components : loaded'[w][c] <= disk'[c]
  BY <1>1 DEF TypeInv, TypeOK, Versions
<1>3. Own(w)'
  BY <1>1, <1>2 DEF Own, Installing
<1>4. Partial' => Requested' /\ journal'.batch = open'
  BY DEF Partial, Requested, SoloInv
<1> QED BY <1>1, <1>3, <1>4 DEF SoloInv

LEMMA ChooseSolo ==
  ASSUME TypeInv, SoloInv, NEW w \in Windows, w = Only, Choose(w) \/ Decline(w)
  PROVE  SoloInv'
<1>1. /\ UNCHANGED <<disk, loaded, journal, gate, blocked, asked, open>>
      /\ pc'[w] \in {"idle", "chosen"}
      /\ pc'[w] /= "idle" => Choose(w)
  BY DEF Choose, Decline, Goes, TypeInv, TypeOK
<1>2. (Partial' <=> Partial) /\ (Requested' <=> Requested)
  BY <1>1 DEF Partial, Requested
<1>3. Choose(w) => Uninstalled(w)' \subseteq Pending(w, txn[w].journal.batch)'
  <2> SUFFICES ASSUME Choose(w) PROVE Uninstalled(w)' \subseteq Pending(w, txn[w].journal.batch)'
    OBVIOUS
  <2> DEFINE b == IF Unfinished THEN journal.batch ELSE lastPlan[w]
  <2>1. txn'[w].journal.batch = b /\ txn'[w].journal.completed = Components \ Pending(w, b)
    BY DEF Choose, TypeInv, TypeOK
  <2> HIDE DEF b
  <2> QED BY <1>1, <2>1 DEF Uninstalled, Pending
<1>4. Own(w)'
  BY <1>1, <1>2, <1>3 DEF Own, SoloInv, Installing
<1> QED BY <1>1, <1>2, <1>4 DEF SoloInv

\* An attempt after a request is the same batch's, or ends here.
LEMMA ConfirmSolo ==
  ASSUME TypeInv, SoloInv, NEW w \in Windows, w = Only, Confirm(w)
  PROVE  SoloInv'
<1> DEFINE same == journal /= None /\ journal.batch = txn[w].journal.batch
           to == IF Mixed /\ ~same THEN "idle" ELSE "gate"
<1>0. Own(w) /\ pc[w] = "chosen" /\ txn[w] \in Transaction
  BY DEF SoloInv, Confirm, Goes, TypeInv
<1>1. UNCHANGED <<disk, loaded, journal, gate, blocked, asked, open>> /\ pc'[w] = to
  BY DEF Confirm, Goes, TypeInv, TypeOK
<1>2. /\ txn'[w].journal.batch = txn[w].journal.batch
      /\ txn'[w].journal.completed = txn[w].journal.completed
      /\ txn'[w].mixed = Mixed
      /\ txn'[w].journal.requested = (same /\ journal.requested)
  <2> DEFINE q == same /\ journal.requested
             u == [txn[w] EXCEPT !.mixed = Mixed, !.journal.requested = q]
  <2>1. Mixed \in BOOLEAN /\ q \in BOOLEAN
    BY Zenon DEF Mixed, TypeInv, TypeOK, Journal
  <2>2. txn' = [txn EXCEPT ![w] = u]
    <3>1. txn' = [txn EXCEPT ![w].mixed = Mixed, ![w].journal.requested = q]
      BY DEF Confirm
    <3>2. [txn EXCEPT ![w].mixed = Mixed, ![w].journal.requested = q] = [txn EXCEPT ![w] = u]
      OBVIOUS
    <3> HIDE DEF q, u
    <3> QED BY <3>1, <3>2
  <2>3. /\ u.journal.batch = txn[w].journal.batch /\ u.journal.completed = txn[w].journal.completed
        /\ u.mixed = Mixed /\ u.journal.requested = q
    <3> HIDE DEF q
    <3> QED BY <1>0, <2>1 DEF Transaction, Journal
  <2> HIDE DEF u, q
  <2>4. txn'[w] = u
    BY <2>2 DEF TypeInv, TypeOK
  <2> QED BY <2>3, <2>4 DEF q
<1>3. (Partial' <=> Partial) /\ (Requested' <=> Requested)
  BY <1>1 DEF Partial, Requested
<1>4. Uninstalled(w)' \subseteq Pending(w, txn[w].journal.batch)'
  BY <1>0, <1>1, <1>2 DEF Own, Uninstalled, Pending
<1>5. asked[w] \/ Partial => Mixed /\ Requested
  BY <1>0 DEF Own, SoloInv, Mixed, Requested
<1>6. (asked[w] \/ Partial) /\ to = "gate" => same /\ journal.requested
  BY <1>5 DEF Requested
<1>7. asked[w] => KeepsGate(w)'
  BY <1>2, <1>5 DEF KeepsGate
<1>8. to \in {"idle", "gate"}
  OBVIOUS
<1> HIDE DEF to
<1>9. Own(w)'
  <2>1. (asked[w] \/ Partial) /\ to = "gate" => /\ txn'[w].journal.batch = journal'.batch
                                                /\ txn'[w].journal.requested
    BY <1>1, <1>2, <1>6
  <2> HIDE DEF same
  <2> QED BY <1>0, <1>1, <1>3, <1>4, <1>7, <1>8, <2>1 DEF Own, Installing
<1> QED BY <1>1, <1>3, <1>9 DEF SoloInv

\* The transaction is saved when the window gets the gate, and a window that
\* is alone gets it.
LEMMA BeginGateSolo ==
  ASSUME TypeInv, SoloInv, NEW w \in Windows, w = Only, BeginGate(w)
  PROVE  SoloInv'
<1>0. Own(w) /\ pc[w] = "gate" /\ txn[w] \in Transaction /\ Free(w)
  BY DEF SoloInv, BeginGate, Goes, TypeInv, Free
<1>1. /\ pc'[w] = "wait" /\ gate' = w /\ blocked'[w] /\ journal' = txn[w].journal
      /\ UNCHANGED <<disk, loaded, txn, asked, open>>
  BY <1>0 DEF BeginGate, Goes, TypeInv, TypeOK
<1>2. journal' /= None
  BY <1>0, <1>1, JournalAssumption DEF Transaction
<1>3. (Partial' <=> Partial) /\ (KeepsGate(w)' <=> KeepsGate(w))
  BY <1>1 DEF Partial, KeepsGate
<1>4. Partial => Requested' /\ journal'.batch = open
  BY <1>0, <1>1, <1>2 DEF SoloInv, Own, Requested
<1>5. asked[w] => Requested' /\ KeepsGate(w)
  BY <1>0, <1>1, <1>2 DEF Own, Requested
<1>6. Uninstalled(w)' \subseteq Pending(w, txn[w].journal.batch)'
  BY <1>0, <1>1 DEF Own, Uninstalled, Pending
<1>7. Own(w)'
  BY <1>0, <1>1, <1>3, <1>5, <1>6 DEF Own
<1> QED BY <1>1, <1>3, <1>4, <1>7 DEF SoloInv

\* The request is in the journal when the installer starts.
LEMMA AskingSolo ==
  ASSUME TypeInv, SoloInv, NEW w \in Windows, w = Only, Goes(w, "verify", "install"), Asking(w),
         asked' = [asked EXCEPT ![w] = TRUE], open' = txn[w].journal.batch,
         UNCHANGED <<disk, loaded, gate, blocked>>
  PROVE  SoloInv'
<1>0. Own(w) /\ pc[w] = "verify" /\ txn[w] \in Transaction /\ blocked[w] /\ gate = w
  BY DEF SoloInv, Own, Goes, TypeInv, Installing
<1> DEFINE t == [txn[w] EXCEPT !.requested = TRUE, !.journal.requested = TRUE]
<1>1. /\ t.journal.batch = txn[w].journal.batch /\ t.journal.completed = txn[w].journal.completed
      /\ t.journal.requested /\ t.requested /\ t \in Transaction
  BY <1>0, TransactionParts
<1>2. txn' = [txn EXCEPT ![w] = t] /\ journal' = t.journal
  BY DEF Asking, Saves
<1> HIDE DEF t
<1>3. txn'[w] = t /\ pc'[w] = "install" /\ t.journal /= None /\ \A v \in Windows \ {Only} : ~asked'[v]
  BY <1>1, <1>2, JournalAssumption DEF TypeInv, TypeOK, Goes, Transaction, SoloInv
<1>4. Requested' /\ journal'.batch = open' /\ KeepsGate(w)'
  BY <1>1, <1>2, <1>3 DEF Requested, KeepsGate
<1>5. Uninstalled(w)' \subseteq Pending(w, txn[w].journal.batch)'
  BY <1>0, <1>1, <1>3 DEF Own, Uninstalled, Pending
<1>6. Own(w)'
  BY <1>0, <1>1, <1>2, <1>3, <1>4, <1>5 DEF Own
<1> QED BY <1>0, <1>3, <1>4, <1>6 DEF SoloInv

\* The installer writes a version that the window does not run yet.
LEMMA InstallSolo ==
  ASSUME TypeInv, SoloInv, NEW w \in Windows, w = Only, Install(w)
  PROVE  SoloInv'
<1> DEFINE c == First(Uninstalled(w))
           b == txn[w].journal.batch
<1>0. Own(w) /\ pc[w] = "install" /\ txn[w] \in Transaction /\ journal = txn[w].journal
  BY DEF SoloInv, Own, Install, Fault, Goes, TypeInv, Installing
<1>1. c \in Uninstalled(w) /\ c \in Components
  <2>1. Uninstalled(w) \in SUBSET Components /\ Uninstalled(w) /= {}
    BY <1>0 DEF TypeInv, Uninstalled
  <2>2. First(Uninstalled(w)) \in Uninstalled(w)
    BY <2>1, FirstIn
  <2> QED BY <2>1, <2>2
<1> HIDE DEF c, b
<1>2. loaded[w][c] < b.to /\ b \in Batch /\ b.to \in Nat
  <2>1. b \in Batch
    BY <1>0, TransactionParts DEF b
  <2> QED BY <1>0, <1>1, <2>1 DEF Own, Pending, b, Batch, Versions
<1>3. disk' = disk \/ disk' = [disk EXCEPT ![c] = b.to]
  BY DEF Install, c, b
<1>4. /\ UNCHANGED <<loaded, journal, gate, blocked, txn, asked, open>>
      /\ pc'[w] \in {"receipt", "fail"}
  BY DEF Install, Fault, Goes, TypeInv, TypeOK
<1>5. \A d \in Components : loaded'[w][d] <= disk'[d]
  <2> SUFFICES ASSUME NEW d \in Components PROVE loaded'[w][d] <= disk'[d]
    OBVIOUS
  <2>1. disk \in [Components -> Versions] /\ loaded[w][d] \in Nat /\ disk[d] \in Nat /\ loaded[w][d] <= disk[d]
    BY <1>0 DEF TypeInv, TypeOK, Versions, Own
  <2>2. disk'[d] = disk[d] \/ (d = c /\ disk'[d] = b.to)
    BY <1>1, <1>3, <2>1
  <2> QED BY <1>2, <1>4, <2>1, <2>2
<1>6. Requested' /\ journal'.batch = open'
  BY <1>0, <1>4, JournalAssumption DEF Own, Requested, Transaction
<1>7. Uninstalled(w)' \subseteq Pending(w, txn[w].journal.batch)'
  BY <1>0, <1>4 DEF Own, Uninstalled, Pending
<1>8. KeepsGate(w)' <=> KeepsGate(w)
  BY <1>4 DEF KeepsGate
<1>9. Own(w)'
  BY <1>0, <1>4, <1>5, <1>6, <1>7, <1>8 DEF Own, Installing
<1> QED BY <1>4, <1>6, <1>9 DEF SoloInv

\* An attempt that fails opens the gate only when nothing was asked for since
\* the window started.
LEMMA FailSolo ==
  ASSUME TypeInv, SoloInv, NEW w \in Windows, w = Only, Fail(w)
  PROVE  SoloInv'
<1>0. /\ Own(w) /\ pc[w] = "fail" /\ txn[w] \in Transaction /\ journal = txn[w].journal
      /\ gate = w /\ blocked[w]
  BY DEF SoloInv, Own, Fail, Goes, TypeInv
<1> DEFINE t == [txn[w] EXCEPT !.journal.status = "failed"]
<1>1. t.journal \in Journal /\ t.journal.batch = journal.batch /\ t.journal.requested = journal.requested
  BY <1>0 DEF Transaction, Journal
<1>2. journal' = t.journal
  BY DEF Fail, Saves
<1> HIDE DEF t
<1>3. UNCHANGED <<disk, loaded, asked, open>> /\ pc'[w] = "idle"
  BY DEF Fail, Goes, TypeInv, TypeOK
<1>4. /\ asked[w] => gate' = w /\ blocked'[w]
      /\ gate' \in {None, w}
  BY <1>0 DEF Fail, Own, Reopened, TypeInv, TypeOK
<1>5. (Partial' <=> Partial) /\ (Requested => Requested') /\ journal'.batch = journal.batch
  BY <1>1, <1>2, <1>3, JournalAssumption DEF Partial, Requested
<1>6. Own(w)'
  BY <1>0, <1>3, <1>4, <1>5 DEF Own, Installing
<1> QED BY <1>3, <1>4, <1>5, <1>6 DEF SoloInv

\* A step on the way that leaves the transaction and the journal as they are.
LEMMA StaySolo ==
  ASSUME TypeInv, SoloInv, NEW w \in Windows, w = Only, NEW from \in Installing, NEW to, Goes(w, from, to),
         to \in (Installing \ {"install"}) \cup {"fail"},
         UNCHANGED <<txn, journal, disk, loaded, gate, blocked, asked, open>>
  PROVE  SoloInv'
<1>1. txn[w] \in Transaction /\ txn' = [txn EXCEPT ![w] = txn[w]] /\ journal' = txn[w].journal
  BY DEF TypeInv, TypeOK, SoloInv, Own, Goes, Installing
<1> QED BY <1>1, OnwardSolo

\* A step on the way that sets the status of the journal.
LEMMA StatusSolo ==
  ASSUME TypeInv, SoloInv, NEW w \in Windows, w = Only, NEW from \in Installing, NEW to, Goes(w, from, to),
         to \in (Installing \ {"install"}) \cup {"fail"}, NEW s \in Statuses,
         Saves(w, [txn[w] EXCEPT !.journal.status = s]),
         UNCHANGED <<disk, loaded, gate, blocked, asked, open>>
  PROVE  SoloInv'
<1> DEFINE t == [txn[w] EXCEPT !.journal.status = s]
<1>1. txn[w] \in Transaction
  BY DEF TypeInv, Goes, Installing
<1>2. /\ t \in Transaction /\ t.journal.completed = txn[w].journal.completed
      /\ t.journal.batch = txn[w].journal.batch /\ t.journal.requested = txn[w].journal.requested
      /\ t.mixed = txn[w].mixed /\ t.requested = txn[w].requested
  BY <1>1 DEF Transaction, Journal, Statuses
<1>3. txn' = [txn EXCEPT ![w] = t] /\ journal' = t.journal
  BY DEF Saves
<1> HIDE DEF t
<1> QED BY <1>2, <1>3, OnwardSolo

LEMMA StepSolo ==
  ASSUME TypeInv, SoloInv, NEW w \in Windows, w = Only, Step(w)
  PROVE  SoloInv'
<1>1. CASE Confirm(w)
  BY <1>1, ConfirmSolo
<1>2. CASE BeginGate(w)
  BY <1>2, BeginGateSolo
<1>3. CASE Wait(w)
  BY <1>3, StaySolo DEF Wait, Fault, Installing
<1>4. CASE Prepare(w)
  <2>1. CASE Goes(w, "prepare", "prepare") /\ txn' = [txn EXCEPT ![w].prepared = @ \cup {First(Unprepared(w))}]
    <3> DEFINE c == First(Unprepared(w))
               t == [txn[w] EXCEPT !.prepared = @ \cup {c}]
    <3>1. c \in Components
      <4>1. Unprepared(w) \in SUBSET Components /\ Unprepared(w) /= {}
        BY <1>4 DEF Prepare, Unprepared, Pending
      <4> QED BY <4>1, FirstIn
    <3>2. txn[w] \in Transaction /\ journal = txn[w].journal
      BY <2>1 DEF Goes, TypeInv, SoloInv, Own, Installing
    <3>3. /\ t \in Transaction /\ t.journal = txn[w].journal /\ t.mixed = txn[w].mixed
          /\ t.requested = txn[w].requested
      <4> HIDE DEF c
      <4> QED BY <3>1, <3>2 DEF Transaction, Journal
    <3>4. txn' = [txn EXCEPT ![w] = t]
      <4> HIDE DEF c
      <4>1. txn' = [txn EXCEPT ![w].prepared = @ \cup {c}]
        BY <2>1 DEF c
      <4>2. [txn EXCEPT ![w].prepared = @ \cup {c}] = [txn EXCEPT ![w] = t]
        OBVIOUS
      <4> QED BY <4>1, <4>2
    <3> HIDE DEF t
    <3>5. "prepare" \in Installing \ {"install"}
      BY DEF Installing
    <3> QED BY <1>4, <2>1, <3>2, <3>3, <3>4, <3>5, OnwardSolo DEF Prepare
  <2>2. CASE Fault(w, "prepare") /\ UNCHANGED txn
    BY <1>4, <2>2, StaySolo DEF Prepare, Fault, Installing
  <2> QED BY <1>4, <2>1, <2>2 DEF Prepare
<1>5. CASE BeginInstalling(w)
  BY <1>5, StatusSolo DEF BeginInstalling, Installing, Statuses
<1>6. CASE Verify(w)
  <2>1. CASE Goes(w, "verify", "install") /\ Asking(w) /\ asked' = [asked EXCEPT ![w] = TRUE]
             /\ open' = txn[w].journal.batch
    BY <1>6, <2>1, AskingSolo DEF Verify
  <2>2. CASE Fault(w, "verify") /\ UNCHANGED <<txn, journal, asked, open>>
    BY <1>6, <2>2, StaySolo DEF Verify, Fault, Installing
  <2> QED BY <1>6, <2>1, <2>2 DEF Verify
<1>7. CASE Install(w)
  BY <1>7, InstallSolo
<1>8. CASE Receipt(w)
  <2> DEFINE c == First(Uninstalled(w))
             t == [txn[w] EXCEPT !.journal.completed = @ \cup {c}]
  <2>1. txn[w] \in Transaction /\ c \in Components
    <3>1. txn[w] \in Transaction /\ Uninstalled(w) \in SUBSET Components /\ Uninstalled(w) /= {}
      BY <1>8 DEF Receipt, Goes, TypeInv, Uninstalled
    <3> QED BY <3>1, FirstIn
  <2>2. /\ t \in Transaction /\ t.journal.completed = txn[w].journal.completed \cup {c}
        /\ t.journal.batch = txn[w].journal.batch /\ t.journal.requested = txn[w].journal.requested
        /\ t.mixed = txn[w].mixed /\ t.requested = txn[w].requested
    <3> HIDE DEF c
    <3> QED BY <2>1 DEF Transaction, Journal
  <2>3. txn' = [txn EXCEPT ![w] = t] /\ journal' = t.journal
    BY <1>8 DEF Receipt, Saves
  <2>4. "receipt" \in Installing /\ "verify" \in Installing \ {"install"}
    BY DEF Installing
  <2>5. txn[w].journal.completed \subseteq t.journal.completed
    BY <2>2
  <2> HIDE DEF t, c
  <2> QED BY <1>8, <2>2, <2>3, <2>4, <2>5, OnwardSolo DEF Receipt
<1>9. CASE Complete(w)
  BY <1>9, StatusSolo DEF Complete, Installing, Statuses
<1>10. CASE Reload(w)
  <2>1. CASE Restart(w) /\ UNCHANGED <<disk, journal, open>>
    BY <2>1, RestartSolo
  <2>2. CASE Fault(w, "reload") /\ UNCHANGED <<disk, loaded, journal, gate, blocked, txn, asked, open>>
    BY <2>2, StaySolo DEF Fault, Installing
  <2> QED BY <1>10, <2>1, <2>2 DEF Reload
<1>11. CASE Fail(w)
  BY <1>11, FailSolo
<1> QED BY <1>1, <1>2, <1>3, <1>4, <1>5, <1>6, <1>7, <1>8, <1>9, <1>10, <1>11 DEF Step

\* The windows that are open stay open, and only they take steps.
MCInv == TypeInv /\ (Alone => SoloInv)

LEMMA MCInitInv == MCInit => MCInv
  BY InitTypes, InitSolo DEF MCInit, MCInv

LEMMA MCNextSteps ==
  ASSUME [MCNext]_MCvars
  PROVE  [Next]_vars /\ (Alone' <=> Alone)
  BY DEF MCNext, In, Next, MCvars, Alone

LEMMA MCNextInv == MCInv /\ [MCNext]_MCvars => MCInv'
<1> SUFFICES ASSUME MCInv, [MCNext]_MCvars PROVE MCInv'
  OBVIOUS
<1>1. TypeInv'
  BY MCNextSteps, NextTypes DEF MCInv
<1>2. ASSUME Alone PROVE SoloInv'
  <2>1. TypeInv /\ SoloInv
    BY <1>2 DEF MCInv
  <2>2. CASE Publish
    BY <2>1, <2>2 DEF Publish, SoloInv, Own, Partial, Requested, KeepsGate, Uninstalled, Pending
  <2>3. ASSUME NEW w \in Windows, w \in running,
               Crash(w) \/ Check(w) \/ Choose(w) \/ Decline(w) \/ Step(w)
        PROVE  SoloInv'
    <3>1. w = Only
      BY <1>2, <2>3 DEF Alone
    <3> QED BY <2>1, <2>3, <3>1, RestartSolo, CheckSolo, ChooseSolo, StepSolo DEF Crash
  <2>4. CASE UNCHANGED MCvars
    BY <2>1, <2>4 DEF MCvars, vars, SoloInv, Own, Partial, Requested, KeepsGate, Uninstalled, Pending
  <2> QED BY <2>2, <2>3, <2>4 DEF MCNext, In
<1> QED BY <1>1, <1>2, MCNextSteps DEF MCInv

\* The business of a window that has asked for an installation is refused until
\* it reloads (the finally block of run() and checkCore()).
THEOREM ClosedUntilReloadHolds == MCSpec => []ClosedUntilReloadAlone
<1>1. MCInv => ClosedUntilReloadAlone
  BY DEF MCInv, SoloInv, Own, ClosedUntilReloadAlone, ClosedUntilReload
<1> QED BY <1>1, MCInitInv, MCNextInv, PTL DEF MCSpec

\* Whatever is installed in part can be told from the journal in every state
\* (saveJournal() before install()).
THEOREM PartialIsDurableHolds == MCSpec => []PartialIsDurableAlone
<1>1. MCInv => PartialIsDurableAlone
  BY DEF MCInv, SoloInv, PartialIsDurableAlone, PartialIsDurable, Requested, Blocking
<1> QED BY <1>1, MCInitInv, MCNextInv, PTL DEF MCSpec

\* The next installation is asked for by a transaction that is in the journal,
\* and so about the batch that is installed in part (the fingerprint check of
\* run()).
LEMMA OpenStays ==
  ASSUME MCInv, [MCNext]_MCvars, Alone, Partial
  PROVE  open' = open
<1>1. CASE Publish \/ UNCHANGED MCvars
  BY <1>1 DEF Publish, MCvars, vars
<1>2. ASSUME NEW w \in Windows, w \in running, Crash(w) \/ Check(w) \/ Choose(w) \/ Decline(w)
      PROVE  open' = open
  BY <1>2 DEF Crash, Check, Resume, Fetch, Choose, Decline
<1>3. ASSUME NEW w \in Windows, w \in running, Step(w) PROVE open' = open
  <2>1. w = Only /\ Own(w) /\ journal.batch = open
    BY <1>3 DEF Alone, MCInv, SoloInv
  <2>2. CASE Verify(w)
    BY <2>1, <2>2 DEF Verify, Fault, Goes, Own, Installing
  <2> QED BY <1>3, <2>2 DEF Step, Confirm, BeginGate, Wait, Prepare, BeginInstalling, Install, Receipt,
        Complete, Reload, Fail
<1> QED BY <1>1, <1>2, <1>3 DEF MCNext, In

\* While a batch may be installed in part, no other one is installed over it.
THEOREM BatchIsNotReplacedHolds == MCSpec => BatchIsNotReplacedAlone
<1>1. MCInv /\ [MCNext]_MCvars => [Alone => KeepsBatch]_MCvars
  BY OpenStays DEF KeepsBatch
<1> QED BY <1>1, MCInitInv, MCNextInv, PTL DEF MCSpec, BatchIsNotReplacedAlone
=============================================================================
