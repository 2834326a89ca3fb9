----------------------- MODULE DispatchHandoff_proofs -----------------------
(***************************************************************************)
(* Proofs about DispatchHandoff, for any workers, directories, commands,   *)
(* lanes and synchronisations: one writer to a directory, no job sent into *)
(* a write, no write under a job that is on its way, and no branch that    *)
(* waits for nothing.                                                      *)
(***************************************************************************)
EXTENDS DispatchHandoff, TLAPS

ActiveSteps == {"holding", "writing", "wrote", "proved"}
Active(w) == branch[w] \in ActiveSteps

\* A branch from its begin to the proof of its write.
Ahead(w) == branch[w] \in {"todo", "asking", "ready", "queued", "holding", "writing", "wrote"}
FileIsOpen(w) == files[w].id = round /\ files[w].state = "uploading"

UploadTypes ==
    /\ sync \in {"idle", "waiting", "clear", "same", "preparing", "copying"}
    /\ round \in 0..MaxRounds
    /\ goal \subseteq Workers
    /\ branch \in [Workers -> BranchSteps]
    /\ files \in [Workers -> [id : 0..MaxRounds, noted : BOOLEAN,
                              state : {"none", "uploading", "uploaded", "unknown"}]]
SideTypes ==
    /\ unknown \in [Targets -> Workers \cup {None}]
    /\ owner \in [Targets -> 0..MaxRounds]
    /\ fenced \subseteq Targets /\ retained = fenced
    /\ queue \in [Targets -> Seq(Workers)]
    /\ remote \subseteq [id : 1..MaxRounds, to : Workers]
    /\ stale \in BOOLEAN
DispatchTypes ==
    /\ phase \in {"idle", "admitting", "sending", "ending"}
    /\ batch \subseteq Commands
    /\ job \in [Commands -> {"new", "ready", "denied", "sent", "unsent"}]
    /\ table \in [Commands -> {"none", "open", "sent", "settled"}]
    /\ wire \in [Commands -> {"none", "flying", "landed"}]
    /\ committed \subseteq Commands

\* The step of the synchronisation bounds those of its branches.
SyncTells ==
    /\ sync \in {"idle", "waiting", "clear", "same"} => \A w \in Workers : branch[w] = "none"
    /\ sync = "preparing" =>
          \A w \in Workers : branch[w] \in {"none", "todo", "asking", "ready", "over"}
    /\ sync /= "idle" => round > 0

\* A branch is of a worker that was announced; until its write is proved, the
\* gate says that the worker's directory is being written.
GoalTells ==
    /\ sync \in {"waiting", "clear"} => \A w \in goal : FileIsOpen(w)
    /\ \A w \in Workers : Ahead(w) =>
          /\ w \in goal /\ FileIsOpen(w)
          /\ branch[w] /= "todo" => files[w].noted

\* A target's lease is held by one branch, or is fenced for an unknown write.
FenceTells == \A t \in Targets : t \in fenced <=> unknown[t] /= None
HolderIsKnown ==
    \A t \in Targets : owner[t] /= 0 =>
        t \in fenced \/ \E w \in Workers : Active(w) /\ TargetOf[w] = t
HolderIsAlone ==
    \A v \in Workers : Active(v) =>
        /\ owner[TargetOf[v]] = round /\ round > 0
        /\ TargetOf[v] \notin fenced
        /\ \A w \in Workers : Active(w) /\ TargetOf[w] = TargetOf[v] => w = v
FenceIsHeld == \A t \in fenced : owner[t] /= 0

\* The line for a target's lease has the branches that wait for it, once each.
Lined(w) == \E i \in DOMAIN queue[TargetOf[w]] : queue[TargetOf[w]][i] = w
LineIsTrue ==
    \A t \in Targets : \A i \in DOMAIN queue[t] :
        /\ branch[queue[t][i]] = "queued" /\ TargetOf[queue[t][i]] = t
        /\ \A k \in DOMAIN queue[t] : queue[t][k] = queue[t][i] => k = i
LineIsWhole ==
    \A w \in Workers : branch[w] = "queued" =>
        /\ Lined(w)
        /\ owner[TargetOf[w]] /= 0 /\ TargetOf[w] \notin fenced

Leases == FenceTells /\ HolderIsKnown /\ HolderIsAlone /\ FenceIsHeld /\ LineIsTrue /\ LineIsWhole

\* A write in progress is one of a branch, or its target is known to be unsafe.
Current(x) == x.id = round /\ branch[x.to] = "writing"
WritesAreKnown == ~stale => \A x \in remote : Current(x) \/ unknown[TargetOf[x.to]] /= None

UInv == UploadTypes /\ SideTypes /\ SyncTells /\ GoalTells /\ Leases /\ WritesAreKnown /\ OneWriterUnlessStale

\* A handoff lasts while its request is under way, until the queue is saved.
HandoffLasts ==
    \A c \in Commands :
        /\ wire[c] /= "none" => job[c] = "sent"
        /\ table[c] = "settled" => wire[c] = "landed"
        /\ wire[c] = "flying" /\ c \notin committed => table[c] = "sent"
BatchIsFresh ==
    /\ batch \cap Manual = {}
    /\ phase = "admitting" => \A c \in batch : job[c] = "ready"

DInv == DispatchTypes /\ HandoffLasts /\ BatchIsFresh

\* Once the wait is over, no job flies to a worker that is still to be written.
NoneFlies ==
    \A c \in Commands :
        /\ sync \in {"clear", "preparing", "copying"}
        /\ WorkerOf[c] \in goal /\ FileIsOpen(WorkerOf[c])
        /\ wire[c] = "flying"
        => c \in committed

HInv == UInv /\ DInv /\ NoneFlies

-----------------------------------------------------------------------------
(* Steps that leave the leases and the writes alone.                       *)

LEMMA TargetsAre == \A w \in Workers : TargetOf[w] \in Targets
  BY DEF Targets

SameBranches ==
    \A w \in Workers :
        /\ Active(w)' <=> Active(w)
        /\ branch'[w] = "queued" <=> branch[w] = "queued"
        /\ branch'[w] = "writing" <=> branch[w] = "writing"

LEMMA SidesStay ==
  ASSUME UInv, UploadTypes', UNCHANGED sides, SameBranches,
         round' = round \/ \A w \in Workers : branch[w] = "none"
  PROVE  SideTypes' /\ Leases' /\ WritesAreKnown' /\ OneWriterUnlessStale'
<1> USE TargetsAre
<1>0. /\ UNCHANGED <<unknown, owner, fenced, retained, queue, remote, stale>>
      /\ UploadTypes /\ SideTypes /\ Leases /\ WritesAreKnown /\ OneWriterUnlessStale
  BY DEF UInv, sides
<1>1. SideTypes' /\ OneWriterUnlessStale'
  BY <1>0 DEF SideTypes, OneWriterUnlessStale
<1>2. FenceTells' /\ FenceIsHeld'
  BY <1>0 DEF Leases, FenceTells, FenceIsHeld
<1>3. HolderIsKnown'
  BY <1>0 DEF Leases, HolderIsKnown, SameBranches
<1>4. HolderIsAlone'
  <2>1. \A w \in Workers : Active(w)' => Active(w) /\ round' = round
    BY DEF SameBranches, Active, ActiveSteps
  <2> QED BY <1>0, <2>1 DEF Leases, HolderIsAlone
<1>5. LineIsTrue'
  <2>1. \A t \in Targets : \A i \in DOMAIN queue[t] : queue[t][i] \in Workers
    BY <1>0 DEF SideTypes
  <2> QED BY <1>0, <2>1 DEF Leases, LineIsTrue, SameBranches
<1>6. LineIsWhole'
  BY <1>0 DEF Leases, LineIsWhole, Lined, SameBranches
<1>7. WritesAreKnown'
  <2>1. ASSUME NEW x \in remote, Current(x) PROVE Current(x)'
    <3>1. x.to \in Workers
      BY <1>0 DEF SideTypes
    <3> QED BY <2>1, <3>1 DEF Current, SameBranches
  <2> QED BY <1>0, <2>1 DEF WritesAreKnown
<1> QED BY <1>1, <1>2, <1>3, <1>4, <1>5, <1>6, <1>7 DEF Leases

\* A step that leaves the dispatch alone keeps its part.
LEMMA DispatchStays ==
  ASSUME DInv, UNCHANGED dispatch
  PROVE  DInv'
  BY DEF DInv, DispatchTypes, HandoffLasts, BatchIsFresh, dispatch

\* No job comes to fly to a worker that is still to be written, if no worker
\* comes to be one.
LEMMA NoneFliesStays ==
  ASSUME HInv, UNCHANGED <<wire, committed>>,
         \A w \in Workers :
             sync' \in {"clear", "preparing", "copying"} /\ w \in goal' /\ FileIsOpen(w)' =>
                 sync \in {"clear", "preparing", "copying"} /\ w \in goal /\ FileIsOpen(w)
  PROVE  NoneFlies'
  BY WorkersAssumption DEF HInv, NoneFlies

-----------------------------------------------------------------------------
(* The steps of the synchronisation outside its leases.                    *)

LEMMA BeginKeeps ==
  ASSUME HInv, NEW W \in SUBSET Workers, Begin(W)
  PROVE  HInv'
<1> USE NumbersAssumption
<1>1. UInv /\ UploadTypes /\ SyncTells /\ GoalTells /\ sync = "idle"
  BY DEF HInv, UInv, Begin
<1>2. \A w \in Workers : branch[w] = "none" /\ branch'[w] = "none"
  BY <1>1 DEF SyncTells, Begin
<1>3. sync' \in {"clear", "waiting"} /\ (sync' = "clear" => Blocking(W, table) = {})
  BY DEF Begin, FirstLook
<1>4. UploadTypes'
  BY <1>1, <1>3 DEF UploadTypes, Begin
<1>5. SyncTells' /\ GoalTells'
  BY <1>1, <1>2, <1>3 DEF UploadTypes, SyncTells, GoalTells, Begin, Ahead, FileIsOpen
<1>6. SideTypes' /\ Leases' /\ WritesAreKnown' /\ OneWriterUnlessStale'
  <2>1. SameBranches /\ UNCHANGED sides
    BY <1>2 DEF SameBranches, Active, ActiveSteps, Begin
  <2> QED BY <1>1, <1>2, <1>4, <2>1, SidesStay
<1>7. NoneFlies'
  <2>1. ASSUME NEW c \in Commands, sync' = "clear", WorkerOf[c] \in W, wire[c] = "flying" PROVE c \in committed
    <3>1. table[c] = "none"
      BY <1>3, <2>1 DEF Blocking
    <3> QED BY <2>1, <3>1 DEF HInv, DInv, HandoffLasts
  <2> QED BY <1>3, <2>1 DEF NoneFlies, Begin, dispatch
<1>8. DInv'
  BY DispatchStays DEF HInv, Begin
<1> QED BY <1>4, <1>5, <1>6, <1>7, <1>8 DEF HInv, UInv

\* The other steps change what is said of workers, but not who is still to be
\* written, except that fewer are.
LEMMA StepKeeps ==
  ASSUME HInv, UNCHANGED <<round, sides, dispatch>>, UploadTypes', SyncTells', GoalTells', SameBranches,
         sync' \in {"clear", "preparing", "copying"} => sync \in {"clear", "preparing", "copying"},
         goal' \subseteq goal,
         \A w \in goal' : FileIsOpen(w)' => FileIsOpen(w)
  PROVE  HInv'
<1>1. SideTypes' /\ Leases' /\ WritesAreKnown' /\ OneWriterUnlessStale'
  BY SidesStay DEF HInv
<1>2. DInv'
  BY DispatchStays DEF HInv
<1>3. NoneFlies'
  BY NoneFliesStays DEF dispatch
<1> QED BY <1>1, <1>2, <1>3 DEF HInv, UInv

LEMMA SynchroniseKeeps ==
  ASSUME HInv,
         \/ \E w \in Workers : Same(w) \/ Note(w) \/ Prepare(w, "ready") \/ Prepare(w, "over") \/ Prove(w)
         \/ \E w \in Workers : Defer(w)
         \/ \E W \in SUBSET Workers : Confirm(W)
         \/ Prepared \/ End
  PROVE  HInv'
<1>1. UInv /\ UploadTypes /\ SyncTells /\ GoalTells
  BY DEF HInv, UInv
<1> USE DEF FileIsOpen
<1>2. ASSUME NEW w \in Workers, Same(w) PROVE HInv'
  <2>1. UploadTypes' /\ SyncTells'
    BY <1>1, <1>2 DEF UploadTypes, SyncTells, Same
  <2>2. GoalTells' /\ \A v \in Workers : FileIsOpen(v)' => FileIsOpen(v)
    BY <1>1, <1>2 DEF UploadTypes, SyncTells, GoalTells, Same, Ahead
  <2>3. SameBranches
    BY <1>2 DEF Same, SameBranches, Active
  <2> QED BY <1>1, <1>2, <2>1, <2>2, <2>3, StepKeeps DEF Same, UploadTypes
<1>3. ASSUME NEW w \in Workers, Note(w) PROVE HInv'
  <2>1. UploadTypes' /\ SyncTells'
    BY <1>1, <1>3 DEF UploadTypes, SyncTells, Note, BranchSteps
  <2>2. GoalTells' /\ \A v \in Workers : FileIsOpen(v)' => FileIsOpen(v)
    BY <1>1, <1>3 DEF UploadTypes, SyncTells, GoalTells, Note, Ahead
  <2>3. SameBranches
    BY <1>1, <1>3 DEF UploadTypes, Note, SameBranches, Active, ActiveSteps
  <2> QED BY <1>1, <1>3, <2>1, <2>2, <2>3, StepKeeps DEF Note, UploadTypes
<1>4. ASSUME NEW w \in Workers, NEW to \in {"ready", "over"}, Prepare(w, to) PROVE HInv'
  <2>1. UploadTypes' /\ SyncTells'
    BY <1>1, <1>4 DEF UploadTypes, SyncTells, Prepare, BranchSteps
  <2>2. GoalTells'
    BY <1>1, <1>4 DEF UploadTypes, SyncTells, GoalTells, Prepare, Ahead
  <2>3. SameBranches
    BY <1>1, <1>4 DEF UploadTypes, Prepare, SameBranches, Active, ActiveSteps
  <2> QED BY <1>1, <1>4, <2>1, <2>2, <2>3, StepKeeps DEF Prepare, UploadTypes
<1>5. ASSUME NEW w \in Workers, Prove(w) PROVE HInv'
  <2>1. sync = "copying"
    BY <1>1, <1>5 DEF UploadTypes, SyncTells, Prove
  <2>2. UploadTypes' /\ SyncTells'
    BY <1>1, <1>5, <2>1 DEF UploadTypes, SyncTells, Prove, BranchSteps
  <2>3. GoalTells' /\ \A v \in Workers : FileIsOpen(v)' => FileIsOpen(v)
    BY <1>1, <1>5, <2>1 DEF UploadTypes, GoalTells, Prove, Ahead
  <2>4. SameBranches
    BY <1>1, <1>5 DEF UploadTypes, Prove, SameBranches, Active, ActiveSteps
  <2> QED BY <1>1, <1>5, <2>2, <2>3, <2>4, StepKeeps DEF Prove, UploadTypes
<1>6. CASE Prepared
  <2>1. UploadTypes' /\ SyncTells' /\ GoalTells' /\ SameBranches
    BY <1>1, <1>6 DEF UploadTypes, SyncTells, GoalTells, Prepared, Ahead, SameBranches, Active
  <2> QED BY <1>1, <1>6, <2>1, StepKeeps DEF Prepared
<1>7. CASE End
  <2>1. UploadTypes'
    BY <1>1, <1>7, NumbersAssumption DEF UploadTypes, End, NoFile, BranchSteps
  <2>2. SyncTells' /\ GoalTells'
    BY <1>1, <1>7 DEF SyncTells, GoalTells, End, Ahead
  <2>3. SameBranches
    BY <1>1, <1>7 DEF SyncTells, End, SameBranches, Active, ActiveSteps
  <2> QED BY <1>1, <1>7, <2>1, <2>2, <2>3, StepKeeps DEF End
<1>8. ASSUME NEW W \in SUBSET Workers, Confirm(W) PROVE HInv'
  <2>1. UploadTypes' /\ SyncTells'
    BY <1>1, <1>8 DEF UploadTypes, SyncTells, Confirm, BranchSteps
  <2>2. GoalTells'
    BY <1>1, <1>8 DEF UploadTypes, SyncTells, GoalTells, Confirm, Ahead
  <2>3. SameBranches
    BY <1>1, <1>8 DEF SyncTells, Confirm, SameBranches, Active, ActiveSteps
  <2> QED BY <1>1, <1>8, <2>1, <2>2, <2>3, StepKeeps DEF Confirm
<1>9. ASSUME NEW w \in Workers, Defer(w) PROVE HInv'
  <2>1. UploadTypes' /\ SyncTells'
    BY <1>1, <1>9 DEF UploadTypes, SyncTells, Defer, BranchSteps
  <2>2. GoalTells'
    BY <1>1, <1>9 DEF UploadTypes, SyncTells, GoalTells, Defer, Ahead
  <2>3. SameBranches
    BY <1>1, <1>9 DEF UploadTypes, Defer, SameBranches, Active, ActiveSteps
  <2> QED BY <1>1, <1>9, <2>1, <2>2, <2>3, StepKeeps DEF Defer, UploadTypes
<1> QED BY <1>2, <1>3, <1>4, <1>5, <1>6, <1>7, <1>8, <1>9

-----------------------------------------------------------------------------
(* The steps under a lease.                                                *)

\* What is so while a branch has its lease.
LEMMA WhileActive ==
  ASSUME HInv, NEW w \in Workers, Active(w) \/ branch[w] \in {"ready", "queued"}
  PROVE  /\ sync \in {"preparing", "copying"} /\ round > 0
         /\ Active(w) => sync = "copying" /\ unknown[TargetOf[w]] = None
  BY TargetsAre DEF HInv, UInv, UploadTypes, SyncTells, Active, ActiveSteps, Leases, HolderIsAlone, FenceTells

\* The leases do not change.
LEMMA LeasesStay ==
  ASSUME UInv, UNCHANGED <<round, unknown, owner, fenced, queue>>,
         \A w \in Workers : (Active(w)' <=> Active(w)) /\ (branch'[w] = "queued" <=> branch[w] = "queued")
  PROVE  Leases'
<1>1. Leases /\ SideTypes
  BY DEF UInv
<1>2. FenceTells' /\ FenceIsHeld' /\ HolderIsKnown'
  BY <1>1 DEF Leases, FenceTells, FenceIsHeld, HolderIsKnown
<1>3. HolderIsAlone'
  <2>1. \A w \in Workers : Active(w)' => Active(w)
    OBVIOUS
  <2> QED BY <1>1, <2>1, TargetsAre DEF Leases, HolderIsAlone
<1>4. LineIsTrue'
  <2>1. \A t \in Targets : \A i \in DOMAIN queue[t] : queue[t][i] \in Workers
    BY <1>1 DEF SideTypes
  <2> QED BY <1>1, <2>1 DEF Leases, LineIsTrue
<1>5. LineIsWhole'
  BY <1>1 DEF Leases, LineIsWhole, Lined
<1> QED BY <1>2, <1>3, <1>4, <1>5 DEF Leases

LEMMA WriteKeeps ==
  ASSUME HInv, NEW w \in Workers, Write(w)
  PROVE  HInv' /\ \A c \in Commands : WorkerOf[c] = w /\ wire[c] = "flying" => c \in committed
<1>1. UInv /\ UploadTypes /\ SideTypes /\ SyncTells /\ GoalTells /\ Leases /\ WritesAreKnown /\ OneWriterUnlessStale
  BY DEF HInv, UInv
<1>2. Active(w) /\ sync = "copying" /\ round > 0 /\ unknown[TargetOf[w]] = None
  BY WhileActive DEF Write, Active, ActiveSteps
<1>3. Ahead(w) /\ w \in goal /\ FileIsOpen(w) /\ files[w].noted
  BY <1>1 DEF Write, Ahead, GoalTells
<1>4. UploadTypes' /\ SyncTells' /\ GoalTells'
  BY <1>1, <1>2, <1>3 DEF UploadTypes, SyncTells, GoalTells, Write, Ahead, FileIsOpen, BranchSteps
<1>5. SideTypes'
  BY <1>1, <1>2, NumbersAssumption DEF UploadTypes, SideTypes, Write
<1>6. Leases'
  <2>1. \A v \in Workers : (Active(v)' <=> Active(v)) /\ (branch'[v] = "queued" <=> branch[v] = "queued")
    BY <1>1 DEF Write, Active, ActiveSteps, UploadTypes
  <2> QED BY <1>1, <2>1, LeasesStay DEF Write
<1>7. ~stale => \A x \in remote : TargetOf[x.to] /= TargetOf[w]
  <2> SUFFICES ASSUME ~stale, NEW x \in remote, TargetOf[x.to] = TargetOf[w] PROVE FALSE
    OBVIOUS
  <2>1. x.to \in Workers
    BY <1>1 DEF SideTypes
  <2>2. Current(x)
    BY <1>1, <1>2 DEF WritesAreKnown
  <2>3. x.to = w
    BY <1>1, <1>2, <2>1, <2>2 DEF Leases, HolderIsAlone, Current, Active, ActiveSteps
  <2> QED BY <2>2, <2>3 DEF Current, Write
<1>8. WritesAreKnown'
  <2>1. \A x \in remote : Current(x) => Current(x)'
    BY <1>1 DEF Current, Write, UploadTypes, SideTypes
  <2>2. Current([id |-> round, to |-> w])'
    BY <1>1 DEF Current, Write, UploadTypes
  <2> QED BY <1>1, <2>1, <2>2 DEF WritesAreKnown, Write
<1>9. OneWriterUnlessStale'
  BY <1>1, <1>7 DEF OneWriterUnlessStale, Write
<1>10. DInv' /\ NoneFlies'
  <2>1. NoneFlies'
    BY <1>1, NoneFliesStays DEF Write, FileIsOpen, dispatch
  <2> QED BY <2>1, DispatchStays DEF HInv, Write
<1>11. \A c \in Commands : WorkerOf[c] = w /\ wire[c] = "flying" => c \in committed
  BY <1>2, <1>3 DEF HInv, NoneFlies
<1> QED BY <1>4, <1>5, <1>6, <1>8, <1>9, <1>10, <1>11 DEF HInv, UInv

LEMMA ReturnKeeps ==
  ASSUME HInv, NEW w \in Workers, Return(w)
  PROVE  HInv'
<1>1. UInv /\ UploadTypes /\ SideTypes /\ SyncTells /\ GoalTells /\ WritesAreKnown /\ OneWriterUnlessStale
  BY DEF HInv, UInv
<1>2. Active(w) /\ sync = "copying"
  BY WhileActive DEF Return, Active, ActiveSteps
<1>3. UploadTypes' /\ SyncTells' /\ GoalTells'
  BY <1>1, <1>2 DEF UploadTypes, SyncTells, GoalTells, Return, Ahead, FileIsOpen, BranchSteps
<1>4. SideTypes'
  BY <1>1 DEF SideTypes, Return
<1>5. Leases'
  <2>1. \A v \in Workers : (Active(v)' <=> Active(v)) /\ (branch'[v] = "queued" <=> branch[v] = "queued")
    BY <1>1 DEF Return, Active, ActiveSteps, UploadTypes
  <2> QED BY <1>1, <2>1, LeasesStay DEF Return
<1>6. WritesAreKnown' /\ OneWriterUnlessStale'
  <2>1. ASSUME NEW x \in remote', Current(x) PROVE Current(x)'
    <3>1. x.to \in Workers /\ x = [id |-> x.id, to |-> x.to]
      BY <1>1 DEF SideTypes, Return
    <3>2. x.to /= w
      BY <2>1, <3>1 DEF Current, Return
    <3> QED BY <1>1, <2>1, <3>1, <3>2 DEF Current, Return, UploadTypes
  <2> QED BY <1>1, <2>1 DEF WritesAreKnown, OneWriterUnlessStale, Return
<1>7. DInv' /\ NoneFlies'
  <2>1. NoneFlies'
    BY <1>1, NoneFliesStays DEF Return, FileIsOpen, dispatch
  <2> QED BY <2>1, DispatchStays DEF HInv, Return
<1> QED BY <1>3, <1>4, <1>5, <1>6, <1>7 DEF HInv, UInv

LEMMA RemoteEndsKeeps ==
  ASSUME HInv, NEW x \in remote, RemoteEnds(x)
  PROVE  HInv'
<1>1. UInv /\ UploadTypes /\ SideTypes /\ SyncTells /\ GoalTells /\ WritesAreKnown /\ OneWriterUnlessStale
  BY DEF HInv, UInv
<1>2. UploadTypes' /\ SyncTells' /\ GoalTells' /\ SideTypes'
  BY <1>1 DEF UploadTypes, SyncTells, GoalTells, SideTypes, RemoteEnds, Ahead, FileIsOpen
<1>3. Leases'
  BY <1>1, LeasesStay DEF RemoteEnds, Active
<1>4. WritesAreKnown' /\ OneWriterUnlessStale'
  BY <1>1 DEF WritesAreKnown, OneWriterUnlessStale, RemoteEnds, Current
<1>5. NoneFlies'
  BY <1>1, NoneFliesStays DEF RemoteEnds, FileIsOpen, dispatch
<1>6. DInv'
  BY DispatchStays DEF HInv, RemoteEnds
<1> QED BY <1>2, <1>3, <1>4, <1>5, <1>6 DEF HInv, UInv

-----------------------------------------------------------------------------
(* Taking a lease.                                                         *)

\* The three ways in which a branch begins.
TakesFenced(w) == LET t == TargetOf[w] IN
    /\ t \in fenced
    /\ branch' = [branch EXCEPT ![w] = "holding"]
    /\ unknown' = [unknown EXCEPT ![t] = None]
    /\ owner' = [owner EXCEPT ![t] = round]
    /\ fenced' = fenced \ {t} /\ retained' = retained \ {t}
    /\ queue' = queue
TakesFree(w) == LET t == TargetOf[w] IN
    /\ t \notin fenced /\ owner[t] = 0
    /\ branch' = [branch EXCEPT ![w] = "holding"]
    /\ owner' = [owner EXCEPT ![t] = round]
    /\ UNCHANGED <<unknown, fenced, retained, queue>>
TakesALine(w) == LET t == TargetOf[w] IN
    /\ t \notin fenced /\ owner[t] /= 0
    /\ branch' = [branch EXCEPT ![w] = "queued"]
    /\ queue' = [queue EXCEPT ![t] = Append(@, w)]
    /\ UNCHANGED <<unknown, owner, fenced, retained>>

LEMMA AcquireIs ==
  ASSUME HInv, NEW w \in Workers, Acquire(w)
  PROVE  TakesFenced(w) \/ TakesFree(w) \/ TakesALine(w)
<1>1. SideTypes /\ FenceTells /\ LineIsTrue /\ TargetOf[w] \in Targets
  BY TargetsAre DEF HInv, UInv, Leases
<1>2. CASE TargetOf[w] \in fenced
  <2>1. unknown[TargetOf[w]] /= None /\ TargetOf[w] \in retained
    BY <1>1, <1>2 DEF FenceTells, SideTypes
  <2>2. Turn(TargetOf[w], 0, FencesWithout(TargetOf[w])) = "holding"
    BY DEF Turn, FencesWithout
  <2>3. queue' = [queue EXCEPT ![TargetOf[w]] = @] /\ queue \in [Targets -> Seq(Workers)]
    BY <1>1, <2>1, <2>2 DEF Acquire, SideTypes
  <2>4. queue' = queue
    BY <2>3
  <2> QED BY <1>2, <2>1, <2>2, <2>4 DEF Acquire, TakesFenced, FencesWithout
<1>3. CASE TargetOf[w] \notin fenced
  <2>1. unknown[TargetOf[w]] = None
    BY <1>1, <1>3 DEF FenceTells
  <2>2. unknown' = unknown
    BY <1>1, <2>1 DEF Acquire, SideTypes
  <2>3. CASE owner[TargetOf[w]] = 0
    <3>1. Turn(TargetOf[w], owner[TargetOf[w]], fenced) = "holding"
      BY <1>3, <2>3 DEF Turn
    <3>2. queue' = [queue EXCEPT ![TargetOf[w]] = @] /\ queue \in [Targets -> Seq(Workers)]
      BY <1>1, <2>1, <3>1 DEF Acquire, SideTypes
    <3>3. queue' = queue
      BY <3>2
    <3> QED BY <1>3, <2>1, <2>2, <2>3, <3>1, <3>3 DEF Acquire, TakesFree
  <2>4. CASE owner[TargetOf[w]] /= 0
    <3>1. Turn(TargetOf[w], owner[TargetOf[w]], fenced) = "queued"
      BY <1>3, <2>4 DEF Turn
    <3>2. owner' = [owner EXCEPT ![TargetOf[w]] = @] /\ owner \in [Targets -> 0..MaxRounds]
      BY <1>1, <2>1, <3>1 DEF Acquire, SideTypes
    <3>3. owner' = owner
      BY <3>2
    <3> QED BY <1>3, <2>1, <2>2, <2>4, <3>1, <3>3 DEF Acquire, TakesALine
  <2> QED BY <2>3, <2>4
<1> QED BY <1>2, <1>3

LEMMA AcquireKeepsLeases ==
  ASSUME HInv, NEW w \in Workers, Acquire(w)
  PROVE  SideTypes' /\ Leases'
<1> USE TargetsAre
<1> DEFINE t == TargetOf[w]
<1>1. /\ UploadTypes /\ SideTypes /\ Leases /\ round > 0 /\ round \in 0..MaxRounds
      /\ branch[w] = "ready" /\ round' = round
      /\ t \in Targets
  BY WhileActive DEF HInv, UInv, UploadTypes, Acquire
<1>2. \A u \in Targets : \A i \in DOMAIN queue[u] :
          queue[u][i] \in Workers /\ queue[u][i] /= w /\ branch[queue[u][i]] = "queued"
  BY <1>1 DEF SideTypes, Leases, LineIsTrue
<1>3. remote' = remote /\ stale' \in BOOLEAN
  BY <1>1 DEF SideTypes, Acquire
<1>4. CASE TakesFenced(w) \/ TakesFree(w)
  <2>1. /\ branch' = [branch EXCEPT ![w] = "holding"] /\ owner' = [owner EXCEPT ![t] = round]
        /\ queue' = queue /\ fenced' = fenced \ {t} /\ retained' = retained \ {t}
        /\ unknown' = [unknown EXCEPT ![t] = None]
        /\ t \in fenced \/ owner[t] = 0
    <3>1. CASE TakesFenced(w)
      BY <3>1 DEF TakesFenced
    <3>2. CASE TakesFree(w)
      <4>1. t \notin retained /\ unknown[t] = None
        BY <1>1, <3>2 DEF TakesFree, SideTypes, Leases, FenceTells
      <4>2. unknown' = [unknown EXCEPT ![t] = None]
        BY <1>1, <3>2, <4>1 DEF TakesFree, SideTypes
      <4> QED BY <3>2, <4>1, <4>2 DEF TakesFree
    <3> QED BY <1>4, <3>1, <3>2
  <2>2. \A v \in Workers : Active(v) => TargetOf[v] /= t
    BY <1>1, <2>1 DEF Leases, HolderIsAlone
  <2>3. \A v \in Workers : branch[v] = "queued" => TargetOf[v] /= t
    BY <1>1, <2>1 DEF Leases, LineIsWhole
  <2>4. \A v \in Workers : Active(v)' <=> Active(v) \/ v = w
    BY <1>1, <2>1 DEF Active, ActiveSteps, UploadTypes
  <2>5. \A v \in Workers : branch'[v] = "queued" <=> branch[v] = "queued"
    BY <1>1, <2>1 DEF UploadTypes
  <2>6. SideTypes'
    BY <1>1, <1>3, <2>1 DEF SideTypes
  <2>7. FenceTells' /\ FenceIsHeld'
    BY <1>1, <2>1 DEF SideTypes, Leases, FenceTells, FenceIsHeld
  <2>8. HolderIsKnown' /\ HolderIsAlone'
    BY <1>1, <2>1, <2>2, <2>4 DEF SideTypes, Leases, HolderIsKnown, HolderIsAlone
  <2>9. LineIsTrue' /\ LineIsWhole'
    BY <1>1, <1>2, <2>1, <2>3, <2>5 DEF SideTypes, Leases, LineIsTrue, LineIsWhole, Lined
  <2> QED BY <2>6, <2>7, <2>8, <2>9 DEF Leases
<1>5. CASE TakesALine(w)
  <2>1. \A v \in Workers : (Active(v)' <=> Active(v)) /\ (branch'[v] = "queued" <=> branch[v] = "queued" \/ v = w)
    BY <1>1, <1>5 DEF Active, ActiveSteps, UploadTypes, TakesALine
  <2>2. SideTypes'
    BY <1>1, <1>3, <1>5 DEF SideTypes, TakesALine
  <2>3. FenceTells' /\ FenceIsHeld' /\ HolderIsKnown' /\ HolderIsAlone'
    BY <1>1, <1>5, <2>1 DEF Leases, FenceTells, FenceIsHeld, HolderIsKnown, HolderIsAlone, TakesALine
  <2>4. /\ \A u \in Targets \ {t} : queue'[u] = queue[u]
        /\ queue[t] \in Seq(Workers) /\ queue'[t] = Append(queue[t], w)
    BY <1>1, <1>5 DEF SideTypes, TakesALine
  <2>5. /\ DOMAIN queue'[t] = DOMAIN queue[t] \cup {Len(queue[t]) + 1}
        /\ \A i \in DOMAIN queue[t] : queue'[t][i] = queue[t][i] /\ i /= Len(queue[t]) + 1
        /\ queue'[t][Len(queue[t]) + 1] = w
    BY <2>4
  <2>6. LineIsTrue'
    <3>1. ASSUME NEW u \in Targets, NEW i \in DOMAIN queue'[u]
          PROVE  /\ branch'[queue'[u][i]] = "queued" /\ TargetOf[queue'[u][i]] = u
                 /\ \A k \in DOMAIN queue'[u] : queue'[u][k] = queue'[u][i] => k = i
      <4>1. CASE u /= t
        BY <1>1, <1>2, <2>1, <2>4, <3>1, <4>1 DEF Leases, LineIsTrue
      <4>2. CASE u = t
        BY <1>1, <1>2, <2>1, <2>5, <3>1, <4>2 DEF Leases, LineIsTrue
      <4> QED BY <4>1, <4>2
    <3> QED BY <3>1 DEF LineIsTrue
  <2>7. LineIsWhole'
    <3>1. ASSUME NEW v \in Workers, branch'[v] = "queued" PROVE Lined(v)'
      <4>1. CASE v = w
        BY <2>5, <4>1 DEF Lined
      <4>2. CASE v /= w
        <5>1. Lined(v)
          BY <1>1, <2>1, <3>1, <4>2 DEF Leases, LineIsWhole
        <5> QED BY <2>4, <2>5, <5>1 DEF Lined
      <4> QED BY <4>1, <4>2
    <3> QED BY <1>1, <1>5, <2>1, <3>1 DEF Leases, LineIsWhole, TakesALine
  <2> QED BY <2>2, <2>3, <2>6, <2>7 DEF Leases
<1> QED BY <1>4, <1>5, AcquireIs

LEMMA AcquireKeeps ==
  ASSUME HInv, NEW w \in Workers, Acquire(w)
  PROVE  HInv'
<1> USE TargetsAre
<1>1. /\ UInv /\ UploadTypes /\ SideTypes /\ SyncTells /\ GoalTells /\ Leases
      /\ WritesAreKnown /\ OneWriterUnlessStale
      /\ round' = round /\ goal' = goal /\ sync' = sync /\ sync = "copying" /\ branch[w] = "ready"
      /\ TargetOf[w] \in Targets
  BY DEF HInv, UInv, Acquire
<1>2. PICK to \in {"holding", "queued"} : branch' = [branch EXCEPT ![w] = to]
  BY AcquireIs DEF TakesFenced, TakesFree, TakesALine
<1>3. files' = [v \in Workers |-> IF v = unknown[TargetOf[w]] /\ files[v].state = "unknown" THEN NoFile ELSE files[v]]
  BY DEF Acquire
<1>4. UploadTypes' /\ SyncTells'
  BY <1>1, <1>2, <1>3, NumbersAssumption DEF UploadTypes, SyncTells, NoFile, BranchSteps
<1>5. \A v \in Workers : (FileIsOpen(v)' <=> FileIsOpen(v)) /\ (FileIsOpen(v) => files'[v] = files[v])
  BY <1>1, <1>3 DEF UploadTypes, FileIsOpen, NoFile
<1>6. GoalTells'
  BY <1>1, <1>2, <1>5 DEF UploadTypes, GoalTells, Ahead
<1>7. WritesAreKnown' /\ OneWriterUnlessStale'
  <2>1. /\ remote' = remote /\ (stale => stale')
        /\ ~stale' => unknown[TargetOf[w]] = None \/ \A x \in remote : TargetOf[x.to] /= TargetOf[w]
        /\ \A u \in Targets : u /= TargetOf[w] => unknown'[u] = unknown[u]
    BY <1>1 DEF Acquire, SideTypes
  <2>2. ASSUME NEW x \in remote, Current(x) PROVE Current(x)'
    BY <1>1, <1>2, <2>2 DEF Current, UploadTypes, SideTypes
  <2>3. \A x \in remote : TargetOf[x.to] \in Targets
    BY <1>1 DEF SideTypes
  <2> QED BY <1>1, <2>1, <2>2, <2>3 DEF WritesAreKnown, OneWriterUnlessStale
<1>8. NoneFlies'
  BY <1>1, <1>5, NoneFliesStays DEF Acquire, dispatch
<1>9. DInv'
  BY DispatchStays DEF HInv, Acquire
<1> QED BY <1>4, <1>6, <1>7, <1>8, <1>9, AcquireKeepsLeases DEF HInv, UInv

-----------------------------------------------------------------------------
(* Losing and giving back a lease.                                         *)

LEMMA LoseKeepsLeases ==
  ASSUME HInv, NEW w \in Workers, NEW cancelled \in BOOLEAN, Lose(w, cancelled)
  PROVE  SideTypes' /\ Leases' /\ \A v \in WokenByFence(TargetOf[w]) : branch[v] = "queued"
<1> USE TargetsAre
<1> DEFINE t == TargetOf[w]
<1>1. UploadTypes /\ SideTypes /\ Leases /\ t \in Targets /\ branch[w] = "writing" /\ round' = round
  BY DEF HInv, UInv, Lose
<1>2. \A u \in Targets : \A i \in DOMAIN queue[u] :
          queue[u][i] \in Workers /\ TargetOf[queue[u][i]] = u /\ branch[queue[u][i]] = "queued"
  BY <1>1 DEF SideTypes, Leases, LineIsTrue
<1>3. /\ unknown' = [unknown EXCEPT ![t] = w] /\ fenced' = fenced \cup {t} /\ retained' = retained \cup {t}
      /\ queue' = [queue EXCEPT ![t] = <<>>] /\ UNCHANGED <<owner, remote, stale>>
      /\ branch' = [v \in Workers |-> IF v \in WokenByFence(t) \cup {w} THEN "over" ELSE branch[v]]
  BY DEF Lose
<1>4. \A v \in WokenByFence(t) : v \in Workers /\ branch[v] = "queued" /\ TargetOf[v] = t
  BY <1>1, <1>2 DEF WokenByFence
<1>5. \A v \in Workers : branch[v] = "queued" /\ TargetOf[v] = t => v \in WokenByFence(t)
  BY <1>1 DEF WokenByFence, Leases, LineIsWhole, Lined
<1>6. \A v \in Workers : Active(v)' <=> Active(v) /\ v /= w
  BY <1>3, <1>4 DEF Active, ActiveSteps
<1>7. \A v \in Workers : branch'[v] = "queued" <=> branch[v] = "queued" /\ TargetOf[v] /= t
  BY <1>1, <1>3, <1>4, <1>5
<1>8. Active(w) /\ owner[t] /= 0 /\ \A v \in Workers : Active(v)' => TargetOf[v] /= t
  BY <1>1, <1>6 DEF Active, ActiveSteps, UploadTypes, Leases, HolderIsAlone
<1>9. SideTypes'
  BY <1>1, <1>3 DEF SideTypes
<1>10. FenceTells' /\ FenceIsHeld'
  BY <1>1, <1>3, <1>8, WorkersAssumption DEF SideTypes, Leases, FenceTells, FenceIsHeld
<1>11. HolderIsKnown' /\ HolderIsAlone'
  BY <1>1, <1>3, <1>6, <1>8 DEF Leases, HolderIsKnown, HolderIsAlone
<1>12. /\ \A u \in Targets \ {t} : queue'[u] = queue[u]
       /\ queue'[t] = <<>>
  BY <1>1, <1>3 DEF SideTypes
<1>13. LineIsTrue' /\ LineIsWhole'
  <2>1. ASSUME NEW u \in Targets, NEW i \in DOMAIN queue'[u]
        PROVE  /\ branch'[queue'[u][i]] = "queued" /\ TargetOf[queue'[u][i]] = u
               /\ \A k \in DOMAIN queue'[u] : queue'[u][k] = queue'[u][i] => k = i
    BY <1>1, <1>2, <1>7, <1>12, <2>1 DEF Leases, LineIsTrue
  <2>2. ASSUME NEW v \in Workers, branch'[v] = "queued"
        PROVE  Lined(v)' /\ owner'[TargetOf[v]] /= 0 /\ TargetOf[v] \notin fenced'
    BY <1>1, <1>3, <1>7, <1>12, <2>2 DEF Leases, LineIsWhole, Lined
  <2> QED BY <2>1, <2>2 DEF LineIsTrue, LineIsWhole
<1> QED BY <1>4, <1>9, <1>10, <1>11, <1>13 DEF Leases

LEMMA LoseKeeps ==
  ASSUME HInv, NEW w \in Workers, NEW cancelled \in BOOLEAN, Lose(w, cancelled)
  PROVE  HInv'
<1> USE TargetsAre
<1>1. /\ UInv /\ UploadTypes /\ SideTypes /\ SyncTells /\ GoalTells
      /\ WritesAreKnown /\ OneWriterUnlessStale
      /\ round' = round /\ goal' = goal /\ sync' = sync /\ branch[w] = "writing"
      /\ TargetOf[w] \in Targets
  BY DEF HInv, UInv, Lose
<1>2. sync = "copying"
  BY <1>1, WhileActive DEF Active, ActiveSteps
<1>3. /\ \E state \in {files[w].state, "unknown"} : files' = [files EXCEPT ![w] = [@ EXCEPT !.state = state]]
      /\ branch' = [v \in Workers |-> IF v \in WokenByFence(TargetOf[w]) \cup {w} THEN "over" ELSE branch[v]]
  <2>1. CASE cancelled
    BY <2>1 DEF Lose
  <2>2. CASE ~cancelled
    BY <2>2 DEF Lose
  <2> QED BY <2>1, <2>2 DEF Lose
<1>4. UploadTypes'
  BY <1>1, <1>3 DEF UploadTypes, BranchSteps
<1>5. SyncTells' /\ GoalTells'
  BY <1>1, <1>2, <1>3 DEF UploadTypes, SyncTells, GoalTells, Ahead, FileIsOpen
<1>6. WritesAreKnown' /\ OneWriterUnlessStale'
  <2>1. UNCHANGED <<remote, stale>> /\ unknown' = [unknown EXCEPT ![TargetOf[w]] = w] /\ w /= None
    BY WorkersAssumption DEF Lose
  <2>2. ASSUME NEW x \in remote, Current(x), x.to /= w PROVE Current(x)'
    BY <1>1, <1>3, <2>2, LoseKeepsLeases DEF Current, SideTypes
  <2>3. \A x \in remote : TargetOf[x.to] \in Targets
    BY <1>1 DEF SideTypes
  <2> QED BY <1>1, <2>1, <2>2, <2>3 DEF WritesAreKnown, OneWriterUnlessStale, SideTypes
<1>7. NoneFlies'
  <2>1. \A v \in Workers : FileIsOpen(v)' => FileIsOpen(v)
    BY <1>1, <1>3 DEF UploadTypes, GoalTells, Ahead, FileIsOpen
  <2> QED BY <1>1, <2>1, NoneFliesStays DEF Lose, dispatch, UploadTypes
<1>8. DInv'
  BY DispatchStays DEF HInv, Lose
<1> QED BY <1>4, <1>5, <1>6, <1>7, <1>8, LoseKeepsLeases DEF HInv, UInv

\* The branch that gets a lease next, if one waits for it.
IsHead(h, t) == queue[t] /= <<>> /\ h = Head(queue[t])

LEMMA FinishKeepsLeases ==
  ASSUME HInv, NEW w \in Workers, Active(w), branch[w] /= "writing", NEW result, Finish(w, result)
  PROVE  SideTypes' /\ Leases' /\ \A h \in Workers : IsHead(h, TargetOf[w]) => branch[h] = "queued"
<1> USE TargetsAre
<1> DEFINE t == TargetOf[w]
<1>1. /\ UploadTypes /\ SideTypes /\ Leases /\ t \in Targets /\ round' = round
      /\ round \in 0..MaxRounds /\ round > 0 /\ t \notin fenced
  BY WhileActive DEF HInv, UInv, UploadTypes, Finish, Leases, HolderIsAlone
<1>2. \A u \in Targets : \A i \in DOMAIN queue[u] :
          /\ queue[u][i] \in Workers /\ TargetOf[queue[u][i]] = u /\ branch[queue[u][i]] = "queued"
          /\ \A k \in DOMAIN queue[u] : queue[u][k] = queue[u][i] => k = i
  BY <1>1 DEF SideTypes, Leases, LineIsTrue
<1>3. /\ UNCHANGED <<unknown, fenced, retained, remote, stale>>
      /\ owner' = [owner EXCEPT ![t] = IF queue[t] = <<>> THEN 0 ELSE round]
      /\ queue' = [queue EXCEPT ![t] = IF @ = <<>> THEN @ ELSE Tail(@)]
      /\ branch' = [v \in Workers |-> IF v = w THEN "over"
                                      ELSE IF queue[t] /= <<>> /\ v = Head(queue[t]) THEN "holding" ELSE branch[v]]
  BY DEF Finish
<1>4. \A v \in Workers : Active(v) /\ TargetOf[v] = t => v = w
  BY <1>1 DEF Leases, HolderIsAlone
<1>5. FenceTells'
  BY <1>1, <1>3 DEF Leases, FenceTells
<1>6. FenceIsHeld'
  BY <1>1, <1>3 DEF Leases, FenceIsHeld, SideTypes
<1>7. CASE queue[t] = <<>>
  <2>1. queue' = queue /\ owner' = [owner EXCEPT ![t] = 0]
    <3>1. queue' = [queue EXCEPT ![t] = @] /\ queue \in [Targets -> Seq(Workers)]
      BY <1>1, <1>3, <1>7 DEF SideTypes
    <3> QED BY <1>3, <1>7, <3>1
  <2>2. \A v \in Workers : /\ Active(v)' <=> Active(v) /\ v /= w
                           /\ branch'[v] = "queued" <=> branch[v] = "queued"
    BY <1>1, <1>3, <1>7 DEF Active, ActiveSteps
  <2>3. \A v \in Workers : branch[v] = "queued" => TargetOf[v] /= t
    BY <1>1, <1>7 DEF Leases, LineIsWhole, Lined
  <2>4. SideTypes'
    BY <1>1, <1>3, <2>1, NumbersAssumption DEF SideTypes
  <2>5. HolderIsKnown' /\ HolderIsAlone'
    BY <1>1, <1>3, <1>4, <2>1, <2>2 DEF SideTypes, Leases, HolderIsKnown, HolderIsAlone
  <2>6. LineIsTrue' /\ LineIsWhole'
    BY <1>1, <1>2, <1>3, <2>1, <2>2, <2>3 DEF SideTypes, Leases, LineIsTrue, LineIsWhole, Lined
  <2> QED BY <1>5, <1>6, <1>7, <2>4, <2>5, <2>6 DEF Leases, IsHead
<1>8. CASE queue[t] /= <<>>
  <2> DEFINE h == Head(queue[t])
  <2>1. queue[t] \in Seq(Workers) /\ 1 \in DOMAIN queue[t] /\ h = queue[t][1]
    BY <1>1, <1>8 DEF SideTypes
  <2>2. h \in Workers /\ TargetOf[h] = t /\ branch[h] = "queued" /\ h /= w
    BY <1>1, <1>2, <2>1 DEF Active, ActiveSteps
  <2>3. /\ owner' = [owner EXCEPT ![t] = round] /\ queue' = [queue EXCEPT ![t] = Tail(queue[t])]
        /\ Tail(queue[t]) \in Seq(Workers)
    BY <1>3, <1>8, <2>1
  <2>4. \A v \in Workers : /\ Active(v)' <=> (Active(v) /\ v /= w) \/ v = h
                           /\ branch'[v] = "queued" <=> branch[v] = "queued" /\ v /= h
    BY <1>3, <1>8, <2>2 DEF Active, ActiveSteps
  <2>5. SideTypes'
    BY <1>1, <1>3, <2>3 DEF SideTypes
  <2>6. HolderIsKnown' /\ HolderIsAlone'
    BY <1>1, <1>3, <1>4, <2>2, <2>3, <2>4 DEF SideTypes, Leases, HolderIsKnown, HolderIsAlone
  <2>7. /\ \A u \in Targets \ {t} : queue'[u] = queue[u]
        /\ queue'[t] = Tail(queue[t])
    BY <1>1, <2>3 DEF SideTypes
  <2>8. /\ \A i \in DOMAIN queue'[t] : i + 1 \in DOMAIN queue[t] /\ queue'[t][i] = queue[t][i + 1] /\ i + 1 /= 1
        /\ \A i \in DOMAIN queue[t] : i /= 1 => i - 1 \in DOMAIN queue'[t] /\ queue'[t][i - 1] = queue[t][i]
    BY <1>8, <2>1, <2>7
  <2>9. LineIsTrue'
    <3>1. ASSUME NEW u \in Targets, NEW i \in DOMAIN queue'[u]
          PROVE  /\ branch'[queue'[u][i]] = "queued" /\ TargetOf[queue'[u][i]] = u
                 /\ \A k \in DOMAIN queue'[u] : queue'[u][k] = queue'[u][i] => k = i
      <4>1. CASE u /= t
        BY <1>2, <2>2, <2>4, <2>7, <3>1, <4>1
      <4>2. CASE u = t
        <5>1. \A k \in DOMAIN queue'[t] : k \in Nat
          BY <2>1, <2>7
        <5>2. queue[t][i + 1] /= h
          BY <1>1, <1>2, <2>1, <2>8, <3>1, <4>2
        <5> QED BY <1>1, <1>2, <2>4, <2>8, <3>1, <4>2, <5>1, <5>2
      <4> QED BY <4>1, <4>2
    <3> QED BY <3>1 DEF LineIsTrue
  <2>10. LineIsWhole'
    <3>1. ASSUME NEW v \in Workers, branch'[v] = "queued"
          PROVE  Lined(v)' /\ owner'[TargetOf[v]] /= 0 /\ TargetOf[v] \notin fenced'
      <4>1. v /= h /\ Lined(v) /\ owner[TargetOf[v]] /= 0 /\ TargetOf[v] \notin fenced
        BY <1>1, <2>4, <3>1 DEF Leases, LineIsWhole
      <4>2. Lined(v)'
        <5>1. PICK i \in DOMAIN queue[TargetOf[v]] : queue[TargetOf[v]][i] = v
          BY <4>1 DEF Lined
        <5>2. CASE TargetOf[v] = t
          <6>1. i /= 1
            BY <2>1, <4>1, <5>1, <5>2
          <6> QED BY <2>8, <5>1, <5>2, <6>1 DEF Lined
        <5>3. CASE TargetOf[v] /= t
          BY <2>7, <5>1, <5>3 DEF Lined
        <5> QED BY <5>2, <5>3
      <4> QED BY <1>1, <1>3, <2>3, <4>1, <4>2 DEF SideTypes
    <3> QED BY <3>1 DEF LineIsWhole
  <2> QED BY <1>5, <1>6, <2>2, <2>5, <2>6, <2>9, <2>10 DEF Leases, IsHead
<1> QED BY <1>7, <1>8

LEMMA FinishKeeps ==
  ASSUME HInv, NEW w \in Workers, Release(w) \/ Fail(w)
  PROVE  HInv'
<1> USE TargetsAre
<1>1. /\ UInv /\ UploadTypes /\ SideTypes /\ SyncTells /\ GoalTells
      /\ WritesAreKnown /\ OneWriterUnlessStale
      /\ TargetOf[w] \in Targets
  BY DEF HInv, UInv
<1>2. Active(w) /\ branch[w] /= "writing" /\ sync = "copying"
  BY WhileActive DEF Release, Fail, Active, ActiveSteps
<1>3. PICK result \in {"unknown", files[w].state} : Finish(w, result)
  BY DEF Release, Fail
<1>4. SideTypes' /\ Leases' /\ \A h \in Workers : IsHead(h, TargetOf[w]) => branch[h] = "queued"
  BY <1>2, <1>3, FinishKeepsLeases
<1>5. /\ files' = [files EXCEPT ![w] = [@ EXCEPT !.state = result]]
      /\ branch' = [v \in Workers |-> IF v = w THEN "over" ELSE IF IsHead(v, TargetOf[w]) THEN "holding" ELSE branch[v]]
      /\ UNCHANGED <<sync, round, goal, unknown, remote, stale, dispatch>>
  BY <1>3 DEF Finish, IsHead
<1>6. UploadTypes'
  BY <1>1, <1>5 DEF UploadTypes, BranchSteps
<1>7. SyncTells' /\ GoalTells'
  BY <1>1, <1>2, <1>4, <1>5 DEF UploadTypes, SyncTells, GoalTells, Ahead, FileIsOpen
<1>8. WritesAreKnown' /\ OneWriterUnlessStale'
  <2>1. ASSUME NEW x \in remote, Current(x) PROVE Current(x)'
    BY <1>1, <1>2, <1>4, <1>5, <2>1 DEF Current, SideTypes
  <2> QED BY <1>1, <1>5, <2>1 DEF WritesAreKnown, OneWriterUnlessStale
<1>9. NoneFlies'
  <2>1. \A v \in Workers : FileIsOpen(v)' => FileIsOpen(v)
    BY <1>1, <1>5 DEF UploadTypes, FileIsOpen
  <2> QED BY <1>1, <1>5, <2>1, NoneFliesStays DEF dispatch, UploadTypes
<1>10. DInv'
  BY <1>5, DispatchStays DEF HInv
<1> QED BY <1>4, <1>6, <1>7, <1>8, <1>9, <1>10 DEF HInv, UInv

-----------------------------------------------------------------------------
(* The steps of the dispatch.                                              *)

\* All that they do to the synchronisation is to end its wait.
Wakes ==
    /\ UNCHANGED <<round, goal, branch, files, sides>>
    /\ \/ sync' = sync
       \/ sync = "waiting" /\ sync' = "clear" /\ Blocking(goal, table') = {}

LEMMA WakesKeepsUploads ==
  ASSUME UInv, Wakes
  PROVE  UInv'
<1>1. UploadTypes' /\ SyncTells' /\ GoalTells'
  BY DEF UInv, Wakes, UploadTypes, SyncTells, GoalTells, Ahead, FileIsOpen
<1>2. SameBranches
  BY DEF Wakes, SameBranches, Active
<1> QED BY <1>1, <1>2, SidesStay DEF Wakes, UInv

LEMMA WakingIs ==
  ASSUME sync' = Woken(table'), UNCHANGED <<round, goal, branch, files, sides>>
  PROVE  Wakes
  BY DEF Woken, Wakes

\* A step that starts no request leaves nothing new to fly.
LEMMA WakesKeepsNoneFlies ==
  ASSUME HInv, Wakes, DInv', committed \subseteq committed',
         \A c \in Commands : wire'[c] = "flying" => wire[c] = "flying"
  PROVE  NoneFlies'
<1> SUFFICES ASSUME NEW c \in Commands, sync' \in {"clear", "preparing", "copying"},
                    WorkerOf[c] \in goal, FileIsOpen(WorkerOf[c])', wire'[c] = "flying"
             PROVE  c \in committed'
  BY DEF NoneFlies, Wakes
<1>1. FileIsOpen(WorkerOf[c]) /\ wire[c] = "flying"
  BY DEF FileIsOpen, Wakes
<1>2. CASE sync' = sync
  BY <1>1, <1>2 DEF HInv, NoneFlies
<1>3. CASE Blocking(goal, table') = {}
  <2>1. table'[c] = "none"
    BY <1>3 DEF Blocking
  <2> QED BY <2>1 DEF DInv, HandoffLasts
<1> QED BY <1>2, <1>3 DEF Wakes

LEMMA RegisterKeeps ==
  ASSUME HInv, NEW C \in SUBSET Commands, Register(C) \/ Admit(C)
  PROVE  HInv'
<1>1. Wakes /\ UNCHANGED <<wire, committed>>
  BY DEF Register, Admit, Wakes, uploads
<1>2. DInv'
  BY DEF HInv, DInv, DispatchTypes, HandoffLasts, BatchIsFresh, Register, Admit
<1> QED BY <1>1, <1>2, WakesKeepsUploads, WakesKeepsNoneFlies DEF HInv

LEMMA SendKeeps ==
  ASSUME HInv, NEW c \in Commands, Send(c)
  PROVE  HInv' /\ (~stale => \A x \in remote : TargetOf[x.to] /= TargetOf[WorkerOf[c]])
<1> USE TargetsAre, WorkersAssumption
<1> DEFINE w == WorkerOf[c]
<1>1. Wakes /\ w \in Workers
  BY DEF Send, Wakes, uploads
<1>2. DInv'
  <2>1. phase = "admitting" => c \notin batch
    BY DEF HInv, DInv, BatchIsFresh, Send, MaySend
  <2> QED BY <2>1 DEF HInv, DInv, DispatchTypes, HandoffLasts, BatchIsFresh, Send
<1>3. ~(w \in goal /\ FileIsOpen(w)) /\ unknown[TargetOf[w]] = None /\ (goal = {} \/ ~AliasBusy(w))
  BY DEF HInv, UInv, UploadTypes, Send, UploadBlocks, FileIsOpen
<1>4. NoneFlies'
  BY <1>3 DEF HInv, NoneFlies, Send, uploads, FileIsOpen, DInv, DispatchTypes
<1>5. ASSUME ~stale, NEW x \in remote, TargetOf[x.to] = TargetOf[w] PROVE FALSE
  <2>1. x.to \in Workers
    BY DEF HInv, UInv, SideTypes
  <2>2. branch[x.to] = "writing"
    BY <1>3, <1>5 DEF HInv, UInv, WritesAreKnown, Current
  <2>3. x.to \in goal /\ FileIsOpen(x.to) /\ files[x.to].noted
    BY <2>1, <2>2 DEF HInv, UInv, GoalTells, Ahead
  <2>4. x.to /= w
    BY <1>3, <2>3
  <2>5. AliasBusy(w)
    BY <1>5, <2>1, <2>3, <2>4 DEF AliasBusy, FileIsOpen
  <2> QED BY <1>3, <2>3, <2>5
<1> QED BY <1>1, <1>2, <1>4, <1>5, WakesKeepsUploads DEF HInv

LEMMA JobKeeps ==
  ASSUME HInv, NEW c \in Commands, Claim(c) \/ Unsent(c) \/ Settle(c)
  PROVE  HInv' /\ UNCHANGED <<branch, remote>> /\ \A d \in Commands : wire'[d] = "flying" => wire[d] = "flying"
<1>1. CASE Claim(c)
  <2>1. Wakes /\ UNCHANGED <<wire, committed>>
    BY <1>1 DEF Claim, Wakes, uploads
  <2>2. DInv'
    BY <1>1 DEF HInv, DInv, DispatchTypes, HandoffLasts, BatchIsFresh, Claim
  <2> QED BY <2>1, <2>2, WakesKeepsUploads, WakesKeepsNoneFlies DEF HInv, Wakes, sides
<1>2. CASE Unsent(c)
  <2>1. Wakes /\ UNCHANGED <<wire, committed>>
    BY <1>2, WakingIs DEF Unsent
  <2>2. DInv'
    <3>1. phase = "admitting" => c \notin batch
      BY <1>2 DEF HInv, DInv, BatchIsFresh, Unsent, MaySend
    <3> QED BY <1>2, <3>1 DEF HInv, DInv, DispatchTypes, HandoffLasts, BatchIsFresh, Unsent, MaySend
  <2> QED BY <2>1, <2>2, WakesKeepsUploads, WakesKeepsNoneFlies DEF HInv, Wakes, sides
<1>3. CASE Settle(c)
  <2>1. Wakes /\ committed' = committed
    BY <1>3 DEF Settle, Wakes, uploads
  <2>2. DInv' /\ \A d \in Commands : wire'[d] = "flying" => wire[d] = "flying"
    BY <1>3 DEF HInv, DInv, DispatchTypes, HandoffLasts, BatchIsFresh, Settle
  <2> QED BY <2>1, <2>2, WakesKeepsUploads, WakesKeepsNoneFlies DEF HInv, Wakes, sides
<1> QED BY <1>1, <1>2, <1>3

LEMMA EndsKeep ==
  ASSUME HInv, Commit \/ EndRound \/ \E w \in Workers : Observe(w)
  PROVE  HInv' /\ UNCHANGED <<branch, remote, wire>>
<1>1. Wakes /\ UNCHANGED <<wire, branch, remote>> /\ committed \subseteq committed'
  BY WakingIs DEF Commit, EndRound, Observe, sides
<1>2. DInv'
  <2>1. CASE Commit
    BY <2>1 DEF HInv, DInv, DispatchTypes, HandoffLasts, BatchIsFresh, Commit
  <2>2. CASE EndRound
    BY <2>2 DEF HInv, DInv, DispatchTypes, HandoffLasts, BatchIsFresh, EndRound, Droppable
  <2>3. ASSUME NEW w \in Workers, Observe(w) PROVE DInv'
    BY <2>3 DEF HInv, DInv, DispatchTypes, HandoffLasts, BatchIsFresh, Observe
  <2> QED BY <2>1, <2>2, <2>3
<1> QED BY <1>1, <1>2, WakesKeepsUploads, WakesKeepsNoneFlies DEF HInv

-----------------------------------------------------------------------------
(* The theorems.                                                           *)

LEMMA InitIsRight == Init => HInv
<1> SUFFICES ASSUME Init PROVE HInv
  OBVIOUS
<1> USE NumbersAssumption
<1>1. UploadTypes
  BY DEF Init, UploadTypes, NoFile, BranchSteps
<1>2. SideTypes
  <2>1. queue \in [Targets -> Seq(Workers)]
    <3>1. <<>> \in Seq(Workers)
      OBVIOUS
    <3> QED BY <3>1 DEF Init
  <2>2. unknown \in [Targets -> Workers \cup {None}] /\ owner \in [Targets -> 0..MaxRounds]
    BY DEF Init
  <2>3. fenced \subseteq Targets /\ retained = fenced /\ remote \subseteq [id : 1..MaxRounds, to : Workers]
        /\ stale \in BOOLEAN
    BY DEF Init
  <2> QED BY <2>1, <2>2, <2>3 DEF SideTypes
<1>3. SyncTells /\ GoalTells
  BY DEF Init, SyncTells, GoalTells, Ahead
<1>4. Leases /\ WritesAreKnown /\ OneWriterUnlessStale
  BY TargetsAre DEF Init, Leases, FenceTells, HolderIsKnown, HolderIsAlone, FenceIsHeld, LineIsTrue,
     LineIsWhole, WritesAreKnown, OneWriterUnlessStale, Active, ActiveSteps
<1>5. DInv /\ NoneFlies
  BY DEF Init, DInv, DispatchTypes, HandoffLasts, BatchIsFresh, NoneFlies
<1> QED BY <1>1, <1>2, <1>3, <1>4, <1>5 DEF HInv, UInv

\* What a step keeps, and what it may not do.
Kept == HInv' /\ (\A c \in Commands : SentInPeace(c)) /\ (\A w \in Workers : WrittenInPeace(w))

LEMMA NothingBegins ==
  ASSUME HInv', \A c \in Commands : wire'[c] = "flying" => wire[c] = "flying",
         \A w \in Workers : branch'[w] = "writing" => branch[w] = "writing"
  PROVE  Kept
  BY DEF Kept, SentInPeace, WrittenInPeace

LEMMA StepsAreKept == HInv /\ [Next]_vars => Kept
<1> SUFFICES ASSUME HInv, [Next]_vars PROVE Kept
  OBVIOUS
<1>0. branch \in [Workers -> BranchSteps]
  BY DEF HInv, UInv, UploadTypes
<1>1. ASSUME NEW W \in SUBSET Workers, Begin(W) PROVE Kept
  BY <1>1, BeginKeeps, NothingBegins DEF Begin, dispatch
<1>2. ASSUME NEW W \in SUBSET Workers, Confirm(W) PROVE Kept
  <2>1. HInv'
    BY <1>2, SynchroniseKeeps
  <2> QED BY <1>2, <2>1, NothingBegins DEF Confirm, dispatch
<1>3. ASSUME NEW w \in Workers, Same(w) \/ Note(w) \/ Prepare(w, "ready") \/ Prepare(w, "over") \/ Prove(w)
      PROVE Kept
  <2>1. HInv'
    BY <1>3, SynchroniseKeeps
  <2>2. UNCHANGED wire /\ \A v \in Workers : branch'[v] = "writing" => branch[v] = "writing"
    BY <1>0, <1>3 DEF Same, Note, Prepare, Prove, dispatch
  <2> QED BY <2>1, <2>2, NothingBegins
<1>16. ASSUME NEW w \in Workers, Defer(w) PROVE Kept
  <2>1. HInv'
    BY <1>16, SynchroniseKeeps
  <2>2. UNCHANGED wire /\ \A v \in Workers : branch'[v] = "writing" => branch[v] = "writing"
    BY <1>0, <1>16 DEF Defer, dispatch
  <2> QED BY <2>1, <2>2, NothingBegins
<1>4. ASSUME NEW w \in Workers, Acquire(w) PROVE Kept
  <2>1. UNCHANGED wire /\ \A v \in Workers : branch'[v] = "writing" => branch[v] = "writing"
    BY <1>0, <1>4, AcquireIs DEF Acquire, dispatch, TakesFenced, TakesFree, TakesALine
  <2> QED BY <1>4, <2>1, AcquireKeeps, NothingBegins
<1>5. ASSUME NEW w \in Workers, Write(w) PROVE Kept
  <2>1. UNCHANGED wire /\ \A v \in Workers : branch'[v] = "writing" => branch[v] = "writing" \/ v = w
    BY <1>0, <1>5 DEF Write, dispatch
  <2> QED BY <1>5, <2>1, WriteKeeps DEF Kept, SentInPeace, WrittenInPeace
<1>6. ASSUME NEW w \in Workers, Return(w) PROVE Kept
  BY <1>0, <1>6, ReturnKeeps, NothingBegins DEF Return, dispatch
<1>7. ASSUME NEW w \in Workers, NEW cancelled \in BOOLEAN, Lose(w, cancelled) PROVE Kept
  <2>1. UNCHANGED wire /\ \A v \in Workers : branch'[v] = "writing" => branch[v] = "writing"
    BY <1>0, <1>7 DEF Lose, dispatch
  <2> QED BY <1>7, <2>1, LoseKeeps, NothingBegins
<1>8. ASSUME NEW w \in Workers, Release(w) \/ Fail(w) PROVE Kept
  <2>1. UNCHANGED wire /\ \A v \in Workers : branch'[v] = "writing" => branch[v] = "writing"
    BY <1>0, <1>8 DEF Release, Fail, Finish, dispatch
  <2> QED BY <1>8, <2>1, FinishKeeps, NothingBegins
<1>9. CASE Prepared \/ End
  <2>1. UNCHANGED wire /\ \A v \in Workers : branch'[v] = "writing" => branch[v] = "writing"
    BY <1>0, <1>9 DEF Prepared, End, dispatch
  <2>2. HInv'
    BY <1>9, SynchroniseKeeps
  <2> QED BY <2>1, <2>2, NothingBegins
<1>10. ASSUME NEW x \in remote, RemoteEnds(x) PROVE Kept
  BY <1>10, RemoteEndsKeeps, NothingBegins DEF RemoteEnds, dispatch
<1>11. ASSUME NEW C \in SUBSET Commands, Register(C) \/ Admit(C) PROVE Kept
  <2>1. UNCHANGED <<wire, branch>>
    BY <1>11 DEF Register, Admit, uploads
  <2> QED BY <1>11, <2>1, RegisterKeeps, NothingBegins
<1>12. ASSUME NEW c \in Commands, Send(c) PROVE Kept
  <2>1. UNCHANGED branch /\ \A d \in Commands : wire'[d] = "flying" => wire[d] = "flying" \/ d = c
    BY <1>12 DEF Send, uploads, HInv, DInv, DispatchTypes
  <2> QED BY <1>12, <2>1, SendKeeps DEF Kept, SentInPeace, WrittenInPeace
<1>13. ASSUME NEW c \in Commands, Claim(c) \/ Unsent(c) \/ Settle(c) PROVE Kept
  BY <1>13, JobKeeps, NothingBegins
<1>14. CASE Commit \/ EndRound \/ \E w \in Workers : Observe(w)
  BY <1>14, EndsKeep, NothingBegins
<1>15. CASE UNCHANGED vars
  <2>1. UNCHANGED <<sync, round, goal, branch, files, sides, dispatch>>
    BY <1>15 DEF vars, uploads
  <2>2. UInv'
    BY <2>1, WakesKeepsUploads DEF HInv, Wakes
  <2>3. DInv' /\ NoneFlies' /\ UNCHANGED wire
    BY <2>1, DispatchStays DEF HInv, NoneFlies, FileIsOpen, dispatch
  <2> QED BY <2>1, <2>2, <2>3, NothingBegins DEF HInv
<1> QED BY <1>1, <1>2, <1>3, <1>4, <1>5, <1>6, <1>7, <1>8, <1>9, <1>10, <1>11, <1>12, <1>13, <1>14, <1>15, <1>16
        DEF Next, Synchronise, Dispatch

LEMMA AlwaysRight == Spec => []HInv
  BY InitIsRight, StepsAreKept, PTL DEF Spec, Kept

\* Every variable has its type, and a fence is on a held lease whose write is
\* unknown, with no branch behind it (fenceTargetLease()).
THEOREM TypesHold == Spec => []TypeOK
<1>1. HInv => TypeOK
  <2> SUFFICES ASSUME HInv PROVE TypeOK
    OBVIOUS
  <2>1. UploadTypes /\ SideTypes /\ DispatchTypes /\ Leases
    BY DEF HInv, UInv, DInv
  <2>2. ASSUME NEW t \in fenced PROVE owner[t] /= 0 /\ unknown[t] /= None /\ queue[t] = <<>>
    <3>1. t \in Targets /\ owner[t] /= 0 /\ unknown[t] /= None
      BY <2>1 DEF SideTypes, Leases, FenceTells, FenceIsHeld
    <3>2. DOMAIN queue[t] = {}
      <4>1. SUFFICES ASSUME NEW i \in DOMAIN queue[t] PROVE FALSE
        OBVIOUS
      <4>2. queue[t][i] \in Workers /\ branch[queue[t][i]] = "queued" /\ TargetOf[queue[t][i]] = t
        BY <2>1, <3>1 DEF SideTypes, Leases, LineIsTrue
      <4> QED BY <2>1, <4>2 DEF Leases, LineIsWhole
    <3>3. queue[t] = <<>>
      <4>1. queue[t] \in Seq(Workers)
        BY <2>1, <3>1 DEF SideTypes
      <4>2. Len(queue[t]) \in Nat /\ (Len(queue[t]) /= 0 => 1 \in DOMAIN queue[t])
        BY <4>1
      <4>3. Len(queue[t]) = 0
        BY <3>2, <4>2
      <4> QED BY <4>1, <4>3
    <3> QED BY <3>1, <3>3
  <2> QED BY <2>1, <2>2 DEF TypeOK, UploadTypes, SideTypes, DispatchTypes
<1> QED BY <1>1, AlwaysRight, PTL

\* No two uploads write to one directory at a time, of one worker or of several
\* that share it, unless a write was wrongly taken for ended
\* (acquireTargetLease(), releaseTargetLease(), fenceTargetLease()).
THEOREM OneWriterHolds == Spec => []OneWriterUnlessStale
<1>1. HInv => OneWriterUnlessStale
  BY DEF HInv, UInv
<1> QED BY <1>1, AlwaysRight, PTL

\* A branch that waits for a lease waits for one that holds it
\* (fenceTargetLease(), releaseTargetLease()).
THEOREM WaitsHaveHolderHolds == Spec => []WaitsHaveHolder
<1>1. HInv => WaitsHaveHolder
  <2> SUFFICES ASSUME HInv, NEW w \in Workers, branch[w] = "queued"
               PROVE  /\ owner[TargetOf[w]] = round
                      /\ \E v \in Workers : TargetOf[v] = TargetOf[w] /\ Active(v)
    BY DEF WaitsHaveHolder, Active, ActiveSteps
  <2>1. Leases
    BY DEF HInv, UInv
  <2>2. owner[TargetOf[w]] /= 0 /\ TargetOf[w] \notin fenced
    BY <2>1 DEF Leases, LineIsWhole
  <2>3. PICK v \in Workers : Active(v) /\ TargetOf[v] = TargetOf[w]
    BY <2>1, <2>2, TargetsAre DEF Leases, HolderIsKnown
  <2> QED BY <2>1, <2>3 DEF Leases, HolderIsAlone
<1> QED BY <1>1, AlwaysRight, PTL

\* No job is sent into a write of its worker's directory, and no write begins
\* on behalf of a worker to which a job flies that the queue has not saved as
\* sent (uploadBlocksWorker(), blockingHandoffs(), endHandoff()).
THEOREM JobsAndCodeApartHolds == Spec => JobsAndCodeApart
<1>1. HInv /\ [Next]_vars =>
        [(\A c \in Commands : SentInPeace(c)) /\ (\A w \in Workers : WrittenInPeace(w))]_vars
  BY StepsAreKept DEF Kept
<1> QED BY <1>1, AlwaysRight, PTL DEF Spec, JobsAndCodeApart
=============================================================================
