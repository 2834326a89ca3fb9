--------------------------- MODULE DispatchHandoff ---------------------------
(***************************************************************************)
(* Code uploads against job dispatch: the gate and the target leases of    *)
(* src/features/DispatchHandoffGate.ts, with the code synchronisation and  *)
(* the dispatch round of src/extension/legacy.ts that use them.            *)
(*                                                                         *)
(* A code upload announces the workers it will write to, waits until no    *)
(* dispatched job of theirs is being handed over, prepares its targets,    *)
(* and writes them two at a time.  A target is a server and a directory,   *)
(* which several workers may share; it is written under a lease.  A write  *)
(* whose result is unknown keeps its lease, fenced, until a later upload   *)
(* has seen it end.                                                        *)
(*                                                                         *)
(* A dispatch round registers a handoff for every job that it may send,    *)
(* saves its admissions, sends, and saves the answers.  Sending returns    *)
(* before the request has arrived.  A handoff that was sent ends by the    *)
(* save of the local queue, or by an observation of the worker after the   *)
(* request has settled.                                                    *)
(*                                                                         *)
(* JavaScript runs a turn to completion; an action is a turn, or the end   *)
(* of a remote operation.  There is one project root.                      *)
(***************************************************************************)
EXTENDS Naturals, Sequences, FiniteSets

CONSTANTS
    Workers,   \* worker ids
    TargetOf,  \* the server and directory that a worker's code is in
    Commands,  \* dispatches; each has a command id of its own
    WorkerOf,  \* the worker a command is for
    Manual,    \* the commands sent outside rounds
    None,      \* no worker
    Lanes,     \* uploads of one synchronisation at one time (2 in the code)
    MaxRounds  \* bound: synchronisations

Targets == {TargetOf[w] : w \in Workers}

ASSUME WorkersAssumption == None \notin Workers /\ WorkerOf \in [Commands -> Workers]
ASSUME NumbersAssumption == Lanes \in Nat \ {0} /\ MaxRounds \in Nat

VARIABLES
    sync,      \* the step that the synchronisation is at
    round,     \* its upload id
    goal,      \* the workers that it announced (gate.uploads)
    branch,    \* what it does for each worker
    files,     \* gate.workerUploads: what it says of each worker
    unknown,   \* gate.unknownWrites: the worker whose write to a target is unknown
    owner,     \* leases held: the upload id that holds a target's, 0 if none
    fenced,    \* the targets whose lease is fenced
    retained,  \* the targets whose lease was kept after its branch
    queue,     \* the workers that wait for a target's lease
    remote,    \* the writes that are really in progress on the servers
    stale,     \* history: an unknown write was taken for ended and was not
    phase,     \* the step that the dispatch round is at
    batch,     \* the commands of the dispatch round
    job,       \* how far a command is
    table,     \* gate.handoffs
    wire,      \* the request that starts a command's job
    committed  \* history: the commands whose sending the local queue has saved

sides == <<unknown, owner, fenced, retained, queue, remote, stale>>
uploads == <<sync, round, goal, branch, files, sides>>
dispatch == <<phase, batch, job, table, wire, committed>>
vars == <<uploads, dispatch>>

-----------------------------------------------------------------------------
NoFile == [id |-> 0, state |-> "none", noted |-> FALSE]

\* blockingHandoffs()
Blocking(W, handoffs) == {c \in Commands : WorkerOf[c] \in W /\ handoffs[c] /= "none"}

\* The synchronisation waits until no handoff blocks it; every end of a
\* handoff looks at it again (notify()).
Woken(handoffs) ==
    IF sync = "waiting" /\ Blocking(goal, handoffs) = {} THEN "clear" ELSE sync

\* Another worker of the same target is in the upload and not done.
AliasBusy(w) ==
    \E v \in Workers \ {w} :
        /\ files[v].id = round /\ files[v].noted /\ files[v].state /= "uploaded"
        /\ TargetOf[v] = TargetOf[w]

\* Mutant: a worker is free again as soon as its own upload is done.
UploadBlocks_OwnOnly(w) ==
    \/ unknown[TargetOf[w]] /= None
    \/ w \in goal /\ ~(files[w].id = round /\ files[w].state = "uploaded")

\* uploadBlocksWorker()
UploadBlocks(w) ==
    \/ unknown[TargetOf[w]] /= None
    \/ w \in goal /\ ~(files[w].id = round /\ files[w].state = "uploaded")
    \/ goal /= {} /\ AliasBusy(w)

Running == {w \in Workers : branch[w] \in {"queued", "holding", "writing", "wrote", "proved"}}
\* mapLimited() starts the next branch in the turn in which a lane is free.
LanesInUse == Cardinality(Running) = Lanes \/ \A w \in Workers : branch[w] /= "ready"

Init ==
    /\ sync = "idle" /\ round = 0 /\ goal = {}
    /\ branch = [w \in Workers |-> "none"]
    /\ files = [w \in Workers |-> NoFile]
    /\ unknown = [t \in Targets |-> None]
    /\ owner = [t \in Targets |-> 0]
    /\ fenced = {} /\ retained = {}
    /\ queue = [t \in Targets |-> <<>>]
    /\ remote = {}
    /\ stale = FALSE
    /\ phase = "idle" /\ batch = {}
    /\ job = [c \in Commands |-> "new"]
    /\ table = [c \in Commands |-> "none"]
    /\ wire = [c \in Commands |-> "none"]
    /\ committed = {}

-----------------------------------------------------------------------------
(* The synchronisation, until its targets are prepared                     *)

\* waitForBlockingClear(), on the call.
FirstLook(W) == IF Blocking(W, table) = {} THEN "clear" ELSE "waiting"

\* One synchronisation at a time; beginUpload() in the turn of the call.
Begin(W) ==
    /\ sync = "idle" /\ round < MaxRounds /\ W /= {}
    /\ round' = round + 1
    /\ goal' = W
    /\ files' = [w \in Workers |->
                    IF w \in W THEN [id |-> round + 1, state |-> "uploading", noted |-> FALSE]
                    ELSE files[w]]
    /\ sync' = FirstLook(W)
    /\ UNCHANGED <<branch, sides, dispatch>>

\* The code of a worker was found to be the same; nothing will be written.
Same(w) ==
    /\ sync \in {"clear", "same"} /\ w \in goal /\ files[w].state = "uploading"
    /\ files' = [files EXCEPT ![w].state = "uploaded"]
    /\ sync' = "same"
    /\ UNCHANGED <<round, goal, branch, sides, dispatch>>

\* The workers that are safe to write to are confirmed.
Confirm(W) ==
    /\ sync = "clear" /\ W \subseteq goal /\ W /= {}
    /\ sync' = "preparing"
    /\ branch' = [w \in Workers |-> IF w \in W THEN "todo" ELSE "none"]
    /\ UNCHANGED <<round, goal, files, sides, dispatch>>

\* noteUploadTarget(), before the target is looked at.
Note(w) ==
    /\ sync = "preparing" /\ branch[w] = "todo"
    /\ files' = [files EXCEPT ![w].noted = TRUE]
    /\ branch' = [branch EXCEPT ![w] = "asking"]
    /\ UNCHANGED <<sync, round, goal, sides, dispatch>>

\* takeoverCodeUploadTargetLocal(): the target is quiet, perhaps after what
\* was being written to it has been cancelled, or the user allows that what may
\* still be written to it is overwritten, or it is older than three hours;
\* otherwise the branch fails.
Prepare(w, outcome) ==
    /\ sync = "preparing" /\ branch[w] = "asking"
    /\ branch' = [branch EXCEPT ![w] = outcome]
    /\ UNCHANGED <<sync, round, goal, files, sides, dispatch>>

Prepared ==
    /\ sync = "preparing" /\ \A w \in Workers : branch[w] \notin {"todo", "asking"}
    /\ sync' = "copying"
    /\ UNCHANGED <<round, goal, branch, files, sides, dispatch>>

\* endUpload(), when all branches have ended, or earlier because the wait has
\* timed out or a check failed.
End ==
    /\ \/ sync \in {"waiting", "clear", "same"}
       \/ sync = "copying" /\ \A w \in Workers : branch[w] \in {"none", "over"}
    /\ sync' = "idle"
    /\ goal' = {}
    /\ branch' = [w \in Workers |-> "none"]
    /\ files' = [w \in Workers |->
                    IF files[w].id = round /\ files[w].state /= "unknown" THEN NoFile ELSE files[w]]
    /\ UNCHANGED <<round, sides, dispatch>>

-----------------------------------------------------------------------------
(* A branch of the synchronisation, from the lease to its end              *)

\* Mutant: the lease of a target does not exclude.
Turn_NoLock(t, holder, fences) == IF t \in fences THEN "over" ELSE "holding"

\* acquireTargetLease(): a fenced target defers, a held one queues.
Turn(t, holder, fences) ==
    IF t \in fences THEN "over" ELSE IF holder = 0 THEN "holding" ELSE "queued"

\* Mutant: the fence stays when its lease is given back.
FencesWithout_Kept(t) == fenced

\* releaseTargetLease() lifts the fence of the lease.
FencesWithout(t) == fenced \ {t}

\* A branch begins.  An unknown write to its target is taken for ended, since
\* the target was prepared, and its lease is given back.
Acquire(w) ==
    LET t == TargetOf[w]
        resolves == unknown[t] /= None
        givesBack == resolves /\ t \in retained
        holder == IF givesBack THEN 0 ELSE owner[t]
        fences == IF givesBack THEN FencesWithout(t) ELSE fenced
        turn == Turn(t, holder, fences)
    IN
    /\ sync = "copying" /\ branch[w] = "ready" /\ Cardinality(Running) < Lanes
    /\ branch' = [branch EXCEPT ![w] = turn]
    /\ unknown' = [unknown EXCEPT ![t] = None]
    /\ files' = [v \in Workers |->
                    IF v = unknown[t] /\ files[v].state = "unknown" THEN NoFile ELSE files[v]]
    /\ owner' = [owner EXCEPT ![t] = IF turn = "holding" THEN round ELSE holder]
    /\ fenced' = fences
    /\ retained' = IF givesBack THEN retained \ {t} ELSE retained
    /\ queue' = [queue EXCEPT ![t] = IF turn = "queued" THEN Append(@, w) ELSE @]
    /\ stale' = (stale \/ (resolves /\ \E x \in remote : TargetOf[x.to] = t))
    /\ UNCHANGED <<sync, round, goal, remote, dispatch>>

\* A branch that found its own upload at work on its target, when it was
\* prepared, takes no unknown write for ended; the fence defers it.
Defer(w) ==
    /\ sync = "copying" /\ branch[w] = "ready" /\ Cardinality(Running) < Lanes
    /\ TargetOf[w] \in fenced
    /\ branch' = [branch EXCEPT ![w] = "over"]
    /\ UNCHANGED <<sync, round, goal, files, sides, dispatch>>

\* upload.workspace is called.
Write(w) ==
    /\ branch[w] = "holding" /\ LanesInUse
    /\ branch' = [branch EXCEPT ![w] = "writing"]
    /\ remote' = remote \cup {[id |-> round, to |-> w]}
    /\ UNCHANGED <<sync, round, goal, files, unknown, owner, fenced, retained, queue, stale, dispatch>>

\* ... and returns, with success or not.
Return(w) ==
    /\ branch[w] = "writing" /\ LanesInUse
    /\ branch' = [branch EXCEPT ![w] = "wrote"]
    /\ remote' = remote \ {[id |-> round, to |-> w]}
    /\ UNCHANGED <<sync, round, goal, files, unknown, owner, fenced, retained, queue, stale, dispatch>>

\* Mutant: a fence does not wake the branches that wait for the lease.
WokenByFence_None(t) == {}

\* fenceTargetLease() ends every wait for the lease.
WokenByFence(t) == {queue[t][i] : i \in DOMAIN queue[t]}

\* The call throws or is cancelled, and the write may still go on: its lease
\* is kept and fenced.
Lose(w, cancelled) ==
    LET t == TargetOf[w] IN
    /\ branch[w] = "writing" /\ LanesInUse
    /\ files' = [files EXCEPT ![w].state = IF cancelled THEN @ ELSE "unknown"]
    /\ unknown' = [unknown EXCEPT ![t] = w]
    /\ retained' = retained \cup {t}
    /\ fenced' = fenced \cup {t}
    /\ branch' = [v \in Workers |-> IF v \in WokenByFence(t) \cup {w} THEN "over" ELSE branch[v]]
    /\ queue' = [queue EXCEPT ![t] = <<>>]
    /\ UNCHANGED <<sync, round, goal, owner, remote, stale, dispatch>>

\* Nothing had to be written, or what was written is proved.
Prove(w) ==
    /\ branch[w] \in {"holding", "wrote"} /\ LanesInUse
    /\ branch' = [branch EXCEPT ![w] = "proved"]
    /\ files' = [files EXCEPT ![w].state = "uploaded"]
    /\ UNCHANGED <<sync, round, goal, sides, dispatch>>

\* The branch ends with its result, and the lease goes to the next in line.
Finish(w, result) ==
    LET t == TargetOf[w] IN
    /\ LanesInUse
    /\ files' = [files EXCEPT ![w].state = result]
    /\ branch' = [v \in Workers |->
                     IF v = w THEN "over"
                     ELSE IF queue[t] /= <<>> /\ v = Head(queue[t]) THEN "holding" ELSE branch[v]]
    /\ owner' = [owner EXCEPT ![t] = IF queue[t] = <<>> THEN 0 ELSE round]
    /\ queue' = [queue EXCEPT ![t] = IF @ = <<>> THEN @ ELSE Tail(@)]
    /\ UNCHANGED <<sync, round, goal, unknown, fenced, retained, remote, stale, dispatch>>

Release(w) == branch[w] = "proved" /\ Finish(w, files[w].state)

\* An error outside the write, or a cancellation.
Fail(w) ==
    /\ branch[w] \in {"holding", "wrote", "proved"}
    /\ Finish(w, "unknown") \/ Finish(w, files[w].state)

\* On the server, a write whose result was lost ends.
RemoteEnds(x) ==
    /\ x \in remote /\ ~(x.id = round /\ branch[x.to] = "writing")
    /\ remote' = remote \ {x}
    /\ UNCHANGED <<sync, round, goal, branch, files, unknown, owner, fenced, retained, queue, stale, dispatch>>

-----------------------------------------------------------------------------
(* Dispatch                                                                *)

\* Jobs are given to workers that no upload blocks, and their handoffs are
\* registered, in one turn.
Register(C) ==
    /\ phase = "idle" /\ C /= {} /\ C \cap Manual = {}
    /\ \A c \in C : job[c] = "new" /\ ~UploadBlocks(WorkerOf[c])
    /\ phase' = "admitting"
    /\ batch' = C
    /\ job' = [c \in Commands |-> IF c \in C THEN "ready" ELSE job[c]]
    /\ table' = [c \in Commands |-> IF c \in C THEN "open" ELSE table[c]]
    /\ UNCHANGED <<uploads, wire, committed>>

\* The admissions are saved; those denied are not sent, but keep their handoffs.
Admit(D) ==
    /\ phase = "admitting" /\ D \subseteq batch
    /\ phase' = "sending"
    /\ job' = [c \in Commands |-> IF c \in D THEN "denied" ELSE job[c]]
    /\ UNCHANGED <<uploads, batch, table, wire, committed>>

\* A job is sent by hand: its handoff is registered without a look at uploads.
Claim(c) ==
    /\ c \in Manual /\ job[c] = "new"
    /\ job' = [job EXCEPT ![c] = "ready"]
    /\ table' = [table EXCEPT ![c] = "open"]
    /\ UNCHANGED <<uploads, phase, batch, wire, committed>>

MaySend(c) == job[c] = "ready" /\ (c \in Manual \/ phase = "sending")

\* assertDispatchHandoffSendAllowedLocal(), and the post in the same turn.
Send(c) ==
    /\ MaySend(c) /\ ~UploadBlocks(WorkerOf[c])
    /\ job' = [job EXCEPT ![c] = "sent"]
    /\ table' = [table EXCEPT ![c] = "sent"]
    /\ wire' = [wire EXCEPT ![c] = "flying"]
    /\ UNCHANGED <<uploads, phase, batch, committed>>

\* The upload, or another check, refuses.  Only a job sent by hand gives its
\* handoff up at once.
Unsent(c) ==
    /\ MaySend(c)
    /\ job' = [job EXCEPT ![c] = "unsent"]
    /\ table' = [table EXCEPT ![c] = IF c \in Manual THEN "none" ELSE @]
    /\ sync' = Woken(table')
    /\ UNCHANGED <<round, goal, branch, files, sides, phase, batch, wire, committed>>

\* All sends have returned, and the local queue is saved: commitDispatchHandoffLocal().
Commit ==
    LET done == {c \in batch : job[c] /= "denied"} IN
    /\ phase = "sending" /\ \A c \in done : job[c] /= "ready"
    /\ phase' = "ending"
    /\ table' = [c \in Commands |-> IF c \in done THEN "none" ELSE table[c]]
    /\ committed' = committed \cup {c \in done : job[c] = "sent"}
    /\ sync' = Woken(table')
    /\ UNCHANGED <<round, goal, branch, files, sides, batch, job, wire>>

\* Mutant: the end of a round ends the handoffs that were sent, too.
Droppable_All == batch

\* endHandoff() without evidence.
Droppable == {c \in batch : table[c] = "open"}

\* endRoundHandoffs(): after the round, when it throws, or because it was
\* detached, after which its generation does not send any more.
EndRound ==
    /\ phase /= "idle"
    /\ phase' = "idle"
    /\ batch' = {}
    /\ job' = [c \in Commands |-> IF c \in batch /\ job[c] = "ready" THEN "unsent" ELSE job[c]]
    /\ table' = [c \in Commands |-> IF c \in Droppable THEN "none" ELSE table[c]]
    /\ sync' = Woken(table')
    /\ UNCHANGED <<round, goal, branch, files, sides, wire, committed>>

\* markHandoffTransportSettled(): the post is answered or fails.
Settle(c) ==
    /\ wire[c] = "flying"
    /\ wire' = [wire EXCEPT ![c] = "landed"]
    /\ table' = [table EXCEPT ![c] = IF @ = "sent" THEN "settled" ELSE @]
    /\ UNCHANGED <<uploads, phase, batch, job, committed>>

\* releaseHandoffsOnObservation(), with a complete answer of the worker.
Observe(w) ==
    /\ \E c \in Commands : WorkerOf[c] = w /\ table[c] = "settled"
    /\ table' = [c \in Commands |->
                    IF WorkerOf[c] = w /\ table[c] = "settled" THEN "none" ELSE table[c]]
    /\ sync' = Woken(table')
    /\ UNCHANGED <<round, goal, branch, files, sides, phase, batch, job, wire, committed>>

-----------------------------------------------------------------------------
\* What a synchronisation does once it has begun.
Synchronise ==
    \/ \E W \in SUBSET Workers : Confirm(W)
    \/ \E w \in Workers :
          \/ Same(w) \/ Note(w) \/ Prepare(w, "ready") \/ Prepare(w, "over")
          \/ Acquire(w) \/ Defer(w) \/ Write(w) \/ Return(w) \/ Lose(w, TRUE) \/ Lose(w, FALSE)
          \/ Prove(w) \/ Release(w) \/ Fail(w)
    \/ Prepared \/ End

Dispatch ==
    \/ \E C \in SUBSET Commands : Register(C) \/ Admit(C)
    \/ \E c \in Commands : Claim(c) \/ Send(c) \/ Unsent(c) \/ Settle(c)
    \/ \E w \in Workers : Observe(w)
    \/ Commit \/ EndRound

Next ==
    \/ \E W \in SUBSET Workers : Begin(W)
    \/ Synchronise
    \/ \E x \in remote : RemoteEnds(x)
    \/ Dispatch

Spec == Init /\ [][Next]_vars

-----------------------------------------------------------------------------
(* Properties                                                              *)

BranchSteps == {"none", "todo", "asking", "ready", "queued", "holding", "writing", "wrote", "proved", "over"}

\* Types; a fence is on a held lease whose write is unknown, and no branch
\* waits behind it.
TypeOK ==
    /\ sync \in {"idle", "waiting", "clear", "same", "preparing", "copying"}
    /\ round \in 0..MaxRounds
    /\ goal \subseteq Workers
    /\ branch \in [Workers -> BranchSteps]
    /\ files \in [Workers -> [id : 0..MaxRounds, noted : BOOLEAN,
                              state : {"none", "uploading", "uploaded", "unknown"}]]
    /\ unknown \in [Targets -> Workers \cup {None}]
    /\ owner \in [Targets -> 0..MaxRounds]
    /\ fenced \subseteq Targets /\ retained = fenced
    /\ queue \in [Targets -> Seq(Workers)]
    /\ remote \subseteq [id : 1..MaxRounds, to : Workers]
    /\ stale \in BOOLEAN
    /\ phase \in {"idle", "admitting", "sending", "ending"}
    /\ batch \subseteq Commands
    /\ job \in [Commands -> {"new", "ready", "denied", "sent", "unsent"}]
    /\ table \in [Commands -> {"none", "open", "sent", "settled"}]
    /\ wire \in [Commands -> {"none", "flying", "landed"}]
    /\ committed \subseteq Commands
    /\ \A t \in fenced : owner[t] /= 0 /\ unknown[t] /= None /\ queue[t] = <<>>

\* Two uploads, of one worker or of several that share a directory, never write
\* to one target at a time, as long as no upload took an unknown write for
\* ended that was not (acquireTargetLease(), fenceTargetLease()).
OneWriterUnlessStale ==
    ~stale => \A x, y \in remote : TargetOf[x.to] = TargetOf[y.to] => x = y

\* A job is sent to a worker whose directory nothing writes to, through
\* whichever worker, in this upload or an earlier one whose result was lost
\* (uploadBlocksWorker()).
SentInPeace(c) ==
    wire'[c] = "flying" /\ wire[c] = "none" /\ ~stale =>
        \A x \in remote : TargetOf[x.to] /= TargetOf[WorkerOf[c]]

\* A worker's directory is written, on its own behalf, only when no job is
\* under way to it that the local queue has not saved as sent: neither the end
\* of its round nor a lost answer gives the handoff up (endHandoff()).
WrittenInPeace(w) ==
    branch'[w] = "writing" /\ branch[w] /= "writing" =>
        \A c \in Commands : WorkerOf[c] = w /\ wire[c] = "flying" => c \in committed

\* Jobs and code never meet on their way to a directory: no job is sent into a
\* write (under the proviso above), and no write begins while a job flies.
JobsAndCodeApart ==
    [][/\ \A c \in Commands : SentInPeace(c)
       /\ \A w \in Workers : WrittenInPeace(w)]_vars

\* A branch that waits for a lease waits for a running branch of its own
\* synchronisation: a lost write or an error never leaves one behind that waits
\* for ever (fenceTargetLease(), releaseTargetLease()).
WaitsHaveHolder ==
    \A w \in Workers : branch[w] = "queued" =>
        /\ owner[TargetOf[w]] = round
        /\ \E v \in Workers : /\ TargetOf[v] = TargetOf[w]
                             /\ branch[v] \in {"holding", "writing", "wrote", "proved"}
=============================================================================
