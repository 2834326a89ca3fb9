----------------------------- MODULE PlanDispatch -----------------------------
(***************************************************************************)
(* From a queued job to a task on a server: the queue file of a project    *)
(* and its saves (src/extension/legacy.ts), the admission of dispatches    *)
(* across projects (src/project/UnifiedDispatchAdmission.ts), the sending, *)
(* stopping, recalling and requeueing of a job, and the scheduler process  *)
(* of the worker (src/runtime/TmuxTaskLifecycle.ts).                       *)
(*                                                                         *)
(* A window's dispatch round plans on a copy of its queue.  The save that  *)
(* admits the plan holds the lease of the queue file and the lease that    *)
(* all projects share, counts the slots taken in every queue on disk, and  *)
(* writes the jobs that it grants a slot.  Only then are these sent, and   *)
(* nobody waits for an answer: what the task does is asked for in later    *)
(* rounds.  A slot is given back on evidence alone.                        *)
(*                                                                         *)
(* The leases exclude as ResourceLease shows; a crash frees them.  Jobs    *)
(* are of the automatic queue under lifecycle protocol 2, on one server.   *)
(* A row on disk keeps no status: it is pending without a command and      *)
(* unknown with one (clearNativeProjection).                               *)
(***************************************************************************)
EXTENDS Naturals, FiniteSets

CONSTANTS
    Roots,       \* project directories, each with its queue file
    Jobs,        \* jobs
    RootOf,      \* the project of a job
    Windows,     \* windows of the editor
    Cards,       \* the cards of the server
    None,        \* no card, no window, no command
    Quota,       \* jobs that a card takes
    MaxFresh     \* bound: new command ids of a job

Commands == UNION {{j} \X (0 .. MaxFresh[j]) : j \in Jobs}

Row == [st : {"pending", "bound", "gone"},  \* "gone": not in the queue
        n : Nat,                            \* commandId, or nextCommandId
        card : Cards \cup {None},
        consent : BOOLEAN,                  \* dispatchConsent of this command
        intent : BOOLEAN,                   \* startIntent
        proof : BOOLEAN,                    \* trustedTerminalProof of this command
        want : {"none", "stop", "recall"}]  \* stopIntent, recallRequested

ASSUME Bounds == MaxFresh \in [Jobs -> Nat] /\ Quota \in Nat
ASSUME Typing == RootOf \in [Jobs -> Roots] /\ None \notin Cards /\ None \notin Windows
                  /\ None \notin Commands
ASSUME FiniteJobs == IsFiniteSet(Jobs)

VARIABLES
    managed,   \* two projects are registered: unifiedDomainState().active
    opened,    \* the project that a window has open
    disk,      \* the rows in the queue files
    round,     \* the step that a window's dispatch round is at
    base,      \* the rows it loaded
    copy,      \* the rows it will write
    sends,     \* its dispatches that are not sent yet
    ctl,       \* what a window does to take a job from the worker
    queueLock, \* the window that holds the lease of a queue file
    sharedLock,\* the window that holds the lease of all projects
    posts,     \* start requests that were sent; each may arrive late, twice or never
    stops,     \* stop requests, likewise
    task       \* what the worker has of a command

local == <<round, base, copy, sends>>
locks == <<queueLock, sharedLock>>
vars == <<managed, opened, disk, local, ctl, locks, posts, stops, task>>

(* The scheduler's pane keeps the commands that were accepted and those    *)
(* that are cancelled; a task has its own tmux window, which stays when    *)
(* the task is over until somebody closes it.  Results stay as well.       *)
Windowed == {"live", "ok", "failed", "partial"}  \* the last three: it is over
Closed == {"closed", "closed ok", "closed failed"}
Tasks == {"new", "opening", "cancelled"} \cup Windowed \cup Closed

JobsOf(root) == {j \in Jobs : RootOf[j] = root}
Mine(w) == JobsOf(opened[w])
NoRows == [j \in {} |-> None]
NoCtl == [job |-> None, n |-> 0, kind |-> "none", ph |-> "none"]

NewRow(st, n, k, intent) == [st |-> st, n |-> n, card |-> k, consent |-> FALSE,
                            intent |-> intent, proof |-> FALSE, want |-> "none"]
Pending(n) == NewRow("pending", n, None, FALSE)
Gone(n) == NewRow("gone", n, None, FALSE)
Bound(n, k) == NewRow("bound", n, k, TRUE)

\* Mutant: a row whose start was seen is no more counted.
Occupies_IntentOnly(row) == row.st = "bound" /\ row.intent

(* jobOccupiesUnifiedSlot() on a row read from disk *)
Occupies(row) == row.st = "bound" /\ (row.intent \/ ~row.proof)

OnCard(rows, k) == {j \in DOMAIN rows : Occupies(rows[j]) /\ rows[j].card = k}

-----------------------------------------------------------------------------
(* What a query of the worker tells of a command, merged into its row.     *)
(* (mergeDurableWorkerSnapshots, taskLifecycle)                            *)
Ended(c) == task[c] \in {"ok", "failed", "closed ok", "closed failed", "cancelled"}
Seen(c) == task[c] \in Windowed \cup {"closed ok", "cancelled"}

Observed(j, row) ==
    IF row.st # "bound" THEN row
    ELSE [row EXCEPT !.proof = @ \/ Ended(<<j, row.n>>),
                     !.intent = @ /\ ~Seen(<<j, row.n>>)]

-----------------------------------------------------------------------------
Init ==
    /\ managed \in BOOLEAN
    /\ opened \in [Windows -> Roots]
    /\ disk \in [Jobs -> {Pending(0), Gone(0)}]
    /\ round = [w \in Windows |-> "idle"]
    /\ base = [w \in Windows |-> NoRows]
    /\ copy = [w \in Windows |-> NoRows]
    /\ sends = [w \in Windows |-> {}]
    /\ ctl = [w \in Windows |-> NoCtl]
    /\ queueLock = [r \in Roots |-> None]
    /\ sharedLock = None
    /\ posts = {}
    /\ stops = {}
    /\ task = [c \in Commands |-> "new"]

(* Another project is registered as a branch; the registry is changed      *)
(* under the shared lease.                                                 *)
Register ==
    /\ ~managed /\ sharedLock = None
    /\ managed' = TRUE
    /\ UNCHANGED <<opened, disk, local, ctl, locks, posts, stops, task>>

-----------------------------------------------------------------------------
(* A change of the generation ends the window's round: what it has not     *)
(* posted, it may not post.  What was armed goes back to the queue; what   *)
(* was not even prepared is dropped, and its row keeps its slot.           *)
Unposted(s) == {[d EXCEPT !.ph = "unsent"] : d \in {e \in s : e.ph # "new"}}
\* Mutant: the round goes on with rows that were dropped.
FenceRound_GoesOn(w, s) ==
    /\ base' = [base EXCEPT ![w] = NoRows]
    /\ copy' = [copy EXCEPT ![w] = NoRows]
    /\ sends' = [sends EXCEPT ![w] = Unposted(s)]
    /\ UNCHANGED round

FenceRound(w, s) ==
    /\ round' = [round EXCEPT ![w] = IF @ \in {"publish", "stale"} THEN "stale" ELSE "idle"]
    /\ base' = [base EXCEPT ![w] = NoRows]
    /\ copy' = [copy EXCEPT ![w] = NoRows]
    /\ sends' = [sends EXCEPT ![w] = Unposted(s)]

(* A stop or a recall ends the round before it asks for any lease: a save  *)
(* that is under way keeps its leases, and will be refused at its rename.  *)
Detach(w) ==
    /\ FenceRound(w, sends[w])
    /\ UNCHANGED <<managed, opened, disk, ctl, locks, posts, stops, task>>

(* The dispatch round loads the queue, merges what a query of the worker   *)
(* told if it was answered, and gives pending jobs a card.                 *)
Plan(w) ==
    /\ round[w] = "idle" /\ ctl[w].kind # "stop"
    /\ \A d \in sends[w] : d.ph = "unsent"
    /\ \E answered \in BOOLEAN, chosen \in SUBSET {j \in Mine(w) : disk[j].st = "pending"} :
       \E at \in [chosen -> Cards] :
          LET planned == [j \in Mine(w) |->
                  IF j \in chosen THEN Bound(disk[j].n, at[j])
                  ELSE IF answered THEN Observed(j, disk[j]) ELSE disk[j]]
          IN  /\ \E j \in Mine(w) : planned[j] # disk[j]
              /\ copy' = [copy EXCEPT ![w] = planned]
    /\ base' = [base EXCEPT ![w] = [j \in Mine(w) |-> disk[j]]]
    /\ round' = [round EXCEPT ![w] = "planned"]
    /\ UNCHANGED <<managed, opened, disk, sends, ctl, locks, posts, stops, task>>

Dispatched(w) == {j \in DOMAIN copy[w] : copy[w][j].st = "bound" /\ base[w][j].st = "pending"}

\* Mutant: the file is taken to be as it was loaded.
DiskIsBase_Trusted(w) == TRUE

(* The signature of the queue file is that of the rows loaded.             *)
DiskIsBase(w) == \A j \in Mine(w) : disk[j] = base[w][j]

\* Mutant: a dispatch is admitted under the lease of its own queue alone.
MayLock_OwnQueue(w) == queueLock[opened[w]] = None

(* The shared lease is needed by a save with dispatches only.              *)
MayLock(w) == queueLock[opened[w]] = None /\ (Dispatched(w) # {} => sharedLock = None)

(* admitDispatchIntents(): as many as the quota leaves room for, in some   *)
(* order; none at all when a blocker stands.                               *)
Room(w, granted, k) ==
    Cardinality(OnCard(disk, k)) + Cardinality({j \in granted : copy[w][j].card = k}) <= Quota
Admissible(w) == {granted \in SUBSET Dispatched(w) :
    \A k \in Cards : {j \in granted : copy[w][j].card = k} = {} \/ Room(w, granted, k)}
Granted(w) == {{}} \cup {granted \in Admissible(w) :
    \A j \in Dispatched(w) \ granted : granted \cup {j} \notin Admissible(w)}

Decided(w, granted) ==
    IF ~managed THEN copy[w]
    ELSE [j \in Mine(w) |->
            IF j \in granted THEN [copy[w][j] EXCEPT !.consent = TRUE]
            ELSE IF j \in Dispatched(w) THEN Pending(copy[w][j].n) ELSE copy[w][j]]

(* The first half of a save: the leases, the file, the admission.          *)
Prepare(w) ==
    /\ round[w] = "planned" /\ MayLock(w)
    /\ IF DiskIsBase(w)
       THEN /\ \E granted \in Granted(w) : copy' = [copy EXCEPT ![w] = Decided(w, granted)]
            /\ queueLock' = [queueLock EXCEPT ![opened[w]] = w]
            /\ sharedLock' = IF Dispatched(w) = {} THEN sharedLock ELSE w
            /\ round' = [round EXCEPT ![w] = "publish"]
            /\ UNCHANGED base
       ELSE /\ copy' = [copy EXCEPT ![w] = NoRows]
            /\ base' = [base EXCEPT ![w] = NoRows]
            /\ round' = [round EXCEPT ![w] = "idle"]
            /\ UNCHANGED locks
    /\ UNCHANGED <<managed, opened, disk, sends, ctl, posts, stops, task>>

Unlocked(w) ==
    /\ queueLock' = [r \in Roots |-> IF queueLock[r] = w THEN None ELSE queueLock[r]]
    /\ sharedLock' = IF sharedLock = w THEN None ELSE sharedLock

(* The second half: beforeRename looks at the generation and the file      *)
(* again, the file is replaced, and what was granted will be sent.         *)
Publish(w) ==
    /\ round[w] \in {"publish", "stale"}
    /\ IF round[w] = "publish" /\ DiskIsBase(w)
       THEN /\ disk' = [j \in Jobs |-> IF j \in Mine(w) THEN copy[w][j] ELSE disk[j]]
            /\ sends' = [sends EXCEPT ![w] = @ \cup
                  {[job |-> j, n |-> copy[w][j].n, card |-> copy[w][j].card, ph |-> "new"] : j \in Dispatched(w)}]
       ELSE UNCHANGED <<disk, sends>>
    /\ Unlocked(w)
    /\ round' = [round EXCEPT ![w] = "idle"]
    /\ base' = [base EXCEPT ![w] = NoRows]
    /\ copy' = [copy EXCEPT ![w] = NoRows]
    /\ UNCHANGED <<managed, opened, ctl, posts, stops, task>>

-----------------------------------------------------------------------------
(* The guard before anything is prepared: the command on disk has consent. *)
Consented(d) ==
    LET row == disk[d.job]
    IN  row.st = "bound" /\ row.n = d.n /\ row.card = d.card /\ row.consent

Guard(w, d) ==
    /\ d \in sends[w] /\ d.ph = "new" /\ (managed => Consented(d))
    /\ sends' = [sends EXCEPT ![w] = (@ \ {d}) \cup {[d EXCEPT !.ph = "armed"]}]
    /\ UNCHANGED <<managed, opened, disk, round, base, copy, ctl, locks, posts, stops, task>>

Post(w, d) ==
    /\ d \in sends[w] /\ d.ph = "armed"
    /\ posts' = posts \cup {<<d.job, d.n>>}
    /\ sends' = [sends EXCEPT ![w] = @ \ {d}]
    /\ UNCHANGED <<managed, opened, disk, round, base, copy, ctl, locks, stops, task>>

(* releaseUnsentDistributedJob(): a job that surely was not sent goes back *)
(* to the queue with its command.                                          *)
Releasable(d) ==
    LET row == disk[d.job]
    IN  row.st = "bound" /\ row.n = d.n /\ row.card = d.card /\ row.intent /\ row.want = "none"

Release(w, d) ==
    /\ d \in sends[w] /\ queueLock[opened[w]] = None
    /\ IF Releasable(d)
       THEN /\ disk' = [disk EXCEPT ![d.job] = Pending(d.n)]
            /\ FenceRound(w, sends[w] \ {d})
       ELSE /\ sends' = [sends EXCEPT ![w] = @ \ {d}]
            /\ UNCHANGED <<disk, round, base, copy>>
    /\ UNCHANGED <<managed, opened, ctl, locks, posts, stops, task>>

-----------------------------------------------------------------------------
(* Taking a job from the worker: the intent is saved, a stop is posted     *)
(* whose answer counts for nothing, and a query has to tell that the       *)
(* command is cancelled and has no window.                                 *)
BoundHere(w, j) == j \in Mine(w) /\ disk[j].st = "bound"
Fresh(j) == disk[j].n < MaxFresh[j]

(* The post may be delayed.  When the window ends before it, it is a stop  *)
(* that never arrives.                                                     *)
Take(w, j, kind) ==
    /\ ctl' = [ctl EXCEPT ![w] = [job |-> j, n |-> disk[j].n, kind |-> kind, ph |-> "wait"]]
    /\ stops' = stops \cup {<<j, disk[j].n>>}

(* Stopping a plan also ends the window's round before anything else.      *)
Stop(w, j) ==
    /\ ctl[w] = NoCtl /\ BoundHere(w, j) /\ disk[j].want = "none" /\ queueLock[opened[w]] = None
    /\ disk' = [disk EXCEPT ![j].want = "stop"]
    /\ Take(w, j, "stop")
    /\ FenceRound(w, sends[w])
    /\ UNCHANGED <<managed, opened, locks, posts, task>>

Recall(w, j) ==
    /\ ctl[w] = NoCtl /\ BoundHere(w, j) /\ disk[j].want = "none" /\ queueLock[opened[w]] = None
    /\ Fresh(j)
    /\ disk' = [disk EXCEPT ![j].want = "recall"]
    /\ Take(w, j, "recall")
    /\ UNCHANGED <<managed, opened, local, locks, posts, task>>

(* A later round, or another window, takes up an intent on disk.           *)
Resume(w, j) ==
    /\ ctl[w] = NoCtl /\ BoundHere(w, j) /\ disk[j].want # "none"
    /\ Take(w, j, disk[j].want)
    /\ UNCHANGED <<managed, opened, disk, local, locks, posts, task>>

(* retryPulledJob(): of a command that has ended or is cancelled.          *)
Requeue(w, j) ==
    /\ ctl[w] = NoCtl /\ BoundHere(w, j) /\ Fresh(j)
    /\ task[<<j, disk[j].n>>] \in {"ok", "failed", "partial", "cancelled"}
    /\ Take(w, j, "requeue")
    /\ UNCHANGED <<managed, opened, disk, local, locks, posts, task>>

Target(w) == <<ctl[w].job, ctl[w].n>>
At(w, ph) == ctl[w] # NoCtl /\ ctl[w].ph = ph

Confirm(w) ==
    /\ At(w, "wait") /\ task[Target(w)] = "cancelled"
    /\ ctl' = [ctl EXCEPT ![w].ph = "confirmed"]
    /\ UNCHANGED <<managed, opened, disk, local, locks, posts, stops, task>>

(* The deadline passes, or a query fails; the intent stays on disk.        *)
GiveUp(w) ==
    /\ At(w, "wait")
    /\ ctl' = [ctl EXCEPT ![w] = NoCtl]
    /\ UNCHANGED <<managed, opened, disk, local, locks, posts, stops, task>>

(* The queue is read again: if the row still has the command, it is        *)
(* removed, or goes back to the queue under a new command id.              *)
Settle(w) ==
    LET j == ctl[w].job
        same == disk[j].st = "bound" /\ disk[j].n = ctl[w].n
    IN  /\ At(w, "confirmed") /\ queueLock[opened[w]] = None
        /\ disk' = IF ~same THEN disk
                   ELSE [disk EXCEPT ![j] = IF ctl[w].kind = "stop" THEN Gone(@.n) ELSE Pending(@.n + 1)]
        /\ ctl' = [ctl EXCEPT ![w] = NoCtl]
        /\ IF same /\ ctl[w].kind = "requeue" THEN FenceRound(w, sends[w]) ELSE UNCHANGED local
        /\ UNCHANGED <<managed, opened, locks, posts, stops, task>>

(* A job that has no command needs nobody's answer to be removed.          *)
RemovePending(w, j) ==
    /\ j \in Mine(w) /\ disk[j].st = "pending" /\ queueLock[opened[w]] = None
    /\ disk' = [disk EXCEPT ![j] = Gone(@.n)]
    /\ FenceRound(w, sends[w])
    /\ UNCHANGED <<managed, opened, ctl, locks, posts, stops, task>>

(* A plan is submitted: its job is appended to whatever is on disk.  After *)
(* a removal it is a new workflow, with a command id of its own.           *)
Append(w, j) ==
    /\ j \in Mine(w) /\ disk[j].st = "gone" /\ Fresh(j) /\ queueLock[opened[w]] = None
    /\ disk' = [disk EXCEPT ![j] = Pending(@.n + 1)]
    /\ FenceRound(w, sends[w])
    /\ UNCHANGED <<managed, opened, ctl, locks, posts, stops, task>>

-----------------------------------------------------------------------------
(* The worker's scheduler serves one request at a time.                    *)
Serving == \A c \in Commands : task[c] # "opening"

Worker == UNCHANGED <<managed, opened, disk, local, ctl, locks, posts, stops>>

(* A start is remembered before its window is opened.                      *)
Accept(c) ==
    /\ Serving /\ c \in posts /\ task[c] = "new"
    /\ task' = [task EXCEPT ![c] = "opening"]
    /\ Worker

OpenWindow(c) ==
    /\ task[c] = "opening"
    /\ task' = [task EXCEPT ![c] = "live"]
    /\ Worker

(* A cancellation is remembered before the window is closed.               *)
Cancel(c) ==
    /\ Serving /\ c \in stops
    /\ task' = [task EXCEPT ![c] = "cancelled"]
    /\ Worker

\* Mutant: what was accepted is forgotten by the next process.
Restart_Forgets(c) ==
    /\ task[c] = "opening"
    /\ task' = [task EXCEPT ![c] = "new"]
    /\ Worker

(* The scheduler's process is replaced in the midst of an accept.          *)
Restart(c) ==
    /\ task[c] = "opening"
    /\ task' = [task EXCEPT ![c] = "closed"]
    /\ Worker

(* With exit code 0 and verified results, with another code, or with 0 and *)
(* results that are not complete.                                          *)
Finish(c) ==
    /\ task[c] = "live"
    /\ \E r \in {"ok", "failed", "partial"} : task' = [task EXCEPT ![c] = r]
    /\ Worker

(* The user closes a window, or a stop that found no scheduler did.        *)
CloseWindow(c) ==
    /\ task[c] \in Windowed
    /\ task' = [task EXCEPT ![c] = CASE @ = "ok" -> "closed ok" [] @ = "failed" -> "closed failed"
                                      [] OTHER -> "closed"]
    /\ Worker

(* A window ends with all it has in memory, and is opened again.           *)
Crash(w) ==
    /\ round' = [round EXCEPT ![w] = "idle"]
    /\ base' = [base EXCEPT ![w] = NoRows]
    /\ copy' = [copy EXCEPT ![w] = NoRows]
    /\ sends' = [sends EXCEPT ![w] = {}]
    /\ ctl' = [ctl EXCEPT ![w] = NoCtl]
    /\ Unlocked(w)
    /\ UNCHANGED <<managed, opened, disk, posts, stops, task>>

RoundStep(w) ==
    \/ Plan(w) \/ Prepare(w) \/ Publish(w)
    \/ \E d \in sends[w] : Guard(w, d) \/ Post(w, d) \/ Release(w, d)

WorkerStep(c) == Accept(c) \/ OpenWindow(c) \/ Cancel(c) \/ Restart(c) \/ Finish(c)

Next ==
    \/ Register
    \/ \E w \in Windows :
        \/ RoundStep(w) \/ Detach(w) \/ Confirm(w) \/ GiveUp(w) \/ Settle(w) \/ Crash(w)
        \/ \E j \in Jobs : \/ Stop(w, j) \/ Recall(w, j) \/ Resume(w, j) \/ Requeue(w, j)
                           \/ RemovePending(w, j) \/ Append(w, j)
    \/ \E c \in Commands : WorkerStep(c) \/ CloseWindow(c)

Spec == Init /\ [][Next]_vars

-----------------------------------------------------------------------------
TypeOK ==
    /\ managed \in BOOLEAN
    /\ opened \in [Windows -> Roots]
    /\ disk \in [Jobs -> Row]
    /\ round \in [Windows -> {"idle", "planned", "publish", "stale"}]
    /\ DOMAIN base = Windows /\ DOMAIN copy = Windows
    /\ \A w \in Windows :
          IF round[w] \in {"planned", "publish"}
          THEN base[w] \in [Mine(w) -> Row] /\ copy[w] \in [Mine(w) -> Row]
          ELSE base[w] = NoRows /\ copy[w] = NoRows
    /\ sends \in [Windows -> SUBSET [job : Jobs, n : Nat, card : Cards,
                                     ph : {"new", "armed", "unsent"}]]
    /\ ctl \in [Windows -> {NoCtl} \cup
          [job : Jobs, n : Nat, kind : {"stop", "recall", "requeue"}, ph : {"wait", "confirmed"}]]
    /\ queueLock \in [Roots -> Windows \cup {None}]
    /\ sharedLock \in Windows \cup {None}
    /\ posts \subseteq Commands /\ stops \subseteq Commands
    /\ task \in [Commands -> Tasks]

(* The jobs that were given consent never hold more slots of a card than   *)
(* it has, in whatever project, window or restart they were admitted.      *)
PromisesWithinQuota ==
    \A k \in Cards : Cardinality({j \in OnCard(disk, k) : disk[j].consent}) <= Quota

MayStart(c) == c \in posts /\ task[c] = "new"
Live(c) == task[c] \in {"opening", "live"}
Holds(c) == disk[c[1]].n = c[2] /\ Occupies(disk[c[1]])

(* A command that runs, or may still start, holds its slot on disk: the    *)
(* next window to count, after any crash, counts it.                       *)
RiskIsCounted == \A c \in Commands : MayStart(c) \/ Live(c) => Holds(c)

(* Two commands of a job, which write to the same outputs, never run       *)
(* beside each other, however the job was recalled or submitted again.     *)
OneTaskPerJob ==
    \A c, d \in Commands : c[1] = d[1] /\ Live(c) /\ (Live(d) \/ MayStart(d)) => c = d

(* What one window has saved of a command (that it is to stop, that it has *)
(* ended) no save of another window takes back.                            *)
FactsStay ==
    [][\A j \in Jobs :
        disk[j].st = "bound" /\ disk'[j].st = "bound" /\ disk[j].n = disk'[j].n =>
            /\ disk[j].want # "none" => disk'[j].want = disk[j].want
            /\ disk[j].proof => disk'[j].proof]_vars

Risk(c) == IF MayStart(c) THEN "may start" ELSE IF Live(c) THEN "live"
           ELSE IF task[c] = "new" THEN "calm" ELSE "spent"

(* The whole keeps the promise of SlotPromise.                             *)
Promise == INSTANCE SlotPromise WITH
    NoCard <- None,
    slot <- [c \in Commands |-> IF Holds(c) THEN disk[c[1]].card ELSE None],
    risk <- [c \in Commands |-> Risk(c)]
PromiseKept == Promise!Spec
=============================================================================
