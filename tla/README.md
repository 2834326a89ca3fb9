# SimpleExperiment: specifications, model checking and proofs

SimpleExperiment is a VS Code extension that runs experiments on servers: it uploads the code of a
project, dispatches the jobs of a plan to workers, watches them through tunnels, and collects their
results.  It ships with a second plugin, SimpleSFTP, and updates itself together with it.  This
directory holds TLA+ specifications of the parts in which several windows, processes, promises or
requests can interfere, the TLC runs that check them on small instances, and proofs of some of their
properties for all instances.

Paths below are relative to the repository; `core/X.ts` stands for `src/core/X.ts` and so on.
`PROJECT.json` maps each definition to its lines and each hazard to the properties about it.

Contents: 1 the system, 2 the modules, 3 the runs, 4 what the runs disagree with, 5 the proofs,
6 what is left out, 7 the plan.

## 1. The system

### 1.1 Parts that are modelled

| Part | State | Operations | Correct when |
|---|---|---|---|
| Resource leases, `core/ResourceOperationLease.ts` | one registry file per window, in two slots; the copy in memory; handles | acquire (a bakery over the files), heartbeat, release | no two handles on overlapping paths can both prove themselves; an expired lease stays expired; a crashed window blocks nobody for ever |
| Host lease, `core/HostOperationLease.legacy.ts` | one file at a fixed path, one recovery slot, sessions with a count of handles | acquire with takeover, heartbeat, release | one window at work; a stale handle neither proves itself again nor harms its successor |
| Operation queue, `core/OperationQueue.ts` | waiting and running requests, key counters, coalesced promises, history | enqueue, cancel, timeouts; `run()` may call back in | keys exclude; nothing that could run is left waiting; every promise settles; the history tells the truth and stays short |
| Paired update, `updates/Bootstrap.ts`, `updates/UpdateTransaction.ts` | journal in globalState, gate, blocked windows, versions on disk and in the hosts | check, install, activate after a reload or crash | a half-installed pair is never forgotten or overwritten, and business stays closed until a reload |
| Update gate, `updates/UpdateGate.ts` | the v1 file as gate, the registries of all windows, the probe of their processes | begin, wait, end | the installation starts only when every operation has ended |
| Dispatch handoff gate, `features/DispatchHandoffGate.ts` with its callers in `extension/legacy.ts` | uploads, handoffs, unknown writes, target leases | code synchronisation, dispatch round, manual send, observation | no two writes to one directory, no job sent into a write or written into |
| Plan dispatch: the queue file and its saves (`extension/legacy.ts`, `features/DistributedPlanQueue.ts`), `project/UnifiedDispatchAdmission.ts`, `features/PulledTaskControl.ts`, `runtime/TmuxTaskLifecycle.ts` | rows of a project's queue file, the copies of dispatch rounds, two leases, requests under way, tasks and their windows on the worker | plan, save with admission, send, give back, stop, recall, requeue, remove, append; accept, run, cancel and restart on the worker | whatever runs or may start holds a slot on disk; no card is promised to more jobs than it takes; a job never runs twice at a time; no save undoes another's |
| Panel state flow, `features/PanelStateFlowControl.ts` with the provider in `extension/legacy.ts` and the document in `ui/PanelHtml.legacy.ts` | one outstanding state, what is remembered meanwhile, timers, the document's generation; what the document has received and rendered | post, answers of posts and of documents, heartbeat, recovery, hide, show, reload | what counts as rendered has been rendered; a panel in view shows the newest state in the end |

### 1.2 How they interact

* Every operation with side effects first looks at the v1 file (`legacyGuard()`), then takes a
  resource lease, and proves it again before each step (`assertOwned()`).  The v1 file belongs to
  older versions of the plugin and, since the paired update, is also the gate of the update: the
  registries and the file are two separate resources which no lock covers together.
* The update takes the host lease, then waits for all registries to show no operation whose process
  may run, then downloads, verifies and installs both packages, and asks for a reload.
* The operation queue is per process.  The work it runs takes the leases.
* A code synchronisation announces itself in the handoff gate and takes target leases, which are in
  memory; a dispatch round looks at the gate before it registers and again before it sends.
* A dispatch round saves the queue file of its project under the lease of that file, and under a lease
  that all projects share when it admits jobs; it reads the other projects' files then.  The worker is
  asked by messages whose answers count for nothing; later rounds ask what became of a job.
* Every change of the state is posted to the panel, one state at a time, and the panel's document tells
  what it has rendered.

### 1.3 What is hard

* **Interleaving**: three files of the leases are written without a common lock, by several windows.
* **Atomicity**: a registry is two files that are replaced one after the other; a takeover is an
  inspection, a rename and a creation; a heartbeat is a check followed by a write to an open file.
* **Crashes**: at any step of a window, between creating a file and writing it, and between the
  installer's change of the disk and its receipt.
* **Time**: times-to-live, heartbeats that may be late, waits with budgets.  No clock is tied to the
  progress of a window.
* **Partial failure**: one of two packages, one slot of a registry, one of several uploads; an upload
  or a request whose outcome is unknown and which may still be going on.
* **Re-entrancy**: `run()` of an operation is called synchronously from the queue's `pump()`.

### 1.4 Parts that are not modelled

| Part | Why |
|---|---|
| Replacement of a request by its retry (`core/SafeRequestRetry.ts`) | next in the plan, section 7 |
| Snapshot writer and shared reads | a few lines each, in the form of parts of PanelFlow and OperationQueue; what they write and read are caches |
| State files (`state/StateStore.ts`) | replaced atomically with a guard before the rename, as the queue file in PlanDispatch |
| Request budget, realtime clients, agent state and merge | observation only: PlanDispatch lets a report be any true observation, late or missing |
| Limits on concurrent work (`RateLimiter`, `FileTransferQueue`) | simple forms of the operation queue |
| GPU quota and memory scheduling | sequential choices over a snapshot; PlanDispatch lets them give a pending job any card |
| Agent and scheduler runtimes | programs of their own that run on the workers, generated as text; of them PlanDispatch has the task life cycle |
| Extension host | connects the parts to VS Code; its code synchronisation, its dispatch round and its panel provider are in DispatchHandoff, PlanDispatch and PanelFlow, the rest is the environment of the modules |
| Panel, command line, local API, plans, drafts, results, plots | layout, parsing and files; sequential |
| Tunnels and SSH sessions, release client, package verification, branches, configuration, diagnostics | input and output around the modelled parts, or sequential |

## 2. The modules

Each module holds one component: variables, `Init`, one action for each operation or for each step
between two awaits of it, `Next`, `Spec`, and `FairSpec` where a property needs fairness.  Mutated
definitions (`X_Name` before `X`, with a comment "Mutant:") are used by no specification: each one
put in the place of `X` breaks a property, which shows that the property depends on the code.

`MC*` modules give values to the constants that a `.cfg` cannot express.

### 2.1 ResourceLease

One window is one `exclusive()` queue of `ResourceOperationLeaseManager`: `pc` says what it is doing,
`want` for which operation.  A registry is a record of its ticket, its `choosing` flag, the expiry of
its admission, and the expiry of each operation's lease.  `reg` is the copy in memory, `side` the
`.ownership` slot, `main` the registry slot; `write()` is two actions.

| Code | Actions |
|---|---|
| `admission()` | `BeginAdmission`, `ReadRow` (once per registry), `TakeTicket`, `PollAgain`, `Wake`, `Refuse`, `Grant` |
| its `finally` block | the last two, `WriteFails`, `AdmissionThrows` through `Abandon` |
| `write()` | `WriteOwnership`, `WriteRegistry` |
| `heartbeat()`, `release()`, `assertOwned()` | `Heartbeat`, `Release`, `Owned` |
| the outside | `Tick`, `LegacyLease`, `Damage`, `Crash` |

The reads of one `rows()` are separate steps in any order.  A read falls back to the ownership slot
when the registry slot is damaged or was replaced after `rows()` opened it.  A file that does not
exist reads like an idle registry, so `reuseIdleRegistry()` changes nothing that can be observed.
An `acquire()` inside `run()` of its parent changes no state.

Two of the properties have the proviso `late`: the code checks an expiry, awaits, and acts; if a
time-to-live passes in between, another window may rightly have counted the lease or the admission
as ended.  `late` becomes true exactly in these cases (`Overruns`, `DecidesLate`), and not because a
property fails.  The most likely one: an admission is not renewed while its window waits, and both
last 30 seconds.

### 2.2 HostLease

A file is named by the call that creates it, since a call creates at most one.  `lease` and `slot`
are the files at the lease path and at the recovery path; a rename moves a file from one to the
other; a patch of an open file reaches it wherever it is.  `Create`/`Fill`, `Inspect`, `CheckSlot`,
`Move`, `Recreate`/`Fill` are the steps of one attempt, `Reenter` the return of a second handle on
the window's session.  `Heartbeat`/`Patch` and `Release`/`Expire` are a check and a later write.

Three history variables say what has disturbed the calls.  `overran`: a time-to-live passed while a
handle was in use or a file was about to be written.  `swept`: a takeover moved a record that it had not inspected,
another file or one that was renewed since (`found` is what it inspected, as long as nobody renews it).  `undercut`: a release ended a record
that its window had joined again (`JoinedLater`): the session leaves the map
(`core/HostOperationLease.legacy.ts:306`) before the record is ended, so that a call in between finds the live
record of its own window and makes a session of its own on it.

### 2.3 OperationQueue

A request is a call of `enqueue()`.  A turn of JavaScript is run to completion, but `pump()` calls
`run()` synchronously, and `run()` may enqueue or cancel before it first awaits.  `stack` holds these
calls; `Refuse`, `Join`, `Accept` and the cancellations are allowed at the bottom (an event) and
inside a `run()`.  Lists are filtered by `Without`, which is `SelectSeq` without its recursion (5.6).
A cancelled or timed-out request keeps its promise open until its work settles; cancelled work may resolve, and its
promise then resolves under the record `cancelled` (`core/OperationQueue.ts:180`).
`Settle` is the `finally` block, `Clear` the reaction that frees a coalesce key.

### 2.4 PairedUpdate

A window is a host with the versions it has loaded; `disk` changes with every installation.  A
transaction is a walk through `chosen, gate, wait, prepare, verify, install, receipt, reload` with
`fail` as the `catch` and `finally` blocks; the journal is saved where the code saves it.  `Restart`
is `registerUpdater()` after a crash or a reload.  The gate is an exclusive lock here (HostLease has
the protocol), the wait for operations is one step (UpdateGate has the rounds).  The fingerprint of a
batch is compared as the batch itself, with the versions that it replaces.

### 2.5 UpdateGate

`wait()` reads the registries one after the other (`ReadSlot`), asks once for the start times of all
suspects (`Probe`), and returns, polls again or gives up.  The hosts are the part of ResourceLease
that `wait()` can see: a registry that shows an admission or a lease, in two slots.  Processes exit
at any step, and their pid may be given to another program or host.  `old` holds the operations that
were declared when the gate was taken, `slipped` that one was between its check of the v1 file and
its declaration then, or that the gate's own record lapsed.  The module is composed with the others
by its environment: conflicts of targets and the order of admissions are ResourceLease's, the v1 file
HostLease's, what follows is PairedUpdate's.

### 2.6 DispatchHandoff

One project root.  `sync` is the step of the one code synchronisation that can run at a time,
`branch` the step of each worker in it; `phase` and `batch` are the dispatch round, and `Manual`
commands are sent by hand outside it.  An action is a turn, or the end of a remote operation.

| Code | Actions |
|---|---|
| `beginUpload()`, `waitForBlockingClear()`, `endUpload()` | `Begin`, `Woken` (in the turn in which a handoff ends), `End` |
| the code was found to be the same | `Same` |
| preparation: `noteUploadTarget()`, `takeoverCodeUploadTargetLocal()` | `Confirm`, `Note`, `Prepare`, `Prepared` |
| copying: `resolveUnknownCodeWrite()`, `acquireTargetLease()` | `Acquire`; `Defer` when the unknown write is not resolved, since the preparation found the same upload at work there |
| `upload.workspace` | `Write`, then `Return` or `Lose`; `RemoteEnds` for a write whose result was lost |
| `markWorkerUploadState()`, `fenceTargetLease()`, `releaseTargetLease()` | in `Prove`, `Lose`, `Finish` |
| dispatch round | `Register`, `Admit`, `Send` or `Unsent`, `Commit`, `EndRound` |
| `releaseHandoffsOnObservation()` | `Observe` |

`LanesInUse` says that a free lane is used at once: `mapLimited()` starts the next branch in the
turn in which another ends.  A dispatch round is admitted whenever the gate alone would admit it, so
the model has more behaviours than the code, which also refuses rounds for other reasons.

The proviso `stale` (an unknown write was taken for ended and was not) belongs to two observations of this code.
A branch takes the unknown write of its target for ended because the target was found quiet when it was
prepared.  All preparation precedes all copying, so with three branches and two lanes the unknown write may be one
that was begun by the same synchronisation *after* that evidence (`extension/legacy.ts:13376`).  And a branch
goes on over a write that is not known to have ended when the user allows it, or when the write is older than three
hours (lines 13131 and 13149), so that `Prepare` asks nothing of the writes in progress.
The comment of `resolveUnknownCodeWrite()` asks for "real query evidence".

### 2.7 PlanDispatch and SlotPromise

One server with several cards, projects with a queue file each, windows that each have one project
open, jobs of the automatic queue under lifecycle protocol 2.  A row on disk is `pending`, `bound` to
a command and a card, or `gone`; its status is not kept on disk, since `clearNativeProjection()` drops it.
`copy` is what a dispatch round will save and `base` what it has loaded, `sends` what it will send
once that is saved, `ctl` a stop, recall or requeue that a window is at.

| Code | Actions |
|---|---|
| the round of `runDistributedQueue()`: load, merge what was reported, choose cards | `Plan` |
| `saveDistributedQueue()` with `admitDispatchIntents()` | `Prepare` up to the rename, `Publish` from `beforeRename` |
| `startDistributedJob()`: guard, request | `Guard`, `Post` |
| `releaseUnsentDistributedJob()` | `Release` |
| stop, recall, `retryPulledJob()`, and their continuation in a later round | `Stop`, `Recall`, `Requeue`, `Resume`; `Confirm`, `GiveUp`, `Settle` |
| removal of what was not sent, submission of a plan | `RemovePending`, `Append` |
| registration of a second project | `Register` |
| `TmuxTaskLifecycle` on the worker | `Accept`, `OpenWindow`, `Cancel`, `Restart`, `Finish`; `CloseWindow` by a user |
| the end of a window | `Crash` |

How the actions are cut:

* A load is one step with the plan made on it.  The save at the end of a round writes what its
  admission wrote, and is left out.  Posting a stop is one step with saving the intent; a post that
  never arrives is a post that the worker never takes.
* `Publish` checks the generation (`stale`) and the file again, in the order of the code.  A stop or recall changes
  the generation before it waits for any lease (`Detach`), so that it may hit a save between its two halves.
* A hash of the command id keeps two commands of one job apart: a command is a job and a number.
  A consent or a proof that stays with the row under a new command matches nothing and is dropped.
* A blocker in the admission denies every job (`Granted` has the empty set).  Without a managed
  domain there is neither consent nor quota.
* `FenceRound` is a change of the generation: it ends the round of the window and all its dispatches
  that are not posted; those that were armed go back to the queue, the others keep their slot.

`SlotPromise` is the abstract specification: a command takes a slot before it may start, starts and ends once, and gives
its slot back only when nothing can run; under a common domain no slot is given on a full card.
`PlanDispatch` implements it (`PromiseKept`) with `slot` and `risk` as functions of the rows
on disk, the requests under way and the tasks.

Two observations without a property: a failed task whose window was closed before any clean
observation keeps `startIntent`, so that its slot stays taken although a terminal proof is there.
And the guard before sending comes before several awaits, so that a domain which becomes managed in
between lets a command without consent be posted; `RiskIsCounted` shows that it is counted all the same.

### 2.8 PanelFlow

`host` is the provider, `doc` the document in the view, `wire` and `back` the messages on their way,
`calls` the posts whose promise is open.  The functions of the provider are operators from the
provider to the provider, nested as the calls are, and an action is one turn.

| Code | Operators and actions |
|---|---|
| `PanelStateFlowControl` | `SetVisible`, `Request`, `Failed`, `Delivered`, `Accepted`, `Rendered` |
| `postState()`, `flushStatePost()`, `completePost()`, `reportPostError()` | `Post`, `Flush`, `PostTaken`, `PostFailed`; `Change`, `TimerFires`, `RetryFires`, `Taken`, `Refused` |
| messages of the document | `HearReady` and `Greet`, `HearVisibility`, `HearRendered`, `HearBeat`, `Drop` |
| heartbeat and watchdog | `Stalls`, `Watchdog`, `Recover` |
| the view | `Resolve`, `Dispose`, `Hide`, `Show` and `ProbeTaken`, `Reload` |
| the document's script | `Start`, `Receive`, `Frame`, `FrameFails`, `DocumentHides`, `DocumentShows`, `Beat` |

Only states that are sent have a sequence number, and `attempt` is the number of the post whose
answer counts (`attemptId`).  A heartbeat that is not answered, or three without progress, is the fault
`Stalls`; a heartbeat is answered when nothing else is on the way back, as it comes every half a minute.
Its answer (`Health`) is `ok` only of a document that has rendered and had a frame lately, and may always be
`unknown` instead, which neither shows nor recovers anything.
A document starts visible.  A `state` message carries no generation, so that a new document may get
one that was sent to its predecessor.

## 3. The runs

| Run | Bounds | Shows |
|---|---|---|
| `lease` | 2 windows, one with two operations, 1 fault, `AdmissionTtl` 1, `LeaseTtl` 2, 2 ticks | `NoConflictingHolders`, `NoOrphanLease`, `NoRevival` |
| `lease_recovery` | 2 windows, one crashes at any step, sharing violations | `LastWindowIsGranted` (liveness) |
| `host_shared` | 2 calls of one window and a third, torn files, late heartbeats, a crash | `SingleUnlessDisturbed`, `LostStaysLost`, `StaleHolderHarmless`, `RecoversFromCrash` (liveness) |
| `host_takeover` | 3 calls of 3 processes, no crash | violates `SingleHolder` |
| `queue` | 4 requests, 2 keys, 2 priorities, a shared id, a shared coalesce key, history 2, 2 may wait | safety, order, history, and `EventuallyAnswered`, `KeyIsFreed` (liveness) |
| `update` | one window with 2 releases, 3 faults, 3 crashes; two windows with 1 fault, 1 crash | `OneInstaller`; durability and order of the transaction and `BlockedEndsAlone` (liveness) with one window |
| `update_stuck` | 1 window, 1 fault, 1 crash | violates `BlockedEnds` |
| `gate` | 1 pid that exits and is replaced, budget 2, margin 1, 4 ticks | `OldOperationsEnd`, `GateExcludes`, `WaitEnds` (liveness) |
| `gate_race` | 1 pid, no lapse, no reuse | violates `InstallExcludesOperations` |
| `handoff` | 3 workers, 2 in one directory, 2 lanes, 2 synchronisations, 1 job of a round, 1 by hand | `OneWriterUnlessStale`, `JobsAndCodeApart`, `WaitsHaveHolder` |
| `plan` | 2 projects with a job each, 1 card that takes 1 job, 2 windows, 1 new command | `PromisesWithinQuota`, `RiskIsCounted`, `FactsStay`, and the refinement `PromiseKept` |
| `panel` | 2 contents, 2 retries, 2 events of any kind (change, hiding, fault) | `BeliefIsTrue`, `EventuallyShown` (liveness; a retained panel that is taken for hidden is excepted, section 4) |

### 3.1 Why the bounds are enough

* **lease**: an admission is decided between pairs of windows.  Two operations of one window are
  needed for a heartbeat or a renewal to meet an admission of the same window.  `LastBegin` ends
  new admissions.  `MaxTicket` 2 gives a ticket below, equal to and above another one; larger ones
  repeat the comparison.  Two ticks pass both times-to-live.  The clock is independent of the
  windows, so every expiry can fall between any two steps.  A third registry adds reads and no new
  relation between two windows, except for chains of conflicts, which the mutual exclusion of
  admissions does not depend on; 5.4 proves the safety properties for any number of windows.
* **host**: three calls are the fewest that can move a wrong file: one to inspect, one to take over,
  one to meet the empty path.  `MaxTries` (12 in the code) is 1 or 2: an attempt keeps nothing from
  the one before.
* **queue**: four requests give a chain of conflicts over two keys, a higher priority that arrives
  late, a request that joins, and records beyond the history limit.
* **update**: a failed attempt, a crash in its retry and a crash in what follows need three crashes;
  two releases let a batch be replaced.  Two windows race for one gate with one fault and one crash,
  which is a failed loser or a winner that is gone; `MCPairedUpdate` chooses one window or two at the start.
* **gate**: an operation is judged by its own registry and its own process, so that several pids add
  only the order of reads.  For any number of pids the safety properties are proved.
* **plan**: two jobs that contend for the one slot of a card, in one window or two, of one project
  or two.  A command id of its own after a recall is what tells a late request from a new one; the
  third command of a job repeats this.  User actions are in one window, so that the other one has
  its rounds and what it takes up from disk.  Messages stay in `posts` and `stops` for ever: they may
  come late, twice, or after anything else.
* **panel**: two events (changes of the state, hidings and reloads, faults) in any order with
  everything that follows from them by itself, and two retries of a post.  Sequence numbers are bounded by these.
* **handoff**: two workers of one directory and one of another are the fewest with a third branch
  that starts late on two lanes; two synchronisations are the fewest with an unknown write from an
  earlier one.

The system may stop in all modules but UpdateGate: windows need not ask for anything, and calls come
to an end.  `CHECK_DEADLOCK FALSE` is set there and only there.

### 3.2 Fairness

* ResourceLease: the event loop of a running window goes on with what it has begun, and time passes.
  Nothing forces a window to ask, renew or release.
* HostLease: an `acquire()` that has begun goes on while its process runs.
* OperationQueue: a turn and the reactions of a settled promise run, and all work settles.  The last
  is a condition on the callers and not on the queue: a timeout does not stop the work.
* PairedUpdate: a window checks on activation and by a timer; a transaction goes on; and the user
  confirms what is offered (strong fairness of `Choose` and `Check`, since crashes and the check's
  own steps disable them again and again).  The user's part is an assumption of `BlockedEnds`.
* UpdateGate: `wait()` polls by a timer and time passes.  Operations need not end.
* PanelFlow: timers fire, promises of posts resolve, a document that is loaded starts, gets its
  messages and renders (`Progress`), the provider gets the messages of documents (`Hear`), and the
  heartbeat comes and is answered (`Beat`), as its interval does while the view is shown; nothing is
  assumed of what it answers where the document may not know.  Nobody has
  to show, hide or reload anything: `EventuallyShown` allows the panel to be hidden instead.

## 4. What the runs disagree with

Three runs end in a violation: the property is what a document of the repository says, the code does
something else.

* **`host_takeover`, `SingleHolder`.** `acquire()` inspects the file, checks the slot, and renames
  whatever is at the path by then (`core/HostOperationLease.legacy.ts:197`).  Calls A and B find an
  expired file; A takes over and works; B's rename moves A's live record away, and B creates its
  own.  A notices at its next heartbeat.  `docs/target-plans/docker-codex-plugin-compat.md:61` says that only
  one window may hold the lease.  While heartbeats come in time, `SingleUnlessDisturbed` shows that there is one other way:
  a release that ends a record which its window has joined again.  Call 1 of a window releases and its session leaves the map; call 2 of
  the window finds the live record and works on it; the release of call 1 ends the record; a third call,
  of another window, takes it over.  The run `host_shared` has these states.
* **`update_stuck`, `BlockedEnds`.** An installation fails after it was asked for; the retry saves a
  journal with status `preparing` that keeps `installationRequested`; the host reloads.  The new host
  blocks business because of `installationRequested` (`updates/Bootstrap.ts:55`), and neither
  `checkCore()` nor `installCore()` takes up the status `preparing` (lines 94 and 142).
  `docs/mac-update-port.md:11` says that after the reload the user is asked to complete the batch.
* **`gate_race`, `InstallExcludesOperations`.** An operation checks the v1 file, the gate is taken,
  `wait()` finds all registries idle, and the operation publishes its admission and runs during the
  installation.  Its later checks let the update's record pass.  `docs/mac-update-port.md:11` says that
  existing operations are waited for.  `GateExcludes` shows that the
  only other way is a lapse of the gate's own record.

Other behaviour that a reader of the code should know of, without a run of its own:

* With sharing violations `rows()` may combine the newer ownership slot of one poll with the older
  registry slot of the next.  Exclusion may then break; the run `lease` leaves sharing violations out, only
  `lease_recovery` has them.
* A heartbeat of the host lease that is in flight during the release of its own session extends the
  released record by one time-to-live.
* The recovery slot is not reused while it names a running process or holds an empty file; takeovers
  are refused as long (`RecoversFromCrash` has both as provisos).
* A panel that is retained while hidden (`panel.retainContextWhenHidden`, by default off) may stay in view without
  the newest state.  When the view is hidden, the provider takes the document for hidden; when it is shown again, neither the
  probe nor a late `webviewReady` posts to a document that is taken for hidden.  Mostly the document's own message
  corrects this.  If the document never noticed that it was hidden (it had just started), no such message comes, and
  heartbeats help only if one is answered with `ok`: a document that has not rendered answers
  `unknown`, and so does one whose last frame is older than 15 seconds (`ui/PanelHtml.legacy.ts:4628`), while heartbeats come
  every 30.  `docs/plugin-stability-improvement-plan.md:391` says that hiding and showing only restores the UI and fetches
  the latest state.  `EventuallyShown` has `TakenForHidden` as its proviso for this; TLC refutes it without.
* Two windows of the paired update write one journal.  A window reads it before it asks for the gate
  (`updates/UpdateTransaction.ts:40` and 51), and the one that is refused saves its own as failed
  over the one of the window that has the gate (lines 81 to 83); a freshly reloaded window may clear a journal
  another one still works on.  `ClosedUntilReload`, `PartialIsDurable`, `BatchIsNotReplaced` and
  `BlockedEnds` are therefore checked for a window that is alone (`MCPairedUpdate`), `OneInstaller` for both.
* `commitDispatchHandoffLocal()` gives up the handoffs of a round while their requests may still be
  on their way; the worker's check of the code version is then what protects the job.
  `JobsAndCodeApart` leaves out these commands (`committed`).
* `waitForBlockingClear()` looks at handoffs by worker and `uploadBlocksWorker()` by directory, so
  that an upload does not wait for a job of another worker in the same directory.  The part of
  `JobsAndCodeApart` about writes is therefore about a worker's own upload.

## 5. The proofs

The proofs are checked by `tlapm` for all values of the constants that satisfy the `ASSUME`s of their
modules; TLC evaluates these in the runs.

| Module | Theorem | Argument |
|---|---|---|
| `ResourceLease_proofs` | `TypeCorrect`: `Spec => []TypeOK` | `TypeOK` alone is not inductive, since a write may publish a lease for `want`: `WorksForAnOp` adds that a queue at work has an operation unless it leaves or releases |
| `ResourceLease_proofs` | `NoOrphanLeaseHolds`: `Spec => []NoOrphanLease` | the write that publishes a lease comes after the grant that made it: `Accounted` says that an unexpired lease in memory belongs to a handle or to a grant that is being written, and one on disk to a handle or to a release that is being written |
| `ResourceLease_proofs` | `NoRevivalHolds`: `Spec => NoRevival` | a heartbeat checks the disk and extends the copy in memory; `NoneOverrun` says that a handle's lease which has expired on disk has expired in memory too, so that the renewal inside a wait passes it by |
| `ResourceLease_proofs` | `NoConflictingHoldersHolds`: `Spec => []NoConflictingHolders`, if `~SharingViolations` | 5.4 |
| `OperationQueue_proofs` | `ExclusiveAccessHolds`: `Spec => []ExclusiveAccess` | `CanRun` looks at counters, not at the running requests; `CountsTell` adds that a key's counter is 0 or 1 and is 1 exactly if a running request has the key |
| `OperationQueue_proofs` | `NoIdleWorkHolds`: `Spec => []NoIdleWork` | while calls are in progress requests may wait that could run; `IdleInv` adds that the stack, unless empty, has a `pump()` at its bottom, which returns only when no request can run |
| `OperationQueue_proofs` | `TypeCorrect`, `ActiveIsListedHolds`, `RecordFitsAnswerHolds`, `NoOvertakingHolds`, `HistoryIsShortHolds`, `NoPromiseForgottenHolds`, `KeysAreClearedHolds`, `AnswersLastHolds` | 5.6 |
| `HostLease_proofs` | `LostStaysLostHolds`: `Spec => LostStaysLost` | a lost handle could recover only if its file came back to the lease path or its session went to another file; `FilesOnce` says that a call which may still create its file has not written it, and `SessionsMade` that the session of a handle in use belongs to a call past its attempts, with a written file |
| `HostLease_proofs` | `SingleUnlessDisturbedHolds`: `Spec => []SingleUnlessDisturbed` | while nothing was overrun, swept or undercut, every running call is `Sound`: the file it is writing is at the lease path with its whole life ahead; the file of the session it works on is there, unexpired, and that session is the one its process has registered; and a file it is about to take over is expired or its process gone. So two working calls are of one file, hence of one window, however many calls a window has. The histories never come back once lost, so the proof of a step may use them before it |
| `HostLease_proofs` | `TypeCorrect`: `Spec => []TypeOK`; `StaleHolderHarmlessHolds`: `Spec => StaleHolderHarmless` | a release writes to its file some time after it has checked it: `OwnFiles` says that its session has no handle then, `HandlesCounted` that the count of a session is the number of its handles, so that the last one is the last, and that a registered session has one, so that the released session gets none again. A heartbeat writes to its session's file, which is its window's. While nothing has disturbed the calls, `Sound` says that all handles on a file are of one session, so that a release sets out to end it without any other handle on it |
| `PairedUpdate_proofs` | `OneInstallerHolds`: `Spec => []OneInstaller` | no guard compares the steps of two windows; `HasGate` says that a window between the gate and its reload has the gate, and nobody else's failure, crash or check takes it away |
| `PairedUpdate_proofs` | `TypeCorrect`: `Spec => []TypeOK` | the steps read the transaction of their window: `TypeInv` adds that one which is not idle has it, and has a package left to install from the request to the receipt |
| `PairedUpdate_proofs` | `ClosedUntilReloadHolds`, `PartialIsDurableHolds`, `BatchIsNotReplacedHolds`: `MCSpec => []ClosedUntilReloadAlone`, and so on | 5.5 |
| `UpdateGate_proofs` | `GateTypeCorrect`, `OldOperationsEndHolds`, `GateExcludesHolds` | 5.1 |
| `PlanDispatch_proofs` | `TypeOKHolds`, `RiskIsCountedHolds`, `OneTaskPerJobHolds`, `FactsStayHolds`, `PromisesWithinQuotaHolds`; `PromiseKeptHolds`: `Spec => PromiseKept`, the refinement to `SlotPromise` | 5.2 |
| `DispatchHandoff_proofs` | `TypesHold`, `OneWriterHolds`, `WaitsHaveHolderHolds`, `JobsAndCodeApartHolds` | 5.3 |
| `PanelFlow_proofs` | `TypeCorrect`: `Spec => []TypeOK`; `BeliefIsTrueHolds`: `Spec => []BeliefIsTrue`; `NothingForgottenHolds`: `Spec => []NothingForgotten` | 5.7 |

### 5.1 The update gate

`UpdateGate_proofs` has one invariant in four parts.  `HostInv`: while an operation is declared, both
slots of its host show it, with a time no earlier than the start of its process.  `OldIsWatched`:
during a wait, an old operation is unread in this round or is a suspect whose bound is no earlier
than the start of its process.  So the probe can neither say that the process is another one nor
that it has exited, and `OldOperationsEnd` holds when `wait()` returns.
`OthersAreKeptOut`: while nothing slipped in, every busy host is an old one.  `GateExcludes` follows.
The proof uses of the bound only that it is no earlier than the file's time, which a process writes
after it has started; the expiry and the margin allow for clocks that the model does not have.

### 5.2 The plan queue

The assumptions are `Bounds` and `Typing` on the constants and `FiniteJobs`, without which a card's rows
cannot be counted.  The invariants `IInv`, `QInv` and `PInv` extend one another.

`IInv` (`PlanDispatch_proofs`).  `RiskIsCounted` compares a task on the worker with a row on disk, but
between the two lie requests under way, copies of the queue in several windows, and stops
that may be about commands of earlier lives.  `Facts` is what is true of the disk whoever writes it: a
command above the row's number was never posted nor started, a pending row's was not, a task's command was
posted, and a proof of an end on disk is true.  `CtlIsTrue` says it of the stop that a window is at.
`CopiesAreFaithful` says it of what the windows hold: the copy of a round differs from what it loaded only
by what it has seen and what it may do, and what it loaded is no newer than the disk.  So a save that
finds the disk as it was loaded writes true facts, and one that finds it changed writes nothing.
Steps are of five kinds (a command is sent, a row is saved, a round saves, the worker works, or nothing
of these happens), and each part of `IInv` is shown kind by kind.

`QInv` (`PlanDispatch_proofs`).  Jobs are counted by the save that admits them and written later, by a rename
after an await.  `Counting` says why the count lasts until then: a round that is to dispatch holds the
shared lease (`SharedIsHeld`), what it will write takes no other slot (`RoundHolds`), consent is given
by the admission only (`ConsentIsGiven`), and all it has counted still fits (`CountLasts`).  Every step of
others is calm: it makes no free slot taken, since only the holder of the shared lease may, and a second
project registers only while nobody holds that lease.

`PInv` (`PlanDispatch_proofs`).  For the refinement a pending command must not start as one that
was cancelled: `StopsAreTrue` says that a stop never hits a command that waits in the queue,
however late it is, and `CancelsWereSent` that only stops cancel.  A step that posts maps to `Send`, a save to
`Assign`, a save of the admission to `Assign` of its jobs, the worker's to `Start` or `End`, the
registration to `Register`, and all others to a stutter.

### 5.3 Dispatch and uploads

`HInv` has a part for each side and one for both.  *Uploads*: `SyncTells` and `GoalTells` tie the steps of
the branches to that of the synchronisation and to what the gate says of their workers: until a write is
proved, the gate shows it.  `Leases` says that a held lease is either fenced for an unknown write or held by exactly one
branch (`HolderIsKnown`, `HolderIsAlone`), and that the line for it has exactly the branches that wait
(`LineIsTrue`, `LineIsWhole`); `WritesAreKnown` says that a write on a server is one of a branch at work or an
unknown one.  `OneWriterUnlessStale` is a part of the invariant: that a new write begins on a quiet
directory follows from the others.  *Dispatch*: `HandoffLasts` says that a request under way has its
handoff until the queue is saved, which neither the end of a round nor an observation takes away.  *Both*:
`NoneFlies` says that after the wait no unsaved job flies to a worker that is still to be written.  It
begins to hold when the last blocking handoff ends, in the turn in which the wait ends (`Woken`), and lasts
since the gate blocks sends to such a worker.  `JobsAndCodeApart` follows for each step.
Lanes play no part in the proof: the properties hold whatever number of branches run.

### 5.4 The bakery of the leases

`NoConflictingHolders` is about handles, the bakery is about windows, and between them lies what each
window has read of each other one some time ago.  `LeaseInv` is built from below.  *One window*:
`SlotsTell` says what its two slots show in each state of its queue: a waiting window shows its ticket in both,
one that takes a ticket shows `choosing` until the ticket is in the registry slot, and a grant shows
the ticket there until the lease replaces it in the same write.  `GrantsProtected` says that the
admission shown with a grant has not expired.
*Two windows* (`PairTells`): if `w`, whose admission lives, has read `v` in this round and not seen it ahead,
then `v` is `Behind`: it has yet to read `w`'s ticket, or has read it, or has taken one that comes after.
So `v` sees `w` ahead when it has read it, and every lease of an owner `v` was in what
`w` has read (`ReadTells`).  While `v` writes a grant, a window that enters the bakery either gets behind
it, or `v`'s registry slot is damaged and the ownership slot already holds the lease (`GrantTells`).
A registry that was replaced while `w` reads for its ticket may give `w` the older ownership slot;
`RaceTells` says that this is never the one of a grant, nor hides `w` from who has read it.
*Owners*: `Exclusive` says that owners, the handles together with the grants that are being written, never conflict.
Only a grant makes an owner, and `GrantExclusive` shows from `PairTells` that it saw every other one.
Ticks are calm: they only end leases and admissions, and `late` is set when one ends that is in use.

Each kind of step keeps `PairTells(w, v)` for a reason of its own, depending on whether `w`, `v` or neither takes it
(`FirstSteps`, `SecondSteps`, `CalmPair`).  The proof assumes `~SharingViolations`, as the run does: with
them the property is false (section 4).  Ticket bounds, numbers of windows and failures play no part in it.

### 5.5 The update of a window that is alone

`SoloInv` ties what has been asked of the installer to the journal and to the attempt under way.  It is proved
of `MCSpec`, for every number of releases, faults and crashes, as long as the one window that is open is `Only`.
*From the gate to the reload* the transaction is in the journal, so a request is durable before the installer starts.
*Between attempts* a request lives on in the journal only: an attempt confirmed then is about the journal's
batch and carries its request, or ends before the gate.  That is why a failure of such an attempt
keeps the gate although it asked for nothing itself.  *The end*: the host runs nothing newer than the disk, and
only what it does not run yet is installed, so when it finds the journal's batch finished, the disk has all
of it.  The assumptions are those on the bounds, and that `None` is neither a window nor a journal.

### 5.6 The operation queue

*Sequences.*  The code filters and sorts its lists.  The library's `SelectSeq` is recursive, and what a recursive
definition computes needs an induction that the prover cannot do.  `Without(s, gone)` is the same filter without
recursion: the positions that are left, taken in the order of their numbers.  `PlacesGrow` and `PlacesAreAll`
show that numbering them is one-to-one and onto; from this follow the elements of `Without` (`WithoutElements`)
and their order (`WithoutBefore`), and what enlisting a request and appending a record do to both.

*`ListInv`* ties the queue, the history and the callers together.  `ActiveIsListed` and `RecordFitsAnswer` are a
part of it: a record is dropped only if its status is terminal, an active request's status is not, and each
change of a status finds the record by the id of its request, which no other active request has.  `Sorted`
says that of two waiting requests the one in front has the better rank, or the same and the older record; so the
first request that can run is the one that `NoOvertaking` asks for.  `UntakenIsUnknown` says that a request that was
not taken has no status.  `HistoryIsShort` adds that a history over its limit lists no finished record: a trim drops as
many of them as there are records too many.

*`PromiseInv`* is the safety part of the two liveness properties.  A promise is open exactly while its request waits or
is at work (`OpenIsActive`), so that none is left behind and each settles once.  `run()` may throw, or cancel,
before the `enqueue()` that pumps has registered its promise; `KeysAreCleared` says that the clear reaction then
runs after the registration, since that is a reaction and the stack of calls must be empty.

### 5.7 The panel

A turn of the provider is a composition of operators.  Each of them keeps the provider sound (`Sound`: what is
outstanding is the last state posted, and none that was rendered), and all but an accepted answer and a new
document leave alone what counts as rendered.  `PanelInv` adds that a message on its way back which belongs to the
present document tells no more than that document has rendered (`Honest`), and that others belong to earlier
documents; so only true reports are credited, however late the others are.

`NothingForgotten` is the safety part of `EventuallyShown`: when nothing is under way (no timer, call, message,
state or frame), a panel in view shows the newest state.  It excepts two panels that nothing but a heartbeat
helps, one whose rendering failed and one that the provider wrongly takes for hidden; `Beat` is under
fairness in `FairSpec`, and only TLC shows that these end, the second if the panel is not retained.  By itself the property says nothing of the steps in
between, where the newest state is a flag of the provider, a timer, an open call, a state on the wire, or one
that the document has received.  `FlowInv` says for each of these who holds the state next:

* `Orderly`, of the provider alone: what is outstanding is outstanding in a ready and visible panel, what it
  has left to post is pending, and it has posted nothing to a panel that was not ready.
* `Steady`, of the provider towards its document: a ready panel in view to which nothing was posted will be
  greeted or probed; what is pending has a timer, a call, an outstanding state or a greeting that takes it up; and
  if nothing is pending, the newest state is the one that the document would show in the end (`Upcoming`),
  and the signature of the last accepted post is not that of another (so that `Unchanged` drops nothing).  A state that
  a hidden document has received without a frame (`Lost`) is posted again.
* `Matches`, `Tells`, `Arrives`, `Renders`, `Outstanding`, `Decided`, of the document and the messages: a document that
  has started and is not known as ready has said so, and one that hides has too, after anything it said of being
  shown (`HiddenLast`); states come in their order, the last post being the last of them; an
  outstanding state is on the wire, in a frame or in an answer; the call that counts carries what is upcoming.

A turn changes the provider in one of two ways (`Turned`): it posts the newest state, which then is all that is
upcoming, or it keeps what was posted and stays steady.  `PostTurned` shows this of `postState()` in every
state in which something is left to take up the post (`Allows`), and the handlers are compositions of it.
TLC found `FlowInv` true with up to three events before it was proved.

### 5.8 What is only model-checked

All liveness, and whatever depends on `ENABLED`, is out of reach of the prover: `LastWindowIsGranted`,
`RecoversFromCrash`, `EventuallyAnswered`, `KeyIsFreed`, `BlockedEndsAlone`, `WaitEnds` and `EventuallyShown`.  All safety
properties of the passing runs are proved, and so are the safety parts of the liveness of the queue and of the panel (5.6, 5.7).

## 6. What the models leave out

* Symbolic links, foreign file types and the file system's identity checks: every file at a lease path is
  created by the code.
* Registries of older versions that name no process: `wait()` always goes on waiting for them.
* Payloads, events and abort listeners of the queue.
* A change of the project root during an upload, and targets whose identity cannot be resolved, in DispatchHandoff.
* Commands that are dispatched a second time, in DispatchHandoff: `beginHandoff()` may then replace the
  record of the first (`features/DispatchHandoffGate.ts:313`).  PlanDispatch has such commands and no handoffs.
* The release of a handoff by an observation that was taken before its transport settled
  (`features/DispatchHandoffGate.ts:433`): an observation is one step with its use.
* What two windows make of one journal in PairedUpdate (`updates/Bootstrap.ts:106`,
  `updates/UpdateTransaction.ts:82`): the model has it, with the versions that each host runs, but the properties
  of the journal hold only for a window that is alone (section 4).
* In PlanDispatch: lifecycle protocol 1 with its retries by policy, the manual queue, the choice of a card by
  load and the worker's own admission by memory; a reservation that was denied and is applied for
  again (`self-reserved`); the restart of a whole server; a row that is built again from what a worker
  reports because the local one is missing; and a recall on top of a stop that is not finished.  As in the
  code, giving back one unsent job fences its round: dispatches of that round which were not begun are
  sent by nobody and keep their slot.
* In PanelFlow: maintenance mode, the `reload_required` and `degraded` states of the lifecycle, and
  payloads over the hard limit, which are cut down or not posted.
* The parts of 1.4: they are formatting, file transfer, plotting and user interface around the state
  machines above, generated code, or Python source in template strings whose behaviour is that of
  `tmux` and the GPU driver.  What of them has state that several actors change is named in section 7.

## 7. The plan

1. (done) The leases: ResourceLease, HostLease.
2. (done) The operation queue.
3. (done) The update: PairedUpdate, UpdateGate.
4. (done) Dispatch against uploads: DispatchHandoff.
5. (done) The plan queue with its admission and the worker's tasks: PlanDispatch, and SlotPromise, the
   abstract specification it implements.
6. (done) The panel's state flow: PanelFlow.
7. `RequestRetry`: a request that is replaced by its retry (`core/SafeRequestRetry.ts`).  The code sets
   `replacing` before its first await, which keeps a third request out; a small module.
8. `SnapshotWriter` and shared reads: a write in progress with the latest waiting value (`core/`).
9. `StateFile`: the atomic replacement of a state file with its guard (`state/StateStore.ts`).
10. Realtime events of several endpoints and the request budget (`tunnel/`).
11. A composition of PlanDispatch and DispatchHandoff: a round's handoffs are given up while its
    requests may be on their way.

Abstract specifications: a lock table that both leases implement, with the provisos `late`, `overran`, `swept` and
`undercut` as its only extra steps.

Proofs: the safety parts of the other liveness properties, as 5.6 has them for the queue and 5.7 for the
panel: that nothing is left waiting which nobody will take up, of the leases and of the update.
