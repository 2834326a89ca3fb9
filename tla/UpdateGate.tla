------------------------------ MODULE UpdateGate ------------------------------
(***************************************************************************)
(* How a paired update waits for the operations of all windows             *)
(* (src/updates/UpdateGate.ts), together with the part of                  *)
(* src/core/ResourceOperationLease.ts that it relies on.                   *)
(*                                                                         *)
(* The gate is the v1 lease file.  An operation looks at that file before  *)
(* its admission; from then on it is known only by its registry, which is  *)
(* written to an ownership slot and then to the main slot.  wait() reads   *)
(* the registries one after the other, again and again, until none shows   *)
(* an operation whose process may still run.  A process is known by its    *)
(* pid, which may belong to another program by now: the start times of all *)
(* suspects are asked for once per wait().                                 *)
(*                                                                         *)
(* A registry belongs to one pid.  Conflicts of targets and the order of   *)
(* admissions are left to ResourceLease, the competition for the v1 file   *)
(* to HostLease, and what follows wait() to PairedUpdate.                  *)
(***************************************************************************)
EXTENDS Naturals

CONSTANTS
    Pids,     \* process ids of extension hosts
    Ttl,      \* 30 s: life of an admission, a lease and the gate's record
    Margin,   \* REUSE_PROOF_MARGIN_MS
    Budget,   \* WAIT_BUDGET_MS
    MayLapse, \* TRUE: the gate's heartbeat may be too late
    MayReuse, \* TRUE: a pid may be given to another process
    LastBegin,\* bound: last instant at which the gate is taken
    MaxClock  \* bound: last instant of the clock

ASSUME TimesAssumption ==
    Ttl \in Nat \ {0} /\ Margin \in Nat /\ Budget \in Nat /\ LastBegin \in Nat /\ MaxClock \in Nat
ASSUME FlagsAssumption == MayLapse \in BOOLEAN /\ MayReuse \in BOOLEAN

VARIABLES
    clock,    \* now() in every process
    proc,     \* who has a pid: a host, another program, nobody
    start,    \* when the process with a pid started
    mem,      \* the registry a host keeps in memory
    side,     \* the registry in the ownership slot
    main,     \* the registry in the main slot
    pc,       \* what a host's operation is doing
    stage,    \* the slot that a host's write() reaches next
    v1,       \* the v1 lease file: free, the update's, or the update's but expired
    gate,     \* what the update is doing
    since,    \* when wait() began
    unread,   \* the registries that this round has still to read
    suspects, \* the pids whose operation this round could not rule out
    bound,    \* the latest instant at which such an operation's process started
    proof,    \* what the one probe of this wait() said of a pid
    old,      \* history: hosts with an operation declared before the gate
    slipped   \* history: an operation passed its check of v1 unseen

vars == <<clock, proc, start, mem, side, main, pc, stage, v1, gate, since,
          unread, suspects, bound, proof, old, slipped>>

-----------------------------------------------------------------------------
(* A registry: idle, in admission or with a lease; when that expires, and   *)
(* when the file was written.                                              *)

Absent == [kind |-> "absent", expires |-> 0, mtime |-> 0]
Idle == [kind |-> "idle", expires |-> 0, mtime |-> 0]
Blocks(row) == row.kind \in {"admission", "lease"}

\* Mutant: the operation never ends.
AfterWrite_Stuck == [choosing |-> "admitted", granting |-> "working", beating |-> "working", leaving |-> "left"]

\* The file's time matters only when it shows an operation.
Stamped(row) == IF Blocks(row) THEN [row EXCEPT !.mtime = clock] ELSE row

\* What follows a completed write().
AfterWrite == [choosing |-> "admitted", granting |-> "working", beating |-> "working", leaving |-> "idle"]

\* The host's registry shows its operation.
Declared(p) == pc[p] \in {"admitted", "granting", "working", "beating"}

\* What the probe says of a pid: nothing yet or nothing certain, that no
\* process has it, or when its process started.
Observation == [said : {"none", "unknown", "exited", "started"}, at : Nat]
Said(what, at) == [said |-> what, at |-> at]
NotProbed == [p \in Pids |-> Said("none", 0)]
NoBound == [p \in Pids |-> 0]

Init ==
    /\ clock = 0
    /\ proc = [p \in Pids |-> "host"]
    /\ start = [p \in Pids |-> 0]
    /\ mem = [p \in Pids |-> Idle]
    /\ side = [p \in Pids |-> Absent]
    /\ main = [p \in Pids |-> Absent]
    /\ pc = [p \in Pids |-> "idle"]
    /\ stage = [p \in Pids |-> "ownership"]
    /\ v1 = "free"
    /\ gate = "open"
    /\ since = 0
    /\ unread = {}
    /\ suspects = {}
    /\ bound = NoBound
    /\ proof = NotProbed
    /\ old = {}
    /\ slipped = FALSE

UpdateSide == <<v1, gate, since, unread, suspects, bound, proof>>
Hosts == <<proc, start, mem, side, main, pc, stage>>

-----------------------------------------------------------------------------
(* The operations of a host                                                *)

\* The host goes on to write row.
Writes(p, from, to, row) ==
    /\ proc[p] = "host" /\ pc[p] = from
    /\ pc' = [pc EXCEPT ![p] = to]
    /\ mem' = [mem EXCEPT ![p] = row]
    /\ UNCHANGED <<clock, proc, start, side, main, stage, UpdateSide, slipped>>

\* Mutant: an operation does not look at the v1 file.
Admits_Always == TRUE

\* legacyGuard() of a new operation.
Admits == v1 /= "update"

\* An operation passes legacyGuard() and is about to publish its admission.
Begin(p) ==
    /\ Admits
    /\ Writes(p, "idle", "choosing", [kind |-> "admission", expires |-> clock + Ttl, mtime |-> 0])
    /\ UNCHANGED old

Grant(p) ==
    /\ Writes(p, "admitted", "granting", [kind |-> "lease", expires |-> clock + Ttl, mtime |-> 0])
    /\ UNCHANGED old

\* The admission ends without a lease, or the operation ends.
Leave(p) ==
    /\ Writes(p, "admitted", "leaving", Idle) \/ Writes(p, "working", "leaving", Idle)
    /\ old' = old \ {p}

\* assertOwned() lets the update's v1 record pass.
Heartbeat(p) ==
    /\ main[p].expires > clock
    /\ Writes(p, "working", "beating", [kind |-> "lease", expires |-> clock + Ttl, mtime |-> 0])
    /\ UNCHANGED old

WriteOwnership(p) ==
    /\ proc[p] = "host" /\ pc[p] \in DOMAIN AfterWrite /\ stage[p] = "ownership"
    /\ side' = [side EXCEPT ![p] = Stamped(mem[p])]
    /\ stage' = [stage EXCEPT ![p] = "registry"]
    /\ UNCHANGED <<clock, proc, start, mem, main, pc, UpdateSide, old, slipped>>

WriteRegistry(p) ==
    /\ proc[p] = "host" /\ pc[p] \in DOMAIN AfterWrite /\ stage[p] = "registry"
    /\ main' = [main EXCEPT ![p] = Stamped(mem[p])]
    /\ stage' = [stage EXCEPT ![p] = "ownership"]
    /\ pc' = [pc EXCEPT ![p] = AfterWrite[pc[p]]]
    /\ UNCHANGED <<clock, proc, start, mem, side, UpdateSide, old, slipped>>

-----------------------------------------------------------------------------
(* Processes and time                                                      *)

Exit(p) ==
    /\ MayReuse /\ proc[p] /= "gone"
    /\ proc' = [proc EXCEPT ![p] = "gone"]
    /\ mem' = [mem EXCEPT ![p] = Idle]
    /\ pc' = [pc EXCEPT ![p] = "idle"]
    /\ stage' = [stage EXCEPT ![p] = "ownership"]
    /\ old' = old \ {p}
    /\ UNCHANGED <<clock, start, side, main, UpdateSide, slipped>>

\* The pid is given to a new host or to another program.
Reuse(p) ==
    /\ MayReuse /\ proc[p] = "gone"
    /\ \E q \in {"host", "other"} : proc' = [proc EXCEPT ![p] = q]
    /\ start' = [start EXCEPT ![p] = clock]
    /\ UNCHANGED <<clock, mem, side, main, pc, stage, UpdateSide, old, slipped>>

Tick ==
    /\ clock < MaxClock
    /\ clock' = clock + 1
    /\ UNCHANGED <<Hosts, UpdateSide, old, slipped>>

\* The gate's record expires before its heartbeat comes.
GateLapses ==
    /\ MayLapse /\ v1 = "update"
    /\ v1' = "lapsed"
    /\ slipped' = TRUE
    /\ UNCHANGED <<clock, Hosts, gate, since, unread, suspects, bound, proof, old>>

\* The heartbeat does not look at the expiry (updateOwnedLease()).
GateRenews ==
    /\ v1 = "lapsed"
    /\ v1' = "update"
    /\ UNCHANGED <<clock, Hosts, gate, since, unread, suspects, bound, proof, old, slipped>>

-----------------------------------------------------------------------------
(* The update: begin(), wait(), end()                                      *)

\* The directory is listed: ownership slots count as much as registries.
Listed == {p \in Pids : side[p].kind /= "absent" \/ main[p].kind /= "absent"}

BeginGate ==
    /\ gate = "open" /\ v1 = "free" /\ clock <= LastBegin
    /\ v1' = "update"
    /\ gate' = "waiting"
    /\ since' = clock
    /\ unread' = Listed
    /\ suspects' = {}
    /\ bound' = NoBound
    /\ proof' = NotProbed
    /\ old' = {p \in Pids : Declared(p)}
    /\ slipped' = \E p \in Pids : pc[p] = "choosing"
    /\ UNCHANGED <<clock, Hosts>>

InTime == clock < since + Budget

\* readResourceLeaseRegistryWithOwnership(): the ownership slot when the
\* registry is absent or cannot be opened just now.
Readable(p) == {side[p]} \cup (IF main[p].kind = "absent" THEN {} ELSE {main[p]})

\* Mutant: an expired lease is taken for a finished operation.
Released_Expired(row) == ~Blocks(row) \/ row.expires <= clock

\* A registry that shows no operation.
Released(row) == ~Blocks(row)

\* proofBoundMs(): the owner started no later than this.
Bound(row) == IF row.expires > row.mtime THEN row.expires ELSE row.mtime

\* One registry is read and its owner probed with signal 0.
ReadSlot(p) ==
    /\ gate = "waiting" /\ InTime /\ p \in unread
    /\ \E row \in Readable(p) :
          IF Released(row) \/ proc[p] = "gone"
          THEN UNCHANGED <<suspects, bound>>
          ELSE /\ suspects' = suspects \cup {p}
               /\ bound' = [bound EXCEPT ![p] = Bound(row)]
    /\ unread' = unread \ {p}
    /\ UNCHANGED <<clock, Hosts, v1, gate, since, proof, old, slipped>>

\* collectStartTimes(): the start times of the suspects, where they can be
\* had; a pid that the complete list of processes lacks has exited.
Probe ==
    /\ gate = "waiting" /\ InTime /\ unread = {} /\ proof = NotProbed
    /\ suspects /= {}
    /\ \E answered \in SUBSET suspects :
          proof' = [p \in Pids |-> IF p \notin answered THEN Said("unknown", 0)
                                   ELSE IF proc[p] = "gone" THEN Said("exited", 0)
                                   ELSE Said("started", start[p])]
    /\ UNCHANGED <<clock, Hosts, v1, gate, since, unread, suspects, bound, old, slipped>>

\* Only a process that started well after the bound is a different one.
IsAnother(p) == proof[p].said = "started" /\ proof[p].at > bound[p] + Margin

\* The operation of a suspect has ended with its process.
HasEnded(p) == proof[p].said = "exited" \/ IsAnother(p)

RoundIsOver == unread = {} /\ (suspects /= {} => proof /= NotProbed)
Drained == RoundIsOver /\ \A p \in suspects : HasEnded(p)

\* The variables of wait() are gone when it is left.
EndWait ==
    /\ since' = 0
    /\ unread' = {}
    /\ suspects' = {}
    /\ bound' = NoBound
    /\ proof' = NotProbed

\* wait() returns, and the transaction goes on to install.
Return ==
    /\ gate = "waiting" /\ InTime /\ Drained
    /\ gate' = "installing"
    /\ EndWait
    /\ UNCHANGED <<clock, Hosts, v1, old, slipped>>

\* Mutant: every poll starts the budget anew.
SinceAtPoll_Reset == clock

SinceAtPoll == since

\* The next round; the answers of the probe are kept.
PollAgain ==
    /\ gate = "waiting" /\ InTime /\ RoundIsOver /\ ~Drained
    /\ unread' = Listed
    /\ suspects' = {}
    /\ bound' = NoBound
    /\ since' = SinceAtPoll
    /\ UNCHANGED <<clock, Hosts, v1, gate, proof, old, slipped>>

\* end(): after the installation, or when wait() throws because the budget
\* is spent, the user cancels or a registry cannot be trusted.
EndGate ==
    /\ gate' = "open"
    /\ v1' = "free"
    /\ old' = {}
    /\ slipped' = FALSE
    /\ EndWait
    /\ UNCHANGED <<clock, Hosts>>

TimeOut == gate = "waiting" /\ ~InTime /\ EndGate
Throw == gate = "waiting" /\ EndGate
Finish == gate = "installing" /\ EndGate

Operate(p) ==
    \/ Begin(p) \/ Grant(p) \/ Leave(p) \/ Heartbeat(p)
    \/ WriteOwnership(p) \/ WriteRegistry(p)

Waiting == Probe \/ Return \/ PollAgain \/ TimeOut \/ \E p \in Pids : ReadSlot(p)

Next ==
    \/ \E p \in Pids : Operate(p) \/ Exit(p) \/ Reuse(p)
    \/ Tick \/ GateLapses \/ GateRenews
    \/ BeginGate \/ Waiting \/ Throw \/ Finish

Spec == Init /\ [][Next]_vars

\* wait() polls by a timer, and time passes; no operation need end.
FairSpec == Spec /\ WF_vars(Waiting) /\ WF_vars(Tick)

-----------------------------------------------------------------------------
(* Properties                                                              *)

Row == [kind : {"absent", "idle", "admission", "lease"}, expires : Nat, mtime : Nat]

TypeOK ==
    /\ clock \in 0..MaxClock
    /\ proc \in [Pids -> {"host", "other", "gone"}]
    /\ start \in [Pids -> 0..MaxClock]
    /\ mem \in [Pids -> Row]
    /\ side \in [Pids -> Row]
    /\ main \in [Pids -> Row]
    /\ pc \in [Pids -> {"idle", "choosing", "admitted", "granting", "working", "beating", "leaving"}]
    /\ stage \in [Pids -> {"ownership", "registry"}]
    /\ v1 \in {"free", "update", "lapsed"}
    /\ gate \in {"open", "waiting", "installing"}
    /\ since \in 0..MaxClock
    /\ unread \in SUBSET Pids
    /\ suspects \in SUBSET Pids
    /\ bound \in [Pids -> Nat]
    /\ proof \in [Pids -> Observation]
    /\ old \in SUBSET Pids
    /\ slipped \in BOOLEAN

\* An operation that was declared when the gate was taken, and whose process
\* still runs, has ended before wait() returns: neither an expired lease, nor
\* an unanswered probe, nor a registry read while it is written counts as its
\* end, and a lapse of the gate does not matter.
OldOperationsEnd == gate = "installing" => old = {}

\* A host between its check of the v1 file and the end of its operation.
Busy(p) == pc[p] = "choosing" \/ Declared(p)

\* No operation is under way in any host during the installation, provided
\* that the gate never lapsed and that no operation was between its check of
\* the v1 file and its declaration when the gate was taken.
GateExcludes == gate = "installing" /\ ~slipped => \A p \in Pids : ~Busy(p)

\* The same without the provisos.
InstallExcludesOperations == gate = "installing" => \A p \in Pids : ~Busy(p)

\* wait() returns or throws within its budget, whatever the operations do.
WaitEnds == gate = "waiting" ~> gate /= "waiting"
=============================================================================
