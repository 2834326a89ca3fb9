---------------------------- MODULE ResourceLease ----------------------------
(***************************************************************************)
(* Admission and leases of ResourceOperationLeaseManager                   *)
(* (src/core/ResourceOperationLease.ts).                                   *)
(*                                                                         *)
(* Every VS Code window owns one registry file in a shared directory and   *)
(* never writes another window's.  To take a lease on project paths it     *)
(* passes a bakery: it publishes `choosing', reads every registry, takes a *)
(* ticket above the tickets it saw, publishes it, and polls the registries *)
(* until no other window is ahead of it.  It then checks every published   *)
(* lease for an overlapping target, pushes its own, and publishes the      *)
(* lease and the end of its admission in one write.  A lease lives for a   *)
(* time-to-live that a heartbeat extends.                                  *)
(*                                                                         *)
(* A registry is written twice, first to the `.ownership' slot and then to *)
(* the registry slot; a reader that cannot read the registry falls back to *)
(* the ownership slot.  Reads of different registries are separate steps.  *)
(* Windows crash, writes and reads fail, and the clock is only loosely     *)
(* related to the steps of a window.                                       *)
(***************************************************************************)
EXTENDS Naturals, Sequences

CONSTANTS
    Windows,       \* window ids: numbers, since admission orders them by <
    Ops,           \* operations that ask for a lease; one leaseId each
    OpsOf,         \* the operations of each window
    Resources,     \* the set of targets an operation asks for
    NoOp,          \* no operation
    AdmissionTtl,  \* 30 s: life of an admission, and the wait for a turn
    LeaseTtl,      \* ttlMs: life of a lease between heartbeats
    Crashable,     \* the windows that may crash
    LegacyHolders, \* who may hold the v1 lease file: "update", "operation"
    SharingViolations, \* TRUE: an intact registry may fail to open
    MaxClock,      \* bound: last instant of the clock
    LastBegin,     \* bound: last instant at which an admission begins
    MaxTicket,     \* bound: largest ticket
    MaxFaults      \* bound: failed reads and writes and aborted waits

Target == [server: STRING, path: Seq(STRING)]

ASSUME WindowsAssumption == Windows \subseteq Nat
ASSUME TtlAssumption == AdmissionTtl \in Nat \ {0} /\ LeaseTtl \in Nat \ {0}
ASSUME BoundsAssumption == {MaxClock, LastBegin} \subseteq Nat /\ MaxTicket \in Nat /\ MaxFaults \in Nat
ASSUME OpsAssumption == OpsOf \in [Windows -> SUBSET Ops] /\ NoOp \notin Ops
ASSUME FlagsAssumption == SharingViolations \in BOOLEAN /\ LegacyHolders \subseteq {"update", "operation"}

VARIABLES
    clock,    \* the time that now() returns in every window
    alive,    \* whether the window's process still runs
    reg,      \* the registry a window keeps in memory (state.registry)
    side,     \* the registry in the window's .ownership slot
    main,     \* the registry in the window's registry slot
    pc,       \* what a window's exclusive() queue is doing
    stage,    \* which slot a pending write() reaches next
    want,     \* the operation that admission, or that heartbeat, works for
    unread,   \* the registries the current rows() has still to read
    seen,     \* what the current rows() has read
    raced,    \* the unread registries replaced since this rows() opened them
    damaged,  \* the windows whose registry slot is not readable
    started,  \* when the wait for a turn began
    handles,  \* the operations whose acquire() has returned
    lost,     \* the handles whose heartbeat has failed
    legacy,   \* holder of the unexpired v1 lease file, or "free"
    faults,   \* failures so far
    late      \* history: some window overran a time-to-live while using it

vars == <<clock, alive, reg, side, main, pc, stage, want, unread, seen,
          raced, damaged, started, handles, lost, legacy, faults, late>>

-----------------------------------------------------------------------------
(* Targets: the same server, and one path inside the other.                *)

Within(parent, child) ==
    /\ Len(parent) <= Len(child)
    /\ \A i \in 1..Len(parent) : parent[i] = child[i]

\* Mutant: only an enclosing directory conflicts, not a file inside.
TargetsConflict_OneWay(A, B) ==
    \E a \in A, b \in B : a.server = b.server /\ Within(a.path, b.path)

TargetsConflict(A, B) ==
    \E a \in A, b \in B :
        a.server = b.server /\ (Within(a.path, b.path) \/ Within(b.path, a.path))

Conflict(o, p) == TargetsConflict(Resources[o], Resources[p])

(* A registry.  leases[o] is the instant at which o's lease expires, 0 when *)
(* the registry holds no lease of o.  A file that does not exist reads like *)
(* the idle registry.                                                      *)

Registry == [ticket: Nat, choosing: BOOLEAN, admission: Nat, leases: [Ops -> Nat]]
IdleRow == [ticket |-> 0, choosing |-> FALSE, admission |-> 0, leases |-> [o \in Ops |-> 0]]

NothingSeen == [r \in Windows |-> IdleRow]

(* What the window does to the registry it keeps in memory.                *)

Choosing(row, expires) == [row EXCEPT !.choosing = TRUE, !.admission = expires]
Ticketed(row, n) == [row EXCEPT !.ticket = n, !.choosing = FALSE]
EndAdmission(row) == [row EXCEPT !.ticket = 0, !.choosing = FALSE, !.admission = 0]
WithLease(row, o, expires) == [row EXCEPT !.leases = [@ EXCEPT ![o] = expires]]

\* Mutant: the lease stays in the registry.
Without_Kept(row, o) == row

Without(row, o) == WithLease(row, o, 0)

\* Expired leases are dropped.
Pruned(row) ==
    [row EXCEPT !.leases = [o \in Ops |-> IF @[o] > clock THEN @[o] ELSE 0]]

\* Unexpired leases start a new time-to-live.
Renewed(row) ==
    [row EXCEPT !.leases = [o \in Ops |-> IF @[o] > clock THEN clock + LeaseTtl ELSE @[o]]]

\* Mutant: admission() never frees the window's queue.
AfterWrite_Stuck == [choosing |-> "scan", ticketing |-> "poll", renewing |-> "sleep",
                     leaving |-> "left", releasing |-> "idle", beating |-> "idle"]

(* What follows a completed write(), by what the window is doing.          *)
AfterWrite == [choosing |-> "scan", ticketing |-> "poll", renewing |-> "sleep",
               leaving |-> "idle", releasing |-> "idle", beating |-> "idle"]
Writing == DOMAIN AfterWrite
Waiting == {"poll", "sleep", "renewing"}

Init ==
    /\ clock = 0
    /\ alive = [w \in Windows |-> TRUE]
    /\ reg = [w \in Windows |-> IdleRow]
    /\ side = [w \in Windows |-> IdleRow]
    /\ main = [w \in Windows |-> IdleRow]
    /\ pc = [w \in Windows |-> "idle"]
    /\ stage = [w \in Windows |-> "ownership"]
    /\ want = [w \in Windows |-> NoOp]
    /\ unread = [w \in Windows |-> {}]
    /\ seen = [w \in Windows |-> NothingSeen]
    /\ raced = [w \in Windows |-> {}]
    /\ damaged = {}
    /\ started = [w \in Windows |-> 0]
    /\ handles = [w \in Windows |-> {}]
    /\ lost = [w \in Windows |-> {}]
    /\ legacy = "free"
    /\ faults = 0
    /\ late = FALSE

-----------------------------------------------------------------------------
(* write(): first the ownership slot, then the registry slot.              *)

WriteOwnership(w) ==
    /\ alive[w] /\ pc[w] \in Writing /\ stage[w] = "ownership"
    /\ side' = [side EXCEPT ![w] = reg[w]]
    /\ stage' = [stage EXCEPT ![w] = "registry"]
    /\ UNCHANGED <<clock, alive, reg, main, pc, want, unread, seen, raced,
                   damaged, started, handles, lost, legacy, faults, late>>

\* acquire() returns a handle, and rows() starts, only after the second slot.
WriteRegistry(w) ==
    LET next == AfterWrite[pc[w]] IN
    /\ alive[w] /\ pc[w] \in Writing /\ stage[w] = "registry"
    /\ main' = [main EXCEPT ![w] = reg[w]]
    /\ stage' = [stage EXCEPT ![w] = "ownership"]
    /\ pc' = [pc EXCEPT ![w] = next]
    /\ unread' = [unread EXCEPT ![w] = IF next \in {"scan", "poll"} THEN Windows \ {w} ELSE {}]
    /\ raced' = [v \in Windows |-> IF v /= w /\ w \in unread[v] THEN raced[v] \cup {w} ELSE raced[v]]
    /\ damaged' = damaged \ {w}
    /\ started' = [started EXCEPT ![w] = IF pc[w] = "ticketing" THEN clock ELSE @]
    /\ handles' = [handles EXCEPT ![w] = IF pc[w] = "leaving" THEN @ \cup ({want[w]} \ {NoOp}) ELSE @]
    /\ want' = [want EXCEPT ![w] = IF next = "idle" THEN NoOp ELSE @]
    /\ UNCHANGED <<clock, alive, reg, side, seen, lost, legacy, faults, late>>

-----------------------------------------------------------------------------
(* admission()                                                             *)

\* legacyGuard() has passed; `choosing' is set and its write begins.  The
\* guards on o say that an operation asks for one lease at a time.
BeginAdmission(w, o) ==
    /\ alive[w] /\ pc[w] = "idle" /\ legacy = "free" /\ clock <= LastBegin
    /\ o \in OpsOf[w] \ handles[w] /\ reg[w].leases[o] = 0
    /\ reg' = [reg EXCEPT ![w] = Choosing(@, clock + AdmissionTtl)]
    /\ pc' = [pc EXCEPT ![w] = "choosing"]
    /\ want' = [want EXCEPT ![w] = o]
    /\ UNCHANGED <<clock, alive, side, main, stage, unread, seen, raced,
                   damaged, started, handles, lost, legacy, faults, late>>

\* rows() reads one registry.  It falls back to the ownership slot when the
\* registry slot is damaged, when it was replaced after rows() opened it, and,
\* under SharingViolations, whenever opening it fails.
Readable(w, r) ==
    (IF r \in damaged THEN {} ELSE {main[r]})
    \cup (IF r \in damaged \cup raced[w] \/ SharingViolations THEN {side[r]} ELSE {})

ReadRow(w, r) ==
    /\ alive[w] /\ pc[w] \in {"scan", "poll"} /\ r \in unread[w]
    /\ \E row \in Readable(w, r) : seen' = [seen EXCEPT ![w][r] = row]
    /\ unread' = [unread EXCEPT ![w] = @ \ {r}]
    /\ raced' = [raced EXCEPT ![w] = @ \ {r}]
    /\ UNCHANGED <<clock, alive, reg, side, main, pc, stage, want, damaged,
                   started, handles, lost, legacy, faults, late>>

\* One more than the largest ticket of an unexpired admission.
TakeTicket(w) ==
    LET taken == {seen[w][r].ticket : r \in {q \in Windows \ {w} : seen[w][q].admission > clock}} IN
    /\ alive[w] /\ pc[w] = "scan" /\ unread[w] = {}
    /\ \E t \in {n + 1 : n \in taken \cup {0}} :
          /\ t <= MaxTicket
          /\ \A n \in taken : n < t
          /\ reg' = [reg EXCEPT ![w] = Ticketed(@, t)]
    /\ pc' = [pc EXCEPT ![w] = "ticketing"]
    /\ seen' = [seen EXCEPT ![w] = NothingSeen]
    /\ UNCHANGED <<clock, alive, side, main, stage, want, unread, raced,
                   damaged, started, handles, lost, legacy, faults, late>>

\* Mutant: a window that is still choosing its ticket is not waited for.
Ahead_NotChoosing(r, row, w, t) ==
    /\ row.admission > clock /\ row.ticket > 0
    /\ row.ticket < t \/ (row.ticket = t /\ r < w)

\* Mutant: equal tickets are not ordered.
Ahead_Ties(r, row, w, t) ==
    row.admission > clock /\ (row.choosing \/ (row.ticket > 0 /\ row.ticket < t))

\* Mutant: an abandoned admission never expires.
Ahead_Forever(r, row, w, t) ==
    row.choosing \/ (row.ticket > 0 /\ (row.ticket < t \/ (row.ticket = t /\ r < w)))

\* A registry that is ahead of window w, which holds ticket t.
Ahead(r, row, w, t) ==
    /\ row.admission > clock
    /\ \/ row.choosing
       \/ row.ticket > 0 /\ (row.ticket < t \/ (row.ticket = t /\ r < w))

Earlier(w) == \E r \in Windows \ {w} : Ahead(r, seen[w][r], w, reg[w].ticket)

\* The rows that an operation checks: the ones read, and the window's own.
Row(w, r) == IF r = w THEN main[w] ELSE seen[w][r]

Conflicting(w, o) ==
    \E r \in Windows, p \in Ops :
        Row(w, r).leases[p] > clock /\ alive[r] /\ Conflict(o, p)

Decides(w) == alive[w] /\ pc[w] = "poll" /\ unread[w] = {}

\* The decision comes after the admission expired, or counts as expired an
\* admission that has gone on, or a lease that has been renewed, since the
\* decision's rows were read.
DecidesLate(w) ==
    \/ reg[w].admission <= clock
    \/ \E r \in Windows :
          \/ Row(w, r).admission \in 1..clock /\ Row(w, r) /= main[r]
          \/ \E p \in Ops : Row(w, r).leases[p] \in 1..clock /\ main[r].leases[p] > clock

\* The turn has come and no target overlaps: the lease is pushed, expired
\* ones are dropped, and the finally block ends the admission in memory.
Grant(w) ==
    /\ Decides(w) /\ ~Earlier(w) /\ ~Conflicting(w, want[w])
    /\ reg' = [reg EXCEPT ![w] =
                  EndAdmission(WithLease(Pruned(@), want[w], clock + LeaseTtl))]
    /\ pc' = [pc EXCEPT ![w] = "leaving"]
    /\ seen' = [seen EXCEPT ![w] = NothingSeen]
    /\ started' = [started EXCEPT ![w] = 0]
    /\ late' = (late \/ DecidesLate(w))
    /\ UNCHANGED <<clock, alive, side, main, stage, want, unread, raced,
                   damaged, handles, lost, legacy, faults>>

\* The finally block after an error: nothing is granted.
Abandon(w) ==
    /\ reg' = [reg EXCEPT ![w] = EndAdmission(@)]
    /\ pc' = [pc EXCEPT ![w] = "leaving"]
    /\ stage' = [stage EXCEPT ![w] = "ownership"]
    /\ want' = [want EXCEPT ![w] = NoOp]
    /\ unread' = [unread EXCEPT ![w] = {}]
    /\ raced' = [raced EXCEPT ![w] = {}]
    /\ seen' = [seen EXCEPT ![w] = NothingSeen]
    /\ started' = [started EXCEPT ![w] = 0]
    /\ UNCHANGED <<clock, alive, side, main, damaged, handles, lost, legacy,
                   late>>

TimedOut(w) == clock >= started[w] + AdmissionTtl

\* RESOURCE_CONFLICT, or no turn within the wait.
Refuse(w) ==
    /\ Decides(w)
    /\ IF Earlier(w) THEN TimedOut(w) ELSE Conflicting(w, want[w])
    /\ Abandon(w)
    /\ UNCHANGED faults

\* Somebody is ahead: sleep, or first renew the window's own leases.
PollAgain(w) ==
    /\ Decides(w) /\ Earlier(w) /\ ~TimedOut(w)
    /\ \/ /\ pc' = [pc EXCEPT ![w] = "sleep"]
          /\ UNCHANGED reg
       \/ /\ pc' = [pc EXCEPT ![w] = "renewing"]
          /\ reg' = [reg EXCEPT ![w] = Renewed(@)]
    /\ seen' = [seen EXCEPT ![w] = NothingSeen]
    /\ UNCHANGED <<clock, alive, side, main, stage, want, unread, raced,
                   damaged, started, handles, lost, legacy, faults, late>>

Wake(w) ==
    /\ alive[w] /\ pc[w] = "sleep"
    /\ pc' = [pc EXCEPT ![w] = "poll"]
    /\ unread' = [unread EXCEPT ![w] = Windows \ {w}]
    /\ UNCHANGED <<clock, alive, reg, side, main, stage, want, seen, raced,
                   damaged, started, handles, lost, legacy, faults, late>>

-----------------------------------------------------------------------------
(* The handle: heartbeat and release                                       *)

\* Mutant: the lease is in the registry, but its expiry is not checked.
Owned_Present(w, o) == legacy /= "operation" /\ w \notin damaged /\ main[w].leases[o] > 0

\* assertOwned(): the registry on disk still proves the lease.
Owned(w, o) == legacy /= "operation" /\ w \notin damaged /\ main[w].leases[o] > clock

Heartbeat(w, o) ==
    /\ alive[w] /\ pc[w] = "idle" /\ o \in handles[w]
    /\ IF Owned(w, o)
       THEN /\ reg' = [reg EXCEPT ![w] = WithLease(@, o, clock + LeaseTtl)]
            /\ pc' = [pc EXCEPT ![w] = "beating"]
            /\ want' = [want EXCEPT ![w] = o]
            /\ UNCHANGED lost
       ELSE /\ lost' = [lost EXCEPT ![w] = @ \cup {o}]
            /\ UNCHANGED <<reg, pc, want>>
    /\ UNCHANGED <<clock, alive, side, main, stage, unread, seen, raced,
                   damaged, started, handles, legacy, faults, late>>

Release(w, o) ==
    /\ alive[w] /\ pc[w] = "idle" /\ o \in handles[w]
    /\ handles' = [handles EXCEPT ![w] = @ \ {o}]
    /\ lost' = [lost EXCEPT ![w] = @ \ {o}]
    /\ reg' = [reg EXCEPT ![w] = Without(@, o)]
    /\ pc' = [pc EXCEPT ![w] = "releasing"]
    /\ UNCHANGED <<clock, alive, side, main, stage, want, unread, seen,
                   raced, damaged, started, legacy, faults, late>>

-----------------------------------------------------------------------------
(* Failures and the environment                                            *)

\* A slot cannot be written.  Inside admission the finally block runs; after
\* it, acquire() or release() throws and a heartbeat marks the handle lost.
WriteFails(w) ==
    /\ alive[w] /\ pc[w] \in Writing /\ faults < MaxFaults
    /\ faults' = faults + 1
    /\ IF pc[w] \in {"choosing", "ticketing", "renewing"}
       THEN Abandon(w)
       ELSE /\ pc' = [pc EXCEPT ![w] = "idle"]
            /\ stage' = [stage EXCEPT ![w] = "ownership"]
            /\ want' = [want EXCEPT ![w] = NoOp]
            /\ lost' = [lost EXCEPT ![w] = IF pc[w] = "beating" THEN @ \cup {want[w]} ELSE @]
            /\ UNCHANGED <<clock, alive, reg, side, main, unread, seen,
                           raced, damaged, started, handles, legacy, late>>

\* A registry can be read in neither slot, or the caller aborts the wait.
AdmissionThrows(w) ==
    /\ alive[w] /\ pc[w] \in {"scan", "poll", "sleep"} /\ faults < MaxFaults
    /\ faults' = faults + 1
    /\ Abandon(w)

\* A registry slot becomes unreadable until its window writes it again.
Damage(w) ==
    /\ faults < MaxFaults /\ w \notin damaged
    /\ faults' = faults + 1
    /\ damaged' = damaged \cup {w}
    /\ UNCHANGED <<clock, alive, reg, side, main, pc, stage, want, unread,
                   seen, raced, started, handles, lost, legacy, late>>

Crash(w) ==
    /\ alive[w] /\ w \in Crashable
    /\ alive' = [alive EXCEPT ![w] = FALSE]
    /\ reg' = [reg EXCEPT ![w] = IdleRow]
    /\ pc' = [pc EXCEPT ![w] = "idle"]
    /\ stage' = [stage EXCEPT ![w] = "ownership"]
    /\ want' = [want EXCEPT ![w] = NoOp]
    /\ unread' = [unread EXCEPT ![w] = {}]
    /\ raced' = [raced EXCEPT ![w] = {}]
    /\ seen' = [seen EXCEPT ![w] = NothingSeen]
    /\ started' = [started EXCEPT ![w] = 0]
    /\ handles' = [handles EXCEPT ![w] = {}]
    /\ lost' = [lost EXCEPT ![w] = {}]
    /\ UNCHANGED <<clock, side, main, damaged, legacy, faults, late>>

\* The instant t arrives while a granted lease is not published and the
\* admission that protects it ends, or while a handle's renewal is not
\* published and the lease it renews ends.
Overruns(t) ==
    \E w \in Windows :
        \/ pc[w] = "leaving" /\ want[w] /= NoOp /\ main[w].admission <= t
        \/ \E o \in handles[w] : main[w].leases[o] <= t /\ t < reg[w].leases[o]

Tick ==
    /\ clock < MaxClock
    /\ clock' = clock + 1
    /\ late' = (late \/ Overruns(clock + 1))
    /\ UNCHANGED <<alive, reg, side, main, pc, stage, want, unread, seen, raced,
                   damaged, started, handles, lost, legacy, faults>>

\* The v1 lease file is taken, given up or expires (HostOperationLease).
LegacyLease ==
    /\ legacy' \in ({"free"} \cup LegacyHolders) \ {legacy}
    /\ UNCHANGED <<clock, alive, reg, side, main, pc, stage, want, unread,
                   seen, raced, damaged, started, handles, lost, faults, late>>

WindowStep(w) ==
    \/ WriteOwnership(w) \/ WriteRegistry(w)
    \/ \E o \in Ops : BeginAdmission(w, o) \/ Heartbeat(w, o) \/ Release(w, o)
    \/ \E r \in Windows : ReadRow(w, r)
    \/ TakeTicket(w) \/ Grant(w) \/ Refuse(w) \/ PollAgain(w) \/ Wake(w)
    \/ WriteFails(w) \/ AdmissionThrows(w) \/ Damage(w) \/ Crash(w)

Next == (\E w \in Windows : WindowStep(w)) \/ Tick \/ LegacyLease

Spec == Init /\ [][Next]_vars

\* A running window's event loop goes on with what it has begun, and time
\* passes; nothing forces a window to ask for a lease or to give one up.
Progress(w) ==
    \/ WriteOwnership(w) \/ WriteRegistry(w) \/ \E r \in Windows : ReadRow(w, r)
    \/ TakeTicket(w) \/ Grant(w) \/ Refuse(w) \/ PollAgain(w) \/ Wake(w)

FairSpec == Spec /\ WF_vars(Tick) /\ \A w \in Windows : WF_vars(Progress(w))

-----------------------------------------------------------------------------
(* Properties                                                              *)

TypeOK ==
    /\ clock \in 0..MaxClock
    /\ alive \in [Windows -> BOOLEAN]
    /\ reg \in [Windows -> Registry]
    /\ side \in [Windows -> Registry]
    /\ main \in [Windows -> Registry]
    /\ pc \in [Windows -> Writing \cup {"idle", "scan", "poll", "sleep"}]
    /\ stage \in [Windows -> {"ownership", "registry"}]
    /\ want \in [Windows -> Ops \cup {NoOp}]
    /\ unread \in [Windows -> SUBSET Windows]
    /\ seen \in [Windows -> [Windows -> Registry]]
    /\ raced \in [Windows -> SUBSET Windows]
    /\ damaged \in SUBSET Windows
    /\ started \in [Windows -> Nat]
    /\ handles \in [Windows -> SUBSET Ops]
    /\ lost \in [Windows -> SUBSET Ops]
    /\ legacy \in {"free", "update", "operation"}
    /\ faults \in 0..MaxFaults
    /\ late \in BOOLEAN

\* assertHeld() of the handle that w holds for o would succeed.
Holds(w, o) == alive[w] /\ o \in handles[w] \ lost[w] /\ main[w].leases[o] > clock

ConflictingHolders ==
    \E w, v \in Windows, o, p \in Ops :
        <<w, o>> /= <<v, p>> /\ Holds(w, o) /\ Holds(v, p) /\ Conflict(o, p)

\* As long as no window overran a time-to-live, no two handles on overlapping
\* targets can both prove that they are held.
NoConflictingHolders == ~late => ~ConflictingHolders

\* A handle that could not prove its lease never can again: neither the
\* heartbeat nor the renewal inside a wait revives a lease that has expired.
NoRevival ==
    [][\A w \in Windows, o \in Ops :
          (o \in handles[w] /\ o \in handles'[w] /\ ~late' /\ Holds(w, o)') => Holds(w, o)]_vars

\* Without failed writes every unexpired lease on a live window's disk belongs
\* to a handle or to a release that is being written.
NoOrphanLease ==
    faults = 0 => \A w \in Windows, o \in Ops :
        alive[w] /\ main[w].leases[o] > clock => o \in handles[w] \/ pc[w] = "releasing"

\* The last window running gets the lease it asks for, whatever slots, tickets
\* and leases the crashed windows left behind.  (For windows that do not crash
\* and whose operations do not conflict with one another.)
LastWindowIsGranted ==
    \A w \in Windows \ Crashable, o \in Ops :
        (pc[w] = "choosing" /\ want[w] = o /\ \A v \in Windows \ {w} : ~alive[v])
            ~> (o \in handles[w])
=============================================================================
