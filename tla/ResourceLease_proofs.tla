------------------------ MODULE ResourceLease_proofs ------------------------
(***************************************************************************)
(* Theorems about ResourceLease, for every set of windows and operations,  *)
(* every time-to-live and every bound.                                     *)
(***************************************************************************)
EXTENDS ResourceLease, TLAPS

LEMMA IdleRowType == IdleRow \in Registry
  BY DEF IdleRow, Registry

LEMMA NothingSeenType == NothingSeen \in [Windows -> Registry]
  BY IdleRowType DEF NothingSeen

\* What follows a write is a state of the window's queue.
LEMMA AfterWriteType ==
  /\ Writing = {"choosing", "ticketing", "renewing", "leaving", "releasing", "beating"}
  /\ \A p \in Writing : AfterWrite[p] \in {"idle", "scan", "poll", "sleep"}
  BY DEF Writing, AfterWrite

\* What a window does to the registry in memory leaves a registry.
LEMMA ClockNat == TypeOK => clock \in Nat /\ clock + LeaseTtl \in Nat /\ clock + AdmissionTtl \in Nat
  BY BoundsAssumption, TtlAssumption DEF TypeOK

LEMMA ChoosingType ==
  ASSUME NEW row \in Registry, NEW e \in Nat PROVE Choosing(row, e) \in Registry
  BY DEF Registry, Choosing

LEMMA TicketedType ==
  ASSUME NEW row \in Registry, NEW n \in Nat PROVE Ticketed(row, n) \in Registry
  BY DEF Registry, Ticketed

LEMMA EndAdmissionType == ASSUME NEW row \in Registry PROVE EndAdmission(row) \in Registry
  BY DEF Registry, EndAdmission

LEMMA WithLeaseType ==
  ASSUME NEW row \in Registry, NEW o, NEW e \in Nat PROVE WithLease(row, o, e) \in Registry
  BY DEF Registry, WithLease

LEMMA PrunedType == ASSUME NEW row \in Registry PROVE Pruned(row) \in Registry
  BY DEF Registry, Pruned

LEMMA RenewedType ==
  ASSUME TypeOK, NEW row \in Registry PROVE Renewed(row) \in Registry
  BY ClockNat DEF Registry, Renewed

\* A window's queue that is at work, except to leave or to release, works for
\* an operation: the strengthening that makes TypeOK inductive.
WorksForAnOp == \A w \in Windows : want[w] = NoOp => pc[w] \in {"idle", "leaving", "releasing"}

LEMMA AbandonType ==
  ASSUME TypeOK, NEW w \in Windows, Abandon(w), faults' \in 0..MaxFaults
  PROVE  TypeOK'
  BY NothingSeenType, EndAdmissionType, AfterWriteType DEF TypeOK, Abandon

\* Type correctness: every variable keeps the type that TypeOK gives it.
THEOREM TypeCorrect == Spec => []TypeOK
<1>1. Init => TypeOK
  <2> SUFFICES ASSUME Init PROVE TypeOK
    OBVIOUS
  <2>1. clock \in 0..MaxClock /\ faults \in 0..MaxFaults
    BY BoundsAssumption DEF Init
  <2>2. /\ reg \in [Windows -> Registry] /\ side \in [Windows -> Registry]
        /\ main \in [Windows -> Registry] /\ seen \in [Windows -> [Windows -> Registry]]
    BY IdleRowType, NothingSeenType DEF Init
  <2> QED BY <2>1, <2>2, AfterWriteType DEF Init, TypeOK
<1>2. Init => WorksForAnOp
  BY DEF Init, WorksForAnOp
<1>3. TypeOK /\ WorksForAnOp /\ [Next]_vars => TypeOK'
  <2> SUFFICES ASSUME TypeOK, WorksForAnOp, [Next]_vars PROVE TypeOK'
    OBVIOUS
  <2>1. ASSUME NEW w \in Windows, WriteOwnership(w) PROVE TypeOK'
    BY <2>1 DEF WriteOwnership, TypeOK
  <2>2. ASSUME NEW w \in Windows, WriteRegistry(w) PROVE TypeOK'
    <3>1. AfterWrite[pc[w]] \in {"idle", "scan", "poll", "sleep"}
      BY <2>2, AfterWriteType DEF WriteRegistry
    <3>2. clock \in Nat
      BY BoundsAssumption DEF TypeOK
    <3> QED BY <2>2, <3>1, <3>2 DEF WriteRegistry, TypeOK
  <2>3. ASSUME NEW w \in Windows, NEW o \in Ops, BeginAdmission(w, o) PROVE TypeOK'
    BY <2>3, ClockNat, ChoosingType, AfterWriteType, OpsAssumption DEF BeginAdmission, TypeOK
  <2>4. ASSUME NEW w \in Windows, NEW r \in Windows, ReadRow(w, r) PROVE TypeOK'
    BY <2>4 DEF ReadRow, Readable, TypeOK
  <2>5. ASSUME NEW w \in Windows, TakeTicket(w) PROVE TypeOK'
    <3>1. PICK t : t \in {n + 1 : n \in {seen[w][r].ticket : r \in {q \in Windows \ {w} : seen[w][q].admission > clock}} \cup {0}}
                    /\ reg' = [reg EXCEPT ![w] = Ticketed(@, t)]
      BY <2>5 DEF TakeTicket
    <3>2. \A r \in Windows : seen[w][r].ticket \in Nat
      BY DEF TypeOK, Registry
    <3>3. t \in Nat
      BY <3>1, <3>2
    <3>4. reg' \in [Windows -> Registry]
      BY <3>1, <3>3, TicketedType DEF TypeOK
    <3> QED BY <2>5, <3>4, NothingSeenType, AfterWriteType DEF TakeTicket, TypeOK
  <2>6. ASSUME NEW w \in Windows, Grant(w) PROVE TypeOK'
    <3>1. EndAdmission(WithLease(Pruned(reg[w]), want[w], clock + LeaseTtl)) \in Registry
      BY ClockNat, PrunedType, WithLeaseType, EndAdmissionType DEF TypeOK
    <3>2. reg' \in [Windows -> Registry]
      BY <2>6, <3>1 DEF Grant, TypeOK
    <3>3. late' \in BOOLEAN
      BY <2>6 DEF Grant
    <3> QED BY <2>6, <3>2, <3>3, NothingSeenType, AfterWriteType DEF Grant, TypeOK
  <2>7. ASSUME NEW w \in Windows, Refuse(w) PROVE TypeOK'
    BY <2>7, AbandonType DEF Refuse, TypeOK
  <2>8. ASSUME NEW w \in Windows, PollAgain(w) PROVE TypeOK'
    <3>1. Renewed(reg[w]) \in Registry
      BY RenewedType DEF TypeOK
    <3>2. reg' \in [Windows -> Registry]
      BY <2>8, <3>1 DEF PollAgain, TypeOK
    <3>3. pc' \in [Windows -> Writing \cup {"idle", "scan", "poll", "sleep"}]
      BY <2>8, AfterWriteType DEF PollAgain, TypeOK
    <3>4. seen' \in [Windows -> [Windows -> Registry]]
      BY <2>8, NothingSeenType DEF PollAgain, TypeOK
    <3> QED BY <2>8, <3>2, <3>3, <3>4 DEF PollAgain, TypeOK
  <2>9. ASSUME NEW w \in Windows, Wake(w) PROVE TypeOK'
    BY <2>9 DEF Wake, TypeOK
  <2>10. ASSUME NEW w \in Windows, NEW o \in Ops, Heartbeat(w, o) PROVE TypeOK'
    <3>1. WithLease(reg[w], o, clock + LeaseTtl) \in Registry
      BY ClockNat, WithLeaseType DEF TypeOK
    <3>2. CASE Owned(w, o)
      <4>1. reg' \in [Windows -> Registry]
        BY <2>10, <3>1, <3>2 DEF Heartbeat, TypeOK
      <4>2. pc' \in [Windows -> Writing \cup {"idle", "scan", "poll", "sleep"}]
        BY <2>10, <3>2, AfterWriteType DEF Heartbeat, TypeOK
      <4>3. want' \in [Windows -> Ops \cup {NoOp}] /\ lost' = lost
        BY <2>10, <3>2 DEF Heartbeat, TypeOK
      <4> QED BY <2>10, <4>1, <4>2, <4>3 DEF Heartbeat, TypeOK
    <3>3. CASE ~Owned(w, o)
      BY <2>10, <3>3 DEF Heartbeat, TypeOK
    <3> QED BY <3>2, <3>3
  <2>11. ASSUME NEW w \in Windows, NEW o \in Ops, Release(w, o) PROVE TypeOK'
    BY <2>11, AfterWriteType, WithLeaseType DEF Release, Without, TypeOK
  <2>12. ASSUME NEW w \in Windows, WriteFails(w) PROVE TypeOK'
    <3>1. faults' \in 0..MaxFaults
      BY <2>12, BoundsAssumption DEF WriteFails, TypeOK
    <3>2. CASE pc[w] \in {"choosing", "ticketing", "renewing"}
      BY <2>12, <3>1, <3>2, AbandonType DEF WriteFails
    <3>3. CASE pc[w] \notin {"choosing", "ticketing", "renewing"}
      <4>1. pc[w] = "beating" => want[w] \in Ops
        BY DEF WorksForAnOp, TypeOK
      <4>2. lost' \in [Windows -> SUBSET Ops]
        <5> DEFINE kept == IF pc[w] = "beating" THEN lost[w] \cup {want[w]} ELSE lost[w]
        <5>1. kept \in SUBSET Ops
          BY <4>1 DEF TypeOK
        <5>2. lost' = [lost EXCEPT ![w] = kept]
          BY <2>12, <3>3 DEF WriteFails
        <5> HIDE DEF kept
        <5> QED BY <5>1, <5>2 DEF TypeOK
      <4>3. pc' \in [Windows -> Writing \cup {"idle", "scan", "poll", "sleep"}]
        BY <2>12, <3>3 DEF WriteFails, TypeOK
      <4>4. stage' \in [Windows -> {"ownership", "registry"}] /\ want' \in [Windows -> Ops \cup {NoOp}]
        BY <2>12, <3>3 DEF WriteFails, TypeOK
      <4>5. UNCHANGED <<clock, alive, reg, side, main, unread, seen, raced, damaged, started,
                        handles, legacy, late>>
        BY <2>12, <3>3 DEF WriteFails
      <4> QED BY <3>1, <4>2, <4>3, <4>4, <4>5 DEF TypeOK
    <3> QED BY <3>2, <3>3
  <2>13. ASSUME NEW w \in Windows, AdmissionThrows(w) PROVE TypeOK'
    BY <2>13, AbandonType, BoundsAssumption DEF AdmissionThrows, TypeOK
  <2>14. ASSUME NEW w \in Windows, Damage(w) PROVE TypeOK'
    BY <2>14, BoundsAssumption DEF Damage, TypeOK
  <2>15. ASSUME NEW w \in Windows, Crash(w) PROVE TypeOK'
    BY <2>15, IdleRowType, NothingSeenType DEF Crash, TypeOK
  <2>16. CASE Tick
    BY <2>16, BoundsAssumption DEF Tick, Overruns, TypeOK
  <2>17. CASE LegacyLease
    BY <2>17, FlagsAssumption DEF LegacyLease, TypeOK
  <2>18. CASE UNCHANGED vars
    BY <2>18 DEF vars, TypeOK
  <2> QED
    BY <2>1, <2>2, <2>3, <2>4, <2>5, <2>6, <2>7, <2>8, <2>9, <2>10, <2>11,
       <2>12, <2>13, <2>14, <2>15, <2>16, <2>17, <2>18 DEF Next, WindowStep
<1>4. TypeOK /\ WorksForAnOp /\ [Next]_vars => WorksForAnOp'
  <2> SUFFICES ASSUME TypeOK, WorksForAnOp, [Next]_vars PROVE WorksForAnOp'
    OBVIOUS
  <2> USE AfterWriteType DEF TypeOK, WorksForAnOp
  <2>1. ASSUME NEW w \in Windows, WriteRegistry(w) PROVE WorksForAnOp'
    BY <2>1 DEF WriteRegistry, AfterWrite
  <2>2. ASSUME NEW w \in Windows, NEW o \in Ops, BeginAdmission(w, o) \/ Heartbeat(w, o) \/ Release(w, o)
        PROVE WorksForAnOp'
    BY <2>2, OpsAssumption DEF BeginAdmission, Heartbeat, Release
  <2>3. ASSUME NEW w \in Windows, TakeTicket(w) \/ Grant(w) \/ PollAgain(w) \/ Wake(w) PROVE WorksForAnOp'
    <3>1. want' = want /\ pc[w] \in {"scan", "poll", "sleep"}
      BY <2>3 DEF TakeTicket, Grant, PollAgain, Wake, Decides
    <3>2. \A v \in Windows \ {w} : pc'[v] = pc[v]
      BY <2>3 DEF TakeTicket, Grant, PollAgain, Wake
    <3> QED BY <3>1, <3>2
  <2>4. ASSUME NEW w \in Windows, Refuse(w) \/ WriteFails(w) \/ AdmissionThrows(w) \/ Crash(w) PROVE WorksForAnOp'
    <3>1. pc'[w] \in {"idle", "leaving"}
      BY <2>4 DEF Refuse, WriteFails, AdmissionThrows, Crash, Abandon
    <3>2. \A v \in Windows \ {w} : pc'[v] = pc[v] /\ want'[v] = want[v]
      BY <2>4 DEF Refuse, WriteFails, AdmissionThrows, Crash, Abandon
    <3> QED BY <3>1, <3>2
  <2>5. CASE Tick
    BY <2>5 DEF Tick
  <2>6. ASSUME UNCHANGED <<pc, want>> PROVE WorksForAnOp'
    BY <2>6
  <2> QED
    BY <2>1, <2>2, <2>3, <2>4, <2>5, <2>6
    DEF Next, WindowStep, WriteOwnership, ReadRow, Damage, LegacyLease, vars
<1> QED
  BY <1>1, <1>2, <1>3, <1>4, PTL DEF Spec

-----------------------------------------------------------------------------
(***************************************************************************)
(* Leases that nobody has a handle on.  A lease in memory belongs to a     *)
(* handle, or to a grant that is being written; one on disk belongs to a   *)
(* handle or to a release that is being written.                           *)
(***************************************************************************)
LEMMA LeasesOf ==
  ASSUME NEW row \in Registry, NEW o \in Ops
  PROVE  /\ \A e : Choosing(row, e).leases[o] = row.leases[o]
         /\ \A n : Ticketed(row, n).leases[o] = row.leases[o]
         /\ EndAdmission(row).leases[o] = row.leases[o]
         /\ \A p \in Ops : \A e : WithLease(row, p, e).leases[o] = IF o = p THEN e ELSE row.leases[o]
         /\ Pruned(row).leases[o] = IF row.leases[o] > clock THEN row.leases[o] ELSE 0
         /\ Renewed(row).leases[o] = IF row.leases[o] > clock THEN clock + LeaseTtl ELSE row.leases[o]
  BY DEF Registry, Choosing, Ticketed, EndAdmission, WithLease, Pruned, Renewed

\* The lease of o in the memory, and on the disk, of window w.
InMemory(w, o) == reg[w].leases[o]
OnDisk(w, o) == main[w].leases[o]

Granted(w, o) == pc[w] = "leaving" /\ want[w] = o

Accounted(w, o) ==
    alive[w] =>
        /\ InMemory(w, o) > clock => o \in handles[w] \/ Granted(w, o)
        /\ OnDisk(w, o) > clock => o \in handles[w] \/ pc[w] = "releasing"

AllAccounted == faults = 0 => \A w \in Windows, o \in Ops : Accounted(w, o)

LEMMA Numeric ==
  ASSUME TypeOK, NEW w \in Windows, NEW o \in Ops
  PROVE  clock \in Nat /\ InMemory(w, o) \in Nat /\ OnDisk(w, o) \in Nat
  BY BoundsAssumption DEF TypeOK, Registry, InMemory, OnDisk

LEMMA WriteAccounted ==
  ASSUME TypeOK, NEW w \in Windows, WriteRegistry(w), NEW v \in Windows, NEW o \in Ops, Accounted(v, o)
  PROVE  Accounted(v, o)'
<1> USE OpsAssumption
<1>1. alive' = alive /\ clock' = clock /\ reg' = reg
  BY DEF WriteRegistry
<1>2. CASE v /= w
  <2>1. main'[v] = main[v] /\ pc'[v] = pc[v] /\ handles'[v] = handles[v] /\ want'[v] = want[v]
    BY <1>2 DEF WriteRegistry, TypeOK
  <2> QED BY <1>1, <2>1 DEF Accounted, InMemory, OnDisk, Granted
<1>3. CASE v = w
  <2>1. main'[w] = reg[w]
    BY DEF WriteRegistry, TypeOK
  <2>2. o \in handles[w] => o \in handles'[w]
    BY DEF WriteRegistry, TypeOK
  <2>3. Granted(w, o) => o \in handles'[w]
    BY DEF WriteRegistry, TypeOK, Granted
  <2> QED BY <1>1, <1>3, <2>1, <2>2, <2>3 DEF Accounted, InMemory, OnDisk
<1> QED BY <1>2, <1>3

LEMMA AbandonAccounted ==
  ASSUME TypeOK, NEW w \in Windows, Abandon(w), pc[w] \notin {"leaving", "releasing"},
         NEW v \in Windows, NEW o \in Ops, Accounted(v, o)
  PROVE  Accounted(v, o)'
<1>1. alive' = alive /\ clock' = clock /\ main' = main /\ handles' = handles
  BY DEF Abandon
<1>2. InMemory(v, o)' = InMemory(v, o)
  BY LeasesOf DEF Abandon, TypeOK, InMemory
<1>3. v /= w => pc'[v] = pc[v] /\ want'[v] = want[v]
  BY DEF Abandon, TypeOK
<1>4. v = w => ~Granted(v, o) /\ pc[v] /= "releasing"
  BY DEF Granted
<1> QED BY <1>1, <1>2, <1>3, <1>4 DEF Accounted, OnDisk, Granted

\* The steps of an admission and of its waits.
LEMMA AdmissionAccounted ==
  ASSUME TypeOK, NEW w \in Windows,
         \/ \E p \in Ops : BeginAdmission(w, p)
         \/ \E r \in Windows : ReadRow(w, r)
         \/ WriteOwnership(w) \/ TakeTicket(w) \/ PollAgain(w) \/ Wake(w),
         NEW v \in Windows, NEW o \in Ops, Accounted(v, o)
  PROVE  Accounted(v, o)'
<1>1. UNCHANGED <<alive, clock, main, handles>>
  BY DEF BeginAdmission, ReadRow, WriteOwnership, TakeTicket, PollAgain, Wake
<1>2. InMemory(v, o)' > clock => InMemory(v, o) > clock
  <2>1. CASE \E p \in Ops : BeginAdmission(w, p)
    BY <2>1, LeasesOf DEF BeginAdmission, TypeOK, InMemory
  <2>2. CASE TakeTicket(w)
    <3>1. PICK t : reg' = [reg EXCEPT ![w] = Ticketed(@, t)]
      BY <2>2 DEF TakeTicket
    <3> QED BY <3>1, LeasesOf DEF TypeOK, InMemory
  <2>3. CASE PollAgain(w)
    <3>1. reg' = reg \/ reg' = [reg EXCEPT ![w] = Renewed(@)]
      BY <2>3 DEF PollAgain
    <3>2. Renewed(reg[w]).leases[o] > clock => reg[w].leases[o] > clock
      BY LeasesOf, Numeric DEF TypeOK
    <3> QED BY <3>1, <3>2 DEF TypeOK, InMemory
  <2>4. CASE reg' = reg
    BY <2>4 DEF InMemory
  <2> QED BY <2>1, <2>2, <2>3, <2>4 DEF ReadRow, WriteOwnership, Wake
<1>3. v /= w => pc'[v] = pc[v] /\ want'[v] = want[v]
  BY DEF TypeOK, BeginAdmission, ReadRow, WriteOwnership, TakeTicket, PollAgain, Wake
<1>4. v = w => \/ pc'[v] = pc[v] /\ want'[v] = want[v]
               \/ pc[v] \notin {"leaving", "releasing"}
  BY DEF BeginAdmission, ReadRow, WriteOwnership, TakeTicket, PollAgain, Wake, Decides
<1> QED BY <1>1, <1>2, <1>3, <1>4 DEF Accounted, OnDisk, Granted

\* A grant, a heartbeat and a release change one lease in memory.
LEMMA LeaseAccounted ==
  ASSUME TypeOK, NEW w \in Windows,
         Grant(w) \/ \E p \in Ops : Heartbeat(w, p) \/ Release(w, p),
         NEW v \in Windows, NEW o \in Ops, Accounted(v, o)
  PROVE  Accounted(v, o)'
<1>1. clock \in Nat /\ reg[w] \in Registry
  BY Numeric DEF TypeOK
<1>2. CASE Grant(w)
  <2>1. UNCHANGED <<alive, clock, main, handles, want>> /\ pc[w] = "poll" /\ pc' = [pc EXCEPT ![w] = "leaving"]
    BY <1>2 DEF Grant, Decides
  <2>2. v = w => InMemory(w, o)' = IF o = want[w] THEN clock + LeaseTtl ELSE Pruned(reg[w]).leases[o]
    <3>1. reg'[w] = EndAdmission(WithLease(Pruned(reg[w]), want[w], clock + LeaseTtl))
      BY <1>2 DEF Grant, TypeOK
    <3>2. Pruned(reg[w]) \in Registry
      BY <1>1, PrunedType
    <3>3. WithLease(Pruned(reg[w]), want[w], clock + LeaseTtl) \in Registry
      BY <3>2, WithLeaseType, ClockNat
    <3>4. WithLease(Pruned(reg[w]), want[w], clock + LeaseTtl).leases[o] =
              IF o = want[w] THEN clock + LeaseTtl ELSE Pruned(reg[w]).leases[o]
      BY <3>2 DEF WithLease, Registry
    <3> QED BY <3>1, <3>3, <3>4, LeasesOf DEF InMemory
  <2>3. v /= w => InMemory(v, o)' = InMemory(v, o) /\ pc'[v] = pc[v]
    BY <1>2, <2>1 DEF Grant, TypeOK, InMemory
  <2>4. Pruned(reg[w]).leases[o] > clock => InMemory(w, o) > clock
    BY <1>1, LeasesOf DEF InMemory
  <2>5. pc'[w] = "leaving"
    BY <2>1 DEF TypeOK
  <2> QED BY <2>1, <2>2, <2>3, <2>4, <2>5 DEF Accounted, OnDisk, Granted
<1>3. ASSUME NEW p \in Ops, Heartbeat(w, p) PROVE Accounted(v, o)'
  <2>1. UNCHANGED <<alive, clock, main, handles>> /\ pc[w] = "idle" /\ p \in handles[w]
    BY <1>3 DEF Heartbeat
  <2>2. v /= w => InMemory(v, o)' = InMemory(v, o) /\ pc'[v] = pc[v] /\ want'[v] = want[v]
    BY <1>3 DEF Heartbeat, TypeOK, InMemory
  <2>3. v = w /\ o /= p => InMemory(v, o)' = InMemory(v, o)
    BY <1>1, <1>3, LeasesOf DEF Heartbeat, TypeOK, InMemory
  <2> QED BY <2>1, <2>2, <2>3 DEF Accounted, OnDisk, Granted
<1>4. ASSUME NEW p \in Ops, Release(w, p) PROVE Accounted(v, o)'
  <2>1. UNCHANGED <<alive, clock, main, want>> /\ pc[w] = "idle" /\ pc'[w] = "releasing"
    BY <1>4 DEF Release, TypeOK
  <2>2. v /= w => InMemory(v, o)' = InMemory(v, o) /\ pc'[v] = pc[v] /\ handles'[v] = handles[v]
    BY <1>4 DEF Release, TypeOK, InMemory
  <2>3. v = w /\ o /= p => InMemory(v, o)' = InMemory(v, o) /\ (o \in handles[v] => o \in handles'[v])
    BY <1>1, <1>4, LeasesOf DEF Release, Without, TypeOK, InMemory
  <2>4. v = w /\ o = p => InMemory(v, o)' = 0
    BY <1>1, <1>4, LeasesOf DEF Release, Without, TypeOK, InMemory
  <2> QED BY <1>1, <2>1, <2>2, <2>3, <2>4 DEF Accounted, OnDisk, Granted
<1> QED BY <1>2, <1>3, <1>4

LEMMA StepAccounted == TypeOK /\ AllAccounted /\ [Next]_vars => AllAccounted'
<1> SUFFICES ASSUME TypeOK, [Next]_vars, faults' = 0, NEW v \in Windows, NEW o \in Ops, AllAccounted
             PROVE  Accounted(v, o)'
  BY DEF AllAccounted
<1>1. ASSUME NEW w \in Windows PROVE ~WriteFails(w) /\ ~AdmissionThrows(w) /\ ~Damage(w)
  BY BoundsAssumption DEF TypeOK, WriteFails, AdmissionThrows, Damage
<1>2. faults' = faults
  BY <1>1 DEF Next, WindowStep, WriteOwnership, WriteRegistry, BeginAdmission, Heartbeat, Release, ReadRow,
             TakeTicket, Grant, Refuse, PollAgain, Wake, Crash, Tick, LegacyLease, vars
<1>3. Accounted(v, o)
  BY <1>2 DEF AllAccounted
<1>4. ASSUME NEW w \in Windows, Refuse(w) PROVE Accounted(v, o)'
  BY <1>3, <1>4, AbandonAccounted DEF Refuse, Decides
<1>5. ASSUME NEW w \in Windows, Crash(w) PROVE Accounted(v, o)'
  <2>1. UNCHANGED <<clock, main>>
    BY <1>5 DEF Crash
  <2>2. v = w => ~alive'[v]
    BY <1>5 DEF Crash, TypeOK
  <2>3. v /= w => /\ alive'[v] = alive[v] /\ reg'[v] = reg[v] /\ pc'[v] = pc[v]
                  /\ want'[v] = want[v] /\ handles'[v] = handles[v]
    BY <1>5 DEF Crash, TypeOK
  <2> QED BY <1>3, <2>1, <2>2, <2>3 DEF Accounted, InMemory, OnDisk, Granted
<1>6. CASE Tick
  <2>1. UNCHANGED <<alive, reg, main, pc, want, handles>> /\ clock' = clock + 1
    BY <1>6 DEF Tick
  <2> QED BY <1>3, <2>1, Numeric DEF Accounted, InMemory, OnDisk, Granted
<1>7. CASE LegacyLease \/ UNCHANGED vars
  BY <1>3, <1>7 DEF LegacyLease, vars, Accounted, InMemory, OnDisk, Granted
<1> QED
  BY <1>1, <1>3, <1>4, <1>5, <1>6, <1>7, WriteAccounted, AdmissionAccounted, LeaseAccounted DEF Next, WindowStep

\* Without failures, every unexpired lease on a live window's disk belongs to a
\* handle or to a release that is being written (acquire(), release(), write()).
THEOREM NoOrphanLeaseHolds == Spec => []NoOrphanLease
<1>1. Init => AllAccounted
  BY DEF Init, AllAccounted, Accounted, InMemory, OnDisk, IdleRow
<1>2. AllAccounted => NoOrphanLease
  BY DEF AllAccounted, Accounted, OnDisk, NoOrphanLease
<1> QED BY <1>1, <1>2, StepAccounted, TypeCorrect, PTL DEF Spec

-----------------------------------------------------------------------------
(***************************************************************************)
(* A lease that has expired on disk is not revived: it has expired in      *)
(* memory too, unless the window overran it, and from then on neither a    *)
(* heartbeat nor the renewal inside a wait extends it.                     *)
(***************************************************************************)
NoneOverrun == ~late => \A w \in Windows : \A o \in handles[w] : OnDisk(w, o) <= clock => InMemory(w, o) <= clock


\* An admission asks for a lease that its window has no handle on.
Admitting == {"choosing", "scan", "ticketing", "poll", "sleep", "renewing", "leaving"}
WantsNew == \A w \in Windows : pc[w] \in Admitting => want[w] \notin handles[w]

LEMMA StepWantsNew == TypeOK /\ WantsNew /\ [Next]_vars => WantsNew'
<1> SUFFICES ASSUME TypeOK, WantsNew, [Next]_vars PROVE WantsNew'
  OBVIOUS
<1> USE AfterWriteType, OpsAssumption DEF TypeOK, WantsNew, Admitting
<1>1. ASSUME NEW w \in Windows, WriteRegistry(w) PROVE WantsNew'
  <2>1. \A v \in Windows \ {w} : pc'[v] = pc[v] /\ want'[v] = want[v] /\ handles'[v] = handles[v]
    BY <1>1 DEF WriteRegistry
  <2>2. pc[w] \in {"choosing", "ticketing", "renewing"} => want'[w] = want[w] /\ handles'[w] = handles[w]
    BY <1>1 DEF WriteRegistry, AfterWrite
  <2>3. pc[w] \notin {"choosing", "ticketing", "renewing"} => pc'[w] = "idle"
    BY <1>1 DEF WriteRegistry, AfterWrite
  <2> QED BY <2>1, <2>2, <2>3
<1>2. ASSUME NEW w \in Windows, NEW o \in Ops, BeginAdmission(w, o) \/ Heartbeat(w, o) \/ Release(w, o)
      PROVE WantsNew'
  BY <1>2 DEF BeginAdmission, Heartbeat, Release
<1>3. ASSUME NEW w \in Windows, TakeTicket(w) \/ Grant(w) \/ PollAgain(w) \/ Wake(w) PROVE WantsNew'
  <2>1. pc[w] \in Admitting /\ UNCHANGED <<want, handles>> /\ \A v \in Windows \ {w} : pc'[v] = pc[v]
    BY <1>3 DEF TakeTicket, Grant, PollAgain, Wake, Decides
  <2> QED BY <2>1
<1>4. ASSUME NEW w \in Windows, Refuse(w) \/ WriteFails(w) \/ AdmissionThrows(w) \/ Crash(w) PROVE WantsNew'
  <2>1. want'[w] = NoOp /\ handles'[w] \subseteq Ops
    BY <1>4 DEF Refuse, WriteFails, AdmissionThrows, Crash, Abandon
  <2>2. \A v \in Windows \ {w} : pc'[v] = pc[v] /\ want'[v] = want[v] /\ handles'[v] = handles[v]
    BY <1>4 DEF Refuse, WriteFails, AdmissionThrows, Crash, Abandon
  <2> QED BY <2>1, <2>2
<1>5. CASE Tick
  BY <1>5 DEF Tick
<1>6. ASSUME UNCHANGED <<pc, want, handles>> PROVE WantsNew'
  BY <1>6
<1> QED
  BY <1>1, <1>2, <1>3, <1>4, <1>5, <1>6 DEF Next, WindowStep, WriteOwnership, ReadRow, Damage, LegacyLease, vars

\* A handle that a step keeps: what the step may do to its window and lease.
HandleKept(w, o) ==
    /\ alive'[w] => alive[w]
    /\ o \in lost[w] => o \in lost'[w]
    /\ main'[w] \in {main[w], reg[w]}
    /\ clock' >= clock

LEMMA HandleStep ==
  ASSUME TypeOK, [Next]_vars, NEW w \in Windows, NEW o \in handles[w] \cap handles'[w]
  PROVE  HandleKept(w, o)
<1> USE DEF HandleKept
<1>1. clock \in Nat /\ o \in Ops
  BY BoundsAssumption DEF TypeOK
<1>2. ASSUME NEW v \in Windows, WriteRegistry(v) PROVE HandleKept(w, o)
  BY <1>1, <1>2 DEF WriteRegistry, TypeOK
<1>3. ASSUME NEW v \in Windows, NEW p \in Ops, BeginAdmission(v, p) \/ Heartbeat(v, p) PROVE HandleKept(w, o)
  BY <1>1, <1>3 DEF BeginAdmission, Heartbeat, TypeOK
<1>4. ASSUME NEW v \in Windows, NEW p \in Ops, Release(v, p) PROVE HandleKept(w, o)
  <2>1. UNCHANGED <<clock, alive, main>>
    BY <1>4 DEF Release
  <2>2. v = w => o /= p
    BY <1>4 DEF Release, TypeOK
  <2>3. o \in lost[w] => o \in lost'[w]
    BY <1>4, <2>2 DEF Release, TypeOK
  <2> QED BY <1>1, <2>1, <2>3
<1>5. ASSUME NEW v \in Windows, Refuse(v) \/ AdmissionThrows(v) PROVE HandleKept(w, o)
  BY <1>1, <1>5 DEF Refuse, AdmissionThrows, Abandon
<1>6. ASSUME NEW v \in Windows, WriteFails(v) PROVE HandleKept(w, o)
  <2>1. UNCHANGED <<clock, alive, main>>
    BY <1>6 DEF WriteFails, Abandon
  <2>2. o \in lost[w] => o \in lost'[w]
    BY <1>6 DEF WriteFails, Abandon, TypeOK
  <2> QED BY <1>1, <2>1, <2>2
<1>7. ASSUME NEW v \in Windows, Crash(v) PROVE HandleKept(w, o)
  <2>1. v /= w
    BY <1>7 DEF Crash, TypeOK
  <2> QED BY <1>1, <1>7, <2>1 DEF Crash, TypeOK
<1>8. CASE Tick
  <2>1. UNCHANGED <<alive, main, lost>> /\ clock' = clock + 1
    BY <1>8 DEF Tick
  <2> QED BY <1>1, <2>1
<1>9. ASSUME UNCHANGED <<clock, alive, main, lost>> PROVE HandleKept(w, o)
  BY <1>1, <1>9
<1> QED
  BY <1>2, <1>3, <1>4, <1>5, <1>6, <1>7, <1>8, <1>9
  DEF Next, WindowStep, WriteOwnership, ReadRow, TakeTicket, Grant, PollAgain, Wake, Damage, LegacyLease, vars

\* Within an instant, a lease that has expired on disk and in memory, and that
\* a handle is on, is not extended.
LEMMA MemoryStays ==
  ASSUME TypeOK, WantsNew, [Next]_vars, clock' = clock, NEW w \in Windows, NEW o \in handles[w],
         OnDisk(w, o) <= clock, InMemory(w, o) <= clock
  PROVE  InMemory(w, o)' <= clock
<1>1. clock \in Nat /\ o \in Ops /\ InMemory(w, o) \in Nat /\ reg[w] \in Registry
  BY Numeric DEF TypeOK
<1>2. ASSUME reg'[w] = reg[w] PROVE InMemory(w, o)' <= clock
  BY <1>2 DEF InMemory
<1>3. ASSUME NEW v \in Windows,
             Refuse(v) \/ WriteFails(v) \/ AdmissionThrows(v) \/ Crash(v) \/ TakeTicket(v)
               \/ \E p \in Ops : BeginAdmission(v, p)
      PROVE InMemory(w, o)' <= clock
  <2>1. CASE Crash(v)
    <3>1. v = w => reg'[w] = IdleRow
      BY <2>1 DEF Crash, TypeOK
    <3>2. IdleRow.leases[o] = 0
      BY <1>1 DEF IdleRow
    <3>3. v /= w => reg'[w] = reg[w]
      BY <2>1 DEF Crash, TypeOK
    <3> QED BY <1>1, <1>2, <3>1, <3>2, <3>3 DEF InMemory
  <2>2. CASE TakeTicket(v)
    <3>1. PICK t : reg' = [reg EXCEPT ![v] = Ticketed(@, t)]
      BY <2>2 DEF TakeTicket
    <3>2. Ticketed(reg[w], t).leases[o] = reg[w].leases[o]
      BY <1>1, LeasesOf
    <3>3. reg'[w] = IF v = w THEN Ticketed(reg[w], t) ELSE reg[w]
      BY <3>1 DEF TypeOK
    <3> QED BY <3>2, <3>3 DEF InMemory
  <2>3. CASE \E p \in Ops : BeginAdmission(v, p)
    BY <2>3, <1>1, LeasesOf DEF BeginAdmission, TypeOK, InMemory
  <2>4. CASE Abandon(v)
    BY <2>4, <1>1, LeasesOf DEF Abandon, TypeOK, InMemory
  <2>5. CASE reg' = reg
    BY <1>2, <2>5
  <2> QED BY <1>3, <2>1, <2>2, <2>3, <2>4, <2>5 DEF Refuse, WriteFails, AdmissionThrows
<1>4. ASSUME NEW v \in Windows, PollAgain(v) PROVE InMemory(w, o)' <= clock
  <2>1. reg' = reg \/ reg' = [reg EXCEPT ![v] = Renewed(@)]
    BY <1>4 DEF PollAgain
  <2>2. Renewed(reg[w]).leases[o] = reg[w].leases[o]
    BY <1>1, LeasesOf DEF InMemory
  <2>3. reg'[w] \in {reg[w], Renewed(reg[w])}
    BY <2>1 DEF TypeOK
  <2> QED BY <2>2, <2>3 DEF InMemory
<1>5. ASSUME NEW v \in Windows, Grant(v) PROVE InMemory(w, o)' <= clock
  <2>1. CASE v /= w
    BY <1>2, <1>5, <2>1 DEF Grant, TypeOK
  <2>2. CASE v = w
    <3>1. o /= want[w]
      BY <1>5, <2>2 DEF Grant, Decides, WantsNew, Admitting
    <3>2. reg'[w] = EndAdmission(WithLease(Pruned(reg[w]), want[w], clock + LeaseTtl))
      BY <1>5, <2>2 DEF Grant, TypeOK
    <3>3. Pruned(reg[w]) \in Registry
      BY <1>1, PrunedType
    <3>4. WithLease(Pruned(reg[w]), want[w], clock + LeaseTtl) \in Registry
      BY <3>3, WithLeaseType, ClockNat
    <3>5. WithLease(Pruned(reg[w]), want[w], clock + LeaseTtl).leases[o] = Pruned(reg[w]).leases[o]
      BY <1>1, <3>1, <3>3 DEF WithLease, Registry
    <3>6. Pruned(reg[w]).leases[o] = 0
      BY <1>1, LeasesOf DEF InMemory
    <3> QED BY <1>1, <3>2, <3>4, <3>5, <3>6, LeasesOf DEF InMemory
  <2> QED BY <2>1, <2>2
<1>6. ASSUME NEW v \in Windows, NEW p \in Ops, Heartbeat(v, p) \/ Release(v, p) PROVE InMemory(w, o)' <= clock
  <2>1. CASE v /= w
    BY <1>2, <1>6, <2>1 DEF Heartbeat, Release, TypeOK
  <2>2. CASE v = w /\ Heartbeat(v, p)
    <3>1. reg' = reg \/ (reg'[w] = WithLease(reg[w], p, clock + LeaseTtl) /\ Owned(w, p))
      BY <2>2 DEF Heartbeat, TypeOK
    <3>2. Owned(w, p) => p /= o
      BY <1>1 DEF Owned, OnDisk, TypeOK, Registry
    <3> QED BY <1>1, <1>2, <3>1, <3>2, LeasesOf DEF InMemory
  <2>3. CASE v = w /\ Release(v, p)
    <3>1. reg'[w] = WithLease(reg[w], p, 0)
      BY <2>3 DEF Release, Without, TypeOK
    <3>2. WithLease(reg[w], p, 0).leases[o] \in {0, reg[w].leases[o]}
      BY <1>1, LeasesOf
    <3> QED BY <1>1, <3>1, <3>2 DEF InMemory
  <2> QED BY <1>6, <2>1, <2>2, <2>3
<1>7. ASSUME reg' = reg PROVE InMemory(w, o)' <= clock
  BY <1>2, <1>7
<1> QED
  BY <1>3, <1>4, <1>5, <1>6, <1>7
  DEF Next, WindowStep, WriteOwnership, WriteRegistry, ReadRow, Wake, Damage, Tick, LegacyLease, vars

\* While nothing is late, a step either takes no time or is a tick that no
\* window has overrun.
LEMMA TimePasses ==
  ASSUME [Next]_vars, ~late'
  PROVE  /\ ~late
         /\ \/ clock' = clock
            \/ clock' = clock + 1 /\ ~Overruns(clock + 1) /\ UNCHANGED <<reg, main, handles>>
<1> DEFINE Passes == ~late /\ (clock' = clock \/ Tick)
<1>1. ASSUME NEW w \in Windows, Grant(w) PROVE Passes
  <2>1. late' = (late \/ DecidesLate(w)) /\ clock' = clock
    BY <1>1, Zenon DEF Grant
  <2> QED BY <2>1, Zenon
<1>2. ASSUME Tick PROVE Passes
  <2>1. late' = (late \/ Overruns(clock + 1))
    BY <1>2, Zenon DEF Tick
  <2> QED BY <1>2, <2>1, Zenon
<1>3. ASSUME late' = late, clock' = clock PROVE Passes
  BY <1>3
<1>4. Passes
  BY <1>1, <1>2, <1>3
  DEF Next, WindowStep, WriteOwnership, WriteRegistry, BeginAdmission, Heartbeat, Release, ReadRow, TakeTicket,
      Refuse, PollAgain, Wake, WriteFails, AdmissionThrows, Abandon, Damage, Crash, LegacyLease, vars
<1>5. Tick => /\ clock' = clock + 1 /\ ~Overruns(clock + 1)
              /\ UNCHANGED <<reg, main, handles>>
  <2> SUFFICES ASSUME Tick PROVE clock' = clock + 1 /\ ~Overruns(clock + 1) /\ UNCHANGED <<reg, main, handles>>
    OBVIOUS
  <2>1. late' = (late \/ Overruns(clock + 1))
    BY Zenon DEF Tick
  <2>2. ~Overruns(clock + 1)
    BY <2>1, Zenon
  <2> QED BY <2>2 DEF Tick
<1> QED BY <1>4, <1>5

LEMMA StepNoneOverrun == TypeOK /\ WantsNew /\ NoneOverrun /\ [Next]_vars => NoneOverrun'
<1> SUFFICES ASSUME TypeOK, WantsNew, NoneOverrun, [Next]_vars, ~late',
                    NEW w \in Windows, NEW o \in handles'[w], OnDisk(w, o)' <= clock'
             PROVE  InMemory(w, o)' <= clock'
  BY DEF NoneOverrun
<1>1. clock \in Nat /\ ~late
  BY TimePasses, BoundsAssumption DEF TypeOK
<1>2. CASE o \notin handles[w]
  <2>1. PICK v \in Windows : WriteRegistry(v)
    BY <1>2 DEF Next, WindowStep, WriteOwnership, BeginAdmission, Heartbeat, Release, ReadRow, TakeTicket, Grant,
         Refuse, PollAgain, Wake, WriteFails, AdmissionThrows, Abandon, Damage, Crash, Tick, LegacyLease, vars, TypeOK
  <2>2. v = w
    BY <1>2, <2>1 DEF WriteRegistry, TypeOK
  <2>3. main'[w] = reg'[w]
    BY <2>1, <2>2 DEF WriteRegistry, TypeOK
  <2> QED BY <2>3 DEF OnDisk, InMemory
<1>3. CASE o \in handles[w]
  <2>1. o \in Ops /\ OnDisk(w, o) \in Nat /\ InMemory(w, o) \in Nat
    BY <1>3, Numeric DEF TypeOK
  <2>2. CASE clock' = clock
    <3>1. CASE OnDisk(w, o) <= clock
      BY <1>1, <1>3, <2>2, <3>1, MemoryStays DEF NoneOverrun
    <3>2. CASE ~(OnDisk(w, o) <= clock)
      <4>1. PICK v \in Windows : WriteRegistry(v)
        <5>1. main' /= main
          BY <2>2, <3>2 DEF OnDisk
        <5> QED BY <5>1
             DEF Next, WindowStep, WriteOwnership, BeginAdmission, Heartbeat, Release, ReadRow, TakeTicket, Grant,
                 Refuse, PollAgain, Wake, WriteFails, AdmissionThrows, Abandon, Damage, Crash, Tick, LegacyLease, vars
      <4>2. v = w
        BY <2>2, <3>2, <4>1 DEF WriteRegistry, TypeOK, OnDisk
      <4>3. main'[w] = reg'[w]
        BY <4>1, <4>2 DEF WriteRegistry, TypeOK
      <4> QED BY <4>3 DEF OnDisk, InMemory
    <3> QED BY <3>1, <3>2
  <2>3. CASE clock' = clock + 1 /\ ~Overruns(clock + 1) /\ UNCHANGED <<reg, main, handles>>
    <3>1. OnDisk(w, o) <= clock + 1 /\ ~(clock + 1 < InMemory(w, o))
      BY <1>3, <2>3 DEF Overruns, OnDisk, InMemory
    <3> QED BY <1>1, <2>1, <2>3, <3>1 DEF InMemory
  <2> QED BY <2>2, <2>3, TimePasses
<1> QED BY <1>2, <1>3

RevivalInv == TypeOK /\ WantsNew /\ NoneOverrun

\* A handle that could not prove its lease never can again, unless a window
\* overran a time-to-live (assertHeld(), the heartbeat and renewOwnLeases()).
THEOREM NoRevivalHolds == Spec => NoRevival
<1>1. Init => WantsNew /\ NoneOverrun
  BY OpsAssumption DEF Init, WantsNew, Admitting, NoneOverrun
<1>2. RevivalInv /\ RevivalInv' /\ [Next]_vars =>
         [\A w \in Windows, o \in Ops :
            (o \in handles[w] /\ o \in handles'[w] /\ ~late' /\ Holds(w, o)') => Holds(w, o)]_vars
  <2> SUFFICES ASSUME RevivalInv, [Next]_vars, NEW w \in Windows, NEW o \in Ops,
                      o \in handles[w], o \in handles'[w], ~late', Holds(w, o)'
               PROVE  Holds(w, o)
    OBVIOUS
  <2>1. HandleKept(w, o)
    BY HandleStep DEF RevivalInv
  <2>2. alive[w] /\ o \notin lost[w]
    BY <2>1 DEF HandleKept, Holds
  <2>3. clock \in Nat /\ clock' \in Nat /\ OnDisk(w, o) \in Nat /\ InMemory(w, o) \in Nat
    <3>1. clock' \in {clock, clock + 1}
      BY TimePasses
    <3> QED BY <3>1, Numeric DEF RevivalInv
  <2>4. OnDisk(w, o)' \in {OnDisk(w, o), InMemory(w, o)}
    BY <2>1 DEF HandleKept, OnDisk, InMemory
  <2>5. OnDisk(w, o)' > clock'
    BY DEF Holds, OnDisk
  <2>6. OnDisk(w, o) > clock
    <3> SUFFICES ASSUME OnDisk(w, o) <= clock PROVE FALSE
      BY <2>3
    <3>1. InMemory(w, o) <= clock
      BY TimePasses DEF RevivalInv, NoneOverrun
    <3> QED BY <2>1, <2>3, <2>4, <2>5, <3>1 DEF HandleKept
  <2> QED BY <2>2, <2>6 DEF Holds, OnDisk
<1> QED BY <1>1, <1>2, TypeCorrect, StepWantsNew, StepNoneOverrun, PTL DEF Spec, NoRevival, RevivalInv

-----------------------------------------------------------------------------
(***************************************************************************)
(* Conflicting holders.  The bakery is proved pair by pair: what window w  *)
(* has read of window v, which may be out of date, against what v does.    *)
(* First, what each window's registry shows in each state of its queue.    *)
(***************************************************************************)
\* A row that takes part in the bakery has an admission.
RowOK(row) == row.choosing \/ row.ticket > 0 => row.admission >= 1

RowsOK == \A w \in Windows : RowOK(reg[w]) /\ RowOK(side[w]) /\ RowOK(main[w])
                               /\ \A v \in Windows : RowOK(seen[w][v])

\* A grant is being written.
Granting(w) == pc[w] = "leaving" /\ want[w] /= NoOp

\* What the two slots show of the queue of window w.
Slots(w) ==
    /\ pc[w] \in {"scan", "poll", "sleep"} => main[w] = reg[w] /\ side[w] = reg[w]
    /\ pc[w] \in {"choosing", "scan"} => reg[w].choosing
    /\ pc[w] \in {"ticketing", "poll", "sleep", "renewing"} => ~reg[w].choosing /\ reg[w].ticket > 0
    /\ pc[w] = "ticketing" => main[w].choosing /\ main[w].admission = reg[w].admission
    /\ pc[w] = "renewing" => /\ main[w].ticket = reg[w].ticket /\ main[w].admission = reg[w].admission
                             /\ ~main[w].choosing
    /\ Granting(w) => ~main[w].choosing /\ main[w].ticket > 0
    /\ pc[w] \in Writing /\ stage[w] = "registry" => side[w] = reg[w]
    /\ (pc[w] \in {"ticketing", "renewing"} \/ Granting(w)) /\ stage[w] = "ownership" => side[w] = main[w]
    /\ raced[w] \subseteq unread[w]
    /\ pc[w] \notin {"scan", "poll"} => unread[w] = {}
    /\ pc[w] \notin Writing => stage[w] = "ownership"

SlotsTell == \A w \in Windows : Slots(w)

\* A step of another window leaves all of a window's own state alone, except
\* that the registries it is reading may be replaced.
Untouched(x) ==
    /\ alive'[x] = alive[x] /\ reg'[x] = reg[x] /\ side'[x] = side[x] /\ main'[x] = main[x]
    /\ pc'[x] = pc[x] /\ stage'[x] = stage[x] /\ want'[x] = want[x]
    /\ unread'[x] = unread[x] /\ seen'[x] = seen[x]
    /\ handles'[x] = handles[x] /\ lost'[x] = lost[x]

LEMMA OthersUntouched ==
  ASSUME TypeOK, NEW u \in Windows, WindowStep(u), NEW x \in Windows, x /= u
  PROVE  Untouched(x)
<1> USE DEF TypeOK, Untouched
<1>1. CASE WriteOwnership(u) \/ WriteRegistry(u)
  BY <1>1 DEF WriteOwnership, WriteRegistry
<1>2. CASE \E o \in Ops : BeginAdmission(u, o) \/ Heartbeat(u, o) \/ Release(u, o)
  BY <1>2 DEF BeginAdmission, Heartbeat, Release
<1>3. ASSUME NEW r \in Windows, ReadRow(u, r) PROVE Untouched(x)
  <2>1. PICK row : seen' = [seen EXCEPT ![u][r] = row]
    BY <1>3 DEF ReadRow
  <2> QED BY <1>3, <2>1 DEF ReadRow
<1>4. CASE TakeTicket(u)
  <2>1. PICK t : reg' = [reg EXCEPT ![u] = Ticketed(@, t)]
    BY <1>4 DEF TakeTicket
  <2> QED BY <1>4, <2>1 DEF TakeTicket
<1>5. CASE Grant(u)
  BY <1>5 DEF Grant
<1>6. CASE PollAgain(u) \/ Wake(u)
  BY <1>6 DEF PollAgain, Wake
<1>7. CASE Abandon(u)
  BY <1>7 DEF Abandon
<1>8. CASE WriteFails(u)
  <2>1. CASE pc[u] \in {"choosing", "ticketing", "renewing"}
    BY <1>7, <1>8, <2>1 DEF WriteFails
  <2>2. CASE pc[u] \notin {"choosing", "ticketing", "renewing"}
    BY <1>8, <2>2 DEF WriteFails
  <2> QED BY <2>1, <2>2
<1>9. CASE Damage(u) \/ Crash(u)
  BY <1>9 DEF Damage, Crash
<1> QED BY <1>1, <1>2, <1>3, <1>4, <1>5, <1>6, <1>7, <1>8, <1>9 DEF WindowStep, Refuse, AdmissionThrows

\* What a window's step may do to the clock, to the damage and to a read that
\* is under way.
LEMMA AroundUntouched ==
  ASSUME TypeOK, NEW u \in Windows, WindowStep(u), NEW x \in Windows
  PROVE  /\ clock' = clock
         /\ x /= u => (x \in damaged' <=> x \in damaged)
         /\ x /= u => raced'[x] = raced[x] \/ (u \in unread[x] /\ raced'[x] = raced[x] \cup {u})
<1> USE DEF TypeOK
<1>1. CASE WriteOwnership(u) \/ WriteRegistry(u)
  BY <1>1 DEF WriteOwnership, WriteRegistry
<1>2. CASE \E o \in Ops : BeginAdmission(u, o) \/ Heartbeat(u, o) \/ Release(u, o)
  BY <1>2 DEF BeginAdmission, Heartbeat, Release
<1>3. CASE \E r \in Windows : ReadRow(u, r)
  BY <1>3 DEF ReadRow
<1>4. CASE TakeTicket(u) \/ Grant(u) \/ PollAgain(u) \/ Wake(u)
  BY <1>4 DEF TakeTicket, Grant, PollAgain, Wake
<1>5. CASE Refuse(u) \/ AdmissionThrows(u) \/ WriteFails(u) \/ Damage(u) \/ Crash(u)
  BY <1>5 DEF Refuse, AdmissionThrows, WriteFails, Abandon, Damage, Crash
<1> QED BY <1>1, <1>2, <1>3, <1>4, <1>5 DEF WindowStep

\* What the operations on a registry do to its admission.
LEMMA AdmissionOf ==
  ASSUME NEW row \in Registry
  PROVE  /\ \A e : /\ Choosing(row, e).admission = e /\ Choosing(row, e).choosing
                   /\ Choosing(row, e).ticket = row.ticket
         /\ \A n : /\ Ticketed(row, n).admission = row.admission /\ ~Ticketed(row, n).choosing
                   /\ Ticketed(row, n).ticket = n
         /\ EndAdmission(row).admission = 0 /\ ~EndAdmission(row).choosing /\ EndAdmission(row).ticket = 0
         /\ \A o, e : /\ WithLease(row, o, e).admission = row.admission
                      /\ WithLease(row, o, e).choosing = row.choosing
                      /\ WithLease(row, o, e).ticket = row.ticket
         /\ Pruned(row).admission = row.admission /\ Pruned(row).choosing = row.choosing
         /\ Pruned(row).ticket = row.ticket
         /\ Renewed(row).admission = row.admission /\ Renewed(row).choosing = row.choosing
         /\ Renewed(row).ticket = row.ticket
  BY DEF Registry, Choosing, Ticketed, EndAdmission, WithLease, Pruned, Renewed

LEMMA StepRowsOK == TypeOK /\ SlotsTell /\ RowsOK /\ [Next]_vars => RowsOK'
<1> SUFFICES ASSUME TypeOK, SlotsTell, RowsOK, [Next]_vars, NEW x \in Windows, NEW v \in Windows
             PROVE  RowOK(reg'[x]) /\ RowOK(side'[x]) /\ RowOK(main'[x]) /\ RowOK(seen'[x][v])
  BY DEF RowsOK, RowOK
<1> DEFINE Goal == RowOK(reg'[x]) /\ RowOK(side'[x]) /\ RowOK(main'[x]) /\ RowOK(seen'[x][v])
<1>1. /\ RowOK(reg[x]) /\ RowOK(side[x]) /\ RowOK(main[x]) /\ RowOK(seen[x][v])
      /\ reg[x] \in Registry
  BY DEF RowsOK, TypeOK
<1>2. RowOK(IdleRow) /\ RowOK(NothingSeen[v])
  BY DEF RowOK, IdleRow, NothingSeen
<1>3. ASSUME Untouched(x) PROVE Goal
  BY <1>1, <1>3 DEF Untouched
<1>4. ASSUME WindowStep(x) PROVE Goal
  <2>1. CASE WriteOwnership(x) \/ WriteRegistry(x)
    BY <1>1, <2>1 DEF WriteOwnership, WriteRegistry, TypeOK
  <2>2. ASSUME NEW o \in Ops, BeginAdmission(x, o) PROVE Goal
    <3>1. reg'[x] = Choosing(reg[x], clock + AdmissionTtl) /\ UNCHANGED <<side, main, seen>>
      BY <2>2 DEF BeginAdmission, TypeOK
    <3>2. clock \in Nat /\ AdmissionTtl \in Nat \ {0}
      BY TtlAssumption, BoundsAssumption DEF TypeOK
    <3>3. Choosing(reg[x], clock + AdmissionTtl).admission = clock + AdmissionTtl
      BY <1>1, AdmissionOf
    <3>4. RowOK(reg'[x])
      BY <3>1, <3>2, <3>3 DEF RowOK
    <3> QED BY <1>1, <3>1, <3>4
  <2>3. ASSUME NEW o \in Ops, Heartbeat(x, o) \/ Release(x, o) PROVE Goal
    <3>1. reg'[x] = reg[x] \/ \E e : reg'[x] = WithLease(reg[x], o, e)
      BY <2>3 DEF Heartbeat, Release, Without, TypeOK
    <3>2. RowOK(reg'[x])
      BY <1>1, <3>1, AdmissionOf DEF RowOK
    <3> QED BY <1>1, <2>3, <3>2 DEF Heartbeat, Release
  <2>4. ASSUME NEW r \in Windows, ReadRow(x, r) PROVE Goal
    <3>1. PICK row \in {main[r], side[r]} : seen' = [seen EXCEPT ![x][r] = row]
      BY <2>4 DEF ReadRow, Readable
    <3>2. RowOK(row)
      BY <3>1 DEF RowsOK
    <3>3. seen'[x][v] \in {seen[x][v], row}
      BY <3>1 DEF TypeOK
    <3> QED BY <1>1, <2>4, <3>2, <3>3 DEF ReadRow
  <2>5. CASE TakeTicket(x)
    <3>1. PICK t : reg' = [reg EXCEPT ![x] = Ticketed(@, t)]
      BY <2>5 DEF TakeTicket
    <3>2. reg'[x] = Ticketed(reg[x], t) /\ UNCHANGED <<side, main>> /\ seen'[x] = NothingSeen
      BY <2>5, <3>1 DEF TakeTicket, TypeOK
    <3>3. reg[x].choosing
      BY <2>5 DEF SlotsTell, Slots, TakeTicket
    <3>4. RowOK(reg'[x])
      BY <1>1, <3>2, <3>3, AdmissionOf DEF RowOK
    <3> QED BY <1>1, <1>2, <3>2, <3>4
  <2>6. CASE Grant(x)
    <3> DEFINE row == WithLease(Pruned(reg[x]), want[x], clock + LeaseTtl)
    <3>1. row \in Registry
      BY <1>1, PrunedType, WithLeaseType, ClockNat
    <3>2. reg'[x] = EndAdmission(row) /\ UNCHANGED <<side, main>> /\ seen'[x] = NothingSeen
      BY <2>6 DEF Grant, TypeOK
    <3> HIDE DEF row
    <3>3. RowOK(reg'[x])
      BY <3>1, <3>2, AdmissionOf DEF RowOK
    <3> QED BY <1>1, <1>2, <3>2, <3>3
  <2>7. CASE PollAgain(x)
    <3>1. reg'[x] \in {reg[x], Renewed(reg[x])} /\ UNCHANGED <<side, main>> /\ seen'[x] = NothingSeen
      BY <2>7 DEF PollAgain, TypeOK
    <3>2. RowOK(reg'[x])
      BY <1>1, <3>1, AdmissionOf DEF RowOK
    <3> QED BY <1>1, <1>2, <3>1, <3>2
  <2>8. CASE Abandon(x)
    <3>1. reg'[x] = EndAdmission(reg[x]) /\ UNCHANGED <<side, main>> /\ seen'[x] = NothingSeen
      BY <2>8 DEF Abandon, TypeOK
    <3>2. RowOK(reg'[x])
      BY <1>1, <3>1, AdmissionOf DEF RowOK
    <3> QED BY <1>1, <1>2, <3>1, <3>2
  <2>9. CASE Crash(x)
    BY <1>1, <1>2, <2>9 DEF Crash, TypeOK
  <2>10. CASE UNCHANGED <<reg, side, main, seen>>
    BY <1>1, <2>10
  <2> QED
    BY <1>4, <2>1, <2>2, <2>3, <2>4, <2>5, <2>6, <2>7, <2>8, <2>9, <2>10
    DEF WindowStep, Wake, Damage, Refuse, AdmissionThrows, WriteFails
<1>5. ASSUME UNCHANGED <<reg, side, main, seen>> PROVE Goal
  BY <1>1, <1>5
<1> QED BY <1>3, <1>4, <1>5, OthersUntouched DEF Next, Tick, LegacyLease, vars

LEMMA WriteSlots ==
  ASSUME TypeOK, NEW x \in Windows, Slots(x), WriteOwnership(x) \/ WriteRegistry(x)
  PROVE  Slots(x)'
<1> USE AfterWriteType DEF TypeOK
<1>1. CASE WriteOwnership(x)
  <2>1. /\ UNCHANGED <<reg, main, pc, want, unread, raced>>
        /\ side'[x] = reg[x] /\ stage'[x] = "registry" /\ pc[x] \in Writing
    BY <1>1 DEF WriteOwnership
  <2> QED BY <2>1 DEF Slots, Granting
<1>2. CASE WriteRegistry(x)
  <2>1. /\ UNCHANGED <<reg, side>> /\ main'[x] = reg[x] /\ side[x] = reg[x]
        /\ pc[x] \in Writing /\ pc'[x] = AfterWrite[pc[x]] /\ stage'[x] = "ownership"
        /\ unread'[x] = IF pc'[x] \in {"scan", "poll"} THEN Windows \ {x} ELSE {}
        /\ raced'[x] = raced[x] /\ raced[x] = {}
    BY <1>2 DEF WriteRegistry, Slots
  <2>2. pc[x] = "choosing" => pc'[x] = "scan"
    BY <2>1 DEF AfterWrite
  <2>3. pc[x] = "ticketing" => pc'[x] = "poll"
    BY <2>1 DEF AfterWrite
  <2>4. pc[x] = "renewing" => pc'[x] = "sleep"
    BY <2>1 DEF AfterWrite
  <2>5. pc[x] \in {"leaving", "releasing", "beating"} => pc'[x] = "idle"
    BY <2>1 DEF AfterWrite
  <2>6. CASE pc[x] = "choosing" /\ reg[x].choosing
    BY <2>1, <2>2, <2>6 DEF Slots, Granting
  <2>7. CASE pc[x] \in {"ticketing", "renewing"}
    BY <2>1, <2>3, <2>4, <2>7 DEF Slots, Granting
  <2>8. CASE pc[x] \in {"leaving", "releasing", "beating"}
    BY <2>1, <2>5, <2>8 DEF Slots, Granting
  <2>9. pc[x] = "choosing" => reg[x].choosing
    BY DEF Slots
  <2> QED BY <2>1, <2>6, <2>7, <2>8, <2>9
<1> QED BY <1>1, <1>2

LEMMA AdmissionSlots ==
  ASSUME TypeOK, NEW x \in Windows, Slots(x),
         \/ \E o \in Ops : BeginAdmission(x, o)
         \/ \E r \in Windows : ReadRow(x, r)
         \/ TakeTicket(x) \/ PollAgain(x) \/ Wake(x)
  PROVE  Slots(x)'
<1> USE AfterWriteType DEF TypeOK
<1>1. reg[x] \in Registry
  OBVIOUS
<1>2. ASSUME NEW o \in Ops, BeginAdmission(x, o) PROVE Slots(x)'
  <2>1. /\ reg'[x] = Choosing(reg[x], clock + AdmissionTtl) /\ pc[x] = "idle" /\ pc'[x] = "choosing"
        /\ UNCHANGED <<stage, unread, raced>>
    BY <1>2 DEF BeginAdmission
  <2> QED BY <1>1, <2>1, AdmissionOf DEF Slots, Granting
<1>3. ASSUME NEW r \in Windows, ReadRow(x, r) PROVE Slots(x)'
  <2>1. /\ UNCHANGED <<reg, side, main, pc, stage, want>> /\ pc[x] \in {"scan", "poll"}
        /\ unread'[x] = unread[x] \ {r} /\ raced'[x] = raced[x] \ {r}
    BY <1>3 DEF ReadRow
  <2> QED BY <2>1 DEF Slots, Granting
<1>4. CASE TakeTicket(x)
  <2>1. PICK t \in Nat \ {0} : reg' = [reg EXCEPT ![x] = Ticketed(@, t)]
    <3>1. \A r \in Windows : seen[x][r].ticket \in Nat
      BY DEF Registry
    <3>2. PICK t : t \in {n + 1 : n \in {seen[x][r].ticket : r \in {q \in Windows \ {x} : seen[x][q].admission > clock}} \cup {0}}
                    /\ reg' = [reg EXCEPT ![x] = Ticketed(@, t)]
      BY <1>4 DEF TakeTicket
    <3>3. t \in Nat \ {0}
      BY <3>1, <3>2
    <3> QED BY <3>2, <3>3
  <2>2. /\ pc[x] = "scan" /\ pc'[x] = "ticketing" /\ reg'[x] = Ticketed(reg[x], t)
        /\ UNCHANGED <<side, main, stage, want, unread, raced>> /\ unread[x] = {}
    BY <1>4, <2>1 DEF TakeTicket
  <2>3. /\ reg'[x].admission = reg[x].admission /\ ~reg'[x].choosing /\ reg'[x].ticket = t
    BY <1>1, <2>2, AdmissionOf
  <2>4. stage[x] = "ownership" /\ main[x] = reg[x] /\ side[x] = reg[x] /\ reg[x].choosing
    BY <2>2 DEF Slots
  <2> QED BY <2>2, <2>3, <2>4 DEF Slots, Granting
<1>5. CASE PollAgain(x)
  <2>1. /\ pc[x] = "poll" /\ UNCHANGED <<side, main, stage, want, unread, raced>> /\ unread[x] = {}
        /\ \/ pc'[x] = "sleep" /\ reg'[x] = reg[x]
           \/ pc'[x] = "renewing" /\ reg'[x] = Renewed(reg[x])
    BY <1>5 DEF PollAgain, Decides
  <2>2. stage[x] = "ownership" /\ main[x] = reg[x] /\ side[x] = reg[x] /\ ~reg[x].choosing /\ reg[x].ticket > 0
    BY <2>1 DEF Slots
  <2> QED BY <1>1, <2>1, <2>2, AdmissionOf DEF Slots, Granting
<1>6. CASE Wake(x)
  <2>1. /\ pc[x] = "sleep" /\ pc'[x] = "poll" /\ UNCHANGED <<reg, side, main, stage, want, raced>>
        /\ unread'[x] = Windows \ {x}
    BY <1>6 DEF Wake
  <2> QED BY <2>1 DEF Slots, Granting
<1> QED BY <1>2, <1>3, <1>4, <1>5, <1>6

LEMMA OutSlots ==
  ASSUME TypeOK, NEW x \in Windows, Slots(x),
         \/ Grant(x) \/ Refuse(x) \/ AdmissionThrows(x) \/ WriteFails(x) \/ Crash(x)
         \/ \E o \in Ops : Heartbeat(x, o) \/ Release(x, o)
  PROVE  Slots(x)'
<1> USE AfterWriteType DEF TypeOK
<1>1. CASE Grant(x)
  <2>1. /\ pc[x] = "poll" /\ pc'[x] = "leaving" /\ UNCHANGED <<side, main, stage, want, unread, raced>>
        /\ unread[x] = {}
    BY <1>1 DEF Grant, Decides
  <2>2. stage[x] = "ownership" /\ main[x] = side[x] /\ ~main[x].choosing /\ main[x].ticket > 0
    BY <2>1 DEF Slots
  <2> QED BY <2>1, <2>2 DEF Slots, Granting
<1>2. CASE Abandon(x)
  <2>1. /\ pc'[x] = "leaving" /\ stage'[x] = "ownership" /\ want'[x] = NoOp /\ unread'[x] = {} /\ raced'[x] = {}
    BY <1>2 DEF Abandon
  <2> QED BY <2>1 DEF Slots, Granting
<1>3. CASE Crash(x)
  <2>1. pc'[x] = "idle" /\ stage'[x] = "ownership" /\ unread'[x] = {} /\ raced'[x] = {}
    BY <1>3 DEF Crash
  <2> QED BY <2>1 DEF Slots, Granting
<1>4. CASE WriteFails(x) /\ ~Abandon(x)
  <2>1. /\ pc'[x] = "idle" /\ stage'[x] = "ownership" /\ UNCHANGED <<unread, raced>>
        /\ pc[x] \in Writing
    BY <1>4 DEF WriteFails
  <2> QED BY <2>1 DEF Slots, Granting
<1>5. ASSUME NEW o \in Ops, Heartbeat(x, o) \/ Release(x, o) PROVE Slots(x)'
  <2>1. /\ pc[x] = "idle" /\ pc'[x] \in {"idle", "beating", "releasing"} /\ UNCHANGED <<stage, unread, raced>>
    BY <1>5 DEF Heartbeat, Release
  <2> QED BY <2>1 DEF Slots, Granting
<1> QED BY <1>1, <1>2, <1>3, <1>4, <1>5 DEF Refuse, AdmissionThrows

LEMMA StepSlots == TypeOK /\ SlotsTell /\ [Next]_vars => SlotsTell'
<1> SUFFICES ASSUME TypeOK, SlotsTell, [Next]_vars, NEW x \in Windows PROVE Slots(x)'
  BY DEF SlotsTell
<1>1. Slots(x)
  BY DEF SlotsTell
<1>2. ASSUME NEW u \in Windows, WindowStep(u), u /= x PROVE Slots(x)'
  <2>1. Untouched(x) /\ raced'[x] \subseteq unread[x]
    BY <1>1, <1>2, OthersUntouched, AroundUntouched DEF Slots
  <2> QED BY <1>1, <2>1 DEF Slots, Granting, Untouched
<1>3. ASSUME UNCHANGED <<reg, side, main, pc, stage, want, unread, raced>> PROVE Slots(x)'
  BY <1>1, <1>3 DEF Slots, Granting
<1>4. ASSUME WindowStep(x) PROVE Slots(x)'
  <2>1. CASE Damage(x)
    BY <1>3, <2>1 DEF Damage
  <2> QED BY <1>1, <1>4, <2>1, WriteSlots, AdmissionSlots, OutSlots DEF WindowStep
<1> QED BY <1>2, <1>3, <1>4 DEF Next, Tick, LegacyLease, vars

-----------------------------------------------------------------------------
(* A lease that is held shows in both slots.                               *)

\* A step takes a lease from memory only if it is expired or given up.
LEMMA MemoryChanges ==
  ASSUME TypeOK, NEW x \in Windows, NEW p \in Ops, NEW u \in Windows, WindowStep(u)
  PROVE  /\ InMemory(x, p)' \in {InMemory(x, p), 0, clock + LeaseTtl}
         /\ p \in handles'[x] /\ InMemory(x, p) > clock => InMemory(x, p)' \in {InMemory(x, p), clock + LeaseTtl}
<1> DEFINE Goal == /\ InMemory(x, p)' \in {InMemory(x, p), 0, clock + LeaseTtl}
                   /\ p \in handles'[x] /\ InMemory(x, p) > clock
                         => InMemory(x, p)' \in {InMemory(x, p), clock + LeaseTtl}
<1>1. reg[x] \in Registry /\ clock \in Nat /\ InMemory(x, p) \in Nat
  BY Numeric DEF TypeOK
<1>2. ASSUME reg'[x] = reg[x] PROVE Goal
  BY <1>2 DEF InMemory
<1>3. ASSUME u /= x PROVE Goal
  BY <1>2, <1>3, OthersUntouched DEF Untouched
<1>4. ASSUME NEW o \in Ops, BeginAdmission(x, o) PROVE Goal
  <2>1. reg'[x] = Choosing(reg[x], clock + AdmissionTtl)
    BY <1>4 DEF BeginAdmission, TypeOK
  <2> QED BY <1>1, <2>1, LeasesOf DEF InMemory
<1>5. ASSUME NEW o \in Ops, Heartbeat(x, o) PROVE Goal
  <2>1. reg'[x] \in {reg[x], WithLease(reg[x], o, clock + LeaseTtl)}
    BY <1>5 DEF Heartbeat, TypeOK
  <2>2. WithLease(reg[x], o, clock + LeaseTtl).leases[p] \in {reg[x].leases[p], clock + LeaseTtl}
    BY <1>1, LeasesOf
  <2> QED BY <2>1, <2>2 DEF InMemory
<1>6. ASSUME NEW o \in Ops, Release(x, o) PROVE Goal
  <2>1. reg'[x] = WithLease(reg[x], o, 0) /\ handles'[x] = handles[x] \ {o}
    BY <1>6 DEF Release, Without, TypeOK
  <2>2. WithLease(reg[x], o, 0).leases[p] = IF p = o THEN 0 ELSE reg[x].leases[p]
    BY <1>1, LeasesOf
  <2> QED BY <2>1, <2>2 DEF InMemory
<1>7. CASE TakeTicket(x)
  <2>1. PICK t : reg' = [reg EXCEPT ![x] = Ticketed(@, t)]
    BY <1>7 DEF TakeTicket
  <2>2. reg'[x] = Ticketed(reg[x], t)
    BY <2>1 DEF TypeOK
  <2>3. Ticketed(reg[x], t).leases[p] = reg[x].leases[p]
    BY <1>1, LeasesOf
  <2> QED BY <2>2, <2>3 DEF InMemory
<1>8. CASE Grant(x)
  <2> DEFINE row == WithLease(Pruned(reg[x]), want[x], clock + LeaseTtl)
  <2>1. Pruned(reg[x]) \in Registry
    BY <1>1, PrunedType
  <2>2. row \in Registry
    BY <2>1, WithLeaseType, ClockNat
  <2>3. row.leases[p] = IF p = want[x] THEN clock + LeaseTtl ELSE Pruned(reg[x]).leases[p]
    BY <2>1 DEF WithLease, Registry
  <2>4. Pruned(reg[x]).leases[p] = IF reg[x].leases[p] > clock THEN reg[x].leases[p] ELSE 0
    BY <1>1, LeasesOf
  <2>5. reg'[x] = EndAdmission(row)
    BY <1>8 DEF Grant, TypeOK
  <2> HIDE DEF row
  <2>6. EndAdmission(row).leases[p] = row.leases[p]
    BY <2>2, LeasesOf
  <2> QED BY <2>3, <2>4, <2>5, <2>6 DEF InMemory
<1>9. CASE PollAgain(x)
  <2>1. reg'[x] \in {reg[x], Renewed(reg[x])}
    BY <1>9 DEF PollAgain, TypeOK
  <2>2. Renewed(reg[x]).leases[p] \in {reg[x].leases[p], clock + LeaseTtl}
    BY <1>1, LeasesOf
  <2> QED BY <2>1, <2>2 DEF InMemory
<1>10. CASE Abandon(x)
  <2>1. reg'[x] = EndAdmission(reg[x])
    BY <1>10 DEF Abandon, TypeOK
  <2>2. EndAdmission(reg[x]).leases[p] = reg[x].leases[p]
    BY <1>1, LeasesOf
  <2> QED BY <2>1, <2>2 DEF InMemory
<1>11. CASE Crash(x)
  <2>1. reg'[x] = IdleRow /\ handles'[x] = {}
    BY <1>11 DEF Crash, TypeOK
  <2>2. IdleRow.leases[p] = 0
    BY DEF IdleRow
  <2> QED BY <2>1, <2>2 DEF InMemory
<1>12. CASE reg' = reg
  BY <1>2, <1>12
<1> QED
  BY <1>3, <1>4, <1>5, <1>6, <1>7, <1>8, <1>9, <1>10, <1>11, <1>12
  DEF WindowStep, WriteOwnership, WriteRegistry, ReadRow, Wake, Damage, Refuse, AdmissionThrows, WriteFails

\* A lease in memory lasts no longer than a time-to-live, and no shorter than
\* on disk; and if it is unexpired on disk, it is in the ownership slot too.
Shows(w, o) ==
    /\ InMemory(w, o) <= clock + LeaseTtl
    /\ o \in handles[w] /\ OnDisk(w, o) > clock => InMemory(w, o) >= OnDisk(w, o) /\ side[w].leases[o] /= 0

HeldShows == \A w \in Windows, o \in Ops : Shows(w, o)

LEMMA StepShows == TypeOK /\ SlotsTell /\ HeldShows /\ [Next]_vars => HeldShows'
<1> SUFFICES ASSUME TypeOK, SlotsTell, HeldShows, [Next]_vars, NEW x \in Windows, NEW o \in Ops
             PROVE  Shows(x, o)'
  BY DEF HeldShows
<1>1. /\ clock \in Nat /\ LeaseTtl \in Nat /\ InMemory(x, o) \in Nat /\ OnDisk(x, o) \in Nat
      /\ side[x].leases[o] \in Nat
  BY Numeric, TtlAssumption DEF TypeOK, Registry
<1>2. Shows(x, o)
  BY DEF HeldShows
<1>3. ASSUME NEW u \in Windows, WindowStep(u), u /= x PROVE Shows(x, o)'
  BY <1>2, <1>3, OthersUntouched, AroundUntouched DEF Untouched, Shows, InMemory, OnDisk
<1>4. ASSUME WindowStep(x) PROVE Shows(x, o)'
  <2>1. /\ InMemory(x, o)' \in {InMemory(x, o), 0, clock + LeaseTtl}
        /\ o \in handles'[x] /\ InMemory(x, o) > clock => InMemory(x, o)' \in {InMemory(x, o), clock + LeaseTtl}
        /\ clock' = clock
    BY <1>4, MemoryChanges, AroundUntouched
  <2>2. InMemory(x, o)' <= clock' + LeaseTtl
    BY <1>1, <1>2, <2>1 DEF Shows
  <2>3. CASE WriteRegistry(x)
    <3>1. main'[x] = reg[x] /\ side'[x] = reg[x] /\ reg'[x] = reg[x]
      BY <2>3 DEF WriteRegistry, SlotsTell, Slots, TypeOK
    <3> QED BY <1>1, <2>1, <2>2, <3>1 DEF Shows, InMemory, OnDisk
  <2>4. CASE ~WriteRegistry(x)
    <3>1. main' = main
      BY <1>4, <2>4 DEF WindowStep, WriteOwnership, BeginAdmission, Heartbeat, Release, ReadRow, TakeTicket, Grant,
            Refuse, PollAgain, Wake, WriteFails, AdmissionThrows, Abandon, Damage, Crash
    <3>2. side'[x] = side[x] \/ (side'[x] = reg[x] /\ reg' = reg)
      BY <1>4, <2>4 DEF WindowStep, WriteOwnership, BeginAdmission, Heartbeat, Release, ReadRow, TakeTicket, Grant,
            Refuse, PollAgain, Wake, WriteFails, AdmissionThrows, Abandon, Damage, Crash, TypeOK
    <3>3. handles'[x] \subseteq handles[x]
      BY <1>4, <2>4 DEF WindowStep, WriteOwnership, BeginAdmission, Heartbeat, Release, ReadRow, TakeTicket, Grant,
            Refuse, PollAgain, Wake, WriteFails, AdmissionThrows, Abandon, Damage, Crash, TypeOK
    <3>4. ASSUME o \in handles'[x], OnDisk(x, o)' > clock'
          PROVE  InMemory(x, o)' >= OnDisk(x, o)' /\ side'[x].leases[o] /= 0
      <4>1. /\ OnDisk(x, o)' = OnDisk(x, o) /\ OnDisk(x, o) > clock
            /\ InMemory(x, o) >= OnDisk(x, o) /\ side[x].leases[o] /= 0
        BY <1>2, <2>1, <3>1, <3>3, <3>4 DEF OnDisk, Shows
      <4>2. InMemory(x, o) <= clock + LeaseTtl /\ InMemory(x, o)' \in {InMemory(x, o), clock + LeaseTtl}
        BY <1>1, <1>2, <2>1, <3>4, <4>1 DEF Shows
      <4>3. side'[x].leases[o] /= 0
        BY <1>1, <3>2, <4>1 DEF InMemory
      <4> QED BY <1>1, <4>1, <4>2, <4>3
    <3> QED BY <2>2, <3>4 DEF Shows
  <2> QED BY <2>3, <2>4
<1>5. CASE Tick
  <2>1. UNCHANGED <<reg, main, side, handles>> /\ clock' = clock + 1
    BY <1>5 DEF Tick
  <2> QED BY <1>1, <1>2, <2>1 DEF Shows, InMemory, OnDisk
<1>6. CASE LegacyLease \/ UNCHANGED vars
  BY <1>2, <1>6 DEF LegacyLease, vars, Shows, InMemory, OnDisk
<1> QED BY <1>3, <1>4, <1>5, <1>6 DEF Next

-----------------------------------------------------------------------------
(* Owners: windows that prove a lease, or that are about to publish one.   *)

\* A grant that is being written was made by this step, or stays as it was.
LEMMA GrantingBefore ==
  ASSUME TypeOK, [Next]_vars, NEW x \in Windows, Granting(x)'
  PROVE  \/ Grant(x)
         \/ Granting(x) /\ want'[x] = want[x] /\ main'[x] = main[x] /\ reg'[x] = reg[x]
<1> DEFINE Goal == \/ Grant(x)
                   \/ Granting(x) /\ want'[x] = want[x] /\ main'[x] = main[x] /\ reg'[x] = reg[x]
<1> USE AfterWriteType DEF TypeOK
<1>1. ASSUME NEW u \in Windows, WindowStep(u), u /= x PROVE Goal
  BY <1>1, OthersUntouched DEF Untouched, Granting
<1>2. ASSUME UNCHANGED <<pc, want, main, reg>> PROVE Goal
  BY <1>2 DEF Granting
<1>3. ASSUME WindowStep(x) PROVE Goal
  <2>1. CASE WriteRegistry(x)
    <3>1. pc'[x] = AfterWrite[pc[x]] /\ pc[x] \in Writing
      BY <2>1 DEF WriteRegistry
    <3> QED BY <3>1 DEF Granting
  <2>2. CASE Abandon(x) \/ Crash(x)
    <3>1. want'[x] = NoOp
      BY <2>2 DEF Abandon, Crash
    <3> QED BY <3>1 DEF Granting
  <2>3. CASE WriteFails(x) /\ ~Abandon(x)
    <3>1. pc'[x] = "idle"
      BY <2>3 DEF WriteFails
    <3> QED BY <3>1 DEF Granting
  <2>4. CASE \E o \in Ops : BeginAdmission(x, o) \/ Heartbeat(x, o) \/ Release(x, o)
    <3>1. pc'[x] \in {"choosing", "idle", "beating", "releasing"}
      BY <2>4 DEF BeginAdmission, Heartbeat, Release
    <3> QED BY <3>1 DEF Granting
  <2>5. CASE TakeTicket(x) \/ PollAgain(x) \/ Wake(x)
    <3>1. pc'[x] \in {"ticketing", "sleep", "renewing", "poll"}
      BY <2>5 DEF TakeTicket, PollAgain, Wake
    <3> QED BY <3>1 DEF Granting
  <2>6. CASE WriteOwnership(x) \/ Damage(x) \/ \E r \in Windows : ReadRow(x, r)
    BY <1>2, <2>6 DEF WriteOwnership, Damage, ReadRow
  <2> QED BY <1>3, <2>1, <2>2, <2>3, <2>4, <2>5, <2>6 DEF WindowStep, Refuse, AdmissionThrows
<1> QED BY <1>1, <1>2, <1>3 DEF Next, Tick, LegacyLease, vars

\* A grant that is not published is protected by its admission on disk.
GrantsProtected == ~late => \A w \in Windows : Granting(w) => main[w].admission > clock

LEMMA GrantInTime ==
  ASSUME NEW w \in Windows, Grant(w), ~late'
  PROVE  ~DecidesLate(w)
<1>1. late' = (late \/ DecidesLate(w))
  BY Zenon DEF Grant
<1> QED BY <1>1, Zenon

LEMMA StepProtected == TypeOK /\ SlotsTell /\ GrantsProtected /\ [Next]_vars => GrantsProtected'
<1> SUFFICES ASSUME TypeOK, SlotsTell, GrantsProtected, [Next]_vars, ~late', NEW x \in Windows, Granting(x)'
             PROVE  main'[x].admission > clock'
  BY DEF GrantsProtected
<1>1. /\ ~late
      /\ \/ clock' = clock
         \/ clock' = clock + 1 /\ ~Overruns(clock + 1) /\ UNCHANGED <<reg, main, handles>>
  BY TimePasses
<1>2. clock \in Nat /\ main[x].admission \in Nat /\ reg[x].admission \in Nat
  BY Numeric, BoundsAssumption DEF TypeOK, Registry
<1>3. CASE Grant(x)
  <2>1. clock' = clock /\ main' = main /\ main[x] = reg[x]
    BY <1>3 DEF Grant, Decides, SlotsTell, Slots
  <2>2. ~(reg[x].admission <= clock)
    BY <1>3, GrantInTime DEF DecidesLate
  <2> QED BY <1>2, <2>1, <2>2
<1>4. CASE Granting(x) /\ main'[x] = main[x]
  <2>1. main[x].admission > clock
    BY <1>1, <1>4 DEF GrantsProtected
  <2>2. ~Overruns(clock + 1) => ~(main[x].admission <= clock + 1)
    BY <1>4 DEF Overruns, Granting
  <2> QED BY <1>1, <1>2, <1>4, <2>1, <2>2
<1> QED BY <1>3, <1>4, GrantingBefore

\* The owner of a lease: it proves the lease, or is about to publish it.
Owner(w, o) ==
    \/ alive[w] /\ Granted(w, o) /\ InMemory(w, o) > clock
    \/ Holds(w, o)

\* A step makes an owner only by a grant.
LEMMA OwnerBefore ==
  ASSUME RevivalInv, SlotsTell, [Next]_vars, ~late', NEW x \in Windows, NEW o \in Ops, Owner(x, o)'
  PROVE  Owner(x, o) \/ (Grant(x) /\ want[x] = o)
<1>1. /\ ~late
      /\ \/ clock' = clock
         \/ clock' = clock + 1 /\ ~Overruns(clock + 1) /\ UNCHANGED <<reg, main, handles>>
  BY TimePasses
<1>2. clock \in Nat /\ InMemory(x, o) \in Nat /\ OnDisk(x, o) \in Nat /\ o /= NoOp
  BY Numeric, OpsAssumption DEF RevivalInv
<1>3. CASE Granted(x, o)'
  <2>1. Granting(x)'
    BY <1>2, <1>3 DEF Granting, Granted
  <2>2. CASE Grant(x)
    <3>1. want' = want
      BY <2>2 DEF Grant
    <3> QED BY <1>3, <2>2, <3>1 DEF Granted
  <2>3. CASE Granting(x) /\ want'[x] = want[x] /\ reg'[x] = reg[x]
    <3>1. Granted(x, o)
      BY <1>3, <2>3 DEF Granting, Granted
    <3>2. want[x] \notin handles[x] /\ want'[x] = o
      BY <1>3, <2>3 DEF RevivalInv, WantsNew, Admitting, Granting, Granted
    <3>3. CASE alive'[x] /\ InMemory(x, o)' > clock'
      <4>1. InMemory(x, o) > clock
        BY <1>1, <1>2, <2>3, <3>3 DEF InMemory
      <4>2. alive[x]
        BY <3>3
        DEF Next, WindowStep, WriteOwnership, WriteRegistry, BeginAdmission, Heartbeat, Release, ReadRow, TakeTicket,
            Grant, Refuse, PollAgain, Wake, WriteFails, AdmissionThrows, Abandon, Damage, Crash, Tick, LegacyLease,
            vars, RevivalInv, TypeOK
      <4> QED BY <3>1, <4>1, <4>2 DEF Owner
    <3>4. CASE Holds(x, o)'
      <4>1. PICK v \in Windows : WriteRegistry(v)
        <5>1. o \in handles'[x] /\ o \notin handles[x]
          BY <3>1, <3>2, <3>4 DEF Holds, Granted
        <5> QED BY <5>1
             DEF Next, WindowStep, WriteOwnership, BeginAdmission, Heartbeat, Release, ReadRow, TakeTicket, Grant,
                 Refuse, PollAgain, Wake, WriteFails, AdmissionThrows, Abandon, Damage, Crash, Tick, LegacyLease,
                 vars, RevivalInv, TypeOK
      <4>2. v = x
        BY <3>1, <3>2, <3>4, <4>1 DEF WriteRegistry, RevivalInv, TypeOK, Holds, Granted
      <4>3. pc'[x] = "idle"
        BY <3>1, <4>1, <4>2 DEF WriteRegistry, RevivalInv, TypeOK, Granted, AfterWrite
      <4> QED BY <1>3, <4>3 DEF Granted
    <3> QED BY <3>3, <3>4 DEF Owner
  <2> QED BY <2>1, <2>2, <2>3, GrantingBefore DEF RevivalInv
<1>4. CASE Holds(x, o)'
  <2>1. CASE o \in handles[x]
    <3>1. HandleKept(x, o)
      BY <1>4, <2>1, HandleStep DEF RevivalInv, Holds
    <3>2. OnDisk(x, o) > clock
      <4> SUFFICES ASSUME OnDisk(x, o) <= clock PROVE FALSE
        BY <1>2
      <4>1. InMemory(x, o) <= clock
        BY <1>1, <2>1 DEF RevivalInv, NoneOverrun
      <4>2. OnDisk(x, o)' \in {OnDisk(x, o), InMemory(x, o)}
        BY <3>1 DEF HandleKept, OnDisk, InMemory
      <4> QED BY <1>1, <1>2, <1>4, <4>1, <4>2 DEF Holds, OnDisk
    <3> QED BY <1>4, <2>1, <3>1, <3>2 DEF HandleKept, Holds, OnDisk, Owner
  <2>2. CASE o \notin handles[x]
    <3>1. o \in handles'[x]
      BY <1>4 DEF Holds
    <3>2. PICK v \in Windows : WriteRegistry(v)
      BY <2>2, <3>1
      DEF Next, WindowStep, WriteOwnership, BeginAdmission, Heartbeat, Release, ReadRow, TakeTicket, Grant,
          Refuse, PollAgain, Wake, WriteFails, AdmissionThrows, Abandon, Damage, Crash, Tick, LegacyLease,
          vars, RevivalInv, TypeOK
    <3>3. v = x
      BY <2>2, <3>1, <3>2 DEF WriteRegistry, RevivalInv, TypeOK
    <3>4. Granted(x, o) /\ clock' = clock /\ main'[x] = reg[x]
      BY <2>2, <3>1, <3>2, <3>3 DEF WriteRegistry, RevivalInv, TypeOK, Granted
    <3>5. InMemory(x, o) > clock /\ alive[x]
      BY <1>4, <3>2, <3>3, <3>4 DEF Holds, InMemory, WriteRegistry
    <3> QED BY <3>4, <3>5 DEF Owner
  <2> QED BY <2>1, <2>2
<1> QED BY <1>3, <1>4 DEF Owner

-----------------------------------------------------------------------------
(***************************************************************************)
(* The bakery.  Window w, at the end of its wait, decides by what it has   *)
(* read of v.  Either it has seen v ahead, or v is behind: v will read, or *)
(* has read, the ticket of w before it takes its own.  A grant that v is   *)
(* writing is seen by whoever reads v from then on.                        *)
(***************************************************************************)
Live(w) == reg[w].admission > clock

\* Window w has read v in this round of its wait.
HasRead(w, v) == pc[w] = "poll" /\ v \notin unread[w]

\* The order of tickets m of w and n of v.
Before(m, w, n, v) == m < n \/ (m = n /\ w < v)

SeenAhead(w, v) ==
    seen[w][v].choosing \/ (seen[w][v].ticket > 0 /\ Before(seen[w][v].ticket, v, reg[w].ticket, w))

SeenLease(w, v, o) ==
    seen[w][v].leases[o] /= 0 /\ (Granted(v, o) => seen[w][v].leases[o] = InMemory(v, o))

\* Readers of v can see only the lease that it is about to publish.
OnlyOwnership(v) == v \in damaged /\ stage[v] = "registry"

\* Window v has not taken a ticket before that of w, nor will it.
Behind(v, w) ==
    /\ pc[v] = "scan" => \/ w \in unread[v]
                         \/ /\ seen[v][w].ticket = main[w].ticket
                            /\ seen[v][w].admission = main[w].admission
    /\ pc[v] \in {"ticketing", "poll", "sleep", "renewing"} => Before(main[w].ticket, w, reg[v].ticket, v)

ReadTells(w, v) ==
    HasRead(w, v) /\ Live(w) /\ ~SeenAhead(w, v) =>
        /\ Behind(v, w)
        /\ Live(v) /\ HasRead(v, w) => SeenAhead(v, w)
        /\ \A o \in Ops : Owner(v, o) => SeenLease(w, v, o)

GrantTells(w, v) == Granting(v) /\ Live(w) => OnlyOwnership(v) \/ Behind(w, v)

\* A registry that was replaced while w reads it for its ticket.
RaceTells(w, v) ==
    pc[w] = "scan" /\ Live(w) /\ v \in raced[w] =>
        ~Granting(v) /\ (HasRead(v, w) => SeenAhead(v, w))

PairTells(w, v) == ReadTells(w, v) /\ GrantTells(w, v) /\ RaceTells(w, v)

BakeryTells == ~late => \A w, v \in Windows : w /= v => PairTells(w, v)

Base == RevivalInv /\ RowsOK /\ SlotsTell /\ HeldShows /\ GrantsProtected

\* A step of a third window, of the clock, or of nothing that the pair is about.
LEMMA CalmPair ==
  ASSUME NEW w \in Windows, NEW v \in Windows, PairTells(w, v),
         pc'[w] = pc[w], pc'[v] = pc[v],
         v \in unread'[w] <=> v \in unread[w], w \in unread'[v] <=> w \in unread[v],
         seen'[w][v] = seen[w][v], seen'[v][w] = seen[v][w],
         reg'[w] = reg[w], reg'[v] = reg[v], main'[w] = main[w], main'[v] = main[v],
         want'[v] = want[v], v \in raced'[w] => v \in raced[w],
         Live(w)' => Live(w), Live(v)' => Live(v),
         OnlyOwnership(v) => OnlyOwnership(v)',
         \A o \in Ops : Owner(v, o)' => Owner(v, o)
  PROVE  PairTells(w, v)'
<1>1. SeenAhead(w, v)' <=> SeenAhead(w, v)
  BY DEF SeenAhead, Before
<1>2. SeenAhead(v, w)' <=> SeenAhead(v, w)
  BY DEF SeenAhead, Before
<1>3. (HasRead(w, v)' <=> HasRead(w, v)) /\ (HasRead(v, w)' <=> HasRead(v, w)) /\ (Granting(v)' <=> Granting(v))
  BY DEF HasRead, Granting
<1>4. (Behind(v, w) => Behind(v, w)') /\ (Behind(w, v) => Behind(w, v)')
  BY DEF Behind, Before
<1>5. \A o \in Ops : SeenLease(w, v, o) => SeenLease(w, v, o)'
  BY DEF SeenLease, Granted, InMemory
<1>6. ReadTells(w, v)'
  BY <1>1, <1>2, <1>3, <1>4, <1>5 DEF PairTells, ReadTells
<1>7. GrantTells(w, v)'
  BY <1>3, <1>4 DEF PairTells, GrantTells
<1>8. RaceTells(w, v)'
  BY <1>2, <1>3 DEF PairTells, RaceTells
<1> QED BY <1>6, <1>7, <1>8 DEF PairTells

InBakery == {"scan", "ticketing", "poll", "sleep", "renewing"}

\* Window w leaves the bakery, also with a grant.
LEMMA OutFirst ==
  ASSUME NEW w \in Windows, NEW v \in Windows, pc'[w] \notin InBakery
  PROVE  PairTells(w, v)'
  BY DEF PairTells, ReadTells, GrantTells, RaceTells, HasRead, Behind, InBakery

\* The window that is read leaves it without a grant, or is not in it.
LEMMA OutSecond ==
  ASSUME NEW w \in Windows, NEW v \in Windows, PairTells(w, v), Untouched(w), clock' = clock,
         pc'[v] \notin InBakery, ~Granting(v)',
         \A o \in Ops : Owner(v, o)' => Owner(v, o)
  PROVE  PairTells(w, v)'
<1>1. ~HasRead(v, w)' /\ Behind(v, w)'
  BY DEF HasRead, Behind, InBakery
<1>2. \A o \in Ops : ~Granted(v, o)'
  BY OpsAssumption DEF Granting, Granted
<1>3. \A o \in Ops : SeenLease(w, v, o) => SeenLease(w, v, o)'
  BY <1>2 DEF SeenLease, Untouched
<1>4. (HasRead(w, v)' <=> HasRead(w, v)) /\ (SeenAhead(w, v)' <=> SeenAhead(w, v)) /\ (Live(w)' <=> Live(w))
  BY DEF Untouched, HasRead, SeenAhead, Before, Live
<1> QED BY <1>1, <1>3, <1>4 DEF PairTells, ReadTells, GrantTells, RaceTells

\* Window w goes on waiting, and begins to read again.
LEMMA QueueFirst ==
  ASSUME NEW w \in Windows, NEW v \in Windows, PairTells(w, v), Untouched(v), clock' = clock,
         v \in damaged' <=> v \in damaged,
         pc[w] \in InBakery \ {"scan"}, pc'[w] \in {"poll", "sleep", "renewing"}, ~HasRead(w, v)',
         reg'[w].ticket = reg[w].ticket, reg'[w].admission = reg[w].admission
  PROVE  PairTells(w, v)'
<1>1. ReadTells(w, v)' /\ RaceTells(w, v)'
  BY DEF ReadTells, RaceTells
<1>2. Behind(w, v) => Behind(w, v)'
  BY DEF Behind, Before, InBakery, Untouched
<1>3. (Granting(v)' <=> Granting(v)) /\ (Live(w)' <=> Live(w)) /\ (OnlyOwnership(v)' <=> OnlyOwnership(v))
  BY DEF Granting, Live, OnlyOwnership, Untouched
<1>4. GrantTells(w, v)'
  BY <1>2, <1>3 DEF PairTells, GrantTells
<1> QED BY <1>1, <1>4 DEF PairTells

\* The window that is read goes on waiting.
LEMMA QueueSecond ==
  ASSUME NEW w \in Windows, NEW v \in Windows, PairTells(w, v), Untouched(w), clock' = clock,
         pc[v] \in InBakery \ {"scan"}, pc'[v] \in {"poll", "sleep", "renewing"}, ~HasRead(v, w)',
         reg'[v].ticket = reg[v].ticket,
         \A o \in Ops : Owner(v, o)' => Owner(v, o)
  PROVE  PairTells(w, v)'
<1>1. ~Granting(v)' /\ \A o \in Ops : ~Granted(v, o)'
  BY DEF Granting, Granted
<1>2. \A o \in Ops : SeenLease(w, v, o) => SeenLease(w, v, o)'
  BY <1>1 DEF SeenLease, Untouched
<1>3. (HasRead(w, v)' <=> HasRead(w, v)) /\ (SeenAhead(w, v)' <=> SeenAhead(w, v)) /\ (Live(w)' <=> Live(w))
  BY DEF Untouched, HasRead, SeenAhead, Before, Live
<1>4. Behind(v, w) => Behind(v, w)'
  BY DEF Behind, Before, InBakery, Untouched
<1> QED BY <1>1, <1>2, <1>3, <1>4 DEF PairTells, ReadTells, GrantTells, RaceTells

\* Window w begins to read for its ticket.
LEMMA ScanFirst ==
  ASSUME NEW w \in Windows, NEW v \in Windows, pc'[w] = "scan", v \in unread'[w], v \notin raced'[w]
  PROVE  PairTells(w, v)'
  BY DEF PairTells, ReadTells, GrantTells, RaceTells, HasRead, Behind

\* The window that is read begins to read for its ticket.
LEMMA ScanSecond ==
  ASSUME NEW w \in Windows, NEW v \in Windows, PairTells(w, v), Untouched(w), clock' = clock,
         pc'[v] = "scan", w \in unread'[v],
         \A o \in Ops : Owner(v, o)' => Owner(v, o)
  PROVE  PairTells(w, v)'
<1>1. ~Granting(v)' /\ (\A o \in Ops : ~Granted(v, o)') /\ ~HasRead(v, w)' /\ Behind(v, w)'
  BY DEF Granting, Granted, HasRead, Behind
<1>2. \A o \in Ops : SeenLease(w, v, o) => SeenLease(w, v, o)'
  BY <1>1 DEF SeenLease, Untouched
<1>3. (HasRead(w, v)' <=> HasRead(w, v)) /\ (SeenAhead(w, v)' <=> SeenAhead(w, v)) /\ (Live(w)' <=> Live(w))
  BY DEF Untouched, HasRead, SeenAhead, Before, Live
<1> QED BY <1>1, <1>2, <1>3 DEF PairTells, ReadTells, GrantTells, RaceTells

-----------------------------------------------------------------------------
(* Tickets.                                                                *)

\* The ticket is above every ticket of an unexpired admission that was read.
LEMMA TicketAbove ==
  ASSUME TypeOK, NEW u \in Windows, TakeTicket(u)
  PROVE  /\ pc[u] = "scan" /\ unread[u] = {} /\ pc'[u] = "ticketing"
         /\ \A r \in Windows \ {u} : seen[u][r].admission > clock => seen[u][r].ticket < reg'[u].ticket
         /\ reg'[u].admission = reg[u].admission
<1> DEFINE taken == {seen[u][r].ticket : r \in {q \in Windows \ {u} : seen[u][q].admission > clock}}
<1>1. PICK t : (\A n \in taken : n < t) /\ reg' = [reg EXCEPT ![u] = Ticketed(@, t)]
  BY DEF TakeTicket
<1>2. reg[u] \in Registry /\ reg'[u] = Ticketed(reg[u], t)
  BY <1>1 DEF TypeOK
<1>3. reg'[u].ticket = t /\ reg'[u].admission = reg[u].admission
  BY <1>2, AdmissionOf
<1>4. \A r \in Windows \ {u} : seen[u][r].admission > clock => seen[u][r].ticket < t
  BY <1>1
<1>5. pc[u] = "scan" /\ unread[u] = {} /\ pc'[u] = "ticketing"
  BY DEF TakeTicket, TypeOK
<1> QED BY <1>3, <1>4, <1>5

LEMMA TicketFirst ==
  ASSUME Base, ~late, NEW w \in Windows, NEW v \in Windows, w /= v, PairTells(w, v), TakeTicket(w),
         Untouched(v), clock' = clock, v \in damaged' <=> v \in damaged
  PROVE  PairTells(w, v)'
<1>1. ~HasRead(w, v)' /\ pc'[w] = "ticketing" /\ pc[w] = "scan" /\ unread[w] = {}
  BY TicketAbove DEF Base, RevivalInv, HasRead
<1>2. ASSUME Granting(v)', Live(w)', ~OnlyOwnership(v)' PROVE Behind(w, v)'
  <2>1. Granting(v) /\ Live(w) /\ ~OnlyOwnership(v)
    BY <1>2, TicketAbove DEF Base, RevivalInv, Untouched, Granting, Live, OnlyOwnership
  <2>2. seen[w][v].ticket = main[v].ticket /\ seen[w][v].admission = main[v].admission
    BY <1>1, <2>1 DEF PairTells, GrantTells, Behind
  <2>3. main[v].admission > clock
    BY <2>1 DEF Base, GrantsProtected
  <2>4. main[v].ticket < reg'[w].ticket
    BY <2>2, <2>3, TicketAbove DEF Base, RevivalInv
  <2> QED BY <1>1, <2>4 DEF Behind, Before, Untouched
<1> QED BY <1>1, <1>2 DEF PairTells, ReadTells, GrantTells, RaceTells

LEMMA TicketSecond ==
  ASSUME Base, NEW w \in Windows, NEW v \in Windows, w /= v, PairTells(w, v), TakeTicket(v),
         Untouched(w), clock' = clock,
         \A o \in Ops : Owner(v, o)' => Owner(v, o)
  PROVE  PairTells(w, v)'
<1>1. pc'[v] = "ticketing" /\ pc[v] = "scan" /\ unread[v] = {}
  BY TicketAbove DEF Base, RevivalInv
<1>2. ~Granting(v)' /\ (\A o \in Ops : ~Granted(v, o)') /\ ~HasRead(v, w)'
  BY <1>1 DEF Granting, Granted, HasRead
<1>3. \A o \in Ops : SeenLease(w, v, o) => SeenLease(w, v, o)'
  BY <1>2 DEF SeenLease, Untouched
<1>4. (HasRead(w, v)' <=> HasRead(w, v)) /\ (SeenAhead(w, v)' <=> SeenAhead(w, v)) /\ (Live(w)' <=> Live(w))
  BY DEF Untouched, HasRead, SeenAhead, Before, Live
<1>5. ASSUME HasRead(w, v), Live(w), Behind(v, w) PROVE Behind(v, w)'
  <2>1. seen[v][w].ticket = main[w].ticket /\ seen[v][w].admission = main[w].admission
    BY <1>1, <1>5 DEF Behind
  <2>2. main[w] = reg[w]
    BY <1>5 DEF Base, SlotsTell, Slots, HasRead
  <2>3. main[w].ticket < reg'[v].ticket
    BY <1>5, <2>1, <2>2, TicketAbove DEF Base, RevivalInv, Live
  <2> QED BY <1>1, <2>3 DEF Behind, Before, Untouched
<1> QED BY <1>2, <1>3, <1>4, <1>5 DEF PairTells, ReadTells, GrantTells, RaceTells

-----------------------------------------------------------------------------
(* Reads.                                                                  *)

LEMMA ReadRowDoes ==
  ASSUME TypeOK, ~SharingViolations, NEW u \in Windows, NEW r \in Windows, ReadRow(u, r)
  PROVE  /\ pc[u] \in {"scan", "poll"} /\ UNCHANGED <<clock, alive, reg, side, main, pc, stage, want, damaged, handles, lost>>
         /\ unread'[u] = unread[u] \ {r} /\ raced'[u] = raced[u] \ {r}
         /\ \A x \in Windows \ {r} : seen'[u][x] = seen[u][x]
         /\ \/ seen'[u][r] = main[r] /\ r \notin damaged
            \/ seen'[u][r] = side[r] /\ (r \in damaged \/ r \in raced[u])
<1>1. PICK row \in Readable(u, r) : seen' = [seen EXCEPT ![u][r] = row]
  BY DEF ReadRow
<1>2. \/ row = main[r] /\ r \notin damaged
      \/ row = side[r] /\ (r \in damaged \/ r \in raced[u])
  BY <1>1 DEF Readable
<1>3. seen'[u][r] = row /\ \A x \in Windows \ {r} : seen'[u][x] = seen[u][x]
  BY <1>1 DEF TypeOK
<1>4. pc[u] \in {"scan", "poll"} /\ UNCHANGED <<clock, alive, reg, side, main, pc, stage, want, damaged, handles, lost>>
  BY DEF ReadRow
<1>5. unread'[u] = unread[u] \ {r} /\ raced'[u] = raced[u] \ {r}
  BY DEF ReadRow, TypeOK
<1> QED BY <1>2, <1>3, <1>4, <1>5

\* The order of tickets is total.
LEMMA OneIsBefore ==
  ASSUME NEW w \in Windows, NEW v \in Windows, w /= v, NEW m \in Nat, NEW n \in Nat
  PROVE  /\ Before(m, w, n, v) \/ Before(n, v, m, w)
         /\ ~(Before(m, w, n, v) /\ Before(n, v, m, w))
  BY WindowsAssumption DEF Before

\* A lease that v proves is in whichever slot is read.
LEMMA HeldIsRead ==
  ASSUME Base, NEW v \in Windows, NEW o \in Ops, Holds(v, o), NEW row \in {main[v], side[v]}
  PROVE  row.leases[o] /= 0
<1>1. clock \in Nat /\ main[v].leases[o] > clock /\ o \in handles[v]
  BY Numeric DEF Base, RevivalInv, Holds
<1>2. side[v].leases[o] /= 0
  BY <1>1 DEF Base, HeldShows, Shows, OnDisk
<1> QED BY <1>1, <1>2

\* Window w reads v in its wait, and does not see it ahead.
LEMMA PollFirst ==
  ASSUME Base, ~SharingViolations, NEW w \in Windows, NEW v \in Windows, w /= v,
         PairTells(w, v), PairTells(v, w), ReadRow(w, v), Untouched(v),
         pc[w] = "poll", Live(w), ~SeenAhead(w, v)'
  PROVE  /\ Behind(v, w)'
         /\ Live(v)' /\ HasRead(v, w)' => SeenAhead(v, w)'
         /\ \A o \in Ops : Owner(v, o)' => SeenLease(w, v, o)'
<1> DEFINE row == seen'[w][v]
<1>1. /\ UNCHANGED <<clock, alive, reg, side, main, pc, stage, want, damaged, handles, lost>>
      /\ \/ row = main[v] /\ v \notin damaged
         \/ row = side[v] /\ (v \in damaged \/ v \in raced[w])
  BY ReadRowDoes DEF Base, RevivalInv
<1>2. row \in {main[v], side[v]}
  BY <1>1
<1>3. Slots(v) /\ Slots(w) /\ main[w] = reg[w]
  BY DEF Base, SlotsTell, Slots
<1>4. /\ reg[w].ticket \in Nat /\ reg[v].ticket \in Nat /\ main[v].ticket \in Nat /\ main[w].ticket \in Nat
  BY DEF Base, RevivalInv, TypeOK, Registry
<1>5. ~row.choosing /\ (row.ticket > 0 => ~Before(row.ticket, v, reg[w].ticket, w))
  BY <1>1 DEF SeenAhead
<1>6. \A o \in Ops : Holds(v, o) => row.leases[o] /= 0
  BY <1>2, HeldIsRead
<1>7. \A o \in Ops : (Owner(v, o)' <=> Owner(v, o)) /\ (Granted(v, o)' <=> Granted(v, o))
  BY <1>1 DEF Owner, Granted, InMemory, Holds
<1>8. ASSUME ~Granting(v) PROVE \A o \in Ops : Owner(v, o)' => SeenLease(w, v, o)'
  <2>1. \A o \in Ops : ~Granted(v, o)
    BY <1>8, OpsAssumption DEF Granting, Granted
  <2> QED BY <1>6, <1>7, <2>1 DEF Owner, SeenLease
<1>9. CASE pc[v] = "scan"
  BY <1>2, <1>3, <1>5, <1>9 DEF Slots
<1>10. CASE pc[v] \in {"ticketing", "poll", "sleep", "renewing"}
  <2>1. row.ticket = reg[v].ticket /\ reg[v].ticket > 0
    BY <1>2, <1>3, <1>5, <1>10, AfterWriteType DEF Slots, Base, RevivalInv, TypeOK
  <2>2. Before(reg[w].ticket, w, reg[v].ticket, v)
    BY <1>4, <1>5, <2>1, OneIsBefore
  <2>3. Behind(v, w)'
    BY <1>1, <1>3, <1>10, <2>2 DEF Behind
  <2>4. ASSUME Live(v), HasRead(v, w) PROVE SeenAhead(v, w)
    <3> SUFFICES ASSUME ~SeenAhead(v, w) PROVE FALSE
      OBVIOUS
    <3>1. Behind(w, v)
      BY <2>4 DEF PairTells, ReadTells
    <3>2. Before(main[v].ticket, v, reg[w].ticket, w) /\ main[v] = reg[v]
      BY <1>3, <2>4, <3>1 DEF Behind, HasRead, Slots
    <3> QED BY <1>4, <2>2, <3>2, OneIsBefore
  <2>5. (HasRead(v, w)' <=> HasRead(v, w)) /\ (SeenAhead(v, w)' <=> SeenAhead(v, w)) /\ (Live(v)' <=> Live(v))
    BY <1>1 DEF Untouched, HasRead, SeenAhead, Before, Live
  <2>6. ~Granting(v)
    BY <1>10 DEF Granting
  <2> QED BY <1>8, <2>3, <2>4, <2>5, <2>6
<1>11. CASE Granting(v)
  <2>1. Behind(v, w)' /\ ~HasRead(v, w)'
    BY <1>1, <1>11 DEF Behind, HasRead, Granting
  <2>2. row = side[v] /\ stage[v] = "registry"
    <3>1. CASE OnlyOwnership(v)
      BY <1>1, <3>1 DEF OnlyOwnership
    <3>2. CASE Before(main[v].ticket, v, reg[w].ticket, w)
      <4>1. row /= main[v]
        BY <1>3, <1>5, <1>11, <3>2 DEF Slots
      <4> QED BY <1>1, <1>3, <1>11, <4>1 DEF Slots, Base, RevivalInv, TypeOK
    <3> QED BY <1>11, <3>1, <3>2 DEF PairTells, GrantTells, Behind
  <2>3. row = reg[v]
    BY <1>3, <1>11, <2>2, AfterWriteType DEF Slots, Granting
  <2>4. \A o \in Ops : Owner(v, o)' => SeenLease(w, v, o)'
    <3> SUFFICES ASSUME NEW o \in Ops, Owner(v, o) PROVE SeenLease(w, v, o)'
      BY <1>7
    <3>1. row.leases[o] = InMemory(v, o) /\ InMemory(v, o)' = InMemory(v, o)
      BY <1>1, <2>3 DEF InMemory
    <3>2. row.leases[o] /= 0
      BY <1>6, <3>1, Numeric DEF Owner, Base, RevivalInv
    <3> QED BY <3>1, <3>2 DEF SeenLease
  <2> QED BY <2>1, <2>4
<1>12. CASE pc[v] \notin InBakery /\ ~Granting(v)
  BY <1>1, <1>8, <1>12 DEF Behind, HasRead, InBakery
<1> QED BY <1>9, <1>10, <1>11, <1>12 DEF InBakery

LEMMA ReadFirst ==
  ASSUME Base, ~SharingViolations, NEW w \in Windows, NEW v \in Windows, w /= v,
         PairTells(w, v), PairTells(v, w), ReadRow(w, v), Untouched(v)
  PROVE  PairTells(w, v)'
<1>1. /\ UNCHANGED <<clock, alive, reg, side, main, pc, stage, want, damaged, handles, lost>>
      /\ pc[w] \in {"scan", "poll"}
      /\ unread'[w] = unread[w] \ {v} /\ raced'[w] = raced[w] \ {v}
      /\ \/ seen'[w][v] = main[v] /\ v \notin damaged
         \/ seen'[w][v] = side[v] /\ (v \in damaged \/ v \in raced[w])
  BY ReadRowDoes DEF Base, RevivalInv
<1>2. ReadTells(w, v)'
  <2> SUFFICES ASSUME HasRead(w, v)', Live(w)', ~SeenAhead(w, v)'
               PROVE  /\ Behind(v, w)'
                      /\ Live(v)' /\ HasRead(v, w)' => SeenAhead(v, w)'
                      /\ \A o \in Ops : Owner(v, o)' => SeenLease(w, v, o)'
    BY DEF ReadTells
  <2>1. pc[w] = "poll" /\ Live(w)
    BY <1>1 DEF HasRead, Live
  <2> QED BY <2>1, PollFirst
<1>3. GrantTells(w, v)'
  <2> SUFFICES ASSUME Granting(v)', Live(w)', ~OnlyOwnership(v)' PROVE Behind(w, v)'
    BY DEF GrantTells
  <2>1. Granting(v) /\ Live(w) /\ ~OnlyOwnership(v)
    BY <1>1 DEF Granting, Live, OnlyOwnership
  <2>2. Behind(w, v)
    BY <2>1 DEF PairTells, GrantTells
  <2>3. CASE pc[w] = "poll"
    BY <1>1, <2>2, <2>3 DEF Behind
  <2>4. CASE pc[w] = "scan"
    <3>1. v \notin raced[w]
      BY <2>1, <2>4 DEF PairTells, RaceTells
    <3>2. seen'[w][v] = main[v]
      BY <1>1, <2>1, <3>1 DEF OnlyOwnership, Base, SlotsTell, Slots, RevivalInv, TypeOK
    <3> QED BY <1>1, <2>4, <3>2 DEF Behind
  <2> QED BY <1>1, <2>3, <2>4
<1>4. RaceTells(w, v)'
  BY <1>1 DEF RaceTells
<1> QED BY <1>2, <1>3, <1>4 DEF PairTells

LEMMA ReadSecond ==
  ASSUME Base, ~SharingViolations, NEW w \in Windows, NEW v \in Windows, w /= v,
         PairTells(w, v), ReadRow(v, w), Untouched(w)
  PROVE  PairTells(w, v)'
<1>1. /\ UNCHANGED <<clock, alive, reg, side, main, pc, stage, want, damaged, handles, lost>>
      /\ pc[v] \in {"scan", "poll"}
      /\ unread'[v] = unread[v] \ {w}
      /\ seen'[v][w] \in {main[w], side[w]}
  BY ReadRowDoes DEF Base, RevivalInv
<1>2. Slots(w) /\ reg[w].ticket \in Nat
  BY DEF Base, SlotsTell, RevivalInv, TypeOK, Registry
<1>3. ~Granting(v) /\ ~Granting(v)'
  BY <1>1 DEF Granting
<1>4. \A o \in Ops : (Owner(v, o)' <=> Owner(v, o)) /\ (SeenLease(w, v, o)' <=> SeenLease(w, v, o))
  BY <1>1 DEF Owner, Granted, InMemory, Holds, SeenLease, Untouched
<1>5. (HasRead(w, v)' <=> HasRead(w, v)) /\ (SeenAhead(w, v)' <=> SeenAhead(w, v)) /\ (Live(w)' <=> Live(w))
  BY <1>1 DEF Untouched, HasRead, SeenAhead, Before, Live
<1>6. ASSUME HasRead(w, v), Live(w), ~SeenAhead(w, v)
      PROVE  Behind(v, w)' /\ (HasRead(v, w)' => SeenAhead(v, w)')
  <2>1. Behind(v, w)
    BY <1>6 DEF PairTells, ReadTells
  <2>2. seen'[v][w] = main[w] /\ main[w].ticket > 0
    BY <1>1, <1>2, <1>6 DEF HasRead, Slots
  <2>3. Behind(v, w)'
    BY <1>1, <2>1, <2>2 DEF Behind
  <2>4. pc[v] = "poll" => Before(main[w].ticket, w, reg[v].ticket, v)
    BY <2>1 DEF Behind
  <2>5. HasRead(v, w)' => SeenAhead(v, w)'
    BY <1>1, <2>2, <2>4 DEF HasRead, SeenAhead
  <2> QED BY <2>3, <2>5
<1>7. ReadTells(w, v)'
  BY <1>4, <1>5, <1>6 DEF PairTells, ReadTells
<1>8. RaceTells(w, v)'
  <2>1. pc[w] = "scan" => SeenAhead(v, w)'
    BY <1>1, <1>2 DEF Slots, SeenAhead
  <2> QED BY <1>1, <1>3, <2>1 DEF RaceTells
<1> QED BY <1>3, <1>7, <1>8 DEF PairTells, GrantTells

-----------------------------------------------------------------------------
(* Grants.                                                                 *)

LEMMA GrantSees ==
  ASSUME Base, NEW v \in Windows, Grant(v), ~late'
  PROVE  /\ pc[v] = "poll" /\ unread[v] = {} /\ Live(v) /\ pc'[v] = "leaving"
         /\ \A r \in Windows \ {v} : ~Ahead(r, seen[v][r], v, reg[v].ticket)
         /\ \A r \in Windows \ {v} : seen[v][r].admission \in 1..clock => seen[v][r] = main[r]
         /\ \A r \in Windows \ {v}, o \in Ops : seen[v][r].leases[o] \in 1..clock => ~(main[r].leases[o] > clock)
<1>1. ~DecidesLate(v)
  BY GrantInTime
<1>2. clock \in Nat /\ reg[v].admission \in Nat
  BY Numeric DEF Base, RevivalInv, TypeOK, Registry
<1>3. Live(v)
  BY <1>1, <1>2 DEF DecidesLate, Live
<1>4. \A r \in Windows \ {v} : Row(v, r) = seen[v][r]
  BY DEF Row
<1>5. /\ \A r \in Windows \ {v} : seen[v][r].admission \in 1..clock => seen[v][r] = main[r]
      /\ \A r \in Windows \ {v}, o \in Ops : seen[v][r].leases[o] \in 1..clock => ~(main[r].leases[o] > clock)
  BY <1>1, <1>4 DEF DecidesLate
<1>6. pc[v] = "poll" /\ unread[v] = {} /\ pc'[v] = "leaving"
  BY DEF Grant, Decides, Base, RevivalInv, TypeOK
<1>7. \A r \in Windows \ {v} : ~Ahead(r, seen[v][r], v, reg[v].ticket)
  BY DEF Grant, Earlier
<1> QED BY <1>3, <1>5, <1>6, <1>7

\* A window that is in the bakery in time is not one that the grant passes by.
LEMMA GrantPasses ==
  ASSUME Base, NEW v \in Windows, Grant(v), ~late', NEW w \in Windows, w /= v,
         SeenAhead(v, w)
  PROVE  /\ seen[v][w] = main[w] /\ main[w].admission <= clock
         /\ Live(w) => pc[w] \notin InBakery
<1>1. clock \in Nat /\ seen[v][w].admission \in Nat
  BY Numeric DEF Base, RevivalInv, TypeOK, Registry
<1>2. seen[v][w].admission >= 1
  BY DEF SeenAhead, Base, RowsOK, RowOK
<1>3. ~(seen[v][w].admission > clock)
  BY GrantSees DEF Ahead, SeenAhead, Before
<1>4. seen[v][w] = main[w]
  BY <1>1, <1>2, <1>3, GrantSees
<1>5. main[w].admission <= clock
  BY <1>1, <1>3, <1>4
<1>6. pc[w] \in InBakery => main[w].admission = reg[w].admission
  BY DEF Base, SlotsTell, Slots, InBakery
<1> QED BY <1>1, <1>4, <1>5, <1>6 DEF Live

LEMMA GrantSecond ==
  ASSUME Base, ~late', NEW w \in Windows, NEW v \in Windows, w /= v,
         PairTells(w, v), PairTells(v, w), Grant(v), Untouched(w), clock' = clock,
         raced'[w] = raced[w], main' = main
  PROVE  PairTells(w, v)'
<1>1. pc[v] = "poll" /\ unread[v] = {} /\ Live(v) /\ pc'[v] = "leaving" /\ HasRead(v, w)
  BY GrantSees DEF HasRead
<1>2. Live(w) /\ pc[w] \in InBakery => ~SeenAhead(v, w)
  BY GrantPasses
<1>3. (HasRead(w, v)' <=> HasRead(w, v)) /\ (SeenAhead(w, v)' <=> SeenAhead(w, v)) /\ (Live(w)' <=> Live(w))
  BY DEF Untouched, HasRead, SeenAhead, Before, Live
<1>4. ReadTells(w, v)'
  <2> SUFFICES ASSUME HasRead(w, v), Live(w), ~SeenAhead(w, v) PROVE FALSE
    BY <1>3 DEF ReadTells
  <2>1. SeenAhead(v, w)
    BY <1>1 DEF PairTells, ReadTells
  <2> QED BY <1>2, <2>1 DEF HasRead, InBakery
<1>5. GrantTells(w, v)'
  <2> SUFFICES ASSUME Live(w) PROVE Behind(w, v)'
    BY <1>3 DEF GrantTells
  <2>1. CASE pc[w] \in InBakery
    <3>1. Behind(w, v)
      BY <1>1, <1>2, <2>1 DEF PairTells, ReadTells
    <3> QED BY <3>1 DEF Behind, Untouched
  <2>2. CASE pc[w] \notin InBakery
    BY <2>2 DEF Behind, InBakery, Untouched
  <2> QED BY <2>1, <2>2
<1>6. RaceTells(w, v)'
  <2> SUFFICES ASSUME pc[w] = "scan", Live(w), v \in raced[w] PROVE FALSE
    BY <1>3 DEF RaceTells, Untouched
  <2>1. SeenAhead(v, w)
    BY <1>1 DEF PairTells, RaceTells
  <2> QED BY <1>2, <2>1 DEF InBakery
<1> QED BY <1>4, <1>5, <1>6 DEF PairTells

-----------------------------------------------------------------------------
(* Every step keeps what a pair of windows can tell of each other.         *)

\* A step of the window that reads.
LEMMA FirstSteps ==
  ASSUME Base, ~SharingViolations, ~late, NEW w \in Windows, NEW v \in Windows, w /= v,
         PairTells(w, v), PairTells(v, w), WindowStep(w),
         \A o \in Ops : Owner(v, o)' => Owner(v, o)
  PROVE  PairTells(w, v)'
<1>1. TypeOK /\ Slots(w)
  BY DEF Base, RevivalInv, SlotsTell
<1>2. Untouched(v) /\ clock' = clock /\ (v \in damaged' <=> v \in damaged)
  BY <1>1, OthersUntouched, AroundUntouched
<1>3. CASE WriteOwnership(w) \/ Damage(w)
  <2>1. /\ UNCHANGED <<clock, reg, main, pc, want, unread, seen, raced>>
        /\ OnlyOwnership(v) => OnlyOwnership(v)'
    BY <1>2, <1>3 DEF WriteOwnership, Damage, OnlyOwnership, Untouched
  <2> QED BY <2>1, CalmPair DEF Live
<1>4. CASE WriteRegistry(w)
  <2>1. /\ pc'[w] = AfterWrite[pc[w]] /\ pc[w] \in Writing /\ reg' = reg
        /\ unread'[w] = IF pc'[w] \in {"scan", "poll"} THEN Windows \ {w} ELSE {}
        /\ raced'[w] = raced[w]
    BY <1>1, <1>4 DEF WriteRegistry, TypeOK
  <2>2. CASE pc[w] = "choosing"
    <3>1. pc'[w] = "scan" /\ v \in unread'[w] /\ v \notin raced'[w]
      BY <1>1, <2>1, <2>2, AfterWriteType DEF Slots, AfterWrite
    <3> QED BY <3>1, ScanFirst
  <2>3. CASE pc[w] \in {"ticketing", "renewing"}
    <3>1. pc'[w] \in {"poll", "sleep"} /\ ~HasRead(w, v)'
      BY <2>1, <2>3 DEF AfterWrite, HasRead
    <3> QED BY <1>2, <2>1, <2>3, <3>1, QueueFirst DEF InBakery
  <2>4. CASE pc[w] \in {"leaving", "releasing", "beating"}
    <3>1. pc'[w] = "idle"
      BY <2>1, <2>4 DEF AfterWrite
    <3> QED BY <3>1, OutFirst DEF InBakery
  <2> QED BY <2>1, <2>2, <2>3, <2>4 DEF Writing, AfterWrite
<1>5. CASE \E o \in Ops : BeginAdmission(w, o) \/ Heartbeat(w, o) \/ Release(w, o)
  <2>1. pc'[w] \in {"choosing", "idle", "beating", "releasing"}
    BY <1>1, <1>5 DEF BeginAdmission, Heartbeat, Release, TypeOK
  <2> QED BY <2>1, OutFirst DEF InBakery
<1>6. CASE ReadRow(w, v)
  BY <1>2, <1>6, ReadFirst
<1>7. ASSUME NEW r \in Windows \ {v}, ReadRow(w, r) PROVE PairTells(w, v)'
  <2>1. /\ UNCHANGED <<clock, alive, reg, side, main, pc, stage, want, damaged, handles, lost>>
        /\ unread'[w] = unread[w] \ {r} /\ raced'[w] = raced[w] \ {r}
        /\ seen'[w][v] = seen[w][v]
    BY <1>1, <1>7, ReadRowDoes
  <2> QED BY <1>2, <2>1, CalmPair DEF Untouched, Live, OnlyOwnership
<1>8. CASE TakeTicket(w)
  BY <1>2, <1>8, TicketFirst
<1>9. CASE PollAgain(w) \/ Wake(w)
  <2>1. /\ pc[w] \in {"poll", "sleep"} /\ pc'[w] \in {"poll", "sleep", "renewing"}
        /\ pc'[w] = "poll" => v \in unread'[w]
    BY <1>1, <1>9 DEF PollAgain, Wake, Decides, TypeOK
  <2>2. reg'[w] = reg[w] \/ reg'[w] = Renewed(reg[w])
    BY <1>1, <1>9 DEF PollAgain, Wake, TypeOK
  <2>3. reg'[w].ticket = reg[w].ticket /\ reg'[w].admission = reg[w].admission
    BY <1>1, <2>2, AdmissionOf DEF TypeOK
  <2> QED BY <1>2, <2>1, <2>3, QueueFirst DEF InBakery, HasRead
<1>10. CASE Grant(w) \/ Refuse(w) \/ AdmissionThrows(w) \/ WriteFails(w) \/ Crash(w)
  <2>1. pc'[w] \in {"leaving", "idle"}
    BY <1>1, <1>10 DEF Grant, Refuse, AdmissionThrows, WriteFails, Abandon, Crash, TypeOK
  <2> QED BY <2>1, OutFirst DEF InBakery
<1> QED BY <1>3, <1>4, <1>5, <1>6, <1>7, <1>8, <1>9, <1>10 DEF WindowStep

\* A step of the window that is read.
LEMMA SecondSteps ==
  ASSUME Base, ~SharingViolations, ~late', NEW w \in Windows, NEW v \in Windows, w /= v,
         PairTells(w, v), PairTells(v, w), WindowStep(v),
         ~Grant(v) => \A o \in Ops : Owner(v, o)' => Owner(v, o)
  PROVE  PairTells(w, v)'
<1>1. TypeOK /\ Slots(v)
  BY DEF Base, RevivalInv, SlotsTell
<1>2. Untouched(w) /\ clock' = clock
  BY <1>1, OthersUntouched, AroundUntouched
<1>3. CASE Grant(v)
  <2>1. raced' = raced /\ main' = main
    BY <1>3 DEF Grant
  <2> QED BY <1>2, <1>3, <2>1, GrantSecond
<1>4. SUFFICES ASSUME ~Grant(v) PROVE PairTells(w, v)'
  BY <1>3
<1>5. \A o \in Ops : Owner(v, o)' => Owner(v, o)
  BY <1>4
<1>6. CASE WriteOwnership(v) \/ Damage(v)
  <2>1. /\ UNCHANGED <<clock, reg, main, pc, want, unread, seen, raced>>
        /\ OnlyOwnership(v) => OnlyOwnership(v)'
    BY <1>1, <1>6 DEF WriteOwnership, Damage, OnlyOwnership, TypeOK
  <2> QED BY <1>5, <2>1, CalmPair DEF Live
<1>7. CASE WriteRegistry(v)
  <2>1. /\ pc'[v] = AfterWrite[pc[v]] /\ pc[v] \in Writing /\ reg' = reg
        /\ unread'[v] = IF pc'[v] \in {"scan", "poll"} THEN Windows \ {v} ELSE {}
    BY <1>1, <1>7 DEF WriteRegistry, TypeOK
  <2>2. CASE pc[v] = "choosing"
    <3>1. pc'[v] = "scan" /\ w \in unread'[v]
      BY <2>1, <2>2 DEF AfterWrite
    <3> QED BY <1>2, <1>5, <3>1, ScanSecond
  <2>3. CASE pc[v] \in {"ticketing", "renewing"}
    <3>1. pc'[v] \in {"poll", "sleep"} /\ ~HasRead(v, w)'
      BY <2>1, <2>3 DEF AfterWrite, HasRead
    <3> QED BY <1>2, <1>5, <2>1, <2>3, <3>1, QueueSecond DEF InBakery
  <2>4. CASE pc[v] \in {"leaving", "releasing", "beating"}
    <3>1. pc'[v] = "idle"
      BY <2>1, <2>4 DEF AfterWrite
    <3> QED BY <1>2, <1>5, <3>1, OutSecond DEF InBakery, Granting
  <2> QED BY <2>1, <2>2, <2>3, <2>4 DEF Writing, AfterWrite
<1>8. CASE \E o \in Ops : BeginAdmission(v, o) \/ Heartbeat(v, o) \/ Release(v, o)
  <2>1. pc'[v] \in {"choosing", "idle", "beating", "releasing"}
    BY <1>1, <1>8 DEF BeginAdmission, Heartbeat, Release, TypeOK
  <2> QED BY <1>2, <1>5, <2>1, OutSecond DEF InBakery, Granting
<1>9. CASE ReadRow(v, w)
  BY <1>2, <1>9, ReadSecond
<1>10. ASSUME NEW r \in Windows \ {w}, ReadRow(v, r) PROVE PairTells(w, v)'
  <2>1. /\ UNCHANGED <<clock, alive, reg, side, main, pc, stage, want, damaged, handles, lost>>
        /\ unread'[v] = unread[v] \ {r} /\ seen'[v][w] = seen[v][w]
    BY <1>1, <1>10, ReadRowDoes
  <2>2. raced'[w] = raced[w]
    BY <1>1, <1>10 DEF ReadRow, TypeOK
  <2> QED BY <1>2, <1>5, <2>1, <2>2, CalmPair DEF Untouched, Live, OnlyOwnership
<1>11. CASE TakeTicket(v)
  BY <1>2, <1>5, <1>11, TicketSecond
<1>12. CASE PollAgain(v) \/ Wake(v)
  <2>1. /\ pc[v] \in {"poll", "sleep"} /\ pc'[v] \in {"poll", "sleep", "renewing"}
        /\ pc'[v] = "poll" => w \in unread'[v]
    BY <1>1, <1>12 DEF PollAgain, Wake, Decides, TypeOK
  <2>2. reg'[v] = reg[v] \/ reg'[v] = Renewed(reg[v])
    BY <1>1, <1>12 DEF PollAgain, Wake, TypeOK
  <2>3. reg'[v].ticket = reg[v].ticket
    BY <1>1, <2>2, AdmissionOf DEF TypeOK
  <2> QED BY <1>2, <1>5, <2>1, <2>3, QueueSecond DEF InBakery, HasRead
<1>13. CASE Refuse(v) \/ AdmissionThrows(v) \/ WriteFails(v) \/ Crash(v)
  <2>1. pc'[v] = "idle" \/ (pc'[v] = "leaving" /\ want'[v] = NoOp)
    BY <1>1, <1>13 DEF Refuse, AdmissionThrows, WriteFails, Abandon, Crash, TypeOK
  <2> QED BY <1>2, <1>5, <2>1, OutSecond DEF InBakery, Granting
<1> QED BY <1>4, <1>6, <1>7, <1>8, <1>9, <1>10, <1>11, <1>12, <1>13 DEF WindowStep

LEMMA StepPairs ==
  ASSUME Base, ~SharingViolations, [Next]_vars, BakeryTells
  PROVE  BakeryTells'
<1> SUFFICES ASSUME ~late', NEW w \in Windows, NEW v \in Windows, w /= v PROVE PairTells(w, v)'
  BY DEF BakeryTells
<1>1. /\ ~late
      /\ \/ clock' = clock
         \/ clock' = clock + 1 /\ ~Overruns(clock + 1) /\ UNCHANGED <<reg, main, handles>>
  BY TimePasses
<1>2. PairTells(w, v) /\ PairTells(v, w)
  BY <1>1 DEF BakeryTells
<1>3. TypeOK /\ SlotsTell /\ RevivalInv
  BY DEF Base, RevivalInv
<1>4. \A o \in Ops : Owner(v, o)' => Owner(v, o) \/ (Grant(v) /\ want[v] = o)
  BY <1>3, OwnerBefore
<1>5. ASSUME NEW u \in Windows, WindowStep(u) PROVE PairTells(w, v)'
  <2>1. Grant(v) => pc[v] = "poll" /\ pc'[v] = "leaving"
    BY <1>3 DEF Grant, Decides, TypeOK
  <2>2. u /= v => \A o \in Ops : Owner(v, o)' => Owner(v, o)
    <3> SUFFICES ASSUME u /= v PROVE ~Grant(v)
      BY <1>4
    <3>1. pc'[v] = pc[v]
      BY <1>3, <1>5, OthersUntouched DEF Untouched
    <3> QED BY <2>1, <3>1
  <2>3. CASE u = w
    BY <1>1, <1>2, <1>5, <2>2, <2>3, FirstSteps
  <2>4. CASE u = v
    BY <1>2, <1>4, <1>5, <2>4, SecondSteps
  <2>5. CASE u /= w /\ u /= v
    <3>1. Untouched(w) /\ Untouched(v)
      BY <1>3, <1>5, <2>5, OthersUntouched
    <3>2. /\ clock' = clock
          /\ v \in damaged' <=> v \in damaged
          /\ raced'[w] = raced[w] \/ raced'[w] = raced[w] \cup {u}
      BY <1>3, <1>5, <2>5, AroundUntouched
    <3> QED BY <1>2, <2>2, <2>5, <3>1, <3>2, CalmPair DEF Untouched, Live, OnlyOwnership
  <2> QED BY <2>3, <2>4, <2>5
<1>6. CASE Tick \/ LegacyLease \/ UNCHANGED vars
  <2>1. UNCHANGED <<alive, reg, side, main, pc, stage, want, unread, seen, raced, damaged, handles, lost>>
    BY <1>6 DEF Tick, LegacyLease, vars
  <2>2. clock \in Nat /\ clock' \in Nat /\ clock <= clock' /\ reg[w].admission \in Nat /\ reg[v].admission \in Nat
    BY <1>1, <1>3, Numeric DEF TypeOK, Registry
  <2>3. ~Grant(v)
    BY <1>3, <2>1 DEF Grant, Decides, TypeOK
  <2> QED BY <1>2, <1>4, <2>1, <2>2, <2>3, CalmPair DEF Live, OnlyOwnership
<1> QED BY <1>5, <1>6 DEF Next

-----------------------------------------------------------------------------
(* No two owners conflict.                                                 *)

\* A grant does not conflict with a lease that has an owner already.
LEMMA GrantExclusive ==
  ASSUME Base, BakeryTells, ~late, ~late', NEW w \in Windows, NEW v \in Windows, NEW p \in Ops,
         Grant(w), Owner(v, p), <<w, want[w]>> /= <<v, p>>
  PROVE  ~Conflict(want[w], p)
<1> SUFFICES ASSUME Conflict(want[w], p) PROVE FALSE
  OBVIOUS
<1>1. alive[v] /\ p /= NoOp
  BY OpsAssumption DEF Owner, Holds
<1>2. pc[w] = "poll" /\ \A r \in Windows : alive[r] => ~(Row(w, r).leases[p] > clock)
  BY DEF Grant, Decides, Conflicting
<1>3. CASE v = w
  <2>1. Holds(w, p)
    BY <1>2, <1>3 DEF Owner, Granted
  <2> QED BY <1>2, <2>1 DEF Holds, Row
<1>4. CASE v /= w
  <2>1. HasRead(w, v) /\ Live(w)
    BY <1>4, GrantSees DEF HasRead
  <2>2. ~(seen[w][v].leases[p] > clock)
    BY <1>1, <1>2, <1>4 DEF Row
  <2>3. CASE SeenAhead(w, v)
    <3>1. seen[w][v] = main[v] /\ main[v].admission <= clock
      BY <1>4, <2>3, GrantPasses
    <3>2. clock \in Nat /\ main[v].admission \in Nat
      BY Numeric DEF Base, RevivalInv, TypeOK, Registry
    <3>3. ~Granting(v)
      BY <3>1, <3>2 DEF Base, GrantsProtected
    <3>4. Holds(v, p)
      BY <1>1, <3>3 DEF Owner, Granted, Granting
    <3> QED BY <2>2, <3>1, <3>4 DEF Holds
  <2>4. CASE ~SeenAhead(w, v)
    <3>1. SeenLease(w, v, p)
      BY <1>4, <2>1, <2>4 DEF BakeryTells, PairTells, ReadTells
    <3>2. clock \in Nat /\ seen[w][v].leases[p] \in Nat
      BY Numeric DEF Base, RevivalInv, TypeOK, Registry
    <3>3. seen[w][v].leases[p] \in 1..clock
      BY <2>2, <3>1, <3>2 DEF SeenLease
    <3>4. ~(main[v].leases[p] > clock)
      BY <1>4, <3>3, GrantSees
    <3>5. Granted(v, p) /\ InMemory(v, p) > clock
      BY <3>4 DEF Owner, Holds
    <3> QED BY <2>2, <3>1, <3>5 DEF SeenLease
  <2> QED BY <2>3, <2>4
<1> QED BY <1>3, <1>4

LEMMA ConflictSymmetric ==
  ASSUME NEW o \in Ops, NEW p \in Ops, Conflict(o, p)
  PROVE  Conflict(p, o)
  BY DEF Conflict, TargetsConflict

Exclusive ==
    ~late => \A w, v \in Windows, o, p \in Ops :
        <<w, o>> /= <<v, p>> /\ Owner(w, o) /\ Owner(v, p) => ~Conflict(o, p)

LEMMA StepExclusive ==
  ASSUME Base, BakeryTells, Exclusive, [Next]_vars
  PROVE  Exclusive'
<1> SUFFICES ASSUME ~late', NEW w \in Windows, NEW v \in Windows, NEW o \in Ops, NEW p \in Ops,
                    <<w, o>> /= <<v, p>>, Owner(w, o)', Owner(v, p)', Conflict(o, p)
             PROVE  FALSE
  BY DEF Exclusive, Conflict
<1>1. ~late
  BY TimePasses
<1>2. Owner(w, o) \/ (Grant(w) /\ want[w] = o)
  BY OwnerBefore DEF Base
<1>3. Owner(v, p) \/ (Grant(v) /\ want[v] = p)
  BY OwnerBefore DEF Base
<1>4. CASE Owner(w, o) /\ Owner(v, p)
  BY <1>1, <1>4 DEF Exclusive
<1>5. CASE Grant(w) /\ want[w] = o /\ Owner(v, p)
  BY <1>1, <1>5, GrantExclusive
<1>6. CASE Grant(v) /\ want[v] = p /\ Owner(w, o)
  BY <1>1, <1>6, GrantExclusive, ConflictSymmetric
<1>7. CASE Grant(w) /\ want[w] = o /\ Grant(v) /\ want[v] = p
  <2>1. pc[v] = "poll" /\ pc' = [pc EXCEPT ![w] = "leaving"] /\ pc' = [pc EXCEPT ![v] = "leaving"]
    BY <1>7 DEF Grant, Decides
  <2>2. w = v
    BY <2>1 DEF Base, RevivalInv, TypeOK
  <2> QED BY <1>7, <2>2
<1> QED BY <1>2, <1>3, <1>4, <1>5, <1>6, <1>7

\* The inductive invariant, beside the types.
LeaseInv == WantsNew /\ NoneOverrun /\ RowsOK /\ SlotsTell /\ HeldShows /\ GrantsProtected
              /\ BakeryTells /\ Exclusive

LEMMA InitLeaseInv == Init => LeaseInv
<1> SUFFICES ASSUME Init PROVE LeaseInv
  OBVIOUS
<1>1. WantsNew /\ NoneOverrun /\ GrantsProtected
  BY OpsAssumption DEF Init, WantsNew, Admitting, NoneOverrun, GrantsProtected, Granting
<1>2. RowsOK /\ HeldShows
  BY TtlAssumption DEF Init, RowsOK, RowOK, HeldShows, Shows, InMemory, IdleRow, NothingSeen
<1>3. SlotsTell
  BY DEF Init, SlotsTell, Slots, Granting, Writing, AfterWrite
<1>4. BakeryTells
  BY DEF Init, BakeryTells, PairTells, ReadTells, GrantTells, RaceTells, HasRead, Granting
<1>5. Exclusive
  BY DEF Init, Exclusive, Owner, Granted, Holds
<1> QED BY <1>1, <1>2, <1>3, <1>4, <1>5 DEF LeaseInv

\* Unless a window overran a time-to-live, no two handles on overlapping targets
\* can both prove their lease (admission(), rows(), acquire(), assertHeld()).
\* Assumed: a registry that is not damaged can be opened.
THEOREM NoConflictingHoldersHolds ==
  ASSUME ~SharingViolations
  PROVE  Spec => []NoConflictingHolders
<1>1. TypeOK /\ TypeOK' /\ LeaseInv /\ [Next]_vars => LeaseInv'
  <2> SUFFICES ASSUME TypeOK, TypeOK', LeaseInv, [Next]_vars PROVE LeaseInv'
    OBVIOUS
  <2>1. Base
    BY DEF Base, RevivalInv, LeaseInv
  <2>2. WantsNew' /\ NoneOverrun' /\ RowsOK' /\ SlotsTell' /\ HeldShows' /\ GrantsProtected'
    BY StepWantsNew, StepNoneOverrun, StepRowsOK, StepSlots, StepShows, StepProtected DEF LeaseInv
  <2>3. BakeryTells' /\ Exclusive'
    BY <2>1, StepPairs, StepExclusive DEF LeaseInv
  <2> QED BY <2>2, <2>3 DEF LeaseInv
<1>2. LeaseInv => NoConflictingHolders
  <2> SUFFICES ASSUME LeaseInv, ~late, NEW w \in Windows, NEW v \in Windows, NEW o \in Ops, NEW p \in Ops,
                      <<w, o>> /= <<v, p>>, Holds(w, o), Holds(v, p), Conflict(o, p)
               PROVE  FALSE
    BY DEF NoConflictingHolders, ConflictingHolders
  <2> QED BY DEF LeaseInv, Exclusive, Owner
<1> QED BY <1>1, <1>2, InitLeaseInv, TypeCorrect, PTL DEF Spec
=============================================================================
