--------------------------- MODULE UpdateGate_proofs ---------------------------
(***************************************************************************)
(* Proofs about UpdateGate: wait() does not return before every operation  *)
(* that was declared when the gate was taken has ended, and, while no      *)
(* operation has slipped in, not while any operation is under way.  For    *)
(* any pids, times and bounds.                                             *)
(***************************************************************************)
EXTENDS UpdateGate, TLAPS

(***************************************************************************)
(* The registries.  While a host's operation is declared, both slots show  *)
(* it, with a time that is not before the host's start: a suspect's bound  *)
(* can then never be earlier than the start of the process itself.         *)
(***************************************************************************)
Shows(p, row) == Blocks(row) /\ start[p] <= Bound(row)

StartsPast == \A p \in Pids : start[p] <= clock

OnlyHostsWork ==
    \A p \in Pids :
        /\ pc[p] /= "idle" => proc[p] = "host"
        /\ stage[p] = "registry" => pc[p] \in DOMAIN AfterWrite

MemoryShows == \A p \in Pids : Busy(p) => Blocks(mem[p])

SlotsShow ==
    \A p \in Pids :
        /\ Declared(p) \/ (pc[p] = "choosing" /\ stage[p] = "registry") => Shows(p, side[p])
        /\ Declared(p) => Shows(p, main[p])

HostInv == TypeOK /\ StartsPast /\ OnlyHostsWork /\ MemoryShows /\ SlotsShow

LEMMA RowKinds ==
  /\ Absent \in Row /\ Idle \in Row /\ ~Blocks(Absent) /\ ~Blocks(Idle)
  /\ \A row \in Row : Bound(row) \in Nat /\ row.mtime <= Bound(row)
  /\ \A t \in Nat : /\ [kind |-> "admission", expires |-> t, mtime |-> 0] \in Row
                    /\ [kind |-> "lease", expires |-> t, mtime |-> 0] \in Row
                    /\ Blocks([kind |-> "admission", expires |-> t, mtime |-> 0])
                    /\ Blocks([kind |-> "lease", expires |-> t, mtime |-> 0])
  BY DEF Absent, Idle, Blocks, Row, Bound

LEMMA StampedShows ==
  ASSUME TypeOK, StartsPast, NEW p \in Pids
  PROVE  /\ Stamped(mem[p]) \in Row
         /\ Blocks(mem[p]) => Shows(p, Stamped(mem[p]))
<1>1. mem[p] \in Row /\ clock \in Nat /\ start[p] \in Nat /\ start[p] <= clock
  BY DEF TypeOK, StartsPast
<1>2. Stamped(mem[p]) \in Row
  BY <1>1 DEF Stamped, Row
<1>3. Blocks(mem[p]) => Blocks(Stamped(mem[p])) /\ Stamped(mem[p]).mtime = clock
  BY <1>1 DEF Stamped, Row, Blocks
<1>4. Bound(Stamped(mem[p])) \in Nat /\ Stamped(mem[p]).mtime <= Bound(Stamped(mem[p]))
  BY <1>2, RowKinds
<1> QED BY <1>1, <1>2, <1>3, <1>4 DEF Shows

LEMMA ClockStarts == 0 \in 0..MaxClock
  BY TimesAssumption

LEMMA InitHost == Init => HostInv
<1> SUFFICES ASSUME Init PROVE HostInv
  OBVIOUS
<1>1. NoBound \in [Pids -> Nat] /\ NotProbed \in [Pids -> Observation]
  BY DEF NoBound, NotProbed, Said, Observation
<1>2. TypeOK
  BY <1>1, RowKinds, ClockStarts DEF Init, TypeOK
<1>3. StartsPast /\ OnlyHostsWork /\ MemoryShows /\ SlotsShow
  BY DEF Init, StartsPast, OnlyHostsWork, MemoryShows, SlotsShow, Busy, Declared
<1> QED BY <1>2, <1>3 DEF HostInv

-----------------------------------------------------------------------------
(* A host's step keeps the types.                                          *)

LEMMA WritesHost ==
  ASSUME HostInv, NEW p \in Pids, NEW from, NEW to, NEW row \in Row, Writes(p, from, to, row),
         from \in {"idle", "admitted", "working"},
         to \in {"choosing", "granting", "beating", "leaving"},
         to /= "leaving" => Blocks(row),
         to \in {"granting", "beating"} => from \in {"admitted", "working"},
         old' \in SUBSET Pids
  PROVE  HostInv'
<1>1. /\ pc' = [pc EXCEPT ![p] = to] /\ mem' = [mem EXCEPT ![p] = row]
      /\ pc[p] = from /\ proc[p] = "host" /\ stage[p] /= "registry"
      /\ UNCHANGED <<clock, proc, start, side, main, stage, v1, gate, since, unread,
                     suspects, bound, proof, slipped>>
  BY DEF HostInv, Writes, UpdateSide, OnlyHostsWork, AfterWrite
<1>2. TypeOK'
  BY <1>1 DEF HostInv, TypeOK
<1>3. StartsPast'
  BY <1>1 DEF HostInv, StartsPast
<1>4. OnlyHostsWork'
  BY <1>1 DEF HostInv, TypeOK, OnlyHostsWork, AfterWrite
<1>5. MemoryShows'
  BY <1>1 DEF HostInv, TypeOK, MemoryShows, Busy, Declared
<1>6. SlotsShow'
  BY <1>1 DEF HostInv, TypeOK, SlotsShow, Shows, Declared
<1> QED BY <1>2, <1>3, <1>4, <1>5, <1>6 DEF HostInv

LEMMA OperateHost ==
  ASSUME HostInv, NEW p \in Pids, Operate(p)
  PROVE  HostInv'
<1>1. clock + Ttl \in Nat /\ old \ {p} \in SUBSET Pids /\ old \in SUBSET Pids
  BY TimesAssumption DEF HostInv, TypeOK
<1>2. CASE Begin(p)
  BY <1>1, <1>2, WritesHost, RowKinds DEF Begin
<1>3. CASE Grant(p)
  BY <1>1, <1>3, WritesHost, RowKinds DEF Grant
<1>4. CASE Leave(p)
  BY <1>1, <1>4, WritesHost, RowKinds DEF Leave
<1>5. CASE Heartbeat(p)
  BY <1>1, <1>5, WritesHost, RowKinds DEF Heartbeat
<1>6. CASE WriteOwnership(p)
  <2>1. /\ proc[p] = "host" /\ pc[p] \in DOMAIN AfterWrite
        /\ side' = [side EXCEPT ![p] = Stamped(mem[p])]
        /\ stage' = [stage EXCEPT ![p] = "registry"]
        /\ UNCHANGED <<clock, proc, start, mem, main, pc, v1, gate, since, unread,
                       suspects, bound, proof, old, slipped>>
    BY <1>6 DEF WriteOwnership, UpdateSide
  <2>2. Stamped(mem[p]) \in Row /\ (Blocks(mem[p]) => Shows(p, Stamped(mem[p])))
    BY StampedShows DEF HostInv
  <2>3. TypeOK'
    BY <2>1, <2>2 DEF HostInv, TypeOK
  <2>4. StartsPast' /\ OnlyHostsWork' /\ MemoryShows'
    BY <2>1 DEF HostInv, TypeOK, StartsPast, OnlyHostsWork, MemoryShows, Busy, Declared, AfterWrite
  <2>5. SlotsShow'
    BY <2>1, <2>2 DEF HostInv, TypeOK, SlotsShow, MemoryShows, Shows, Busy, Declared
  <2> QED BY <2>3, <2>4, <2>5 DEF HostInv
<1>7. CASE WriteRegistry(p)
  <2>1. /\ proc[p] = "host" /\ pc[p] \in DOMAIN AfterWrite /\ stage[p] = "registry"
        /\ main' = [main EXCEPT ![p] = Stamped(mem[p])]
        /\ stage' = [stage EXCEPT ![p] = "ownership"]
        /\ pc' = [pc EXCEPT ![p] = AfterWrite[pc[p]]]
        /\ UNCHANGED <<clock, proc, start, mem, side, v1, gate, since, unread,
                       suspects, bound, proof, old, slipped>>
    BY <1>7 DEF WriteRegistry, UpdateSide
  <2>2. Stamped(mem[p]) \in Row /\ (Blocks(mem[p]) => Shows(p, Stamped(mem[p])))
    BY StampedShows DEF HostInv
  <2>3. /\ pc[p] \in {"choosing", "granting", "beating", "leaving"}
        /\ pc[p] = "choosing" => AfterWrite[pc[p]] = "admitted"
        /\ pc[p] \in {"granting", "beating"} => AfterWrite[pc[p]] = "working"
        /\ pc[p] = "leaving" => AfterWrite[pc[p]] = "idle"
    BY <2>1 DEF AfterWrite
  <2>4. TypeOK'
    BY <2>1, <2>2, <2>3 DEF HostInv, TypeOK
  <2>5. StartsPast' /\ OnlyHostsWork' /\ MemoryShows'
    BY <2>1, <2>3 DEF HostInv, TypeOK, StartsPast, OnlyHostsWork, MemoryShows, Busy, Declared
  <2>6. SlotsShow'
    BY <2>1, <2>2, <2>3 DEF HostInv, TypeOK, SlotsShow, MemoryShows, Shows, Busy, Declared
  <2> QED BY <2>4, <2>5, <2>6 DEF HostInv
<1> QED BY <1>2, <1>3, <1>4, <1>5, <1>6, <1>7 DEF Operate

LEMMA ProcessHost ==
  ASSUME HostInv, NEW p \in Pids, Exit(p) \/ Reuse(p)
  PROVE  HostInv'
<1>1. CASE Exit(p)
  BY <1>1, RowKinds DEF Exit, UpdateSide, HostInv, TypeOK, StartsPast, OnlyHostsWork,
     MemoryShows, SlotsShow, Shows, Busy, Declared, AfterWrite
<1>2. CASE Reuse(p)
  BY <1>2 DEF Reuse, UpdateSide, HostInv, TypeOK, StartsPast, OnlyHostsWork,
     MemoryShows, SlotsShow, Shows, Busy, Declared, AfterWrite
<1> QED BY <1>1, <1>2

\* The update's own steps leave the hosts alone.
LEMMA UpdateHost ==
  ASSUME HostInv, UNCHANGED Hosts, TypeOK', clock' = clock
  PROVE  HostInv'
  BY DEF Hosts, HostInv, StartsPast, OnlyHostsWork, MemoryShows, SlotsShow, Shows, Busy, Declared

LEMMA TickHost ==
  ASSUME HostInv, Tick
  PROVE  HostInv'
<1>1. UNCHANGED Hosts /\ clock' = clock + 1 /\ clock < MaxClock /\ UNCHANGED <<UpdateSide, old, slipped>>
  BY DEF Tick
<1>2. TypeOK'
  <2>1. clock' \in 0..MaxClock
    BY <1>1, TimesAssumption DEF HostInv, TypeOK
  <2> QED BY <1>1, <2>1 DEF HostInv, TypeOK, Hosts, UpdateSide
<1>3. StartsPast'
  BY <1>1 DEF HostInv, TypeOK, StartsPast, Hosts
<1>4. OnlyHostsWork' /\ MemoryShows' /\ SlotsShow'
  BY <1>1 DEF HostInv, OnlyHostsWork, MemoryShows, SlotsShow, Shows, Busy, Declared, Hosts
<1> QED BY <1>2, <1>3, <1>4 DEF HostInv

-----------------------------------------------------------------------------
(***************************************************************************)
(* The update.  An operation that was declared when the gate was taken is  *)
(* still declared, has still to be read in this round or is a suspect, and *)
(* the probe has said nothing of its pid that would clear it.              *)
(***************************************************************************)
Suspected(p) == p \in suspects /\ start[p] <= bound[p]

ProbedRight(p) ==
    proof[p].said /= "exited" /\ (proof[p].said = "started" => proof[p].at = start[p])

OldIsWatched ==
    /\ \A p \in old : Declared(p)
    /\ gate = "waiting" => \A p \in old : (p \in unread \/ Suspected(p)) /\ ProbedRight(p)

\* The operations under way are old ones, as long as none has slipped in.
OthersAreKeptOut ==
    gate /= "open" /\ ~slipped => v1 = "update" /\ \A p \in Pids : Busy(p) => p \in old

GateInv == HostInv /\ OldIsWatched /\ OldOperationsEnd /\ OthersAreKeptOut

LEMMA InitGate == Init => GateInv
  BY InitHost DEF Init, GateInv, OldIsWatched, OldOperationsEnd, OthersAreKeptOut

LEMMA OperateGate ==
  ASSUME GateInv, NEW p \in Pids, Operate(p) \/ Exit(p) \/ Reuse(p)
  PROVE  GateInv'
<1>1. HostInv'
  BY OperateHost, ProcessHost DEF GateInv
<1>2. UNCHANGED <<v1, gate, since, unread, suspects, bound, proof, slipped>>
  BY DEF Operate, Begin, Grant, Leave, Heartbeat, Writes, WriteOwnership, WriteRegistry,
     Exit, Reuse, UpdateSide
<1>3. old' \subseteq old /\ \A q \in Pids : Declared(q) /\ q \in old' => Declared(q)'
  <2>1. CASE Begin(p)
    BY <2>1 DEF Begin, Writes, Declared, GateInv, HostInv, TypeOK
  <2>2. CASE Grant(p)
    BY <2>2 DEF Grant, Writes, Declared, GateInv, HostInv, TypeOK
  <2>3. CASE Leave(p)
    BY <2>3 DEF Leave, Writes, Declared, GateInv, HostInv, TypeOK
  <2>4. CASE Heartbeat(p)
    BY <2>4 DEF Heartbeat, Writes, Declared, GateInv, HostInv, TypeOK
  <2>5. CASE WriteOwnership(p)
    BY <2>5 DEF WriteOwnership, Declared
  <2>6. CASE WriteRegistry(p)
    BY <2>6 DEF WriteRegistry, Declared, AfterWrite, GateInv, HostInv, TypeOK
  <2>7. CASE Exit(p)
    BY <2>7 DEF Exit, Declared, GateInv, HostInv, TypeOK
  <2>8. CASE Reuse(p)
    BY <2>8 DEF Reuse, Declared
  <2> QED BY <2>1, <2>2, <2>3, <2>4, <2>5, <2>6, <2>7, <2>8 DEF Operate
<1>4. \A q \in old' : start'[q] = start[q]
  BY <1>3 DEF Operate, Begin, Grant, Leave, Heartbeat, Writes, WriteOwnership, WriteRegistry,
     Exit, Reuse, GateInv, HostInv, OldIsWatched, OnlyHostsWork, TypeOK, Declared
<1>5. OldIsWatched'
  BY <1>2, <1>3, <1>4 DEF GateInv, HostInv, TypeOK, OldIsWatched, Suspected, ProbedRight
<1>6. OldOperationsEnd'
  BY <1>2, <1>3 DEF GateInv, OldOperationsEnd
<1>7. OthersAreKeptOut'
  <2> SUFFICES ASSUME gate /= "open", ~slipped
               PROVE  v1 = "update" /\ \A q \in Pids : Busy(q)' => q \in old'
    BY <1>2 DEF OthersAreKeptOut
  <2>1. v1 = "update" /\ \A r \in Pids : Busy(r) => r \in old
    BY DEF GateInv, OthersAreKeptOut
  <2>2. ~Begin(p)
    BY <2>1 DEF Begin, Admits
  <2>3. \A q \in Pids : Busy(q)' => Busy(q) /\ (q \in old => q \in old')
    BY <2>2 DEF Operate, Grant, Leave, Heartbeat, Writes, WriteOwnership, WriteRegistry,
       AfterWrite, Exit, Reuse, Busy, Declared, GateInv, HostInv, TypeOK
  <2> QED BY <2>1, <2>3
<1> QED BY <1>1, <1>5, <1>6, <1>7 DEF GateInv

\* The gate is taken: every declared operation has a registry to be read.
LEMMA BeginGateGate ==
  ASSUME GateInv, BeginGate
  PROVE  GateInv'
<1>1. /\ UNCHANGED Hosts /\ clock' = clock
      /\ gate' = "waiting" /\ v1' = "update" /\ since' = clock /\ unread' = Listed
      /\ suspects' = {} /\ bound' = NoBound /\ proof' = NotProbed
      /\ old' = {p \in Pids : Declared(p)}
      /\ slipped' = \E p \in Pids : pc[p] = "choosing"
  BY DEF BeginGate
<1>2. NoBound \in [Pids -> Nat] /\ NotProbed \in [Pids -> Observation] /\ Listed \subseteq Pids
  BY DEF NoBound, NotProbed, Said, Observation, Listed
<1>3. TypeOK'
  BY <1>1, <1>2, ClockStarts DEF GateInv, HostInv, TypeOK, Hosts
<1>4. HostInv'
  BY <1>1, <1>3, UpdateHost DEF GateInv
<1>5. \A p \in old' : Declared(p)' /\ p \in Listed
  BY <1>1, RowKinds DEF GateInv, HostInv, SlotsShow, Shows, Blocks, Listed, Hosts, Declared
<1>6. OldIsWatched'
  BY <1>1, <1>5 DEF OldIsWatched, ProbedRight, NotProbed, Said, GateInv, HostInv, TypeOK
<1>7. OldOperationsEnd' /\ OthersAreKeptOut'
  BY <1>1 DEF OldOperationsEnd, OthersAreKeptOut, Busy, Declared, Hosts
<1> QED BY <1>4, <1>6, <1>7 DEF GateInv

\* A registry is read: an old operation is not taken for a finished one.
LEMMA ReadSlotGate ==
  ASSUME GateInv, NEW p \in Pids, ReadSlot(p)
  PROVE  GateInv'
<1>1. PICK row \in Readable(p) :
         IF Released(row) \/ proc[p] = "gone"
         THEN UNCHANGED <<suspects, bound>>
         ELSE /\ suspects' = suspects \cup {p}
              /\ bound' = [bound EXCEPT ![p] = Bound(row)]
  BY DEF ReadSlot
<1>2. /\ gate = "waiting" /\ unread' = unread \ {p}
      /\ UNCHANGED Hosts /\ UNCHANGED <<clock, v1, gate, since, proof, old, slipped>>
  BY DEF ReadSlot
<1>3. row \in Row /\ Bound(row) \in Nat
  BY <1>1, RowKinds DEF Readable, GateInv, HostInv, TypeOK
<1>4. TypeOK'
  BY <1>1, <1>2, <1>3 DEF GateInv, HostInv, TypeOK, Hosts
<1>5. HostInv'
  BY <1>2, <1>4, UpdateHost DEF GateInv
<1>6. p \in old => Shows(p, row) /\ proc[p] /= "gone"
  BY <1>1 DEF GateInv, HostInv, OldIsWatched, SlotsShow, OnlyHostsWork, Declared, Readable
<1>7. p \in old => Suspected(p)'
  BY <1>1, <1>2, <1>3, <1>6 DEF Released, Shows, Suspected, Hosts, GateInv, HostInv, TypeOK
<1>8. \A q \in old : q /= p /\ Suspected(q) => Suspected(q)'
  BY <1>1, <1>2, <1>3 DEF Suspected, Hosts, GateInv, HostInv, TypeOK
<1>9. OldIsWatched'
  BY <1>2, <1>7, <1>8 DEF GateInv, OldIsWatched, ProbedRight, Declared, Hosts
<1>10. OldOperationsEnd' /\ OthersAreKeptOut'
  BY <1>2 DEF GateInv, OldOperationsEnd, OthersAreKeptOut, Busy, Declared, Hosts
<1> QED BY <1>5, <1>9, <1>10 DEF GateInv

\* The probe tells the truth of a process that still runs.
LEMMA ProbeGate ==
  ASSUME GateInv, Probe
  PROVE  GateInv'
<1>1. PICK answered \in SUBSET suspects :
         proof' = [p \in Pids |-> IF p \notin answered THEN Said("unknown", 0)
                                  ELSE IF proc[p] = "gone" THEN Said("exited", 0)
                                  ELSE Said("started", start[p])]
  BY DEF Probe
<1>2. UNCHANGED Hosts /\ UNCHANGED <<clock, v1, gate, since, unread, suspects, bound, old, slipped>>
  BY DEF Probe
<1>3. proof' \in [Pids -> Observation]
  BY <1>1 DEF Said, Observation, GateInv, HostInv, TypeOK
<1>4. TypeOK'
  BY <1>2, <1>3 DEF GateInv, HostInv, TypeOK, Hosts
<1>5. HostInv'
  BY <1>2, <1>4, UpdateHost DEF GateInv
<1>6. \A p \in old : p \in Pids /\ proc[p] /= "gone" /\ Declared(p)
  BY DEF GateInv, HostInv, TypeOK, OldIsWatched, OnlyHostsWork, Declared
<1>7. \A p \in old : ProbedRight(p)'
  BY <1>1, <1>2, <1>6 DEF ProbedRight, Said, Hosts
<1>8. OldIsWatched'
  BY <1>2, <1>6, <1>7 DEF GateInv, OldIsWatched, Suspected, Declared, Hosts
<1>9. OldOperationsEnd' /\ OthersAreKeptOut'
  BY <1>2 DEF GateInv, OldOperationsEnd, OthersAreKeptOut, Busy, Declared, Hosts
<1> QED BY <1>5, <1>8, <1>9 DEF GateInv

\* wait() returns: a suspect that is an old operation would not be cleared.
LEMMA ReturnGate ==
  ASSUME GateInv, Return
  PROVE  GateInv'
<1>1. /\ UNCHANGED Hosts /\ UNCHANGED <<clock, v1, old, slipped>>
      /\ gate = "waiting" /\ gate' = "installing" /\ unread = {}
      /\ \A p \in suspects : HasEnded(p)
      /\ since' = 0 /\ unread' = {} /\ suspects' = {} /\ bound' = NoBound /\ proof' = NotProbed
  BY DEF Return, EndWait, Drained, RoundIsOver
<1>2. NoBound \in [Pids -> Nat] /\ NotProbed \in [Pids -> Observation]
  BY DEF NoBound, NotProbed, Said, Observation
<1>3. TypeOK'
  BY <1>1, <1>2, ClockStarts DEF GateInv, HostInv, TypeOK, Hosts
<1>4. HostInv'
  BY <1>1, <1>3, UpdateHost DEF GateInv
<1>5. old = {}
  <2> SUFFICES ASSUME NEW p \in old PROVE FALSE
    OBVIOUS
  <2>1. p \in Pids /\ p \in suspects /\ start[p] <= bound[p] /\ ProbedRight(p)
    BY <1>1 DEF GateInv, HostInv, TypeOK, OldIsWatched, Suspected
  <2>2. start[p] \in Nat /\ bound[p] \in Nat
    BY <2>1 DEF GateInv, HostInv, TypeOK
  <2>3. IsAnother(p)
    BY <1>1, <2>1 DEF HasEnded, ProbedRight
  <2>4. start[p] > bound[p] + Margin
    BY <2>1, <2>3 DEF IsAnother, ProbedRight
  <2> QED BY <2>1, <2>2, <2>4, TimesAssumption
<1>6. OldIsWatched' /\ OldOperationsEnd' /\ OthersAreKeptOut'
  BY <1>1, <1>5 DEF GateInv, OldIsWatched, OldOperationsEnd, OthersAreKeptOut, Busy, Declared, Hosts
<1> QED BY <1>4, <1>6 DEF GateInv

LEMMA PollAgainGate ==
  ASSUME GateInv, PollAgain
  PROVE  GateInv'
<1>1. /\ UNCHANGED Hosts /\ UNCHANGED <<clock, v1, gate, since, proof, old, slipped>>
      /\ gate = "waiting" /\ unread' = Listed /\ suspects' = {} /\ bound' = NoBound
  BY DEF PollAgain, SinceAtPoll
<1>2. NoBound \in [Pids -> Nat] /\ Listed \subseteq Pids
  BY DEF NoBound, Listed
<1>3. TypeOK'
  BY <1>1, <1>2, ClockStarts DEF GateInv, HostInv, TypeOK, Hosts
<1>4. HostInv'
  BY <1>1, <1>3, UpdateHost DEF GateInv
<1>5. \A p \in old : p \in Listed
  BY DEF GateInv, HostInv, TypeOK, OldIsWatched, SlotsShow, Shows, Blocks, Listed
<1>6. OldIsWatched'
  BY <1>1, <1>5 DEF GateInv, OldIsWatched, ProbedRight, Declared, Hosts
<1>7. OldOperationsEnd' /\ OthersAreKeptOut'
  BY <1>1 DEF GateInv, OldOperationsEnd, OthersAreKeptOut, Busy, Declared, Hosts
<1> QED BY <1>4, <1>6, <1>7 DEF GateInv

LEMMA EndGateGate ==
  ASSUME GateInv, EndGate
  PROVE  GateInv'
<1>1. /\ UNCHANGED Hosts /\ clock' = clock
      /\ gate' = "open" /\ v1' = "free" /\ old' = {} /\ slipped' = FALSE
      /\ since' = 0 /\ unread' = {} /\ suspects' = {} /\ bound' = NoBound /\ proof' = NotProbed
  BY DEF EndGate, EndWait
<1>2. NoBound \in [Pids -> Nat] /\ NotProbed \in [Pids -> Observation]
  BY DEF NoBound, NotProbed, Said, Observation
<1>3. TypeOK'
  BY <1>1, <1>2, ClockStarts DEF GateInv, HostInv, TypeOK, Hosts
<1>4. HostInv'
  BY <1>1, <1>3, UpdateHost DEF GateInv
<1> QED BY <1>1, <1>4 DEF GateInv, OldIsWatched, OldOperationsEnd, OthersAreKeptOut

LEMMA TimeGate ==
  ASSUME GateInv, Tick \/ GateLapses \/ GateRenews
  PROVE  GateInv'
<1>1. CASE Tick
  <2>1. HostInv'
    BY <1>1, TickHost DEF GateInv
  <2> QED BY <1>1, <2>1 DEF Tick, Hosts, UpdateSide, GateInv, OldIsWatched, OldOperationsEnd,
          OthersAreKeptOut, Suspected, ProbedRight, Busy, Declared
<1>2. CASE GateLapses \/ GateRenews
  <2>1. UNCHANGED Hosts /\ UNCHANGED <<clock, gate, since, unread, suspects, bound, proof, old>>
    BY <1>2 DEF GateLapses, GateRenews
  <2>2. TypeOK'
    BY <1>2, <2>1 DEF GateLapses, GateRenews, GateInv, HostInv, TypeOK, Hosts
  <2>3. HostInv'
    BY <2>1, <2>2, UpdateHost DEF GateInv
  <2>4. OldIsWatched' /\ OldOperationsEnd'
    BY <2>1 DEF GateInv, OldIsWatched, OldOperationsEnd, Suspected, ProbedRight, Declared, Hosts
  <2>5. OthersAreKeptOut'
    BY <1>2, <2>1 DEF GateLapses, GateRenews, GateInv, OthersAreKeptOut, Busy, Declared, Hosts
  <2> QED BY <2>3, <2>4, <2>5 DEF GateInv
<1> QED BY <1>1, <1>2

LEMMA StepGate == GateInv /\ [Next]_vars => GateInv'
<1> SUFFICES ASSUME GateInv, [Next]_vars PROVE GateInv'
  OBVIOUS
<1>1. CASE \E p \in Pids : Operate(p) \/ Exit(p) \/ Reuse(p)
  BY <1>1, OperateGate
<1>2. CASE Tick \/ GateLapses \/ GateRenews
  BY <1>2, TimeGate
<1>3. CASE BeginGate
  BY <1>3, BeginGateGate
<1>4. CASE Waiting
  BY <1>4, ProbeGate, ReturnGate, PollAgainGate, EndGateGate, ReadSlotGate DEF Waiting, TimeOut
<1>5. CASE Throw \/ Finish
  BY <1>5, EndGateGate DEF Throw, Finish
<1>6. CASE UNCHANGED vars
  <2>1. TypeOK' /\ UNCHANGED Hosts /\ clock' = clock
    BY <1>6 DEF vars, GateInv, HostInv, TypeOK, Hosts
  <2>2. HostInv'
    BY <2>1, UpdateHost DEF GateInv
  <2> QED BY <1>6, <2>2 DEF vars, GateInv, OldIsWatched, OldOperationsEnd, OthersAreKeptOut,
          Suspected, ProbedRight, Busy, Declared
<1> QED BY <1>1, <1>2, <1>3, <1>4, <1>5, <1>6 DEF Next

LEMMA AlwaysGate == Spec => []GateInv
  BY InitGate, StepGate, PTL DEF Spec

\* Every operation that was declared when the gate was taken has ended when
\* wait() returns, for any pids, budgets, margins and times-to-live.
THEOREM OldOperationsEndHolds == Spec => []OldOperationsEnd
<1>1. GateInv => OldOperationsEnd
  BY DEF GateInv
<1> QED BY <1>1, AlwaysGate, PTL

\* While the gate has not lapsed and no operation passed its check of the v1
\* file unseen, the installation has the machine to itself.
THEOREM GateExcludesHolds == Spec => []GateExcludes
<1>1. GateInv => GateExcludes
  BY DEF GateInv, OldOperationsEnd, OthersAreKeptOut, GateExcludes
<1> QED BY <1>1, AlwaysGate, PTL

\* Every reachable state of UpdateGate has the types of TypeOK.
THEOREM GateTypeCorrect == Spec => []TypeOK
<1>1. GateInv => TypeOK
  BY DEF GateInv, HostInv
<1> QED BY <1>1, AlwaysGate, PTL
=============================================================================
