-------------------------- MODULE HostLease_proofs --------------------------
(***************************************************************************)
(* Proofs about HostLease, for any calls, windows, processes and crashes:  *)
(* a handle that has lost its lease never proves it again; the life of a   *)
(* record is changed by its own window only, and not ended while another   *)
(* handle is on it; and two windows work at one time only after a late     *)
(* heartbeat, a takeover of a record that was not inspected, or a release  *)
(* of a record that its window had joined again.                           *)
(***************************************************************************)
EXTENDS HostLease, Integers, FiniteSetTheorems, TLAPS

(***************************************************************************)
(* A lost handle could prove itself again only if its file came back to    *)
(* the lease path, or its session went over to another file.  The first    *)
(* is excluded since a file is created once, by a call that has not        *)
(* written it yet, while the file of a session is written; the second      *)
(* since a session in use belongs to a call that has ended its attempts.   *)
(***************************************************************************)
Types ==
    /\ alive \in [Processes -> BOOLEAN]
    /\ lease \in Calls \cup {NoCall}
    /\ written \in [Calls -> BOOLEAN]
    /\ pc \in [Calls -> Acquiring \cup {"idle", "held", "releasing", "done", "refused"}]
    /\ handle \in [Calls -> Calls \cup {NoCall}]
    /\ session \in [Calls -> Calls \cup {NoCall}]
    /\ lost \in [Calls -> BOOLEAN]
    /\ current \in [Processes -> Calls \cup {NoCall}]

\* A call that may still create its file has not written it.
FilesOnce == \A c \in Calls : pc[c] \in Acquiring \cup {"idle"} => ~written[c]

\* Session s was made by a call that acquired, for a file that is written.
Made(s) ==
    /\ s \in Calls /\ pc[s] \in {"held", "releasing", "done"}
    /\ session[s] \in Calls /\ written[session[s]]

SessionsMade ==
    /\ \A c \in Calls : pc[c] = "held" => Made(handle[c])
    /\ \A p \in Processes : current[p] /= NoCall => Made(current[p])

LostInv == Types /\ FilesOnce /\ SessionsMade

LEMMA InitLost == Init => LostInv
  BY DEF Init, LostInv, Types, FilesOnce, SessionsMade, Made

LEMMA ProcType == \A c \in Calls : ProcOf(c) \in Processes
  BY OwnersAssumption DEF ProcOf

\* A step that changes neither sessions nor written files keeps the invariant
\* if it moves one call to a state of its own.
LEMMA MovesLost ==
  ASSUME LostInv, NEW c \in Calls, NEW to \in Acquiring \cup {"releasing", "done", "refused"},
         pc' = [pc EXCEPT ![c] = to],
         to \in Acquiring => pc[c] \in Acquiring \cup {"idle"},
         to = "refused" => pc[c] \in Acquiring,
         lease' \in Calls \cup {NoCall},
         UNCHANGED <<alive, written, handle, session, lost>>,
         current' \in [Processes -> Calls \cup {NoCall}],
         \A p \in Processes : current'[p] \in {current[p], NoCall}
  PROVE  LostInv'
<1>1. Types'
  BY DEF LostInv, Types
<1>2. FilesOnce'
  BY DEF LostInv, Types, FilesOnce, Acquiring
<1>3. \A s : Made(s) => Made(s)'
  BY DEF LostInv, Types, Made, Acquiring
<1>4. SessionsMade'
  BY <1>3 DEF LostInv, Types, SessionsMade, Acquiring
<1> QED BY <1>1, <1>2, <1>4 DEF LostInv

\* A step that changes neither calls nor sessions.
LEMMA StaysLost ==
  ASSUME LostInv, alive' \in [Processes -> BOOLEAN], lost' \in [Calls -> BOOLEAN],
         UNCHANGED <<lease, written, pc, handle, session, current>>
  PROVE  LostInv'
  BY DEF LostInv, Types, FilesOnce, SessionsMade, Made

LEMMA FillLost ==
  ASSUME LostInv, NEW c \in Calls, Fill(c)
  PROVE  LostInv'
<1> USE CallsAssumption, ProcType
<1>1. Types'
  BY DEF LostInv, Types, Fill
<1>2. FilesOnce'
  BY DEF LostInv, Types, FilesOnce, Fill, Acquiring
<1>3. \A s : Made(s) => s /= c
  BY DEF LostInv, Made, Fill
<1>4. Made(c)' /\ \A s : Made(s) => Made(s)'
  BY <1>3 DEF LostInv, Types, Made, Fill
<1>5. SessionsMade'
  BY <1>4 DEF LostInv, Types, SessionsMade, Fill
<1> QED BY <1>1, <1>2, <1>5 DEF LostInv

LEMMA ReenterLost ==
  ASSUME LostInv, NEW c \in Calls, Reenter(c)
  PROVE  LostInv'
<1> USE CallsAssumption, ProcType
<1>1. lease \in Calls /\ written[lease]
  BY DEF LostInv, Types, Reenter, CanJoin, SameWindow
<1>2. \A s : Made(s) => s /= c
  BY DEF LostInv, Made, Reenter
<1>3. CASE OwnSession(c) /= NoCall
  <2>1. OwnSession(c) \in Calls /\ Made(OwnSession(c))
    BY <1>3 DEF LostInv, Types, SessionsMade, OwnSession
  <2>2. Types' /\ FilesOnce'
    BY <1>3, <2>1 DEF LostInv, Types, FilesOnce, Reenter, Acquiring
  <2>3. \A s : Made(s) => Made(s)'
    BY <1>3, <1>2 DEF LostInv, Types, Made, Reenter
  <2>4. SessionsMade'
    BY <1>3, <2>1, <2>3 DEF LostInv, Types, SessionsMade, Reenter
  <2> QED BY <2>2, <2>4 DEF LostInv
<1>4. CASE OwnSession(c) = NoCall
  <2>1. Types' /\ FilesOnce'
    BY <1>4, <1>1 DEF LostInv, Types, FilesOnce, Reenter, Acquiring
  <2>2. Made(c)' /\ \A s : Made(s) => Made(s)'
    BY <1>4, <1>1, <1>2 DEF LostInv, Types, Made, Reenter
  <2>3. SessionsMade'
    BY <1>4, <2>2 DEF LostInv, Types, SessionsMade, Reenter
  <2> QED BY <2>1, <2>3 DEF LostInv
<1> QED BY <1>3, <1>4

LEMMA AcquireLost ==
  ASSUME LostInv, NEW c \in Calls, Acquire(c)
  PROVE  LostInv'
<1>1. current \in [Processes -> Calls \cup {NoCall}] /\ lease \in Calls \cup {NoCall}
  BY DEF LostInv, Types
<1>2. CASE Create(c)
  BY <1>1, <1>2, MovesLost DEF Create, Acquiring
<1>3. CASE Inspect(c)
  BY <1>1, <1>3, MovesLost DEF Inspect, Acquiring
<1>4. CASE CheckSlot(c)
  BY <1>1, <1>4, MovesLost DEF CheckSlot, Retry, Acquiring
<1>5. CASE Move(c)
  BY <1>1, <1>5, MovesLost DEF Move, Retry, Acquiring
<1>6. CASE Recreate(c)
  BY <1>1, <1>6, MovesLost DEF Recreate, Retry, Acquiring
<1> QED BY <1>2, <1>3, <1>4, <1>5, <1>6, FillLost, ReenterLost DEF Acquire

LEMMA StepLost == LostInv /\ [Next]_vars => LostInv'
<1> SUFFICES ASSUME LostInv, [Next]_vars PROVE LostInv'
  OBVIOUS
<1>1. /\ current \in [Processes -> Calls \cup {NoCall}] /\ lease \in Calls \cup {NoCall}
      /\ alive \in [Processes -> BOOLEAN] /\ lost \in [Calls -> BOOLEAN]
  BY DEF LostInv, Types
<1>2. ASSUME NEW c \in Calls, Call(c) PROVE LostInv'
  BY <1>1, <1>2, MovesLost DEF Call, Acquiring
<1>3. ASSUME NEW c \in Calls, Acquire(c) PROVE LostInv'
  BY <1>3, AcquireLost
<1>4. ASSUME NEW c \in Calls, Heartbeat(c) PROVE LostInv'
  BY <1>1, <1>4, StaysLost DEF Heartbeat
<1>5. ASSUME NEW c \in Calls, Patch(c) PROVE LostInv'
  BY <1>1, <1>5, StaysLost DEF Patch
<1>6. ASSUME NEW c \in Calls, Release(c) PROVE LostInv'
  <2>1. /\ current' \in [Processes -> Calls \cup {NoCall}]
        /\ \A p \in Processes : current'[p] \in {current[p], NoCall}
    BY <1>1, <1>6 DEF Release
  <2>2. \E to \in {"releasing", "done"} : pc' = [pc EXCEPT ![c] = to]
    BY <1>6 DEF Release
  <2> QED BY <1>1, <1>6, <2>1, <2>2, MovesLost DEF Release, Acquiring
<1>7. ASSUME NEW c \in Calls, Expire(c) PROVE LostInv'
  BY <1>1, <1>7, MovesLost DEF Expire, Acquiring
<1>8. ASSUME NEW p \in Processes, Crash(p) PROVE LostInv'
  BY <1>1, <1>8, StaysLost DEF Crash
<1>9. CASE Tick \/ UNCHANGED vars
  BY <1>1, <1>9, StaysLost DEF Tick, vars
<1> QED BY <1>2, <1>3, <1>4, <1>5, <1>6, <1>7, <1>8, <1>9 DEF Next

LEMMA AlwaysLost == Spec => []LostInv
  BY InitLost, StepLost, PTL DEF Spec

-----------------------------------------------------------------------------
(* No step makes a lost handle prove itself.                               *)

\* What a step leaves as it is: a handle in use, its session, a loss and a
\* process that has ended; and a written file does not come to the lease path.
Kept(c) ==
    /\ handle'[c] = handle[c]
    /\ session'[handle[c]] = session[handle[c]]
    /\ lost[handle[c]] => lost'[handle[c]]
    /\ Runs(c)' => Runs(c)
    /\ lease' = session[handle[c]] => lease = lease'

LEMMA HeldIsKept ==
  ASSUME LostInv, [Next]_vars, NEW c \in Calls, pc[c] = "held"
  PROVE  Kept(c)
<1> USE CallsAssumption, ProcType
<1>1. Made(handle[c]) /\ handle[c] \in Calls
  BY DEF LostInv, SessionsMade, Made
<1>2. \A d \in Calls : pc[d] \in Acquiring \cup {"idle"} =>
                          d /= c /\ d /= handle[c] /\ d /= session[handle[c]]
  BY <1>1 DEF LostInv, FilesOnce, Made, Acquiring
<1>3. session[handle[c]] /= NoCall
  BY <1>1 DEF Made
<1>4. ASSUME NEW d \in Calls, Fill(d) \/ Reenter(d) PROVE Kept(c)
  <2>1. /\ d /= c /\ d /= handle[c]
        /\ UNCHANGED <<lost, alive, lease>>
        /\ session' = session \/ \E f : session' = [session EXCEPT ![d] = f]
        /\ \E s : handle' = [handle EXCEPT ![d] = s]
    BY <1>2, <1>4 DEF Fill, Reenter, Acquiring
  <2> QED BY <1>1, <2>1 DEF Kept, Runs, ProcOf, LostInv, Types
<1>5. ASSUME NEW d \in Calls, Create(d) \/ Move(d) \/ Recreate(d) PROVE Kept(c)
  <2>1. /\ d /= session[handle[c]]
        /\ UNCHANGED <<handle, session, lost, alive>>
        /\ lease' \in {lease, d, NoCall}
    BY <1>2, <1>5 DEF Create, Move, Recreate, Acquiring
  <2> QED BY <1>3, <2>1 DEF Kept, Runs, ProcOf
<1>6. ASSUME NEW d \in Calls,
             Call(d) \/ Inspect(d) \/ CheckSlot(d) \/ Patch(d) \/ Release(d) \/ Expire(d)
      PROVE Kept(c)
  BY <1>6 DEF Kept, Runs, ProcOf, Call, Inspect, CheckSlot, Patch, Release, Expire
<1>7. ASSUME NEW d \in Calls, Heartbeat(d) PROVE Kept(c)
  BY <1>1, <1>7 DEF Kept, Runs, ProcOf, Heartbeat, LostInv, Types
<1>8. ASSUME NEW p \in Processes, Crash(p) PROVE Kept(c)
  <2>1. /\ alive' = [alive EXCEPT ![p] = FALSE] /\ alive \in [Processes -> BOOLEAN]
        /\ UNCHANGED <<lease, handle, session, lost>>
    BY <1>8 DEF Crash, LostInv, Types
  <2> QED BY <2>1 DEF Kept, Runs
<1>9. CASE Tick \/ UNCHANGED vars
  BY <1>9 DEF Kept, Runs, ProcOf, Tick, vars
<1> QED BY <1>4, <1>5, <1>6, <1>7, <1>8, <1>9 DEF Next, Acquire

\* A handle that could not prove its lease never can again, whatever any window
\* acquires, renews, releases or takes over later (assertHeld()).
THEOREM LostStaysLostHolds == Spec => LostStaysLost
<1>1. LostInv /\ LostInv' /\ [Next]_vars =>
         [\A c \in Calls : pc[c] = "held" /\ AssertHeld(c)' => AssertHeld(c)]_vars
  <2> SUFFICES ASSUME LostInv, [Next]_vars, NEW c \in Calls, pc[c] = "held", AssertHeld(c)'
               PROVE  AssertHeld(c)
    OBVIOUS
  <2>1. Kept(c) /\ Made(handle[c])
    BY HeldIsKept DEF LostInv, SessionsMade
  <2>2. lease' = session[handle[c]] /\ ~lost'[handle[c]] /\ Runs(c)'
    BY <2>1 DEF AssertHeld, Owns, Kept
  <2>3. lease = session[handle[c]] /\ ~lost[handle[c]] /\ Runs(c)
    BY <2>1, <2>2 DEF Kept
  <2>4. lease /= NoCall /\ written[lease]
    BY <2>1, <2>3, CallsAssumption DEF Made
  <2> QED BY <2>3, <2>4 DEF AssertHeld, Owns
<1> QED BY <1>1, AlwaysLost, PTL DEF Spec, LostStaysLost

-----------------------------------------------------------------------------
(***************************************************************************)
(* Counts, files and windows.  A release ends the record of the file it    *)
(* has opened some time later: the invariant says that its session has no  *)
(* handle by then and gets none, since the count of a session is the       *)
(* number of its handles and only a session in use is registered.  And a   *)
(* heartbeat opens the file of its own session only, which is its          *)
(* window's.                                                               *)
(***************************************************************************)
Numbers ==
    /\ clock \in Nat
    /\ expiry \in [Calls -> Nat]
    /\ stamp \in [Calls -> Nat]
    /\ refs \in [Calls -> Int]
    /\ patching \in [Calls -> Calls \cup {NoCall}]
    /\ expiring \in [Calls -> Calls \cup {NoCall}]
    /\ found \in [Calls -> Calls \cup {NoCall}]
    /\ \A c \in Calls : stamp[c] <= clock
    /\ lease /= NoCall => pc[lease] \in {"fill", "held", "releasing", "done"}

LEMMA NumbersKept ==
  ASSUME LostInv, Numbers, [Next]_vars
  PROVE  Numbers'
<1> USE CallsAssumption, NumbersAssumption
<1> DEFINE States == Acquiring \cup {"idle", "held", "releasing", "done", "refused"}
<1>1. pc \in [Calls -> States] /\ lease \in Calls \cup {NoCall}
  BY DEF LostInv, Types
<1>2. ASSUME NEW c \in Calls, Create(c) \/ Recreate(c) PROVE Numbers'
  BY <1>1, <1>2 DEF Numbers, Create, Recreate, Retry, Acquiring
<1>3. ASSUME NEW c \in Calls, Call(c) \/ CheckSlot(c) \/ Inspect(c) \/ Move(c) PROVE Numbers'
  BY <1>1, <1>3 DEF Numbers, Call, CheckSlot, Inspect, Move, Retry, Acquiring
<1>4. ASSUME NEW c \in Calls, Fill(c) PROVE Numbers'
  BY <1>1, <1>4 DEF Numbers, Fill
<1>5. ASSUME NEW c \in Calls, Reenter(c) PROVE Numbers'
  <2>1. refs' \in [Calls -> Int]
    BY <1>5 DEF Numbers, Reenter
  <2>2. UNCHANGED <<clock, lease, expiry, stamp, patching, expiring, found>>
    BY <1>5 DEF Reenter
  <2>3. lease /= NoCall => pc'[lease] \in {"fill", "held", "releasing", "done"}
    BY <1>1, <1>5 DEF Numbers, Reenter
  <2> QED BY <2>1, <2>2, <2>3 DEF Numbers
<1>6. ASSUME NEW c \in Calls, Heartbeat(c) \/ Patch(c) PROVE Numbers'
  BY <1>1, <1>6 DEF Numbers, Heartbeat, Patch
<1>7. ASSUME NEW c \in Calls, Release(c) PROVE Numbers'
  <2>1. handle[c] \in Calls
    BY <1>7 DEF LostInv, SessionsMade, Made, Release
  <2>4. refs' \in [Calls -> Int]
    BY <1>7, <2>1 DEF Numbers, Release
  <2>5. expiring' \in [Calls -> Calls \cup {NoCall}]
    <3>1. \E f \in {lease, NoCall} : expiring' = [expiring EXCEPT ![c] = f]
      BY <1>7 DEF Release
    <3> QED BY <1>1, <3>1 DEF Numbers
  <2>2. lease /= NoCall => pc'[lease] \in {"fill", "held", "releasing", "done"}
    BY <1>1, <1>7 DEF Numbers, Release
  <2>3. UNCHANGED <<clock, lease, expiry, stamp, patching, found>>
    BY <1>7 DEF Release
  <2> QED BY <2>2, <2>3, <2>4, <2>5 DEF Numbers
<1>8. ASSUME NEW c \in Calls, Expire(c) PROVE Numbers'
  BY <1>1, <1>8 DEF Numbers, Expire
<1>9. CASE Tick \/ UNCHANGED vars \/ \E p \in Processes : Crash(p)
  BY <1>1, <1>9 DEF Numbers, Tick, Crash, vars
<1> QED BY <1>2, <1>3, <1>4, <1>5, <1>6, <1>7, <1>8, <1>9 DEF Next, Acquire

Handles(s) == {c \in Calls : pc[c] = "held" /\ handle[c] = s}

HandlesCounted == \A s \in Calls : IsFiniteSet(Handles(s)) /\ refs[s] = Cardinality(Handles(s))

Over(f) == f \in Calls /\ pc[f] \in {"held", "releasing", "done"} /\ refs[f] = 0

OwnFiles ==
    /\ \A f \in Calls : expiry[f] <= clock + Ttl
    /\ \A c \in Calls : session[c] /= NoCall => WindowOf[session[c]] = WindowOf[c]
    /\ \A c \in Calls : patching[c] /= NoCall => WindowOf[patching[c]] = WindowOf[c]
    /\ \A p \in Processes : current[p] /= NoCall => refs[current[p]] > 0
    /\ \A c \in Calls : pc[c] = "held" => WindowOf[handle[c]] = WindowOf[c]
    /\ \A c \in Calls : pc[c] = "releasing" => Over(expiring[c]) /\ WindowOf[expiring[c]] = WindowOf[c]

Bounded ==
    /\ clock \in 0..MaxClock
    /\ tries \in [Calls -> 0..MaxTries]
    /\ slot \in Calls \cup {NoCall}
    /\ \A c \in Calls : pc[c] \in Acquiring \cup {"idle"} => tries[c] < MaxTries

OwnInv == LostInv /\ Numbers /\ HandlesCounted /\ OwnFiles /\ Bounded

LEMMA InitOwn == Init => OwnInv
<1> SUFFICES ASSUME Init PROVE OwnInv
  OBVIOUS
<1>1. \A s : Handles(s) = {}
  BY DEF Init, Handles
<1>2. HandlesCounted
  BY <1>1, FS_EmptySet DEF Init, HandlesCounted
<1>3. OwnFiles /\ Bounded
  BY NumbersAssumption DEF Init, OwnFiles, Bounded
<1>4. Numbers
  BY DEF Init, Numbers
<1> QED BY <1>2, <1>3, <1>4, InitLost DEF OwnInv

\* A session with an open handle is a call's that has acquired.
LEMMA CountTells ==
  ASSUME LostInv, HandlesCounted, NEW s \in Calls
  PROVE  /\ refs[s] \in Nat
         /\ refs[s] > 0 => Made(s)
         /\ \A c \in Handles(s) : refs[s] > 0
         /\ refs[s] = 1 => \A c, d \in Handles(s) : c = d
<1>1. IsFiniteSet(Handles(s)) /\ refs[s] = Cardinality(Handles(s))
  BY DEF HandlesCounted
<1>2. refs[s] \in Nat /\ (refs[s] = 0 <=> Handles(s) = {})
  BY <1>1, FS_CardinalityType, FS_EmptySet
<1>3. ASSUME NEW c \in Handles(s) PROVE Made(s)
  BY DEF Handles, LostInv, SessionsMade
<1>4. ASSUME refs[s] = 1, NEW c \in Handles(s), NEW d \in Handles(s) PROVE c = d
  <2>0. /\ IsFiniteSet(Handles(s) \ {c})
        /\ Cardinality(Handles(s) \ {c}) = Cardinality(Handles(s)) - 1
    BY <1>1, <1>4, FS_RemoveElement
  <2>1. IsFiniteSet(Handles(s) \ {c}) /\ Cardinality(Handles(s) \ {c}) = 0
    BY <1>1, <1>4, <2>0
  <2>2. Handles(s) \ {c} = {}
    BY <2>1, FS_EmptySet
  <2> QED BY <2>2
<1> QED BY <1>2, <1>3, <1>4

\* A call that acquires takes a handle of session s.
LEMMA HandleTaken ==
  ASSUME LostInv, HandlesCounted, NEW c \in Calls, NEW s \in Calls, pc[c] \in Acquiring, refs \in [Calls -> Int],
         pc' = [pc EXCEPT ![c] = "held"], handle' = [handle EXCEPT ![c] = s],
         refs' = [refs EXCEPT ![s] = @ + 1] \/ (s = c /\ refs' = [refs EXCEPT ![c] = 1])
  PROVE  HandlesCounted' /\ refs' = [refs EXCEPT ![s] = @ + 1]
<1>1. Handles(c) = {}
  BY DEF Handles, LostInv, SessionsMade, Made, Acquiring
<1>2. s = c => refs[s] = 0
  BY <1>1, FS_EmptySet DEF HandlesCounted
<1>3. refs' = [refs EXCEPT ![s] = @ + 1]
  BY <1>2
<1>4. \A q \in Calls : Handles(q)' = IF q = s THEN Handles(q) \cup {c} ELSE Handles(q)
  BY DEF Handles, LostInv, Types, Acquiring
<1>5. c \notin Handles(s)
  BY DEF Handles, Acquiring
<1>6. IsFiniteSet(Handles(s)) /\ refs[s] = Cardinality(Handles(s))
  BY DEF HandlesCounted
<1>7. IsFiniteSet(Handles(s) \cup {c}) /\ Cardinality(Handles(s) \cup {c}) = refs[s] + 1
  BY <1>5, <1>6, FS_AddElement
<1>8. HandlesCounted'
  <2> SUFFICES ASSUME NEW q \in Calls PROVE IsFiniteSet(Handles(q)') /\ refs'[q] = Cardinality(Handles(q)')
    BY DEF HandlesCounted
  <2>1. CASE q = s
    BY <1>3, <1>4, <1>7, <2>1
  <2>2. CASE q /= s
    BY <1>3, <1>4, <2>2 DEF HandlesCounted
  <2> QED BY <2>1, <2>2
<1> QED BY <1>3, <1>8

\* A call gives its handle back.
LEMMA HandleGiven ==
  ASSUME LostInv, HandlesCounted, NEW c \in Calls, pc[c] = "held", refs \in [Calls -> Int],
         NEW to \in {"releasing", "done"}, pc' = [pc EXCEPT ![c] = to], handle' = handle,
         refs' = [refs EXCEPT ![handle[c]] = @ - 1]
  PROVE  HandlesCounted'
<1> DEFINE s == handle[c]
<1>1. s \in Calls /\ c \in Handles(s)
  BY DEF LostInv, SessionsMade, Made, Handles
<1>2. \A q \in Calls : Handles(q)' = IF q = s THEN Handles(q) \ {c} ELSE Handles(q)
  BY DEF Handles, LostInv, Types
<1>3. IsFiniteSet(Handles(s)) /\ refs[s] = Cardinality(Handles(s))
  BY <1>1 DEF HandlesCounted
<1>4. IsFiniteSet(Handles(s) \ {c}) /\ Cardinality(Handles(s) \ {c}) = refs[s] - 1
  BY <1>1, <1>3, FS_RemoveElement
<1> SUFFICES ASSUME NEW q \in Calls PROVE IsFiniteSet(Handles(q)') /\ refs'[q] = Cardinality(Handles(q)')
  BY DEF HandlesCounted
<1>5. CASE q = s
  BY <1>1, <1>2, <1>4, <1>5
<1>6. CASE q /= s
  BY <1>1, <1>2, <1>6 DEF HandlesCounted
<1> QED BY <1>5, <1>6

LEMMA CountsKept ==
  ASSUME LostInv, Numbers, HandlesCounted, [Next]_vars
  PROVE  HandlesCounted'
<1> USE CallsAssumption, ProcType
<1>r. refs \in [Calls -> Int] /\ pc \in [Calls -> Acquiring \cup {"idle", "held", "releasing", "done", "refused"}]
  BY DEF Numbers, LostInv, Types
<1> DEFINE Same == refs' = refs /\ handle' = handle /\ \A c \in Calls : pc'[c] = "held" <=> pc[c] = "held"
<1>1. ASSUME Same PROVE HandlesCounted'
  <2>1. \A s \in Calls : Handles(s)' = Handles(s)
    BY <1>1 DEF Handles
  <2> QED BY <1>1, <2>1 DEF HandlesCounted
<1>2. ASSUME NEW c \in Calls,
             Call(c) \/ Create(c) \/ Inspect(c) \/ CheckSlot(c) \/ Move(c) \/ Recreate(c)
                \/ Heartbeat(c) \/ Patch(c) \/ Expire(c)
      PROVE  Same
  BY <1>r, <1>2 DEF Call, Create, Inspect, CheckSlot, Move, Recreate, Retry, Heartbeat, Patch, Expire
<1>3. ASSUME NEW c \in Calls, Fill(c) PROVE HandlesCounted'
  BY <1>r, <1>3, HandleTaken DEF Fill, Acquiring
<1>4. ASSUME NEW c \in Calls, Reenter(c) PROVE HandlesCounted'
  <2>1. PICK s \in Calls : /\ handle' = [handle EXCEPT ![c] = s]
                           /\ refs' = [refs EXCEPT ![s] = @ + 1] \/ (s = c /\ refs' = [refs EXCEPT ![c] = 1])
    BY <1>4 DEF Reenter, OwnSession, LostInv, Types
  <2> QED BY <1>r, <1>4, <2>1, HandleTaken DEF Reenter, Acquiring
<1>5. ASSUME NEW c \in Calls, Release(c) PROVE HandlesCounted'
  <2>1. PICK to \in {"releasing", "done"} : pc' = [pc EXCEPT ![c] = to]
    BY <1>5 DEF Release
  <2> QED BY <1>r, <1>5, <2>1, HandleGiven DEF Release
<1>6. ASSUME NEW p \in Processes, Crash(p) PROVE Same
  BY <1>6 DEF Crash
<1>7. CASE Tick \/ UNCHANGED vars
  BY <1>1, <1>7 DEF Tick, vars
<1> QED BY <1>1, <1>2, <1>3, <1>4, <1>5, <1>6, <1>7 DEF Next, Acquire

LEMMA BoundedKept ==
  ASSUME LostInv, Numbers, Bounded, [Next]_vars
  PROVE  Bounded'
<1> USE NumbersAssumption
<1>r. pc \in [Calls -> Acquiring \cup {"idle", "held", "releasing", "done", "refused"}]
  BY DEF LostInv, Types
<1>1. ASSUME NEW c \in Calls, CheckSlot(c) \/ Move(c) \/ Recreate(c) PROVE Bounded'
  <2>0. slot' \in Calls \cup {NoCall}
    BY <1>1 DEF CheckSlot, Move, Recreate, Bounded, LostInv, Types
  <2>1. clock' = clock /\ ((tries' = tries /\ pc'[c] \in Acquiring) \/ Retry(c))
        /\ pc[c] \in Acquiring /\ \A d \in Calls \ {c} : pc'[d] = pc[d]
    BY <1>r, <1>1 DEF CheckSlot, Move, Recreate, Retry, Acquiring
  <2>2. CASE tries' = tries
    BY <2>0, <2>1, <2>2, <1>r DEF Bounded
  <2>3. CASE Retry(c)
    BY <2>0, <2>1, <2>3, <1>r DEF Bounded, Retry, Acquiring
  <2> QED BY <2>1, <2>2, <2>3
<1> DEFINE Same == clock' \in 0..MaxClock /\ tries' = tries /\ slot' = slot
                   /\ \A c \in Calls : pc'[c] \in Acquiring \cup {"idle"} => pc[c] \in Acquiring \cup {"idle"}
<1>2. ASSUME Same PROVE Bounded'
  BY <1>2 DEF Bounded
<1>3. ASSUME NEW c \in Calls, Call(c) \/ Create(c) \/ Fill(c) \/ Reenter(c) \/ Inspect(c) PROVE Same
  BY <1>r, <1>3 DEF Bounded, Call, Create, Fill, Reenter, Inspect, Acquiring
<1>4. ASSUME NEW c \in Calls, Heartbeat(c) \/ Patch(c) \/ Release(c) \/ Expire(c) PROVE Same
  BY <1>r, <1>4 DEF Bounded, Heartbeat, Patch, Release, Expire, Acquiring
<1>5. CASE Tick \/ UNCHANGED vars \/ \E p \in Processes : Crash(p)
  BY <1>5 DEF Bounded, Tick, vars, Crash
<1> QED BY <1>1, <1>2, <1>3, <1>4, <1>5 DEF Next, Acquire

\* What a step must leave as it is for OwnFiles to last.
LEMMA FilesLast ==
  ASSUME LostInv, Numbers, OwnFiles, Numbers',
         \A f \in Calls : expiry'[f] <= clock' + Ttl,
         UNCHANGED <<session, current, refs, expiring, handle>>,
         \A c \in Calls : pc'[c] = "held" => pc[c] = "held",
         \A c \in Calls : patching'[c] /= NoCall => WindowOf[patching'[c]] = WindowOf[c],
         \A c \in Calls : pc'[c] = "releasing" => pc[c] = "releasing",
         \A c \in Calls : pc[c] \in {"held", "releasing", "done"} => pc'[c] \in {"held", "releasing", "done"}
  PROVE  OwnFiles'
  BY DEF OwnFiles, Over

LEMMA OwnFilesKept ==
  ASSUME OwnInv, [Next]_vars, Numbers', HandlesCounted', LostInv'
  PROVE  OwnFiles'
<1> USE CallsAssumption, NumbersAssumption, ProcType
<1>r. /\ pc \in [Calls -> Acquiring \cup {"idle", "held", "releasing", "done", "refused"}]
      /\ clock \in Nat /\ expiry \in [Calls -> Nat] /\ \A c \in Calls : stamp[c] \in Nat /\ stamp[c] <= clock
      /\ patching \in [Calls -> Calls \cup {NoCall}] /\ lease \in Calls \cup {NoCall}
      /\ current \in [Processes -> Calls \cup {NoCall}] /\ session \in [Calls -> Calls \cup {NoCall}]
      /\ refs \in [Calls -> Int] /\ expiring \in [Calls -> Calls \cup {NoCall}]
  BY DEF OwnInv, Numbers, LostInv, Types
<1>o. OwnFiles /\ LostInv /\ Numbers /\ HandlesCounted
  BY DEF OwnInv
<1>1. ASSUME NEW c \in Calls, Create(c) \/ Recreate(c) PROVE OwnFiles'
  <2>1. \A f \in Calls : expiry'[f] <= clock' + Ttl
    BY <1>r, <1>o, <1>1 DEF OwnFiles, Create, Recreate
  <2>2. /\ UNCHANGED <<session, current, refs, expiring, handle, patching>>
        /\ \A d \in Calls : /\ pc'[d] = "releasing" => pc[d] = "releasing"
                            /\ pc'[d] = "held" => pc[d] = "held"
                            /\ pc[d] \in {"held", "releasing", "done"} => pc'[d] \in {"held", "releasing", "done"}
    BY <1>r, <1>1 DEF Create, Recreate, Retry, Acquiring
  <2> QED BY <1>o, <2>1, <2>2, FilesLast DEF OwnFiles
<1>2. ASSUME NEW c \in Calls, Call(c) \/ Inspect(c) \/ CheckSlot(c) \/ Move(c) PROVE OwnFiles'
  <2>1. /\ UNCHANGED <<clock, expiry, session, current, refs, expiring, handle, patching>>
        /\ \A d \in Calls : /\ pc'[d] = "releasing" => pc[d] = "releasing"
                            /\ pc'[d] = "held" => pc[d] = "held"
                            /\ pc[d] \in {"held", "releasing", "done"} => pc'[d] \in {"held", "releasing", "done"}
    BY <1>r, <1>2 DEF Call, Inspect, CheckSlot, Move, Retry, Acquiring
  <2> QED BY <1>o, <2>1, FilesLast DEF OwnFiles
<1>3. ASSUME NEW c \in Calls, NEW s \in Calls, pc[c] \in Acquiring, \A f \in Calls : expiry'[f] <= clock' + Ttl,
             pc' = [pc EXCEPT ![c] = "held"], refs' = [refs EXCEPT ![s] = @ + 1], UNCHANGED <<clock, patching, expiring>>,
             s = c \/ (refs[s] > 0 /\ s /= c),
             handle' = [handle EXCEPT ![c] = s], WindowOf[s] = WindowOf[c],
             \A p \in Processes : current'[p] \in {current[p], s},
             \A d \in Calls : session'[d] /= NoCall => WindowOf[session'[d]] = WindowOf[d]
      PROVE  OwnFiles'
  <2>1. \A q \in Calls : refs[q] \in Nat /\ refs'[q] \in Nat
    <3>1. \A q \in Calls : refs[q] \in Nat
      BY <1>o, CountTells
    <3> QED BY <1>r, <1>3, <3>1
  <2>2. \A p \in Processes : current'[p] /= NoCall => refs'[current'[p]] > 0
    BY <1>r, <1>o, <1>3, <2>1 DEF OwnFiles
  <2>3. ASSUME NEW d \in Calls, pc'[d] = "releasing"
        PROVE  Over(expiring[d])' /\ WindowOf[expiring'[d]] = WindowOf[d]
    <3>1. Over(expiring[d]) /\ WindowOf[expiring[d]] = WindowOf[d]
      BY <1>r, <1>o, <1>3, <2>3 DEF OwnFiles
    <3>2. expiring[d] /= c /\ expiring[d] /= s
      BY <1>3, <3>1 DEF Over, Acquiring
    <3> QED BY <1>r, <1>3, <3>1, <3>2 DEF Over
  <2>4. \A d \in Calls : pc'[d] = "held" => WindowOf[handle'[d]] = WindowOf[d]
    BY <1>r, <1>o, <1>3 DEF OwnFiles, LostInv, Types
  <2> QED BY <1>o, <1>3, <2>2, <2>3, <2>4 DEF OwnFiles
<1>4. ASSUME NEW c \in Calls, Fill(c) PROVE OwnFiles'
  <2>1. refs' = [refs EXCEPT ![c] = @ + 1]
    BY <1>r, <1>o, <1>4, HandleTaken DEF Fill, Acquiring
  <2>2. \A f \in Calls : expiry'[f] <= clock' + Ttl
    BY <1>r, <1>o, <1>4 DEF OwnFiles, Fill
  <2>3. \A d \in Calls : session'[d] /= NoCall => WindowOf[session'[d]] = WindowOf[d]
    BY <1>r, <1>o, <1>4 DEF OwnFiles, Fill
  <2>4. \A p \in Processes : current'[p] \in {current[p], c}
    BY <1>r, <1>4 DEF Fill
  <2>5. /\ pc[c] \in Acquiring /\ pc' = [pc EXCEPT ![c] = "held"] /\ UNCHANGED <<clock, patching, expiring>>
        /\ handle' = [handle EXCEPT ![c] = c]
    BY <1>4 DEF Fill, Acquiring
  <2> QED BY <1>3, <2>1, <2>2, <2>3, <2>4, <2>5
<1>5. ASSUME NEW c \in Calls, Reenter(c) PROVE OwnFiles'
  <2>0. /\ pc[c] \in Acquiring /\ pc' = [pc EXCEPT ![c] = "held"] /\ UNCHANGED <<clock, patching, expiring, expiry>>
        /\ lease \in Calls /\ WindowOf[lease] = WindowOf[c]
    BY <1>r, <1>5 DEF Reenter, Acquiring, CanJoin, SameWindow
  <2>1. \A f \in Calls : expiry'[f] <= clock' + Ttl
    BY <1>o, <2>0 DEF OwnFiles
  <2>2. CASE OwnSession(c) /= NoCall
    <3> DEFINE s == OwnSession(c)
    <3>1. /\ s \in Calls /\ refs[s] > 0 /\ UNCHANGED <<session, current>> /\ refs' = [refs EXCEPT ![s] = @ + 1]
          /\ handle' = [handle EXCEPT ![c] = s] /\ WindowOf[s] = WindowOf[c]
      BY <1>r, <1>o, <1>5, <2>2 DEF OwnSession, OwnFiles, Reenter
    <3>2. s /= c
      BY <1>o, <2>0, <3>1, CountTells DEF Made, Acquiring
    <3>3. \A d \in Calls : session'[d] /= NoCall => WindowOf[session'[d]] = WindowOf[d]
      BY <1>o, <3>1 DEF OwnFiles
    <3> HIDE DEF s
    <3> QED BY <1>3, <2>0, <2>1, <3>1, <3>2, <3>3
  <2>3. CASE OwnSession(c) = NoCall
    <3>1. /\ session' = [session EXCEPT ![c] = lease] /\ current' = [current EXCEPT ![ProcOf(c)] = c]
          /\ refs' = [refs EXCEPT ![c] = 1] /\ handle' = [handle EXCEPT ![c] = c]
      BY <1>5, <2>3 DEF Reenter
    <3>2. refs' = [refs EXCEPT ![c] = @ + 1]
      BY <1>r, <1>o, <2>0, <3>1, HandleTaken
    <3>3. \A d \in Calls : session'[d] /= NoCall => WindowOf[session'[d]] = WindowOf[d]
      BY <1>r, <1>o, <2>0, <3>1 DEF OwnFiles
    <3>4. \A p \in Processes : current'[p] \in {current[p], c}
      BY <1>r, <3>1
    <3>5. /\ pc[c] \in Acquiring /\ pc' = [pc EXCEPT ![c] = "held"] /\ UNCHANGED <<clock, patching, expiring>>
          /\ handle' = [handle EXCEPT ![c] = c]
      BY <2>0, <3>1
    <3> QED BY <1>3, <2>1, <3>2, <3>3, <3>4, <3>5
  <2> QED BY <2>2, <2>3
<1>6. ASSUME NEW c \in Calls, Heartbeat(c) PROVE OwnFiles'
  <2>1. \A d \in Calls : patching'[d] /= NoCall => WindowOf[patching'[d]] = WindowOf[d]
    <3>1. patching' = patching \/ (patching' = [patching EXCEPT ![c] = session[c]] /\ session[c] /= NoCall)
      BY <1>6 DEF Heartbeat, Owns
    <3> QED BY <1>r, <1>o, <3>1 DEF OwnFiles
  <2>2. UNCHANGED <<clock, expiry, pc, session, current, refs, expiring, handle>>
    BY <1>6 DEF Heartbeat
  <2> QED BY <1>o, <2>1, <2>2, FilesLast DEF OwnFiles
<1>7. ASSUME NEW c \in Calls, Patch(c) PROVE OwnFiles'
  <2>1. \A d \in Calls : patching'[d] /= NoCall => WindowOf[patching'[d]] = WindowOf[d]
    BY <1>r, <1>o, <1>7 DEF OwnFiles, Patch
  <2>2. \A f \in Calls : expiry'[f] <= clock' + Ttl
    BY <1>r, <1>o, <1>7 DEF OwnFiles, Patch
  <2>3. UNCHANGED <<pc, session, current, refs, expiring, handle>>
    BY <1>7 DEF Patch
  <2> QED BY <1>o, <2>1, <2>2, <2>3, FilesLast
<1>8. ASSUME NEW c \in Calls, Expire(c) PROVE OwnFiles'
  <2>1. \A f \in Calls : expiry'[f] <= clock' + Ttl
    BY <1>r, <1>o, <1>8 DEF OwnFiles, Expire
  <2>2. /\ UNCHANGED <<session, current, refs, handle, patching>> /\ expiring' = [expiring EXCEPT ![c] = NoCall]
        /\ pc[c] = "releasing" /\ pc' = [pc EXCEPT ![c] = "done"]
    BY <1>8 DEF Expire
  <2>3. ASSUME NEW d \in Calls, pc'[d] = "releasing"
        PROVE  Over(expiring[d])' /\ WindowOf[expiring'[d]] = WindowOf[d]
    BY <1>r, <1>o, <2>2, <2>3 DEF OwnFiles, Over
  <2>4. \A d \in Calls : pc'[d] = "held" => WindowOf[handle'[d]] = WindowOf[d]
    BY <1>r, <1>o, <2>2 DEF OwnFiles
  <2> QED BY <1>o, <2>1, <2>2, <2>3, <2>4 DEF OwnFiles
<1>9. ASSUME NEW c \in Calls, Release(c) PROVE OwnFiles'
  <2> DEFINE s == handle[c]
             opens == LastHandle(s) /\ session[s] = s /\ Owns(s)
  <2>1. /\ s \in Calls /\ pc[c] = "held" /\ Made(s) /\ c \in Handles(s) /\ refs[s] > 0 /\ refs[s] \in Nat
        /\ refs' = [refs EXCEPT ![s] = @ - 1]
        /\ current' = [p \in Processes |-> IF LastHandle(s) /\ current[p] = s THEN NoCall ELSE current[p]]
        /\ expiring' = [expiring EXCEPT ![c] = IF opens THEN lease ELSE NoCall]
        /\ pc' = [pc EXCEPT ![c] = IF opens THEN "releasing" ELSE "done"]
        /\ UNCHANGED <<clock, expiry, session, handle, patching>>
    <3>1. Made(s) /\ pc[c] = "held" /\ s \in Calls /\ c \in Handles(s)
      BY <1>o, <1>9 DEF Release, LostInv, SessionsMade, Made, Handles
    <3>2. refs[s] > 0 /\ refs[s] \in Nat
      BY <1>o, <3>1, CountTells
    <3> QED BY <1>9, <3>1, <3>2 DEF Release
  <2> HIDE DEF s
  <2>2. \A p \in Processes : current'[p] /= NoCall => refs'[current'[p]] > 0
    BY <1>r, <1>o, <2>1 DEF OwnFiles, LastHandle
  <2>4. \A d \in Calls : pc'[d] = "held" => WindowOf[handle'[d]] = WindowOf[d]
    BY <1>r, <1>o, <2>1 DEF OwnFiles
  <2>3. ASSUME NEW d \in Calls, pc'[d] = "releasing"
        PROVE  Over(expiring[d])' /\ WindowOf[expiring'[d]] = WindowOf[d]
    <3>1. CASE d = c
      <4>1. opens
        BY <1>r, <2>1, <2>3, <3>1
      <4>2. expiring'[c] = s /\ refs'[s] = 0 /\ pc'[c] = "releasing"
        BY <1>r, <2>1, <4>1 DEF Owns, LastHandle
      <4>3. pc'[s] \in {"held", "releasing", "done"}
        BY <1>r, <2>1 DEF Made
      <4>4. WindowOf[s] = WindowOf[c]
        BY <1>o, <2>1 DEF OwnFiles, s
      <4> QED BY <2>1, <3>1, <4>2, <4>3, <4>4 DEF Over
    <3>2. CASE d /= c
      <4>1. /\ Over(expiring[d]) /\ expiring'[d] = expiring[d]
            /\ WindowOf[expiring[d]] = WindowOf[d]
        BY <1>r, <1>o, <2>1, <2>3, <3>2 DEF OwnFiles
      <4>2. expiring[d] /= s
        BY <2>1, <4>1 DEF Over
      <4> QED BY <1>r, <2>1, <4>1, <4>2 DEF Over
    <3> QED BY <3>1, <3>2
  <2> QED BY <1>o, <2>1, <2>2, <2>3, <2>4 DEF OwnFiles
<1>10. CASE Tick \/ UNCHANGED vars \/ \E p \in Processes : Crash(p)
  <2>1. UNCHANGED <<expiry, pc, session, current, refs, expiring, handle, patching>> /\ clock' \in {clock, clock + 1}
    BY <1>10 DEF Tick, vars, Crash
  <2>2. \A f \in Calls : expiry'[f] <= clock' + Ttl
    BY <1>r, <1>o, <2>1 DEF OwnFiles
  <2> QED BY <1>o, <2>1, <2>2, FilesLast DEF OwnFiles
<1> QED BY <1>1, <1>2, <1>4, <1>5, <1>6, <1>7, <1>8, <1>9, <1>10 DEF Next, Acquire

LEMMA StepOwn == OwnInv /\ [Next]_vars => OwnInv'
<1> SUFFICES ASSUME OwnInv, [Next]_vars PROVE OwnInv'
  OBVIOUS
<1>1. LostInv' /\ Numbers' /\ HandlesCounted' /\ Bounded'
  BY StepLost, NumbersKept, CountsKept, BoundedKept DEF OwnInv
<1> QED BY <1>1, OwnFilesKept DEF OwnInv

LEMMA AlwaysOwn == Spec => []OwnInv
  BY InitOwn, StepOwn, PTL DEF Spec

\* The state has its types; the handles of a session are counted, never below
\* zero, and a call ends after its attempts.
THEOREM TypeCorrect == Spec => []TypeOK
<1>1. OwnInv => TypeOK
  <2> SUFFICES ASSUME OwnInv PROVE TypeOK
    OBVIOUS
  <2>1. LostInv /\ Numbers /\ HandlesCounted /\ Bounded
    BY DEF OwnInv
  <2>2. refs \in [Calls -> Nat]
    BY <2>1, CountTells DEF Numbers
  <2>3. stamp \in [Calls -> 0..MaxClock]
    BY <2>1, NumbersAssumption DEF Numbers, Bounded
  <2>4. /\ clock \in 0..MaxClock /\ tries \in [Calls -> 0..MaxTries] /\ expiry \in [Calls -> Nat]
        /\ patching \in [Calls -> Calls \cup {NoCall}] /\ expiring \in [Calls -> Calls \cup {NoCall}]
        /\ found \in [Calls -> Calls \cup {NoCall}]
    BY <2>1 DEF Numbers, Bounded
  <2>5. Types /\ slot \in Calls \cup {NoCall}
    BY <2>1 DEF LostInv, Bounded
  <2> QED BY <2>2, <2>3, <2>4, <2>5 DEF TypeOK, Types
<1> QED BY <1>1, AlwaysOwn, PTL

-----------------------------------------------------------------------------
(***************************************************************************)
(* One window at a time.  Whatever a running call writes or uses is the    *)
(* file at the lease path, its record is unexpired, and the session in use *)
(* is the one registered in its process, so that a window that re-enters   *)
(* joins the same file.  A takeover moves the file that it inspected (not  *)
(* swept), which is expired or of a process that has ended and stays so    *)
(* until it is renewed.  No record expires while it is written or used     *)
(* (not overran) or ends under a session that joined it (not undercut).    *)
(***************************************************************************)
\* No running call writes the file f or has a handle on its record.
Gone(f) ==
    /\ f \in Calls /\ pc[f] \in {"fill", "held", "releasing", "done"}
    /\ expiry[f] <= clock \/ ~Runs(f)

Sound(c) ==
    /\ Runs(c) /\ pc[c] = "fill" =>
          lease = c /\ stamp[c] + Ttl > clock /\ expiry[c] >= stamp[c] + Ttl
    /\ Runs(c) /\ pc[c] = "held" =>
          lease = session[handle[c]] /\ expiry[lease] > clock /\ current[ProcOf(c)] = handle[c]
    /\ pc[c] \in {"slot", "move"} /\ found[c] /= NoCall => Gone(found[c])

SingleInv == OwnInv /\ (Undisturbed => \A c \in Calls : Sound(c))

\* What holds while nothing has gone wrong.
Good == OwnInv /\ Undisturbed /\ \A c \in Calls : Sound(c)

LEMMA InitSingle == Init => SingleInv
<1> SUFFICES ASSUME Init PROVE SingleInv
  OBVIOUS
<1>1. \A c \in Calls : Sound(c)
  BY DEF Init, Sound
<1> QED BY <1>1, InitOwn DEF SingleInv

\* History is not forgotten.
LEMMA UndisturbedBefore ==
  ASSUME [Next]_vars, Undisturbed'
  PROVE  Undisturbed
<1> DEFINE Lasting == (swept => swept') /\ (overran => overran') /\ (undercut => undercut')
<1>1. ASSUME NEW c \in Calls, Move(c) PROVE Lasting
  <2>1. swept' = swept \/ swept' = (swept \/ lease /= found[c])
    BY <1>1, Zenon DEF Move
  <2>2. UNCHANGED <<overran, undercut>>
    BY <1>1 DEF Move
  <2>3. swept => swept'
    BY <2>1, Zenon
  <2> QED BY <2>2, <2>3
<1>2. ASSUME NEW c \in Calls, Recreate(c) PROVE Lasting
  <2>1. overran' = overran \/ overran' = (overran \/ stamp[c] + Ttl <= clock)
    BY <1>2, Zenon DEF Recreate
  <2>2. UNCHANGED <<swept, undercut>>
    BY <1>2 DEF Recreate
  <2>3. overran => overran'
    BY <2>1, Zenon
  <2> QED BY <2>2, <2>3
<1>3. ASSUME NEW c \in Calls, Expire(c) PROVE Lasting
  <2>1. undercut' = (undercut \/ JoinedLater(expiring[c]))
    BY <1>3, Zenon DEF Expire
  <2>2. undercut => undercut'
    BY <2>1, Zenon
  <2>3. UNCHANGED <<swept, overran>>
    BY <1>3 DEF Expire
  <2> QED BY <2>2, <2>3
<1>4. ASSUME Tick PROVE Lasting
  <2>1. overran' = (overran \/ \E c \in Calls : Overruns(c, clock + 1))
    BY <1>4, Zenon DEF Tick
  <2>2. overran => overran'
    BY <2>1, Zenon
  <2>3. UNCHANGED <<swept, undercut>>
    BY <1>4 DEF Tick
  <2> QED BY <2>2, <2>3
<1>5. ASSUME NEW c \in Calls,
             Call(c) \/ Create(c) \/ Fill(c) \/ Reenter(c) \/ Inspect(c) \/ CheckSlot(c)
                \/ Heartbeat(c) \/ Patch(c) \/ Release(c)
      PROVE  Lasting
  BY <1>5 DEF Call, Create, Fill, Reenter, Inspect, CheckSlot, Heartbeat, Patch, Release
<1>6. ASSUME NEW p \in Processes, Crash(p) PROVE Lasting
  BY <1>6 DEF Crash
<1>8. ASSUME UNCHANGED vars PROVE Lasting
  BY <1>8 DEF vars
<1> HIDE DEF Lasting
<1>7. Lasting
  BY <1>1, <1>2, <1>3, <1>4, <1>5, <1>6, <1>8 DEF Next, Acquire
<1> USE DEF Lasting
<1> QED BY <1>7 DEF Undisturbed

LEMMA GoodTypes ==
  ASSUME Good
  PROVE  /\ pc \in [Calls -> Acquiring \cup {"idle", "held", "releasing", "done", "refused"}]
         /\ alive \in [Processes -> BOOLEAN] /\ written \in [Calls -> BOOLEAN]
         /\ lease \in Calls \cup {NoCall} /\ handle \in [Calls -> Calls \cup {NoCall}]
         /\ session \in [Calls -> Calls \cup {NoCall}] /\ current \in [Processes -> Calls \cup {NoCall}]
         /\ clock \in Nat /\ Ttl \in Nat \ {0} /\ expiry \in [Calls -> Nat] /\ stamp \in [Calls -> Nat]
         /\ refs \in [Calls -> Int] /\ patching \in [Calls -> Calls \cup {NoCall}]
         /\ expiring \in [Calls -> Calls \cup {NoCall}] /\ found \in [Calls -> Calls \cup {NoCall}]
         /\ \A c \in Calls : stamp[c] <= clock
  BY NumbersAssumption DEF Good, OwnInv, LostInv, Types, Numbers

\* The process of a call runs on or ends, and does not come back.
LEMMA RunsBefore ==
  ASSUME LostInv, [Next]_vars, NEW f \in Calls
  PROVE  Runs(f)' => Runs(f)
<1>1. ASSUME NEW p \in Processes, Crash(p) PROVE Runs(f)' => Runs(f)
  BY <1>1, ProcType DEF Crash, Runs, LostInv, Types
<1>2. ASSUME alive' = alive PROVE Runs(f)' => Runs(f)
  BY <1>2 DEF Runs, ProcOf
<1>3. ASSUME NEW c \in Calls, Acquire(c) PROVE alive' = alive
  BY <1>3 DEF Acquire, Create, Fill, Reenter, Inspect, CheckSlot, Move, Recreate
<1>4. ASSUME NEW c \in Calls, Call(c) \/ Heartbeat(c) \/ Patch(c) \/ Release(c) \/ Expire(c)
      PROVE  alive' = alive
  BY <1>4 DEF Call, Heartbeat, Patch, Release, Expire
<1>5. Tick \/ UNCHANGED vars => alive' = alive
  BY DEF Tick, vars
<1> QED BY <1>1, <1>2, <1>3, <1>4, <1>5 DEF Next

\* A handle in use: its file is at the path, written and its window's.
LEMMA InUse ==
  ASSUME Good, NEW c \in Calls, Runs(c), pc[c] = "held"
  PROVE  /\ handle[c] \in Calls /\ c \in Handles(handle[c]) /\ refs[handle[c]] > 0
         /\ lease = session[handle[c]] /\ lease \in Calls /\ written[lease] /\ expiry[lease] > clock
         /\ pc[lease] \notin Acquiring \cup {"idle"}
         /\ WindowOf[handle[c]] = WindowOf[c] /\ WindowOf[lease] = WindowOf[c]
         /\ Runs(lease) /\ Runs(handle[c]) /\ current[ProcOf(c)] = handle[c]
<1> USE CallsAssumption
<1>1. Made(handle[c]) /\ handle[c] \in Calls /\ c \in Handles(handle[c])
  BY DEF Good, OwnInv, LostInv, SessionsMade, Made, Handles
<1>2. refs[handle[c]] > 0
  BY <1>1, CountTells DEF Good, OwnInv
<1>3. Sound(c)
  BY DEF Good
<1>4. lease = session[handle[c]] /\ expiry[lease] > clock /\ current[ProcOf(c)] = handle[c]
  BY <1>3 DEF Sound
<1>5. lease \in Calls /\ written[lease]
  BY <1>1, <1>4 DEF Made
<1>6. pc[lease] \notin Acquiring \cup {"idle"}
  BY <1>5 DEF Good, OwnInv, LostInv, FilesOnce
<1>7. WindowOf[handle[c]] = WindowOf[c] /\ WindowOf[lease] = WindowOf[c]
  BY <1>1, <1>4, <1>5 DEF Good, OwnInv, OwnFiles
<1>8. Runs(lease) /\ Runs(handle[c])
  BY <1>7 DEF Runs, ProcOf
<1> QED BY <1>1, <1>2, <1>4, <1>5, <1>6, <1>7, <1>8

\* A file whose record is expired, or whose process has ended, stays so unless
\* a heartbeat renews it.
LEMMA GoneStays ==
  ASSUME Good, [Next]_vars, NEW f \in Calls, Gone(f), \A s \in Calls : Patch(s) => patching[s] /= f
  PROVE  Gone(f)'
<1> USE CallsAssumption, GoodTypes
<1>1. Runs(f)' => Runs(f)
  BY RunsBefore DEF Good, OwnInv
<1>2. pc[f] \in {"fill", "held", "releasing", "done"} /\ (expiry[f] <= clock \/ ~Runs(f))
  BY DEF Gone
<1> DEFINE Ended == pc'[f] \in {"fill", "held", "releasing", "done"}
                    /\ ((expiry[f] <= clock => expiry'[f] <= clock') \/ ~Runs(f))
<1>3. ASSUME NEW c \in Calls, Create(c) \/ Recreate(c) PROVE Ended
  BY <1>2, <1>3 DEF Create, Recreate, Retry
<1>4. ASSUME NEW c \in Calls, Fill(c) PROVE Ended
  <2>1. CASE f = c
    <3>1. Runs(c) /\ pc[c] = "fill" /\ Sound(c)
      BY <1>4 DEF Fill, Good
    <3>2. expiry[c] > clock
      BY <3>1 DEF Sound
    <3> QED BY <1>2, <2>1, <3>1, <3>2
  <2>2. CASE f /= c
    BY <1>2, <1>4, <2>2 DEF Fill
  <2> QED BY <2>1, <2>2
<1>5. ASSUME NEW c \in Calls, Call(c) \/ Reenter(c) \/ Inspect(c) \/ CheckSlot(c) \/ Move(c) PROVE Ended
  BY <1>2, <1>5 DEF Call, Reenter, Inspect, CheckSlot, Move, Retry
<1>6. ASSUME NEW c \in Calls, Heartbeat(c) \/ Release(c) PROVE Ended
  BY <1>2, <1>6 DEF Heartbeat, Release
<1>7. ASSUME NEW c \in Calls, Patch(c) PROVE Ended
  BY <1>2, <1>7 DEF Patch
<1>8. ASSUME NEW c \in Calls, Expire(c) PROVE Ended
  BY <1>2, <1>8 DEF Expire
<1>9. ASSUME Tick \/ UNCHANGED vars \/ \E p \in Processes : Crash(p) PROVE Ended
  <2>1. UNCHANGED <<pc, expiry>> /\ clock' \in {clock, clock + 1}
    BY <1>9 DEF Tick, vars, Crash
  <2> QED BY <1>2, <2>1
<1> HIDE DEF Ended
<1>10. Ended
  BY <1>3, <1>4, <1>5, <1>6, <1>7, <1>8, <1>9 DEF Next, Acquire
<1> QED BY <1>1, <1>2, <1>10 DEF Gone, Ended

\* A patch takes its file off the session's list.
LEMMA NoPatch ==
  ASSUME Good, patching' = patching
  PROVE  \A s \in Calls : ~Patch(s)
<1>1. patching \in [Calls -> Calls \cup {NoCall}]
  BY GoodTypes
<1> QED BY <1>1 DEF Patch

\* A call that the step is not about: nothing of its own changes, what it
\* writes or uses stays at the path with a life ahead.
LEMMA OthersSound ==
  ASSUME Good, [Next]_vars, NEW d \in Calls,
         pc'[d] = pc[d], handle'[d] = handle[d], stamp'[d] = stamp[d],
         found'[d] \in {found[d], NoCall}, clock' = clock,
         Runs(d) /\ pc[d] = "fill" => lease' = lease /\ expiry'[d] >= stamp[d] + Ttl,
         Runs(d) /\ pc[d] = "held" =>
            /\ lease' = lease /\ expiry'[lease] > clock
            /\ session'[handle[d]] = session[handle[d]] /\ current'[ProcOf(d)] = current[ProcOf(d)],
         found'[d] /= NoCall => \A s \in Calls : Patch(s) => patching[s] /= found'[d]
  PROVE  Sound(d)'
<1> USE CallsAssumption
<1>1. Runs(d)' => Runs(d)
  BY RunsBefore DEF Good, OwnInv
<1>2. Sound(d)
  BY DEF Good
<1>3. (Runs(d) /\ pc[d] = "fill" => lease = d /\ stamp[d] + Ttl > clock /\ expiry[d] >= stamp[d] + Ttl)'
  BY <1>1, <1>2 DEF Sound
<1>4. (Runs(d) /\ pc[d] = "held" =>
          lease = session[handle[d]] /\ expiry[lease] > clock /\ current[ProcOf(d)] = handle[d])'
  <2>1. ProcOf(d)' = ProcOf(d)
    BY DEF ProcOf
  <2> QED BY <1>1, <1>2, <2>1 DEF Sound
<1>5. (pc[d] \in {"slot", "move"} /\ found[d] /= NoCall => Gone(found[d]))'
  <2> SUFFICES ASSUME pc'[d] \in {"slot", "move"}, found'[d] /= NoCall PROVE Gone(found[d])'
    OBVIOUS
  <2>1. PICK f : f = found[d]
    OBVIOUS
  <2>2. found'[d] = f /\ Gone(f) /\ f \in Calls
    BY <1>2, <2>1 DEF Sound, Gone
  <2>3. Gone(f)'
    BY <2>2, GoneStays
  <2>4. Gone(found[d])' <=> Gone(f)'
    BY <2>2 DEF Gone, Runs, ProcOf
  <2> QED BY <2>3, <2>4
<1> QED BY <1>3, <1>4, <1>5 DEF Sound

\* A call that creates its file finds none at the path, so that no call works.
LEMMA CreateSound ==
  ASSUME Good, ~overran', [Next]_vars, NEW c \in Calls, Create(c) \/ Recreate(c), NEW d \in Calls
  PROVE  Sound(d)'
<1> USE CallsAssumption, GoodTypes
<1>1. /\ UNCHANGED <<clock, alive, handle, session, current, refs, expiring, found>>
      /\ \A s \in Calls : ~Patch(s) \/ found' = found
  BY DEF Create, Recreate
<1>2. CASE d /= c
  <2>1. pc'[d] = pc[d] /\ stamp'[d] = stamp[d] /\ expiry'[d] = expiry[d] /\ lease' \in {lease, c}
    BY <1>2 DEF Create, Recreate, Retry
  <2>2. lease' /= lease => lease = NoCall
    BY DEF Create, Recreate
  <2>3. Runs(d) /\ pc[d] = "fill" => lease' = lease /\ expiry'[d] >= stamp[d] + Ttl
    BY <2>1, <2>2 DEF Good, Sound
  <2>4. Runs(d) /\ pc[d] = "held" => lease' = lease /\ expiry'[lease] > clock
    <3> SUFFICES ASSUME Runs(d), pc[d] = "held" PROVE lease' = lease /\ expiry'[lease] > clock
      OBVIOUS
    <3>1. lease \in Calls /\ expiry[lease] > clock /\ pc[lease] \notin Acquiring
      BY InUse
    <3>2. lease /= c
      BY <3>1 DEF Create, Recreate, Acquiring
    <3>3. expiry'[lease] = expiry[lease]
      BY <3>1, <3>2 DEF Create, Recreate
    <3> QED BY <2>2, <3>1, <3>3
  <2>5. \A s \in Calls : ~Patch(s)
    BY DEF Create, Recreate, Patch
  <2> QED BY <1>1, <2>1, <2>3, <2>4, <2>5, OthersSound
<1>3. CASE d = c
  <2>1. pc'[c] \in {"fill", "inspect", "create", "refused"}
    BY DEF Create, Recreate, Retry
  <2>2. pc'[c] = "fill" => lease' = c /\ expiry'[c] = clock + Ttl
    BY DEF Create, Recreate, Retry
  <2>3. pc'[c] = "fill" => stamp'[c] + Ttl > clock /\ stamp'[c] <= clock /\ stamp'[c] \in Nat
    <3>1. CASE Create(c)
      BY <3>1 DEF Create
    <3>2. CASE Recreate(c) /\ pc'[c] = "fill"
      <4>1. lease = NoCall /\ stamp' = stamp
        BY <3>2 DEF Recreate, Retry
      <4>2. overran' = (overran \/ stamp[c] + Ttl <= clock)
        BY <3>2, <4>1, Zenon DEF Recreate
      <4>3. ~(stamp[c] + Ttl <= clock)
        BY <4>2, Zenon
      <4> QED BY <4>1, <4>3
    <3> QED BY <3>1, <3>2
  <2> QED BY <1>1, <1>3, <2>1, <2>2, <2>3 DEF Sound
<1> QED BY <1>2, <1>3

\* A running call with a handle, while another one of its window, or of none,
\* creates its file at the path: there is none.
LEMMA NoneInUse ==
  ASSUME Good, NEW c \in Calls, Runs(c), pc[c] = "fill", NEW d \in Calls
  PROVE  ~(Runs(d) /\ pc[d] = "held")
<1> SUFFICES ASSUME Runs(d), pc[d] = "held" PROVE FALSE
  OBVIOUS
<1>1. lease = c
  BY DEF Good, Sound
<1> QED BY <1>1, InUse DEF Acquiring

\* A call that ends its creation holds a session of its own on its own file.
LEMMA FillSound ==
  ASSUME Good, [Next]_vars, NEW c \in Calls, Fill(c), NEW d \in Calls
  PROVE  Sound(d)'
<1> USE CallsAssumption
<1>t. /\ pc \in [Calls -> Acquiring \cup {"idle", "held", "releasing", "done", "refused"}]
      /\ handle \in [Calls -> Calls \cup {NoCall}] /\ session \in [Calls -> Calls \cup {NoCall}]
      /\ current \in [Processes -> Calls \cup {NoCall}] /\ ProcOf(c) \in Processes
      /\ expiry \in [Calls -> Nat] /\ found \in [Calls -> Calls \cup {NoCall}]
  BY GoodTypes, ProcType
<1>1. /\ UNCHANGED <<clock, alive, lease, stamp, found>> /\ Runs(c) /\ pc[c] = "fill"
      /\ \A s \in Calls : ~Patch(s)
  BY NoPatch DEF Fill
<1>2. lease = c /\ stamp[c] + Ttl > clock
  BY <1>1 DEF Good, Sound
<1>3. CASE d /= c
  <2>1. pc'[d] = pc[d] /\ handle'[d] = handle[d] /\ expiry'[d] = expiry[d]
    BY <1>t, <1>3 DEF Fill
  <2>2. ~(Runs(d) /\ pc[d] = "held")
    BY <1>1, NoneInUse
  <2>3. Runs(d) /\ pc[d] = "fill" => lease' = lease /\ expiry'[d] >= stamp[d] + Ttl
    BY <1>1, <2>1 DEF Good, Sound
  <2> QED BY <1>1, <2>1, <2>2, <2>3, OthersSound
<1>4. CASE d = c
  <2>1. /\ pc'[c] = "held" /\ handle'[c] = c /\ session'[c] = c /\ expiry'[c] = stamp[c] + Ttl
        /\ current'[ProcOf(c)] = c
    BY <1>t DEF Fill
  <2>2. ProcOf(c)' = ProcOf(c)
    BY DEF ProcOf
  <2> QED BY <1>1, <1>2, <1>4, <2>1, <2>2 DEF Sound
<1> QED BY <1>3, <1>4

\* A window that re-enters joins the file that its other calls use: the session
\* it has registered is on it, or no call of its process holds a handle.
LEMMA ReenterSound ==
  ASSUME Good, [Next]_vars, NEW c \in Calls, Reenter(c), NEW d \in Calls
  PROVE  Sound(d)'
<1> USE CallsAssumption
<1>t. /\ pc \in [Calls -> Acquiring \cup {"idle", "held", "releasing", "done", "refused"}]
      /\ handle \in [Calls -> Calls \cup {NoCall}] /\ session \in [Calls -> Calls \cup {NoCall}]
      /\ current \in [Processes -> Calls \cup {NoCall}] /\ ProcOf(c) \in Processes /\ ProcOf(d) \in Processes
      /\ expiry \in [Calls -> Nat] /\ found \in [Calls -> Calls \cup {NoCall}]
      /\ lease \in Calls \cup {NoCall}
  BY GoodTypes, ProcType
<1>1. /\ UNCHANGED <<clock, alive, lease, stamp, found, expiry>> /\ Runs(c) /\ pc[c] = "inspect" /\ CanJoin(c)
      /\ pc' = [pc EXCEPT ![c] = "held"] /\ \A s \in Calls : ~Patch(s)
  BY NoPatch DEF Reenter
<1>2. lease \in Calls /\ written[lease] /\ WindowOf[lease] = WindowOf[c]
  BY <1>t, <1>1 DEF CanJoin, SameWindow
<1>3. ProcOf(c)' = ProcOf(c) /\ ProcOf(d)' = ProcOf(d)
  BY DEF ProcOf
\* A registered session of the window is in use by a running call.
<1>4. ASSUME OwnSession(c) /= NoCall
      PROVE  /\ OwnSession(c) \in Calls /\ current[ProcOf(c)] = OwnSession(c)
             /\ session[OwnSession(c)] = lease /\ expiry[lease] > clock
  <2> DEFINE s == OwnSession(c)
  <2>1. s \in Calls /\ current[ProcOf(c)] = s /\ WindowOf[s] = WindowOf[c]
    BY <1>t, <1>4 DEF OwnSession
  <2>2. refs[s] > 0
    BY <1>t, <2>1 DEF Good, OwnInv, OwnFiles
  <2> HIDE DEF s
  <2>3. PICK e \in Handles(s) : TRUE
    <3>1. refs[s] = Cardinality(Handles(s))
      BY <2>1 DEF Good, OwnInv, HandlesCounted
    <3> QED BY <2>2, <3>1, FS_EmptySet
  <2>4. e \in Calls /\ pc[e] = "held" /\ handle[e] = s
    BY <2>3 DEF Handles
  <2>5. WindowOf[e] = WindowOf[c]
    BY <2>1, <2>4 DEF Good, OwnInv, OwnFiles
  <2>6. Runs(e)
    BY <1>1, <2>5 DEF Runs, ProcOf
  <2> QED BY <2>1, <2>4, <2>6, InUse DEF s
<1>5. CASE d = c
  <2>1. CASE OwnSession(c) /= NoCall
    <3>1. handle' = [handle EXCEPT ![c] = OwnSession(c)] /\ UNCHANGED <<session, current>>
      BY <2>1 DEF Reenter
    <3> QED BY <1>t, <1>1, <1>3, <1>4, <1>5, <2>1, <3>1 DEF Sound
  <2>2. CASE OwnSession(c) = NoCall
    <3>1. /\ handle' = [handle EXCEPT ![c] = c] /\ session' = [session EXCEPT ![c] = lease]
          /\ current' = [current EXCEPT ![ProcOf(c)] = c]
      BY <2>2 DEF Reenter
    <3>2. expiry[lease] > clock
      BY <1>1, <2>2 DEF CanJoin
    <3> QED BY <1>t, <1>1, <1>3, <1>5, <3>1, <3>2 DEF Sound
  <2> QED BY <2>1, <2>2
<1>6. CASE d /= c
  <2>1. pc'[d] = pc[d] /\ handle'[d] = handle[d]
    <3>1. \E s : handle' = [handle EXCEPT ![c] = s]
      BY DEF Reenter
    <3> QED BY <1>t, <1>1, <1>6, <3>1
  <2>2. ASSUME Runs(d), pc[d] = "held"
        PROVE  /\ session'[handle[d]] = session[handle[d]] /\ current'[ProcOf(d)] = current[ProcOf(d)]
    <3>1. CASE OwnSession(c) /= NoCall
      BY <3>1 DEF Reenter
    <3>2. CASE OwnSession(c) = NoCall
      <4>1. /\ session' = [session EXCEPT ![c] = lease] /\ current' = [current EXCEPT ![ProcOf(c)] = c]
        BY <3>2 DEF Reenter
      <4>2. /\ handle[d] \in Calls /\ handle[d] /= c
        <5>1. Made(handle[d])
          BY <2>2 DEF Good, OwnInv, LostInv, SessionsMade
        <5> QED BY <1>1, <5>1 DEF Made
      <4>3. WindowOf[handle[d]] = WindowOf[d] /\ WindowOf[lease] = WindowOf[d] /\ current[ProcOf(d)] = handle[d]
        BY <2>2, InUse
      <4>4. ProcOf(d) /= ProcOf(c)
        BY <1>2, <3>2, <4>2, <4>3 DEF OwnSession
      <4> QED BY <1>t, <4>1, <4>2, <4>4
    <3> QED BY <3>1, <3>2
  <2>3. Runs(d) /\ pc[d] = "held" => expiry'[lease] > clock
    BY <1>1, InUse
  <2>4. Runs(d) /\ pc[d] = "fill" => expiry'[d] >= stamp[d] + Ttl
    BY <1>1 DEF Good, Sound
  <2> QED BY <1>1, <2>1, <2>2, <2>3, <2>4, OthersSound
<1> QED BY <1>5, <1>6

\* A call that may take over has found no file, an expired one or a dead one's.
LEMMA InspectSound ==
  ASSUME Good, [Next]_vars, NEW c \in Calls, Inspect(c), NEW d \in Calls
  PROVE  Sound(d)'
<1> USE CallsAssumption
<1>t. /\ pc \in [Calls -> Acquiring \cup {"idle", "held", "releasing", "done", "refused"}]
      /\ found \in [Calls -> Calls \cup {NoCall}] /\ lease \in Calls \cup {NoCall}
      /\ expiry \in [Calls -> Nat] /\ clock \in Nat
  BY GoodTypes
<1>1. UNCHANGED <<clock, alive, lease, expiry, stamp, handle, session, current>> /\ \A s \in Calls : ~Patch(s)
  BY NoPatch DEF Inspect
<1>2. CASE d /= c
  <2>1. pc'[d] = pc[d] /\ found'[d] = found[d]
    BY <1>t, <1>2 DEF Inspect
  <2>2. Runs(d) /\ pc[d] = "fill" => expiry'[d] >= stamp[d] + Ttl
    BY <1>1 DEF Good, Sound
  <2>3. Runs(d) /\ pc[d] = "held" => expiry'[lease] > clock
    BY <1>1, InUse
  <2> QED BY <1>1, <2>1, <2>2, <2>3, OthersSound
<1>3. CASE d = c
  <2>1. pc'[c] \in {"refused", "slot"} /\ found'[c] = lease
    BY <1>t DEF Inspect
  <2>2. ASSUME lease /= NoCall, pc'[c] = "slot" PROVE Gone(lease)
    <3>1. ~Protected
      BY <1>t, <2>2 DEF Inspect
    <3>2. expiry[lease] <= clock \/ ~Runs(lease)
      BY <1>t, <2>2, <3>1 DEF Protected, OwnerGone
    <3> QED BY <1>t, <2>2, <3>2 DEF Gone, Good, OwnInv, Numbers
  <2>3. PICK f : f = lease
    OBVIOUS
  <2>4. f /= NoCall /\ pc'[c] = "slot" => Gone(f)'
    BY <1>1, <2>2, <2>3, GoneStays DEF Gone
  <2>5. Gone(found[c])' <=> Gone(f)'
    BY <2>1, <2>3 DEF Gone, Runs, ProcOf
  <2>6. found'[c] = f
    BY <2>1, <2>3
  <2> QED BY <1>3, <2>1, <2>4, <2>5, <2>6 DEF Sound
<1> QED BY <1>2, <1>3

\* A takeover moves the file that it inspected, which no running call uses.
LEMMA MoveSound ==
  ASSUME Good, ~swept', [Next]_vars, NEW c \in Calls, Move(c), NEW d \in Calls
  PROVE  Sound(d)'
<1> USE CallsAssumption
<1>t. /\ pc \in [Calls -> Acquiring \cup {"idle", "held", "releasing", "done", "refused"}]
      /\ found \in [Calls -> Calls \cup {NoCall}] /\ lease \in Calls \cup {NoCall}
      /\ expiry \in [Calls -> Nat] /\ stamp \in [Calls -> Nat] /\ clock \in Nat /\ Ttl \in Nat
  BY GoodTypes
<1>1. UNCHANGED <<clock, alive, expiry, stamp, handle, session, current>> /\ \A s \in Calls : ~Patch(s)
  BY NoPatch DEF Move
<1>2. lease /= NoCall => Gone(lease)
  <2>1. lease /= NoCall => swept' = (swept \/ lease /= found[c])
    BY Zenon DEF Move
  <2>2. lease /= NoCall => lease = found[c]
    BY <2>1, Zenon
  <2>3. pc[c] = "move" /\ Sound(c)
    BY DEF Move, Good
  <2> QED BY <2>2, <2>3 DEF Sound
<1>3. CASE d /= c
  <2>1. pc'[d] = pc[d] /\ found'[d] = found[d]
    BY <1>t, <1>3 DEF Move, Retry
  <2>2. ~(Runs(d) /\ pc[d] = "held")
    <3> SUFFICES ASSUME Runs(d), pc[d] = "held" PROVE FALSE
      OBVIOUS
    <3>1. lease \in Calls /\ expiry[lease] > clock /\ Runs(lease)
      BY InUse
    <3>2. Gone(lease)
      BY <1>2, <3>1
    <3> QED BY <1>t, <3>1, <3>2 DEF Gone
  <2>3. ~(Runs(d) /\ pc[d] = "fill")
    <3> SUFFICES ASSUME Runs(d), pc[d] = "fill" PROVE FALSE
      OBVIOUS
    <3>1. lease = d /\ stamp[d] + Ttl > clock /\ expiry[d] >= stamp[d] + Ttl
      BY DEF Good, Sound
    <3>2. Gone(d)
      BY <1>2, <3>1
    <3> QED BY <1>t, <3>1, <3>2 DEF Gone
  <2> QED BY <1>1, <2>1, <2>2, <2>3, OthersSound
<1>4. CASE d = c
  <2>1. pc'[c] \in {"recreate", "refused", "create"}
    BY <1>t DEF Move, Retry
  <2> QED BY <1>4, <2>1 DEF Sound
<1> QED BY <1>3, <1>4

LEMMA SlotSound ==
  ASSUME Good, [Next]_vars, NEW c \in Calls, Call(c) \/ CheckSlot(c), NEW d \in Calls
  PROVE  Sound(d)'
<1> USE CallsAssumption
<1>t. /\ pc \in [Calls -> Acquiring \cup {"idle", "held", "releasing", "done", "refused"}]
      /\ found \in [Calls -> Calls \cup {NoCall}]
  BY GoodTypes
<1>1. UNCHANGED <<clock, alive, lease, expiry, stamp, handle, session, current, found>> /\ \A s \in Calls : ~Patch(s)
  BY NoPatch DEF Call, CheckSlot
<1>2. CASE d /= c
  <2>1. pc'[d] = pc[d]
    BY <1>t, <1>2 DEF Call, CheckSlot, Retry
  <2>2. Runs(d) /\ pc[d] = "fill" => expiry'[d] >= stamp[d] + Ttl
    BY <1>1 DEF Good, Sound
  <2>3. Runs(d) /\ pc[d] = "held" => expiry'[lease] > clock
    BY <1>1, InUse
  <2> QED BY <1>1, <2>1, <2>2, <2>3, OthersSound
<1>3. CASE d = c
  <2>1. pc'[c] \in {"create", "refused", "move"} /\ (pc'[c] = "move" => pc[c] = "slot")
    BY <1>t DEF Call, CheckSlot, Retry
  <2>2. PICK f : f = found[c]
    OBVIOUS
  <2>3. pc'[c] = "move" /\ f /= NoCall => Gone(f)
    BY <2>1, <2>2 DEF Good, Sound
  <2>4. pc'[c] = "move" /\ f /= NoCall => Gone(f)'
    BY <1>1, <2>3, GoneStays DEF Gone
  <2>5. (Gone(found[c])' <=> Gone(f)') /\ found'[c] = f
    BY <1>1, <2>2 DEF Gone, Runs, ProcOf
  <2> QED BY <1>3, <2>1, <2>4, <2>5 DEF Sound
<1> QED BY <1>2, <1>3

\* A heartbeat's patch gives the record that it reaches a full life.
LEMMA BeatSound ==
  ASSUME Good, [Next]_vars, NEW c \in Calls, Heartbeat(c) \/ Patch(c), NEW d \in Calls
  PROVE  Sound(d)'
<1> USE CallsAssumption
<1>t. /\ expiry \in [Calls -> Nat] /\ clock \in Nat /\ Ttl \in Nat \ {0} /\ stamp \in [Calls -> Nat]
      /\ stamp[d] <= clock /\ patching \in [Calls -> Calls \cup {NoCall}]
      /\ found \in [Calls -> Calls \cup {NoCall}]
  BY GoodTypes
<1>1. UNCHANGED <<clock, alive, lease, pc, stamp, handle, session, current>>
  BY DEF Heartbeat, Patch
<1>2. \A f \in Calls : expiry'[f] \in {expiry[f], clock + Ttl}
  BY <1>t DEF Heartbeat, Patch
<1>3. Runs(d) /\ pc[d] = "fill" => expiry'[d] >= stamp[d] + Ttl
  BY <1>t, <1>2 DEF Good, Sound
<1>4. Runs(d) /\ pc[d] = "held" => expiry'[lease] > clock
  <2> SUFFICES ASSUME Runs(d), pc[d] = "held" PROVE expiry'[lease] > clock
    OBVIOUS
  <2>1. lease \in Calls /\ expiry[lease] > clock
    BY InUse
  <2> QED BY <1>t, <1>2, <2>1
<1>5. /\ found'[d] \in {found[d], NoCall}
      /\ found'[d] /= NoCall => \A s \in Calls : Patch(s) => patching[s] /= found'[d]
  <2>1. CASE Heartbeat(c)
    <3>1. found' = found
      BY <2>1 DEF Heartbeat
    <3>2. \A s \in Calls : ~Patch(s)
      <4> SUFFICES ASSUME NEW s \in Calls, Patch(s) PROVE FALSE
        OBVIOUS
      <4>1. patching'[s] = NoCall /\ patching[s] /= NoCall
        BY <1>t DEF Patch
      <4>2. patching' = patching \/ (patching[c] = NoCall /\ patching' = [patching EXCEPT ![c] = lease])
        BY <2>1 DEF Heartbeat
      <4> QED BY <1>t, <4>1, <4>2
    <3> QED BY <3>1, <3>2
  <2>2. CASE Patch(c)
    <3>1. found' = [e \in Calls |-> IF found[e] = patching[c] THEN NoCall ELSE found[e]]
          /\ patching' = [patching EXCEPT ![c] = NoCall] /\ patching[c] /= NoCall
      BY <2>2 DEF Patch
    <3>2. \A s \in Calls : Patch(s) => s = c
      <4> SUFFICES ASSUME NEW s \in Calls, Patch(s), s /= c PROVE FALSE
        OBVIOUS
      <4>1. patching'[s] = NoCall /\ patching[s] /= NoCall
        BY <1>t DEF Patch
      <4> QED BY <1>t, <3>1, <4>1
    <3>3. found'[d] /= NoCall => found'[d] = found[d] /\ found[d] /= patching[c]
      BY <1>t, <3>1
    <3> QED BY <1>t, <3>1, <3>2, <3>3
  <2> QED BY <2>1, <2>2
<1> QED BY <1>1, <1>3, <1>4, <1>5, OthersSound

\* The last handle of a session closes it, and no other call uses it.
LEMMA ReleaseSound ==
  ASSUME Good, [Next]_vars, NEW c \in Calls, Release(c), NEW d \in Calls
  PROVE  Sound(d)'
<1> USE CallsAssumption
<1>t. /\ pc \in [Calls -> Acquiring \cup {"idle", "held", "releasing", "done", "refused"}]
      /\ current \in [Processes -> Calls \cup {NoCall}] /\ ProcOf(d) \in Processes
      /\ found \in [Calls -> Calls \cup {NoCall}]
  BY GoodTypes, ProcType
<1>1. /\ UNCHANGED <<clock, alive, lease, expiry, stamp, handle, session, found>> /\ \A s \in Calls : ~Patch(s)
      /\ Runs(c) /\ pc[c] = "held"
      /\ \E to \in {"releasing", "done"} : pc' = [pc EXCEPT ![c] = to]
      /\ current' = [p \in Processes |-> IF LastHandle(handle[c]) /\ current[p] = handle[c] THEN NoCall ELSE current[p]]
  BY NoPatch DEF Release
<1>2. CASE d = c
  BY <1>t, <1>1, <1>2 DEF Sound
<1>3. CASE d /= c
  <2>1. pc'[d] = pc[d]
    BY <1>t, <1>1, <1>3
  <2>2. Runs(d) /\ pc[d] = "fill" => expiry'[d] >= stamp[d] + Ttl
    BY <1>1 DEF Good, Sound
  <2>3. ASSUME Runs(d), pc[d] = "held"
        PROVE  expiry'[lease] > clock /\ current'[ProcOf(d)] = current[ProcOf(d)]
    <3>1. expiry[lease] > clock /\ handle[d] \in Calls /\ d \in Handles(handle[d]) /\ current[ProcOf(d)] = handle[d]
      BY <2>3, InUse
    <3>2. handle[c] \in Calls /\ c \in Handles(handle[c])
      BY <1>1, InUse
    <3>3. LastHandle(handle[c]) => handle[d] /= handle[c]
      BY <1>3, <3>1, <3>2, CountTells DEF LastHandle, Good, OwnInv
    <3>4. current'[ProcOf(d)] = current[ProcOf(d)]
      BY <1>t, <1>1, <3>1, <3>3
    <3> QED BY <1>1, <3>1, <3>4
  <2> QED BY <1>1, <2>1, <2>2, <2>3, OthersSound
<1> QED BY <1>2, <1>3

\* A release ends a record whose session has closed and that no other joined.
LEMMA ExpireSound ==
  ASSUME Good, ~undercut', [Next]_vars, NEW c \in Calls, Expire(c), NEW d \in Calls
  PROVE  Sound(d)'
<1> USE CallsAssumption
<1>t. /\ pc \in [Calls -> Acquiring \cup {"idle", "held", "releasing", "done", "refused"}]
      /\ expiry \in [Calls -> Nat] /\ found \in [Calls -> Calls \cup {NoCall}] /\ clock \in Nat
      /\ refs \in [Calls -> Int]
  BY GoodTypes
<1> DEFINE f == expiring[c]
<1>1. /\ UNCHANGED <<clock, alive, lease, stamp, handle, session, current, found>> /\ \A s \in Calls : ~Patch(s)
      /\ pc[c] = "releasing" /\ pc' = [pc EXCEPT ![c] = "done"]
      /\ expiry' = [expiry EXCEPT ![f] = clock]
  BY NoPatch DEF Expire
<1>2. f \in Calls /\ refs[f] = 0 /\ pc[f] \in {"held", "releasing", "done"}
  BY <1>1 DEF Good, OwnInv, OwnFiles, Over
<1>3. ~JoinedLater(f)
  <2>1. undercut' = (undercut \/ JoinedLater(f))
    BY Zenon DEF Expire
  <2> QED BY <2>1, Zenon
<1> HIDE DEF f
<1>4. CASE d = c
  BY <1>t, <1>1, <1>4 DEF Sound
<1>5. CASE d /= c
  <2>1. pc'[d] = pc[d]
    BY <1>t, <1>1, <1>5
  <2>2. Runs(d) /\ pc[d] = "fill" => expiry'[d] >= stamp[d] + Ttl
    BY <1>t, <1>1, <1>2 DEF Good, Sound
  <2>3. ASSUME Runs(d), pc[d] = "held" PROVE expiry'[lease] > clock
    <3>1. /\ expiry[lease] > clock /\ lease = session[handle[d]] /\ lease \in Calls
          /\ handle[d] \in Calls /\ refs[handle[d]] > 0
      BY <2>3, InUse
    <3>2. lease /= f
      BY <1>2, <1>3, <3>1 DEF JoinedLater
    <3> QED BY <1>t, <1>1, <3>1, <3>2
  <2> QED BY <1>1, <2>1, <2>2, <2>3, OthersSound
<1> QED BY <1>4, <1>5

\* Time passes no record that is written or used, while no call overruns.
LEMMA TickSound ==
  ASSUME Good, ~overran', [Next]_vars, Tick, NEW d \in Calls
  PROVE  Sound(d)'
<1> USE CallsAssumption
<1>t. /\ expiry \in [Calls -> Nat] /\ stamp \in [Calls -> Nat] /\ clock \in Nat /\ Ttl \in Nat
      /\ refs \in [Calls -> Int] /\ patching \in [Calls -> Calls \cup {NoCall}]
  BY GoodTypes
<1>1. /\ UNCHANGED <<alive, lease, expiry, pc, stamp, handle, session, current, found>>
      /\ clock' = clock + 1 /\ \A s \in Calls : ~Patch(s)
  BY NoPatch DEF Tick
<1>2. \A c \in Calls : ~Overruns(c, clock + 1)
  <2>1. overran' = (overran \/ \E c \in Calls : Overruns(c, clock + 1))
    BY Zenon DEF Tick
  <2> QED BY <2>1, Zenon
<1>3. Runs(d)' <=> Runs(d)
  BY <1>1 DEF Runs, ProcOf
<1>4. Runs(d) /\ pc[d] = "fill" => stamp[d] + Ttl > clock + 1
  BY <1>t, <1>2 DEF Overruns
<1>5. Runs(d) /\ pc[d] = "held" => expiry[lease] > clock + 1
  <2> SUFFICES ASSUME Runs(d), pc[d] = "held" PROVE expiry[lease] > clock + 1
    OBVIOUS
  <2>1. /\ handle[d] \in Calls /\ refs[handle[d]] > 0 /\ Runs(handle[d])
        /\ lease = session[handle[d]] /\ lease \in Calls
    BY InUse
  <2>2. ~(expiry[session[handle[d]]] <= clock + 1)
    BY <1>2, <2>1 DEF Overruns
  <2> QED BY <1>t, <2>1, <2>2
<1>6. (pc[d] \in {"slot", "move"} /\ found[d] /= NoCall => Gone(found[d]))'
  <2>1. PICK f : f = found[d]
    OBVIOUS
  <2>2. pc[d] \in {"slot", "move"} /\ f /= NoCall => Gone(f)
    BY <2>1 DEF Good, Sound
  <2>3. pc[d] \in {"slot", "move"} /\ f /= NoCall => Gone(f)'
    BY <1>1, <2>2, GoneStays DEF Gone
  <2>4. (Gone(found[d])' <=> Gone(f)') /\ found'[d] = f
    BY <1>1, <2>1 DEF Gone, Runs, ProcOf
  <2> QED BY <1>1, <2>3, <2>4
<1>7. ProcOf(d)' = ProcOf(d)
  BY DEF ProcOf
<1>8. Sound(d)
  BY DEF Good
<1> QED BY <1>1, <1>3, <1>4, <1>5, <1>6, <1>7, <1>8 DEF Sound

LEMMA CrashSound ==
  ASSUME Good, [Next]_vars, UNCHANGED vars \/ \E p \in Processes : Crash(p), NEW d \in Calls
  PROVE  Sound(d)'
<1>1. UNCHANGED <<clock, lease, expiry, pc, stamp, handle, session, current, found>> /\ \A s \in Calls : ~Patch(s)
  BY NoPatch DEF Crash, vars
<1>2. Runs(d) /\ pc[d] = "fill" => expiry'[d] >= stamp[d] + Ttl
  BY <1>1 DEF Good, Sound
<1>3. Runs(d) /\ pc[d] = "held" => expiry'[lease] > clock
  BY <1>1, InUse
<1> QED BY <1>1, <1>2, <1>3, OthersSound

LEMMA StepSingle == SingleInv /\ [Next]_vars => SingleInv'
<1> SUFFICES ASSUME SingleInv, [Next]_vars PROVE SingleInv'
  OBVIOUS
<1>1. OwnInv'
  BY StepOwn DEF SingleInv
<1>2. ASSUME Undisturbed', NEW d \in Calls PROVE Sound(d)'
  <2>1. Good /\ ~overran' /\ ~swept' /\ ~undercut'
    BY <1>2, UndisturbedBefore DEF SingleInv, Good, Undisturbed
  <2>2. ASSUME NEW c \in Calls, Acquire(c) PROVE Sound(d)'
    BY <2>1, <2>2, CreateSound, FillSound, ReenterSound, InspectSound, SlotSound, MoveSound DEF Acquire
  <2>3. ASSUME NEW c \in Calls, Call(c) \/ Heartbeat(c) \/ Patch(c) \/ Release(c) \/ Expire(c)
        PROVE  Sound(d)'
    BY <2>1, <2>3, SlotSound, BeatSound, ReleaseSound, ExpireSound
  <2>4. CASE Tick
    BY <2>1, <2>4, TickSound
  <2>5. CASE UNCHANGED vars \/ \E p \in Processes : Crash(p)
    BY <2>1, <2>5, CrashSound
  <2> QED BY <2>2, <2>3, <2>4, <2>5 DEF Next
<1> QED BY <1>1, <1>2 DEF SingleInv

LEMMA AlwaysSingle == Spec => []SingleInv
  BY InitSingle, StepSingle, PTL DEF Spec

\* Two windows run operations under unexpired records at one time only after a
\* heartbeat came too late, a takeover moved a record that it had not
\* inspected, or a release ended a record that its window had joined again
\* (acquire() with its re-entry, heartbeat and release together).
THEOREM SingleUnlessDisturbedHolds == Spec => []SingleUnlessDisturbed
<1>1. SingleInv => SingleUnlessDisturbed
  <2> SUFFICES ASSUME SingleInv, Undisturbed, NEW c \in Calls, NEW d \in Calls, Working(c), Working(d)
               PROVE  WindowOf[c] = WindowOf[d]
    BY DEF SingleUnlessDisturbed, SingleHolder
  <2>1. Good
    BY DEF SingleInv, Good
  <2>2. WindowOf[lease] = WindowOf[c] /\ WindowOf[lease] = WindowOf[d]
    BY <2>1, InUse DEF Working
  <2> QED BY <2>2
<1> QED BY <1>1, AlwaysSingle, PTL

-----------------------------------------------------------------------------
(* What an old holder still writes.                                        *)

\* Undisturbed, no other running call has a handle on a record whose release
\* sets out to end it: the sessions in use of a process are the one registered.
LEMMA LastOnRecord ==
  ASSUME Good, [Next]_vars, NEW f \in Calls, pc[f] = "held", pc'[f] = "releasing",
         NEW c \in Calls \ {f}, pc[c] = "held", Runs(c)
  PROVE  session[handle[c]] /= session[handle[f]]
<1> SUFFICES ASSUME session[handle[c]] = session[handle[f]] PROVE FALSE
  OBVIOUS
<1>t. pc \in [Calls -> Acquiring \cup {"idle", "held", "releasing", "done", "refused"}]
  BY GoodTypes
<1>1. Release(f)
  <2>1. ASSUME NEW e \in Calls, Release(e) PROVE Release(f)
    <3>1. e = f
      BY <1>t, <2>1 DEF Release
    <3> QED BY <2>1, <3>1
  <2>2. ASSUME NEW e \in Calls, Acquire(e) PROVE pc'[f] /= "releasing"
    BY <1>t, <2>2 DEF Acquire, Create, Fill, Reenter, Inspect, CheckSlot, Move, Recreate, Retry
  <2>3. ASSUME NEW e \in Calls, Call(e) \/ Heartbeat(e) \/ Patch(e) \/ Expire(e) PROVE pc'[f] /= "releasing"
    BY <1>t, <2>3 DEF Call, Heartbeat, Patch, Expire
  <2>4. Tick \/ UNCHANGED vars \/ (\E p \in Processes : Crash(p)) => pc' = pc
    BY DEF Tick, vars, Crash
  <2> QED BY <2>1, <2>2, <2>3, <2>4 DEF Next
<1>2. Runs(f) /\ LastHandle(handle[f])
  BY <1>t, <1>1 DEF Release
<1>3. /\ handle[f] \in Calls /\ f \in Handles(handle[f]) /\ current[ProcOf(f)] = handle[f]
      /\ handle[c] \in Calls /\ c \in Handles(handle[c]) /\ current[ProcOf(c)] = handle[c]
      /\ WindowOf[lease] = WindowOf[f] /\ WindowOf[lease] = WindowOf[c]
  BY <1>2, InUse
<1>4. handle[c] = handle[f]
  BY <1>3 DEF ProcOf
<1> QED BY <1>2, <1>3, <1>4, CountTells DEF LastHandle, Good, OwnInv

\* Only a window itself cuts the life of its record short or makes it longer,
\* and a release sets out to end a record only when no other handle is on it
\* (heartbeat and release write to the file they have opened and checked).
THEOREM StaleHolderHarmlessHolds == Spec => StaleHolderHarmless
<1> DEFINE Cut(f) == expiry'[f] < expiry[f] =>
              \/ pc[f] = "fill"
              \/ refs[f] = 0 /\ \E c \in Calls : expiring[c] = f /\ WindowOf[c] = WindowOf[f]
           Longer(f) == expiry'[f] > expiry[f] /\ expiry'[f] > clock /\ written[f] =>
              \E s \in Calls : WindowOf[s] = WindowOf[f] /\ patching[s] = f
           Alone(f) == Undisturbed /\ pc[f] = "held" /\ pc'[f] = "releasing" =>
              \A c \in Calls \ {f} :
                 pc[c] = "held" /\ Runs(c) => session[handle[c]] /= session[handle[f]]
<1>1. ASSUME SingleInv, [Next]_vars, NEW f \in Calls PROVE Cut(f) /\ Longer(f)
  <2>1. /\ \A c \in Calls : pc[c] \in Acquiring => ~written[c]
        /\ clock \in Nat /\ expiry \in [Calls -> Nat] /\ \A c \in Calls : expiry[c] <= clock + Ttl
        /\ \A c \in Calls : patching[c] /= NoCall => WindowOf[patching[c]] = WindowOf[c]
        /\ \A c \in Calls : pc[c] = "releasing" => refs[expiring[c]] = 0 /\ WindowOf[expiring[c]] = WindowOf[c]
    BY <1>1 DEF SingleInv, OwnInv, LostInv, FilesOnce, Numbers, OwnFiles, Over
  <2> USE NumbersAssumption
  <2>2. ASSUME NEW c \in Calls, Create(c) \/ Recreate(c) PROVE Cut(f) /\ Longer(f)
    BY <2>1, <2>2 DEF Create, Recreate, Acquiring
  <2>3. ASSUME NEW c \in Calls, Fill(c) PROVE Cut(f) /\ Longer(f)
    BY <2>1, <2>3 DEF Fill, Acquiring
  <2>4. ASSUME NEW c \in Calls, Patch(c) PROVE Cut(f) /\ Longer(f)
    BY <2>1, <2>4 DEF Patch
  <2>5. ASSUME NEW c \in Calls, Expire(c) PROVE Cut(f) /\ Longer(f)
    BY <2>1, <2>5 DEF Expire
  <2>6. ASSUME expiry' = expiry PROVE Cut(f) /\ Longer(f)
    BY <2>1, <2>6
  <2>7. ASSUME NEW c \in Calls,
               Call(c) \/ Reenter(c) \/ Inspect(c) \/ CheckSlot(c) \/ Move(c) \/ Heartbeat(c) \/ Release(c)
        PROVE  expiry' = expiry
    BY <2>7 DEF Call, Reenter, Inspect, CheckSlot, Move, Heartbeat, Release
  <2>8. Tick \/ UNCHANGED vars \/ (\E p \in Processes : Crash(p)) => expiry' = expiry
    BY DEF Tick, vars, Crash
  <2> HIDE DEF Cut, Longer
  <2> QED BY <1>1, <2>2, <2>3, <2>4, <2>5, <2>6, <2>7, <2>8 DEF Next, Acquire
<1>2. ASSUME SingleInv, [Next]_vars, NEW f \in Calls PROVE Alone(f)
  BY <1>2, LastOnRecord DEF SingleInv, Good
<1> DEFINE Harmless(f) ==
          /\ expiry'[f] < expiry[f] =>
                \/ pc[f] = "fill"
                \/ refs[f] = 0 /\ \E c \in Calls : expiring[c] = f /\ WindowOf[c] = WindowOf[f]
          /\ expiry'[f] > expiry[f] /\ expiry'[f] > clock /\ written[f] =>
                \E s \in Calls : WindowOf[s] = WindowOf[f] /\ patching[s] = f
          /\ Undisturbed /\ pc[f] = "held" /\ pc'[f] = "releasing" =>
                \A c \in Calls \ {f} :
                    pc[c] = "held" /\ Runs(c) => session[handle[c]] /= session[handle[f]]
<1>3. SingleInv /\ [Next]_vars => [\A f \in Calls : Harmless(f)]_vars
  <2>1. ASSUME SingleInv, [Next]_vars, NEW f \in Calls PROVE Harmless(f)
    BY <1>1, <1>2, <2>1
  <2> QED BY <2>1
<1> QED BY <1>3, AlwaysSingle, PTL DEF Spec, StaleHolderHarmless
=============================================================================
