------------------------------ MODULE HostLease ------------------------------
(***************************************************************************)
(* The v1 lease file of LegacyHostOperationLeaseManager                    *)
(* (src/core/HostOperationLease.legacy.ts), which the paired update holds  *)
(* as its gate.                                                            *)
(*                                                                         *)
(* One file at a fixed path, created exclusively, names the holder and an  *)
(* expiry that a heartbeat patches in place; a release patches the expiry  *)
(* to the present and leaves the file.  A call that finds an expired file  *)
(* renames it into one fixed recovery slot and creates its own.  Calls of  *)
(* one window share a session, with a count of the handles on it.          *)
(*                                                                         *)
(* A call creates at most one file, so a file is named by the call that    *)
(* created it, and so is a session.  A rename moves a file between the two *)
(* paths; a patch goes to the file that was opened, wherever it is by now. *)
(***************************************************************************)
EXTENDS Naturals

CONSTANTS
    Calls,      \* calls of acquire()
    Processes,  \* extension hosts
    WindowOf,   \* the window id each call acquires for
    ProcessOf,  \* the process of each window id
    NoCall,     \* no file at a path; no session
    Ttl,        \* ttlMs: life of a record between heartbeats
    Crashable,  \* the processes that may crash
    TornCreate, \* TRUE: a crash may fall between creating and writing a file
    MaxTries,   \* attempts of one call (12 in the code)
    MaxClock    \* bound: last instant of the clock

ASSUME CallsAssumption == NoCall \notin Calls
ASSUME OwnersAssumption ==
    \A c \in Calls : WindowOf[c] \in DOMAIN ProcessOf /\ ProcessOf[WindowOf[c]] \in Processes
ASSUME NumbersAssumption == Ttl \in Nat \ {0} /\ MaxTries \in Nat \ {0} /\ MaxClock \in Nat
ASSUME TornAssumption == TornCreate \in BOOLEAN

VARIABLES
    clock,    \* now() in every process
    alive,    \* whether a process still runs
    lease,    \* the file at the lease path
    slot,     \* the file at the recovery path
    expiry,   \* the instant a file's record expires, its age limit if unwritten
    written,  \* whether the file holds its record, or is still empty
    pc,       \* what a call is doing
    tries,    \* the attempts a call has finished
    stamp,    \* when the record of the current attempt was made
    handle,   \* the session a call's handle is on
    session,  \* the file a session vouches for
    refs,     \* open handles on a session
    lost,     \* whether a session's heartbeat found another file
    patching, \* the file a session's heartbeat has opened and not written yet
    expiring, \* the file a call's release has opened and not written yet
    current,  \* the session registered in a process
    overran,  \* history: a record expired while its call wrote or used it
    found,    \* history: the file a call taking over inspected, not renewed since
    swept,    \* history: a takeover moved a record that it had not inspected
    undercut  \* history: a release ended a record that a later session uses

vars == <<clock, alive, lease, slot, expiry, written, pc, tries, stamp,
          handle, session, refs, lost, patching, expiring, current, overran, found, swept, undercut>>

-----------------------------------------------------------------------------
ProcOf(c) == ProcessOf[WindowOf[c]]
Runs(c) == alive[ProcOf(c)]
Acquiring == {"create", "fill", "inspect", "slot", "move", "recreate"}

\* ownerProcessDefinitelyGone(): only a record that can be parsed names an owner.
OwnerGone(f) == written[f] /\ ~Runs(f)

\* Mutant: the window, not the lease id, proves ownership.
Owns_ByWindow(s) == lease /= NoCall /\ written[lease] /\ WindowOf[lease] = WindowOf[s]

\* The file at the lease path is the one that session s vouches for.
Owns(s) == lease /= NoCall /\ written[lease] /\ lease = session[s]

\* Mutant: the record in the slot is never given up.
SlotReusable_Never == slot = NoCall

\* clearExpiredLeaseRecoverySlot()
SlotReusable == slot = NoCall \/ (OwnerGone(slot) /\ expiry[slot] <= clock)

Init ==
    /\ clock = 0
    /\ alive = [p \in Processes |-> TRUE]
    /\ lease = NoCall
    /\ slot = NoCall
    /\ expiry = [c \in Calls |-> 0]
    /\ written = [c \in Calls |-> FALSE]
    /\ pc = [c \in Calls |-> "idle"]
    /\ tries = [c \in Calls |-> 0]
    /\ stamp = [c \in Calls |-> 0]
    /\ handle = [c \in Calls |-> NoCall]
    /\ session = [c \in Calls |-> NoCall]
    /\ refs = [c \in Calls |-> 0]
    /\ lost = [c \in Calls |-> FALSE]
    /\ patching = [c \in Calls |-> NoCall]
    /\ expiring = [c \in Calls |-> NoCall]
    /\ current = [p \in Processes |-> NoCall]
    /\ overran = FALSE
    /\ found = [c \in Calls |-> NoCall]
    /\ swept = FALSE
    /\ undercut = FALSE

-----------------------------------------------------------------------------
(* acquire()                                                               *)

Call(c) ==
    /\ Runs(c) /\ pc[c] = "idle"
    /\ pc' = [pc EXCEPT ![c] = "create"]
    /\ UNCHANGED <<clock, alive, lease, slot, expiry, written, tries, stamp,
                   handle, session, refs, lost, patching, expiring, current, overran, found, swept, undercut>>

\* createExclusiveLeaseFile() with a record made at this attempt.
Create(c) ==
    /\ Runs(c) /\ pc[c] = "create"
    /\ stamp' = [stamp EXCEPT ![c] = clock]
    /\ IF lease = NoCall
       THEN /\ lease' = c
            /\ expiry' = [expiry EXCEPT ![c] = clock + Ttl]
            /\ pc' = [pc EXCEPT ![c] = "fill"]
       ELSE /\ pc' = [pc EXCEPT ![c] = "inspect"]
            /\ UNCHANGED <<lease, expiry>>
    /\ UNCHANGED <<clock, alive, slot, written, tries, handle, session, refs,
                   lost, patching, expiring, current, overran, found, swept, undercut>>

\* The record is written and synced, and a new session is registered.
Fill(c) ==
    /\ Runs(c) /\ pc[c] = "fill"
    /\ written' = [written EXCEPT ![c] = TRUE]
    /\ expiry' = [expiry EXCEPT ![c] = stamp[c] + Ttl]
    /\ pc' = [pc EXCEPT ![c] = "held"]
    /\ handle' = [handle EXCEPT ![c] = c]
    /\ session' = [session EXCEPT ![c] = c]
    /\ refs' = [refs EXCEPT ![c] = 1]
    /\ current' = [current EXCEPT ![ProcOf(c)] = c]
    /\ UNCHANGED <<clock, alive, lease, slot, tries, stamp, lost, patching,
                   expiring, overran, found, swept, undercut>>

\* Mutant: one attempt too many.
Retry_OffByOne(c) ==
    /\ tries' = [tries EXCEPT ![c] = @ + 1]
    /\ pc' = [pc EXCEPT ![c] = IF tries[c] + 1 > MaxTries THEN "refused" ELSE "create"]

\* The next attempt, or a conflict after the last one.
Retry(c) ==
    /\ tries' = [tries EXCEPT ![c] = @ + 1]
    /\ pc' = [pc EXCEPT ![c] = IF tries[c] + 1 = MaxTries THEN "refused" ELSE "create"]

SameWindow(c) == lease /= NoCall /\ written[lease] /\ WindowOf[lease] = WindowOf[c]

\* The window's session in this process, NoCall when there is none.
OwnSession(c) ==
    LET s == current[ProcOf(c)] IN
    IF s /= NoCall /\ WindowOf[s] = WindowOf[c] THEN s ELSE NoCall

\* The record at the lease path is the window's, and unexpired or its session's.
CanJoin(c) ==
    SameWindow(c) /\ (\/ expiry[lease] > clock
                      \/ OwnSession(c) /= NoCall /\ session[OwnSession(c)] = lease)

\* inspect() found a record that the call may join: its handle joins the
\* window's session, or a new one on that record.
Reenter(c) ==
    /\ Runs(c) /\ pc[c] = "inspect" /\ CanJoin(c)
    /\ IF OwnSession(c) /= NoCall
       THEN /\ handle' = [handle EXCEPT ![c] = OwnSession(c)]
            /\ refs' = [refs EXCEPT ![OwnSession(c)] = @ + 1]
            /\ UNCHANGED <<session, current>>
       ELSE /\ handle' = [handle EXCEPT ![c] = c]
            /\ session' = [session EXCEPT ![c] = lease]
            /\ refs' = [refs EXCEPT ![c] = 1]
            /\ current' = [current EXCEPT ![ProcOf(c)] = c]
    /\ pc' = [pc EXCEPT ![c] = "held"]
    /\ UNCHANGED <<clock, alive, lease, slot, expiry, written, tries, stamp,
                   lost, patching, expiring, overran, found, swept, undercut>>

\* Mutant: an unexpired record does not stop a call.
Protected_Never == FALSE

\* The record at the lease path may not be taken over.
Protected == lease /= NoCall /\ expiry[lease] > clock /\ ~OwnerGone(lease)

\* inspect() found a record that is not the window's, or is expired.
Inspect(c) ==
    /\ Runs(c) /\ pc[c] = "inspect"
    /\ ~CanJoin(c)
    /\ pc' = [pc EXCEPT ![c] = IF Protected THEN "refused" ELSE "slot"]
    /\ found' = [found EXCEPT ![c] = lease]
    /\ UNCHANGED <<clock, alive, lease, slot, expiry, written, tries, stamp,
                   handle, session, refs, lost, patching, expiring, current, overran, swept, undercut>>

CheckSlot(c) ==
    /\ Runs(c) /\ pc[c] = "slot"
    /\ IF SlotReusable
       THEN pc' = [pc EXCEPT ![c] = "move"] /\ UNCHANGED tries
       ELSE Retry(c)
    /\ UNCHANGED <<clock, alive, lease, slot, expiry, written, stamp, handle,
                   session, refs, lost, patching, expiring, current, overran, found, swept, undercut>>

\* rename() of whatever file is at the lease path now.
Move(c) ==
    /\ Runs(c) /\ pc[c] = "move"
    /\ IF lease /= NoCall
       THEN /\ slot' = lease
            /\ lease' = NoCall
            /\ pc' = [pc EXCEPT ![c] = "recreate"]
            /\ swept' = (swept \/ lease /= found[c])
            /\ UNCHANGED tries
       ELSE Retry(c) /\ UNCHANGED <<slot, lease, swept>>
    /\ found' = [found EXCEPT ![c] = NoCall]
    /\ UNCHANGED <<clock, alive, expiry, written, stamp, handle, session,
                   refs, lost, patching, expiring, current, overran, undercut>>

\* The second createExclusiveLeaseFile(), with the record of this attempt.
Recreate(c) ==
    /\ Runs(c) /\ pc[c] = "recreate"
    /\ IF lease = NoCall
       THEN /\ lease' = c
            /\ expiry' = [expiry EXCEPT ![c] = clock + Ttl]
            /\ pc' = [pc EXCEPT ![c] = "fill"]
            /\ overran' = (overran \/ stamp[c] + Ttl <= clock)
            /\ UNCHANGED tries
       ELSE Retry(c) /\ UNCHANGED <<lease, expiry, overran>>
    /\ UNCHANGED <<clock, alive, slot, written, stamp, handle, session, refs,
                   lost, patching, expiring, current, found, swept, undercut>>

-----------------------------------------------------------------------------
(* Sessions: heartbeat and release                                         *)

\* The timer opens the file at the lease path and checks that it is its own.
Heartbeat(s) ==
    /\ Runs(s) /\ refs[s] > 0 /\ patching[s] = NoCall /\ ~lost[s]
    /\ IF Owns(s)
       THEN patching' = [patching EXCEPT ![s] = lease] /\ UNCHANGED lost
       ELSE lost' = [lost EXCEPT ![s] = TRUE] /\ UNCHANGED patching
    /\ UNCHANGED <<clock, alive, lease, slot, expiry, written, pc, tries,
                   stamp, handle, session, refs, expiring, current, overran, found, swept, undercut>>

\* The heartbeat's patch reaches the file it opened.
Patch(s) ==
    /\ Runs(s) /\ patching[s] /= NoCall
    /\ expiry' = [expiry EXCEPT ![patching[s]] = clock + Ttl]
    /\ patching' = [patching EXCEPT ![s] = NoCall]
    /\ found' = [c \in Calls |-> IF found[c] = patching[s] THEN NoCall ELSE found[c]]
    /\ UNCHANGED <<clock, alive, lease, slot, written, pc, tries, stamp,
                   handle, session, refs, lost, expiring, current, overran, swept, undercut>>

\* Mutant: the first release closes the session, whatever other handles it has.
LastHandle_Any(s) == TRUE

\* The handle that is released is the only one on session s.
LastHandle(s) == refs[s] = 1

\* The last handle closes its session; a session on its own file goes on to
\* expire it, if the file at the lease path is still that file.
Release(c) ==
    /\ Runs(c) /\ pc[c] = "held"
    /\ LET s == handle[c]
           last == LastHandle(s)
           opens == last /\ session[s] = s /\ Owns(s) IN
       /\ refs' = [refs EXCEPT ![s] = @ - 1]
       /\ current' = [p \in Processes |-> IF last /\ current[p] = s THEN NoCall ELSE current[p]]
       /\ expiring' = [expiring EXCEPT ![c] = IF opens THEN lease ELSE NoCall]
       /\ pc' = [pc EXCEPT ![c] = IF opens THEN "releasing" ELSE "done"]
    /\ UNCHANGED <<clock, alive, lease, slot, expiry, written, tries, stamp,
                   handle, session, lost, patching, overran, found, swept, undercut>>

\* Another session than the one that made the record f still has handles on it.
JoinedLater(f) == \E s \in Calls \ {f} : refs[s] > 0 /\ session[s] = f

\* The release's patch reaches the file it opened.
Expire(c) ==
    /\ Runs(c) /\ pc[c] = "releasing"
    /\ expiry' = [expiry EXCEPT ![expiring[c]] = clock]
    /\ expiring' = [expiring EXCEPT ![c] = NoCall]
    /\ pc' = [pc EXCEPT ![c] = "done"]
    /\ undercut' = (undercut \/ JoinedLater(expiring[c]))
    /\ UNCHANGED <<clock, alive, lease, slot, written, tries, stamp, handle,
                   session, refs, lost, patching, current, overran, found, swept>>

-----------------------------------------------------------------------------
Crash(p) ==
    /\ p \in Crashable /\ alive[p]
    /\ ~TornCreate => \A c \in Calls : ProcOf(c) = p => pc[c] /= "fill"
    /\ alive' = [alive EXCEPT ![p] = FALSE]
    /\ UNCHANGED <<clock, lease, slot, expiry, written, pc, tries, stamp,
                   handle, session, refs, lost, patching, expiring, current, overran, found, swept, undercut>>

\* The record that a call writes, or that a session uses, expires by t.
Overruns(c, t) ==
    Runs(c) /\ (\/ pc[c] = "fill" /\ stamp[c] + Ttl <= t
                \/ refs[c] > 0 /\ expiry[session[c]] <= t)

Tick ==
    /\ clock < MaxClock
    /\ clock' = clock + 1
    /\ overran' = (overran \/ \E c \in Calls : Overruns(c, clock + 1))
    /\ UNCHANGED <<alive, lease, slot, expiry, written, pc, tries, stamp,
                   handle, session, refs, lost, patching, expiring, current, found, swept, undercut>>

Acquire(c) ==
    Create(c) \/ Fill(c) \/ Reenter(c) \/ Inspect(c) \/ CheckSlot(c) \/ Move(c) \/ Recreate(c)

Next ==
    \/ \E c \in Calls :
          Call(c) \/ Acquire(c) \/ Heartbeat(c) \/ Patch(c) \/ Release(c) \/ Expire(c)
    \/ \E p \in Processes : Crash(p)
    \/ Tick

Spec == Init /\ [][Next]_vars

\* An acquire() that has begun goes on as long as its process runs.
FairSpec == Spec /\ \A c \in Calls : WF_vars(Acquire(c))

-----------------------------------------------------------------------------
(* Properties                                                              *)

TypeOK ==
    /\ clock \in 0..MaxClock
    /\ alive \in [Processes -> BOOLEAN]
    /\ lease \in Calls \cup {NoCall}
    /\ slot \in Calls \cup {NoCall}
    /\ expiry \in [Calls -> Nat]
    /\ written \in [Calls -> BOOLEAN]
    /\ pc \in [Calls -> Acquiring \cup {"idle", "held", "releasing", "done", "refused"}]
    /\ tries \in [Calls -> 0..MaxTries]
    /\ stamp \in [Calls -> 0..MaxClock]
    /\ handle \in [Calls -> Calls \cup {NoCall}]
    /\ session \in [Calls -> Calls \cup {NoCall}]
    /\ refs \in [Calls -> Nat]
    /\ lost \in [Calls -> BOOLEAN]
    /\ patching \in [Calls -> Calls \cup {NoCall}]
    /\ expiring \in [Calls -> Calls \cup {NoCall}]
    /\ current \in [Processes -> Calls \cup {NoCall}]
    /\ found \in [Calls -> Calls \cup {NoCall}]

\* assertHeld() of the handle of c would succeed.
AssertHeld(c) == Runs(c) /\ pc[c] = "held" /\ ~lost[handle[c]] /\ Owns(handle[c])

\* A handle that could not prove its lease never can again, whatever the same
\* window acquires later.
LostStaysLost == [][\A c \in Calls : pc[c] = "held" /\ AssertHeld(c)' => AssertHeld(c)]_vars

\* Nothing has gone wrong yet that lets two windows work: no record expired
\* under its user, no takeover moved a record that it had not inspected, and no
\* release ended a record that a session of the same window joined meanwhile.
Undisturbed == ~overran /\ ~swept /\ ~undercut

\* Only a window itself cuts the life of its record short or makes it longer,
\* whatever an old holder still has to write.  Undisturbed, a release sets out
\* to end a record only when no other handle is on it, and ends it only after
\* the session that made it has closed.  The window may re-enter between these
\* two steps: the release then ends the record under the new handle (undercut).
StaleHolderHarmless ==
    [][\A f \in Calls :
          /\ expiry'[f] < expiry[f] =>
                \/ pc[f] = "fill"
                \/ refs[f] = 0 /\ \E c \in Calls : expiring[c] = f /\ WindowOf[c] = WindowOf[f]
          /\ expiry'[f] > expiry[f] /\ expiry'[f] > clock /\ written[f] =>
                \E s \in Calls : WindowOf[s] = WindowOf[f] /\ patching[s] = f
          /\ Undisturbed /\ pc[f] = "held" /\ pc'[f] = "releasing" =>
                \A c \in Calls \ {f} :
                    pc[c] = "held" /\ Runs(c) => session[handle[c]] /= session[handle[f]]]_vars

\* An operation is running under a record that has not expired.
Working(c) == Runs(c) /\ pc[c] = "held" /\ expiry[session[handle[c]]] > clock

\* As long as every heartbeat comes in time, two windows never run operations
\* under unexpired records at one time.
SingleHolder == ~overran => \A c, d \in Calls : Working(c) /\ Working(d) => WindowOf[c] = WindowOf[d]

\* Two windows work at one time, with heartbeats in time and any number of
\* calls in each, only after one of two things: a takeover moved another
\* record than the expired one it had inspected (lines 186-197), or a release
\* ended a record that the same window had joined again (lines 157-183, 307).
SingleUnlessDisturbed == Undisturbed => SingleHolder

Begins(c) == pc[c] = "create" /\ tries[c] = 0 /\ ProcOf(c) \notin Crashable

\* After every other process is gone and its record has expired, a call
\* acquires the lease, unless a crash has left a file that names no owner.
Torn == \E f \in {lease, slot} \ {NoCall} : ~written[f]
RecoversFromCrash ==
    \A c \in Calls :
        (Begins(c) /\ ~Torn /\ \A d \in Calls \ {c} : ~Runs(d) /\ expiry[d] <= clock) ~> pc[c] = "held"
=============================================================================
