--------------------------- MODULE OperationQueue ---------------------------
(***************************************************************************)
(* The in-process queue of operations (src/core/OperationQueue.ts).        *)
(*                                                                         *)
(* A request is one call of enqueue(); it is named once and for all, and   *)
(* so are the promise and the history record that the call makes.  A       *)
(* request starts when none of its exclusive keys is in use, the first in  *)
(* the order of priority and arrival; a request with the coalesce key of   *)
(* an earlier one shares its promise.                                      *)
(*                                                                         *)
(* JavaScript runs a turn to completion, but run() is called inside pump() *)
(* and may itself call enqueue() or cancel() before it first awaits.  The  *)
(* calls in progress are on a stack; with an empty stack any event may     *)
(* come.                                                                   *)
(***************************************************************************)
EXTENDS Naturals, Sequences, FiniteSets

CONSTANTS
    Requests,        \* calls of enqueue()
    Ids,             \* operation ids
    Keys,            \* exclusive keys
    CoalesceKeys,    \* coalesce keys
    None,            \* no coalesce key, no record, no promise, no continuation
    IdOf,            \* the spec of a request: its id,
    KeysOf,          \*   its exclusive keys,
    RankOf,          \*   the rank of its priority, 0 first,
    CoalesceKeyOf,   \*   its coalesce key or None,
    Cancellable,     \*   whether it can be cancelled,
    Timed,           \*   whether it has a timeout
    HistoryLimit,    \* records kept
    MaxPending       \* requests that may wait

ASSUME SpecAssumption ==
    /\ None \notin Requests /\ None \notin CoalesceKeys
    /\ IdOf \in [Requests -> Ids]
    /\ KeysOf \in [Requests -> SUBSET Keys]
    /\ RankOf \in [Requests -> Nat]
    /\ CoalesceKeyOf \in [Requests -> CoalesceKeys \cup {None}]
    /\ Cancellable \subseteq Requests /\ Timed \subseteq Requests
ASSUME LimitsAssumption == HistoryLimit \in Nat \ {0} /\ MaxPending \in Nat \ {0}

VARIABLES
    pending,   \* the waiting requests, in the order they will be tried
    running,   \* the requests whose work has begun and has not settled
    cancelled, \* those of them that were cancelled
    timedOut,  \* those of them whose timer fired
    keyCount,  \* activeExclusiveKeyCounts
    coalesced, \* the promise registered under a coalesce key
    clearing,  \* settled promises whose clear reaction has not run
    records,   \* the history, oldest first
    status,    \* the status in a request's record
    latest,    \* latestRecordById
    answer,    \* what became of a request's promise
    promise,   \* the promise a request was given
    stack      \* calls in progress, innermost last

vars == <<pending, running, cancelled, timedOut, keyCount, coalesced, clearing,
          records, status, latest, answer, promise, stack>>

-----------------------------------------------------------------------------
Terminal == {"succeeded", "failed", "cancelled", "timeout", "coalesced"}

Elements(s) == {s[i] : i \in DOMAIN s}

\* The sequence s without the elements of a set, in the same order: what is
\* left at k has k - 1 that are left before it.  (Not SelectSeq, whose
\* recursion the proofs could not follow.)
Without(s, gone) ==
    LET left == {i \in DOMAIN s : s[i] \notin gone}
        nth(k) == CHOOSE i \in left : Cardinality({j \in left : j <= i}) = k
    IN  [k \in 1..Cardinality(left) |-> s[nth(k)]]

\* A turn of pump(), and what its caller registers when it returns.
Pump(r) == [call |-> "pump", req |-> r]
\* The synchronous part of a request's run().
Run(r) == [call |-> "run", req |-> r]

Inside(f) == stack /= <<>> /\ stack[Len(stack)] = f
Pumping == \E r \in Requests \cup {None} : Inside(Pump(r))
Caller == SubSeq(stack, 1, Len(stack) - 1)

\* enqueue() and cancel() are called by an event or by a request's run().
CanCall == stack = <<>> \/ \E r \in Requests : Inside(Run(r))

Init ==
    /\ pending = <<>>
    /\ running = {}
    /\ cancelled = {}
    /\ timedOut = {}
    /\ keyCount = [k \in Keys |-> 0]
    /\ coalesced = [k \in CoalesceKeys |-> None]
    /\ clearing = {}
    /\ records = <<>>
    /\ status = [r \in Requests |-> "none"]
    /\ latest = [i \in Ids |-> None]
    /\ answer = [r \in Requests |-> "none"]
    /\ promise = [r \in Requests |-> None]
    /\ stack = <<>>

-----------------------------------------------------------------------------
(* The history                                                             *)

\* Mutant: the oldest records are dropped, finished or not.
Dropped_Oldest(recs, st) ==
    {recs[i] : i \in {j \in DOMAIN recs : j + HistoryLimit <= Len(recs)}}

\* The terminal records that trimRecords() drops: the oldest ones, as many as
\* there are records beyond the limit.
Dropped(recs, st) ==
    {r \in Elements(recs) :
        /\ st[r] \in Terminal
        /\ \E i \in DOMAIN recs :
              /\ recs[i] = r
              /\ Cardinality({j \in 1..i : st[recs[j]] \in Terminal}) + HistoryLimit <= Len(recs)}

\* The newest of a sequence of records with an id.
Newest(recs, id) ==
    LET same == Without(recs, {r \in Requests : IdOf[r] /= id})
    IN  IF same = <<>> THEN None ELSE same[Len(same)]

\* The history becomes these records, trimmed, with their statuses and index.
History(recs, st, index) ==
    LET dropped == Dropped(recs, st)
        kept == Without(recs, dropped)
    IN  /\ records' = kept
        /\ status' = st
        /\ latest' = [i \in Ids |-> IF index[i] \in dropped THEN Newest(kept, i) ELSE index[i]]

Record(r, st) ==
    History(Append(records, r), [status EXCEPT ![r] = st], [latest EXCEPT ![IdOf[r]] = r])

Update(id, st) ==
    History(records,
            IF latest[id] = None THEN status ELSE [status EXCEPT ![latest[id]] = st],
            latest)

-----------------------------------------------------------------------------
(* enqueue()                                                               *)

IdActive(r) == \E q \in running \cup Elements(pending) : IdOf[q] = IdOf[r]

\* The promise that a request would share.
Shared(r) == IF CoalesceKeyOf[r] = None THEN None ELSE coalesced[CoalesceKeyOf[r]]

Refuse(r) ==
    /\ CanCall /\ answer[r] = "none"
    /\ IdActive(r) \/ (Shared(r) = None /\ Len(pending) >= MaxPending)
    /\ answer' = [answer EXCEPT ![r] = "refused"]
    /\ UNCHANGED <<pending, running, cancelled, timedOut, keyCount, coalesced,
                   clearing, records, status, latest, promise, stack>>

Join(r) ==
    /\ CanCall /\ answer[r] = "none" /\ ~IdActive(r)
    /\ Shared(r) /= None
    /\ Record(r, "coalesced")
    /\ answer' = [answer EXCEPT ![r] = "joined"]
    /\ promise' = [promise EXCEPT ![r] = Shared(r)]
    /\ UNCHANGED <<pending, running, cancelled, timedOut, keyCount, coalesced,
                   clearing, stack>>

\* Mutant: a request goes before the earlier ones of its priority.
Enlisted_Last(r) ==
    Without(pending, {q \in Requests : RankOf[q] >= RankOf[r]}) \o <<r>>
        \o Without(pending, {q \in Requests : RankOf[q] < RankOf[r]})

\* The waiting requests with r, as pump() sorts them: the sort is stable, and
\* r came last.
Enlisted(r) ==
    Without(pending, {q \in Requests : RankOf[q] > RankOf[r]}) \o <<r>>
        \o Without(pending, {q \in Requests : RankOf[q] <= RankOf[r]})

Accept(r) ==
    /\ CanCall /\ answer[r] = "none" /\ ~IdActive(r)
    /\ Shared(r) = None /\ Len(pending) < MaxPending
    /\ pending' = Enlisted(r)
    /\ Record(r, "queued")
    /\ answer' = [answer EXCEPT ![r] = "open"]
    /\ promise' = [promise EXCEPT ![r] = r]
    /\ stack' = Append(stack, Pump(r))
    /\ UNCHANGED <<running, cancelled, timedOut, keyCount, coalesced, clearing>>

-----------------------------------------------------------------------------
(* pump() and start()                                                      *)

\* Mutant: only a request that shares all its keys has to wait.
CanRun_AnyFree(r) == KeysOf[r] = {} \/ \E k \in KeysOf[r] : keyCount[k] = 0

CanRun(r) == \A k \in KeysOf[r] : keyCount[k] = 0

IsNext(r) ==
    \E i \in DOMAIN pending :
        pending[i] = r /\ CanRun(r) /\ \A j \in 1..(i - 1) : ~CanRun(pending[j])

Start(r) ==
    /\ Pumping /\ IsNext(r)
    /\ pending' = Without(pending, {r})
    /\ running' = running \cup {r}
    /\ keyCount' = [k \in Keys |-> IF k \in KeysOf[r] THEN keyCount[k] + 1 ELSE keyCount[k]]
    /\ Update(IdOf[r], "running")
    /\ stack' = Append(stack, Run(r))
    /\ UNCHANGED <<cancelled, timedOut, coalesced, clearing, answer, promise>>

\* run() returns its promise.
Return(r) ==
    /\ Inside(Run(r))
    /\ stack' = Caller
    /\ UNCHANGED <<pending, running, cancelled, timedOut, keyCount, coalesced,
                   clearing, records, status, latest, answer, promise>>

\* pump() finds nothing more to start; an enqueue() that called it registers
\* its promise.
PumpReturns(r) ==
    /\ Inside(Pump(r)) /\ \A q \in Elements(pending) : ~CanRun(q)
    /\ coalesced' = IF r /= None /\ CoalesceKeyOf[r] /= None
                    THEN [coalesced EXCEPT ![CoalesceKeyOf[r]] = r]
                    ELSE coalesced
    /\ stack' = Caller
    /\ UNCHANGED <<pending, running, cancelled, timedOut, keyCount, clearing,
                   records, status, latest, answer, promise>>

\* Mutant: nothing is pumped when work settles.
AfterSettling_NoPump(s) == s

\* The stack after work has settled with s under it.
AfterSettling(s) == Append(s, Pump(None))

\* Mutant: the keys of a request stay in use.
KeysLeft_Leaked(r) == keyCount

\* Mutant: the count of every key goes down.
KeysLeft_All(r) == [k \in Keys |-> keyCount[k] - 1]

\* removeActiveExclusiveKeys()
KeysLeft(r) == [k \in Keys |-> IF k \in KeysOf[r] THEN keyCount[k] - 1 ELSE keyCount[k]]

\* Mutant: a timeout is taken for the outcome only when the work fails.
Outcome_TimeoutLost(r, ok) ==
    IF ok THEN "resolved" ELSE "rejected"

\* How a request's promise settles when its work resolves or rejects.
Outcome(r, ok) == IF ok /\ r \notin timedOut THEN "resolved" ELSE "rejected"

FinalStatus(r, ok) ==
    IF r \in timedOut THEN "timeout"
    ELSE IF r \in cancelled THEN "cancelled"
    ELSE IF ok THEN "succeeded" ELSE "failed"

\* The work of r resolves or rejects; a run() that throws rejects at once.
Settle(r, ok) ==
    /\ r \in running
    /\ stack = <<>> \/ (Inside(Run(r)) /\ ~ok)
    /\ Update(IdOf[r], FinalStatus(r, ok))
    /\ answer' = [answer EXCEPT ![r] = Outcome(r, ok)]
    /\ clearing' = IF CoalesceKeyOf[r] = None THEN clearing ELSE clearing \cup {r}
    /\ running' = running \ {r}
    /\ cancelled' = cancelled \ {r}
    /\ timedOut' = timedOut \ {r}
    /\ keyCount' = KeysLeft(r)
    /\ stack' = AfterSettling(IF stack = <<>> THEN <<>> ELSE Caller)
    /\ UNCHANGED <<pending, coalesced, promise>>

\* Mutant: only a promise that resolved is cleared.
Clears_Resolved(r) == coalesced[CoalesceKeyOf[r]] = r /\ answer[r] = "resolved"

Clears(r) == coalesced[CoalesceKeyOf[r]] = r

\* The reaction of a settled promise.
Clear(r) ==
    /\ stack = <<>> /\ r \in clearing
    /\ clearing' = clearing \ {r}
    /\ coalesced' = IF Clears(r) THEN [coalesced EXCEPT ![CoalesceKeyOf[r]] = None] ELSE coalesced
    /\ UNCHANGED <<pending, running, cancelled, timedOut, keyCount, records,
                   status, latest, answer, promise, stack>>

-----------------------------------------------------------------------------
(* cancel() and timeouts                                                   *)

CancelRunning(r) ==
    /\ CanCall /\ r \in running \cap Cancellable
    /\ cancelled' = cancelled \cup {r}
    /\ Update(IdOf[r], "cancelling")
    /\ UNCHANGED <<pending, running, timedOut, keyCount, coalesced, clearing,
                   answer, promise, stack>>

CancelPending(r) ==
    /\ CanCall /\ r \in Elements(pending) \cap Cancellable
    /\ pending' = Without(pending, {r})
    /\ answer' = [answer EXCEPT ![r] = "rejected"]
    /\ clearing' = IF CoalesceKeyOf[r] = None THEN clearing ELSE clearing \cup {r}
    /\ Update(IdOf[r], "cancelled")
    /\ stack' = Append(stack, Pump(None))
    /\ UNCHANGED <<running, cancelled, timedOut, keyCount, coalesced, promise>>

Timeout(r) ==
    /\ stack = <<>> /\ r \in (running \cap Timed) \ timedOut
    /\ timedOut' = timedOut \cup {r}
    /\ Update(IdOf[r], "cancelling")
    /\ UNCHANGED <<pending, running, cancelled, keyCount, coalesced, clearing,
                   answer, promise, stack>>

-----------------------------------------------------------------------------
Advance == \E r \in Requests \cup {None} : PumpReturns(r) \/ (r \in Requests /\ (Start(r) \/ Return(r)))

Next ==
    \/ \E r \in Requests :
          \/ Refuse(r) \/ Join(r) \/ Accept(r)
          \/ Settle(r, TRUE) \/ Settle(r, FALSE) \/ Clear(r)
          \/ CancelRunning(r) \/ CancelPending(r) \/ Timeout(r)
    \/ Advance

Spec == Init /\ [][Next]_vars

\* A turn runs to its end, the reactions of a settled promise run, and all
\* work settles in the end.
FairSpec ==
    /\ Spec /\ WF_vars(Advance)
    /\ \A r \in Requests :
          WF_vars(Clear(r)) /\ WF_vars(Settle(r, TRUE) \/ Settle(r, FALSE))

-----------------------------------------------------------------------------
(* Properties                                                              *)

TypeOK ==
    /\ pending \in Seq(Requests)
    /\ running \subseteq Requests
    /\ cancelled \subseteq running
    /\ timedOut \subseteq running
    /\ keyCount \in [Keys -> Nat]
    /\ coalesced \in [CoalesceKeys -> Requests \cup {None}]
    /\ clearing \subseteq Requests
    /\ records \in Seq(Requests)
    /\ status \in [Requests -> Terminal \cup {"none", "queued", "running", "cancelling"}]
    /\ latest \in [Ids -> Requests \cup {None}]
    /\ answer \in [Requests -> {"none", "refused", "joined", "open", "resolved", "rejected"}]
    /\ promise \in [Requests -> Requests \cup {None}]
    /\ stack \in Seq([call : {"pump", "run"}, req : Requests \cup {None}])

\* Two requests that share an exclusive key are never at work at one time: a
\* request that was cancelled or timed out keeps its keys until its work has
\* settled (start()'s finally block).
ExclusiveAccess ==
    \A r, q \in running : r /= q => KeysOf[r] \cap KeysOf[q] = {}

\* Between turns no waiting request could run: no settling, cancelling or
\* re-entrant call leaves one behind (pump() in start(), cancel(), enqueue()).
NoIdleWork == stack = <<>> => \A r \in Elements(pending) : ~CanRun(r)

\* The history lists r before q.
CameFirst(r, q) == \E i, j \in DOMAIN records : i < j /\ records[i] = r /\ records[j] = q

\* A request never starts while an earlier request of its priority, or any
\* request of a higher one, waits and could run.
NoOvertaking ==
    [][\A r \in running' \ running : \A q \in Elements(pending) \ {r} :
          CanRun(q) => RankOf[r] < RankOf[q] \/ (RankOf[r] = RankOf[q] /\ CameFirst(r, q))]_vars

\* However the history is trimmed, a waiting or running request stays listed,
\* as the latest record of its id, and no other such request has that id
\* (trimRecords(), and the duplicate check of enqueue()).
ActiveIsListed ==
    \A r \in running \cup Elements(pending) :
        r \in Elements(records) /\ latest[IdOf[r]] = r

\* Although records are found by id, and ids are used again, a request's record
\* follows that request, and no other, through queue and work; and what it says
\* in the end fits what the caller got.  "succeeded" is a promise that resolved,
\* "failed" and "timeout" one that rejected.  "cancelled" does not tell: the
\* work of a cancelled request may still resolve, and its promise then resolves
\* under that record (start(), lines 180-181).  But only a request that may be
\* cancelled ends as cancelled, and only one with a timer as timed out.
RecordFitsAnswer ==
    \A r \in Requests :
        /\ r \in Elements(pending) <=> status[r] = "queued"
        /\ r \in running <=> status[r] \in {"running", "cancelling"}
        /\ r \in cancelled \cup timedOut <=> status[r] = "cancelling"
        /\ answer[r] = "open" <=> status[r] \in {"queued", "running", "cancelling"}
        /\ answer[r] = "joined" <=> status[r] = "coalesced"
        /\ status[r] = "succeeded" => answer[r] = "resolved"
        /\ status[r] = "failed" => answer[r] = "rejected"
        /\ status[r] = "timeout" => answer[r] = "rejected" /\ r \in Timed
        /\ status[r] = "cancelled" => answer[r] \in {"resolved", "rejected"} /\ r \in Cancellable

\* The promise of a queued request settles.
EventuallyAnswered ==
    \A r \in Requests : answer[r] = "open" ~> answer[r] \in {"resolved", "rejected"}

\* A settled promise does not keep its coalesce key, however it settled, so
\* later requests with the key run again (the two branches of clear).
KeyIsFreed ==
    \A k \in CoalesceKeys : \A r \in Requests :
        (coalesced[k] = r /\ answer[r] /= "open") ~> coalesced[k] /= r
=============================================================================
