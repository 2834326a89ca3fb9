------------------------- MODULE PlanDispatch_proofs -------------------------
(***************************************************************************)
(* Proofs about PlanDispatch for any jobs, projects, windows, cards, quota *)
(* and number of new commands: first the life of a command, then that no   *)
(* card is promised too often, and that PlanDispatch implements            *)
(* SlotPromise.                                                            *)
(***************************************************************************)
EXTENDS PlanDispatch, FiniteSetTheorems, Functions, TLAPS

BoundTo(j, n) == disk[j].st = "bound" /\ disk[j].n = n
SameCommand(d, e) == d.job = e.job /\ d.n = e.n
Sending(j, n) == \E w \in Windows : \E d \in sends[w] : d.job = j /\ d.n = n

(* Command ids of a job only grow, and none is used before its row has it. *)
IdsGrow ==
    /\ \A j \in Jobs : /\ disk[j].n <= MaxFresh[j]
                       /\ disk[j].want = "recall" => disk[j].n < MaxFresh[j]
    /\ \A w \in Windows : \A d \in sends[w] : d.n <= disk[d.job].n
    /\ \A c \in posts : c[2] <= disk[c[1]].n

(* Nothing was sent for a job that waits in the queue, and nobody will.    *)
PendingIsUntouched ==
    \A j \in Jobs : disk[j].st = "pending" =>
        <<j, disk[j].n>> \notin posts /\ ~Sending(j, disk[j].n)

(* A dispatch is in one window's hands, once, until it is sent.            *)
SentOnce ==
    \A w \in Windows : \A d \in sends[w] :
        /\ <<d.job, d.n>> \notin posts
        /\ \A v \in Windows : \A e \in sends[v] : SameCommand(d, e) => v = w /\ e = d

(* A row keeps a command that is sent, or will be, until it is cancelled.  *)
RowIsKept ==
    \A c \in Commands : task[c] # "cancelled" /\ (c \in posts \/ Sending(c[1], c[2]))
        => BoundTo(c[1], c[2])

(* A worker has nothing that it was not sent.                              *)
TasksWereSent == \A c \in Commands : task[c] \notin {"new", "cancelled"} => c \in posts

(* Evidence on disk, or about to be written, is of what has happened.      *)
ProofIsTrue == \A j \in Jobs : disk[j].st = "bound" /\ disk[j].proof => Ended(<<j, disk[j].n>>)

(* What a window does to take a job from the worker is in order.           *)
CtlIsTrue ==
    \A w \in Windows : ctl[w] # NoCtl =>
        /\ ctl[w].n <= MaxFresh[ctl[w].job]
        /\ ctl[w].kind # "stop" => ctl[w].n < MaxFresh[ctl[w].job]
        /\ ctl[w].ph = "confirmed" => task[Target(w)] = "cancelled"

(* What a round will write differs from what it has read as it may.        *)
MayWrite(j, row, new) ==
    /\ new.n = row.n /\ new.n \in 0 .. MaxFresh[j]
    /\ row.st = "bound" =>
          /\ new.st = "bound" /\ new.want = row.want
          /\ row.proof => new.proof
          /\ new.proof => Ended(<<j, new.n>>)
    /\ row.st = "pending" =>
          /\ new.st \in {"pending", "bound"} /\ new.want \in {row.want, "none"}
          /\ new.st = "bound" => ~new.proof /\ new.card \in Cards
    /\ row.st = "gone" => new = row
CopiesAreFaithful ==
    \A w \in Windows : round[w] \in {"planned", "publish"} =>
        \A j \in Mine(w) : MayWrite(j, base[w][j], copy[w][j])

Facts == IdsGrow /\ PendingIsUntouched /\ SentOnce /\ RowIsKept /\ TasksWereSent /\ ProofIsTrue

IInv == TypeOK /\ Facts /\ CtlIsTrue /\ CopiesAreFaithful

-----------------------------------------------------------------------------
(* A command id is a job and a number within its bound.                    *)
LEMMA CommandsAre ==
    /\ \A j \in Jobs : \A n \in 0 .. MaxFresh[j] : <<j, n>> \in Commands
    /\ \A c \in Commands : c[1] \in Jobs /\ c[2] \in 0 .. MaxFresh[c[1]] /\ c = <<c[1], c[2]>>
<1>1. \A j \in Jobs : \A n \in 0 .. MaxFresh[j] : <<j, n>> \in Commands
  <2>1. SUFFICES ASSUME NEW j \in Jobs, NEW n \in 0 .. MaxFresh[j] PROVE <<j, n>> \in Commands
    OBVIOUS
  <2>2. {j} \X (0 .. MaxFresh[j]) \in {{i} \X (0 .. MaxFresh[i]) : i \in Jobs}
    OBVIOUS
  <2>3. <<j, n>> \in {j} \X (0 .. MaxFresh[j])
    OBVIOUS
  <2> QED BY <2>2, <2>3 DEF Commands
<1>2. \A c \in Commands : c[1] \in Jobs /\ c[2] \in 0 .. MaxFresh[c[1]] /\ c = <<c[1], c[2]>>
  BY DEF Commands
<1> QED BY <1>1, <1>2

(* The rows that the code writes afresh.                                   *)
LEMMA NewRows ==
    \A n \in Nat :
        /\ Pending(n) \in Row /\ Pending(n).st = "pending" /\ Pending(n).n = n
        /\ Pending(n).want = "none" /\ Pending(n).proof = FALSE
        /\ Gone(n) \in Row /\ Gone(n).st = "gone" /\ Gone(n).n = n
        /\ Gone(n).want = "none" /\ Gone(n).proof = FALSE
        /\ \A k \in Cards : /\ Bound(n, k) \in Row /\ Bound(n, k).st = "bound" /\ Bound(n, k).n = n
                            /\ Bound(n, k).want = "none" /\ Bound(n, k).proof = FALSE
                            /\ Bound(n, k).card = k
BY DEF NewRow, Pending, Gone, Bound, Row

(* Initially nothing was sent and no round has begun.                      *)
LEMMA InitIsRight == Init => IInv
<1> SUFFICES ASSUME Init PROVE IInv
  OBVIOUS
<1>1. TypeOK
  <2>1. disk \in [Jobs -> Row]
    BY NewRows DEF Init
  <2>2. task \in [Commands -> Tasks]
    BY DEF Init, Tasks
  <2>3. sends \in [Windows -> SUBSET [job : Jobs, n : Nat, card : Cards, ph : {"new", "armed", "unsent"}]]
    BY DEF Init
  <2>4. DOMAIN base = Windows /\ DOMAIN copy = Windows
    BY DEF Init
  <2> QED BY <2>1, <2>2, <2>3, <2>4, Typing DEF Init, TypeOK
<1>2. \A j \in Jobs : disk[j].n = 0 /\ disk[j].want = "none" /\ disk[j].st # "bound"
  BY NewRows DEF Init
<1>3. IdsGrow
  BY <1>2, Bounds DEF Init, IdsGrow
<1>4. PendingIsUntouched /\ SentOnce /\ RowIsKept
  BY DEF Init, PendingIsUntouched, SentOnce, RowIsKept, Sending
<1>5. TasksWereSent /\ ProofIsTrue
  BY <1>2 DEF Init, TasksWereSent, ProofIsTrue
<1>6. CtlIsTrue /\ CopiesAreFaithful
  BY DEF Init, CtlIsTrue, CopiesAreFaithful
<1> QED BY <1>1, <1>3, <1>4, <1>5, <1>6 DEF IInv, Facts

-----------------------------------------------------------------------------
(* The five kinds of steps, by what they do to what is shared.             *)

(* A window's dispatches become fewer, or another phase.                   *)
SendsFewer ==
    \A w \in Windows :
        /\ \A d \in sends'[w] : \E e \in sends[w] : SameCommand(d, e)
        /\ \A d, e \in sends'[w] : SameCommand(d, e) => d = e

Quiet == UNCHANGED <<disk, posts, task>> /\ SendsFewer

Posting == \E w \in Windows : \E d \in sends[w] :
    /\ posts' = posts \cup {<<d.job, d.n>>}
    /\ sends' = [sends EXCEPT ![w] = @ \ {d}]
    /\ UNCHANGED <<disk, task>>

Marked(j) ==   \* an intent is saved
    /\ disk[j].st = "bound" /\ disk[j].want = "none"
    /\ disk'[j].st = "bound" /\ disk'[j].n = disk[j].n /\ disk'[j].proof = disk[j].proof
    /\ disk'[j].card = disk[j].card /\ disk'[j].consent = disk[j].consent
    /\ disk'[j].intent = disk[j].intent /\ disk'[j].want # "none"
    /\ disk'[j].want = "recall" => disk[j].n < MaxFresh[j]
Returned(j) == \* a job that was not sent
    /\ disk[j].st = "bound" /\ disk[j].want = "none" /\ disk'[j] = Pending(disk[j].n)
    /\ <<j, disk[j].n>> \notin posts
    /\ \A w \in Windows : \A d \in sends'[w] : ~(d.job = j /\ d.n = disk[j].n)
Renewed(j) ==  \* a job gets another command
    /\ disk[j].n < MaxFresh[j] /\ disk'[j] = Pending(disk[j].n + 1)
    /\ disk[j].st = "gone" \/ task[<<j, disk[j].n>>] = "cancelled"
Removed(j) ==
    /\ disk'[j] = Gone(disk[j].n)
    /\ disk[j].st # "bound" \/ task[<<j, disk[j].n>>] = "cancelled"

RowSaved == \E j \in Jobs :
    /\ \A i \in Jobs \ {j} : disk'[i] = disk[i]
    /\ Marked(j) \/ Returned(j) \/ Renewed(j) \/ Removed(j)
    /\ SendsFewer
    /\ UNCHANGED <<posts, task>>

RoundSaved == \E w \in Windows :
    /\ \A j \in Jobs : IF j \in Mine(w) THEN MayWrite(j, disk[j], disk'[j]) ELSE disk'[j] = disk[j]
    /\ \A v \in Windows \ {w} : sends'[v] = sends[v]
    /\ \A d \in sends'[w] : d \in sends[w] \/
          /\ d.job \in Mine(w) /\ disk[d.job].st = "pending"
          /\ disk'[d.job].st = "bound" /\ disk'[d.job].n = d.n
    /\ \A d, e \in sends'[w] : SameCommand(d, e) /\ d \notin sends[w] /\ e \notin sends[w] => d = e
    /\ UNCHANGED <<posts, task>>

Working == \E c \in Commands :
    /\ \A b \in Commands \ {c} : task'[b] = task[b]
    /\ task'[c] # "new"
    /\ task[c] = "cancelled" => task'[c] = "cancelled"
    /\ Ended(c) => task'[c] \in {"ok", "failed", "closed ok", "closed failed", "cancelled"}
    /\ task'[c] # "cancelled" => c \in posts
    /\ task'[c] \in {"opening", "live"} => task[c] \in {"new", "opening"}
    /\ task'[c] = "cancelled" => c \in stops
    /\ UNCHANGED <<disk, sends, posts>>

-----------------------------------------------------------------------------
Send == [job : Jobs, n : Nat, card : Cards, ph : {"new", "armed", "unsent"}]

(* Being of the same command is an equivalence.                            *)
LEMMA SameCommandIsEquivalence ==
    /\ \A d : SameCommand(d, d)
    /\ \A d, e : SameCommand(d, e) => SameCommand(e, d)
    /\ \A d, e, f : SameCommand(d, e) /\ SameCommand(e, f) => SameCommand(d, f)
BY DEF SameCommand

(* A fence keeps the commands of what it keeps.                            *)
LEMMA FenceKeepsCommands ==
    ASSUME TypeOK, SentOnce, NEW w \in Windows, NEW s \in SUBSET sends[w], FenceRound(w, s)
    PROVE  SendsFewer /\ \A d \in sends'[w] : \E e \in s : SameCommand(d, e)
<1>1. sends \in [Windows -> SUBSET Send] /\ s \subseteq Send
  BY DEF TypeOK, Send
<1>2. sends'[w] = Unposted(s) /\ \A v \in Windows \ {w} : sends'[v] = sends[v]
  BY <1>1 DEF FenceRound
<1>3. \A d \in sends'[w] : \E e \in s : d = [e EXCEPT !.ph = "unsent"]
  BY <1>2 DEF Unposted
<1>4. \A e \in s : SameCommand([e EXCEPT !.ph = "unsent"], e)
  BY <1>1 DEF SameCommand, Send
<1>5. \A d, e \in sends'[w] : SameCommand(d, e) => d = e
  <2>1. SUFFICES ASSUME NEW d \in sends'[w], NEW e \in sends'[w], SameCommand(d, e) PROVE d = e
    OBVIOUS
  <2>2. PICK d0 \in s : d = [d0 EXCEPT !.ph = "unsent"]
    BY <1>3
  <2>3. PICK e0 \in s : e = [e0 EXCEPT !.ph = "unsent"]
    BY <1>3
  <2>4. SameCommand(d, d0) /\ SameCommand(e, e0)
    BY <1>4, <2>2, <2>3
  <2>5. SameCommand(d0, e0)
    BY <2>1, <2>4 DEF SameCommand
  <2>6. d0 = e0
    BY <2>5 DEF SentOnce
  <2> QED BY <2>2, <2>3, <2>6
<1>6. \A v \in Windows : \A d, e \in sends[v] : SameCommand(d, e) => d = e
  BY DEF SentOnce
<1> QED BY <1>2, <1>3, <1>4, <1>5, <1>6, SameCommandIsEquivalence DEF SendsFewer

(* When no window has a dispatch that it did not have, they are fewer.     *)
LEMMA SubsetsAreFewer ==
    ASSUME SentOnce, \A v \in Windows : sends'[v] \subseteq sends[v] PROVE SendsFewer
<1>1. \A w \in Windows : \A d \in sends'[w] : \E e \in sends[w] : SameCommand(d, e)
  BY SameCommandIsEquivalence
<1>2. \A w \in Windows : \A d, e \in sends'[w] : SameCommand(d, e) => d = e
  BY DEF SentOnce
<1> QED BY <1>1, <1>2 DEF SendsFewer

LEMMA GuardIsQuiet ==
    ASSUME TypeOK, SentOnce, NEW w \in Windows, NEW d \in sends[w], Guard(w, d) PROVE Quiet
<1>1. sends \in [Windows -> SUBSET Send]
  BY DEF TypeOK, Send
<1> DEFINE armed == [d EXCEPT !.ph = "armed"]
<1>2. sends'[w] = (sends[w] \ {d}) \cup {armed} /\ \A v \in Windows \ {w} : sends'[v] = sends[v]
  BY <1>1 DEF Guard
<1>3. SameCommand(armed, d)
  BY <1>1 DEF SameCommand, Send
<1> HIDE DEF armed
<1>4. SendsFewer
  <2>1. \A v \in Windows : \A e \in sends'[v] : \E f \in sends[v] : SameCommand(e, f)
    BY <1>2, <1>3, SameCommandIsEquivalence
  <2>2. \A e \in sends[w] : SameCommand(e, armed) => e = d
    <3>1. SUFFICES ASSUME NEW e \in sends[w], SameCommand(e, armed) PROVE e = d
      OBVIOUS
    <3>2. SameCommand(d, e)
      BY <1>3, <3>1, SameCommandIsEquivalence
    <3> QED BY <3>2 DEF SentOnce
  <2>3. \A v \in Windows : \A e, f \in sends[v] : SameCommand(e, f) => e = f
    BY DEF SentOnce
  <2>4. \A e, f \in sends'[w] : SameCommand(e, f) => e = f
    BY <1>2, <2>2, <2>3, SameCommandIsEquivalence
  <2> QED BY <1>2, <2>1, <2>3, <2>4 DEF SendsFewer
<1> QED BY <1>4 DEF Guard, Quiet

LEMMA ReleaseIs ==
    ASSUME TypeOK, Facts, NEW w \in Windows, NEW d \in sends[w], Release(w, d)
    PROVE  Quiet \/ RowSaved
<1>1. sends \in [Windows -> SUBSET Send] /\ disk \in [Jobs -> Row] /\ SentOnce
  BY DEF TypeOK, Send, Facts
<1>2. d.job \in Jobs
  BY <1>1 DEF Send
<1>3. CASE Releasable(d)
  <2>1. FenceRound(w, sends[w] \ {d}) /\ disk' = [disk EXCEPT ![d.job] = Pending(d.n)] /\ UNCHANGED <<posts, task>>
    BY <1>3 DEF Release
  <2>2. SendsFewer /\ \A e \in sends'[w] : \E e0 \in sends[w] \ {d} : SameCommand(e, e0)
    BY <1>1, <2>1, FenceKeepsCommands
  <2>3. disk[d.job].st = "bound" /\ disk[d.job].n = d.n /\ disk[d.job].want = "none"
    BY <1>3 DEF Releasable
  <2>4. \A v \in Windows : \A e \in sends'[v] : ~SameCommand(e, d)
    <3>1. \A v \in Windows \ {w} : sends'[v] = sends[v]
      BY <1>1, <2>1 DEF FenceRound
    <3>2. \A e \in sends'[w] : ~SameCommand(e, d)
      <4>1. SUFFICES ASSUME NEW e \in sends'[w], SameCommand(e, d) PROVE FALSE
        OBVIOUS
      <4>2. PICK e0 \in sends[w] \ {d} : SameCommand(e, e0)
        BY <2>2
      <4>3. SameCommand(d, e0)
        BY <4>1, <4>2, SameCommandIsEquivalence
      <4> QED BY <1>1, <4>2, <4>3 DEF SentOnce
    <3>3. \A v \in Windows \ {w} : \A e \in sends[v] : ~SameCommand(e, d)
      BY <1>1 DEF SentOnce
    <3> QED BY <3>1, <3>2, <3>3
  <2>5. <<d.job, d.n>> \notin posts
    BY <1>1 DEF SentOnce
  <2>6. Returned(d.job)
    BY <1>1, <1>2, <2>1, <2>3, <2>4, <2>5 DEF Returned, SameCommand
  <2>7. \A i \in Jobs \ {d.job} : disk'[i] = disk[i]
    BY <1>1, <1>2, <2>1
  <2> QED BY <1>2, <2>1, <2>2, <2>6, <2>7 DEF RowSaved
<1>4. CASE ~Releasable(d)
  <2>1. sends' = [sends EXCEPT ![w] = @ \ {d}] /\ UNCHANGED <<disk, posts, task>>
    BY <1>4 DEF Release
  <2>2. \A v \in Windows : sends'[v] \subseteq sends[v]
    BY <1>1, <2>1
  <2>3. SendsFewer
    BY <1>1, <2>2, SubsetsAreFewer
  <2> QED BY <2>1, <2>3 DEF Quiet
<1> QED BY <1>3, <1>4

LEMMA PublishIs ==
    ASSUME TypeOK, SentOnce, CopiesAreFaithful, NEW w \in Windows, Publish(w) PROVE Quiet \/ RoundSaved
<1>1. sends \in [Windows -> SUBSET Send] /\ disk \in [Jobs -> Row]
  BY DEF TypeOK, Send
<1>2. UNCHANGED <<posts, task>>
  BY DEF Publish
<1>3. CASE round[w] = "publish" /\ DiskIsBase(w)
  <2> DEFINE new == {[job |-> j, n |-> copy[w][j].n, card |-> copy[w][j].card, ph |-> "new"] : j \in Dispatched(w)}
  <2>1. disk' = [j \in Jobs |-> IF j \in Mine(w) THEN copy[w][j] ELSE disk[j]]
    BY <1>3 DEF Publish
  <2>2. sends'[w] = sends[w] \cup new /\ \A v \in Windows \ {w} : sends'[v] = sends[v]
    BY <1>1, <1>3 DEF Publish
  <2>3. \A j \in Mine(w) : MayWrite(j, base[w][j], copy[w][j]) /\ base[w][j] = disk[j]
    BY <1>3 DEF CopiesAreFaithful, DiskIsBase
  <2>4. Mine(w) \subseteq Jobs
    BY DEF Mine, JobsOf
  <2>5. \A j \in Jobs : IF j \in Mine(w) THEN MayWrite(j, disk[j], disk'[j]) ELSE disk'[j] = disk[j]
    BY <2>1, <2>3
  <2>6. copy[w] \in [Mine(w) -> Row]
    BY <1>3 DEF TypeOK
  <2>7. \A d \in new : /\ d.job \in Mine(w) /\ disk[d.job].st = "pending"
                       /\ disk'[d.job].st = "bound" /\ disk'[d.job].n = d.n
    <3>1. SUFFICES ASSUME NEW j \in Dispatched(w)
                   PROVE  j \in Mine(w) /\ disk[j].st = "pending" /\ disk'[j].st = "bound" /\ disk'[j].n = copy[w][j].n
      OBVIOUS
    <3>2. j \in Mine(w) /\ copy[w][j].st = "bound" /\ base[w][j].st = "pending"
      BY <2>6 DEF Dispatched
    <3> QED BY <2>1, <2>3, <2>4, <3>2
  <2>8. \A d, e \in new : SameCommand(d, e) => d = e
    BY DEF SameCommand
  <2> HIDE DEF new
  <2>9. \A d \in sends'[w] : d \in sends[w] \/ d \in new
    BY <2>2
  <2>10. \A d, e \in sends'[w] : SameCommand(d, e) /\ d \notin sends[w] /\ e \notin sends[w] => d = e
    BY <2>8, <2>9
  <2> QED BY <1>2, <2>2, <2>5, <2>7, <2>9, <2>10 DEF RoundSaved
<1>4. CASE ~(round[w] = "publish" /\ DiskIsBase(w))
  <2>1. UNCHANGED <<disk, sends>>
    BY <1>4 DEF Publish
  <2> QED BY <1>2, <2>1, SubsetsAreFewer DEF Quiet
<1> QED BY <1>3, <1>4

LEMMA MarkIs ==
    ASSUME TypeOK, SentOnce, NEW w \in Windows, NEW j \in Jobs, Stop(w, j) \/ Recall(w, j)
    PROVE  RowSaved
<1>1. sends \in [Windows -> SUBSET Send] /\ disk \in [Jobs -> Row]
  BY DEF TypeOK, Send
<1>2. disk[j].st = "bound" /\ disk[j].want = "none" /\ UNCHANGED <<posts, task>>
  BY DEF Stop, Recall, BoundHere
<1>3. SendsFewer
  <2>1. CASE Stop(w, j)
    BY <2>1, FenceKeepsCommands DEF Stop
  <2>2. CASE Recall(w, j)
    BY <2>2, SubsetsAreFewer DEF Recall, local
  <2> QED BY <2>1, <2>2
<1>4. \A i \in Jobs \ {j} : disk'[i] = disk[i]
  BY <1>1 DEF Stop, Recall
<1>5. /\ disk'[j].st = "bound" /\ disk'[j].n = disk[j].n /\ disk'[j].proof = disk[j].proof
      /\ disk'[j].card = disk[j].card /\ disk'[j].consent = disk[j].consent
      /\ disk'[j].intent = disk[j].intent /\ disk'[j].want # "none"
  BY <1>1, <1>2 DEF Stop, Recall, Row
<1>6. disk'[j].want = "recall" => disk[j].n < MaxFresh[j]
  BY <1>1 DEF Stop, Recall, Row, Fresh
<1> QED BY <1>2, <1>3, <1>4, <1>5, <1>6 DEF RowSaved, Marked

LEMMA SettleIs ==
    ASSUME TypeOK, Facts, CtlIsTrue, NEW w \in Windows, Settle(w) PROVE Quiet \/ RowSaved
<1> DEFINE j == ctl[w].job
           same == disk[j].st = "bound" /\ disk[j].n = ctl[w].n
<1>1. sends \in [Windows -> SUBSET Send] /\ disk \in [Jobs -> Row] /\ SentOnce
  BY DEF TypeOK, Send, Facts
<1>2. ctl[w] # NoCtl /\ j \in Jobs /\ task[<<j, ctl[w].n>>] = "cancelled"
  BY DEF TypeOK, CtlIsTrue, Settle, At, Target
<1>3. UNCHANGED <<posts, task>>
  BY DEF Settle
<1>4. SendsFewer
  <2>1. CASE same /\ ctl[w].kind = "requeue"
    BY <1>1, <2>1, FenceKeepsCommands DEF Settle
  <2>2. CASE ~(same /\ ctl[w].kind = "requeue")
    BY <1>1, <2>2, SubsetsAreFewer DEF Settle, local
  <2> QED BY <2>1, <2>2
<1>5. CASE ~same
  BY <1>3, <1>4, <1>5 DEF Settle, Quiet
<1>6. CASE same
  <2>1. disk' = [disk EXCEPT ![j] = IF ctl[w].kind = "stop" THEN Gone(disk[j].n) ELSE Pending(disk[j].n + 1)]
    BY <1>6 DEF Settle
  <2>2. Removed(j) \/ Renewed(j)
    BY <1>1, <1>2, <1>6, <2>1 DEF Removed, Renewed, CtlIsTrue
  <2>3. \A i \in Jobs \ {j} : disk'[i] = disk[i]
    BY <1>1, <2>1
  <2> QED BY <1>2, <1>3, <1>4, <2>2, <2>3 DEF RowSaved
<1> QED BY <1>5, <1>6

LEMMA UserQueueIs ==
    ASSUME TypeOK, SentOnce, NEW w \in Windows, NEW j \in Jobs, RemovePending(w, j) \/ Append(w, j)
    PROVE  RowSaved
<1>1. sends \in [Windows -> SUBSET Send] /\ disk \in [Jobs -> Row]
  BY DEF TypeOK, Send
<1>2. SendsFewer /\ UNCHANGED <<posts, task>>
  BY FenceKeepsCommands DEF RemovePending, Append
<1>3. Removed(j) \/ Renewed(j)
  BY <1>1, Bounds DEF RemovePending, Append, Removed, Renewed, Fresh
<1>4. \A i \in Jobs \ {j} : disk'[i] = disk[i]
  BY <1>1 DEF RemovePending, Append
<1> QED BY <1>2, <1>3, <1>4 DEF RowSaved

LEMMA WorkerIs ==
    ASSUME TypeOK, TasksWereSent, NEW c \in Commands, WorkerStep(c) \/ CloseWindow(c) PROVE Working
<1>1. task \in [Commands -> Tasks]
  BY DEF TypeOK
<1>2. UNCHANGED <<disk, sends, posts>> /\ \A b \in Commands \ {c} : task'[b] = task[b]
  BY <1>1 DEF WorkerStep, Accept, OpenWindow, Cancel, Restart, Finish, CloseWindow, Worker, local
<1>3. /\ task'[c] # "new"
      /\ task[c] = "cancelled" => task'[c] = "cancelled"
      /\ Ended(c) => task'[c] \in {"ok", "failed", "closed ok", "closed failed", "cancelled"}
      /\ task'[c] # "cancelled" => c \in posts
      /\ task'[c] \in {"opening", "live"} => task[c] \in {"new", "opening"}
      /\ task'[c] = "cancelled" => c \in stops
  <2>1. CASE Accept(c)
    BY <1>1, <2>1 DEF Accept, Ended
  <2>2. CASE OpenWindow(c) \/ Restart(c) \/ Finish(c)
    BY <1>1, <2>2 DEF OpenWindow, Restart, Finish, Ended, TasksWereSent
  <2>3. CASE Cancel(c)
    BY <1>1, <2>3 DEF Cancel
  <2>4. CASE CloseWindow(c)
    <3>1. task[c] \in Windowed /\ task' = [task EXCEPT ![c] = CASE @ = "ok" -> "closed ok"
                [] @ = "failed" -> "closed failed" [] OTHER -> "closed"]
      BY <2>4 DEF CloseWindow
    <3>2. c \in posts
      BY <3>1 DEF TasksWereSent, Windowed
    <3> QED BY <1>1, <3>1, <3>2 DEF Ended, Windowed
  <2> QED BY <2>1, <2>2, <2>3, <2>4 DEF WorkerStep
<1> QED BY <1>2, <1>3 DEF Working

LEMMA PostIs == ASSUME NEW w \in Windows, NEW d \in sends[w], Post(w, d) PROVE Posting
BY DEF Post, Posting

LEMMA DetachIsQuiet == ASSUME TypeOK, SentOnce, NEW w \in Windows, Detach(w) PROVE Quiet
BY FenceKeepsCommands DEF Detach, Quiet

(* The steps that are of a window, or of the registry, alone.              *)
LEMMA PrivateIsQuiet ==
    ASSUME TypeOK, SentOnce, NEW w \in Windows,
           \/ Register \/ Plan(w) \/ Prepare(w) \/ Confirm(w) \/ GiveUp(w) \/ Crash(w)
           \/ \E j \in Jobs : Resume(w, j) \/ Requeue(w, j)
    PROVE  Quiet
<1>1. sends \in [Windows -> SUBSET Send]
  BY DEF TypeOK, Send
<1>2. UNCHANGED <<disk, posts, task>>
  BY DEF Register, Plan, Prepare, Confirm, GiveUp, Crash, Resume, Requeue
<1>3. \A v \in Windows : sends'[v] \subseteq sends[v]
  BY <1>1 DEF Register, Plan, Prepare, Confirm, GiveUp, Crash, Resume, Requeue, local
<1> QED BY <1>2, <1>3, SubsetsAreFewer DEF Quiet

(* Every step is of one of the five kinds.                                 *)
LEMMA StepsAre ==
    ASSUME IInv, Next PROVE Quiet \/ Posting \/ RowSaved \/ RoundSaved \/ Working
<1> USE DEF IInv, Facts
<1>1. CASE Register
  <2>1. Quiet
    BY <1>1, SubsetsAreFewer DEF Register, Quiet, local
  <2> QED BY <2>1
<1>2. ASSUME NEW w \in Windows, RoundStep(w) PROVE Quiet \/ Posting \/ RowSaved \/ RoundSaved
  <2>1. CASE Plan(w) \/ Prepare(w)
    BY <2>1, PrivateIsQuiet
  <2>2. CASE Publish(w)
    BY <2>2, PublishIs
  <2>3. CASE \E d \in sends[w] : Guard(w, d) \/ Post(w, d) \/ Release(w, d)
    BY <2>3, GuardIsQuiet, PostIs, ReleaseIs
  <2> QED BY <1>2, <2>1, <2>2, <2>3 DEF RoundStep
<1>3. ASSUME NEW w \in Windows, Detach(w) \/ Confirm(w) \/ GiveUp(w) \/ Settle(w) \/ Crash(w) PROVE Quiet \/ RowSaved
  BY <1>3, DetachIsQuiet, PrivateIsQuiet, SettleIs
<1>4. ASSUME NEW w \in Windows, NEW j \in Jobs,
             \/ Stop(w, j) \/ Recall(w, j) \/ Resume(w, j) \/ Requeue(w, j)
             \/ RemovePending(w, j) \/ Append(w, j)
      PROVE  Quiet \/ RowSaved
  BY <1>4, MarkIs, UserQueueIs, PrivateIsQuiet
<1>5. ASSUME NEW c \in Commands, WorkerStep(c) \/ CloseWindow(c) PROVE Working
  BY <1>5, WorkerIs
<1> QED BY <1>1, <1>2, <1>3, <1>4, <1>5 DEF Next

-----------------------------------------------------------------------------
(* What follows from dispatches that become fewer.                         *)
LEMMA FewerAreSending ==
    ASSUME SendsFewer, NEW j, NEW n, Sending(j, n)' PROVE Sending(j, n)
<1>1. PICK w \in Windows : \E d \in sends'[w] : d.job = j /\ d.n = n
  BY DEF Sending
<1>2. PICK d \in sends'[w] : d.job = j /\ d.n = n
  BY <1>1
<1>3. PICK e \in sends[w] : SameCommand(d, e)
  BY <1>2 DEF SendsFewer
<1> QED BY <1>2, <1>3 DEF Sending, SameCommand

LEMMA FewerWereSending == ASSUME SendsFewer PROVE \A w \in Windows : \A d \in sends'[w] : Sending(d.job, d.n)
<1>1. SUFFICES ASSUME NEW w \in Windows, NEW d \in sends'[w] PROVE Sending(d.job, d.n)
  OBVIOUS
<1>2. PICK e \in sends[w] : SameCommand(d, e)
  BY DEF SendsFewer
<1> QED BY <1>2 DEF Sending, SameCommand

LEMMA FewerAreSentOnce == ASSUME SentOnce, SendsFewer, posts' = posts PROVE SentOnce'
<1>1. SUFFICES ASSUME NEW w \in Windows, NEW d \in sends'[w]
      PROVE  /\ <<d.job, d.n>> \notin posts
             /\ \A v \in Windows : \A e \in sends'[v] : SameCommand(d, e) => v = w /\ e = d
  BY DEF SentOnce
<1>2. PICK d0 \in sends[w] : SameCommand(d, d0)
  BY DEF SendsFewer
<1>3. <<d.job, d.n>> \notin posts
  BY <1>2 DEF SentOnce, SameCommand
<1>4. ASSUME NEW v \in Windows, NEW e \in sends'[v], SameCommand(d, e) PROVE v = w /\ e = d
  <2>1. PICK e0 \in sends[v] : SameCommand(e, e0)
    BY DEF SendsFewer
  <2>2. SameCommand(d0, e0)
    BY <1>2, <1>4, <2>1, SameCommandIsEquivalence
  <2>3. v = w
    BY <2>2 DEF SentOnce
  <2> QED BY <1>4, <2>3 DEF SendsFewer
<1> QED BY <1>3, <1>4

LEMMA FewerAreOld ==
    ASSUME IdsGrow, SendsFewer PROVE \A w \in Windows : \A d \in sends'[w] : d.n <= disk[d.job].n
<1>1. SUFFICES ASSUME NEW w \in Windows, NEW d \in sends'[w] PROVE d.n <= disk[d.job].n
  OBVIOUS
<1>2. PICK e \in sends[w] : SameCommand(d, e)
  BY DEF SendsFewer
<1> QED BY <1>2 DEF IdsGrow, SameCommand

(* The facts are kept by each kind of step.                                *)
LEMMA QuietKeepsFacts == ASSUME Facts, Quiet PROVE Facts'
<1>1. IdsGrow'
  BY FewerAreOld DEF Facts, Quiet, IdsGrow
<1>2. PendingIsUntouched'
  BY FewerAreSending DEF Facts, Quiet, PendingIsUntouched
<1>3. SentOnce'
  BY FewerAreSentOnce DEF Facts, Quiet
<1>4. RowIsKept'
  BY FewerAreSending DEF Facts, Quiet, RowIsKept, BoundTo
<1>5. TasksWereSent' /\ ProofIsTrue'
  BY DEF Facts, Quiet, TasksWereSent, ProofIsTrue, Ended
<1> QED BY <1>1, <1>2, <1>3, <1>4, <1>5 DEF Facts

LEMMA PostingKeepsFacts == ASSUME TypeOK, Facts, Posting PROVE Facts'
<1> PICK w \in Windows : \E d \in sends[w] :
        /\ posts' = posts \cup {<<d.job, d.n>>}
        /\ sends' = [sends EXCEPT ![w] = @ \ {d}]
        /\ UNCHANGED <<disk, task>>
  BY DEF Posting
<1>1. PICK d \in sends[w] :
        /\ posts' = posts \cup {<<d.job, d.n>>}
        /\ sends' = [sends EXCEPT ![w] = @ \ {d}]
        /\ UNCHANGED <<disk, task>>
  OBVIOUS
<1>2. sends \in [Windows -> SUBSET Send]
  BY DEF TypeOK, Send
<1>3. d.job \in Jobs /\ d.n \in Nat /\ Sending(d.job, d.n)
  BY <1>2 DEF Send, Sending
<1>4. \A v \in Windows : sends'[v] \subseteq sends[v]
  BY <1>1, <1>2
<1>5. \A j, n : Sending(j, n)' => Sending(j, n)
  BY <1>4 DEF Sending
<1>6. IdsGrow'
  BY <1>1, <1>3, <1>4 DEF Facts, IdsGrow
<1>7. PendingIsUntouched'
  <2>1. SUFFICES ASSUME NEW j \in Jobs, disk[j].st = "pending" PROVE <<j, disk[j].n>> \notin posts' /\ ~Sending(j, disk[j].n)'
    BY <1>1 DEF PendingIsUntouched
  <2>2. <<j, disk[j].n>> \notin posts /\ ~Sending(j, disk[j].n)
    BY <2>1 DEF Facts, PendingIsUntouched
  <2>3. <<j, disk[j].n>> # <<d.job, d.n>>
    BY <1>3, <2>2
  <2> QED BY <1>1, <1>5, <2>2, <2>3
<1>8. SentOnce'
  <2>1. SUFFICES ASSUME NEW v \in Windows, NEW e \in sends'[v]
        PROVE  /\ <<e.job, e.n>> \notin posts'
               /\ \A u \in Windows : \A f \in sends'[u] : SameCommand(e, f) => u = v /\ f = e
    BY DEF SentOnce
  <2>2. e \in sends[v] /\ ~(v = w /\ e = d)
    BY <1>1, <1>2, <1>4
  <2>3. ~SameCommand(d, e)
    BY <2>2 DEF Facts, SentOnce
  <2>4. <<e.job, e.n>> \notin posts'
    BY <1>1, <2>2, <2>3 DEF Facts, SentOnce, SameCommand
  <2> QED BY <1>4, <2>2, <2>4 DEF Facts, SentOnce
<1>9. RowIsKept'
  BY <1>1, <1>3, <1>5 DEF Facts, RowIsKept, BoundTo
<1>10. TasksWereSent' /\ ProofIsTrue'
  BY <1>1 DEF Facts, TasksWereSent, ProofIsTrue, Ended
<1> QED BY <1>6, <1>7, <1>8, <1>9, <1>10 DEF Facts

LEMMA RowSavedKeepsFacts == ASSUME TypeOK, Facts, RowSaved PROVE Facts'
<1>1. PICK j \in Jobs :
        /\ \A i \in Jobs \ {j} : disk'[i] = disk[i]
        /\ Marked(j) \/ Returned(j) \/ Renewed(j) \/ Removed(j)
        /\ SendsFewer
        /\ UNCHANGED <<posts, task>>
  BY DEF RowSaved
<1>2. disk \in [Jobs -> Row] /\ sends \in [Windows -> SUBSET Send] /\ posts \subseteq Commands
  BY DEF TypeOK, Send
<1>3. disk[j].n \in Nat /\ MaxFresh[j] \in Nat /\ disk[j].n <= MaxFresh[j]
  BY <1>2, Bounds DEF Row, Facts, IdsGrow
<1>4. /\ disk'[j].n \in {disk[j].n, disk[j].n + 1} /\ disk'[j].n <= MaxFresh[j]
      /\ disk'[j].want = "recall" => disk'[j].n < MaxFresh[j]
  BY <1>1, <1>3, NewRows DEF Marked, Returned, Renewed, Removed
<1>5. /\ \A w \in Windows : \A d \in sends'[w] : d.job \in Jobs
      /\ \A c \in posts : c[1] \in Jobs /\ c[2] \in Nat
  <2>1. ASSUME NEW w \in Windows, NEW d \in sends'[w] PROVE d.job \in Jobs /\ d.n \in Nat
    <3>1. PICK e \in sends[w] : SameCommand(d, e)
      BY <1>1 DEF SendsFewer
    <3> QED BY <1>2, <3>1 DEF SameCommand, Send
  <2> QED BY <1>2, <2>1, CommandsAre, Bounds
<1>6. IdsGrow'
  <2>1. \A w \in Windows : \A d \in sends'[w] : d.n <= disk'[d.job].n
    <3>1. SUFFICES ASSUME NEW w \in Windows, NEW d \in sends'[w] PROVE d.n <= disk'[d.job].n
      OBVIOUS
    <3>2. PICK e \in sends[w] : SameCommand(d, e)
      BY <1>1 DEF SendsFewer
    <3>3. d.n \in Nat /\ d.job \in Jobs /\ d.n <= disk[d.job].n
      BY <1>2, <3>2 DEF SameCommand, Send, Facts, IdsGrow
    <3> QED BY <1>1, <1>3, <1>4, <3>3
  <2>2. \A c \in posts' : c[2] <= disk'[c[1]].n
    BY <1>1, <1>3, <1>4, <1>5 DEF Facts, IdsGrow
  <2> QED BY <1>1, <1>4, <2>1, <2>2 DEF Facts, IdsGrow
<1>7. PendingIsUntouched'
  <2>1. SUFFICES ASSUME NEW i \in Jobs, disk'[i].st = "pending" 
        PROVE  /\ <<i, disk'[i].n>> \notin posts
               /\ \A w \in Windows : \A d \in sends'[w] : ~(d.job = i /\ d.n = disk'[i].n)
    BY <1>1 DEF PendingIsUntouched, Sending
  <2>2. CASE i # j
    <3>1. disk'[i] = disk[i]
      BY <1>1, <2>2
    <3>2. <<i, disk[i].n>> \notin posts /\ ~Sending(i, disk[i].n)
      BY <2>1, <3>1 DEF Facts, PendingIsUntouched
    <3> QED BY <1>1, <3>1, <3>2, FewerWereSending
  <2>3. CASE i = j /\ Returned(j)
    BY <1>1, <1>3, <2>3, NewRows DEF Returned
  <2>4. CASE i = j /\ Renewed(j)
    <3>1. disk'[j].n = disk[j].n + 1
      BY <1>3, <2>4, NewRows DEF Renewed
    <3>2. \A w \in Windows : \A d \in sends'[w] : d.job = j => d.n # disk[j].n + 1
      BY <1>1, <1>3, FewerAreOld DEF Facts
    <3>3. <<j, disk[j].n + 1>> \notin posts
      BY <1>3 DEF Facts, IdsGrow
    <3> QED BY <2>4, <3>1, <3>2, <3>3
  <2>5. CASE i = j /\ (Marked(j) \/ Removed(j))
    BY <1>3, <2>1, <2>5, NewRows DEF Marked, Removed
  <2> QED BY <1>1, <2>2, <2>3, <2>4, <2>5
<1>8. SentOnce'
  BY <1>1, FewerAreSentOnce DEF Facts
<1>9. RowIsKept'
  <2>1. SUFFICES ASSUME NEW c \in Commands, task[c] # "cancelled", c \in posts \/ Sending(c[1], c[2])'
        PROVE  BoundTo(c[1], c[2])'
    BY <1>1 DEF RowIsKept
  <2>2. BoundTo(c[1], c[2])
    BY <1>1, <2>1, FewerAreSending DEF Facts, RowIsKept
  <2>3. c[1] \in Jobs /\ c = <<c[1], c[2]>>
    BY CommandsAre
  <2>4. CASE c[1] # j
    BY <1>1, <2>2, <2>3, <2>4 DEF BoundTo
  <2>5. CASE c[1] = j
    <3>1. ~Renewed(j) /\ ~Removed(j)
      BY <2>1, <2>2, <2>3, <2>5 DEF Renewed, Removed, BoundTo
    <3>2. ~Returned(j)
      BY <2>1, <2>2, <2>3, <2>5 DEF Returned, BoundTo, Sending
    <3> QED BY <1>1, <2>2, <2>5, <3>1, <3>2 DEF Marked, BoundTo
  <2> QED BY <2>4, <2>5
<1>10. TasksWereSent'
  BY <1>1 DEF Facts, TasksWereSent
<1>11. ProofIsTrue'
  <2>1. \A i \in Jobs \ {j} : disk'[i].st = "bound" /\ disk'[i].proof => Ended(<<i, disk'[i].n>>)
    BY <1>1 DEF Facts, ProofIsTrue
  <2>2. disk'[j].st = "bound" /\ disk'[j].proof => Ended(<<j, disk'[j].n>>)
    <3>1. CASE Marked(j)
      BY <3>1 DEF Marked, Facts, ProofIsTrue
    <3>2. CASE ~Marked(j)
      <4>1. disk'[j].st # "bound"
        BY <1>1, <1>3, <3>2, NewRows DEF Returned, Renewed, Removed
      <4> QED BY <4>1
    <3> QED BY <3>1, <3>2
  <2> QED BY <1>1, <2>1, <2>2 DEF ProofIsTrue, Ended
<1> QED BY <1>6, <1>7, <1>8, <1>9, <1>10, <1>11 DEF Facts

LEMMA RoundSavedKeepsFacts == ASSUME TypeOK, Facts, RoundSaved PROVE Facts'
<1>1. PICK w \in Windows :
        /\ \A j \in Jobs : IF j \in Mine(w) THEN MayWrite(j, disk[j], disk'[j]) ELSE disk'[j] = disk[j]
        /\ \A v \in Windows \ {w} : sends'[v] = sends[v]
        /\ \A d \in sends'[w] : d \in sends[w] \/
              /\ d.job \in Mine(w) /\ disk[d.job].st = "pending"
              /\ disk'[d.job].st = "bound" /\ disk'[d.job].n = d.n
        /\ \A d, e \in sends'[w] : SameCommand(d, e) /\ d \notin sends[w] /\ e \notin sends[w] => d = e
        /\ UNCHANGED <<posts, task>>
  BY DEF RoundSaved
<1>2. disk \in [Jobs -> Row] /\ sends \in [Windows -> SUBSET Send] /\ posts \subseteq Commands /\ Mine(w) \subseteq Jobs
  BY DEF TypeOK, Send, Mine, JobsOf
<1>3. \A j \in Jobs : disk'[j].n = disk[j].n /\ disk[j].st \in {"pending", "bound", "gone"}
  BY <1>1, <1>2 DEF MayWrite, Row
<1>4. \A j \in Jobs : disk[j].st = "bound" => disk'[j].st = "bound"
  BY <1>1 DEF MayWrite
<1>5. \A j \in Jobs : disk'[j].st = "pending" => disk[j].st = "pending"
  BY <1>1, <1>2 DEF MayWrite, Row
<1>6. \A v \in Windows : \A d \in sends'[v] :
        \/ d \in sends[v]
        \/ v = w /\ d.job \in Jobs /\ disk[d.job].st = "pending" /\ disk'[d.job].st = "bound" /\ disk[d.job].n = d.n
  BY <1>1, <1>2, <1>3
<1>7. IdsGrow'
  <2>1. \A j \in Jobs : disk'[j].want = "recall" => disk[j].want = "recall"
    <3>1. SUFFICES ASSUME NEW j \in Jobs, disk'[j].want = "recall" PROVE disk[j].want = "recall"
      OBVIOUS
    <3>2. CASE MayWrite(j, disk[j], disk'[j])
      BY <1>3, <3>1, <3>2 DEF MayWrite
    <3> QED BY <1>1, <3>1, <3>2
  <2>2. \A v \in Windows : \A d \in sends'[v] : d.n <= disk'[d.job].n
    <3>1. SUFFICES ASSUME NEW v \in Windows, NEW d \in sends'[v] PROVE d.n <= disk'[d.job].n
      OBVIOUS
    <3>2. CASE d \in sends[v]
      BY <1>2, <1>3, <3>2 DEF Facts, IdsGrow, Send
    <3>3. CASE d \notin sends[v]
      <4>1. d.job \in Jobs /\ disk'[d.job].n = d.n /\ d.n \in Nat
        BY <1>2, <1>3, <1>6, <3>3 DEF Row
      <4> QED BY <4>1
    <3> QED BY <3>2, <3>3
  <2>3. \A c \in posts' : c[2] <= disk'[c[1]].n
    BY <1>1, <1>2, <1>3, CommandsAre DEF Facts, IdsGrow
  <2> QED BY <1>3, <2>1, <2>2, <2>3 DEF Facts, IdsGrow
<1>8. PendingIsUntouched'
  <2>1. SUFFICES ASSUME NEW j \in Jobs, disk'[j].st = "pending" PROVE <<j, disk[j].n>> \notin posts /\ ~Sending(j, disk[j].n)'
    BY <1>1, <1>3 DEF PendingIsUntouched
  <2>2. <<j, disk[j].n>> \notin posts /\ ~Sending(j, disk[j].n)
    BY <1>5, <2>1 DEF Facts, PendingIsUntouched
  <2>3. ASSUME NEW v \in Windows, NEW d \in sends'[v], d.job = j, d.n = disk[j].n PROVE FALSE
    <3>1. d \in sends[v]
      BY <1>6, <2>1, <2>3
    <3> QED BY <2>2, <2>3, <3>1 DEF Sending
  <2> QED BY <1>3, <2>2, <2>3 DEF Sending
<1>9. SentOnce'
  <2>1. ASSUME NEW v \in Windows, NEW d \in sends'[v] PROVE <<d.job, d.n>> \notin posts'
    BY <1>1, <1>6 DEF Facts, SentOnce, PendingIsUntouched
  <2>2. ASSUME NEW d \in sends'[w], d \notin sends[w] PROVE ~Sending(d.job, d.n)
    BY <1>6, <2>2 DEF Facts, PendingIsUntouched
  <2>3. ASSUME NEW v \in Windows, NEW d \in sends'[v], NEW u \in Windows, NEW e \in sends'[u], SameCommand(d, e)
        PROVE  u = v /\ e = d
    <3>1. CASE d \in sends[v] /\ e \in sends[u]
      BY <2>3, <3>1 DEF Facts, SentOnce
    <3>2. CASE d \in sends[v] /\ e \notin sends[u]
      <4>1. u = w /\ ~Sending(e.job, e.n)
        BY <1>6, <2>2, <3>2
      <4> QED BY <2>3, <3>2, <4>1 DEF Sending, SameCommand
    <3>3. CASE d \notin sends[v] /\ e \in sends[u]
      <4>1. v = w /\ ~Sending(d.job, d.n)
        BY <1>6, <2>2, <3>3
      <4> QED BY <2>3, <3>3, <4>1 DEF Sending, SameCommand
    <3>4. CASE d \notin sends[v] /\ e \notin sends[u]
      <4>1. u = w /\ v = w
        BY <1>6, <3>4
      <4> QED BY <1>1, <2>3, <3>4, <4>1
    <3> QED BY <3>1, <3>2, <3>3, <3>4
  <2> QED BY <2>1, <2>3 DEF SentOnce
<1>10. RowIsKept'
  <2>1. SUFFICES ASSUME NEW c \in Commands, task[c] # "cancelled", c \in posts \/ Sending(c[1], c[2])'
        PROVE  BoundTo(c[1], c[2])'
    BY <1>1 DEF RowIsKept
  <2>2. CASE c \in posts \/ Sending(c[1], c[2])
    <3>1. BoundTo(c[1], c[2])
      BY <2>1, <2>2 DEF Facts, RowIsKept
    <3> QED BY <1>3, <1>4, <3>1, CommandsAre DEF BoundTo
  <2>3. CASE c \notin posts /\ ~Sending(c[1], c[2])
    <3>1. PICK v \in Windows : \E d \in sends'[v] : d.job = c[1] /\ d.n = c[2]
      BY <2>1, <2>3 DEF Sending
    <3>2. PICK d \in sends'[v] : d.job = c[1] /\ d.n = c[2]
      BY <3>1
    <3>3. d \notin sends[v]
      BY <2>3, <3>2 DEF Sending
    <3> QED BY <1>3, <1>6, <3>2, <3>3 DEF BoundTo
  <2> QED BY <2>2, <2>3
<1>11. TasksWereSent'
  BY <1>1 DEF Facts, TasksWereSent
<1>12. ProofIsTrue'
  <2>1. SUFFICES ASSUME NEW j \in Jobs, disk'[j].st = "bound", disk'[j].proof PROVE Ended(<<j, disk[j].n>>)
    BY <1>1, <1>3 DEF ProofIsTrue, Ended
  <2>2. CASE j \in Mine(w)
    <3>1. MayWrite(j, disk[j], disk'[j])
      BY <1>1, <2>2
    <3> QED BY <1>3, <2>1, <3>1 DEF MayWrite
  <2>3. CASE j \notin Mine(w)
    BY <1>1, <2>1, <2>3 DEF Facts, ProofIsTrue
  <2> QED BY <2>2, <2>3
<1> QED BY <1>7, <1>8, <1>9, <1>10, <1>11, <1>12 DEF Facts

LEMMA WorkingKeepsFacts == ASSUME TypeOK, Facts, Working PROVE Facts'
<1>1. PICK c \in Commands :
        /\ \A b \in Commands \ {c} : task'[b] = task[b]
        /\ task'[c] # "new"
        /\ task[c] = "cancelled" => task'[c] = "cancelled"
        /\ Ended(c) => task'[c] \in {"ok", "failed", "closed ok", "closed failed", "cancelled"}
        /\ task'[c] # "cancelled" => c \in posts
        /\ UNCHANGED <<disk, sends, posts>>
  BY DEF Working
<1>2. IdsGrow' /\ PendingIsUntouched' /\ SentOnce'
  BY <1>1 DEF Facts, IdsGrow, PendingIsUntouched, SentOnce, Sending
<1>3. \A j, n : Sending(j, n)' => Sending(j, n)
  BY <1>1 DEF Sending
<1>4. RowIsKept'
  BY <1>1, <1>3 DEF Facts, RowIsKept, BoundTo
<1>5. TasksWereSent'
  BY <1>1 DEF Facts, TasksWereSent
<1>6. ProofIsTrue'
  <2>1. \A b \in Commands : Ended(b) => Ended(b)'
    BY <1>1 DEF Ended
  <2>2. \A j \in Jobs : disk[j].n \in 0 .. MaxFresh[j]
    BY Bounds DEF TypeOK, Row, Facts, IdsGrow
  <2> QED BY <1>1, <2>1, <2>2, CommandsAre DEF Facts, ProofIsTrue
<1> QED BY <1>2, <1>4, <1>5, <1>6 DEF Facts

-----------------------------------------------------------------------------
(* Typing, by variable.                                                    *)
LEMMA DiskStaysTyped == ASSUME IInv, Next PROVE disk' \in [Jobs -> Row]
<1> USE DEF TypeOK, IInv
<1>1. ASSUME NEW w \in Windows, Publish(w) PROVE disk' \in [Jobs -> Row]
  BY <1>1 DEF Publish
<1>2. ASSUME NEW w \in Windows, NEW d \in sends[w], Release(w, d) PROVE disk' \in [Jobs -> Row]
  BY <1>2, NewRows DEF Release
<1>3. ASSUME NEW w \in Windows, NEW j \in Jobs, Stop(w, j) \/ Recall(w, j) PROVE disk' \in [Jobs -> Row]
  <2>1. disk \in [Jobs -> Row]
    OBVIOUS
  <2>2. disk' = [disk EXCEPT ![j].want = "stop"] \/ disk' = [disk EXCEPT ![j].want = "recall"]
    BY <1>3 DEF Stop, Recall
  <2> HIDE DEF TypeOK, IInv
  <2> QED BY <2>1, <2>2 DEF Row
<1>4. ASSUME NEW w \in Windows, Settle(w) PROVE disk' \in [Jobs -> Row]
  <2>1. \A j \in Jobs : disk[j].n \in Nat
    BY DEF Row
  <2> QED BY <1>4, <2>1, NewRows DEF Settle, At
<1>5. ASSUME NEW w \in Windows, NEW j \in Jobs, RemovePending(w, j) \/ Append(w, j) PROVE disk' \in [Jobs -> Row]
  <2>1. disk[j].n \in Nat
    BY DEF Row
  <2> QED BY <1>5, <2>1, NewRows DEF RemovePending, Append
<1>6. ASSUME UNCHANGED disk PROVE disk' \in [Jobs -> Row]
  BY <1>6
<1> QED BY <1>1, <1>2, <1>3, <1>4, <1>5, <1>6 DEF Next, RoundStep, WorkerStep, Register, Plan, Prepare,
          Guard, Post, Detach, Confirm, GiveUp, Crash, Resume, Requeue,
          Accept, OpenWindow, Cancel, Restart, Finish, CloseWindow, Worker

LEMMA SendsStayTyped == ASSUME IInv, Next PROVE sends' \in [Windows -> SUBSET Send]
<1> USE DEF TypeOK, IInv, Send
<1>1. ASSUME NEW w \in Windows, NEW s \in SUBSET sends[w], FenceRound(w, s) PROVE sends' \in [Windows -> SUBSET Send]
  <2>1. \A d \in s : [d EXCEPT !.ph = "unsent"] \in Send
    OBVIOUS
  <2>2. Unposted(s) \subseteq Send
    BY <2>1 DEF Unposted
  <2> QED BY <1>1, <2>2 DEF FenceRound
<1>2. ASSUME NEW w \in Windows, Publish(w) PROVE sends' \in [Windows -> SUBSET Send]
  <2>1. CASE round[w] = "publish" /\ DiskIsBase(w)
    <3>1. copy[w] \in [Mine(w) -> Row] /\ Mine(w) \subseteq Jobs
      BY <2>1 DEF Mine, JobsOf
    <3>2. \A j \in Dispatched(w) : j \in Mine(w) /\ copy[w][j].n \in Nat /\ copy[w][j].card \in Cards
      <4>1. SUFFICES ASSUME NEW j \in Dispatched(w)
                     PROVE  j \in Mine(w) /\ copy[w][j].n \in Nat /\ copy[w][j].card \in Cards
        OBVIOUS
      <4>2. copy[w][j] \in Row /\ copy[w][j].n \in Nat
        BY <3>1 DEF Dispatched, Row
      <4>3. j \in Mine(w) /\ copy[w][j].st = "bound" /\ base[w][j].st = "pending"
        BY <3>1 DEF Dispatched
      <4>4. MayWrite(j, base[w][j], copy[w][j])
        BY <2>1, <4>3 DEF IInv, CopiesAreFaithful
      <4> QED BY <4>2, <4>3, <4>4 DEF MayWrite
    <3> QED BY <1>2, <2>1, <3>1, <3>2 DEF Publish
  <2>2. CASE ~(round[w] = "publish" /\ DiskIsBase(w))
    BY <1>2, <2>2 DEF Publish
  <2> QED BY <2>1, <2>2
<1>3. ASSUME NEW w \in Windows, NEW d \in sends[w], Guard(w, d) \/ Post(w, d) \/ Release(w, d) PROVE sends' \in [Windows -> SUBSET Send]
  <2>1. CASE Guard(w, d)
    <3>1. [d EXCEPT !.ph = "armed"] \in Send
      OBVIOUS
    <3> QED BY <2>1, <3>1 DEF Guard
  <2>2. CASE Post(w, d)
    BY <2>2 DEF Post
  <2>3. CASE Release(w, d)
    BY <1>1, <2>3 DEF Release
  <2> QED BY <1>3, <2>1, <2>2, <2>3
<1>4. ASSUME NEW w \in Windows, Detach(w) \/ Settle(w) \/ Crash(w) PROVE sends' \in [Windows -> SUBSET Send]
  BY <1>1, <1>4 DEF Detach, Settle, Crash, local
<1>5. ASSUME NEW w \in Windows, NEW j \in Jobs, Stop(w, j) \/ RemovePending(w, j) \/ Append(w, j) PROVE sends' \in [Windows -> SUBSET Send]
  BY <1>1, <1>5 DEF Stop, RemovePending, Append
<1>6. ASSUME UNCHANGED sends PROVE sends' \in [Windows -> SUBSET Send]
  BY <1>6
<1> QED BY <1>2, <1>3, <1>4, <1>5, <1>6 DEF Next, RoundStep, WorkerStep, Register, Plan, Prepare,
          Confirm, GiveUp, Resume, Requeue, Recall, local,
          Accept, OpenWindow, Cancel, Restart, Finish, CloseWindow, Worker

(* The round of a window that does not plan or save stays as it is, or     *)
(* ends.                                                                   *)
RoundStays(w) ==
    IF round'[w] \in {"planned", "publish"}
    THEN round[w] = round'[w] /\ base'[w] = base[w] /\ copy'[w] = copy[w]
    ELSE base'[w] = NoRows /\ copy'[w] = NoRows

RoundGoes(w) ==
    /\ round'[w] \in {"planned", "publish"}
    /\ base'[w] \in [Mine(w) -> Row] /\ copy'[w] \in [Mine(w) -> Row]
    /\ \A j \in Mine(w) : MayWrite(j, base'[w][j], copy'[w][j])

RoundTyped == /\ round' \in [Windows -> {"idle", "planned", "publish", "stale"}]
              /\ DOMAIN base' = Windows /\ DOMAIN copy' = Windows

LEMMA FenceEndsRound ==
    ASSUME TypeOK, NEW w \in Windows, NEW s, FenceRound(w, s)
    PROVE  RoundTyped /\ \A v \in Windows : RoundStays(v)
BY DEF TypeOK, FenceRound, RoundTyped, RoundStays

LEMMA CrashEndsRound ==
    ASSUME TypeOK, NEW w \in Windows, Crash(w) \/ Publish(w)
    PROVE  RoundTyped /\ \A v \in Windows : RoundStays(v)
<1>2. /\ round' = [round EXCEPT ![w] = "idle"]
      /\ base' = [base EXCEPT ![w] = NoRows] /\ copy' = [copy EXCEPT ![w] = NoRows]
  BY DEF Crash, Publish
<1> QED BY <1>2 DEF TypeOK, RoundTyped, RoundStays

LEMMA IdleRoundsStay ==
    ASSUME TypeOK, UNCHANGED <<round, base, copy>> PROVE RoundTyped /\ \A v \in Windows : RoundStays(v)
BY DEF TypeOK, RoundTyped, RoundStays

(* What a query tells of a row changes its evidence only.                  *)
LEMMA ObservedIs ==
    ASSUME NEW j \in Jobs, NEW row \in Row
    PROVE  /\ Observed(j, row) \in Row
           /\ Observed(j, row).st = row.st /\ Observed(j, row).n = row.n /\ Observed(j, row).want = row.want
           /\ row.st # "bound" => Observed(j, row) = row
           /\ row.st = "bound" => (Observed(j, row).proof <=> row.proof \/ Ended(<<j, row.n>>))
<1>1. CASE row.st # "bound"
  BY <1>1 DEF Observed
<1>2. CASE row.st = "bound"
  <2> DEFINE ended == Ended(<<j, row.n>>)
             seen == Seen(<<j, row.n>>)
  <2>1. ended \in BOOLEAN /\ seen \in BOOLEAN
    BY DEF Ended, Seen
  <2>2. Observed(j, row) = [row EXCEPT !.proof = @ \/ ended, !.intent = @ /\ ~seen]
    BY <1>2 DEF Observed
  <2> HIDE DEF ended, seen
  <2>3. [row EXCEPT !.proof = @ \/ ended, !.intent = @ /\ ~seen] \in Row
    BY <2>1 DEF Row
  <2>4. /\ Observed(j, row).st = row.st /\ Observed(j, row).n = row.n /\ Observed(j, row).want = row.want
        /\ Observed(j, row).proof = (row.proof \/ ended)
    BY <2>1, <2>2 DEF Row
  <2> QED BY <1>2, <2>2, <2>3, <2>4 DEF ended
<1> QED BY <1>1, <1>2

LEMMA PlanIsFaithful ==
    ASSUME IInv, NEW w \in Windows, Plan(w)
    PROVE  /\ base'[w] \in [Mine(w) -> Row] /\ copy'[w] \in [Mine(w) -> Row]
           /\ \A j \in Mine(w) : MayWrite(j, base'[w][j], copy'[w][j])
<1>1. /\ disk \in [Jobs -> Row] /\ DOMAIN base = Windows /\ DOMAIN copy = Windows
      /\ Mine(w) \subseteq Jobs
  BY DEF IInv, TypeOK, Mine, JobsOf
<1>2. PICK answered \in BOOLEAN, chosen \in SUBSET {j \in Mine(w) : disk[j].st = "pending"} :
        \E at \in [chosen -> Cards] : copy' = [copy EXCEPT ![w] = [j \in Mine(w) |->
                  IF j \in chosen THEN Bound(disk[j].n, at[j])
                  ELSE IF answered THEN Observed(j, disk[j]) ELSE disk[j]]]
  BY DEF Plan
<1>3. PICK at \in [chosen -> Cards] : copy' = [copy EXCEPT ![w] = [j \in Mine(w) |->
                  IF j \in chosen THEN Bound(disk[j].n, at[j])
                  ELSE IF answered THEN Observed(j, disk[j]) ELSE disk[j]]]
  BY <1>2
<1>4. base'[w] = [j \in Mine(w) |-> disk[j]]
  BY <1>1 DEF Plan
<1>5. copy'[w] = [j \in Mine(w) |->
                  IF j \in chosen THEN Bound(disk[j].n, at[j])
                  ELSE IF answered THEN Observed(j, disk[j]) ELSE disk[j]]
  BY <1>1, <1>3
<1>6. ASSUME NEW j \in Mine(w) PROVE copy'[w][j] \in Row /\ MayWrite(j, disk[j], copy'[w][j])
  <2>1. j \in Jobs /\ disk[j] \in Row /\ disk[j].n \in 0 .. MaxFresh[j]
    BY <1>1, Bounds DEF IInv, Facts, IdsGrow, Row
  <2>2. CASE j \in chosen
    <3>1. copy'[w][j] = Bound(disk[j].n, at[j]) /\ disk[j].st = "pending" /\ at[j] \in Cards
      BY <1>5, <2>2
    <3>2. disk[j].n \in Nat
      BY <2>1 DEF Row
    <3> QED BY <2>1, <3>1, <3>2, NewRows DEF MayWrite
  <2>3. CASE j \notin chosen /\ answered
    <3>1. copy'[w][j] = Observed(j, disk[j])
      BY <1>5, <2>3
    <3>2. disk[j].st = "bound" /\ disk[j].proof => Ended(<<j, disk[j].n>>)
      BY <2>1 DEF IInv, Facts, ProofIsTrue
    <3> QED BY <2>1, <3>1, <3>2, ObservedIs DEF MayWrite
  <2>4. CASE j \notin chosen /\ ~answered
    <3>1. copy'[w][j] = disk[j]
      BY <1>5, <2>4
    <3>2. disk[j].st = "bound" /\ disk[j].proof => Ended(<<j, disk[j].n>>)
      BY <2>1 DEF IInv, Facts, ProofIsTrue
    <3> QED BY <2>1, <3>1, <3>2 DEF MayWrite
  <2> QED BY <2>2, <2>3, <2>4
<1> QED BY <1>1, <1>4, <1>5, <1>6

LEMMA PrepareIsFaithful ==
    ASSUME IInv, NEW w \in Windows, Prepare(w), DiskIsBase(w)
    PROVE  /\ base'[w] \in [Mine(w) -> Row] /\ copy'[w] \in [Mine(w) -> Row]
           /\ \A j \in Mine(w) : MayWrite(j, base'[w][j], copy'[w][j])
<1>1. /\ DOMAIN base = Windows /\ DOMAIN copy = Windows /\ base' = base
      /\ base[w] \in [Mine(w) -> Row] /\ copy[w] \in [Mine(w) -> Row]
      /\ \A j \in Mine(w) : MayWrite(j, base[w][j], copy[w][j])
  BY DEF IInv, TypeOK, CopiesAreFaithful, Prepare
<1>2. PICK granted \in Granted(w) : copy' = [copy EXCEPT ![w] = Decided(w, granted)]
  BY DEF Prepare
<1>3. copy'[w] = Decided(w, granted)
  BY <1>1, <1>2
<1>4. granted \subseteq Dispatched(w)
  BY <1>2 DEF Granted, Admissible
<1>5. CASE ~managed
  BY <1>1, <1>3, <1>5 DEF Decided
<1>6. CASE managed
  <2>1. copy'[w] = [j \in Mine(w) |->
            IF j \in granted THEN [copy[w][j] EXCEPT !.consent = TRUE]
            ELSE IF j \in Dispatched(w) THEN Pending(copy[w][j].n) ELSE copy[w][j]]
    BY <1>3, <1>6 DEF Decided
  <2>2. ASSUME NEW j \in Mine(w) PROVE copy'[w][j] \in Row /\ MayWrite(j, base[w][j], copy'[w][j])
    <3>1. copy[w][j] \in Row /\ MayWrite(j, base[w][j], copy[w][j])
      BY <1>1
    <3>2. CASE j \in Dispatched(w)
      <4>1. base[w][j].st = "pending"
        BY <3>2 DEF Dispatched
      <4>2. CASE j \in granted
        <5>1. copy'[w][j] = [copy[w][j] EXCEPT !.consent = TRUE]
          BY <2>1, <4>2
        <5> DEFINE row == copy[w][j]
        <5>2. row \in Row
          BY <3>1
        <5> HIDE DEF row
        <5>3. /\ [row EXCEPT !.consent = TRUE] \in Row
              /\ [row EXCEPT !.consent = TRUE].st = row.st /\ [row EXCEPT !.consent = TRUE].n = row.n
              /\ [row EXCEPT !.consent = TRUE].want = row.want /\ [row EXCEPT !.consent = TRUE].proof = row.proof
              /\ [row EXCEPT !.consent = TRUE].card = row.card
          BY <5>2 DEF Row
        <5>4. copy'[w][j] = [row EXCEPT !.consent = TRUE] /\ MayWrite(j, base[w][j], row)
          BY <3>1, <5>1 DEF row
        <5> QED BY <4>1, <5>3, <5>4 DEF MayWrite
      <4>3. CASE j \notin granted
        <5>1. copy'[w][j] = Pending(copy[w][j].n) /\ copy[w][j].n \in Nat
          BY <2>1, <3>1, <3>2, <4>3 DEF Row
        <5> QED BY <3>1, <4>1, <5>1, NewRows DEF MayWrite
      <4> QED BY <4>2, <4>3
    <3>3. CASE j \notin Dispatched(w)
      BY <1>4, <2>1, <3>1, <3>3
    <3> QED BY <3>2, <3>3
  <2> QED BY <1>1, <2>1, <2>2
<1> QED BY <1>5, <1>6

(* Typing of what a round works on, and that it stays faithful.            *)
LEMMA RoundsAre ==
    ASSUME IInv, Next
    PROVE  /\ RoundTyped /\ opened' = opened
           /\ \A w \in Windows : RoundStays(w) \/ RoundGoes(w)
<1> DEFINE Goal == /\ RoundTyped /\ opened' = opened
                   /\ \A w \in Windows : RoundStays(w) \/ RoundGoes(w)
<1>1. TypeOK
  BY DEF IInv
<1>2. ASSUME NEW w \in Windows, Plan(w) PROVE Goal
  <2>1. /\ \A v \in Windows \ {w} : RoundStays(v)
        /\ opened' = opened /\ round' = [round EXCEPT ![w] = "planned"]
    BY <1>1, <1>2 DEF Plan, TypeOK, RoundStays
  <2>2. RoundTyped
    BY <1>1, <1>2, <2>1 DEF Plan, RoundTyped, TypeOK
  <2>3. RoundGoes(w)
    BY <1>1, <1>2, <2>1, PlanIsFaithful DEF RoundGoes, TypeOK
  <2> QED BY <2>1, <2>2, <2>3
<1>3. ASSUME NEW w \in Windows, Prepare(w) PROVE Goal
  <2>1. \A v \in Windows \ {w} : RoundStays(v)
    BY <1>1, <1>3 DEF Prepare, TypeOK, RoundStays
  <2>2. CASE DiskIsBase(w)
    <3>1. base' = base /\ round' = [round EXCEPT ![w] = "publish"] /\ opened' = opened
      BY <1>3, <2>2 DEF Prepare
    <3>2. RoundTyped
      BY <1>1, <1>3, <2>2, <3>1 DEF Prepare, RoundTyped, TypeOK
    <3>3. RoundGoes(w)
      BY <1>1, <1>3, <2>2, <3>1, PrepareIsFaithful DEF RoundGoes, TypeOK
    <3> QED BY <2>1, <3>1, <3>2, <3>3
  <2>3. CASE ~DiskIsBase(w)
    <3>1. /\ round' = [round EXCEPT ![w] = "idle"] /\ opened' = opened
          /\ base' = [base EXCEPT ![w] = NoRows] /\ copy' = [copy EXCEPT ![w] = NoRows]
      BY <1>3, <2>3 DEF Prepare
    <3>2. RoundTyped /\ RoundStays(w)
      BY <1>1, <3>1 DEF TypeOK, RoundTyped, RoundStays
    <3> QED BY <2>1, <3>1, <3>2
  <2> QED BY <2>2, <2>3
<1>4. ASSUME NEW w \in Windows, Publish(w) \/ Crash(w) PROVE Goal
  BY <1>1, <1>4, CrashEndsRound DEF Publish, Crash
<1>5. ASSUME NEW w \in Windows, NEW s, FenceRound(w, s), opened' = opened PROVE Goal
  BY <1>1, <1>5, FenceEndsRound
<1>6. ASSUME UNCHANGED <<round, base, copy>>, opened' = opened PROVE Goal
  BY <1>1, <1>6, IdleRoundsStay
<1> HIDE DEF Goal
<1>7. ASSUME NEW w \in Windows, NEW d \in sends[w], Guard(w, d) \/ Post(w, d) \/ Release(w, d) PROVE Goal
  BY <1>5, <1>6, <1>7 DEF Guard, Post, Release
<1>8. ASSUME NEW w \in Windows, Detach(w) \/ Confirm(w) \/ GiveUp(w) \/ Settle(w) PROVE Goal
  BY <1>5, <1>6, <1>8 DEF Detach, Confirm, GiveUp, Settle, local
<1>9. ASSUME NEW w \in Windows, NEW j \in Jobs,
             \/ Stop(w, j) \/ Recall(w, j) \/ Resume(w, j) \/ Requeue(w, j)
             \/ RemovePending(w, j) \/ Append(w, j)
      PROVE  Goal
  BY <1>5, <1>6, <1>9 DEF Stop, Recall, Resume, Requeue, RemovePending, Append, local
<1>10. ASSUME NEW c \in Commands, WorkerStep(c) \/ CloseWindow(c) PROVE Goal
  BY <1>6, <1>10 DEF WorkerStep, Accept, OpenWindow, Cancel, Restart, Finish, CloseWindow, Worker, local
<1>11. ASSUME Register PROVE Goal
  BY <1>6, <1>11 DEF Register, local
<1>12. Goal
  BY <1>2, <1>3, <1>4, <1>7, <1>8, <1>9, <1>10, <1>11 DEF Next, RoundStep
<1> QED BY <1>12 DEF Goal

(* What a window does to take a job from the worker, and its typing.       *)
Ctl == {NoCtl} \cup [job : Jobs, n : Nat, kind : {"stop", "recall", "requeue"}, ph : {"wait", "confirmed"}]

LEMMA CancelledStays == ASSUME IInv, Next PROVE \A c \in Commands :
    /\ task[c] = "cancelled" => task'[c] = "cancelled"
    /\ Ended(c) => Ended(c)'
<1>1. CASE Quiet \/ Posting \/ RowSaved \/ RoundSaved
  BY <1>1 DEF Quiet, Posting, RowSaved, RoundSaved, Ended
<1>2. CASE Working
  BY <1>2 DEF Working, Ended
<1> QED BY <1>1, <1>2, StepsAre

LEMMA NoCtlIsNone == NoCtl \in Ctl /\ NoCtl.ph = "none"
BY DEF Ctl, NoCtl

LEMMA TakeIs ==
    ASSUME IInv, NEW w \in Windows, NEW j \in Jobs, NEW kind \in {"stop", "recall", "requeue"},
           Take(w, j, kind), kind # "stop" => disk[j].n < MaxFresh[j], task' = task
    PROVE  ctl' \in [Windows -> Ctl] /\ stops' \subseteq Commands /\ CtlIsTrue'
<1>1. disk[j].n \in 0 .. MaxFresh[j]
  BY Bounds DEF IInv, TypeOK, Row, Facts, IdsGrow
<1>2. ctl \in [Windows -> Ctl] /\ stops \subseteq Commands
  BY DEF IInv, TypeOK, Ctl
<1> DEFINE new == [job |-> j, n |-> disk[j].n, kind |-> kind, ph |-> "wait"]
<1>3. new \in Ctl
  BY <1>1 DEF Ctl
<1>4. ctl' \in [Windows -> Ctl] /\ stops' \subseteq Commands
  BY <1>1, <1>2, <1>3, CommandsAre DEF Take
<1>5. \A v \in Windows : ctl'[v] = IF v = w THEN new ELSE ctl[v]
  BY <1>2 DEF Take
<1>6. new.job = j /\ new.n = disk[j].n /\ new.kind = kind /\ new.ph = "wait"
  OBVIOUS
<1> HIDE DEF new
<1>7. CtlIsTrue'
  <2>1. SUFFICES ASSUME NEW v \in Windows, ctl'[v] # NoCtl
        PROVE  /\ ctl'[v].n <= MaxFresh[ctl'[v].job]
               /\ ctl'[v].kind # "stop" => ctl'[v].n < MaxFresh[ctl'[v].job]
               /\ ctl'[v].ph = "confirmed" => task'[<<ctl'[v].job, ctl'[v].n>>] = "cancelled"
    BY DEF CtlIsTrue, Target
  <2>2. CASE v = w
    BY <1>1, <1>5, <1>6, <2>2
  <2>3. CASE v # w
    BY <1>5, <2>1, <2>3 DEF IInv, CtlIsTrue, Target
  <2> QED BY <2>2, <2>3
<1> QED BY <1>4, <1>7

LEMMA CtlStays ==
    ASSUME IInv, Next PROVE ctl' \in [Windows -> Ctl] /\ stops' \subseteq Commands /\ CtlIsTrue'
<1> DEFINE Goal == ctl' \in [Windows -> Ctl] /\ stops' \subseteq Commands /\ CtlIsTrue'
<1>1. ctl \in [Windows -> Ctl] /\ stops \subseteq Commands /\ CtlIsTrue
  BY DEF IInv, TypeOK, Ctl
<1>2. \A w \in Windows : ctl[w] # NoCtl => ctl[w].n \in 0 .. MaxFresh[ctl[w].job] /\ ctl[w].job \in Jobs
  BY <1>1, Bounds DEF Ctl, CtlIsTrue
<1>3. \A w \in Windows : ctl[w] # NoCtl => Target(w) \in Commands
  BY <1>2, CommandsAre DEF Target
<1>4. ASSUME \A w \in Windows : ctl'[w] = ctl[w] \/ ctl'[w] = NoCtl, ctl' \in [Windows -> Ctl], stops' = stops
      PROVE  Goal
  <2>1. SUFFICES ASSUME NEW w \in Windows, ctl'[w] # NoCtl
        PROVE  /\ ctl'[w].n <= MaxFresh[ctl'[w].job]
               /\ ctl'[w].kind # "stop" => ctl'[w].n < MaxFresh[ctl'[w].job]
               /\ ctl'[w].ph = "confirmed" => task'[<<ctl'[w].job, ctl'[w].n>>] = "cancelled"
    BY <1>1, <1>4 DEF CtlIsTrue, Target
  <2>2. ctl'[w] = ctl[w]
    BY <1>4, <2>1
  <2>3. ctl[w].ph = "confirmed" => task'[<<ctl[w].job, ctl[w].n>>] = "cancelled"
    BY <1>1, <1>3, <2>1, <2>2, CancelledStays DEF CtlIsTrue, Target
  <2> QED BY <1>1, <2>1, <2>2, <2>3 DEF CtlIsTrue
<1>5. ASSUME NEW w \in Windows, Confirm(w) PROVE Goal
  <2>1. ctl' = [ctl EXCEPT ![w].ph = "confirmed"] /\ stops' = stops /\ task' = task
        /\ ctl[w] # NoCtl /\ task[Target(w)] = "cancelled"
    BY <1>5 DEF Confirm, At
  <2>2. ctl[w] \in [job : Jobs, n : Nat, kind : {"stop", "recall", "requeue"}, ph : {"wait", "confirmed"}]
    BY <1>1, <2>1 DEF Ctl
  <2>3. /\ ctl'[w].job = ctl[w].job /\ ctl'[w].n = ctl[w].n /\ ctl'[w].kind = ctl[w].kind
        /\ ctl'[w] \in Ctl
    BY <1>1, <2>1, <2>2 DEF Ctl
  <2>4. \A v \in Windows \ {w} : ctl'[v] = ctl[v]
    BY <1>1, <2>1
  <2>5. ctl' \in [Windows -> Ctl]
    <3>1. ctl' = [v \in Windows |-> ctl'[v]]
      BY <1>1, <2>1
    <3> QED BY <1>1, <2>3, <2>4, <3>1
  <2>6. SUFFICES ASSUME NEW v \in Windows, ctl'[v] # NoCtl
        PROVE  /\ ctl'[v].n <= MaxFresh[ctl'[v].job]
               /\ ctl'[v].kind # "stop" => ctl'[v].n < MaxFresh[ctl'[v].job]
               /\ ctl'[v].ph = "confirmed" => task'[<<ctl'[v].job, ctl'[v].n>>] = "cancelled"
    BY <1>1, <2>1, <2>5 DEF CtlIsTrue, Target
  <2>7. CASE v = w
    BY <1>1, <2>1, <2>3, <2>7 DEF CtlIsTrue, Target
  <2>8. CASE v # w
    BY <1>1, <2>1, <2>4, <2>6, <2>8 DEF CtlIsTrue, Target
  <2> QED BY <2>7, <2>8
<1>6. ASSUME NEW w \in Windows, GiveUp(w) \/ Settle(w) \/ Crash(w) PROVE Goal
  <2>1. ctl' = [ctl EXCEPT ![w] = NoCtl] /\ stops' = stops
    BY <1>6 DEF GiveUp, Settle, Crash
  <2> QED BY <1>1, <1>4, <2>1, NoCtlIsNone
<1>7. ASSUME NEW w \in Windows, NEW j \in Jobs, Stop(w, j) PROVE Goal
  BY <1>7, TakeIs DEF Stop
<1>8. ASSUME NEW w \in Windows, NEW j \in Jobs, Recall(w, j) PROVE Goal
  BY <1>8, TakeIs DEF Recall, Fresh
<1>9. ASSUME NEW w \in Windows, NEW j \in Jobs, Requeue(w, j) PROVE Goal
  BY <1>9, TakeIs DEF Requeue, Fresh
<1>10. ASSUME NEW w \in Windows, NEW j \in Jobs, Resume(w, j) PROVE Goal
  <2>1. disk[j].want \in {"stop", "recall"}
    BY <1>10 DEF Resume, IInv, TypeOK, Row
  <2>2. disk[j].want # "stop" => disk[j].n < MaxFresh[j]
    BY <2>1 DEF IInv, Facts, IdsGrow
  <2> QED BY <1>10, <2>1, <2>2, TakeIs DEF Resume
<1>11. ASSUME UNCHANGED <<ctl, stops>> PROVE Goal
  BY <1>1, <1>4, <1>11
<1> HIDE DEF Goal
<1>12. ASSUME NEW w \in Windows, RoundStep(w) \/ Detach(w) PROVE Goal
  BY <1>11, <1>12 DEF RoundStep, Detach, Plan, Prepare, Publish, Guard, Post, Release
<1>13. ASSUME NEW w \in Windows, NEW j \in Jobs, RemovePending(w, j) \/ Append(w, j) PROVE Goal
  BY <1>11, <1>13 DEF RemovePending, Append
<1>14. ASSUME NEW c \in Commands, WorkerStep(c) \/ CloseWindow(c) PROVE Goal
  BY <1>11, <1>14 DEF WorkerStep, Accept, OpenWindow, Cancel, Restart, Finish, CloseWindow, Worker
<1>15. ASSUME Register PROVE Goal
  BY <1>11, <1>15 DEF Register
<1>16. Goal
  BY <1>5, <1>6, <1>7, <1>8, <1>9, <1>10, <1>12, <1>13, <1>14, <1>15 DEF Next
<1> QED BY <1>16 DEF Goal

LEMMA LocksStayTyped ==
    ASSUME IInv, Next PROVE queueLock' \in [Roots -> Windows \cup {None}] /\ sharedLock' \in Windows \cup {None}
<1> DEFINE Goal == queueLock' \in [Roots -> Windows \cup {None}] /\ sharedLock' \in Windows \cup {None}
<1>1. /\ queueLock \in [Roots -> Windows \cup {None}] /\ sharedLock \in Windows \cup {None}
      /\ opened \in [Windows -> Roots]
  BY DEF IInv, TypeOK
<1>2. ASSUME NEW w \in Windows, Prepare(w) PROVE Goal
  BY <1>1, <1>2 DEF Prepare, locks
<1>3. ASSUME NEW w \in Windows, Unlocked(w) PROVE Goal
  BY <1>1, <1>3 DEF Unlocked
<1>4. ASSUME UNCHANGED locks PROVE Goal
  BY <1>1, <1>4 DEF locks
<1> HIDE DEF Goal
<1>5. ASSUME NEW w \in Windows, RoundStep(w) PROVE Goal
  BY <1>2, <1>3, <1>4, <1>5 DEF RoundStep, Plan, Publish, Guard, Post, Release
<1>6. ASSUME NEW w \in Windows, Detach(w) \/ Confirm(w) \/ GiveUp(w) \/ Settle(w) \/ Crash(w) PROVE Goal
  BY <1>3, <1>4, <1>6 DEF Detach, Confirm, GiveUp, Settle, Crash
<1>7. ASSUME NEW w \in Windows, NEW j \in Jobs,
             \/ Stop(w, j) \/ Recall(w, j) \/ Resume(w, j) \/ Requeue(w, j)
             \/ RemovePending(w, j) \/ Append(w, j)
      PROVE  Goal
  BY <1>4, <1>7 DEF Stop, Recall, Resume, Requeue, RemovePending, Append
<1>8. ASSUME NEW c \in Commands, WorkerStep(c) \/ CloseWindow(c) PROVE Goal
  BY <1>4, <1>8 DEF WorkerStep, Accept, OpenWindow, Cancel, Restart, Finish, CloseWindow, Worker
<1>9. ASSUME Register PROVE Goal
  BY <1>4, <1>9 DEF Register
<1>10. Goal
  BY <1>5, <1>6, <1>7, <1>8, <1>9 DEF Next
<1> QED BY <1>10 DEF Goal

LEMMA PostsStayTyped == ASSUME IInv, Next PROVE posts' \subseteq Commands
<1>1. CASE Posting
  <2>1. PICK w \in Windows : \E d \in sends[w] : posts' = posts \cup {<<d.job, d.n>>}
    BY <1>1 DEF Posting
  <2>2. PICK d \in sends[w] : posts' = posts \cup {<<d.job, d.n>>}
    BY <2>1
  <2>3. d.job \in Jobs /\ d.n \in Nat /\ d.n <= disk[d.job].n /\ disk[d.job].n <= MaxFresh[d.job]
    BY DEF IInv, TypeOK, Facts, IdsGrow
  <2>4. disk[d.job].n \in Nat /\ MaxFresh[d.job] \in Nat
    BY <2>3, Bounds DEF IInv, TypeOK, Row
  <2>5. d.n \in 0 .. MaxFresh[d.job]
    BY <2>3, <2>4
  <2> QED BY <2>2, <2>3, <2>5, CommandsAre DEF IInv, TypeOK
<1>2. CASE ~Posting
  <2>1. posts' = posts
    BY <1>2, StepsAre DEF Quiet, RowSaved, RoundSaved, Working
  <2> QED BY <2>1 DEF IInv, TypeOK
<1> QED BY <1>1, <1>2

LEMMA TasksStayTyped == ASSUME IInv, Next PROVE task' \in [Commands -> Tasks]
<1>1. task \in [Commands -> Tasks]
  BY DEF IInv, TypeOK
<1>2. ASSUME NEW c \in Commands, WorkerStep(c) \/ CloseWindow(c) PROVE task' \in [Commands -> Tasks]
  <2>1. PICK t \in Tasks : task' = [task EXCEPT ![c] = t]
    <3>1. CASE Accept(c) \/ OpenWindow(c) \/ Cancel(c) \/ Restart(c)
      BY <3>1 DEF Accept, OpenWindow, Cancel, Restart, Tasks, Windowed, Closed
    <3>2. CASE Finish(c)
      BY <3>2 DEF Finish, Tasks, Windowed
    <3>3. CASE CloseWindow(c)
      <4>1. (CASE task[c] = "ok" -> "closed ok" [] task[c] = "failed" -> "closed failed" [] OTHER -> "closed") \in Closed
        BY DEF Closed
      <4> QED BY <3>3, <4>1 DEF CloseWindow, Tasks
    <3> QED BY <1>2, <3>1, <3>2, <3>3 DEF WorkerStep
  <2> QED BY <1>1, <2>1
<1>3. ASSUME UNCHANGED task PROVE task' \in [Commands -> Tasks]
  BY <1>1, <1>3
<1>4. ASSUME NEW w \in Windows, RoundStep(w) PROVE UNCHANGED task
  BY <1>4 DEF RoundStep, Plan, Prepare, Publish, Guard, Post, Release
<1>5. ASSUME NEW w \in Windows, Detach(w) \/ Confirm(w) \/ GiveUp(w) \/ Settle(w) \/ Crash(w) PROVE UNCHANGED task
  BY <1>5 DEF Detach, Confirm, GiveUp, Settle, Crash
<1>6. ASSUME NEW w \in Windows, NEW j \in Jobs,
             \/ Stop(w, j) \/ Recall(w, j) \/ Resume(w, j) \/ Requeue(w, j)
             \/ RemovePending(w, j) \/ Append(w, j)
      PROVE  UNCHANGED task
  BY <1>6 DEF Stop, Recall, Resume, Requeue, RemovePending, Append
<1>7. ASSUME Register PROVE UNCHANGED task
  BY <1>7 DEF Register
<1> QED BY <1>2, <1>3, <1>4, <1>5, <1>6, <1>7 DEF Next

LEMMA ManagedStaysTyped == ASSUME IInv, Next PROVE managed' \in BOOLEAN /\ (managed => managed')
<1>1. managed' = managed \/ managed' = TRUE
  <2>1. ASSUME NEW w \in Windows, RoundStep(w) PROVE managed' = managed
    BY <2>1 DEF RoundStep, Plan, Prepare, Publish, Guard, Post, Release
  <2>2. ASSUME NEW w \in Windows, Detach(w) \/ Confirm(w) \/ GiveUp(w) \/ Settle(w) \/ Crash(w) PROVE managed' = managed
    BY <2>2 DEF Detach, Confirm, GiveUp, Settle, Crash
  <2>3. ASSUME NEW w \in Windows, NEW j \in Jobs,
               \/ Stop(w, j) \/ Recall(w, j) \/ Resume(w, j) \/ Requeue(w, j)
               \/ RemovePending(w, j) \/ Append(w, j)
        PROVE  managed' = managed
    BY <2>3 DEF Stop, Recall, Resume, Requeue, RemovePending, Append
  <2>4. ASSUME NEW c \in Commands, WorkerStep(c) \/ CloseWindow(c) PROVE managed' = managed
    BY <2>4 DEF WorkerStep, Accept, OpenWindow, Cancel, Restart, Finish, CloseWindow, Worker
  <2>5. Register => managed' = TRUE
    BY DEF Register
  <2> QED BY <2>1, <2>2, <2>3, <2>4, <2>5 DEF Next
<1> QED BY <1>1 DEF IInv, TypeOK

(* IInv is inductive.                                                      *)
LEMMA NextKeepsIInv == ASSUME IInv, Next PROVE IInv'
<1>1. Facts'
  BY StepsAre, QuietKeepsFacts, PostingKeepsFacts, RowSavedKeepsFacts, RoundSavedKeepsFacts,
     WorkingKeepsFacts DEF IInv
<1>2. CopiesAreFaithful'
  <2>1. SUFFICES ASSUME NEW w \in Windows, round'[w] \in {"planned", "publish"}, NEW j \in Mine(w)
        PROVE  MayWrite(j, base[w][j], copy[w][j])'
    BY RoundsAre DEF CopiesAreFaithful, Mine, JobsOf
  <2>2. MayWrite(j, base'[w][j], copy'[w][j])
    BY <2>1, RoundsAre DEF RoundStays, RoundGoes, IInv, CopiesAreFaithful
  <2>3. j \in Jobs
    BY <2>1 DEF Mine, JobsOf
  <2>4. Ended(<<j, copy'[w][j].n>>) => Ended(<<j, copy[w][j].n>>)'
    BY <2>2, <2>3, CommandsAre, CancelledStays DEF MayWrite, Ended
  <2> QED BY <2>2, <2>4 DEF MayWrite
<1>3. TypeOK'
  <2>1. opened' \in [Windows -> Roots] /\ \A w \in Windows : Mine(w)' = Mine(w)
    BY RoundsAre DEF IInv, TypeOK, Mine, JobsOf
  <2>2. \A w \in Windows :
          IF round'[w] \in {"planned", "publish"}
          THEN base'[w] \in [Mine(w)' -> Row] /\ copy'[w] \in [Mine(w)' -> Row]
          ELSE base'[w] = NoRows /\ copy'[w] = NoRows
    BY <2>1, RoundsAre DEF IInv, TypeOK, RoundStays, RoundGoes
  <2>3. RoundTyped
    BY RoundsAre
  <2> QED BY <2>1, <2>2, <2>3, DiskStaysTyped, SendsStayTyped, CtlStays, LocksStayTyped,
             PostsStayTyped, TasksStayTyped, ManagedStaysTyped DEF TypeOK, RoundTyped, Send, Ctl
<1> QED BY <1>1, <1>2, <1>3, CtlStays DEF IInv

LEMMA StutterKeepsIInv == ASSUME IInv, UNCHANGED vars PROVE IInv'
<1> USE DEF vars, local, locks, Mine
<1>1. TypeOK'
  BY DEF IInv, TypeOK
<1>2. Facts'
  <2>1. Quiet
    BY SubsetsAreFewer DEF IInv, Facts, Quiet
  <2> QED BY <2>1, QuietKeepsFacts DEF IInv
<1>3. CtlIsTrue'
  BY DEF IInv, CtlIsTrue, Target
<1>4. CopiesAreFaithful'
  <2>2. SUFFICES ASSUME NEW w \in Windows, round[w] \in {"planned", "publish"}, NEW j \in Mine(w)
        PROVE  MayWrite(j, base[w][j], copy[w][j])'
    BY DEF CopiesAreFaithful
  <2>3. MayWrite(j, base[w][j], copy[w][j])
    BY <2>2 DEF IInv, CopiesAreFaithful
  <2> QED BY <2>3, Zenon DEF MayWrite, Ended
<1> QED BY <1>1, <1>2, <1>3, <1>4 DEF IInv

LEMMA IInvHolds == Spec => []IInv
BY InitIsRight, NextKeepsIInv, StutterKeepsIInv, PTL DEF Spec

(* The variables keep their types.                                         *)
THEOREM TypeOKHolds == Spec => []TypeOK
<1>1. IInv => TypeOK
  BY DEF IInv
<1> QED BY IInvHolds, <1>1, PTL

(* A bound row without proof holds its slot, and so does one that was sent *)
(* and has not ended.                                                      *)
LEMMA IInvCountsRisk == IInv => RiskIsCounted
<1> SUFFICES ASSUME IInv, NEW c \in Commands, MayStart(c) \/ Live(c) PROVE Holds(c)
  BY DEF RiskIsCounted
<1>1. c \in posts /\ task[c] \in {"new", "opening", "live"}
  BY DEF MayStart, Live, IInv, Facts, TasksWereSent
<1>2. BoundTo(c[1], c[2])
  BY <1>1 DEF IInv, Facts, RowIsKept
<1>3. c[1] \in Jobs /\ c = <<c[1], c[2]>>
  BY CommandsAre
<1>4. ~disk[c[1]].proof
  BY <1>1, <1>2, <1>3 DEF IInv, Facts, ProofIsTrue, Ended, BoundTo
<1> QED BY <1>2, <1>4 DEF Holds, Occupies, BoundTo

(* A command that runs, or may still start, holds its slot on disk,        *)
(* whatever windows crash, and however late its start request is served.   *)
THEOREM RiskIsCountedHolds == Spec => []RiskIsCounted
BY IInvHolds, IInvCountsRisk, PTL

(* Two commands of a job never run beside each other, however often it was *)
(* recalled, requeued, removed and submitted again.                        *)
THEOREM OneTaskPerJobHolds == Spec => []OneTaskPerJob
<1>1. RiskIsCounted => OneTaskPerJob
  <2> SUFFICES ASSUME RiskIsCounted, NEW c \in Commands, NEW d \in Commands, c[1] = d[1],
                      Live(c), Live(d) \/ MayStart(d)
               PROVE  c = d
    BY DEF OneTaskPerJob
  <2>1. Holds(c) /\ Holds(d)
    BY DEF RiskIsCounted
  <2> QED BY <2>1, CommandsAre DEF Holds
<1> QED BY <1>1, RiskIsCountedHolds, PTL

(* No save of any window takes back that a command is to stop, or that it  *)
(* has ended.                                                              *)
THEOREM FactsStayHolds == Spec => FactsStay
<1> DEFINE Stay(j) ==
        disk[j].st = "bound" /\ disk'[j].st = "bound" /\ disk[j].n = disk'[j].n =>
            /\ disk[j].want # "none" => disk'[j].want = disk[j].want
            /\ disk[j].proof => disk'[j].proof
<1>1. ASSUME IInv, Next PROVE \A j \in Jobs : Stay(j)
  <2>1. CASE Quiet \/ Posting \/ Working
    BY <2>1 DEF Quiet, Posting, Working
  <2>2. CASE RowSaved
    <3>1. PICK j \in Jobs : /\ \A i \in Jobs \ {j} : disk'[i] = disk[i]
                            /\ Marked(j) \/ Returned(j) \/ Renewed(j) \/ Removed(j)
      BY <2>2 DEF RowSaved
    <3>2. disk[j].n \in Nat
      BY <1>1 DEF IInv, TypeOK, Row
    <3>3. Marked(j) \/ disk'[j].st # "bound"
      BY <3>1, <3>2, NewRows DEF Returned, Renewed, Removed
    <3>4. Stay(j)
      BY <3>3 DEF Marked
    <3>5. ASSUME NEW i \in Jobs \ {j} PROVE Stay(i)
      <4>1. disk'[i] = disk[i]
        BY <3>1, <3>5
      <4> QED BY <4>1, Zenon
    <3> HIDE DEF Stay
    <3> QED BY <3>4, <3>5
  <2>3. CASE RoundSaved
    <3>1. \A j \in Jobs : MayWrite(j, disk[j], disk'[j]) \/ disk'[j] = disk[j]
      BY <2>3 DEF RoundSaved
    <3> QED BY <3>1 DEF MayWrite
  <2> QED BY <1>1, <2>1, <2>2, <2>3, StepsAre
<1>2. ASSUME IInv, [Next]_vars PROVE [\A j \in Jobs : Stay(j)]_vars
  BY <1>1, <1>2
<1> HIDE DEF Stay
<1>3. [][\A j \in Jobs : Stay(j)]_vars => FactsStay
  BY PTL DEF FactsStay, Stay
<1> QED BY IInvHolds, <1>2, <1>3, PTL DEF Spec
-----------------------------------------------------------------------------
(***************************************************************************)
(* The promises.  First, a card is never promised to more jobs than it     *)
(* takes.  Jobs are counted by the save that admits them, and written      *)
(* later; what makes the count last until then is that only the holder of  *)
(* the shared lease can make a slot taken that was not.                    *)
(*                                                                         *)
(* Second, PlanDispatch implements SlotPromise: each of its steps is, in   *)
(* what it does to the slots and the risk of commands, a step of           *)
(* SlotPromise or none.                                                    *)
(***************************************************************************)

-----------------------------------------------------------------------------
(* The quota.                                                              *)

(* What a round will write takes no slot of a row that had a command.      *)
MayHold(row, new) ==
    row.st = "bound" =>
        /\ new.st = "bound" /\ new.card = row.card /\ new.consent = row.consent
        /\ Occupies(new) => Occupies(row)

RoundHolds(w) ==
    round[w] \in {"planned", "publish"} => \A j \in Mine(w) : MayHold(base[w][j], copy[w][j])

(* Consent is given by the admission alone, and only in a common domain.   *)
ConsentIsGiven(w) ==
    round[w] = "planned" \/ (round[w] = "publish" /\ ~managed) =>
        \A j \in Dispatched(w) : copy[w][j].consent = FALSE

(* A round that will dispatch holds the shared lease until it has saved.   *)
SharedIsHeld(w) == round[w] = "publish" /\ Dispatched(w) # {} => sharedLock = w

(* What it has counted still holds when it saves.                          *)
New(w, k) == {j \in Dispatched(w) : copy[w][j].card = k}
Fits(w, k) == Cardinality(OnCard(disk, k)) + Cardinality(New(w, k)) <= Quota
CountLasts(w) == round[w] = "publish" /\ managed => \A k \in Cards : New(w, k) = {} \/ Fits(w, k)

CountIs(w) == RoundHolds(w) /\ ConsentIsGiven(w) /\ SharedIsHeld(w) /\ CountLasts(w)
Counting == \A w \in Windows : CountIs(w)
QInv == IInv /\ Counting /\ PromisesWithinQuota

-----------------------------------------------------------------------------
(* Steps other than a save: no row takes a slot that it had not, and no    *)
(* consent is given.                                                       *)
Lets(row, new) == Occupies(new) => Occupies(row) /\ new.card = row.card /\ new.consent = row.consent
NoneTaken == \A j \in Jobs : Lets(disk[j], disk'[j])

(* A round goes on as it is or ends, and nobody takes its lease.           *)
Kept(w) ==
    \/ round'[w] \notin {"planned", "publish"}
    \/ /\ round'[w] = round[w] /\ base'[w] = base[w] /\ copy'[w] = copy[w]
       /\ sharedLock = w => sharedLock' = w

(* A registration waits for the shared lease.                              *)
ManagedIs == managed' = managed \/ (managed' = TRUE /\ sharedLock = None)

OnCards == \A k \in Cards : OnCard(disk', k) \subseteq OnCard(disk, k)
Consenting(rows, k) == {j \in OnCard(rows, k) : rows[j].consent}

-----------------------------------------------------------------------------
(* The rows of a card are finitely many.                                   *)
LEMMA OnCardIsFinite ==
    ASSUME TypeOK, NEW k
    PROVE  OnCard(disk, k) \subseteq Jobs /\ IsFiniteSet(OnCard(disk, k)) /\ Cardinality(OnCard(disk, k)) \in Nat
<1>1. OnCard(disk, k) \in SUBSET Jobs
  BY DEF TypeOK, OnCard
<1>2. IsFiniteSet(OnCard(disk, k))
  BY <1>1, FiniteJobs, FS_Subset
<1> QED BY <1>1, <1>2, FS_CardinalityType

LEMMA NewIsFinite ==
    ASSUME TypeOK, NEW w \in Windows, NEW k, round[w] \in {"planned", "publish"}
    PROVE  /\ Dispatched(w) \subseteq Mine(w) /\ Mine(w) \subseteq Jobs /\ New(w, k) \subseteq Dispatched(w)
           /\ IsFiniteSet(New(w, k)) /\ Cardinality(New(w, k)) \in Nat
<1>1. Dispatched(w) \subseteq Mine(w) /\ Mine(w) \subseteq Jobs /\ New(w, k) \subseteq Dispatched(w)
  BY DEF TypeOK, Dispatched, Mine, JobsOf, New
<1>2. New(w, k) \in SUBSET Jobs
  BY <1>1
<1>3. IsFiniteSet(New(w, k))
  BY <1>2, FiniteJobs, FS_Subset
<1> QED BY <1>1, <1>3, FS_CardinalityType

LEMMA NoneTakenShrinks ==
    ASSUME TypeOK, TypeOK', NoneTaken
    PROVE  \A k \in Cards : /\ OnCard(disk', k) \subseteq OnCard(disk, k)
                            /\ Consenting(disk', k) \subseteq Consenting(disk, k)
BY DEF TypeOK, NoneTaken, Lets, OnCard, Consenting

LEMMA FewerFit ==
    ASSUME TypeOK, TypeOK', NEW k, OnCard(disk', k) \subseteq OnCard(disk, k)
    PROVE  Cardinality(OnCard(disk', k)) <= Cardinality(OnCard(disk, k)) /\ Cardinality(OnCard(disk', k)) \in Nat
<1>1. IsFiniteSet(OnCard(disk, k)) /\ OnCard(disk', k) \in SUBSET OnCard(disk, k)
  BY OnCardIsFinite
<1> QED BY <1>1, FS_Subset, FS_CardinalityType

(* A round that goes on keeps what it has counted.                         *)
LEMMA KeptCounts ==
    ASSUME TypeOK, TypeOK', opened' = opened, ManagedIs,
           NEW w \in Windows, CountIs(w), Kept(w), NoneTaken \/ sharedLock # w
    PROVE  CountIs(w)'
<1>1. CASE round'[w] \notin {"planned", "publish"}
  BY <1>1 DEF CountIs, RoundHolds, ConsentIsGiven, SharedIsHeld, CountLasts
<1>2. CASE round'[w] \in {"planned", "publish"}
  <2>1. /\ round'[w] = round[w] /\ base'[w] = base[w] /\ copy'[w] = copy[w]
        /\ sharedLock = w => sharedLock' = w
    BY <1>2 DEF Kept
  <2>2. Dispatched(w)' = Dispatched(w) /\ Mine(w)' = Mine(w)
    BY <2>1 DEF Dispatched, Mine
  <2>3. \A k : New(w, k)' = New(w, k)
    BY <2>1, <2>2 DEF New
  <2>4. RoundHolds(w)'
    BY <2>1, <2>2 DEF CountIs, RoundHolds
  <2>5. ConsentIsGiven(w)'
    BY <2>1, <2>2 DEF CountIs, ConsentIsGiven, ManagedIs
  <2>6. SharedIsHeld(w)'
    BY <2>1, <2>2 DEF CountIs, SharedIsHeld
  <2>7. CountLasts(w)'
    <3>1. SUFFICES ASSUME round'[w] = "publish", managed', NEW k \in Cards, New(w, k)' # {}
                   PROVE  Fits(w, k)'
      BY DEF CountLasts
    <3>2. round[w] = "publish" /\ New(w, k) # {} /\ Dispatched(w) # {}
      BY <2>1, <2>3, <3>1 DEF New
    <3>3. sharedLock = w
      BY <3>2 DEF CountIs, SharedIsHeld
    <3>4. managed
      BY <3>1, <3>3, Typing DEF ManagedIs
    <3>5. Fits(w, k)
      BY <3>2, <3>4 DEF CountIs, CountLasts
    <3>6. OnCard(disk', k) \subseteq OnCard(disk, k)
      BY <3>3, NoneTakenShrinks
    <3>7. Cardinality(OnCard(disk', k)) <= Cardinality(OnCard(disk, k)) /\ Cardinality(OnCard(disk', k)) \in Nat
      BY <3>6, FewerFit
    <3>8. Cardinality(OnCard(disk, k)) \in Nat /\ Cardinality(New(w, k)) \in Nat
      BY <3>2, OnCardIsFinite, NewIsFinite
    <3>9. Cardinality(OnCard(disk', k)) + Cardinality(New(w, k)') <= Quota
      BY <2>3, <3>5, <3>7, <3>8, Bounds DEF Fits
    <3> QED BY <3>9 DEF Fits
  <2> QED BY <2>4, <2>5, <2>6, <2>7 DEF CountIs
<1> QED BY <1>1, <1>2

LEMMA ShrinkKeepsQuota ==
    ASSUME TypeOK, TypeOK', NoneTaken, PromisesWithinQuota PROVE PromisesWithinQuota'
<1>1. SUFFICES ASSUME NEW k \in Cards PROVE Cardinality(Consenting(disk', k)) <= Quota
  BY DEF PromisesWithinQuota, Consenting
<1>2. Consenting(disk, k) \subseteq OnCard(disk, k) /\ Consenting(disk', k) \in SUBSET Consenting(disk, k)
  BY NoneTakenShrinks DEF Consenting
<1>3. IsFiniteSet(Consenting(disk, k))
  BY <1>2, OnCardIsFinite, FS_Subset
<1>4. Cardinality(Consenting(disk', k)) <= Cardinality(Consenting(disk, k))
      /\ Cardinality(Consenting(disk', k)) \in Nat /\ Cardinality(Consenting(disk, k)) \in Nat
  BY <1>2, <1>3, FS_Subset, FS_CardinalityType
<1>5. Cardinality(Consenting(disk, k)) <= Quota
  BY DEF PromisesWithinQuota, Consenting
<1> QED BY <1>4, <1>5, Bounds

-----------------------------------------------------------------------------
(* What a query tells of a row gives its slot back at most.                *)
LEMMA ObservedHolds == ASSUME NEW j \in Jobs, NEW row \in Row PROVE MayHold(row, Observed(j, row))
<1>1. CASE row.st # "bound"
  BY <1>1 DEF MayHold
<1>2. CASE row.st = "bound"
  <2> DEFINE ended == Ended(<<j, row.n>>)
             seen == Seen(<<j, row.n>>)
  <2>1. ended \in BOOLEAN /\ seen \in BOOLEAN
    BY DEF Ended, Seen
  <2>2. Observed(j, row) = [row EXCEPT !.proof = @ \/ ended, !.intent = @ /\ ~seen]
    BY <1>2 DEF Observed
  <2> HIDE DEF ended, seen
  <2>3. /\ Observed(j, row).st = row.st /\ Observed(j, row).card = row.card
        /\ Observed(j, row).consent = row.consent
        /\ Observed(j, row).proof = (row.proof \/ ended) /\ Observed(j, row).intent = (row.intent /\ ~seen)
    BY <2>1, <2>2 DEF Row
  <2>4. Occupies(Observed(j, row)) => Occupies(row)
    BY <2>3 DEF Occupies
  <2> QED BY <1>2, <2>3, <2>4 DEF MayHold
<1> QED BY <1>1, <1>2

LEMMA RowHolds == ASSUME NEW row PROVE MayHold(row, row)
BY DEF MayHold

(* The round of a plan gives no consent.                                   *)
LEMMA PlanCounts == ASSUME IInv, NEW w \in Windows, Plan(w) PROVE CountIs(w)'
<1>1. /\ disk \in [Jobs -> Row] /\ DOMAIN base = Windows /\ DOMAIN copy = Windows
      /\ Mine(w) \subseteq Jobs /\ round \in [Windows -> {"idle", "planned", "publish", "stale"}]
  BY DEF IInv, TypeOK, Mine, JobsOf
<1>2. PICK answered \in BOOLEAN, chosen \in SUBSET {j \in Mine(w) : disk[j].st = "pending"} :
        \E at \in [chosen -> Cards] : copy' = [copy EXCEPT ![w] = [j \in Mine(w) |->
                  IF j \in chosen THEN Bound(disk[j].n, at[j])
                  ELSE IF answered THEN Observed(j, disk[j]) ELSE disk[j]]]
  BY DEF Plan
<1>3. PICK at \in [chosen -> Cards] : copy' = [copy EXCEPT ![w] = [j \in Mine(w) |->
                  IF j \in chosen THEN Bound(disk[j].n, at[j])
                  ELSE IF answered THEN Observed(j, disk[j]) ELSE disk[j]]]
  BY <1>2
<1>4. base'[w] = [j \in Mine(w) |-> disk[j]] /\ round'[w] = "planned" /\ opened' = opened
  BY <1>1 DEF Plan
<1>5. copy'[w] = [j \in Mine(w) |->
                  IF j \in chosen THEN Bound(disk[j].n, at[j])
                  ELSE IF answered THEN Observed(j, disk[j]) ELSE disk[j]]
  BY <1>1, <1>3
<1>6. Mine(w)' = Mine(w)
  BY <1>4 DEF Mine
<1>7. ASSUME NEW j \in Mine(w)
      PROVE  /\ MayHold(disk[j], copy'[w][j])
             /\ disk[j].st = "pending" /\ copy'[w][j].st = "bound" => copy'[w][j].consent = FALSE
  <2>1. j \in Jobs /\ disk[j] \in Row
    BY <1>1
  <2>2. CASE j \in chosen
    <3>1. copy'[w][j] = Bound(disk[j].n, at[j]) /\ disk[j].st = "pending"
      BY <1>5, <2>2
    <3>2. Bound(disk[j].n, at[j]).consent = FALSE
      BY DEF Bound, NewRow
    <3> QED BY <3>1, <3>2 DEF MayHold
  <2>3. CASE j \notin chosen
    <3>1. copy'[w][j] = Observed(j, disk[j]) \/ copy'[w][j] = disk[j]
      BY <1>5, <2>3
    <3>2. disk[j].st # "bound" => copy'[w][j] = disk[j]
      BY <2>1, <3>1, ObservedIs
    <3> QED BY <2>1, <3>1, <3>2, ObservedHolds, RowHolds
  <2> QED BY <2>2, <2>3
<1>8. RoundHolds(w)'
  <2>1. SUFFICES ASSUME NEW j \in Mine(w) PROVE MayHold(base[w][j], copy[w][j])'
    BY <1>6 DEF RoundHolds
  <2>2. MayHold(disk[j], copy'[w][j]) /\ base'[w][j] = disk[j]
    BY <1>4, <1>7
  <2>3. MayHold(base'[w][j], copy'[w][j])
    BY <2>2
  <2> QED BY <2>3 DEF MayHold, Occupies
<1>9. ConsentIsGiven(w)'
  <2>1. Dispatched(w)' = {j \in Mine(w) : copy'[w][j].st = "bound" /\ disk[j].st = "pending"}
    BY <1>4, <1>5 DEF Dispatched
  <2> QED BY <1>7, <2>1 DEF ConsentIsGiven
<1> QED BY <1>4, <1>8, <1>9 DEF CountIs, SharedIsHeld, CountLasts

(* The admission counts, and takes the shared lease if it grants anything. *)
LEMMA PrepareCounts == ASSUME IInv, NEW w \in Windows, CountIs(w), Prepare(w), DiskIsBase(w) PROVE CountIs(w)'
<1>1. /\ DOMAIN base = Windows /\ DOMAIN copy = Windows /\ base' = base /\ opened' = opened
      /\ copy[w] \in [Mine(w) -> Row] /\ round[w] = "planned" /\ round'[w] = "publish"
      /\ disk' = disk /\ managed' = managed
  BY DEF IInv, TypeOK, Prepare
<1>2. Mine(w)' = Mine(w)
  BY <1>1 DEF Mine
<1>3. PICK granted \in Granted(w) : copy' = [copy EXCEPT ![w] = Decided(w, granted)]
  BY DEF Prepare
<1>4. copy'[w] = Decided(w, granted)
  BY <1>1, <1>3
<1>5. granted \subseteq Dispatched(w) /\ Dispatched(w) \subseteq Mine(w)
  BY <1>1, <1>3 DEF Granted, Admissible, Dispatched
<1>6. sharedLock' = IF Dispatched(w) = {} THEN sharedLock ELSE w
  BY DEF Prepare
<1>7. CASE ~managed
  <2>1. copy'[w] = copy[w]
    BY <1>4, <1>7 DEF Decided
  <2>2. Dispatched(w)' = Dispatched(w)
    BY <1>1, <2>1 DEF Dispatched
  <2>3. RoundHolds(w)'
    BY <1>1, <1>2, <2>1 DEF CountIs, RoundHolds
  <2>4. ConsentIsGiven(w)'
    BY <1>1, <2>1, <2>2 DEF CountIs, ConsentIsGiven
  <2>5. SharedIsHeld(w)'
    BY <1>6, <2>2 DEF SharedIsHeld
  <2>6. CountLasts(w)'
    BY <1>1, <1>7 DEF CountLasts
  <2> QED BY <2>3, <2>4, <2>5, <2>6 DEF CountIs
<1>8. CASE managed
  <2>1. copy'[w] = [j \in Mine(w) |->
            IF j \in granted THEN [copy[w][j] EXCEPT !.consent = TRUE]
            ELSE IF j \in Dispatched(w) THEN Pending(copy[w][j].n) ELSE copy[w][j]]
    BY <1>4, <1>8 DEF Decided
  <2>2. \A j \in granted : copy'[w][j].st = "bound" /\ copy'[w][j].card = copy[w][j].card
    <3>1. SUFFICES ASSUME NEW j \in granted PROVE copy'[w][j].st = "bound" /\ copy'[w][j].card = copy[w][j].card
      OBVIOUS
    <3>2. copy[w][j] \in Row /\ copy[w][j].st = "bound" /\ copy'[w][j] = [copy[w][j] EXCEPT !.consent = TRUE]
      BY <1>1, <1>5, <2>1 DEF Dispatched
    <3> QED BY <3>2 DEF Row
  <2>3. \A j \in Dispatched(w) \ granted : copy'[w][j].st = "pending"
    <3>1. \A j \in Dispatched(w) \ granted : copy'[w][j] = Pending(copy[w][j].n) /\ copy[w][j] \in Row
      BY <1>1, <1>5, <2>1
    <3>2. \A n : Pending(n).st = "pending"
      BY DEF Pending, NewRow
    <3> QED BY <3>1, <3>2
  <2>4. \A j \in Mine(w) \ Dispatched(w) : copy'[w][j] = copy[w][j]
    BY <1>5, <2>1
  <2>5. Dispatched(w)' = granted
    <3>1. Dispatched(w)' = {j \in Mine(w) : copy'[w][j].st = "bound" /\ base[w][j].st = "pending"}
      BY <1>1, <2>1 DEF Dispatched
    <3>2. Dispatched(w) = {j \in Mine(w) : copy[w][j].st = "bound" /\ base[w][j].st = "pending"}
      BY <1>1 DEF Dispatched
    <3> QED BY <1>5, <2>2, <2>3, <2>4, <3>1, <3>2
  <2>6. RoundHolds(w)'
    <3>1. SUFFICES ASSUME NEW j \in Mine(w) PROVE MayHold(base[w][j], copy[w][j])'
      BY <1>2 DEF RoundHolds
    <3>2. MayHold(base[w][j], copy'[w][j])
      <4>1. CASE j \in Dispatched(w)
        BY <4>1 DEF Dispatched, MayHold
      <4>2. CASE j \notin Dispatched(w)
        BY <1>1, <2>4, <4>2 DEF CountIs, RoundHolds
      <4> QED BY <4>1, <4>2
    <3> QED BY <1>1, <3>2 DEF MayHold, Occupies
  <2>7. ConsentIsGiven(w)'
    BY <1>1, <1>8 DEF ConsentIsGiven
  <2>8. SharedIsHeld(w)'
    BY <1>5, <1>6, <2>5 DEF SharedIsHeld
  <2>9. CountLasts(w)'
    <3>1. SUFFICES ASSUME NEW k \in Cards, New(w, k)' # {} PROVE Fits(w, k)'
      BY DEF CountLasts
    <3>2. New(w, k)' = {j \in granted : copy[w][j].card = k}
      BY <2>2, <2>5 DEF New
    <3>3. granted \in Admissible(w)
      BY <1>3, <3>1, <3>2 DEF Granted
    <3>4. Room(w, granted, k)
      BY <3>1, <3>2, <3>3 DEF Admissible
    <3> QED BY <1>1, <3>2, <3>4 DEF Fits, Room
  <2> QED BY <2>6, <2>7, <2>8, <2>9 DEF CountIs
<1> QED BY <1>7, <1>8 DEF IInv, TypeOK

(* A save takes slots for the jobs that it dispatches alone.               *)
LEMMA PublishLets ==
    ASSUME IInv, NEW w \in Windows, CountIs(w), Publish(w), round[w] = "publish", DiskIsBase(w)
    PROVE  /\ \A j \in Jobs \ Dispatched(w) : Lets(disk[j], disk'[j])
           /\ Dispatched(w) \subseteq Mine(w) /\ Mine(w) \subseteq Jobs
           /\ \A j \in Dispatched(w) : disk'[j] = copy[w][j] /\ disk[j].st = "pending"
           /\ \A j \in Mine(w) : MayHold(disk[j], disk'[j]) /\ MayWrite(j, disk[j], disk'[j])
           /\ \A j \in Jobs \ Mine(w) : disk'[j] = disk[j]
<1>1. disk \in [Jobs -> Row]
  BY DEF IInv, TypeOK
<1>2. disk' = [j \in Jobs |-> IF j \in Mine(w) THEN copy[w][j] ELSE disk[j]]
  BY DEF Publish
<1>3. Dispatched(w) \subseteq Mine(w) /\ Mine(w) \subseteq Jobs
  BY DEF IInv, TypeOK, Dispatched, Mine, JobsOf
<1>4. \A j \in Mine(w) : disk'[j] = copy[w][j] /\ base[w][j] = disk[j]
  BY <1>2, <1>3 DEF DiskIsBase
<1>5. \A j \in Mine(w) : MayHold(disk[j], disk'[j]) /\ MayWrite(j, disk[j], disk'[j])
  <2>1. SUFFICES ASSUME NEW j \in Mine(w) PROVE MayHold(disk[j], disk'[j]) /\ MayWrite(j, disk[j], disk'[j])
    OBVIOUS
  <2>2. MayHold(base[w][j], copy[w][j]) /\ MayWrite(j, base[w][j], copy[w][j])
    BY DEF IInv, CopiesAreFaithful, CountIs, RoundHolds
  <2> QED BY <1>4, <2>2
<1>6. \A j \in Dispatched(w) : disk'[j] = copy[w][j] /\ disk[j].st = "pending"
  BY <1>3, <1>4 DEF Dispatched
<1>7. \A j \in Jobs \ Mine(w) : disk'[j] = disk[j]
  BY <1>2
<1>8. \A j \in Jobs \ Dispatched(w) : Lets(disk[j], disk'[j])
  <2>1. SUFFICES ASSUME NEW j \in Jobs \ Dispatched(w) PROVE Lets(disk[j], disk'[j])
    OBVIOUS
  <2>2. CASE j \notin Mine(w)
    BY <1>7, <2>2 DEF Lets
  <2>3. CASE j \in Mine(w)
    <3>1. MayHold(disk[j], disk'[j]) /\ MayWrite(j, disk[j], disk'[j])
      BY <1>5, <2>3
    <3>2. disk[j].st = "bound" \/ disk'[j].st # "bound"
      <4>1. disk[j].st \in {"pending", "bound", "gone"}
        BY <1>1 DEF Row
      <4>2. disk[j].st = "pending" => disk'[j].st # "bound"
        <5>1. copy[w] \in [Mine(w) -> Row]
          BY DEF IInv, TypeOK
        <5> QED BY <1>4, <2>1, <2>3, <5>1 DEF Dispatched
      <4> QED BY <3>1, <4>1, <4>2 DEF MayWrite
    <3> QED BY <3>1, <3>2 DEF Lets, MayHold, Occupies
  <2> QED BY <2>2, <2>3
<1> QED BY <1>3, <1>5, <1>6, <1>7, <1>8

(* A save that takes slots holds the shared lease, and there is room.      *)
LEMMA PublishTakes ==
    ASSUME IInv, TypeOK', PromisesWithinQuota, NEW w \in Windows, CountIs(w), Publish(w)
    PROVE  /\ NoneTaken \/ sharedLock = w
           /\ PromisesWithinQuota'
<1>1. disk \in [Jobs -> Row]
  BY DEF IInv, TypeOK
<1>2. CASE ~(round[w] = "publish" /\ DiskIsBase(w))
  <2>1. NoneTaken
    BY <1>2 DEF Publish, NoneTaken, Lets
  <2> QED BY <2>1, ShrinkKeepsQuota DEF IInv
<1>3. CASE round[w] = "publish" /\ DiskIsBase(w)
  <2>1. disk' = [j \in Jobs |-> IF j \in Mine(w) THEN copy[w][j] ELSE disk[j]]
    BY <1>3 DEF Publish
  <2>2. copy[w] \in [Mine(w) -> Row] /\ Dispatched(w) \subseteq Mine(w) /\ Mine(w) \subseteq Jobs
    BY <1>3 DEF IInv, TypeOK, Dispatched, Mine, JobsOf
  <2>3. \A j \in Jobs \ Dispatched(w) : Lets(disk[j], disk'[j])
    BY <1>3, PublishLets
  <2>4. CASE Dispatched(w) = {}
    <3>1. NoneTaken
      BY <2>3, <2>4 DEF NoneTaken
    <3> QED BY <3>1, ShrinkKeepsQuota DEF IInv
  <2>5. CASE Dispatched(w) # {}
    <3>1. sharedLock = w
      BY <1>3, <2>5 DEF CountIs, SharedIsHeld
    <3>2. SUFFICES ASSUME NEW k \in Cards PROVE Cardinality(Consenting(disk', k)) <= Quota
      BY <3>1 DEF PromisesWithinQuota, Consenting
    <3>3. Consenting(disk', k) \subseteq Consenting(disk, k) \cup {j \in New(w, k) : copy[w][j].consent}
      <4>1. SUFFICES ASSUME NEW j \in Consenting(disk', k)
                     PROVE  j \in Consenting(disk, k) \/ (j \in New(w, k) /\ copy[w][j].consent)
        OBVIOUS
      <4>2. j \in Jobs /\ Occupies(disk'[j]) /\ disk'[j].card = k /\ disk'[j].consent
        BY <2>1 DEF Consenting, OnCard
      <4>3. CASE j \in Dispatched(w)
        <5>1. disk'[j] = copy[w][j]
          BY <2>1, <2>2, <4>2, <4>3
        <5> QED BY <4>2, <4>3, <5>1 DEF New
      <4>4. CASE j \notin Dispatched(w)
        BY <1>1, <2>3, <4>2, <4>4 DEF Lets, Consenting, OnCard
      <4> QED BY <4>3, <4>4
    <3>4. /\ IsFiniteSet(Consenting(disk, k)) /\ Cardinality(Consenting(disk, k)) \in Nat
          /\ Cardinality(Consenting(disk, k)) <= Cardinality(OnCard(disk, k))
          /\ IsFiniteSet(OnCard(disk, k)) /\ Cardinality(OnCard(disk, k)) \in Nat
      <4>1. IsFiniteSet(OnCard(disk, k)) /\ Cardinality(OnCard(disk, k)) \in Nat
        BY OnCardIsFinite DEF IInv
      <4>2. Consenting(disk, k) \in SUBSET OnCard(disk, k)
        BY DEF Consenting
      <4> QED BY <4>1, <4>2, FS_Subset, FS_CardinalityType
    <3>5. Cardinality(Consenting(disk, k)) <= Quota
      BY DEF PromisesWithinQuota, Consenting
    <3>6. IsFiniteSet(New(w, k)) /\ Cardinality(New(w, k)) \in Nat
      BY <1>3, NewIsFinite DEF IInv
    <3>7. CASE ~managed \/ New(w, k) = {}
      <4>1. Consenting(disk', k) \in SUBSET Consenting(disk, k)
        BY <1>3, <3>3, <3>7 DEF CountIs, ConsentIsGiven, New
      <4>2. Cardinality(Consenting(disk', k)) <= Cardinality(Consenting(disk, k))
            /\ Cardinality(Consenting(disk', k)) \in Nat
        BY <3>4, <4>1, FS_Subset, FS_CardinalityType
      <4> QED BY <3>4, <3>5, <4>2, Bounds
    <3>8. CASE managed /\ New(w, k) # {}
      <4>1. Cardinality(OnCard(disk, k)) + Cardinality(New(w, k)) <= Quota
        BY <1>3, <3>8 DEF CountIs, CountLasts, Fits
      <4> DEFINE both == Consenting(disk, k) \cup New(w, k)
      <4>2. /\ IsFiniteSet(both)
            /\ Cardinality(both) = Cardinality(Consenting(disk, k)) + Cardinality(New(w, k))
                                    - Cardinality(Consenting(disk, k) \cap New(w, k))
        BY <3>4, <3>6, FS_Union
      <4>3. Cardinality(Consenting(disk, k) \cap New(w, k)) \in Nat
        <5>1. Consenting(disk, k) \cap New(w, k) \in SUBSET New(w, k)
          OBVIOUS
        <5> QED BY <3>6, <5>1, FS_Subset, FS_CardinalityType
      <4>4. Consenting(disk', k) \in SUBSET both
        BY <3>3
      <4> HIDE DEF both
      <4>5. Cardinality(Consenting(disk', k)) <= Cardinality(both) /\ Cardinality(both) \in Nat
            /\ Cardinality(Consenting(disk', k)) \in Nat
        BY <4>2, <4>4, FS_Subset, FS_CardinalityType
      <4> QED BY <3>4, <3>6, <4>1, <4>2, <4>3, <4>5, Bounds
    <3> QED BY <3>7, <3>8 DEF IInv, TypeOK
  <2> QED BY <2>4, <2>5
<1> QED BY <1>2, <1>3

-----------------------------------------------------------------------------
(* The rounds of other windows go on.                                      *)
LEMMA OthersGoOn ==
    ASSUME TypeOK, NEW w \in Windows, Plan(w) \/ Prepare(w) \/ Publish(w) \/ Crash(w), NEW v \in Windows \ {w},
           sharedLock = v => w # v
    PROVE  Kept(v)
<1>1. round'[v] = round[v] /\ base'[v] = base[v] /\ copy'[v] = copy[v]
  BY DEF TypeOK, Plan, Prepare, Publish, Crash
<1>2. sharedLock = v => sharedLock' = v
  <2>1. CASE Plan(w)
    BY <2>1 DEF Plan, locks
  <2>2. CASE Prepare(w)
    BY <2>2, Typing DEF Prepare, MayLock, locks
  <2>3. CASE Publish(w) \/ Crash(w)
    BY <2>3 DEF Publish, Crash, Unlocked
  <2> QED BY <2>1, <2>2, <2>3
<1> QED BY <1>1, <1>2 DEF Kept

(* A step that changes no round keeps them all.                            *)
LEMMA IdleKeeps == ASSUME UNCHANGED <<round, base, copy, sharedLock>> PROVE \A v \in Windows : Kept(v)
BY DEF Kept

LEMMA FenceKeeps ==
    ASSUME TypeOK, NEW w \in Windows, NEW s, FenceRound(w, s), sharedLock' = sharedLock
    PROVE  \A v \in Windows : Kept(v)
BY DEF TypeOK, FenceRound, Kept

LEMMA SameDiskTakesNone == ASSUME disk' = disk PROVE NoneTaken
BY DEF NoneTaken, Lets

LEMMA RowReplaced ==
    ASSUME TypeOK, NEW j \in Jobs, NEW row, disk' = [disk EXCEPT ![j] = row], row.st = "bound" => Lets(disk[j], row)
    PROVE  NoneTaken
<1>1. disk'[j] = row /\ \A i \in Jobs \ {j} : disk'[i] = disk[i]
  BY DEF TypeOK
<1>2. Lets(disk[j], row)
  BY DEF Lets, Occupies
<1>3. \A i \in Jobs \ {j} : Lets(disk[i], disk'[i])
  BY <1>1 DEF Lets
<1> QED BY <1>1, <1>2, <1>3 DEF NoneTaken

Calm == NoneTaken /\ ManagedIs /\ opened' = opened /\ \A v \in Windows : Kept(v)

LEMMA NoRowIsBound == \A n : Pending(n).st # "bound" /\ Gone(n).st # "bound"
BY DEF Pending, Gone, NewRow

LEMMA WindowStepsAreCalm ==
    ASSUME IInv, NEW w \in Windows,
           \/ Detach(w) \/ Confirm(w) \/ GiveUp(w) \/ Settle(w)
           \/ \E d \in sends[w] : Guard(w, d) \/ Post(w, d) \/ Release(w, d)
    PROVE  Calm
<1>1. TypeOK
  BY DEF IInv
<1>2. CASE Confirm(w) \/ GiveUp(w)
  <2>1. UNCHANGED <<disk, managed, opened, round, base, copy, sharedLock>>
    BY <1>2 DEF Confirm, GiveUp, local, locks
  <2> QED BY <2>1, IdleKeeps, SameDiskTakesNone DEF Calm, ManagedIs
<1>3. CASE \E d \in sends[w] : Guard(w, d) \/ Post(w, d)
  <2>1. UNCHANGED <<disk, managed, opened, round, base, copy, sharedLock>>
    BY <1>3 DEF Guard, Post, locks
  <2> QED BY <2>1, IdleKeeps, SameDiskTakesNone DEF Calm, ManagedIs
<1>4. ASSUME NEW d \in sends[w], Release(w, d) PROVE Calm
  <2>1. UNCHANGED <<managed, opened, sharedLock>>
    BY <1>4 DEF Release, locks
  <2>2. d.job \in Jobs
    BY <1>1 DEF TypeOK
  <2>3. NoneTaken
    <3>1. CASE Releasable(d)
      BY <1>1, <1>4, <2>2, <3>1, RowReplaced, NoRowIsBound DEF Release
    <3>2. CASE ~Releasable(d)
      BY <1>4, <3>2, SameDiskTakesNone DEF Release
    <3> QED BY <3>1, <3>2
  <2>4. \A v \in Windows : Kept(v)
    BY <1>1, <1>4, <2>1, FenceKeeps, IdleKeeps DEF Release
  <2> QED BY <2>1, <2>3, <2>4 DEF Calm, ManagedIs
<1>5. CASE Settle(w)
  <2> DEFINE j == ctl[w].job
             same == disk[j].st = "bound" /\ disk[j].n = ctl[w].n
  <2>1. UNCHANGED <<managed, opened, sharedLock>>
    BY <1>5 DEF Settle, locks
  <2>2. \A v \in Windows : Kept(v)
    BY <1>1, <1>5, <2>1, FenceKeeps, IdleKeeps DEF Settle, local
  <2>3. CASE ~same
    <3>1. disk' = disk
      BY <1>5, <2>3 DEF Settle
    <3> QED BY <2>1, <2>2, <3>1, SameDiskTakesNone DEF Calm, ManagedIs
  <2>4. CASE same
    <3> DEFINE row == IF ctl[w].kind = "stop" THEN Gone(disk[j].n) ELSE Pending(disk[j].n + 1)
    <3>1. disk' = [disk EXCEPT ![j] = row]
      BY <1>5, <2>4 DEF Settle
    <3>2. row.st # "bound"
      BY NoRowIsBound
    <3>3. j \in Jobs
      BY <1>1, <1>5 DEF TypeOK, Settle, At
    <3> HIDE DEF row, j
    <3>4. NoneTaken
      BY <1>1, <3>1, <3>2, <3>3, RowReplaced
    <3> QED BY <2>1, <2>2, <3>4 DEF Calm, ManagedIs
  <2> QED BY <2>3, <2>4
<1>6. CASE Detach(w)
  <2>1. UNCHANGED <<disk, managed, opened, sharedLock>> /\ FenceRound(w, sends[w])
    BY <1>6 DEF Detach, locks
  <2> QED BY <1>1, <2>1, FenceKeeps, SameDiskTakesNone DEF Calm, ManagedIs
<1> QED BY <1>2, <1>3, <1>4, <1>5, <1>6

LEMMA UserStepsAreCalm ==
    ASSUME IInv, NEW w \in Windows, NEW j \in Jobs,
           \/ Stop(w, j) \/ Recall(w, j) \/ Resume(w, j) \/ Requeue(w, j)
           \/ RemovePending(w, j) \/ Append(w, j)
    PROVE  Calm
<1>1. TypeOK /\ disk[j] \in Row
  BY DEF IInv, TypeOK
<1>2. UNCHANGED <<managed, opened, sharedLock>>
  BY DEF Stop, Recall, Resume, Requeue, RemovePending, Append, locks
<1>3. \A v \in Windows : Kept(v)
  BY <1>1, <1>2, FenceKeeps, IdleKeeps DEF Stop, Recall, Resume, Requeue, RemovePending, Append, local
<1>4. NoneTaken
  <2>1. CASE Resume(w, j) \/ Requeue(w, j)
    BY <2>1, SameDiskTakesNone DEF Resume, Requeue
  <2>2. CASE RemovePending(w, j) \/ Append(w, j)
    BY <1>1, <2>2, RowReplaced, NoRowIsBound DEF RemovePending, Append
  <2>3. ASSUME NEW want \in {"stop", "recall"}, disk' = [disk EXCEPT ![j].want = want] PROVE NoneTaken
    <3> DEFINE row == [disk[j] EXCEPT !.want = want]
    <3>1. disk' = [disk EXCEPT ![j] = row]
      BY <2>3
    <3>2. Lets(disk[j], row)
      BY <1>1 DEF Lets, Occupies, Row
    <3> HIDE DEF row
    <3> QED BY <1>1, <3>1, <3>2, RowReplaced
  <2>4. CASE Stop(w, j) \/ Recall(w, j)
    BY <2>3, <2>4 DEF Stop, Recall
  <2> QED BY <2>1, <2>2, <2>4
<1> QED BY <1>2, <1>3, <1>4 DEF Calm, ManagedIs

LEMMA OtherStepsAreCalm ==
    ASSUME Register \/ \E c \in Commands : WorkerStep(c) \/ CloseWindow(c) PROVE Calm
<1>1. UNCHANGED <<disk, opened, round, base, copy, sharedLock>> /\ ManagedIs
  BY DEF Register, WorkerStep, Accept, OpenWindow, Cancel, Restart, Finish, CloseWindow, Worker,
         local, locks, ManagedIs
<1> QED BY <1>1, IdleKeeps, SameDiskTakesNone DEF Calm

LEMMA CalmKeeps == ASSUME QInv, TypeOK', Calm PROVE Counting' /\ PromisesWithinQuota'
<1>1. ASSUME NEW v \in Windows PROVE CountIs(v)'
  BY KeptCounts DEF QInv, IInv, Counting, Calm
<1> QED BY <1>1, ShrinkKeepsQuota DEF QInv, IInv, Counting, Calm

(* The three steps of a round, and the end of a window.                    *)
LEMMA RoundKeeps ==
    ASSUME QInv, TypeOK', NEW w \in Windows, Plan(w) \/ Prepare(w) \/ Publish(w) \/ Crash(w)
    PROVE  Counting' /\ PromisesWithinQuota'
<1>1. TypeOK /\ IInv /\ PromisesWithinQuota /\ \A v \in Windows : CountIs(v)
  BY DEF QInv, IInv, Counting
<1>2. opened' = opened /\ ManagedIs
  BY DEF Plan, Prepare, Publish, Crash, ManagedIs
<1>3. \A v \in Windows \ {w} : Kept(v)
  BY <1>1, OthersGoOn
<1>4. (NoneTaken \/ sharedLock = w) /\ PromisesWithinQuota'
  <2>1. CASE Publish(w)
    BY <1>1, <2>1, PublishTakes
  <2>2. CASE ~Publish(w)
    <3>1. disk' = disk
      BY <2>2 DEF Plan, Prepare, Crash
    <3> QED BY <1>1, <3>1, SameDiskTakesNone, ShrinkKeepsQuota
  <2> QED BY <2>1, <2>2
<1>5. ASSUME NEW v \in Windows \ {w} PROVE CountIs(v)'
  BY <1>1, <1>2, <1>3, <1>4, KeptCounts
<1>6. CountIs(w)'
  <2>1. CASE Plan(w)
    BY <1>1, <2>1, PlanCounts
  <2>2. CASE Prepare(w) /\ DiskIsBase(w)
    BY <1>1, <2>2, PrepareCounts
  <2>3. CASE Publish(w) \/ Crash(w) \/ (Prepare(w) /\ ~DiskIsBase(w))
    <3>1. round'[w] = "idle"
      BY <1>1, <2>3 DEF Publish, Crash, Prepare, TypeOK
    <3> QED BY <3>1 DEF CountIs, RoundHolds, ConsentIsGiven, SharedIsHeld, CountLasts
  <2> QED BY <2>1, <2>2, <2>3
<1> QED BY <1>4, <1>5, <1>6 DEF Counting

(* QInv is inductive.                                                      *)
LEMMA InitCounts == Init => QInv
<1> SUFFICES ASSUME Init PROVE QInv
  OBVIOUS
<1>1. Counting
  BY DEF Init, Counting, CountIs, RoundHolds, ConsentIsGiven, SharedIsHeld, CountLasts
<1>2. PromisesWithinQuota
  <2>1. SUFFICES ASSUME NEW k \in Cards PROVE Cardinality(Consenting(disk, k)) <= Quota
    BY DEF PromisesWithinQuota, Consenting
  <2>2. Consenting(disk, k) = {}
    BY NoRowIsBound DEF Init, OnCard, Occupies, Consenting
  <2>3. Cardinality(Consenting(disk, k)) = 0
    BY <2>2, FS_EmptySet
  <2> QED BY <2>3, Bounds
<1> QED BY <1>1, <1>2, InitIsRight DEF QInv

LEMMA NextKeepsQInv == ASSUME QInv, Next PROVE QInv'
<1>1. IInv /\ IInv' /\ TypeOK'
  BY NextKeepsIInv DEF QInv, IInv
<1>2. ASSUME NEW w \in Windows, RoundStep(w) PROVE Counting' /\ PromisesWithinQuota'
  BY <1>1, <1>2, RoundKeeps, WindowStepsAreCalm, CalmKeeps DEF RoundStep
<1>3. ASSUME NEW w \in Windows, Detach(w) \/ Confirm(w) \/ GiveUp(w) \/ Settle(w) \/ Crash(w)
      PROVE  Counting' /\ PromisesWithinQuota'
  BY <1>1, <1>3, RoundKeeps, WindowStepsAreCalm, CalmKeeps
<1>4. ASSUME NEW w \in Windows, NEW j \in Jobs,
             \/ Stop(w, j) \/ Recall(w, j) \/ Resume(w, j) \/ Requeue(w, j)
             \/ RemovePending(w, j) \/ Append(w, j)
      PROVE  Counting' /\ PromisesWithinQuota'
  BY <1>1, <1>4, UserStepsAreCalm, CalmKeeps
<1>5. ASSUME Register \/ \E c \in Commands : WorkerStep(c) \/ CloseWindow(c)
      PROVE  Counting' /\ PromisesWithinQuota'
  BY <1>1, <1>5, OtherStepsAreCalm, CalmKeeps
<1> QED BY <1>1, <1>2, <1>3, <1>4, <1>5 DEF Next, QInv

LEMMA StutterKeepsQInv == ASSUME QInv, UNCHANGED vars PROVE QInv'
<1>1. IInv' /\ TypeOK'
  BY StutterKeepsIInv DEF QInv, IInv
<1>2. Calm
  <2>1. UNCHANGED <<disk, opened, round, base, copy, sharedLock, managed>>
    BY DEF vars, local, locks
  <2> QED BY <2>1, IdleKeeps, SameDiskTakesNone DEF Calm, ManagedIs
<1> QED BY <1>1, <1>2, CalmKeeps DEF QInv

LEMMA QInvHolds == Spec => []QInv
BY InitCounts, NextKeepsQInv, StutterKeepsQInv, PTL DEF Spec

(* The jobs that were given consent never hold more slots of a card than   *)
(* it has, in whatever project, window or restart they were admitted.      *)
THEOREM PromisesWithinQuotaHolds == Spec => []PromisesWithinQuota
<1>1. QInv => PromisesWithinQuota
  BY DEF QInv
<1> QED BY QInvHolds, <1>1, PTL

-----------------------------------------------------------------------------
(* The refinement.                                                         *)

(* A stop that may still be served is of a command that its row is to give *)
(* up, or that was sent; so no command waits in the queue that was         *)
(* cancelled in another life.                                              *)
StopIsTrue(c) ==
    /\ c[2] <= disk[c[1]].n
    /\ disk[c[1]].n = c[2] => disk[c[1]].st # "pending"
    /\ BoundTo(c[1], c[2]) => disk[c[1]].want # "none" \/ c \in posts
StopsAreTrue == \A c \in stops : StopIsTrue(c)

CancelsWereSent == \A c \in Commands : task[c] = "cancelled" => c \in stops
CardsAreKnown == \A j \in Jobs : disk[j].st = "bound" => disk[j].card \in Cards

PInv == QInv /\ StopsAreTrue /\ CancelsWereSent /\ CardsAreKnown

(* The state of SlotPromise.                                               *)
Slot == [c \in Commands |-> IF Holds(c) THEN disk[c[1]].card ELSE None]
Risks == [c \in Commands |-> Risk(c)]

-----------------------------------------------------------------------------
(* What happens to the stops.                                              *)
LEMMA StopsAre ==
    ASSUME PInv, Next
    PROVE  \/ stops' = stops
           \/ \E j \in Jobs :
                 /\ stops' = stops \cup {<<j, disk[j].n>>}
                 /\ disk[j].st = "bound" /\ disk'[j].st = "bound" /\ disk'[j].n = disk[j].n
                 /\ disk'[j].want # "none" \/ <<j, disk[j].n>> \in posts \/ <<j, disk[j].n>> \in stops
                 /\ posts' = posts
<1> DEFINE Goal ==
           \/ stops' = stops
           \/ \E j \in Jobs :
                 /\ stops' = stops \cup {<<j, disk[j].n>>}
                 /\ disk[j].st = "bound" /\ disk'[j].st = "bound" /\ disk'[j].n = disk[j].n
                 /\ disk'[j].want # "none" \/ <<j, disk[j].n>> \in posts \/ <<j, disk[j].n>> \in stops
                 /\ posts' = posts
<1>1. disk \in [Jobs -> Row]
  BY DEF PInv, QInv, IInv, TypeOK
<1>2. ASSUME NEW w \in Windows, NEW j \in Jobs, Stop(w, j) \/ Recall(w, j) PROVE Goal
  <2>1. stops' = stops \cup {<<j, disk[j].n>>} /\ disk[j].st = "bound" /\ posts' = posts
    BY <1>2 DEF Stop, Recall, BoundHere, Take
  <2>2. PICK want \in {"stop", "recall"} : disk' = [disk EXCEPT ![j].want = want]
    BY <1>2 DEF Stop, Recall
  <2>3. disk'[j].st = "bound" /\ disk'[j].n = disk[j].n /\ disk'[j].want # "none"
    BY <1>1, <2>1, <2>2 DEF Row
  <2> QED BY <2>1, <2>3
<1>3. ASSUME NEW w \in Windows, NEW j \in Jobs, Resume(w, j) PROVE Goal
  BY <1>3 DEF Resume, BoundHere, Take
<1>4. ASSUME NEW w \in Windows, NEW j \in Jobs, Requeue(w, j) PROVE Goal
  <2>1. /\ stops' = stops \cup {<<j, disk[j].n>>} /\ disk' = disk /\ disk[j].st = "bound" /\ posts' = posts
        /\ task[<<j, disk[j].n>>] \in {"ok", "failed", "partial", "cancelled"}
    BY <1>4 DEF Requeue, BoundHere, Take
  <2>2. <<j, disk[j].n>> \in Commands
    BY <1>1, Bounds, CommandsAre DEF PInv, QInv, IInv, Facts, IdsGrow, Row
  <2>3. <<j, disk[j].n>> \in posts \/ <<j, disk[j].n>> \in stops
    BY <2>1, <2>2 DEF PInv, QInv, IInv, Facts, TasksWereSent, CancelsWereSent
  <2> QED BY <2>1, <2>3
<1>5. ASSUME stops' = stops PROVE Goal
  BY <1>5
<1> HIDE DEF Goal
<1>6. ASSUME NEW w \in Windows, RoundStep(w) PROVE Goal
  BY <1>5, <1>6 DEF RoundStep, Plan, Prepare, Publish, Guard, Post, Release
<1>7. ASSUME NEW w \in Windows, Detach(w) \/ Confirm(w) \/ GiveUp(w) \/ Settle(w) \/ Crash(w) PROVE Goal
  BY <1>5, <1>7 DEF Detach, Confirm, GiveUp, Settle, Crash
<1>8. ASSUME NEW w \in Windows, NEW j \in Jobs, RemovePending(w, j) \/ Append(w, j) PROVE Goal
  BY <1>5, <1>8 DEF RemovePending, Append
<1>9. ASSUME NEW c \in Commands, WorkerStep(c) \/ CloseWindow(c) PROVE Goal
  BY <1>5, <1>9 DEF WorkerStep, Accept, OpenWindow, Cancel, Restart, Finish, CloseWindow, Worker
<1>10. ASSUME Register PROVE Goal
  BY <1>5, <1>10 DEF Register
<1>11. Goal
  BY <1>2, <1>3, <1>4, <1>6, <1>7, <1>8, <1>9, <1>10 DEF Next
<1> QED BY <1>11 DEF Goal

(* The steps of PlanDispatch once more, with the saves of rounds by name.  *)
Saves == \E w \in Windows : Publish(w) /\ round[w] = "publish" /\ DiskIsBase(w)

LEMMA StepsAreOf ==
    ASSUME IInv, Next PROVE Quiet \/ Posting \/ RowSaved \/ Saves \/ Working
<1>1. CASE \E w \in Windows : Publish(w)
  <2>1. PICK w \in Windows : Publish(w)
    BY <1>1
  <2>2. CASE ~(round[w] = "publish" /\ DiskIsBase(w))
    <3>1. UNCHANGED <<disk, posts, task, sends>>
      BY <2>1, <2>2 DEF Publish
    <3> QED BY <3>1, SubsetsAreFewer DEF Quiet, IInv, Facts
  <2> QED BY <2>1, <2>2 DEF Saves
<1>2. CASE ~\E w \in Windows : Publish(w)
  <2> USE DEF IInv, Facts
  <2>1. ASSUME NEW w \in Windows, RoundStep(w) PROVE Quiet \/ Posting \/ RowSaved
    <3>1. CASE Plan(w) \/ Prepare(w)
      BY <3>1, PrivateIsQuiet
    <3>2. CASE \E d \in sends[w] : Guard(w, d) \/ Post(w, d) \/ Release(w, d)
      BY <3>2, GuardIsQuiet, PostIs, ReleaseIs
    <3> QED BY <1>2, <2>1, <3>1, <3>2 DEF RoundStep
  <2>2. ASSUME NEW w \in Windows, Detach(w) \/ Confirm(w) \/ GiveUp(w) \/ Settle(w) \/ Crash(w) PROVE Quiet \/ RowSaved
    BY <2>2, DetachIsQuiet, PrivateIsQuiet, SettleIs
  <2>3. ASSUME NEW w \in Windows, NEW j \in Jobs,
               \/ Stop(w, j) \/ Recall(w, j) \/ Resume(w, j) \/ Requeue(w, j)
               \/ RemovePending(w, j) \/ Append(w, j)
        PROVE  Quiet \/ RowSaved
    BY <2>3, MarkIs, UserQueueIs, PrivateIsQuiet
  <2>4. ASSUME NEW c \in Commands, WorkerStep(c) \/ CloseWindow(c) PROVE Working
    BY <2>4, WorkerIs
  <2>5. ASSUME Register PROVE Quiet
    BY <2>5, SubsetsAreFewer DEF Register, Quiet, local
  <2> QED BY <2>1, <2>2, <2>3, <2>4, <2>5 DEF Next
<1> QED BY <1>1, <1>2

LEMMA ManagedStays == ASSUME Next PROVE managed' = managed \/ Register
<1>1. ASSUME NEW w \in Windows, RoundStep(w) PROVE managed' = managed
  BY <1>1 DEF RoundStep, Plan, Prepare, Publish, Guard, Post, Release
<1>2. ASSUME NEW w \in Windows, Detach(w) \/ Confirm(w) \/ GiveUp(w) \/ Settle(w) \/ Crash(w) PROVE managed' = managed
  BY <1>2 DEF Detach, Confirm, GiveUp, Settle, Crash
<1>3. ASSUME NEW w \in Windows, NEW j \in Jobs,
             \/ Stop(w, j) \/ Recall(w, j) \/ Resume(w, j) \/ Requeue(w, j)
             \/ RemovePending(w, j) \/ Append(w, j)
      PROVE  managed' = managed
  BY <1>3 DEF Stop, Recall, Resume, Requeue, RemovePending, Append
<1>4. ASSUME NEW c \in Commands, WorkerStep(c) \/ CloseWindow(c) PROVE managed' = managed
  BY <1>4 DEF WorkerStep, Accept, OpenWindow, Cancel, Restart, Finish, CloseWindow, Worker
<1> QED BY <1>1, <1>2, <1>3, <1>4 DEF Next

-----------------------------------------------------------------------------
(* What a save of a round does to a row.                                   *)
SaveIs(w) ==
    /\ \A j \in Jobs \ Dispatched(w) : Lets(disk[j], disk'[j])
    /\ \A j \in Dispatched(w) : disk'[j] = copy[w][j] /\ disk[j].st = "pending"
    /\ \A j \in Jobs : \/ disk'[j] = disk[j]
                       \/ MayHold(disk[j], disk'[j]) /\ MayWrite(j, disk[j], disk'[j])
    /\ UNCHANGED <<posts, stops, task, managed>>

LEMMA SavesAre ==
    ASSUME QInv, NEW w \in Windows, Publish(w), round[w] = "publish", DiskIsBase(w) PROVE SaveIs(w)
<1>1. UNCHANGED <<posts, stops, task, managed>>
  BY DEF Publish
<1>2. CountIs(w) /\ IInv
  BY DEF QInv, Counting
<1> QED BY <1>1, <1>2, PublishLets DEF SaveIs

LEMMA WhatIsSaved == ASSUME QInv, Saves PROVE \A j \in Jobs :
    disk'[j] = disk[j] \/ (MayHold(disk[j], disk'[j]) /\ MayWrite(j, disk[j], disk'[j]))
BY SavesAre DEF Saves, SaveIs

LEMMA RowStatus == ASSUME TypeOK, NEW j \in Jobs PROVE disk[j].st \in {"pending", "bound", "gone"} /\ disk[j].n \in Nat
BY DEF TypeOK, Row

(* A stop that is true stays true.                                         *)
LEMMA StopStaysTrue ==
    ASSUME PInv, Next, NEW c \in stops PROVE StopIsTrue(c)'
<1> DEFINE j == c[1]
           n == c[2]
<1>1. j \in Jobs /\ n \in Nat /\ c = <<j, n>> /\ c \in Commands
  <2>1. c \in Commands
    BY DEF PInv, QInv, IInv, TypeOK
  <2> QED BY <2>1, CommandsAre, Bounds
<1>2. StopIsTrue(c) /\ disk[j].st \in {"pending", "bound", "gone"} /\ disk[j].n \in Nat
  BY <1>1, RowStatus DEF PInv, QInv, IInv, StopsAreTrue
<1> DEFINE Goal == /\ n <= disk'[j].n
                   /\ disk'[j].n = n => disk'[j].st # "pending"
                   /\ disk'[j].st = "bound" /\ disk'[j].n = n => disk'[j].want # "none" \/ c \in posts'
<1>3. /\ n <= disk[j].n
      /\ disk[j].n = n => disk[j].st # "pending"
      /\ disk[j].st = "bound" /\ disk[j].n = n => disk[j].want # "none" \/ c \in posts
  BY <1>2 DEF StopIsTrue, BoundTo
<1> SUFFICES Goal
  BY DEF StopIsTrue, BoundTo
<1> HIDE DEF j, n
<1>4. CASE disk'[j] = disk[j] /\ posts \subseteq posts'
  BY <1>3, <1>4
<1>5. CASE Quiet \/ Posting \/ Working
  BY <1>4, <1>5 DEF Quiet, Posting, Working
<1>6. CASE RowSaved
  <2>1. PICK i \in Jobs : /\ \A h \in Jobs \ {i} : disk'[h] = disk[h]
                          /\ Marked(i) \/ Returned(i) \/ Renewed(i) \/ Removed(i)
                          /\ posts' = posts
    BY <1>6 DEF RowSaved
  <2>2. CASE i # j
    BY <1>1, <1>4, <2>1, <2>2
  <2>3. CASE i = j
    <3>1. CASE Marked(j)
      BY <1>3, <3>1 DEF Marked
    <3>2. CASE Returned(j)
      <4>1. disk'[j].st = "pending" /\ disk'[j].n = disk[j].n
        BY <1>2, <3>2, NewRows DEF Returned
      <4>2. disk[j].n # n
        BY <1>1, <1>3, <3>2 DEF Returned
      <4> QED BY <1>3, <4>1, <4>2
    <3>3. CASE Renewed(j)
      <4>1. disk'[j].st = "pending" /\ disk'[j].n = disk[j].n + 1
        BY <1>2, <3>3, NewRows DEF Renewed
      <4> QED BY <1>1, <1>2, <1>3, <4>1
    <3>4. CASE Removed(j)
      <4>1. disk'[j].st = "gone" /\ disk'[j].n = disk[j].n
        BY <1>2, <3>4, NewRows DEF Removed
      <4> QED BY <1>3, <4>1
    <3> QED BY <2>1, <2>3, <3>1, <3>2, <3>3, <3>4
  <2> QED BY <2>2, <2>3
<1>7. CASE Saves
  <2>1. disk'[j] = disk[j] \/ MayWrite(j, disk[j], disk'[j])
    BY <1>1, <1>7, WhatIsSaved DEF PInv
  <2>2. posts' = posts
    BY <1>7 DEF Saves, Publish
  <2>3. CASE disk'[j] = disk[j]
    BY <1>4, <2>2, <2>3
  <2>4. CASE MayWrite(j, disk[j], disk'[j])
    BY <1>2, <1>3, <2>2, <2>4 DEF MayWrite
  <2> QED BY <2>1, <2>3, <2>4
<1> QED BY <1>5, <1>6, <1>7, StepsAreOf DEF PInv, QInv

LEMMA NextKeepsStops == ASSUME PInv, Next PROVE StopsAreTrue' /\ stops \subseteq stops'
<1>1. CASE stops' = stops
  BY <1>1, StopStaysTrue DEF StopsAreTrue
<1>2. CASE stops' # stops
  <2>1. PICK j \in Jobs :
          /\ stops' = stops \cup {<<j, disk[j].n>>}
          /\ disk[j].st = "bound" /\ disk'[j].st = "bound" /\ disk'[j].n = disk[j].n
          /\ disk'[j].want # "none" \/ <<j, disk[j].n>> \in posts \/ <<j, disk[j].n>> \in stops
          /\ posts' = posts
    BY <1>2, StopsAre
  <2>2. disk[j].n \in Nat
    BY RowStatus DEF PInv, QInv, IInv
  <2>3. <<j, disk[j].n>> \notin stops
    BY <1>2, <2>1
  <2>4. StopIsTrue(<<j, disk[j].n>>)'
    BY <2>1, <2>2, <2>3 DEF StopIsTrue, BoundTo
  <2> QED BY <2>1, <2>4, StopStaysTrue DEF StopsAreTrue
<1> QED BY <1>1, <1>2

LEMMA NextKeepsCancels == ASSUME PInv, Next PROVE CancelsWereSent'
<1>1. SUFFICES ASSUME NEW c \in Commands, task'[c] = "cancelled" PROVE c \in stops'
  BY DEF CancelsWereSent
<1>2. task[c] = "cancelled" \/ c \in stops
  <2>1. CASE Quiet \/ Posting \/ RowSaved \/ Saves
    BY <1>1, <2>1 DEF Quiet, Posting, RowSaved, Saves, Publish
  <2>2. CASE Working
    BY <1>1, <2>2 DEF Working
  <2> QED BY <2>1, <2>2, StepsAreOf DEF PInv, QInv
<1> QED BY <1>2, NextKeepsStops DEF PInv, CancelsWereSent

LEMMA NextKeepsCards == ASSUME PInv, Next PROVE CardsAreKnown'
<1>1. SUFFICES ASSUME NEW j \in Jobs, disk'[j].st = "bound" PROVE disk'[j].card \in Cards
  BY DEF CardsAreKnown
<1>2. (disk[j].st = "bound" => disk[j].card \in Cards) /\ disk[j].st \in {"pending", "bound", "gone"} /\ disk[j].n \in Nat
  BY RowStatus DEF PInv, QInv, IInv, CardsAreKnown
<1>3. CASE disk'[j] = disk[j]
  BY <1>1, <1>2, <1>3
<1>4. CASE Quiet \/ Posting \/ Working
  BY <1>3, <1>4 DEF Quiet, Posting, Working
<1>5. CASE RowSaved
  <2>1. disk'[j] = disk[j] \/ Marked(j) \/ Returned(j) \/ Renewed(j) \/ Removed(j)
    BY <1>5 DEF RowSaved
  <2>2. disk'[j] = disk[j] \/ Marked(j)
    BY <1>1, <1>2, <2>1, NewRows DEF Returned, Renewed, Removed
  <2> QED BY <1>2, <1>3, <2>2 DEF Marked
<1>6. CASE Saves
  <2>1. disk'[j] = disk[j] \/ (MayHold(disk[j], disk'[j]) /\ MayWrite(j, disk[j], disk'[j]))
    BY <1>6, WhatIsSaved DEF PInv
  <2> QED BY <1>1, <1>2, <1>3, <2>1 DEF MayHold, MayWrite
<1> QED BY <1>4, <1>5, <1>6, StepsAreOf DEF PInv, QInv

LEMMA NextKeepsPInv == ASSUME PInv, Next PROVE PInv'
BY NextKeepsQInv, NextKeepsStops, NextKeepsCancels, NextKeepsCards DEF PInv

LEMMA StutterKeepsPInv == ASSUME PInv, UNCHANGED vars PROVE PInv'
<1>1. QInv'
  BY StutterKeepsQInv DEF PInv
<1>2. UNCHANGED <<disk, posts, stops, task>>
  BY DEF vars
<1>3. StopsAreTrue' /\ CancelsWereSent' /\ CardsAreKnown'
  BY <1>2 DEF PInv, StopsAreTrue, StopIsTrue, BoundTo, CancelsWereSent, CardsAreKnown
<1> QED BY <1>1, <1>3 DEF PInv

LEMMA InitPInv == Init => PInv
<1> SUFFICES ASSUME Init PROVE PInv
  OBVIOUS
<1>1. StopsAreTrue /\ CancelsWereSent
  BY DEF Init, StopsAreTrue, CancelsWereSent
<1>2. CardsAreKnown
  BY NoRowIsBound DEF Init, CardsAreKnown
<1> QED BY <1>1, <1>2, InitCounts DEF PInv

LEMMA PInvHolds == Spec => []PInv
BY InitPInv, NextKeepsPInv, StutterKeepsPInv, PTL DEF Spec

-----------------------------------------------------------------------------
(* The slots on a card are the rows that hold it, one command each.        *)
HoldersIn(rows, k) ==
    {c \in Commands : rows[c[1]].n = c[2] /\ Occupies(rows[c[1]]) /\ rows[c[1]].card = k}

LEMMA HoldersAreRows ==
    ASSUME NEW rows \in [Jobs -> Row], NEW k
    PROVE  /\ IsFiniteSet(OnCard(rows, k)) /\ Cardinality(OnCard(rows, k)) \in Nat
           /\ IsFiniteSet(HoldersIn(rows, k)) /\ Cardinality(HoldersIn(rows, k)) \in Nat
           /\ Cardinality(HoldersIn(rows, k)) <= Cardinality(OnCard(rows, k))
<1>1. OnCard(rows, k) \in SUBSET Jobs
  BY DEF OnCard
<1>2. IsFiniteSet(OnCard(rows, k))
  BY <1>1, FiniteJobs, FS_Subset
<1> DEFINE job == [c \in HoldersIn(rows, k) |-> c[1]]
<1>3. job \in [HoldersIn(rows, k) -> OnCard(rows, k)]
  BY CommandsAre DEF HoldersIn, OnCard
<1>4. \A b, c \in HoldersIn(rows, k) : job[b] = job[c] => b = c
  BY CommandsAre DEF HoldersIn
<1> HIDE DEF job
<1>5. job \in Injection(HoldersIn(rows, k), OnCard(rows, k))
  BY <1>3, <1>4 DEF Injection, IsInjective
<1>6. IsFiniteSet(HoldersIn(rows, k)) /\ Cardinality(HoldersIn(rows, k)) <= Cardinality(OnCard(rows, k))
  BY <1>2, <1>5, FS_Injection
<1> QED BY <1>2, <1>6, FS_CardinalityType

LEMMA SlotIs ==
    /\ \A k \in Cards : {c \in Commands : Slot[c] = k} = HoldersIn(disk, k)
    /\ \A k \in Cards : {c \in Commands : Slot'[c] = k} = HoldersIn(disk', k)
BY Typing DEF Slot, Holds, HoldersIn

LEMMA SlotStays == ASSUME disk' = disk PROVE Slot' = Slot
BY DEF Slot, Holds

LEMMA RisksStay == ASSUME posts' = posts, task' = task PROVE Risks' = Risks
BY DEF Risks, Risk, MayStart, Live

LEMMA RiskIs == ASSUME NEW c \in Commands PROVE
    /\ Risks[c] = "calm" <=> c \notin posts /\ task[c] = "new"
    /\ Risks[c] = "may start" <=> c \in posts /\ task[c] = "new"
    /\ Risks[c] = "live" <=> task[c] \in {"opening", "live"}
    /\ Risks[c] = "spent" <=> task[c] \notin {"new", "opening", "live"}
BY DEF Risks, Risk, MayStart, Live

-----------------------------------------------------------------------------
(* A row that is saved keeps its slot, or gives it up when nothing can run *)
(* any more, or takes one when nothing was sent.                           *)
MayMove(c) ==
    \/ Slot'[c] = Slot[c]
    \/ Slot'[c] = None /\ Risks[c] \in {"calm", "spent"}
    \/ Slot[c] = None /\ Risks[c] = "calm"

LEMMA SlotOf == ASSUME NEW c \in Commands PROVE
    /\ Slot[c] = IF Holds(c) THEN disk[c[1]].card ELSE None
    /\ Slot'[c] = IF disk'[c[1]].n = c[2] /\ Occupies(disk'[c[1]]) THEN disk'[c[1]].card ELSE None
BY DEF Slot, Holds

LEMMA RowSavedMoves ==
    ASSUME PInv, RowSaved, NEW c \in Commands
    PROVE  MayMove(c) /\ (Slot'[c] = Slot[c] \/ Slot'[c] = None)
<1> DEFINE j == c[1]
           n == c[2]
<1>1. j \in Jobs /\ n \in Nat /\ c = <<j, n>>
  BY CommandsAre, Bounds
<1>2. disk[j].n \in Nat
  BY <1>1, RowStatus DEF PInv, QInv, IInv
<1>3. PICK i \in Jobs : /\ \A h \in Jobs \ {i} : disk'[h] = disk[h]
                        /\ Marked(i) \/ Returned(i) \/ Renewed(i) \/ Removed(i)
  BY DEF RowSaved
<1> HIDE DEF j, n
<1>4. ASSUME Occupies(disk'[j]) <=> Occupies(disk[j]), disk'[j].n = disk[j].n, disk'[j].card = disk[j].card
      PROVE  Slot'[c] = Slot[c]
  BY <1>4, SlotOf DEF j, n, Holds
<1>5. ASSUME disk'[j].st # "bound" PROVE Slot'[c] = None
  BY <1>5, SlotOf DEF j, Occupies
<1>6. CASE i # j
  <2>1. disk'[j] = disk[j]
    BY <1>1, <1>3, <1>6
  <2> QED BY <1>4, <2>1 DEF MayMove
<1>7. CASE i = j /\ Marked(j)
  <2>1. Occupies(disk'[j]) <=> Occupies(disk[j])
    BY <1>7 DEF Marked, Occupies
  <2> QED BY <1>4, <1>7, <2>1 DEF Marked, MayMove
<1>8. CASE i = j /\ ~Marked(j)
  <2>1. Slot'[c] = None
    BY <1>2, <1>3, <1>5, <1>8, NewRows DEF Returned, Renewed, Removed
  <2>2. Slot[c] = None \/ Risks[c] \in {"calm", "spent"}
    <3>1. SUFFICES ASSUME Slot[c] # None PROVE Risks[c] \in {"calm", "spent"}
      OBVIOUS
    <3>2. disk[j].st = "bound" /\ disk[j].n = n
      BY <3>1, SlotOf DEF j, n, Holds, Occupies
    <3>3. CASE Returned(j)
      <4>1. c \notin posts
        BY <1>1, <3>2, <3>3 DEF Returned
      <4>2. task[c] \in {"new", "cancelled"}
        BY <4>1 DEF PInv, QInv, IInv, Facts, TasksWereSent
      <4> QED BY <4>1, <4>2, RiskIs
    <3>4. CASE Renewed(j) \/ Removed(j)
      BY <1>1, <3>2, <3>4, RiskIs DEF Renewed, Removed
    <3> QED BY <1>3, <1>8, <3>3, <3>4
  <2> QED BY <2>1, <2>2 DEF MayMove
<1> QED BY <1>3, <1>6, <1>7, <1>8

LEMMA SaveMoves ==
    ASSUME PInv, NEW w \in Windows, SaveIs(w), NEW c \in Commands
    PROVE  MayMove(c) /\ (c[1] \notin Dispatched(w) => Slot'[c] = Slot[c] \/ Slot'[c] = None)
<1> DEFINE j == c[1]
           n == c[2]
<1>1. j \in Jobs /\ n \in Nat /\ c = <<j, n>>
  BY CommandsAre, Bounds
<1>2. disk[j].st \in {"pending", "bound", "gone"}
  BY <1>1, RowStatus DEF PInv, QInv, IInv
<1>3. disk'[j] = disk[j] \/ (MayHold(disk[j], disk'[j]) /\ MayWrite(j, disk[j], disk'[j]))
  BY <1>1 DEF SaveIs
<1>4. j \notin Dispatched(w) => Lets(disk[j], disk'[j])
  BY <1>1 DEF SaveIs
<1>5. Slot[c] = IF disk[j].n = n /\ Occupies(disk[j]) THEN disk[j].card ELSE None
  BY SlotOf DEF Holds
<1>6. Slot'[c] = IF disk'[j].n = n /\ Occupies(disk'[j]) THEN disk'[j].card ELSE None
  BY SlotOf
<1>7. disk'[j].n = disk[j].n
  BY <1>3 DEF MayWrite
<1> HIDE DEF j, n
<1>8. j \notin Dispatched(w) => Slot'[c] = Slot[c] \/ Slot'[c] = None
  BY <1>4, <1>5, <1>6, <1>7 DEF Lets
<1>9. MayMove(c)
  <2>1. CASE disk'[j] = disk[j]
    BY <1>5, <1>6, <2>1 DEF MayMove
  <2>2. CASE disk[j].st = "bound" /\ disk'[j] # disk[j]
    <3>1. /\ disk'[j].st = "bound" /\ disk'[j].card = disk[j].card
          /\ Occupies(disk'[j]) => Occupies(disk[j])
          /\ disk'[j].proof => Ended(<<j, disk'[j].n>>)
      BY <1>3, <2>2 DEF MayHold, MayWrite
    <3>2. CASE Occupies(disk'[j]) <=> Occupies(disk[j])
      BY <1>5, <1>6, <1>7, <3>1, <3>2 DEF MayMove
    <3>3. CASE Occupies(disk[j]) /\ ~Occupies(disk'[j])
      <4>1. disk'[j].proof
        BY <3>1, <3>3 DEF Occupies
      <4>2. Slot'[c] = None
        BY <1>6, <3>3
      <4>3. CASE disk[j].n = n
        <5>1. Ended(c)
          BY <1>1, <1>7, <3>1, <4>1, <4>3
        <5>2. Risks[c] = "spent"
          BY <5>1, RiskIs DEF Ended
        <5> QED BY <4>2, <5>2 DEF MayMove
      <4>4. CASE disk[j].n # n
        BY <1>5, <4>2, <4>4 DEF MayMove
      <4> QED BY <4>3, <4>4
    <3> QED BY <3>1, <3>2, <3>3
  <2>3. CASE disk[j].st = "pending" /\ disk'[j] # disk[j]
    <3>1. Slot[c] = None
      BY <1>5, <2>3 DEF Occupies
    <3>2. CASE disk[j].n # n
      BY <1>5, <1>6, <1>7, <3>2 DEF MayMove
    <3>3. CASE disk[j].n = n
      <4>1. c \notin posts
        BY <1>1, <2>3, <3>3 DEF PInv, QInv, IInv, Facts, PendingIsUntouched
      <4>2. c \notin stops
        BY <2>3, <3>3 DEF PInv, StopsAreTrue, StopIsTrue, j, n
      <4>3. task[c] = "new"
        BY <4>1, <4>2 DEF PInv, QInv, IInv, Facts, TasksWereSent, CancelsWereSent
      <4> QED BY <3>1, <4>1, <4>3, RiskIs DEF MayMove
    <3> QED BY <3>2, <3>3
  <2>4. CASE disk[j].st = "gone" /\ disk'[j] # disk[j]
    BY <1>3, <2>4 DEF MayWrite
  <2> QED BY <1>2, <2>1, <2>2, <2>3, <2>4
<1> QED BY <1>8, <1>9 DEF j

(* A save of a common domain gives no slot of a card that is full.         *)
LEMMA SaveFits ==
    ASSUME PInv, PInv', NEW w \in Windows, Publish(w), round[w] = "publish", DiskIsBase(w), managed, NEW k \in Cards
    PROVE  \/ HoldersIn(disk', k) \subseteq HoldersIn(disk, k)
           \/ Cardinality(HoldersIn(disk', k)) <= Quota
<1>1. /\ SaveIs(w) /\ CountIs(w) /\ IInv /\ TypeOK
      /\ disk \in [Jobs -> Row] /\ disk' \in [Jobs -> Row]
  BY SavesAre DEF PInv, QInv, Counting, IInv, TypeOK
<1>2. CASE New(w, k) = {}
  <2>1. SUFFICES ASSUME NEW c \in HoldersIn(disk', k) PROVE c \in HoldersIn(disk, k)
    OBVIOUS
  <2>2. c \in Commands /\ c[1] \in Jobs /\ disk'[c[1]].n = c[2] /\ Occupies(disk'[c[1]]) /\ disk'[c[1]].card = k
    BY CommandsAre DEF HoldersIn
  <2>3. c[1] \notin Dispatched(w)
    BY <1>1, <1>2, <2>2 DEF New, SaveIs
  <2>4. Lets(disk[c[1]], disk'[c[1]])
    BY <1>1, <2>2, <2>3 DEF SaveIs
  <2>5. disk'[c[1]].n = disk[c[1]].n
    BY <1>1, <2>2 DEF SaveIs, MayWrite
  <2> QED BY <2>2, <2>4, <2>5 DEF Lets, HoldersIn
<1>3. CASE New(w, k) # {}
  <2>1. Cardinality(OnCard(disk, k)) + Cardinality(New(w, k)) <= Quota
    BY <1>1, <1>3 DEF CountIs, CountLasts, Fits
  <2>2. OnCard(disk', k) \subseteq OnCard(disk, k) \cup New(w, k)
    <3>1. SUFFICES ASSUME NEW j \in OnCard(disk', k) PROVE j \in OnCard(disk, k) \/ j \in New(w, k)
      OBVIOUS
    <3>2. j \in Jobs /\ Occupies(disk'[j]) /\ disk'[j].card = k
      BY <1>1 DEF OnCard
    <3>3. CASE j \in Dispatched(w)
      BY <1>1, <3>2, <3>3 DEF New, SaveIs
    <3>4. CASE j \notin Dispatched(w)
      BY <1>1, <3>2, <3>4 DEF SaveIs, Lets, OnCard
    <3> QED BY <3>3, <3>4
  <2>3. /\ IsFiniteSet(OnCard(disk, k)) /\ Cardinality(OnCard(disk, k)) \in Nat
        /\ IsFiniteSet(New(w, k)) /\ Cardinality(New(w, k)) \in Nat
    BY <1>1, OnCardIsFinite, NewIsFinite
  <2> DEFINE both == OnCard(disk, k) \cup New(w, k)
  <2>4. /\ IsFiniteSet(both)
        /\ Cardinality(both) = Cardinality(OnCard(disk, k)) + Cardinality(New(w, k))
                                - Cardinality(OnCard(disk, k) \cap New(w, k))
    BY <2>3, FS_Union
  <2>5. Cardinality(OnCard(disk, k) \cap New(w, k)) \in Nat
    <3>1. OnCard(disk, k) \cap New(w, k) \in SUBSET New(w, k)
      OBVIOUS
    <3> QED BY <2>3, <3>1, FS_Subset, FS_CardinalityType
  <2>6. OnCard(disk', k) \in SUBSET both
    BY <2>2
  <2> HIDE DEF both
  <2>7. Cardinality(OnCard(disk', k)) <= Cardinality(both) /\ Cardinality(both) \in Nat
    BY <2>4, <2>6, FS_Subset, FS_CardinalityType
  <2>8. /\ Cardinality(HoldersIn(disk', k)) <= Cardinality(OnCard(disk', k))
        /\ Cardinality(HoldersIn(disk', k)) \in Nat /\ Cardinality(OnCard(disk', k)) \in Nat
    BY <1>1, HoldersAreRows
  <2> QED BY <2>1, <2>3, <2>4, <2>5, <2>7, <2>8, Bounds
<1> QED BY <1>2, <1>3

-----------------------------------------------------------------------------
(* Each kind of step as a step of SlotPromise.                             *)
Stays == UNCHANGED <<managed, Slot, Risks>>

(* SlotPromise counts as PlanDispatch does.                                *)
LEMMA CountsTheSame == ASSUME NEW S PROVE Promise!Cardinality(S) = Cardinality(S)
BY DEF Promise!Cardinality, Cardinality

LEMMA AssignIs ==
    ASSUME PInv, PInv', UNCHANGED <<managed, posts, task>>,
           \A c \in Commands : MayMove(c),
           managed => \A k \in Cards : \/ HoldersIn(disk', k) \subseteq HoldersIn(disk, k)
                                       \/ Cardinality(HoldersIn(disk', k)) <= Quota
    PROVE  Promise!Assign
<1>1. Slot' \in [Commands -> Cards \cup {None}]
  <2>1. SUFFICES ASSUME NEW c \in Commands PROVE Slot'[c] \in Cards \cup {None}
    BY DEF Slot
  <2>2. c[1] \in Jobs
    BY CommandsAre
  <2> QED BY <2>2, SlotOf DEF PInv, CardsAreKnown, Occupies
<1>2. Risks' = Risks
  BY RisksStay
<1>3. \A c \in Commands : Promise!MayChange(c)
  <2>1. SUFFICES ASSUME NEW c \in Commands PROVE Promise!MayChange(c)
    OBVIOUS
  <2>2. MayMove(c)
    OBVIOUS
  <2>3. Promise!MayChange(c) <=>
            \/ Slot[c] = Slot'[c]
            \/ Slot'[c] = None /\ Risks[c] \in {"calm", "spent"}
            \/ Slot[c] = None /\ Risks[c] = "calm"
    BY DEF Promise!MayChange, Slot, Risks
  <2> QED BY <2>2, <2>3 DEF MayMove
<1>4. managed => \A k \in Cards :
          \/ {c \in Commands : Slot'[c] = k} \subseteq {c \in Commands : Slot[c] = k}
          \/ Cardinality({c \in Commands : Slot'[c] = k}) <= Quota
  BY SlotIs
<1> QED BY <1>1, <1>2, <1>3, <1>4, CountsTheSame DEF Promise!Assign, Promise!Holders, Slot, Risks

LEMMA PostingIs ==
    ASSUME PInv, Posting, managed' = managed PROVE Stays \/ \E c \in Commands : Promise!Send(c)
<1>1. PICK w \in Windows : \E d \in sends[w] : posts' = posts \cup {<<d.job, d.n>>}
  BY DEF Posting
<1>2. PICK d \in sends[w] : posts' = posts \cup {<<d.job, d.n>>}
  BY <1>1
<1> DEFINE c == <<d.job, d.n>>
<1>3. c \in Commands /\ c[1] = d.job /\ c[2] = d.n
  <2>1. d.job \in Jobs /\ d.n \in Nat /\ d.n <= disk[d.job].n /\ disk[d.job].n <= MaxFresh[d.job]
    BY DEF PInv, QInv, IInv, TypeOK, Facts, IdsGrow
  <2>2. disk[d.job].n \in Nat /\ MaxFresh[d.job] \in Nat
    BY <2>1, Bounds DEF PInv, QInv, IInv, TypeOK, Row
  <2>3. d.n \in 0 .. MaxFresh[d.job]
    BY <2>1, <2>2
  <2> QED BY <2>1, <2>3, CommandsAre
<1>4. c \notin posts
  BY DEF PInv, QInv, IInv, Facts, SentOnce
<1>5. Slot' = Slot /\ task' = task /\ posts' = posts \cup {c}
  BY <1>2, SlotStays DEF Posting
<1>6. Sending(c[1], c[2])
  BY <1>3 DEF Sending
<1> HIDE DEF c
<1>7. \A b \in Commands : Risks'[b] =
        IF b = c THEN (IF task[c] = "new" THEN "may start" ELSE Risks[c]) ELSE Risks[b]
  BY <1>3, <1>4, <1>5 DEF Risks, Risk, MayStart, Live
<1>8. CASE task[c] # "new"
  <2>1. Risks' = Risks
    BY <1>7, <1>8 DEF Risks
  <2> QED BY <1>5, <2>1 DEF Stays
<1>9. CASE task[c] = "new"
  <2>1. Risks' = [Risks EXCEPT ![c] = "may start"]
    BY <1>3, <1>7, <1>9 DEF Risks
  <2>2. Risks[c] = "calm"
    BY <1>3, <1>4, <1>9, RiskIs
  <2>3. Slot[c] # None
    <3>1. BoundTo(c[1], c[2])
      BY <1>3, <1>6, <1>9 DEF PInv, QInv, IInv, Facts, RowIsKept
    <3>2. c[1] \in Jobs /\ c = <<c[1], c[2]>>
      BY <1>3, CommandsAre
    <3>3. ~disk[c[1]].proof
      BY <1>9, <3>1, <3>2 DEF PInv, QInv, IInv, Facts, ProofIsTrue, Ended, BoundTo
    <3>4. Holds(c) /\ disk[c[1]].card \in Cards
      BY <3>1, <3>2, <3>3 DEF Holds, Occupies, BoundTo, PInv, CardsAreKnown
    <3> QED BY <1>3, <3>4, SlotOf, Typing
  <2>4. Promise!Send(c)
    BY <1>5, <2>1, <2>2, <2>3 DEF Promise!Send, Promise!Becomes, Slot, Risks
  <2> QED BY <1>3, <2>4
<1> QED BY <1>8, <1>9

LEMMA WorkingIs ==
    ASSUME PInv, PInv', Working, managed' = managed
    PROVE  Stays \/ \E c \in Commands : Promise!Start(c) \/ Promise!End(c)
<1>1. PICK c \in Commands :
        /\ \A b \in Commands \ {c} : task'[b] = task[b]
        /\ task'[c] # "new"
        /\ task'[c] # "cancelled" => c \in posts
        /\ task'[c] \in {"opening", "live"} => task[c] \in {"new", "opening"}
        /\ UNCHANGED <<disk, sends, posts>>
  BY DEF Working
<1>2. Slot' = Slot
  BY <1>1, SlotStays
<1>3. \A b \in Commands : Risks'[b] =
        IF b = c THEN (IF task'[c] \in {"opening", "live"} THEN "live" ELSE "spent") ELSE Risks[b]
  BY <1>1 DEF Risks, Risk, MayStart, Live
<1>4. Risks[c] \in {"calm", "may start", "live", "spent"}
  BY DEF Risks, Risk
<1>5. CASE Risks'[c] = Risks[c]
  <2>1. Risks' = Risks
    BY <1>3, <1>5 DEF Risks
  <2> QED BY <1>2, <2>1 DEF Stays
<1>6. CASE task'[c] \in {"opening", "live"} /\ Risks'[c] # Risks[c]
  <2>1. Risks' = [Risks EXCEPT ![c] = "live"]
    BY <1>3, <1>6 DEF Risks
  <2>2. Risks[c] = "may start"
    BY <1>1, <1>3, <1>6, RiskIs
  <2>3. Promise!Start(c)
    BY <1>2, <2>1, <2>2 DEF Promise!Start, Promise!Becomes, Slot, Risks
  <2> QED BY <2>3
<1>7. CASE task'[c] \notin {"opening", "live"} /\ Risks'[c] # Risks[c]
  <2>1. Risks' = [Risks EXCEPT ![c] = "spent"]
    BY <1>3, <1>7 DEF Risks
  <2>2. Risks[c] \in {"calm", "may start", "live"}
    BY <1>3, <1>4, <1>7
  <2>3. Promise!End(c)
    BY <1>2, <2>1, <2>2 DEF Promise!End, Promise!Becomes, Slot, Risks
  <2> QED BY <2>3
<1> QED BY <1>5, <1>6, <1>7

LEMMA RowSavedIs == ASSUME PInv, PInv', RowSaved, managed' = managed PROVE Promise!Assign
<1>1. UNCHANGED <<managed, posts, task>>
  BY DEF RowSaved
<1>2. \A c \in Commands : MayMove(c) /\ (Slot'[c] = Slot[c] \/ Slot'[c] = None)
  BY RowSavedMoves
<1>3. \A k \in Cards : HoldersIn(disk', k) \subseteq HoldersIn(disk, k)
  <2>1. \A k \in Cards : {c \in Commands : Slot'[c] = k} \subseteq {c \in Commands : Slot[c] = k}
    BY <1>2, Typing
  <2> QED BY <2>1, SlotIs
<1> QED BY <1>1, <1>2, <1>3, AssignIs

LEMMA SavesIs == ASSUME PInv, PInv', Saves PROVE Promise!Assign
<1>1. PICK w \in Windows : Publish(w) /\ round[w] = "publish" /\ DiskIsBase(w)
  BY DEF Saves
<1>2. SaveIs(w)
  BY <1>1, SavesAre DEF PInv
<1>3. \A c \in Commands : MayMove(c)
  BY <1>2, SaveMoves
<1>4. managed => \A k \in Cards : \/ HoldersIn(disk', k) \subseteq HoldersIn(disk, k)
                                  \/ Cardinality(HoldersIn(disk', k)) <= Quota
  BY <1>1, SaveFits
<1> QED BY <1>2, <1>3, <1>4, AssignIs DEF SaveIs

LEMMA RegisterIs == ASSUME Register PROVE Promise!Register
<1>1. ~managed /\ managed' = TRUE /\ UNCHANGED <<disk, posts, task>>
  BY DEF Register
<1>2. Slot' = Slot /\ Risks' = Risks
  BY <1>1, SlotStays, RisksStay
<1> QED BY <1>1, <1>2 DEF Promise!Register, Slot, Risks

LEMMA NextImplements == ASSUME PInv, PInv', Next PROVE Promise!Next \/ Stays
<1>1. CASE Register
  BY <1>1, RegisterIs DEF Promise!Next
<1>2. CASE managed' = managed
  <2>1. CASE Quiet
    <3>1. UNCHANGED <<disk, posts, task>>
      BY <2>1 DEF Quiet
    <3> QED BY <1>2, <3>1, SlotStays, RisksStay DEF Stays
  <2>2. CASE Posting
    BY <1>2, <2>2, PostingIs DEF Promise!Next
  <2>3. CASE RowSaved
    BY <1>2, <2>3, RowSavedIs DEF Promise!Next
  <2>4. CASE Saves
    BY <2>4, SavesIs DEF Promise!Next
  <2>5. CASE Working
    BY <1>2, <2>5, WorkingIs DEF Promise!Next
  <2> QED BY <2>1, <2>2, <2>3, <2>4, <2>5, StepsAreOf DEF PInv, QInv
<1> QED BY <1>1, <1>2, ManagedStays

LEMMA InitImplements == ASSUME Init PROVE Promise!Init
<1>1. \A c \in Commands : ~Holds(c) /\ Risk(c) = "calm"
  <2>1. SUFFICES ASSUME NEW c \in Commands PROVE ~Holds(c) /\ Risk(c) = "calm"
    OBVIOUS
  <2>2. c[1] \in Jobs
    BY CommandsAre
  <2>3. disk[c[1]].st # "bound"
    BY <2>2, NoRowIsBound DEF Init
  <2> QED BY <2>3 DEF Holds, Occupies, Risk, MayStart, Live, Init
<1> QED BY <1>1 DEF Promise!Init, Init

(* The whole of windows, queue files, messages and workers implements      *)
(* SlotPromise: a command that may run holds a slot until it cannot run    *)
(* any more, it runs once, and no slot is given on a card that is full.    *)
THEOREM PromiseKeptHolds == Spec => PromiseKept
<1>1. Init => Promise!Init
  BY InitImplements
<1>2. ASSUME PInv, PInv', [Next]_vars PROVE [Promise!Next]_(Promise!promise)
  <2>1. CASE Next
    BY <1>2, <2>1, NextImplements DEF Stays, Slot, Risks, Promise!promise
  <2>2. CASE UNCHANGED vars
    <3>1. UNCHANGED <<managed, disk, posts, task>>
      BY <2>2 DEF vars
    <3>2. Stays
      BY <3>1, SlotStays, RisksStay DEF Stays
    <3> QED BY <3>2 DEF Stays, Slot, Risks, Promise!promise
  <2> QED BY <1>2, <2>1, <2>2
<1> QED BY <1>1, <1>2, PInvHolds, PTL DEF Spec, PromiseKept, Promise!Spec
=============================================================================
