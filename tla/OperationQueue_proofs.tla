------------------------ MODULE OperationQueue_proofs ------------------------
(***************************************************************************)
(* Proofs about OperationQueue, for any requests and limits: exclusive     *)
(* access to keys, that no turn leaves a request waiting that could run,   *)
(* that queue, history and callers agree, that no request overtakes, that  *)
(* the history is short, and that no promise is forgotten.                 *)
(***************************************************************************)
EXTENDS OperationQueue, SequenceTheorems, FiniteSetTheorems, Functions, TLAPS

(***************************************************************************)
(* Exclusive access.  CanRun reads counters, not the running requests, so  *)
(* the invariant says that the counter of a key is the number of requests  *)
(* at work on it, which is never more than one.                            *)
(***************************************************************************)
CountsTell ==
    /\ keyCount \in [Keys -> {0, 1}]
    /\ \A k \in Keys : keyCount[k] = 1 <=> \E r \in running : k \in KeysOf[r]

AccessInv == running \subseteq Requests /\ CountsTell /\ ExclusiveAccess

LEMMA InitAccess == Init => AccessInv
  BY SpecAssumption DEF Init, AccessInv, CountsTell, ExclusiveAccess

LEMMA StartAccess ==
  ASSUME AccessInv, NEW r \in Requests, Start(r)
  PROVE  AccessInv'
<1> USE SpecAssumption
<1>1. /\ running' = running \cup {r}
      /\ keyCount' = [k \in Keys |-> IF k \in KeysOf[r] THEN keyCount[k] + 1 ELSE keyCount[k]]
      /\ \A k \in KeysOf[r] : keyCount[k] = 0
  BY DEF Start, IsNext, CanRun
<1>2. \A q \in running : KeysOf[r] \cap KeysOf[q] = {}
  BY <1>1 DEF AccessInv, CountsTell
<1>3. ExclusiveAccess'
  BY <1>1, <1>2 DEF AccessInv, ExclusiveAccess
<1>4. CountsTell'
  BY <1>1 DEF AccessInv, CountsTell
<1> QED BY <1>1, <1>3, <1>4 DEF AccessInv

LEMMA SettleAccess ==
  ASSUME AccessInv, NEW r \in Requests, NEW ok \in BOOLEAN, Settle(r, ok)
  PROVE  AccessInv'
<1> USE SpecAssumption
<1>1. /\ r \in running
      /\ running' = running \ {r}
      /\ keyCount' = [k \in Keys |-> IF k \in KeysOf[r] THEN keyCount[k] - 1 ELSE keyCount[k]]
  BY DEF Settle, KeysLeft
<1>2. ExclusiveAccess'
  BY <1>1 DEF AccessInv, ExclusiveAccess
<1>3. ASSUME NEW k \in Keys
      PROVE  /\ keyCount'[k] \in {0, 1}
             /\ keyCount'[k] = 1 <=> \E q \in running' : k \in KeysOf[q]
  <2>1. CASE k \in KeysOf[r]
    BY <1>1, <2>1 DEF AccessInv, CountsTell, ExclusiveAccess
  <2>2. CASE k \notin KeysOf[r]
    BY <1>1, <2>2 DEF AccessInv, CountsTell
  <2> QED BY <2>1, <2>2
<1>4. CountsTell'
  BY <1>1, <1>3 DEF AccessInv, CountsTell
<1> QED BY <1>1, <1>2, <1>4 DEF AccessInv

LEMMA StepAccess == AccessInv /\ [Next]_vars => AccessInv'
<1> SUFFICES ASSUME AccessInv, [Next]_vars PROVE AccessInv'
  OBVIOUS
<1> DEFINE Kept == UNCHANGED <<running, keyCount>>
<1>1. CASE Kept
  BY <1>1 DEF AccessInv, CountsTell, ExclusiveAccess
<1>2. ASSUME NEW r \in Requests,
             Refuse(r) \/ Join(r) \/ Accept(r) \/ Clear(r)
                \/ CancelRunning(r) \/ CancelPending(r) \/ Timeout(r)
      PROVE  Kept
  BY <1>2 DEF Refuse, Join, Accept, Clear, CancelRunning, CancelPending, Timeout
<1>3. ASSUME NEW r \in Requests, Settle(r, TRUE) \/ Settle(r, FALSE)
      PROVE  AccessInv'
  BY <1>3, SettleAccess
<1>4. CASE Advance
  <2>1. ASSUME NEW r \in Requests \cup {None}, PumpReturns(r) PROVE Kept
    BY <2>1 DEF PumpReturns
  <2>2. ASSUME NEW r \in Requests, Return(r) PROVE Kept
    BY <2>2 DEF Return
  <2> QED BY <1>1, <1>4, <2>1, <2>2, StartAccess DEF Advance
<1>5. CASE UNCHANGED vars
  BY <1>1, <1>5 DEF vars
<1> QED BY <1>1, <1>2, <1>3, <1>4, <1>5 DEF Next

\* No two requests that share an exclusive key are ever at work at one time.
THEOREM ExclusiveAccessHolds == Spec => []ExclusiveAccess
<1>1. AccessInv => ExclusiveAccess
  BY DEF AccessInv
<1> QED BY InitAccess, StepAccess, <1>1, PTL DEF Spec

-----------------------------------------------------------------------------
(***************************************************************************)
(* No idle work.  The stack empties only when a pump returns: a run() is   *)
(* always called by a pump, so a stack that is not empty has a pump at the *)
(* bottom, and that pump looks at the waiting requests once more.          *)
(***************************************************************************)
Frame == [call : {"pump", "run"}, req : Requests \cup {None}]

PumpAtBottom == stack \in Seq(Frame) /\ (stack /= <<>> => stack[1].call = "pump")

IdleInv == PumpAtBottom /\ NoIdleWork

LEMMA InitIdle == Init => IdleInv
  BY DEF Init, IdleInv, PumpAtBottom, NoIdleWork, Elements

\* A call that returns leaves the pump at the bottom, unless it is that pump.
LEMMA CallerKeepsPump ==
  ASSUME PumpAtBottom, stack /= <<>>
  PROVE  /\ Caller \in Seq(Frame)
         /\ Caller /= <<>> => Caller[1].call = "pump"
         /\ Caller = <<>> => stack[Len(stack)].call = "pump"
<1> DEFINE n == Len(stack)
<1>1. n \in Nat \ {0} /\ \A i \in 1..n : stack[i] \in Frame
  BY EmptySeq, LenProperties, ElementOfSeq DEF PumpAtBottom
<1>2. \A i \in 1..(n - 1) : stack[i] \in Frame
  BY <1>1
<1>3. /\ Caller \in Seq(Frame)
      /\ Len(Caller) = n - 1
      /\ \A i \in 1..(n - 1) : Caller[i] = stack[i]
  <2> HIDE DEF n
  <2>1. 1 \in Int /\ n - 1 \in Int /\ (1 <= n - 1 => n - 1 - 1 + 1 = n - 1)
        /\ (~(1 <= n - 1) => n - 1 = 0) /\ n - 1 - 1 + 1 = n - 1 /\ \A i \in Int : 1 + i - 1 = i
    BY <1>1
  <2>2. Caller = SubSeq(stack, 1, n - 1)
    BY DEF Caller, n
  <2>3. /\ SubSeq(stack, 1, n - 1) \in Seq(Frame)
        /\ Len(SubSeq(stack, 1, n - 1)) = IF 1 <= n - 1 THEN n - 1 - 1 + 1 ELSE 0
        /\ \A i \in 1..(n - 1 - 1 + 1) : SubSeq(stack, 1, n - 1)[i] = stack[1 + i - 1]
    BY <1>2, <2>1, SubSeqProperties
  <2> QED BY <2>1, <2>2, <2>3
<1>4. Caller /= <<>> => n - 1 \in Nat \ {0}
  BY <1>3, EmptySeq
<1>5. Caller = <<>> => n = 1
  BY <1>1, <1>3, EmptySeq
<1> QED BY <1>1, <1>3, <1>4, <1>5 DEF PumpAtBottom

\* A call made on top of a stack leaves it with a pump at the bottom.
LEMMA AppendKeepsPump ==
  ASSUME NEW s \in Seq(Frame), NEW f \in Frame,
         s /= <<>> => s[1].call = "pump", s = <<>> => f.call = "pump"
  PROVE  Append(s, f) \in Seq(Frame) /\ Append(s, f) /= <<>> /\ Append(s, f)[1].call = "pump"
<1>1. CASE s = <<>>
  BY <1>1, AppendProperties, EmptySeq
<1>2. CASE s /= <<>>
  BY <1>2, AppendProperties, EmptySeq
<1> QED BY <1>1, <1>2

LEMMA StepIdle == IdleInv /\ [Next]_vars => IdleInv'
<1> SUFFICES ASSUME IdleInv, [Next]_vars PROVE IdleInv'
  OBVIOUS
<1> USE SpecAssumption DEF IdleInv
<1> DEFINE Kept == UNCHANGED <<pending, keyCount, stack>>
           Calls == stack' \in Seq(Frame) /\ stack' /= <<>> /\ stack'[1].call = "pump"
<1>1. CASE Kept
  BY <1>1 DEF PumpAtBottom, NoIdleWork, Elements, CanRun
<1>2. CASE Calls
  BY <1>2 DEF PumpAtBottom, NoIdleWork
<1>3. ASSUME NEW r \in Requests,
             Refuse(r) \/ Join(r) \/ Clear(r) \/ CancelRunning(r) \/ Timeout(r)
      PROVE  Kept
  BY <1>3 DEF Refuse, Join, Clear, CancelRunning, Timeout
<1>4. ASSUME NEW r \in Requests, Accept(r) \/ CancelPending(r)
      PROVE  Calls
  <2>1. PICK q \in Requests \cup {None} : stack' = Append(stack, Pump(q))
    BY <1>4 DEF Accept, CancelPending
  <2> QED BY <2>1, AppendKeepsPump DEF PumpAtBottom, Pump, Frame
<1>5. ASSUME NEW r \in Requests, Start(r)
      PROVE  Calls
  <2>1. stack' = Append(stack, Run(r)) /\ stack /= <<>>
    BY <1>5 DEF Start, Pumping, Inside
  <2> QED BY <2>1, AppendKeepsPump DEF PumpAtBottom, Run, Frame
<1>6. ASSUME NEW r \in Requests, NEW ok \in BOOLEAN, Settle(r, ok)
      PROVE  Calls
  <2>1. CASE stack = <<>>
    <3>1. stack' = Append(<<>>, Pump(None))
      BY <1>6, <2>1 DEF Settle, AfterSettling
    <3> QED BY <3>1, AppendKeepsPump DEF Pump, Frame
  <2>2. CASE stack /= <<>>
    <3>1. stack' = Append(Caller, Pump(None))
      BY <1>6, <2>2 DEF Settle, AfterSettling
    <3> QED BY <3>1, <2>2, CallerKeepsPump, AppendKeepsPump DEF Pump, Frame
  <2> QED BY <2>1, <2>2
<1>7. ASSUME NEW r \in Requests, Return(r)
      PROVE  Calls
  <2>1. stack /= <<>> /\ stack[Len(stack)].call = "run" /\ stack' = Caller
    BY <1>7 DEF Return, Inside, Run
  <2> QED BY <2>1, CallerKeepsPump
<1>8. ASSUME NEW r \in Requests \cup {None}, PumpReturns(r)
      PROVE  IdleInv'
  <2>1. stack /= <<>> /\ stack' = Caller
    BY <1>8 DEF PumpReturns, Inside
  <2>2. PumpAtBottom'
    BY <2>1, CallerKeepsPump DEF PumpAtBottom
  <2>3. NoIdleWork'
    BY <1>8 DEF PumpReturns, NoIdleWork, Elements, CanRun
  <2> QED BY <2>2, <2>3
<1>9. CASE Advance
  BY <1>2, <1>5, <1>7, <1>8, <1>9 DEF Advance
<1>10. CASE UNCHANGED vars
  BY <1>1, <1>10 DEF vars
<1> QED BY <1>1, <1>2, <1>3, <1>4, <1>6, <1>9, <1>10 DEF Next

\* Between turns no request waits that could run.
THEOREM NoIdleWorkHolds == Spec => []NoIdleWork
<1>1. IdleInv => NoIdleWork
  BY DEF IdleInv
<1> QED BY InitIdle, StepIdle, <1>1, PTL DEF Spec

-----------------------------------------------------------------------------
(* What is left of a sequence.  The positions left are numbered in order:  *)
(* numbering is one-to-one, and onto since there are as many numbers.      *)
Left(s, gone) == {i \in 1..Len(s) : s[i] \notin gone}
Place(I, i) == Cardinality({j \in I : j <= i})
Nth(I, k) == CHOOSE i \in I : Place(I, i) = k

LEMMA PlacesGrow ==
  ASSUME NEW n \in Nat, NEW I \in SUBSET (1..n), NEW i \in I
  PROVE  /\ IsFiniteSet(I) /\ Cardinality(I) \in Nat
         /\ Place(I, i) \in 1..Cardinality(I)
         /\ \A j \in I : i < j => Place(I, i) < Place(I, j)
<1> DEFINE Up(j) == {k \in I : k <= j}
<1>1. IsFiniteSet(I) /\ Cardinality(I) \in Nat
  <2>1. IsFiniteSet(1..n)
    BY FS_Interval
  <2> QED BY <2>1, FS_Subset, FS_CardinalityType
<1>2. ASSUME NEW j \in I
      PROVE  /\ IsFiniteSet(Up(j)) /\ Cardinality(Up(j)) \in Nat
             /\ Cardinality(Up(j)) <= Cardinality(I) /\ Cardinality(Up(j)) /= 0
  <2>1. Up(j) \in SUBSET I /\ Up(j) /= {}
    OBVIOUS
  <2> HIDE DEF Up
  <2> QED BY <1>1, <2>1, FS_Subset, FS_CardinalityType, FS_EmptySet
<1>3. ASSUME NEW j \in I, i < j
      PROVE  Cardinality(Up(i)) < Cardinality(Up(j))
  <2>1. Up(i) \in SUBSET Up(j) /\ Up(i) /= Up(j)
    <3>1. j \in Up(j) /\ j \notin Up(i)
      BY <1>3
    <3>2. Up(i) \in SUBSET Up(j)
      <4>1. \A k \in I : k \in Nat
        OBVIOUS
      <4>2. \A k \in I : k <= i => k <= j
        BY <1>3, <4>1
      <4> QED BY <4>2
    <3> QED BY <3>1, <3>2
  <2>2. Cardinality(Up(i)) <= Cardinality(Up(j)) /\ Cardinality(Up(i)) /= Cardinality(Up(j))
    <3> HIDE DEF Up
    <3> QED BY <1>2, <2>1, FS_Subset
  <2>3. Cardinality(Up(i)) \in Nat /\ Cardinality(Up(j)) \in Nat
    BY <1>2
  <2> QED BY <2>2, <2>3
<1>4. \A j \in I : Place(I, j) = Cardinality(Up(j))
  BY DEF Place
<1> HIDE DEF Up
<1>5. Place(I, i) \in 1..Cardinality(I)
  BY <1>1, <1>2, <1>4
<1> QED BY <1>1, <1>3, <1>4, <1>5

LEMMA PlacesAreAll ==
  ASSUME NEW n \in Nat, NEW I \in SUBSET (1..n), NEW k \in 1..Cardinality(I)
  PROVE  \E i \in I : Place(I, i) = k
<1> DEFINE m == Cardinality(I)
           f == [i \in I |-> Place(I, i)]
<1>1. m \in Nat /\ IsFiniteSet(I)
  <2>1. IsFiniteSet(1..n)
    BY FS_Interval
  <2> QED BY <2>1, FS_Subset, FS_CardinalityType
<1>2. f \in Injection(I, 1..m)
  <2>0. \A i \in I : /\ i \in Nat /\ Place(I, i) \in 1..m /\ Place(I, i) \in Nat
                     /\ \A j \in I : i < j => Place(I, i) < Place(I, j)
    <3>1. ASSUME NEW i \in I
          PROVE  i \in Nat /\ Place(I, i) \in 1..m /\ \A j \in I : i < j => Place(I, i) < Place(I, j)
      <4>1. i \in Nat
        OBVIOUS
      <4>2. Place(I, i) \in 1..Cardinality(I) /\ \A j \in I : i < j => Place(I, i) < Place(I, j)
        BY PlacesGrow
      <4> QED BY <4>1, <4>2
    <3> HIDE DEF m
    <3> QED BY <1>1, <3>1
  <2>1. f \in [I -> 1..m]
    BY <2>0
  <2>2. ASSUME NEW i \in I, NEW j \in I, i /= j PROVE f[i] /= f[j]
    <3>1. f[i] = Place(I, i) /\ f[j] = Place(I, j) /\ (i < j \/ j < i)
      BY <2>0, <2>2
    <3> HIDE DEF f
    <3> QED BY <2>0, <3>1
  <2> QED BY <2>1, <2>2 DEF Injection, IsInjective
<1>3. IsFiniteSet(1..m) /\ Cardinality(1..m) = m
  BY <1>1, FS_Interval
<1>4. f \in Surjection(I, 1..m)
  BY <1>2, <1>3, FS_Injection
<1> QED BY <1>4 DEF Surjection

(* Without(s, gone) follows s: f tells where its elements were.            *)
Follows(w, s, gone, f) ==
    /\ f \in [1..Len(w) -> 1..Len(s)]
    /\ \A k \in 1..Len(w) : w[k] = s[f[k]] /\ w[k] \notin gone
    /\ \A k, l \in 1..Len(w) : k < l => f[k] < f[l]
    /\ \A i \in 1..Len(s) : s[i] \notin gone => \E k \in 1..Len(w) : f[k] = i

LEMMA WithoutFollows ==
  ASSUME NEW S, NEW s \in Seq(S), NEW gone
  PROVE  /\ Without(s, gone) \in Seq(S) /\ Len(Without(s, gone)) = Cardinality(Left(s, gone))
         /\ \E f : Follows(Without(s, gone), s, gone, f)
<1> DEFINE n == Len(s)
           I == Left(s, gone)
           m == Cardinality(I)
           f == [k \in 1..m |-> Nth(I, k)]
           w == [k \in 1..m |-> s[f[k]]]
<1>1. n \in Nat /\ DOMAIN s = 1..n /\ \A i \in 1..n : s[i] \in S
  BY LenProperties, ElementOfSeq
<1>2. I \in SUBSET (1..n)
  BY DEF Left
<1>3. IsFiniteSet(I) /\ m \in Nat
  <2>1. IsFiniteSet(1..n)
    BY <1>1, FS_Interval
  <2> HIDE DEF I
  <2> QED BY <1>2, <2>1, FS_Subset, FS_CardinalityType
<1>4. \A k \in 1..m : Nth(I, k) \in I /\ Place(I, Nth(I, k)) = k
  <2>1. \A k \in 1..m : \E i \in I : Place(I, i) = k
    <3> HIDE DEF I, n
    <3> QED BY <1>1, <1>2, PlacesAreAll
  <2> HIDE DEF I, m
  <2> QED BY <2>1 DEF Nth
<1>5. Without(s, gone) = w
  <2>1. I = {i \in DOMAIN s : s[i] \notin gone}
    BY <1>1 DEF Left
  <2>2. Without(s, gone) =
           LET nth(k) == CHOOSE i \in I : Cardinality({j \in I : j <= i}) = k
           IN  [k \in 1..m |-> s[nth(k)]]
    <3> HIDE DEF I
    <3> QED BY <2>1 DEF Without
  <2> HIDE DEF I
  <2> QED BY <2>2 DEF Nth, Place
<1> HIDE DEF n, I, m
<1>6. f \in [1..m -> 1..n] /\ \A k \in 1..m : f[k] = Nth(I, k)
  BY <1>2, <1>4
<1>7. \A k \in 1..m : w[k] = s[f[k]] /\ w[k] \notin gone /\ w[k] \in S
  BY <1>1, <1>4, <1>6 DEF I, Left
<1>8. w \in Seq(S) /\ Len(w) = m
  BY <1>3, <1>7, SeqDef
<1>9. ASSUME NEW k \in 1..m, NEW l \in 1..m, k < l
      PROVE  f[k] < f[l]
  <2>1. f[k] \in I /\ f[l] \in I /\ f[k] \in Nat /\ f[l] \in Nat
        /\ Place(I, f[k]) = k /\ Place(I, f[l]) = l
    BY <1>1, <1>4, <1>6
  <2>2. f[l] < f[k] => Place(I, f[l]) < Place(I, f[k])
    BY <1>1, <1>2, <2>1, PlacesGrow
  <2> QED BY <1>9, <1>3, <2>1, <2>2
<1>10. ASSUME NEW i \in 1..n, s[i] \notin gone
       PROVE  \E k \in 1..m : f[k] = i
  <2>1. i \in I
    BY <1>10 DEF I, Left, n
  <2>2. Place(I, i) \in 1..m
    BY <1>1, <1>2, <2>1, PlacesGrow DEF m
  <2>3. ASSUME NEW j \in I, Place(I, j) = Place(I, i) PROVE j = i
    <3>1. Place(I, i) \in Nat /\ i \in Nat /\ j \in Nat
      BY <1>2, <1>3, <2>2
    <3>2. i < j => Place(I, i) < Place(I, j)
      BY <1>1, <1>2, <2>1, PlacesGrow
    <3>3. j < i => Place(I, j) < Place(I, i)
      BY <1>1, <1>2, <2>1, PlacesGrow
    <3> QED BY <2>3, <3>1, <3>2, <3>3
  <2> QED BY <1>4, <1>6, <2>2, <2>3
<1>11. Follows(w, s, gone, f)
  <2> HIDE DEF w, f
  <2> QED BY <1>6, <1>7, <1>8, <1>9, <1>10 DEF Follows, n
<1> QED BY <1>5, <1>8, <1>11 DEF m, I

-----------------------------------------------------------------------------
(* What a sequence lists, and in which order.                              *)
Before(s, x, y) == \E i, j \in 1..Len(s) : i < j /\ s[i] = x /\ s[j] = y

LEMMA ElementsOfSeq ==
  ASSUME NEW S, NEW s \in Seq(S)
  PROVE  Elements(s) = {s[i] : i \in 1..Len(s)} /\ Elements(s) \subseteq S
  BY LenProperties, ElementOfSeq DEF Elements

LEMMA WithoutElements ==
  ASSUME NEW S, NEW s \in Seq(S), NEW gone
  PROVE  Elements(Without(s, gone)) = Elements(s) \ gone
<1> DEFINE w == Without(s, gone)
<1>1. w \in Seq(S)
  BY WithoutFollows
<1>2. PICK f : Follows(w, s, gone, f)
  BY WithoutFollows
<1> HIDE DEF w
<1>3. Elements(w) = {w[i] : i \in 1..Len(w)} /\ Elements(s) = {s[i] : i \in 1..Len(s)}
  BY <1>1, ElementsOfSeq
<1>4. ASSUME NEW x \in Elements(w) PROVE x \in Elements(s) \ gone
  BY <1>2, <1>3 DEF Follows
<1>5. ASSUME NEW x \in Elements(s), x \notin gone PROVE x \in Elements(w)
  BY <1>2, <1>3, <1>5 DEF Follows
<1> QED BY <1>4, <1>5 DEF w

LEMMA WithoutBefore ==
  ASSUME NEW S, NEW s \in Seq(S), NEW gone, NEW x, NEW y
  PROVE  Before(Without(s, gone), x, y) <=> Before(s, x, y) /\ x \notin gone /\ y \notin gone
<1> DEFINE w == Without(s, gone)
<1>1. w \in Seq(S) /\ Len(w) \in Nat /\ Len(s) \in Nat
  BY WithoutFollows, LenProperties
<1>2. PICK f : Follows(w, s, gone, f)
  BY WithoutFollows
<1> HIDE DEF w
<1>3. ASSUME Before(w, x, y) PROVE Before(s, x, y) /\ x \notin gone /\ y \notin gone
  <2>1. PICK i \in 1..Len(w), j \in 1..Len(w) : i < j /\ w[i] = x /\ w[j] = y
    BY <1>3 DEF Before
  <2>2. f[i] \in 1..Len(s) /\ f[j] \in 1..Len(s) /\ f[i] < f[j] /\ s[f[i]] = x /\ s[f[j]] = y
    BY <1>2, <2>1 DEF Follows
  <2>3. x \notin gone /\ y \notin gone
    BY <1>2, <2>1 DEF Follows
  <2> QED BY <2>2, <2>3 DEF Before
<1>4. ASSUME Before(s, x, y), x \notin gone, y \notin gone PROVE Before(w, x, y)
  <2>1. PICK i \in 1..Len(s), j \in 1..Len(s) : i < j /\ s[i] = x /\ s[j] = y
    BY <1>4 DEF Before
  <2>2. PICK k \in 1..Len(w), l \in 1..Len(w) : f[k] = i /\ f[l] = j
    BY <1>2, <1>4, <2>1 DEF Follows
  <2>3. w[k] = x /\ w[l] = y
    BY <1>2, <2>1, <2>2 DEF Follows
  <2>4. k < l
    <3>1. k \in Nat /\ l \in Nat /\ i \in Nat /\ j \in Nat
      BY <1>1
    <3>2. l < k => f[l] < f[k]
      BY <1>2 DEF Follows
    <3> QED BY <2>1, <2>2, <3>1, <3>2
  <2> QED BY <2>3, <2>4 DEF Before
<1> QED BY <1>3, <1>4 DEF w

LEMMA ConcatLists ==
  ASSUME NEW S, NEW s \in Seq(S), NEW t \in Seq(S)
  PROVE  /\ s \o t \in Seq(S)
         /\ Elements(s \o t) = Elements(s) \cup Elements(t)
         /\ \A x, y : Before(s \o t, x, y) =>
               \/ Before(s, x, y) \/ Before(t, x, y)
               \/ x \in Elements(s) /\ y \in Elements(t)
<1> DEFINE m == Len(s)
           n == Len(t)
           c == s \o t
<1>1. /\ m \in Nat /\ n \in Nat /\ c \in Seq(S) /\ Len(c) = m + n
      /\ \A i \in 1..(m + n) : c[i] = IF i <= m THEN s[i] ELSE t[i - m]
  BY ConcatProperties, LenProperties
<1>2. /\ Elements(s) = {s[i] : i \in 1..m} /\ Elements(t) = {t[i] : i \in 1..n}
      /\ Elements(c) = {c[i] : i \in 1..(m + n)}
  BY <1>1, ElementsOfSeq
<1> HIDE DEF m, n, c
<1>3. ASSUME NEW i \in 1..(m + n)
      PROVE  \/ i \in 1..m /\ c[i] = s[i]
             \/ i - m \in 1..n /\ i > m /\ c[i] = t[i - m]
  BY <1>1
<1>4. ASSUME NEW i \in 1..m PROVE i \in 1..(m + n) /\ c[i] = s[i]
  BY <1>1
<1>5. ASSUME NEW i \in 1..n PROVE i + m \in 1..(m + n) /\ c[i + m] = t[i]
  <2>1. i + m \in 1..(m + n) /\ ~(i + m <= m) /\ (i + m) - m = i
    BY <1>1
  <2> QED BY <1>1, <2>1
<1>6. Elements(c) = Elements(s) \cup Elements(t)
  BY <1>2, <1>3, <1>4, <1>5
<1>7. ASSUME NEW x, NEW y, Before(c, x, y)
      PROVE  \/ Before(s, x, y) \/ Before(t, x, y)
             \/ x \in Elements(s) /\ y \in Elements(t)
  <2>1. PICK i \in 1..(m + n), j \in 1..(m + n) : i < j /\ c[i] = x /\ c[j] = y
    BY <1>1, <1>7 DEF Before
  <2>2. CASE j \in 1..m
    <3>1. i \in 1..m /\ s[i] = x /\ s[j] = y
      BY <1>1, <1>4, <2>1, <2>2
    <3> QED BY <2>1, <2>2, <3>1 DEF Before, m
  <2>3. CASE i \in 1..m /\ j \notin 1..m
    <3>1. c[i] = s[i]
      BY <1>4, <2>3
    <3>2. j - m \in 1..n /\ c[j] = t[j - m]
      BY <1>3, <2>3
    <3>3. x \in Elements(s)
      BY <1>2, <2>1, <2>3, <3>1
    <3>4. y \in Elements(t)
      BY <1>2, <2>1, <3>2
    <3> QED BY <3>3, <3>4
  <2>4. CASE i \notin 1..m /\ j \notin 1..m
    <3>1. i - m \in 1..n /\ j - m \in 1..n /\ t[i - m] = x /\ t[j - m] = y
      BY <1>3, <2>1, <2>4
    <3>2. i - m < j - m
      BY <1>1, <2>1
    <3> QED BY <3>1, <3>2 DEF Before, n
  <2>5. j \in 1..m => i \in 1..m
    BY <1>1, <2>1
  <2> QED BY <2>2, <2>3, <2>4
<1> QED BY <1>1, <1>6, <1>7 DEF c

LEMMA AppendLists ==
  ASSUME NEW S, NEW s \in Seq(S), NEW e \in S
  PROVE  /\ Append(s, e) \in Seq(S)
         /\ Elements(Append(s, e)) = Elements(s) \cup {e}
         /\ \A x, y : Before(s, x, y) => Before(Append(s, e), x, y)
         /\ \A x \in Elements(s) : Before(Append(s, e), x, e)
<1> DEFINE n == Len(s)
           a == Append(s, e)
<1>1. /\ n \in Nat /\ a \in Seq(S) /\ Len(a) = n + 1
      /\ \A i \in 1..n : a[i] = s[i]
      /\ a[n + 1] = e
  BY AppendProperties, LenProperties
<1>2. Elements(s) = {s[i] : i \in 1..n} /\ Elements(a) = {a[i] : i \in 1..(n + 1)}
  BY <1>1, ElementsOfSeq
<1> HIDE DEF a
<1>3. \A i \in 1..n : i \in 1..(n + 1) /\ i < n + 1
  BY <1>1
<1>4. n + 1 \in 1..(n + 1) /\ \A i \in 1..(n + 1) : i \in 1..n \/ i = n + 1
  BY <1>1
<1> HIDE DEF n
<1>5. Elements(a) = Elements(s) \cup {e}
  BY <1>1, <1>2, <1>3, <1>4
<1>6. ASSUME NEW x, NEW y, Before(s, x, y) PROVE Before(a, x, y)
  <2>1. PICK i \in 1..n, j \in 1..n : i < j /\ s[i] = x /\ s[j] = y
    BY <1>6 DEF Before, n
  <2> QED BY <1>1, <1>3, <2>1 DEF Before
<1>7. ASSUME NEW x \in Elements(s) PROVE Before(a, x, e)
  <2>1. PICK i \in 1..n : s[i] = x
    BY <1>2
  <2> QED BY <1>1, <1>3, <1>4, <2>1 DEF Before
<1> QED BY <1>1, <1>5, <1>6, <1>7 DEF a

-----------------------------------------------------------------------------
(* The history.                                                            *)
Statuses == Terminal \cup {"none", "queued", "running", "cancelling"}
Index == [Ids -> Requests \cup {None}]

LEMMA NewestTyped ==
  ASSUME NEW recs \in Seq(Requests), NEW id
  PROVE  Newest(recs, id) \in Requests \cup {None}
<1> DEFINE same == Without(recs, {r \in Requests : IdOf[r] /= id})
<1>1. same \in Seq(Requests)
  BY WithoutFollows
<1>2. Newest(recs, id) = IF same = <<>> THEN None ELSE same[Len(same)]
  BY DEF Newest
<1> HIDE DEF same
<1>3. same /= <<>> => Len(same) \in 1..Len(same)
  BY <1>1, EmptySeq
<1> QED BY <1>1, <1>2, <1>3, ElementOfSeq

(* Trimming the history forgets no record of a request that is waiting or  *)
(* at work: not the record, nor its place in the index, nor the order.     *)
Remembers(recs, st, index) ==
    /\ records' \in Seq(Requests) /\ status' = st /\ latest' \in Index
    /\ \A r \in Requests : st[r] \notin Terminal =>
          /\ r \in Elements(recs) => r \in Elements(records')
          /\ \A i \in Ids : index[i] = r => latest'[i] = r
    /\ \A r, q \in Requests :
          st[r] \notin Terminal /\ st[q] \notin Terminal /\ Before(recs, r, q)
             => Before(records', r, q)

LEMMA HistoryRemembers ==
  ASSUME NEW recs \in Seq(Requests), NEW st, NEW index \in Index, History(recs, st, index)
  PROVE  Remembers(recs, st, index)
<1> DEFINE D == Dropped(recs, st)
<1>1. /\ records' = Without(recs, D) /\ status' = st
      /\ latest' = [i \in Ids |-> IF index[i] \in D THEN Newest(records', i) ELSE index[i]]
  BY DEF History
<1>2. \A r \in D : st[r] \in Terminal
  BY DEF Dropped
<1> HIDE DEF D
<1>3. records' \in Seq(Requests)
  BY <1>1, WithoutFollows
<1>4. latest' \in Index
  <2>1. ASSUME NEW i \in Ids PROVE Newest(records', i) \in Requests \cup {None}
    BY <1>3, NewestTyped
  <2>2. \A i \in Ids : index[i] \in Requests \cup {None}
    BY DEF Index
  <2> QED BY <1>1, <2>1, <2>2 DEF Index
<1>5. ASSUME NEW r \in Requests, st[r] \notin Terminal
      PROVE  /\ r \in Elements(recs) => r \in Elements(records')
             /\ \A i \in Ids : index[i] = r => latest'[i] = r
  <2>1. r \notin D
    BY <1>2, <1>5
  <2>2. r \in Elements(recs) => r \in Elements(records')
    BY <1>1, <2>1, WithoutElements
  <2> QED BY <1>1, <2>1, <2>2
<1>6. ASSUME NEW r \in Requests, NEW q \in Requests,
             st[r] \notin Terminal, st[q] \notin Terminal, Before(recs, r, q)
      PROVE  Before(records', r, q)
  <2>1. r \notin D /\ q \notin D
    BY <1>2, <1>6
  <2> QED BY <1>1, <1>6, <2>1, WithoutBefore
<1> QED BY <1>1, <1>3, <1>4, <1>5, <1>6 DEF Remembers

-----------------------------------------------------------------------------
(* What the queue, its history and its callers know of a request agree.    *)
Active == running \cup Elements(pending)

Lists ==
    /\ pending \in Seq(Requests) /\ records \in Seq(Requests)
    /\ running \subseteq Requests
    /\ cancelled \subseteq running \cap Cancellable /\ timedOut \subseteq running \cap Timed
    /\ status \in [Requests -> Statuses] /\ latest \in Index
    /\ answer \in [Requests -> {"none", "refused", "joined", "open", "resolved", "rejected"}]

(* A request that was not taken has no status.                             *)
UntakenIsUnknown ==
    \A r \in Requests : answer[r] \in {"none", "refused"} => status[r] = "none"

(* The waiting requests are sorted by rank, and by arrival within a rank.  *)
Sorted ==
    \A r, q \in Requests : Before(pending, r, q) =>
        RankOf[r] < RankOf[q] \/ (RankOf[r] = RankOf[q] /\ Before(records, r, q))

ListInv == Lists /\ UntakenIsUnknown /\ RecordFitsAnswer /\ ActiveIsListed /\ Sorted

LEMMA ActiveStatus ==
  ASSUME ListInv
  PROVE  /\ Active \subseteq Requests
         /\ \A r \in Active : status[r] \in {"queued", "running", "cancelling"} /\ status[r] \notin Terminal
<1>1. Active \subseteq Requests
  BY ElementsOfSeq DEF ListInv, Lists, Active
<1> QED BY <1>1 DEF ListInv, RecordFitsAnswer, Active, Terminal

LEMMA BeforeListed ==
  ASSUME NEW S, NEW s \in Seq(S), NEW x, NEW y, Before(s, x, y)
  PROVE  x \in Elements(s) /\ y \in Elements(s)
  BY ElementsOfSeq DEF Before

(* Marking an active request in the history: it and the others stay listed *)
(* and in order, but for itself if it is marked as finished.               *)
Marks(r, s) ==
    /\ records' \in Seq(Requests) /\ latest' \in Index
    /\ status' = [status EXCEPT ![r] = s]
    /\ \A q \in Active : q /= r \/ s \notin Terminal =>
          q \in Elements(records') /\ latest'[IdOf[q]] = q
    /\ \A p, q \in Active :
          (p /= r /\ q /= r) \/ s \notin Terminal =>
             (Before(records, p, q) => Before(records', p, q))

LEMMA UpdateMarks ==
  ASSUME ListInv, NEW r \in Active, NEW s, Update(IdOf[r], s)
  PROVE  Marks(r, s)
<1> DEFINE st == [status EXCEPT ![r] = s]
<1>1. /\ Active \subseteq Requests /\ latest[IdOf[r]] = r /\ r /= None
      /\ records \in Seq(Requests) /\ latest \in Index /\ DOMAIN status = Requests
  BY ActiveStatus, SpecAssumption DEF ListInv, ActiveIsListed, Active, Lists
<1>2. History(records, st, latest)
  BY <1>1 DEF Update
<1>3. Remembers(records, st, latest)
  <2> HIDE DEF st
  <2> QED BY <1>1, <1>2, HistoryRemembers
<1>4. ASSUME NEW q \in Active, q /= r \/ s \notin Terminal
      PROVE  st[q] \notin Terminal /\ q \in Requests /\ q \in Elements(records)
             /\ latest[IdOf[q]] = q /\ IdOf[q] \in Ids
  BY <1>1, <1>4, ActiveStatus, SpecAssumption DEF ListInv, ActiveIsListed, Active
<1>5. status' = st /\ records' \in Seq(Requests) /\ latest' \in Index
  BY <1>3 DEF Remembers
<1> HIDE DEF st
<1>6. ASSUME NEW q \in Active, q /= r \/ s \notin Terminal
      PROVE  q \in Elements(records') /\ latest'[IdOf[q]] = q
  BY <1>3, <1>4, <1>6 DEF Remembers
<1>7. ASSUME NEW p \in Active, NEW q \in Active, (p /= r /\ q /= r) \/ s \notin Terminal,
             Before(records, p, q)
      PROVE  Before(records', p, q)
  BY <1>3, <1>4, <1>7 DEF Remembers
<1> QED BY <1>5, <1>6, <1>7 DEF Marks, st

(* A record of a request that is not active, whose id no active one has.   *)
Adds(r, s) ==
    /\ records' \in Seq(Requests) /\ latest' \in Index
    /\ status' = [status EXCEPT ![r] = s]
    /\ \A q \in Active : q \in Elements(records') /\ latest'[IdOf[q]] = q
    /\ \A p, q \in Active : Before(records, p, q) => Before(records', p, q)
    /\ s \notin Terminal =>
          /\ r \in Elements(records') /\ latest'[IdOf[r]] = r
          /\ \A q \in Active : Before(records', q, r)

LEMMA RecordAdds ==
  ASSUME ListInv, NEW r \in Requests, ~IdActive(r), NEW s, Record(r, s)
  PROVE  Adds(r, s)
<1> DEFINE recs == Append(records, r)
           st == [status EXCEPT ![r] = s]
           index == [latest EXCEPT ![IdOf[r]] = r]
<1>1. /\ Active \subseteq Requests /\ records \in Seq(Requests) /\ latest \in Index
      /\ DOMAIN status = Requests /\ IdOf[r] \in Ids
  BY ActiveStatus, SpecAssumption DEF ListInv, Lists
<1>2. /\ recs \in Seq(Requests) /\ r \in Elements(recs)
      /\ \A q \in Elements(records) : q \in Elements(recs) /\ Before(recs, q, r)
      /\ \A p, q : Before(records, p, q) => Before(recs, p, q)
  BY <1>1, AppendLists
<1>3. index \in Index /\ index[IdOf[r]] = r
      /\ \A i \in Ids : i /= IdOf[r] => index[i] = latest[i]
  BY <1>1 DEF Index
<1>4. Remembers(recs, st, index)
  <2>1. History(recs, st, index)
    BY DEF Record
  <2> HIDE DEF recs, st, index
  <2> QED BY <1>2, <1>3, <2>1, HistoryRemembers
<1>5. ASSUME NEW q \in Active
      PROVE  st[q] \notin Terminal /\ q \in Requests /\ q \in Elements(records)
             /\ index[IdOf[q]] = q /\ IdOf[q] \in Ids
  <2>1. IdOf[q] /= IdOf[r] /\ q /= r
    BY DEF IdActive, Active
  <2>2. q \in Requests /\ IdOf[q] \in Ids
    BY <1>1, SpecAssumption
  <2>3. status[q] \notin Terminal /\ q \in Elements(records) /\ latest[IdOf[q]] = q
    BY ActiveStatus DEF ListInv, ActiveIsListed, Active
  <2> QED BY <1>3, <2>1, <2>2, <2>3
<1>6. st[r] = s
  BY <1>1
<1>7. status' = st /\ records' \in Seq(Requests) /\ latest' \in Index
  BY <1>4 DEF Remembers
<1> HIDE DEF recs, st, index
<1>8. ASSUME NEW q \in Active
      PROVE  q \in Elements(records') /\ latest'[IdOf[q]] = q
  BY <1>2, <1>4, <1>5 DEF Remembers
<1>9. ASSUME NEW p \in Active, NEW q \in Active, Before(records, p, q)
      PROVE  Before(records', p, q)
  BY <1>2, <1>4, <1>5, <1>9 DEF Remembers
<1>10. ASSUME s \notin Terminal
       PROVE  /\ r \in Elements(records') /\ latest'[IdOf[r]] = r
              /\ \A q \in Active : Before(records', q, r)
  BY <1>1, <1>2, <1>3, <1>4, <1>5, <1>6, <1>10 DEF Remembers
<1> QED BY <1>7, <1>8, <1>9, <1>10 DEF Adds, st

(* What RecordFitsAnswer says of one request.                            *)
Tells(r) ==
    /\ r \in Elements(pending) <=> status[r] = "queued"
    /\ r \in running <=> status[r] \in {"running", "cancelling"}
    /\ r \in cancelled \cup timedOut <=> status[r] = "cancelling"
    /\ answer[r] = "open" <=> status[r] \in {"queued", "running", "cancelling"}
    /\ answer[r] = "joined" <=> status[r] = "coalesced"
    /\ status[r] = "succeeded" => answer[r] = "resolved"
    /\ status[r] = "failed" => answer[r] = "rejected"
    /\ status[r] = "timeout" => answer[r] = "rejected" /\ r \in Timed
    /\ status[r] = "cancelled" => answer[r] \in {"resolved", "rejected"} /\ r \in Cancellable

(* A step that is not about q.                                             *)
Same(q) ==
    /\ q \in Elements(pending') <=> q \in Elements(pending)
    /\ q \in running' <=> q \in running
    /\ q \in cancelled' \cup timedOut' <=> q \in cancelled \cup timedOut
    /\ status'[q] = status[q] /\ answer'[q] = answer[q]

LEMMA TellsAll == RecordFitsAnswer <=> \A r \in Requests : Tells(r)
  BY DEF RecordFitsAnswer, Tells

LEMMA TellsIfSame ==
  ASSUME ListInv, NEW r \in Requests, \A q \in Requests \ {r} : Same(q), Tells(r)'
  PROVE  RecordFitsAnswer'
<1>1. ASSUME NEW q \in Requests \ {r} PROVE Tells(q)'
  <2>1. Tells(q) /\ Same(q)
    BY TellsAll DEF ListInv
  <2> QED BY <2>1 DEF Tells, Same
<1> QED BY <1>1 DEF RecordFitsAnswer, Tells

LEMMA SortedIfKept ==
  ASSUME ListInv, pending' \in Seq(Requests),
         \A p, q \in Elements(pending') :
            /\ Before(pending', p, q) => Before(pending, p, q)
            /\ Before(records, p, q) => Before(records', p, q)
  PROVE  Sorted'
<1> SUFFICES ASSUME NEW p \in Requests, NEW q \in Requests, Before(pending', p, q)
             PROVE  RankOf[p] < RankOf[q] \/ (RankOf[p] = RankOf[q] /\ Before(records', p, q))
  BY DEF Sorted, Before
<1>1. p \in Elements(pending') /\ q \in Elements(pending')
  BY BeforeListed
<1>2. Before(pending, p, q)
  BY <1>1
<1> QED BY <1>1, <1>2 DEF ListInv, Sorted

(* Cancelling, a timeout and the end of the work of a request that runs.   *)
LEMMA RunningMarked ==
  ASSUME ListInv, NEW r \in running, NEW s \in Statuses, Update(IdOf[r], s),
         running' \subseteq running,
         cancelled' \subseteq running' \cap Cancellable, timedOut' \subseteq running' \cap Timed,
         running \ {r} \subseteq running', s \in Terminal => r \notin running',
         UNCHANGED pending, answer' \in [Requests -> {"none", "refused", "joined", "open", "resolved", "rejected"}],
         Tells(r)', \A q \in Requests \ {r} : Same(q),
         answer'[r] = answer[r] \/ answer'[r] \notin {"none", "refused"}
  PROVE  ListInv'
<1>1. /\ Marks(r, s) /\ r \in Active /\ r \in Requests /\ r \notin Elements(pending)
      /\ status[r] /= "none" /\ answer[r] \notin {"none", "refused"}
  <2>1. r \in Active /\ r \in Requests
    BY DEF ListInv, Lists, Active
  <2>2. Marks(r, s)
    BY <2>1, UpdateMarks
  <2>3. Tells(r)
    BY <2>1, TellsAll DEF ListInv
  <2>4. r \notin Elements(pending) /\ status[r] /= "none"
    BY <2>3 DEF Tells
  <2> QED BY <2>1, <2>2, <2>4 DEF ListInv, UntakenIsUnknown
<1>2. Lists'
  BY <1>1 DEF ListInv, Lists, Marks
<1>3. UntakenIsUnknown'
  <2> SUFFICES ASSUME NEW q \in Requests, answer'[q] \in {"none", "refused"}
               PROVE  status'[q] = "none"
    BY DEF UntakenIsUnknown
  <2>1. q /= r
    BY <1>1
  <2>2. answer[q] \in {"none", "refused"} /\ status'[q] = status[q]
    BY <2>1 DEF Same
  <2> QED BY <2>2 DEF ListInv, UntakenIsUnknown
<1>4. RecordFitsAnswer'
  BY <1>1, TellsIfSame
<1>5. ActiveIsListed'
  <2> SUFFICES ASSUME NEW q \in running' \cup Elements(pending')
               PROVE  q \in Elements(records') /\ latest'[IdOf[q]] = q
    BY DEF ActiveIsListed
  <2>1. q \in Active /\ (q /= r \/ s \notin Terminal)
    BY <1>1 DEF Active
  <2> QED BY <1>1, <2>1 DEF Marks
<1>6. Sorted'
  <2>1. \A q \in Elements(pending') : q \in Active /\ q /= r
    BY <1>1 DEF Active
  <2>2. pending' \in Seq(Requests) /\ pending' = pending
    BY DEF ListInv, Lists
  <2> QED BY <1>1, <2>1, <2>2, SortedIfKept DEF Marks
<1> QED BY <1>2, <1>3, <1>4, <1>5, <1>6 DEF ListInv

LEMMA CancelRunningLists ==
  ASSUME ListInv, NEW r \in Requests, CancelRunning(r) \/ Timeout(r)
  PROVE  ListInv'
<1>1. /\ r \in running /\ Update(IdOf[r], "cancelling") /\ UNCHANGED <<pending, running, answer>>
      /\ cancelled' \cup timedOut' = cancelled \cup timedOut \cup {r}
      /\ cancelled' \subseteq running \cap Cancellable /\ timedOut' \subseteq running \cap Timed
  BY DEF CancelRunning, Timeout, ListInv, Lists
<1>2. Active \subseteq Requests /\ r \in Active
  BY <1>1, ActiveStatus DEF Active
<1>3. status' = [status EXCEPT ![r] = "cancelling"] /\ DOMAIN status = Requests
  BY <1>1, <1>2, UpdateMarks DEF Marks, ListInv, Lists
<1>4. \A q \in Requests \ {r} : Same(q)
  BY <1>1, <1>3 DEF Same
<1>5. Tells(r) /\ Tells(r)'
  <2>1. Tells(r)
    BY TellsAll DEF ListInv
  <2> QED BY <1>1, <1>3, <2>1 DEF Tells, Terminal
<1>6. answer' \in [Requests -> {"none", "refused", "joined", "open", "resolved", "rejected"}]
      /\ "cancelling" \in Statuses /\ "cancelling" \notin Terminal
  BY <1>1 DEF ListInv, Lists, Statuses, Terminal
<1> QED BY <1>1, <1>4, <1>5, <1>6, RunningMarked

LEMMA SettleLists ==
  ASSUME ListInv, NEW r \in Requests, NEW ok \in BOOLEAN, Settle(r, ok)
  PROVE  ListInv'
<1> DEFINE s == FinalStatus(r, ok)
<1>1. /\ r \in running /\ Update(IdOf[r], s) /\ UNCHANGED pending
      /\ running' = running \ {r} /\ cancelled' = cancelled \ {r} /\ timedOut' = timedOut \ {r}
      /\ answer' = [answer EXCEPT ![r] = Outcome(r, ok)]
  BY DEF Settle
<1>2. /\ s \in {"timeout", "cancelled", "succeeded", "failed"}
      /\ Outcome(r, ok) \in {"resolved", "rejected"}
      /\ s = "succeeded" => Outcome(r, ok) = "resolved"
      /\ s \in {"failed", "timeout"} => Outcome(r, ok) = "rejected"
      /\ s = "timeout" => r \in Timed
      /\ s = "cancelled" => r \in Cancellable
  BY DEF FinalStatus, Outcome, ListInv, Lists
<1> HIDE DEF s
<1>3. s \in Statuses /\ s \in Terminal
  BY <1>2 DEF Statuses, Terminal
<1>4. r \in Active
  BY <1>1 DEF Active
<1>5. status' = [status EXCEPT ![r] = s] /\ DOMAIN status = Requests /\ DOMAIN answer = Requests
  BY <1>1, <1>4, UpdateMarks DEF Marks, ListInv, Lists
<1>6. \A q \in Requests \ {r} : Same(q)
  BY <1>1, <1>5 DEF Same
<1>7. r \notin Elements(pending)
  <2>1. Tells(r)
    BY TellsAll DEF ListInv
  <2> QED BY <1>1, <2>1 DEF Tells
<1>8. Tells(r)'
  <2>1. status'[r] = s /\ answer'[r] = Outcome(r, ok) /\ r \notin Elements(pending')
        /\ r \notin running' /\ r \notin cancelled' \cup timedOut'
    BY <1>1, <1>5, <1>7
  <2> QED BY <1>2, <2>1 DEF Tells
<1>9. /\ answer' \in [Requests -> {"none", "refused", "joined", "open", "resolved", "rejected"}]
      /\ answer'[r] \notin {"none", "refused"}
      /\ cancelled' \subseteq running' \cap Cancellable /\ timedOut' \subseteq running' \cap Timed
  BY <1>1, <1>2 DEF ListInv, Lists
<1> QED BY <1>1, <1>3, <1>6, <1>8, <1>9, RunningMarked

(* A refused call is recorded nowhere.                                     *)
LEMMA RefuseLists ==
  ASSUME ListInv, NEW r \in Requests, Refuse(r)
  PROVE  ListInv'
<1>1. /\ answer[r] = "none" /\ answer' = [answer EXCEPT ![r] = "refused"]
      /\ UNCHANGED <<pending, running, cancelled, timedOut, records, status, latest>>
  BY DEF Refuse
<1>2. Lists' /\ DOMAIN answer = Requests
  BY <1>1 DEF ListInv, Lists
<1>3. UntakenIsUnknown'
  BY <1>1, <1>2 DEF ListInv, UntakenIsUnknown
<1>4. RecordFitsAnswer'
  <2>1. \A q \in Requests \ {r} : Same(q)
    BY <1>1, <1>2 DEF Same
  <2>2. Tells(r)'
    <3>1. Tells(r) /\ answer'[r] = "refused"
      BY <1>1, <1>2, TellsAll DEF ListInv
    <3> QED BY <1>1, <3>1 DEF Tells
  <2> QED BY <2>1, <2>2, TellsIfSame
<1>5. ActiveIsListed' /\ Sorted'
  BY <1>1 DEF ListInv, ActiveIsListed, Sorted
<1> QED BY <1>2, <1>3, <1>4, <1>5 DEF ListInv

(* A request that was not taken is not active.                             *)
LEMMA UntakenIsPassive ==
  ASSUME ListInv, NEW r \in Requests, answer[r] = "none"
  PROVE  r \notin Elements(pending) /\ r \notin running /\ r \notin cancelled \cup timedOut
<1>1. status[r] = "none" /\ Tells(r)
  BY TellsAll DEF ListInv, UntakenIsUnknown
<1> QED BY <1>1 DEF Tells

LEMMA JoinLists ==
  ASSUME ListInv, NEW r \in Requests, Join(r)
  PROVE  ListInv'
<1>1. /\ answer[r] = "none" /\ ~IdActive(r) /\ Record(r, "coalesced")
      /\ answer' = [answer EXCEPT ![r] = "joined"]
      /\ UNCHANGED <<pending, running, cancelled, timedOut>>
  BY DEF Join
<1>2. Adds(r, "coalesced") /\ "coalesced" \in Statuses
  BY <1>1, RecordAdds DEF Statuses, Terminal
<1>3. DOMAIN status = Requests /\ DOMAIN answer = Requests
  BY DEF ListInv, Lists
<1>4. Lists'
  BY <1>1, <1>2 DEF ListInv, Lists, Adds
<1>5. UntakenIsUnknown'
  BY <1>1, <1>2, <1>3 DEF ListInv, UntakenIsUnknown, Adds
<1>6. RecordFitsAnswer'
  <2>1. \A q \in Requests \ {r} : Same(q)
    BY <1>1, <1>2, <1>3 DEF Same, Adds
  <2>2. Tells(r)'
    <3>1. status'[r] = "coalesced" /\ answer'[r] = "joined"
      BY <1>1, <1>2, <1>3 DEF Adds
    <3> QED BY <1>1, <3>1, UntakenIsPassive DEF Tells
  <2> QED BY <2>1, <2>2, TellsIfSame
<1>7. ActiveIsListed'
  BY <1>1, <1>2 DEF ActiveIsListed, Adds, Active
<1>8. Sorted'
  <2>1. \A q \in Elements(pending') : q \in Active
    BY <1>1 DEF Active
  <2>2. pending' \in Seq(Requests) /\ pending' = pending
    BY <1>1 DEF ListInv, Lists
  <2> QED BY <1>2, <2>1, <2>2, SortedIfKept DEF Adds
<1> QED BY <1>4, <1>5, <1>6, <1>7, <1>8 DEF ListInv

(* r goes behind the waiting requests of its rank and of higher ones, and  *)
(* before the others.                                                      *)
LEMMA EnlistedLists ==
  ASSUME pending \in Seq(Requests), NEW r \in Requests
  PROVE  /\ Enlisted(r) \in Seq(Requests)
         /\ Elements(Enlisted(r)) = Elements(pending) \cup {r}
         /\ \A p, q \in Requests : Before(Enlisted(r), p, q) =>
               \/ Before(pending, p, q)
               \/ RankOf[p] < RankOf[q]
               \/ p \in Elements(pending) /\ q = r /\ RankOf[p] <= RankOf[r]
<1> DEFINE later == {q \in Requests : RankOf[q] > RankOf[r]}
           sooner == {q \in Requests : RankOf[q] <= RankOf[r]}
           a == Without(pending, later)
           b == Without(pending, sooner)
<1>1. /\ a \in Seq(Requests) /\ b \in Seq(Requests)
      /\ Elements(a) = Elements(pending) \ later /\ Elements(b) = Elements(pending) \ sooner
      /\ Elements(pending) \subseteq Requests
  BY WithoutFollows, WithoutElements, ElementsOfSeq
<1>2. \A p, q : Before(a, p, q) \/ Before(b, p, q) => Before(pending, p, q)
  BY WithoutBefore
<1>3. \A q \in Requests : RankOf[q] \in Nat
  BY SpecAssumption
<1>4. later \cap sooner = {} /\ \A q \in Requests : q \in later \/ q \in sooner
  BY <1>3
<1>5. /\ \A p \in Requests \ later : RankOf[p] <= RankOf[r]
      /\ \A p \in Requests \ sooner : RankOf[r] < RankOf[p]
      /\ \A p \in Requests \ later, q \in Requests \ sooner : RankOf[p] < RankOf[q]
  BY <1>3
<1>6. Enlisted(r) = (a \o <<r>>) \o b
  BY DEF Enlisted
<1> HIDE DEF a, b, later, sooner
<1>7. /\ <<r>> \in Seq(Requests) /\ Elements(<<r>>) = {r} /\ \A p, q : ~Before(<<r>>, p, q)
  <2>1. <<r>> \in Seq(Requests) /\ DOMAIN <<r>> = {1} /\ <<r>>[1] = r
    OBVIOUS
  <2>2. Elements(<<r>>) = {r}
    BY <2>1 DEF Elements
  <2>3. ASSUME NEW p, NEW q PROVE ~Before(<<r>>, p, q)
    BY <2>1 DEF Before
  <2> QED BY <2>1, <2>2, <2>3
<1>8. /\ a \o <<r>> \in Seq(Requests) /\ Elements(a \o <<r>>) = Elements(a) \cup {r}
      /\ \A p, q : Before(a \o <<r>>, p, q) => Before(a, p, q) \/ (p \in Elements(a) /\ q = r)
  <2>1. /\ a \o <<r>> \in Seq(Requests) /\ Elements(a \o <<r>>) = Elements(a) \cup Elements(<<r>>)
        /\ \A x, y : Before(a \o <<r>>, x, y) =>
              \/ Before(a, x, y) \/ Before(<<r>>, x, y)
              \/ x \in Elements(a) /\ y \in Elements(<<r>>)
    BY <1>1, <1>7, ConcatLists
  <2> QED BY <1>7, <2>1
<1> DEFINE c == a \o <<r>>
<1> HIDE DEF c
<1>9. /\ c \o b \in Seq(Requests) /\ Elements(c \o b) = Elements(c) \cup Elements(b)
      /\ \A x, y : Before(c \o b, x, y) =>
            \/ Before(c, x, y) \/ Before(b, x, y)
            \/ x \in Elements(c) /\ y \in Elements(b)
  <2>1. c \in Seq(Requests)
    BY <1>8 DEF c
  <2> QED BY <1>1, <2>1, ConcatLists
<1>10. Elements(c) = Elements(a) \cup {r} /\ Enlisted(r) = c \o b
  BY <1>6, <1>8 DEF c
<1>11. Elements(Enlisted(r)) = Elements(pending) \cup {r}
  BY <1>1, <1>4, <1>9, <1>10
<1>12. ASSUME NEW p \in Requests, NEW q \in Requests, Before(Enlisted(r), p, q)
       PROVE  \/ Before(pending, p, q)
              \/ RankOf[p] < RankOf[q]
              \/ p \in Elements(pending) /\ q = r /\ RankOf[p] <= RankOf[r]
  <2>1. CASE Before(c, p, q)
    <3>1. Before(a, p, q) \/ (p \in Elements(a) /\ q = r)
      BY <1>8, <2>1 DEF c
    <3> QED BY <1>1, <1>2, <1>5, <3>1
  <2>2. CASE Before(b, p, q)
    BY <1>2, <2>2
  <2>3. CASE p \in Elements(c) /\ q \in Elements(b)
    <3>1. (p \in Requests \ later \/ p = r) /\ q \in Requests \ sooner
      BY <1>1, <1>10, <2>3
    <3> QED BY <1>5, <3>1
  <2> QED BY <1>9, <1>10, <1>12, <2>1, <2>2, <2>3
<1> QED BY <1>9, <1>10, <1>11, <1>12

LEMMA AcceptLists ==
  ASSUME ListInv, NEW r \in Requests, Accept(r)
  PROVE  ListInv'
<1>1. /\ answer[r] = "none" /\ ~IdActive(r) /\ Record(r, "queued")
      /\ pending' = Enlisted(r)
      /\ answer' = [answer EXCEPT ![r] = "open"]
      /\ UNCHANGED <<running, cancelled, timedOut>>
  BY DEF Accept
<1>2. Adds(r, "queued") /\ "queued" \in Statuses /\ "queued" \notin Terminal
  BY <1>1, RecordAdds DEF Statuses, Terminal
<1>3. DOMAIN status = Requests /\ DOMAIN answer = Requests /\ pending \in Seq(Requests)
  BY DEF ListInv, Lists
<1>4. /\ pending' \in Seq(Requests) /\ Elements(pending') = Elements(pending) \cup {r}
      /\ \A p, q \in Requests : Before(pending', p, q) =>
            \/ Before(pending, p, q)
            \/ RankOf[p] < RankOf[q]
            \/ p \in Elements(pending) /\ q = r /\ RankOf[p] <= RankOf[r]
  BY <1>1, <1>3, EnlistedLists
<1>5. Lists'
  BY <1>1, <1>2, <1>4 DEF ListInv, Lists, Adds
<1>6. UntakenIsUnknown'
  BY <1>1, <1>2, <1>3 DEF ListInv, UntakenIsUnknown, Adds
<1>7. RecordFitsAnswer'
  <2>1. \A q \in Requests \ {r} : Same(q)
    BY <1>1, <1>2, <1>3, <1>4 DEF Same, Adds
  <2>2. Tells(r)'
    <3>1. status'[r] = "queued" /\ answer'[r] = "open" /\ r \in Elements(pending')
      BY <1>1, <1>2, <1>3, <1>4 DEF Adds
    <3> QED BY <1>1, <1>2, <3>1, UntakenIsPassive DEF Tells
  <2> QED BY <2>1, <2>2, TellsIfSame
<1>8. ActiveIsListed'
  BY <1>1, <1>2, <1>4 DEF ActiveIsListed, Adds, Active
<1>9. Sorted'
  <2> SUFFICES ASSUME NEW p \in Requests, NEW q \in Requests, Before(pending', p, q)
               PROVE  RankOf[p] < RankOf[q] \/ (RankOf[p] = RankOf[q] /\ Before(records', p, q))
    BY DEF Sorted
  <2>1. RankOf[p] \in Nat /\ RankOf[q] \in Nat
    BY SpecAssumption
  <2>2. CASE Before(pending, p, q)
    <3>1. p \in Active /\ q \in Active
      BY <1>3, <2>2, BeforeListed DEF Active
    <3>2. Before(records, p, q) => Before(records', p, q)
      BY <1>2, <3>1 DEF Adds
    <3> QED BY <2>2, <3>2 DEF ListInv, Sorted
  <2>3. CASE p \in Elements(pending) /\ q = r /\ RankOf[p] <= RankOf[r]
    <3>1. Before(records', p, r)
      BY <1>2, <2>3 DEF Adds, Active
    <3> QED BY <2>1, <2>3, <3>1
  <2> QED BY <1>4, <2>2, <2>3
<1> QED BY <1>5, <1>6, <1>7, <1>8, <1>9 DEF ListInv

(* A request leaves the queue, to start or because it was cancelled.       *)
LEMMA LeavesQueue ==
  ASSUME ListInv, NEW r \in Elements(pending)
  PROVE  /\ r \in Requests /\ r \in Active /\ r \notin running
         /\ Without(pending, {r}) \in Seq(Requests)
         /\ Elements(Without(pending, {r})) = Elements(pending) \ {r}
         /\ \A p, q : Before(Without(pending, {r}), p, q) => Before(pending, p, q)
         /\ status[r] = "queued" /\ r \notin cancelled \cup timedOut
         /\ answer[r] = "open"
<1>1. pending \in Seq(Requests) /\ r \in Requests
  BY ElementsOfSeq DEF ListInv, Lists
<1>2. Tells(r)
  BY <1>1, TellsAll DEF ListInv
<1>3. status[r] = "queued" /\ r \notin running /\ r \notin cancelled \cup timedOut
  BY <1>2 DEF Tells
<1>4. answer[r] = "open"
  BY <1>2, <1>3 DEF Tells
<1> QED BY <1>1, <1>3, <1>4, WithoutFollows, WithoutElements, WithoutBefore DEF Active

LEMMA StartLists ==
  ASSUME ListInv, NEW r \in Requests, Start(r)
  PROVE  ListInv'
<1>1. /\ r \in Elements(pending) /\ pending' = Without(pending, {r}) /\ running' = running \cup {r}
      /\ Update(IdOf[r], "running") /\ UNCHANGED <<cancelled, timedOut, answer>>
  BY DEF Start, IsNext, Elements
<1>2. Marks(r, "running") /\ "running" \in Statuses /\ "running" \notin Terminal
  BY <1>1, LeavesQueue, UpdateMarks DEF Statuses, Terminal
<1>3. /\ DOMAIN status = Requests /\ pending' \in Seq(Requests)
      /\ Elements(pending') = Elements(pending) \ {r}
      /\ \A p, q : Before(pending', p, q) => Before(pending, p, q)
  BY <1>1, LeavesQueue DEF ListInv, Lists
<1>4. Lists'
  BY <1>1, <1>2, <1>3 DEF ListInv, Lists, Marks
<1>5. UntakenIsUnknown'
  BY <1>1, <1>2, <1>3, LeavesQueue DEF ListInv, UntakenIsUnknown, Marks
<1>6. RecordFitsAnswer'
  <2>1. \A q \in Requests \ {r} : Same(q)
    BY <1>1, <1>2, <1>3 DEF Same, Marks
  <2>2. Tells(r)'
    <3>1. /\ status'[r] = "running" /\ r \in running' /\ r \notin Elements(pending')
          /\ answer'[r] = "open" /\ r \notin cancelled' \cup timedOut'
      BY <1>1, <1>2, <1>3, LeavesQueue DEF Marks
    <3> QED BY <3>1 DEF Tells
  <2> QED BY <2>1, <2>2, TellsIfSame
<1>7. ActiveIsListed'
  <2>1. \A q \in running' \cup Elements(pending') : q \in Active
    BY <1>1, <1>3 DEF Active
  <2> QED BY <1>2, <2>1 DEF ActiveIsListed, Marks
<1>8. Sorted'
  <2>1. \A q \in Elements(pending') : q \in Active
    BY <1>3 DEF Active
  <2> QED BY <1>2, <1>3, <2>1, SortedIfKept DEF Marks
<1> QED BY <1>4, <1>5, <1>6, <1>7, <1>8 DEF ListInv

LEMMA CancelPendingLists ==
  ASSUME ListInv, NEW r \in Requests, CancelPending(r)
  PROVE  ListInv'
<1>1. /\ r \in Elements(pending) /\ r \in Cancellable /\ pending' = Without(pending, {r})
      /\ answer' = [answer EXCEPT ![r] = "rejected"]
      /\ Update(IdOf[r], "cancelled") /\ UNCHANGED <<running, cancelled, timedOut>>
  BY DEF CancelPending
<1>2. Marks(r, "cancelled") /\ "cancelled" \in Statuses /\ "cancelled" \in Terminal
  BY <1>1, LeavesQueue, UpdateMarks DEF Statuses, Terminal
<1>3. /\ DOMAIN status = Requests /\ DOMAIN answer = Requests /\ pending' \in Seq(Requests)
      /\ Elements(pending') = Elements(pending) \ {r}
      /\ \A p, q : Before(pending', p, q) => Before(pending, p, q)
  BY <1>1, LeavesQueue DEF ListInv, Lists
<1>4. Lists'
  BY <1>1, <1>2, <1>3 DEF ListInv, Lists, Marks
<1>5. UntakenIsUnknown'
  BY <1>1, <1>2, <1>3 DEF ListInv, UntakenIsUnknown, Marks
<1>6. RecordFitsAnswer'
  <2>1. \A q \in Requests \ {r} : Same(q)
    BY <1>1, <1>2, <1>3 DEF Same, Marks
  <2>2. Tells(r)'
    <3>1. /\ status'[r] = "cancelled" /\ answer'[r] = "rejected" /\ r \notin Elements(pending')
          /\ r \notin running' /\ r \notin cancelled' \cup timedOut'
      BY <1>1, <1>2, <1>3, LeavesQueue DEF Marks
    <3> QED BY <1>1, <3>1 DEF Tells
  <2> QED BY <2>1, <2>2, TellsIfSame
<1>7. \A q \in running' \cup Elements(pending') : q \in Active /\ q /= r
  BY <1>1, <1>3, LeavesQueue DEF Active
<1>8. ActiveIsListed'
  BY <1>2, <1>7 DEF ActiveIsListed, Marks
<1>9. Sorted'
  BY <1>2, <1>3, <1>7, SortedIfKept DEF Marks
<1> QED BY <1>4, <1>5, <1>6, <1>8, <1>9 DEF ListInv

(* The other steps leave the queue and its history alone.                  *)
LEMMA OtherListsKept ==
  ASSUME ListInv,
         UNCHANGED <<pending, running, cancelled, timedOut, records, status, latest, answer>>
  PROVE  ListInv'
<1>1. Lists' /\ UntakenIsUnknown'
  BY DEF ListInv, Lists, UntakenIsUnknown
<1>2. RecordFitsAnswer' /\ ActiveIsListed' /\ Sorted'
  BY DEF ListInv, RecordFitsAnswer, ActiveIsListed, Sorted
<1> QED BY <1>1, <1>2 DEF ListInv

(* Initially, and after every step.                                        *)
LEMMA InitLists == Init => ListInv
<1> SUFFICES ASSUME Init PROVE ListInv
  OBVIOUS
<1>1. /\ pending = <<>> /\ records = <<>> /\ running = {} /\ cancelled = {} /\ timedOut = {}
      /\ status = [r \in Requests |-> "none"] /\ latest = [i \in Ids |-> None]
      /\ answer = [r \in Requests |-> "none"]
  BY DEF Init
<1>2. Elements(pending) = {} /\ \A r, q : ~Before(pending, r, q)
  BY <1>1 DEF Elements, Before
<1>3. Lists /\ UntakenIsUnknown
  BY <1>1 DEF Lists, UntakenIsUnknown, Statuses, Index
<1>4. RecordFitsAnswer /\ ActiveIsListed /\ Sorted
  BY <1>1, <1>2 DEF RecordFitsAnswer, ActiveIsListed, Sorted, Terminal
<1> QED BY <1>3, <1>4 DEF ListInv

LEMMA StepLists == ListInv /\ [Next]_vars => ListInv'
<1> SUFFICES ASSUME ListInv, [Next]_vars PROVE ListInv'
  OBVIOUS
<1> DEFINE Kept ==
      UNCHANGED <<pending, running, cancelled, timedOut, records, status, latest, answer>>
<1>1. Kept => ListInv'
  BY OtherListsKept
<1>2. ASSUME NEW r \in Requests, Refuse(r) \/ Join(r) \/ Accept(r) PROVE ListInv'
  BY <1>2, RefuseLists, JoinLists, AcceptLists
<1>3. ASSUME NEW r \in Requests, Settle(r, TRUE) \/ Settle(r, FALSE) PROVE ListInv'
  BY <1>3, SettleLists
<1>4. ASSUME NEW r \in Requests, Clear(r) PROVE ListInv'
  BY <1>1, <1>4 DEF Clear
<1>5. ASSUME NEW r \in Requests, CancelRunning(r) \/ CancelPending(r) \/ Timeout(r)
      PROVE  ListInv'
  BY <1>5, CancelRunningLists, CancelPendingLists
<1>6. CASE Advance
  <2>1. ASSUME NEW r \in Requests \cup {None}, PumpReturns(r) PROVE ListInv'
    BY <1>1, <2>1 DEF PumpReturns
  <2>2. ASSUME NEW r \in Requests, Return(r) PROVE ListInv'
    BY <1>1, <2>2 DEF Return
  <2> QED BY <1>6, <2>1, <2>2, StartLists DEF Advance
<1>7. CASE UNCHANGED vars
  BY <1>1, <1>7 DEF vars
<1> QED BY <1>2, <1>3, <1>4, <1>5, <1>6, <1>7 DEF Next

\* The inductive invariant of queue, history and callers.
THEOREM ListInvHolds == Spec => []ListInv
  BY InitLists, StepLists, PTL DEF Spec

\* However the history is trimmed, a waiting or running request stays listed,
\* as the latest record of its id.
THEOREM ActiveIsListedHolds == Spec => []ActiveIsListed
<1>1. ListInv => ActiveIsListed
  BY DEF ListInv
<1> QED BY ListInvHolds, <1>1, PTL

\* A request's record follows that request through queue and work, and its last
\* status fits what the caller got: "succeeded" a promise that resolved,
\* "failed" and "timeout" one that rejected, and "cancelled", which only a
\* request that may be cancelled gets, either.
THEOREM RecordFitsAnswerHolds == Spec => []RecordFitsAnswer
<1>1. ListInv => RecordFitsAnswer
  BY DEF ListInv
<1> QED BY ListInvHolds, <1>1, PTL

(* Only a request that starts is new among those at work.                  *)
LEMMA OnlyStartRuns ==
  ASSUME [Next]_vars, NEW r \in running' \ running
  PROVE  r \in Requests /\ Start(r)
<1>1. ASSUME NEW q \in Requests, Refuse(q) \/ Join(q) \/ Accept(q) PROVE running' = running
  BY <1>1 DEF Refuse, Join, Accept
<1>2. ASSUME NEW q \in Requests, Settle(q, TRUE) \/ Settle(q, FALSE)
      PROVE  running' \subseteq running
  BY <1>2 DEF Settle
<1>3. ASSUME NEW q \in Requests, Clear(q) \/ CancelRunning(q) \/ CancelPending(q) \/ Timeout(q)
      PROVE  running' = running
  BY <1>3 DEF Clear, CancelRunning, CancelPending, Timeout
<1>4. ASSUME NEW q \in Requests \cup {None}, PumpReturns(q) PROVE running' = running
  BY <1>4 DEF PumpReturns
<1>5. ASSUME NEW q \in Requests, Return(q) PROVE running' = running
  BY <1>5 DEF Return
<1>6. ASSUME NEW q \in Requests, Start(q) PROVE running' = running \cup {q}
  BY <1>6 DEF Start
<1>7. CASE UNCHANGED vars
  BY <1>7 DEF vars
<1>8. CASE Advance
  BY <1>4, <1>5, <1>6, <1>8 DEF Advance
<1> QED BY <1>1, <1>2, <1>3, <1>7, <1>8 DEF Next

LEMMA StartOvertakesNone ==
  ASSUME ListInv, NEW r \in Requests, Start(r),
         NEW q \in Elements(pending) \ {r}, CanRun(q)
  PROVE  RankOf[r] < RankOf[q] \/ (RankOf[r] = RankOf[q] /\ CameFirst(r, q))
<1>1. /\ pending \in Seq(Requests) /\ records \in Seq(Requests) /\ q \in Requests
      /\ DOMAIN pending = 1..Len(pending) /\ DOMAIN records = 1..Len(records)
      /\ Len(pending) \in Nat
  BY ElementsOfSeq, LenProperties DEF ListInv, Lists
<1>2. PICK i \in 1..Len(pending) :
         pending[i] = r /\ \A j \in 1..(i - 1) : ~CanRun(pending[j])
  BY <1>1 DEF Start, IsNext
<1>3. PICK j \in 1..Len(pending) : pending[j] = q
  BY <1>1 DEF Elements
<1>4. j \notin 1..(i - 1) /\ j /= i
  BY <1>2, <1>3
<1>5. i < j
  BY <1>1, <1>4
<1>6. Before(pending, r, q)
  BY <1>2, <1>3, <1>5 DEF Before
<1>7. Before(records, r, q) => CameFirst(r, q)
  BY <1>1 DEF Before, CameFirst
<1> QED BY <1>1, <1>6, <1>7 DEF ListInv, Sorted

\* No request starts before an earlier one of its rank, or one of a higher
\* rank, that waits and could run.
THEOREM NoOvertakingHolds == Spec => NoOvertaking
<1> DEFINE Fair ==
      \A r \in running' \ running : \A q \in Elements(pending) \ {r} :
          CanRun(q) => RankOf[r] < RankOf[q] \/ (RankOf[r] = RankOf[q] /\ CameFirst(r, q))
<1>1. ListInv /\ [Next]_vars => [Fair]_vars
  BY OnlyStartRuns, StartOvertakesNone
<1>2. NoOvertaking <=> [][Fair]_vars
  BY PTL DEF NoOvertaking
<1> HIDE DEF Fair
<1> QED BY ListInvHolds, <1>1, <1>2, PTL DEF Spec

-----------------------------------------------------------------------------
(* The promises given and registered are those of requests.                *)
Promises ==
    /\ coalesced \in [CoalesceKeys -> Requests \cup {None}]
    /\ clearing \subseteq Requests
    /\ promise \in [Requests -> Requests \cup {None}]

LEMMA StepPromises == Promises /\ [Next]_vars => Promises'
<1> SUFFICES ASSUME Promises, [Next]_vars PROVE Promises'
  OBVIOUS
<1> USE SpecAssumption DEF Promises
<1>1. CASE UNCHANGED <<coalesced, clearing, promise>>
  BY <1>1
<1>2. ASSUME NEW r \in Requests, Refuse(r) \/ CancelRunning(r) \/ Timeout(r) PROVE Promises'
  BY <1>2 DEF Refuse, CancelRunning, Timeout
<1>3. ASSUME NEW r \in Requests, Join(r) \/ Accept(r) PROVE Promises'
  <2>1. Shared(r) \in Requests \cup {None}
    BY DEF Shared
  <2>2. /\ UNCHANGED <<coalesced, clearing>>
        /\ \E p \in Requests \cup {None} : promise' = [promise EXCEPT ![r] = p]
    BY <1>3, <2>1 DEF Join, Accept
  <2> QED BY <2>2
<1>4. ASSUME NEW r \in Requests, Settle(r, TRUE) \/ Settle(r, FALSE) \/ CancelPending(r)
      PROVE  Promises'
  BY <1>4 DEF Settle, CancelPending
<1>5. ASSUME NEW r \in Requests, Clear(r) PROVE Promises'
  BY <1>5 DEF Clear
<1>6. ASSUME NEW r \in Requests \cup {None}, PumpReturns(r) PROVE Promises'
  BY <1>6 DEF PumpReturns
<1>7. ASSUME NEW r \in Requests, Start(r) \/ Return(r) PROVE Promises'
  BY <1>7 DEF Start, Return
<1>8. CASE Advance
  BY <1>6, <1>7, <1>8 DEF Advance
<1>9. CASE UNCHANGED vars
  BY <1>9 DEF vars
<1> QED BY <1>2, <1>3, <1>4, <1>5, <1>8, <1>9 DEF Next

-----------------------------------------------------------------------------
(* The history is as short as it may be: a trim that leaves a finished     *)
(* record has dropped as many as there were too many.                      *)
LEMMA TrimIsEnough ==
  ASSUME NEW recs \in Seq(Requests), NEW st,
         NEW r \in Elements(Without(recs, Dropped(recs, st))), st[r] \in Terminal
  PROVE  Len(Without(recs, Dropped(recs, st))) <= HistoryLimit
<1> DEFINE n == Len(recs)
           L == HistoryLimit
           D == Dropped(recs, st)
           T == {j \in 1..n : st[recs[j]] \in Terminal}
           P == {i \in T : Place(T, i) + L <= n}
<1>1. /\ n \in Nat /\ L \in Nat /\ DOMAIN recs = 1..n /\ T \in SUBSET (1..n) /\ P \in SUBSET (1..n)
      /\ IsFiniteSet(1..n) /\ Cardinality(1..n) = n
  <2>1. n \in Nat /\ L \in Nat /\ DOMAIN recs = 1..n
    BY LenProperties, LimitsAssumption
  <2>2. IsFiniteSet(1..n) /\ Cardinality(1..n) = n
    <3> HIDE DEF n
    <3> QED BY <2>1, FS_Interval
  <2>3. T \in SUBSET (1..n) /\ P \in SUBSET T
    OBVIOUS
  <2> HIDE DEF n, L, T, P
  <2> QED BY <2>1, <2>2, <2>3
<1>2. ASSUME NEW i \in T, Place(T, i) + L <= n
      PROVE  recs[i] \in D
  <2>1. {j \in T : j <= i} = {j \in 1..i : st[recs[j]] \in Terminal}
    <3>1. i \in 1..n /\ \A j \in 1..i : j \in 1..n /\ j <= i
      BY <1>1
    <3>2. \A j \in 1..n : j <= i => j \in 1..i
      BY <1>1
    <3> QED BY <3>1, <3>2
  <2>2. Cardinality({j \in 1..i : st[recs[j]] \in Terminal}) + HistoryLimit <= Len(recs)
    BY <1>2, <2>1 DEF Place
  <2>3. recs[i] \in Elements(recs) /\ st[recs[i]] \in Terminal /\ i \in DOMAIN recs
    BY <1>1 DEF Elements
  <2> QED BY <2>2, <2>3 DEF Dropped
<1>3. /\ Left(recs, D) \in SUBSET ((1..n) \ P)
      /\ Len(Without(recs, D)) = Cardinality(Left(recs, D))
  <2>1. Left(recs, D) \in SUBSET ((1..n) \ P)
    <3> HIDE DEF D
    <3> QED BY <1>2 DEF Left
  <2> QED BY <2>1, WithoutFollows
<1>4. PICK i \in T : ~(Place(T, i) + L <= n)
  <2>1. r \in Elements(recs) /\ r \notin D
    BY WithoutElements
  <2>2. PICK i \in 1..n : recs[i] = r
    BY <1>1, <2>1 DEF Elements
  <2> HIDE DEF D
  <2> QED BY <1>2, <2>1, <2>2
<1> HIDE DEF D, n, L
<1>5. /\ IsFiniteSet(T) /\ Cardinality(T) \in Nat /\ Place(T, i) \in 1..Cardinality(T)
  <2> HIDE DEF T
  <2> QED BY <1>1, <1>4, PlacesGrow
<1>6. IsFiniteSet(P) /\ Cardinality(P) \in Nat
  <2> HIDE DEF P
  <2> QED BY <1>1, FS_Subset, FS_CardinalityType
<1>7. /\ IsFiniteSet((1..n) \ P) /\ Cardinality((1..n) \ P) = n - Cardinality(P)
      /\ Cardinality(Left(recs, D)) <= Cardinality((1..n) \ P)
      /\ Cardinality(Left(recs, D)) \in Nat /\ Cardinality((1..n) \ P) \in Nat
  <2> HIDE DEF P
  <2>0. P \in SUBSET (1..n)
    BY <1>1
  <2>1. (1..n) \cap P = P
    BY <2>0, Zenon
  <2>2. IsFiniteSet((1..n) \ P) /\ Cardinality((1..n) \ P) = n - Cardinality(P)
    <3> DEFINE N == 1..n
    <3>1. IsFiniteSet(N) /\ Cardinality(N) = n /\ N \cap P = P
      BY <1>1, <2>1
    <3> HIDE DEF N
    <3>2. IsFiniteSet(N \ P) /\ Cardinality(N \ P) = Cardinality(N) - Cardinality(N \cap P)
      BY <3>1, FS_Difference
    <3> QED BY <3>1, <3>2 DEF N
  <2> QED BY <1>3, <2>2, FS_Subset, FS_CardinalityType
<1>8. CASE n <= L
  BY <1>1, <1>3, <1>6, <1>7, <1>8 DEF D, L
<1>9. CASE ~(n <= L)
  <2> DEFINE c == n - L
             g == [k \in 1..c |-> CHOOSE j \in T : Place(T, j) = k]
  <2>1. c \in Nat /\ c < Place(T, i)
    BY <1>1, <1>4, <1>5, <1>9
  <2>2. ASSUME NEW k \in 1..c PROVE \E j \in T : Place(T, j) = k
    <3>1. k \in 1..Cardinality(T)
      BY <1>5, <2>1
    <3> HIDE DEF T
    <3> QED BY <1>1, <3>1, PlacesAreAll
  <2>3. ASSUME NEW k \in 1..c PROVE g[k] \in T /\ Place(T, g[k]) = k
    <3> HIDE DEF T
    <3> QED BY <2>2
  <2>4. \A k \in 1..c : k + L <= n
    BY <1>1
  <2> HIDE DEF c
  <2>5. g \in [1..c -> P]
    <3>1. \A k \in 1..c : g[k] \in P
      BY <2>3, <2>4
    <3> HIDE DEF P
    <3> QED BY <3>1
  <2>6. g \in Injection(1..c, P)
    <3>1. \A k, l \in 1..c : g[k] = g[l] => k = l
      BY <2>3
    <3> HIDE DEF g, P
    <3> QED BY <2>5, <3>1 DEF Injection, IsInjective
  <2>7. Cardinality(1..c) <= Cardinality(P) /\ Cardinality(1..c) = c
    <3> HIDE DEF g, P
    <3> QED BY <1>6, <2>1, <2>6, FS_Injection, FS_Interval
  <2>8. n - Cardinality(P) <= L
    <3> HIDE DEF P
    <3> QED BY <1>1, <1>6, <2>1, <2>7 DEF c
  <2> HIDE DEF P
  <2> QED BY <1>1, <1>3, <1>6, <1>7, <2>8 DEF D, L
<1> QED BY <1>8, <1>9

(* A history over its limit lists nothing that has finished.               *)
HistoryIsShort ==
    Len(records) <= HistoryLimit \/ \A r \in Elements(records) : status[r] \notin Terminal

LEMMA TrimmedIsShort ==
  ASSUME NEW recs \in Seq(Requests), NEW st, NEW index, History(recs, st, index)
  PROVE  HistoryIsShort'
<1>1. records' = Without(recs, Dropped(recs, st)) /\ status' = st
  BY DEF History
<1>2. ASSUME NEW r \in Elements(records'), status'[r] \in Terminal
      PROVE  Len(records') <= HistoryLimit
  BY <1>1, <1>2, TrimIsEnough
<1> QED BY <1>2 DEF HistoryIsShort

LEMMA StepShort == ListInv /\ HistoryIsShort /\ [Next]_vars => HistoryIsShort'
<1> SUFFICES ASSUME ListInv, HistoryIsShort, [Next]_vars PROVE HistoryIsShort'
  OBVIOUS
<1>1. UNCHANGED <<records, status>> => HistoryIsShort'
  BY DEF HistoryIsShort
<1>2. records \in Seq(Requests)
  BY DEF ListInv, Lists
<1>3. ASSUME NEW id, NEW s, Update(id, s) PROVE HistoryIsShort'
  BY <1>2, <1>3, TrimmedIsShort DEF Update
<1>4. ASSUME NEW r \in Requests, NEW s, Record(r, s) PROVE HistoryIsShort'
  <2>1. Append(records, r) \in Seq(Requests)
    BY <1>2, AppendProperties
  <2> QED BY <1>4, <2>1, TrimmedIsShort DEF Record
<1>5. ASSUME NEW r \in Requests, Refuse(r) \/ Clear(r) PROVE HistoryIsShort'
  BY <1>1, <1>5 DEF Refuse, Clear
<1>6. ASSUME NEW r \in Requests, Join(r) \/ Accept(r) PROVE HistoryIsShort'
  BY <1>4, <1>6 DEF Join, Accept
<1>7. ASSUME NEW r \in Requests, Settle(r, TRUE) \/ Settle(r, FALSE) PROVE HistoryIsShort'
  BY <1>3, <1>7 DEF Settle
<1>8. ASSUME NEW r \in Requests, CancelRunning(r) \/ CancelPending(r) \/ Timeout(r)
      PROVE  HistoryIsShort'
  BY <1>3, <1>8 DEF CancelRunning, CancelPending, Timeout
<1>9. CASE Advance
  <2>1. ASSUME NEW r \in Requests \cup {None}, PumpReturns(r) PROVE HistoryIsShort'
    BY <1>1, <2>1 DEF PumpReturns
  <2>2. ASSUME NEW r \in Requests, Return(r) PROVE HistoryIsShort'
    BY <1>1, <2>2 DEF Return
  <2>3. ASSUME NEW r \in Requests, Start(r) PROVE HistoryIsShort'
    BY <1>3, <2>3 DEF Start
  <2> QED BY <1>9, <2>1, <2>2, <2>3 DEF Advance
<1>10. CASE UNCHANGED vars
  BY <1>1, <1>10 DEF vars
<1> QED BY <1>5, <1>6, <1>7, <1>8, <1>9, <1>10 DEF Next

\* Whatever settles and in whatever order, the history exceeds its limit only
\* by records of requests that are waiting or at work.
THEOREM HistoryIsShortHolds == Spec => []HistoryIsShort
<1>1. Init => HistoryIsShort
  BY LimitsAssumption DEF Init, HistoryIsShort, Elements
<1> QED BY ListInvHolds, StepShort, <1>1, PTL DEF Spec

\* Every variable has its type.
THEOREM TypeCorrect == Spec => []TypeOK
<1>1. Init => Promises
  BY SpecAssumption DEF Init, Promises
<1>2. ListInv /\ AccessInv /\ IdleInv /\ Promises => TypeOK
  <2> SUFFICES ASSUME ListInv, AccessInv, IdleInv, Promises PROVE TypeOK
    OBVIOUS
  <2>1. keyCount \in [Keys -> Nat]
    BY DEF AccessInv, CountsTell
  <2>2. stack \in Seq([call : {"pump", "run"}, req : Requests \cup {None}])
    BY DEF IdleInv, PumpAtBottom, Frame
  <2> QED BY <2>1, <2>2 DEF TypeOK, Promises, ListInv, Lists, Statuses, Index
<1> QED BY ListInvHolds, InitAccess, StepAccess, InitIdle, StepIdle, <1>1, StepPromises, <1>2,
           PTL DEF Spec

-----------------------------------------------------------------------------
(* Promises.  Those that are open are the active requests', so that each   *)
(* settles once; and one that is registered under a coalesce key, or will  *)
(* be by the enqueue() that pumps, is open or waits for its clear reaction.*)
OpenIsActive == \A r \in Requests : answer[r] = "open" <=> r \in Active

Registers(r) == Pump(r) \in Elements(stack)
WillClear(r) == answer[r] = "open" \/ r \in clearing
WillClearNext(r) == answer'[r] = "open" \/ r \in clearing'

KeysAreCleared ==
    /\ \A k \in CoalesceKeys : coalesced[k] /= None =>
          CoalesceKeyOf[coalesced[k]] = k /\ WillClear(coalesced[k])
    /\ \A r \in Requests : Registers(r) /\ CoalesceKeyOf[r] /= None => WillClear(r)
    /\ \A r \in clearing : CoalesceKeyOf[r] /= None /\ answer[r] \in {"resolved", "rejected"}

\* A request that has joined shares the promise of one that was taken.
JoinsLive ==
    \A r \in Requests : answer[r] = "joined" =>
        promise[r] \in Requests /\ answer[promise[r]] \in {"open", "resolved", "rejected"}

(* What a step may do to the promise of a request.                         *)
Moves(r) ==
    /\ answer[r] \notin {"none", "open"} => answer'[r] = answer[r]
    /\ answer[r] /= "none" => promise'[r] = promise[r]
    /\ answer[r] = "open" =>
          /\ answer'[r] \in {"open", "resolved", "rejected"}
          /\ answer'[r] = "open" \/ CoalesceKeyOf[r] = None \/ r \in clearing'

LEMMA StepMoves ==
  ASSUME ListInv, OpenIsActive, Promises, [Next]_vars, NEW q \in Requests
  PROVE  Moves(q)
<1> USE DEF Moves
<1>1. DOMAIN answer = Requests /\ DOMAIN promise = Requests
  BY DEF ListInv, Lists, Promises
<1>2. UNCHANGED <<answer, promise>> => Moves(q)
  OBVIOUS
<1>3. ASSUME NEW r \in Requests, Refuse(r) \/ Join(r) \/ Accept(r) PROVE Moves(q)
  <2>1. answer[r] = "none" /\ \E a, p : answer' = [answer EXCEPT ![r] = a] /\ promise' = [promise EXCEPT ![r] = p]
    <3>1. CASE Refuse(r)
      <4>1. promise' = [promise EXCEPT ![r] = promise[r]]
        BY <1>1, <3>1 DEF Refuse, Promises
      <4> QED BY <3>1, <4>1 DEF Refuse
    <3>2. CASE Join(r) \/ Accept(r)
      BY <3>2 DEF Join, Accept
    <3> QED BY <1>3, <3>1, <3>2
  <2> QED BY <1>1, <2>1
<1>4. ASSUME NEW r \in Requests, NEW ok \in BOOLEAN, Settle(r, ok) PROVE Moves(q)
  <2>1. answer[r] = "open"
    BY <1>4 DEF Settle, OpenIsActive, Active
  <2>2. answer' = [answer EXCEPT ![r] = Outcome(r, ok)] /\ Outcome(r, ok) \in {"resolved", "rejected"}
        /\ UNCHANGED promise /\ (CoalesceKeyOf[r] = None \/ r \in clearing')
    BY <1>4 DEF Settle, Outcome
  <2> QED BY <1>1, <2>1, <2>2
<1>5. ASSUME NEW r \in Requests, CancelPending(r) PROVE Moves(q)
  <2>1. answer[r] = "open"
    BY <1>5 DEF CancelPending, OpenIsActive, Active
  <2>2. answer' = [answer EXCEPT ![r] = "rejected"]
        /\ UNCHANGED promise /\ (CoalesceKeyOf[r] = None \/ r \in clearing')
    BY <1>5 DEF CancelPending
  <2> QED BY <1>1, <2>1, <2>2
<1>6. ASSUME NEW r \in Requests, Clear(r) \/ CancelRunning(r) \/ Timeout(r) PROVE Moves(q)
  BY <1>2, <1>6 DEF Clear, CancelRunning, Timeout
<1>7. CASE Advance
  <2>1. ASSUME NEW r \in Requests \cup {None}, PumpReturns(r) PROVE Moves(q)
    BY <1>2, <2>1 DEF PumpReturns
  <2>2. ASSUME NEW r \in Requests, Start(r) \/ Return(r) PROVE Moves(q)
    BY <1>2, <2>2 DEF Start, Return
  <2> QED BY <1>7, <2>1, <2>2 DEF Advance
<1>8. CASE UNCHANGED vars
  BY <1>2, <1>8 DEF vars
<1> QED BY <1>3, <1>4, <1>5, <1>6, <1>7, <1>8 DEF Next

LEMMA StepOpen == ListInv /\ OpenIsActive /\ [Next]_vars => OpenIsActive'
<1> SUFFICES ASSUME ListInv, OpenIsActive, [Next]_vars PROVE OpenIsActive'
  OBVIOUS
<1> USE DEF OpenIsActive, Active
<1>1. DOMAIN answer = Requests /\ pending \in Seq(Requests)
  BY DEF ListInv, Lists
<1>2. CASE UNCHANGED <<answer, pending, running>>
  BY <1>2
<1>3. ASSUME NEW r \in Requests, Refuse(r) \/ Join(r) PROVE OpenIsActive'
  <2>1. /\ answer[r] = "none" /\ UNCHANGED <<pending, running>>
        /\ \E a \in {"refused", "joined"} : answer' = [answer EXCEPT ![r] = a]
    BY <1>3 DEF Refuse, Join
  <2> QED BY <1>1, <2>1
<1>4. ASSUME NEW r \in Requests, Accept(r) PROVE OpenIsActive'
  <2>1. answer' = [answer EXCEPT ![r] = "open"] /\ running' = running /\ pending' = Enlisted(r)
    BY <1>4 DEF Accept
  <2>2. Elements(pending') = Elements(pending) \cup {r}
    BY <1>1, <2>1, EnlistedLists
  <2> QED BY <1>1, <2>1, <2>2
<1>5. ASSUME NEW r \in Requests, NEW ok \in BOOLEAN, Settle(r, ok) PROVE OpenIsActive'
  <2>1. /\ r \in running /\ running' = running \ {r} /\ pending' = pending
        /\ answer' = [answer EXCEPT ![r] = Outcome(r, ok)] /\ Outcome(r, ok) /= "open"
    BY <1>5 DEF Settle, Outcome
  <2>2. r \notin Elements(pending)
    <3>1. Tells(r)
      BY TellsAll DEF ListInv
    <3> QED BY <2>1, <3>1 DEF Tells
  <2> QED BY <1>1, <2>1, <2>2
<1>6. ASSUME NEW r \in Requests, CancelPending(r) PROVE OpenIsActive'
  <2>1. /\ r \in Elements(pending) /\ running' = running /\ pending' = Without(pending, {r})
        /\ answer' = [answer EXCEPT ![r] = "rejected"]
    BY <1>6 DEF CancelPending
  <2>2. Elements(pending') = Elements(pending) \ {r} /\ r \notin running
    BY <2>1, LeavesQueue
  <2> QED BY <1>1, <2>1, <2>2
<1>7. ASSUME NEW r \in Requests, Start(r) PROVE OpenIsActive'
  <2>1. /\ r \in Elements(pending) /\ running' = running \cup {r} /\ pending' = Without(pending, {r})
        /\ answer' = answer
    BY <1>7 DEF Start, IsNext, Elements
  <2>2. Elements(pending') = Elements(pending) \ {r}
    BY <2>1, LeavesQueue
  <2> QED BY <1>1, <2>1, <2>2
<1>8. ASSUME NEW r \in Requests, Clear(r) \/ CancelRunning(r) \/ Timeout(r) PROVE OpenIsActive'
  BY <1>2, <1>8 DEF Clear, CancelRunning, Timeout
<1>9. CASE Advance
  <2>1. ASSUME NEW r \in Requests \cup {None}, PumpReturns(r) PROVE OpenIsActive'
    BY <1>2, <2>1 DEF PumpReturns
  <2>2. ASSUME NEW r \in Requests, Return(r) PROVE OpenIsActive'
    BY <1>2, <2>2 DEF Return
  <2> QED BY <1>7, <1>9, <2>1, <2>2 DEF Advance
<1>10. CASE UNCHANGED vars
  BY <1>2, <1>10 DEF vars
<1> QED BY <1>3, <1>4, <1>5, <1>6, <1>8, <1>9, <1>10 DEF Next

(* The calls that are in progress after a step.                            *)
LEMMA CallerLists ==
  ASSUME PumpAtBottom, stack /= <<>>
  PROVE  Caller \in Seq(Frame) /\ Elements(Caller) \subseteq Elements(stack)
<1> DEFINE n == Len(stack)
<1>1. n \in Nat \ {0} /\ DOMAIN stack = 1..n /\ stack \in Seq(Frame)
  BY EmptySeq, LenProperties DEF PumpAtBottom
<1>2. Caller \in Seq(Frame)
  BY CallerKeepsPump
<1>3. Caller = SubSeq(stack, 1, n - 1)
  BY DEF Caller
<1> HIDE DEF n
<1>4. Caller = [i \in 1..(n - 1) |-> stack[i]]
  <2>1. Caller = [i \in 1..((n - 1) - 1 + 1) |-> stack[i + 1 - 1]]
    BY <1>1, <1>3
  <2>2. (n - 1) - 1 + 1 = n - 1 /\ \A i \in 1..(n - 1) : i + 1 - 1 = i
    BY <1>1
  <2> QED BY <2>1, <2>2
<1>5. \A i \in 1..(n - 1) : i \in 1..n
  BY <1>1
<1> QED BY <1>1, <1>2, <1>4, <1>5 DEF Elements

LEMMA StepRegisters ==
  ASSUME PumpAtBottom, [Next]_vars, NEW q \in Requests, Registers(q)'
  PROVE  Registers(q) \/ Accept(q)
<1> USE DEF Registers
<1>1. \A r : Run(r) /= Pump(q) /\ (Pump(r) = Pump(q) => r = q)
  BY DEF Run, Pump
<1>2. Pump(None) /= Pump(q)
  BY <1>1, SpecAssumption
<1>3. stack \in Seq(Frame) /\ <<>> \in Seq(Frame) /\ Elements(<<>>) = {}
  BY EmptySeq DEF PumpAtBottom, Elements
<1>4. \A r \in Requests \cup {None} : Pump(r) \in Frame /\ Run(r) \in Frame
  BY DEF Pump, Run, Frame
<1>5. UNCHANGED stack => Registers(q)
  OBVIOUS
<1>6. ASSUME NEW r \in Requests, Accept(r) PROVE Registers(q) \/ Accept(q)
  <2>1. Elements(stack') = Elements(stack) \cup {Pump(r)}
    BY <1>3, <1>4, <1>6, AppendLists DEF Accept
  <2> QED BY <1>1, <1>6, <2>1
<1>7. ASSUME NEW r \in Requests, Start(r) PROVE Registers(q)
  <2>1. Elements(stack') = Elements(stack) \cup {Run(r)}
    BY <1>3, <1>4, <1>7, AppendLists DEF Start
  <2> QED BY <1>1, <2>1
<1>8. ASSUME NEW r \in Requests, CancelPending(r) PROVE Registers(q)
  <2>1. Elements(stack') = Elements(stack) \cup {Pump(None)}
    BY <1>3, <1>4, <1>8, AppendLists DEF CancelPending
  <2> QED BY <1>2, <2>1
<1>9. ASSUME NEW r \in Requests, NEW ok \in BOOLEAN, Settle(r, ok) PROVE Registers(q)
  <2> DEFINE s == IF stack = <<>> THEN <<>> ELSE Caller
  <2>1. s \in Seq(Frame) /\ Elements(s) \subseteq Elements(stack)
    BY <1>3, CallerLists
  <2>2. stack' = Append(s, Pump(None))
    BY <1>9 DEF Settle, AfterSettling
  <2> HIDE DEF s
  <2>3. Elements(stack') = Elements(s) \cup {Pump(None)}
    BY <1>4, <2>1, <2>2, AppendLists
  <2> QED BY <1>2, <2>1, <2>3
<1>10. ASSUME NEW r \in Requests \cup {None}, PumpReturns(r) \/ Return(r) PROVE Registers(q)
  <2>1. stack /= <<>> /\ stack' = Caller
    BY <1>10 DEF PumpReturns, Return, Inside
  <2> QED BY <2>1, CallerLists
<1>11. ASSUME NEW r \in Requests,
              Refuse(r) \/ Join(r) \/ Clear(r) \/ CancelRunning(r) \/ Timeout(r)
       PROVE  Registers(q)
  BY <1>5, <1>11 DEF Refuse, Join, Clear, CancelRunning, Timeout
<1>12. CASE Advance
  BY <1>7, <1>10, <1>12 DEF Advance
<1>13. CASE UNCHANGED vars
  BY <1>5, <1>13 DEF vars
<1> QED BY <1>6, <1>8, <1>9, <1>11, <1>12, <1>13 DEF Next

LEMMA ClearClears ==
  ASSUME Promises, KeysAreCleared, NEW r \in Requests, Clear(r)
  PROVE  KeysAreCleared'
<1>1. /\ stack = <<>> /\ UNCHANGED <<stack, answer>> /\ r \in clearing
      /\ clearing' = clearing \ {r} /\ clearing \subseteq Requests
      /\ coalesced' = IF Clears(r) THEN [coalesced EXCEPT ![CoalesceKeyOf[r]] = None] ELSE coalesced
  BY DEF Clear, Promises
<1>2. CoalesceKeyOf[r] \in CoalesceKeys /\ DOMAIN coalesced = CoalesceKeys
  BY <1>1, SpecAssumption DEF KeysAreCleared, Promises
<1>3. \A q : ~Registers(q)'
  BY <1>1 DEF Registers, Elements
<1>4. ASSUME NEW k \in CoalesceKeys, coalesced'[k] /= None
      PROVE  CoalesceKeyOf[coalesced'[k]] = k /\ WillClearNext(coalesced'[k])
  <2>1. coalesced'[k] = coalesced[k]
    BY <1>1, <1>2, <1>4
  <2>2. CoalesceKeyOf[coalesced[k]] = k /\ WillClear(coalesced[k])
    BY <1>4, <2>1 DEF KeysAreCleared
  <2>3. coalesced[k] /= r
    <3>1. coalesced[k] = r => Clears(r) /\ k = CoalesceKeyOf[r]
      BY <2>2 DEF Clears
    <3> QED BY <1>1, <1>2, <1>4, <3>1
  <2> QED BY <1>1, <2>1, <2>2, <2>3 DEF WillClear, WillClearNext
<1>5. \A q \in clearing' : CoalesceKeyOf[q] /= None /\ answer'[q] \in {"resolved", "rejected"}
  BY <1>1 DEF KeysAreCleared
<1> QED BY <1>3, <1>4, <1>5 DEF KeysAreCleared, WillClear, WillClearNext

(* What the other steps do with the registered promises and the reactions  *)
(* that wait.                                                              *)
Keeps ==
    /\ clearing \subseteq clearing'
    /\ \A k \in CoalesceKeys :
          \/ coalesced'[k] = coalesced[k]
          \/ \E q \in Requests : coalesced'[k] = q /\ Registers(q) /\ CoalesceKeyOf[q] = k
    /\ \A q \in clearing' \ clearing :
          CoalesceKeyOf[q] /= None /\ answer'[q] \in {"resolved", "rejected"}

LEMMA StepKeeps ==
  ASSUME ListInv, PumpAtBottom, Promises, [Next]_vars
  PROVE  Keeps \/ \E r \in Requests : Clear(r)
<1> USE DEF Keeps
<1>1. UNCHANGED <<coalesced, clearing>> => Keeps
  OBVIOUS
<1>2. DOMAIN answer = Requests /\ DOMAIN coalesced = CoalesceKeys
  BY DEF ListInv, Lists, Promises
<1>3. ASSUME NEW r \in Requests,
             Refuse(r) \/ Join(r) \/ Accept(r) \/ CancelRunning(r) \/ Timeout(r)
      PROVE  Keeps
  BY <1>1, <1>3 DEF Refuse, Join, Accept, CancelRunning, Timeout
<1>4. ASSUME NEW r \in Requests, NEW ok \in BOOLEAN, Settle(r, ok) PROVE Keeps
  <2>1. /\ answer' = [answer EXCEPT ![r] = Outcome(r, ok)] /\ Outcome(r, ok) \in {"resolved", "rejected"}
        /\ clearing' = IF CoalesceKeyOf[r] = None THEN clearing ELSE clearing \cup {r}
        /\ coalesced' = coalesced
    BY <1>4 DEF Settle, Outcome
  <2> QED BY <1>2, <2>1
<1>5. ASSUME NEW r \in Requests, CancelPending(r) PROVE Keeps
  <2>1. /\ answer' = [answer EXCEPT ![r] = "rejected"]
        /\ clearing' = IF CoalesceKeyOf[r] = None THEN clearing ELSE clearing \cup {r}
        /\ coalesced' = coalesced
    BY <1>5 DEF CancelPending
  <2> QED BY <1>2, <2>1
<1>6. ASSUME NEW r \in Requests \cup {None}, PumpReturns(r) PROVE Keeps
  <2>1. Inside(Pump(r)) /\ clearing' = clearing
        /\ coalesced' = IF r /= None /\ CoalesceKeyOf[r] /= None
                        THEN [coalesced EXCEPT ![CoalesceKeyOf[r]] = r] ELSE coalesced
    BY <1>6 DEF PumpReturns
  <2>2. Registers(r)
    <3>1. Len(stack) \in DOMAIN stack
      BY <2>1, EmptySeq, LenProperties DEF Inside, PumpAtBottom
    <3> QED BY <2>1, <3>1 DEF Inside, Registers, Elements
  <2>3. \A k \in CoalesceKeys : coalesced'[k] = coalesced[k]
           \/ (coalesced'[k] = r /\ r \in Requests /\ CoalesceKeyOf[r] = k)
    BY <1>2, <2>1
  <2> QED BY <2>1, <2>2, <2>3
<1>7. ASSUME NEW r \in Requests, Start(r) \/ Return(r) PROVE Keeps
  BY <1>1, <1>7 DEF Start, Return
<1>8. CASE Advance
  BY <1>6, <1>7, <1>8 DEF Advance
<1>9. CASE UNCHANGED vars
  BY <1>1, <1>9 DEF vars
<1> QED BY <1>3, <1>4, <1>5, <1>8, <1>9 DEF Next

LEMMA StepClears ==
  ListInv /\ PumpAtBottom /\ Promises /\ OpenIsActive /\ KeysAreCleared /\ [Next]_vars
     => KeysAreCleared'
<1> SUFFICES ASSUME ListInv, PumpAtBottom, Promises, OpenIsActive, KeysAreCleared, [Next]_vars
             PROVE  KeysAreCleared'
  OBVIOUS
<1>1. CASE \E r \in Requests : Clear(r)
  BY <1>1, ClearClears
<1>2. CASE Keeps
  <2>1. \A q \in Requests : Moves(q)
    BY StepMoves
  <2>2. ASSUME NEW q \in Requests, WillClear(q), CoalesceKeyOf[q] /= None
        PROVE  WillClearNext(q)
    BY <1>2, <2>1, <2>2 DEF WillClear, WillClearNext, Keeps, Moves
  <2>3. ASSUME NEW k \in CoalesceKeys, coalesced'[k] /= None
        PROVE  CoalesceKeyOf[coalesced'[k]] = k /\ WillClearNext(coalesced'[k])
    <3>1. k /= None
      BY SpecAssumption
    <3>2. CASE coalesced'[k] = coalesced[k]
      <4>1. coalesced[k] \in Requests /\ CoalesceKeyOf[coalesced[k]] = k /\ WillClear(coalesced[k])
        BY <2>3, <3>2 DEF KeysAreCleared, Promises
      <4> QED BY <2>2, <3>1, <3>2, <4>1
    <3>3. CASE \E q \in Requests : coalesced'[k] = q /\ Registers(q) /\ CoalesceKeyOf[q] = k
      <4>1. PICK q \in Requests : coalesced'[k] = q /\ Registers(q) /\ CoalesceKeyOf[q] = k
        BY <3>3
      <4>2. WillClear(q)
        BY <3>1, <4>1 DEF KeysAreCleared
      <4> QED BY <2>2, <3>1, <4>1, <4>2
    <3> QED BY <1>2, <3>2, <3>3 DEF Keeps
  <2>4. ASSUME NEW q \in Requests, Registers(q)', CoalesceKeyOf[q] /= None
        PROVE  WillClearNext(q)
    <3>1. CASE Registers(q)
      BY <2>2, <2>4, <3>1 DEF KeysAreCleared
    <3>2. CASE Accept(q)
      BY <3>2 DEF Accept, WillClearNext, ListInv, Lists
    <3> QED BY <2>4, <3>1, <3>2, StepRegisters
  <2>5. ASSUME NEW q \in clearing'
        PROVE  CoalesceKeyOf[q] /= None /\ answer'[q] \in {"resolved", "rejected"}
    <3>1. CASE q \in clearing
      <4>1. q \in Requests /\ CoalesceKeyOf[q] /= None /\ answer[q] \in {"resolved", "rejected"}
        BY <3>1 DEF KeysAreCleared, Promises
      <4> QED BY <2>1, <4>1 DEF Moves
    <3> QED BY <1>2, <2>5, <3>1 DEF Keeps
  <2> QED BY <2>3, <2>4, <2>5 DEF KeysAreCleared, WillClear, WillClearNext
<1> QED BY <1>1, <1>2, StepKeeps

LEMMA StepJoins ==
  ListInv /\ Promises /\ OpenIsActive /\ KeysAreCleared /\ JoinsLive /\ [Next]_vars => JoinsLive'
<1> SUFFICES ASSUME ListInv, Promises, OpenIsActive, KeysAreCleared, JoinsLive, [Next]_vars,
                    NEW q \in Requests, answer'[q] = "joined"
             PROVE  promise'[q] \in Requests /\ answer'[promise'[q]] \in {"open", "resolved", "rejected"}
  BY DEF JoinsLive
<1>1. \A r \in Requests : Moves(r)
  BY StepMoves
<1>2. ASSUME NEW p \in Requests, answer[p] \in {"open", "resolved", "rejected"}
      PROVE  answer'[p] \in {"open", "resolved", "rejected"}
  BY <1>1, <1>2 DEF Moves
<1>3. CASE answer[q] = "joined"
  BY <1>1, <1>2, <1>3 DEF Moves, JoinsLive
<1>4. CASE answer[q] /= "joined"
  <2>1. answer[q] = "none"
    BY <1>1, <1>4 DEF Moves, ListInv, Lists
  <2>2. Join(q)
    <3>1. DOMAIN answer = Requests
      BY DEF ListInv, Lists
    <3>2. answer' /= answer
      BY <1>4
    <3>3. ASSUME NEW r \in Requests, Refuse(r) \/ Accept(r) \/ CancelPending(r) PROVE FALSE
      <4>1. \E a \in {"refused", "open", "rejected"} : answer' = [answer EXCEPT ![r] = a]
        BY <3>3 DEF Refuse, Accept, CancelPending
      <4> QED BY <1>4, <3>1, <4>1
    <3>4. ASSUME NEW r \in Requests, NEW ok \in BOOLEAN, Settle(r, ok) PROVE FALSE
      <4>1. \E a \in {"resolved", "rejected"} : answer' = [answer EXCEPT ![r] = a]
        BY <3>4 DEF Settle, Outcome
      <4> QED BY <1>4, <3>1, <4>1
    <3>5. ASSUME NEW r \in Requests, Clear(r) \/ CancelRunning(r) \/ Timeout(r) PROVE FALSE
      BY <3>2, <3>5 DEF Clear, CancelRunning, Timeout
    <3>6. ASSUME NEW r \in Requests, Join(r) PROVE r = q
      BY <1>4, <3>1, <3>6 DEF Join
    <3>7. ~Advance
      BY <3>2 DEF Advance, PumpReturns, Start, Return
    <3>8. ~UNCHANGED vars
      BY <3>2 DEF vars
    <3> QED BY <3>3, <3>4, <3>5, <3>6, <3>7, <3>8 DEF Next
  <2>3. /\ promise'[q] = Shared(q) /\ Shared(q) /= None
        /\ \A p \in Requests \ {q} : answer'[p] = answer[p]
    BY <2>2 DEF Join, Promises, ListInv, Lists
  <2>4. PICK k \in CoalesceKeys : Shared(q) = coalesced[k] /\ coalesced[k] /= None
    BY <2>3, SpecAssumption DEF Shared
  <2>5. Shared(q) \in Requests /\ answer[Shared(q)] \in {"open", "resolved", "rejected"}
    BY <2>4 DEF KeysAreCleared, WillClear, Promises
  <2> QED BY <1>2, <2>3, <2>5
<1> QED BY <1>3, <1>4

PromiseInv == Promises /\ OpenIsActive /\ KeysAreCleared /\ JoinsLive

\* The inductive invariant of the promises.
THEOREM PromiseInvHolds == Spec => []PromiseInv
<1>1. Init => PromiseInv
  <2> SUFFICES ASSUME Init PROVE PromiseInv
    OBVIOUS
  <2>1. Promises /\ OpenIsActive /\ JoinsLive
    BY SpecAssumption DEF Init, Promises, OpenIsActive, Active, Elements, JoinsLive
  <2>2. KeysAreCleared
    BY DEF Init, KeysAreCleared, Registers, Elements
  <2> QED BY <2>1, <2>2 DEF PromiseInv
<1>2. ListInv /\ IdleInv /\ PromiseInv /\ [Next]_vars => PromiseInv'
  BY StepPromises, StepOpen, StepClears, StepJoins DEF PromiseInv, IdleInv
<1> QED BY ListInvHolds, InitIdle, StepIdle, <1>1, <1>2, PTL DEF Spec

\* Nobody is forgotten: a promise is open exactly as long as its request waits
\* or is at work, and who joined has the promise of a request that was taken.
THEOREM NoPromiseForgottenHolds == Spec => [](OpenIsActive /\ JoinsLive)
<1>1. PromiseInv => OpenIsActive /\ JoinsLive
  BY DEF PromiseInv
<1> QED BY PromiseInvHolds, <1>1, PTL

\* A settled promise under a coalesce key has its clear reaction ahead, also
\* when it settles before the enqueue() that made it registers it.
THEOREM KeysAreClearedHolds == Spec => []KeysAreCleared
<1>1. PromiseInv => KeysAreCleared
  BY DEF PromiseInv
<1> QED BY PromiseInvHolds, <1>1, PTL

\* What an enqueue() was told is never taken back.
AnswersLast ==
    [][\A r \in Requests :
          answer[r] \notin {"none", "open"} => answer'[r] = answer[r]]_vars

\* A promise settles at most once, and a refusal is final, whatever work
\* resolves after it was cancelled or timed out.
THEOREM AnswersLastHolds == Spec => AnswersLast
<1> DEFINE Last ==
      \A r \in Requests : answer[r] \notin {"none", "open"} => answer'[r] = answer[r]
<1>1. ListInv /\ PromiseInv /\ [Next]_vars => [Last]_vars
  BY StepMoves DEF PromiseInv, Moves
<1>2. AnswersLast <=> [][Last]_vars
  BY PTL DEF AnswersLast
<1> HIDE DEF Last
<1> QED BY ListInvHolds, PromiseInvHolds, <1>1, <1>2, PTL DEF Spec
=============================================================================
