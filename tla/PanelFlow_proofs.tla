-------------------------- MODULE PanelFlow_proofs --------------------------
(***************************************************************************)
(* Proofs about PanelFlow, for any versions, retries and bounds: the types *)
(* of the provider and its document, that the provider believes of a       *)
(* document only what that document has rendered, and that no state is     *)
(* forgotten.                                                              *)
(***************************************************************************)
EXTENDS PanelFlow, SequenceTheorems, TLAPS

-----------------------------------------------------------------------------
(* The provider by itself.  A turn is a composition of operators; each of  *)
(* them keeps the provider sound, and none but an accepted answer and a    *)
(* new document touches what it takes for rendered.                        *)

Sound(h) ==
    /\ h \in Provider
    /\ h.inFlight <=> h.attempt /= 0
    /\ h.out /= 0 => h.out = h.posted /\ h.rendered < h.out
    /\ h.rendered <= h.posted /\ h.posted <= h.seq
    /\ h.retries <= RetryMax

(* g is sound, and takes the same for rendered by the same document.       *)
Follows(h, g) == Sound(g) /\ g.gen = h.gen /\ g.rendered = h.rendered

LEMMA FollowsTrans ==
  ASSUME NEW h, NEW g, NEW k, Follows(h, g), Follows(g, k)
  PROVE  Follows(h, k)
  BY DEF Follows

LEMMA FlagsFollow ==
  ASSUME NEW h, Sound(h), NEW b \in BOOLEAN, NEW c \in BOOLEAN
  PROVE  /\ Follows(h, [h EXCEPT !.timer = b])
         /\ Follows(h, [h EXCEPT !.retryTimer = b])
         /\ Follows(h, [h EXCEPT !.pend = b])
         /\ Follows(h, [h EXCEPT !.pend = b, !.imm = c])
         /\ Follows(h, [h EXCEPT !.pend = b, !.timer = c])
         /\ Follows(h, [h EXCEPT !.docShown = b])
         /\ Follows(h, [h EXCEPT !.probe = b])
         /\ Follows(h, [h EXCEPT !.ready = b])
<1> USE DEF Follows, Sound, Provider
<1>1. Follows(h, [h EXCEPT !.timer = b])
  OBVIOUS
<1>2. Follows(h, [h EXCEPT !.retryTimer = b])
  OBVIOUS
<1>3. Follows(h, [h EXCEPT !.pend = b])
  OBVIOUS
<1>4. Follows(h, [h EXCEPT !.pend = b, !.imm = c])
  OBVIOUS
<1>5. Follows(h, [h EXCEPT !.pend = b, !.timer = c])
  OBVIOUS
<1>6. Follows(h, [h EXCEPT !.docShown = b])
  OBVIOUS
<1>7. Follows(h, [h EXCEPT !.probe = b])
  OBVIOUS
<1>8. Follows(h, [h EXCEPT !.ready = b])
  OBVIOUS
<1> HIDE DEF Follows
<1> QED BY <1>1, <1>2, <1>3, <1>4, <1>5, <1>6, <1>7, <1>8

LEMMA VisibleFollows ==
  ASSUME NEW h, Sound(h), NEW v \in BOOLEAN
  PROVE  Follows(h, SetVisible(h, v))
<1>1. Follows(h, [h EXCEPT !.visible = v])
  BY DEF Follows, Sound, Provider
<1>2. Follows(h, [h EXCEPT !.visible = FALSE, !.out = 0, !.dirty = TRUE])
  BY DEF Follows, Sound, Provider
<1> QED BY <1>1, <1>2 DEF SetVisible

LEMMA SyncFollows ==
  ASSUME NEW h, Sound(h)
  PROVE  Follows(h, Sync(h))
<1>1. (h.view = "shown" /\ h.docShown) \in BOOLEAN
  OBVIOUS
<1> QED BY <1>1, VisibleFollows DEF Sync

LEMMA RequestFollows ==
  ASSUME NEW h, Sound(h), NEW now \in BOOLEAN
  PROVE  Follows(h, Request(h, now))
  BY DEF Request, Follows, Sound, Provider

LEMMA SendFollows ==
  ASSUME NEW h, Sound(h)
  PROVE  Follows(h, Send(h))
<1> DEFINE n == h.seq + 1
<1>1. n \in Nat \ {0} /\ n > h.seq /\ h.rendered < n
  BY DEF Sound, Provider
<1>2. Send(h) \in Provider
  BY <1>1 DEF Send, Sound, Provider
<1>3. /\ Send(h).seq = n /\ Send(h).attempt = n /\ Send(h).inFlight = TRUE /\ Send(h).posted = n
      /\ Send(h).out = n /\ Send(h).rendered = h.rendered /\ Send(h).retries = h.retries
      /\ Send(h).gen = h.gen
  BY DEF Send, Sound, Provider
<1>4. h.rendered <= n /\ n <= n /\ n /= 0 /\ h.retries <= RetryMax
  BY <1>1 DEF Sound, Provider
<1> HIDE DEF n
<1>5. /\ Send(h).inFlight <=> Send(h).attempt /= 0
      /\ Send(h).out /= 0 => Send(h).out = Send(h).posted /\ Send(h).rendered < Send(h).out
      /\ Send(h).rendered <= Send(h).posted /\ Send(h).posted <= Send(h).seq
      /\ Send(h).retries <= RetryMax
  BY <1>1, <1>3, <1>4
<1> QED BY <1>2, <1>3, <1>5 DEF Follows, Sound

LEMMA UnchangedFollows ==
  ASSUME NEW h, Sound(h)
  PROVE  Follows(h, Unchanged(h))
<1>1. Unchanged(h) \in Provider
  BY DEF Unchanged, Sound, Provider
<1>2. \A f \in {"seq", "attempt", "inFlight", "posted", "out", "rendered", "retries", "gen"} :
         Unchanged(h)[f] = h[f]
  BY DEF Unchanged, Sound, Provider
<1> QED BY <1>1, <1>2 DEF Follows, Sound

LEMMA FlushFollows ==
  ASSUME NEW h, Sound(h), NEW now \in BOOLEAN
  PROVE  Follows(h, Flush(h, now))
<1> DEFINE s == Sync([h EXCEPT !.timer = FALSE])
           force == now \/ h.imm
           r == Request(s, force)
<1>1. force \in BOOLEAN
  BY DEF Sound, Provider
<1>2. Follows(h, [h EXCEPT !.timer = FALSE])
  BY FlagsFollow
<1>3. Follows(h, s) /\ Sound(s)
  BY <1>2, SyncFollows, FollowsTrans DEF Follows
<1>4. Follows(h, r) /\ Sound(r)
  BY <1>1, <1>3, RequestFollows, FollowsTrans DEF Follows
<1> HIDE DEF s, r, force
<1>5. Follows(h, [r EXCEPT !.pend = TRUE])
  BY <1>4, FlagsFollow, FollowsTrans
<1>6. s.imm \in BOOLEAN /\ r.imm \in BOOLEAN
  BY <1>3, <1>4 DEF Sound, Provider
<1>7. Follows(h, [r EXCEPT !.pend = TRUE, !.imm = @ \/ force])
  <2>1. (r.imm \/ force) \in BOOLEAN
    BY <1>1, <1>6
  <2> QED BY <2>1, <1>4, FlagsFollow, FollowsTrans
<1>8. Follows(h, [s EXCEPT !.pend = TRUE, !.imm = @ \/ force])
  <2>1. (s.imm \/ force) \in BOOLEAN
    BY <1>1, <1>6
  <2> QED BY <2>1, <1>3, FlagsFollow, FollowsTrans
<1>9. Follows(h, Unchanged(s)) /\ Follows(h, Send(s))
  BY <1>3, UnchangedFollows, SendFollows, FollowsTrans
<1> QED BY <1>2, <1>3, <1>5, <1>7, <1>8, <1>9 DEF Flush, s, r, force

LEMMA PostFollows ==
  ASSUME NEW h, Sound(h), NEW now \in BOOLEAN, NEW boot \in BOOLEAN
  PROVE  Follows(h, Post(h, now, boot))
<1> DEFINE s == Request(Sync(h), now \/ boot)
           r == [s EXCEPT !.pend = TRUE, !.imm = s.immediate]
<1>1. Follows(h, h)
  BY DEF Follows
<1>2. Follows(h, s) /\ Sound(s)
  <2>1. (now \/ boot) \in BOOLEAN
    OBVIOUS
  <2> QED BY <2>1, SyncFollows, RequestFollows, FollowsTrans DEF Follows
<1> HIDE DEF s
<1>3. Follows(h, r) /\ Sound(r)
  <2>1. s.immediate \in BOOLEAN
    BY <1>2 DEF Sound, Provider
  <2> QED BY <2>1, <1>2, FlagsFollow, FollowsTrans DEF Follows
<1> HIDE DEF r
<1>4. Follows(h, [r EXCEPT !.timer = FALSE]) /\ Follows(h, [r EXCEPT !.timer = TRUE])
  BY <1>3, FlagsFollow, FollowsTrans
<1>5. Follows(h, Flush(r, TRUE))
  BY <1>3, FlushFollows, FollowsTrans
<1> QED BY <1>1, <1>3, <1>4, <1>5 DEF Post, s, r

LEMMA ShowsFollows ==
  ASSUME NEW h, Sound(h), NEW v \in BOOLEAN
  PROVE  Follows(h, Shows(h, v))
<1> DEFINE s == Sync([h EXCEPT !.docShown = v])
           r == Request(s, FALSE)
<1>1. Follows(h, s) /\ Sound(s)
  <2>1. Follows(h, [h EXCEPT !.docShown = v])
    BY FlagsFollow
  <2> QED BY <2>1, SyncFollows, FollowsTrans DEF Follows
<1> HIDE DEF s
<1>2. Follows(h, Post(s, TRUE, FALSE))
  BY <1>1, PostFollows, FollowsTrans
<1>3. Follows(h, r) /\ Sound(r)
  BY <1>1, RequestFollows, FollowsTrans DEF Follows
<1> HIDE DEF r
<1>4. Follows(h, [r EXCEPT !.pend = TRUE, !.timer = FALSE])
  BY <1>3, FlagsFollow, FollowsTrans
<1> QED BY <1>1, <1>2, <1>4 DEF Shows, s, r

(* g is sound, and it either follows h or has a new document.              *)
Becomes(h, g) ==
    /\ Sound(g)
    /\ \/ g.gen = h.gen /\ g.rendered = h.rendered
       \/ g.gen > h.gen /\ g.rendered = 0

LEMMA ResetSound ==
  ASSUME NEW h, Sound(h)
  PROVE  Sound(Reset(h)) /\ Reset(h).gen = h.gen /\ Reset(h).rendered = 0
<1> DEFINE b == h.view = "shown"
           r == [h EXCEPT !.visible = b, !.posted = 0, !.delivered = 0, !.rendered = 0]
           s == [r EXCEPT !.out = 0, !.dirty = FALSE, !.immediate = FALSE, !.pend = FALSE, !.imm = FALSE]
<1>1. Reset(h) \in Provider
  <2>1. b \in BOOLEAN
    OBVIOUS
  <2> HIDE DEF b
  <2>2. r \in Provider
    BY <2>1 DEF Sound, Provider
  <2> HIDE DEF r
  <2>3. s \in Provider
    BY <2>2 DEF Provider
  <2> HIDE DEF s
  <2>4. [s EXCEPT !.inFlight = FALSE, !.attempt = 0, !.timer = FALSE, !.retryTimer = FALSE,
                  !.retries = 0] \in Provider
    BY <2>3 DEF Provider
  <2>5. Reset(h) = [s EXCEPT !.inFlight = FALSE, !.attempt = 0, !.timer = FALSE, !.retryTimer = FALSE,
                             !.retries = 0]
    BY DEF Reset, s, r, b
  <2> QED BY <2>4, <2>5
<1>2. /\ Reset(h).seq = h.seq /\ Reset(h).attempt = 0 /\ Reset(h).inFlight = FALSE
      /\ Reset(h).posted = 0 /\ Reset(h).out = 0 /\ Reset(h).rendered = 0
      /\ Reset(h).retries = 0 /\ Reset(h).gen = h.gen
  BY DEF Reset, Sound, Provider
<1>3. h.seq \in Nat /\ RetryMax \in Nat /\ 0 <= h.seq /\ 0 <= RetryMax /\ 0 <= 0
  BY Bounds DEF Sound, Provider
<1> QED BY <1>1, <1>2, <1>3 DEF Sound

LEMMA LoadBecomes ==
  ASSUME NEW h, Sound(h), NEW kind \in {"none", "panel", "recovery"}
  PROVE  Sound(Load(h, kind)) /\ Load(h, kind).gen = h.gen + 1 /\ Load(h, kind).rendered = 0
<1> DEFINE s == [h EXCEPT !.gen = @ + 1, !.ready = FALSE, !.kind = kind]
<1>1. Sound(s) /\ s.gen = h.gen + 1
  <2>1. s \in Provider /\ s.gen = h.gen + 1
    <3>1. h.gen + 1 \in Nat
      BY DEF Sound, Provider
    <3>2. s \in Provider
      BY <3>1 DEF Sound, Provider
    <3>3. s.gen = h.gen + 1
      BY DEF Sound, Provider
    <3> QED BY <3>2, <3>3
  <2>2. \A f \in {"seq", "attempt", "inFlight", "posted", "out", "rendered", "retries"} : s[f] = h[f]
    BY DEF Sound, Provider
  <2> QED BY <2>1, <2>2 DEF Sound
<1> HIDE DEF s
<1>2. Sound(Reset(s)) /\ Reset(s).gen = h.gen + 1 /\ Reset(s).rendered = 0
  BY <1>1, ResetSound
<1>3. Follows(Reset(s), [Reset(s) EXCEPT !.docShown = TRUE])
  BY <1>2, FlagsFollow
<1> QED BY <1>2, <1>3 DEF Load, s, Follows

LEMMA RecoverBecomes ==
  ASSUME NEW h, Sound(h)
  PROVE  Becomes(h, Recover(h))
<1> DEFINE s == [h EXCEPT !.ready = FALSE]
           r == [h EXCEPT !.ready = FALSE, !.saved = TRUE]
<1>1. Follows(h, s)
  BY FlagsFollow
<1>2. Follows(h, r)
  BY DEF Follows, Sound, Provider
<1>3. h.gen \in Nat
  BY DEF Sound, Provider
<1> HIDE DEF s, r
<1>4. Becomes(h, Load(s, "recovery"))
  BY <1>1, <1>3, LoadBecomes DEF Follows, Becomes
<1>5. Becomes(h, Load(r, "panel"))
  BY <1>2, <1>3, LoadBecomes DEF Follows, Becomes
<1>6. Becomes(h, h)
  BY DEF Becomes
<1> QED BY <1>4, <1>5, <1>6 DEF Recover, s, r

LEMMA PostFailedBecomes ==
  ASSUME NEW h, Sound(h), NEW seq \in Nat
  PROVE  Becomes(h, PostFailed(h, seq))
<1> DEFINE t == [h EXCEPT !.attempt = 0, !.inFlight = FALSE]
           s == Failed(t, seq)
           r == [s EXCEPT !.pend = s.dirty]
<1>1. Follows(h, t) /\ Sound(t) /\ t.retries = h.retries
  BY DEF Follows, Sound, Provider
<1> HIDE DEF t
<1>2. Follows(h, s) /\ Sound(s) /\ s.retries = h.retries
  <2>1. Follows(t, [t EXCEPT !.out = 0, !.dirty = TRUE])
    BY <1>1 DEF Follows, Sound, Provider
  <2>2. [t EXCEPT !.out = 0, !.dirty = TRUE].retries = h.retries
    BY <1>1 DEF Sound, Provider
  <2>3. Follows(t, t)
    BY <1>1 DEF Follows
  <2> QED BY <1>1, <2>1, <2>2, <2>3, FollowsTrans DEF Failed, Follows
<1> HIDE DEF s
<1>3. Follows(h, r) /\ Sound(r) /\ r.retries = h.retries
  <2>1. s.dirty \in BOOLEAN
    BY <1>2 DEF Sound, Provider
  <2>2. Follows(h, r) /\ Sound(r)
    BY <1>2, <2>1, FlagsFollow, FollowsTrans DEF Follows
  <2>3. r.retries = s.retries
    BY <1>2 DEF Sound, Provider
  <2> QED BY <1>2, <2>2, <2>3
<1> HIDE DEF r
<1>4. Becomes(h, Load(r, "recovery"))
  <2>1. h.gen \in Nat
    BY DEF Sound, Provider
  <2> QED BY <1>3, <2>1, LoadBecomes DEF Follows, Becomes
<1>5. Follows(h, Retry(r))
  <2>1. ASSUME r.retries < RetryMax
        PROVE  Follows(r, [r EXCEPT !.retries = @ + 1, !.retryTimer = TRUE])
    <3>1. r.retries + 1 \in Nat /\ r.retries + 1 <= RetryMax
      BY <1>3, <2>1, Bounds DEF Sound, Provider
    <3> QED BY <1>3, <3>1 DEF Follows, Sound, Provider
  <2>2. r.retries >= RetryMax \/ r.retries < RetryMax
    BY <1>3, Bounds DEF Sound, Provider
  <2> QED BY <1>3, <2>1, <2>2, FollowsTrans DEF Retry
<1> QED BY <1>4, <1>5 DEF PostFailed, Becomes, Follows, r, s, t

LEMMA PostTakenFollows ==
  ASSUME NEW h, Sound(h), NEW call \in [seq : Nat, version : Versions]
  PROVE  Follows(h, PostTaken(h, call))
<1> DEFINE d == Delivered(h, call.seq)
           s == [d EXCEPT !.attempt = 0, !.inFlight = FALSE, !.sig = call.version,
                          !.retries = 0, !.retryTimer = FALSE]
<1>1. Follows(h, d) /\ Sound(d)
  <2>1. call.seq \in Nat
    OBVIOUS
  <2> QED BY <2>1 DEF Delivered, Follows, Sound, Provider
<1> HIDE DEF d
<1>2. Follows(h, s) /\ Sound(s)
  <2>1. call.version \in Versions
    OBVIOUS
  <2>2. s \in Provider
    BY <1>1, <2>1 DEF Sound, Provider
  <2>3. \A f \in {"seq", "posted", "out", "rendered", "gen"} : s[f] = d[f]
    BY <1>1 DEF Sound, Provider
  <2>4. s.attempt = 0 /\ s.inFlight = FALSE /\ s.retries = 0 /\ 0 <= RetryMax
    BY <1>1, Bounds DEF Sound, Provider
  <2>5. Sound(s)
    BY <1>1, <2>2, <2>3, <2>4 DEF Sound
  <2> QED BY <1>1, <2>3, <2>5 DEF Follows
<1> HIDE DEF s
<1>3. Follows(h, Post(s, s.immediate, FALSE))
  <2>1. s.immediate \in BOOLEAN
    BY <1>2 DEF Sound, Provider
  <2> QED BY <1>2, <2>1, PostFollows, FollowsTrans
<1> QED BY <1>2, <1>3 DEF PostTaken, s, d

(* Like Becomes, but seq may have been accepted as rendered.               *)
Credits(h, g, seq) ==
    /\ Sound(g)
    /\ \/ g.gen = h.gen /\ g.rendered \in {h.rendered, seq}
       \/ g.gen > h.gen /\ g.rendered = 0

LEMMA AfterAckCredits ==
  ASSUME NEW h, Sound(h), NEW seq \in Nat
  PROVE  /\ Sound(AfterAck(h, seq)) /\ AfterAck(h, seq).gen = h.gen
         /\ AfterAck(h, seq).rendered \in {h.rendered, seq}
<1> DEFINE o == IF seq >= h.out THEN 0 ELSE h.out
           r == [h EXCEPT !.rendered = seq, !.out = o]
<1>1. CASE ~Accepted(h, seq)
  BY <1>1 DEF AfterAck
<1>2. CASE Accepted(h, seq)
  <2>1. o \in Nat /\ (o /= 0 => o = h.posted /\ seq < o) /\ seq <= h.posted
    BY <1>2 DEF Accepted, Sound, Provider
  <2>2. Rendered(h, seq) = r
    BY DEF Rendered
  <2> HIDE DEF o
  <2>3. r \in Provider
    BY <2>1 DEF Sound, Provider
  <2>4. /\ r.rendered = seq /\ r.out = o
        /\ \A f \in {"seq", "attempt", "inFlight", "posted", "retries", "gen"} : r[f] = h[f]
    BY DEF Sound, Provider
  <2> HIDE DEF r
  <2>5. Sound(r)
    BY <2>1, <2>3, <2>4 DEF Sound
  <2> QED BY <1>2, <2>2, <2>4, <2>5 DEF AfterAck
<1> QED BY <1>1, <1>2

LEMMA AcknowledgedCredits ==
  ASSUME NEW h, Sound(h), NEW seq \in Nat
  PROVE  Credits(h, Acknowledged(h, seq), seq)
<1> DEFINE r == AfterAck(h, seq)
<1>1. Sound(r) /\ r.gen = h.gen /\ r.rendered \in {h.rendered, seq}
  BY AfterAckCredits
<1> HIDE DEF r
<1>2. Follows(r, Post(r, h.immediate, FALSE))
  <2>1. h.immediate \in BOOLEAN
    BY DEF Sound, Provider
  <2> QED BY <1>1, <2>1, PostFollows
<1> QED BY <1>1, <1>2 DEF Acknowledged, Credits, Follows, r

LEMMA ProbedCredits ==
  ASSUME NEW h, Sound(h), NEW m, m.seq \in Nat
  PROVE  Credits(h, Probed(h, m), m.seq)
<1> DEFINE s == IF m.health = "hidden" THEN Shows(h, FALSE)
                ELSE IF m.health = "ok" /\ ~h.docShown THEN Shows(h, TRUE) ELSE h
           r == AfterAck(s, m.seq)
<1>1. Follows(h, s) /\ Sound(s)
  <2>1. Follows(h, Shows(h, FALSE)) /\ Follows(h, Shows(h, TRUE)) /\ Follows(h, h)
    BY ShowsFollows DEF Follows
  <2> QED BY <2>1 DEF Follows
<1>2. Probed(h, m) = IF m.health = "broken" THEN Recover(r) ELSE Acknowledged(s, m.seq)
  BY DEF Probed
<1> HIDE DEF s
<1>3. Credits(h, Acknowledged(s, m.seq), m.seq)
  BY <1>1, AcknowledgedCredits DEF Credits, Follows
<1>4. Sound(r) /\ r.gen = h.gen /\ r.rendered \in {h.rendered, m.seq}
  BY <1>1, AfterAckCredits DEF Follows
<1> HIDE DEF r
<1>5. Credits(h, Recover(r), m.seq)
  BY <1>4, RecoverBecomes DEF Becomes, Credits
<1> QED BY <1>2, <1>3, <1>5

-----------------------------------------------------------------------------
(* The provider and its document.  Every message that is on its way back   *)
(* is of this document or of an earlier one; what it says is rendered, if  *)
(* it is of this one, this one has rendered.  A document renders nothing   *)
(* it has not received, and what it receives only grows.                   *)

State == [seq : Nat, version : Versions]

Message ==
    [kind : {"visibility"}, gen : Nat, hidden : BOOLEAN] \cup [kind : {"ready"}, gen : Nat]
        \cup [kind : {"rendered"}, gen : Nat, seq : Nat]
        \cup [kind : {"beat"}, gen : Nat, health : {"hidden", "unknown", "broken", "ok"}, seq : Nat]

Reports(m) == m.kind \in {"rendered", "beat"}

(* What a document d may have told, or one before it.                      *)
Honest(d) ==
    {m \in Message : m.gen <= d.gen /\ (Reports(m) /\ m.gen = d.gen => m.seq <= d.rendered)}

DocumentInv ==
    /\ doc \in Document
    /\ doc.rendered <= doc.received
    /\ doc.frame => doc.next = doc.received

PanelInv ==
    /\ Sound(host)
    /\ DocumentInv
    /\ doc.gen = host.gen /\ host.rendered <= doc.rendered
    /\ wire \in Seq(State)
    /\ calls \subseteq State
    /\ back \in Seq(Honest(doc))

LEMMA SeqMonotone ==
  ASSUME NEW S, NEW T, S \subseteq T, NEW s \in Seq(S)
  PROVE  s \in Seq(T)
  BY SeqDef

LEMMA HonestGrows ==
  ASSUME NEW d \in Document, NEW e \in Document,
         (e.gen = d.gen /\ d.rendered <= e.rendered) \/ e.gen > d.gen,
         NEW s \in Seq(Honest(d))
  PROVE  s \in Seq(Honest(e))
<1>1. d.gen \in Nat /\ e.gen \in Nat /\ d.rendered \in Nat /\ e.rendered \in Nat
  BY DEF Document
<1>2. ASSUME NEW m \in Honest(d) PROVE m \in Honest(e)
  <2>1. m.gen \in Nat /\ (Reports(m) => m.seq \in Nat)
    BY DEF Honest, Message, Reports
  <2> QED BY <1>1, <2>1 DEF Honest
<1> QED BY <1>2, SeqMonotone

LEMMA NewDocumentInv ==
  ASSUME NEW gen \in Nat, NEW kind \in {"none", "panel", "recovery"}
  PROVE  /\ NewDocument(gen, kind) \in Document
         /\ NewDocument(gen, kind).gen = gen
         /\ NewDocument(gen, kind).rendered = 0
         /\ NewDocument(gen, kind).received = 0
         /\ ~NewDocument(gen, kind).frame
  BY DEF NewDocument, Document

(* A provider that keeps its document takes nothing for rendered that this *)
(* has not rendered; one with a new document takes nothing.                *)
Justified(h) ==
    \/ h.gen = host.gen /\ h.rendered <= doc.rendered
    \/ h.gen > host.gen /\ h.rendered = 0

LEMMA TurnInv ==
  ASSUME PanelInv, NEW h, Sound(h), Justified(h), NEW open \in SUBSET State,
         Turn(h, open), back' \in Seq(Honest(doc))
  PROVE  PanelInv'
<1> DEFINE post == [seq |-> h.seq, version |-> h.now]
<1>1. post \in State /\ h.gen \in Nat /\ h.kind \in {"none", "panel", "recovery"} /\ h.rendered \in Nat
  BY DEF Sound, Provider, State
<1>2. host' = h
  BY DEF Turn
<1>3. calls' \in {open, open \cup {post}}
  BY DEF Turn
<1>4. CASE h.gen = host.gen
  <2>1. doc' = doc /\ wire' \in {wire, Append(wire, post)}
    BY <1>2, <1>4 DEF Turn
  <2>2. wire' \in Seq(State)
    <3>1. wire \in Seq(State) /\ post \in State
      BY <1>1 DEF PanelInv
    <3> HIDE DEF post
    <3>2. Append(wire, post) \in Seq(State)
      BY <3>1, AppendProperties
    <3> QED BY <2>1, <3>1, <3>2
  <2>3. host.gen \in Nat
    BY DEF PanelInv, Sound, Provider
  <2>4. h.rendered <= doc.rendered
    BY <1>4, <2>3 DEF Justified
  <2> QED BY <1>1, <1>2, <1>3, <1>4, <2>1, <2>2, <2>4 DEF PanelInv, DocumentInv
<1>5. CASE h.gen /= host.gen
  <2>1. doc' = NewDocument(h.gen, h.kind) /\ wire' \in {wire, <<>>}
    BY <1>2, <1>5 DEF Turn
  <2>2. wire' \in Seq(State)
    BY <2>1, EmptySeq DEF PanelInv
  <2>3. h.gen > host.gen /\ h.rendered = 0
    BY <1>5 DEF Justified
  <2>4. /\ doc' \in Document /\ doc'.gen = h.gen
        /\ doc'.rendered = 0 /\ doc'.received = 0 /\ ~doc'.frame
    BY <1>1, <2>1, NewDocumentInv
  <2>5. back' \in Seq(Honest(doc'))
    BY <2>3, <2>4, HonestGrows DEF PanelInv, DocumentInv
  <2> QED BY <1>1, <1>2, <1>3, <2>2, <2>3, <2>4, <2>5 DEF PanelInv, DocumentInv
<1> QED BY <1>4, <1>5

LEMMA BecomesJustified ==
  ASSUME PanelInv, NEW g, Follows(host, g), NEW h, Becomes(g, h)
  PROVE  Sound(h) /\ Justified(h)
<1>1. doc.rendered \in Nat /\ host.gen \in Nat /\ host.rendered \in Nat
  BY DEF PanelInv, DocumentInv, Document, Sound, Provider
<1> QED BY <1>1 DEF PanelInv, Follows, Becomes, Justified

LEMMA FollowsBecomes ==
  ASSUME NEW g, NEW h, Follows(g, h)
  PROVE  Becomes(g, h)
  BY DEF Follows, Becomes

LEMMA LoadIsNew ==
  ASSUME NEW h, Sound(h), NEW kind \in {"none", "panel", "recovery"}
  PROVE  Becomes(h, Load(h, kind))
<1>1. h.gen \in Nat
  BY DEF Sound, Provider
<1> QED BY <1>1, LoadBecomes DEF Becomes

(* The provider takes a turn of its own: nothing is heard from a document. *)
LEMMA OwnTurn ==
  ASSUME PanelInv, NEW g, Follows(host, g), NEW h, Becomes(g, h),
         NEW open \in SUBSET State, Turn(h, open), UNCHANGED back
  PROVE  PanelInv'
<1>1. back' \in Seq(Honest(doc))
  BY DEF PanelInv
<1> QED BY <1>1, BecomesJustified, TurnInv

LEMMA HostFollows ==
  ASSUME PanelInv
  PROVE  Sound(host) /\ Follows(host, host) /\ calls \in SUBSET State
  BY DEF PanelInv, Follows

LEMMA ProviderSteps ==
  ASSUME PanelInv,
         \/ \E v \in Versions, now \in BOOLEAN : Change(v, now)
         \/ TimerFires \/ RetryFires \/ Greet \/ Stalls \/ Watchdog
         \/ Resolve("hidden") \/ Resolve("shown") \/ Show \/ ProbeTaken \/ Reload
  PROVE  PanelInv'
<1> USE HostFollows
<1>1. ASSUME NEW v \in Versions, NEW now \in BOOLEAN, Change(v, now) PROVE PanelInv'
  <2> DEFINE g == [host EXCEPT !.now = v]
  <2>1. Follows(host, g) /\ Sound(g)
    BY DEF Follows, Sound, Provider
  <2>2. Turn(Post(g, now, FALSE), calls) /\ UNCHANGED back
    BY <1>1 DEF Change
  <2> HIDE DEF g
  <2> QED BY <2>1, <2>2, PostFollows, FollowsBecomes, OwnTurn
<1>2. CASE TimerFires
  BY <1>2, FlushFollows, FollowsBecomes, OwnTurn DEF TimerFires
<1>3. CASE RetryFires
  <2> DEFINE g == [host EXCEPT !.retryTimer = FALSE]
  <2>1. Follows(host, g) /\ Sound(g)
    BY FlagsFollow DEF Follows
  <2>2. Turn(Flush(g, TRUE), calls) /\ UNCHANGED back
    BY <1>3 DEF RetryFires
  <2> HIDE DEF g
  <2> QED BY <2>1, <2>2, FlushFollows, FollowsBecomes, OwnTurn
<1>4. CASE Greet
  <2> DEFINE g == [host EXCEPT !.greets = @ - 1, !.retries = 0, !.retryTimer = FALSE]
  <2>1. Follows(host, g) /\ Sound(g)
    <3>1. host.greets - 1 \in Nat /\ 0 <= RetryMax
      BY <1>4, Bounds DEF Greet, Sound, Provider
    <3>2. g \in Provider
      BY <3>1 DEF Sound, Provider
    <3>3. /\ g.retries = 0
          /\ \A f \in {"seq", "attempt", "inFlight", "posted", "out", "rendered", "gen"} : g[f] = host[f]
      BY DEF Sound, Provider
    <3> QED BY <3>1, <3>2, <3>3 DEF Follows, Sound
  <2>2. Turn(Post(g, TRUE, TRUE), calls) /\ UNCHANGED back
    BY <1>4 DEF Greet
  <2> HIDE DEF g
  <2> QED BY <2>1, <2>2, PostFollows, FollowsBecomes, OwnTurn
<1>5. CASE Stalls
  BY <1>5, RecoverBecomes, OwnTurn DEF Stalls
<1>6. CASE Watchdog
  BY <1>6, LoadIsNew, OwnTurn DEF Watchdog
<1>7. ASSUME NEW v \in {"hidden", "shown"}, Resolve(v) PROVE PanelInv'
  <2> DEFINE g == [host EXCEPT !.view = v]
  <2>1. Follows(host, g) /\ Sound(g)
    BY DEF Follows, Sound, Provider
  <2>2. Turn(Load(g, "panel"), calls) /\ UNCHANGED back
    BY <1>7 DEF Resolve
  <2> HIDE DEF g
  <2> QED BY <2>1, <2>2, LoadIsNew, OwnTurn
<1>8. CASE Show
  <2> DEFINE g == [host EXCEPT !.view = "shown"]
             h == [g EXCEPT !.probe = g.ready]
  <2>1. Follows(host, g) /\ Sound(g)
    BY DEF Follows, Sound, Provider
  <2>2. Turn(IF g.retain THEN h ELSE Load(g, "panel"), calls) /\ UNCHANGED back
    BY <1>8 DEF Show
  <2>3. Follows(g, h)
    <3> HIDE DEF g
    <3>1. g.ready \in BOOLEAN
      BY <2>1 DEF Sound, Provider
    <3> QED BY <2>1, <3>1, FlagsFollow
  <2> HIDE DEF g, h
  <2>4. Becomes(g, IF g.retain THEN h ELSE Load(g, "panel"))
    BY <2>1, <2>3, LoadIsNew, FollowsBecomes
  <2> QED BY <2>1, <2>2, <2>4, OwnTurn
<1>9. CASE ProbeTaken
  <2> DEFINE g == [host EXCEPT !.probe = FALSE]
  <2>1. Follows(host, g) /\ Sound(g)
    BY FlagsFollow DEF Follows
  <2>2. Turn(Post(g, TRUE, FALSE), calls) /\ UNCHANGED back
    BY <1>9 DEF ProbeTaken
  <2> HIDE DEF g
  <2> QED BY <2>1, <2>2, PostFollows, FollowsBecomes, OwnTurn
<1>10. CASE Reload
  BY <1>10, LoadIsNew, OwnTurn DEF Reload
<1> QED BY <1>1, <1>2, <1>3, <1>4, <1>5, <1>6, <1>7, <1>8, <1>9, <1>10

LEMMA AnswersToPosts ==
  ASSUME PanelInv, NEW call \in calls, Taken(call) \/ Refused(call)
  PROVE  PanelInv'
<1>1. call \in State /\ call \in [seq : Nat, version : Versions] /\ call.seq \in Nat
      /\ (calls \ {call}) \in SUBSET State
  BY DEF PanelInv, State
<1>2. Sound(host) /\ Follows(host, host) /\ Becomes(host, host)
  BY HostFollows, FollowsBecomes
<1>3. CASE Taken(call)
  <2>1. Becomes(host, IF Counts(call) THEN PostTaken(host, call) ELSE host)
    BY <1>1, <1>2, PostTakenFollows, FollowsBecomes
  <2> QED BY <1>1, <1>2, <1>3, <2>1, OwnTurn DEF Taken
<1>4. CASE Refused(call)
  <2>1. Becomes(host, IF Counts(call) THEN PostFailed(host, call.seq) ELSE host)
    BY <1>1, <1>2, PostFailedBecomes
  <2> QED BY <1>1, <1>2, <1>4, <2>1, OwnTurn DEF Refused
<1> QED BY <1>3, <1>4

LEMMA CreditsJustified ==
  ASSUME PanelInv, NEW seq \in Nat, seq <= doc.rendered, NEW h, Credits(host, h, seq)
  PROVE  Sound(h) /\ Justified(h)
  BY DEF PanelInv, Credits, Justified

LEMMA MessagesHeard ==
  ASSUME PanelInv, HearReady \/ HearVisibility \/ HearRendered \/ HearBeat
  PROVE  PanelInv'
<1> DEFINE m == Head(back)
<1>1. /\ back /= <<>> /\ Current(m) /\ back' = Tail(back)
      /\ m.kind \in {"ready", "visibility", "rendered", "beat"}
  BY DEF HearReady, HearVisibility, HearRendered, HearBeat, Next1, Heard
<1>2. m \in Honest(doc) /\ back' \in Seq(Honest(doc))
  BY <1>1, HeadTailProperties DEF PanelInv
<1>3. Sound(host) /\ Follows(host, host) /\ Becomes(host, host) /\ calls \in SUBSET State
  BY HostFollows, FollowsBecomes
<1>4. Reports(m) => m.seq \in Nat /\ m.seq <= doc.rendered
  <2>1. m.gen = doc.gen
    BY <1>1 DEF Current, PanelInv
  <2> QED BY <1>2, <2>1 DEF Honest, Message, Reports
<1>5. CASE HearReady
  <2> DEFINE g == [host EXCEPT !.ready = TRUE, !.greets = @ + 1]
  <2>1. Follows(host, g)
    <3>1. host.greets + 1 \in Nat
      BY <1>3 DEF Sound, Provider
    <3> QED BY <1>3, <3>1 DEF Follows, Sound, Provider
  <2>2. Turn(g, calls)
    BY <1>5 DEF HearReady
  <2> HIDE DEF g, m
  <2> QED BY <1>2, <1>3, <2>1, <2>2, FollowsBecomes, BecomesJustified, TurnInv
<1>6. CASE HearVisibility
  <2>1. Turn(Shows(host, ~m.hidden), calls) /\ m.kind = "visibility"
    BY <1>6 DEF HearVisibility, Next1
  <2>2. (~m.hidden) \in BOOLEAN
    BY <1>2, <2>1 DEF Honest, Message
  <2> HIDE DEF m
  <2> QED BY <1>2, <1>3, <2>1, <2>2, ShowsFollows, FollowsBecomes, BecomesJustified, TurnInv
<1>7. CASE HearRendered
  <2>1. Turn(Acknowledged(host, m.seq), calls) /\ Reports(m)
    BY <1>7 DEF HearRendered, Next1, Reports
  <2> HIDE DEF m
  <2> QED BY <1>2, <1>3, <1>4, <2>1, AcknowledgedCredits, CreditsJustified, TurnInv
<1>8. CASE HearBeat
  <2> DEFINE h == IF host.view = "shown" /\ host.ready THEN Probed(host, m) ELSE host
  <2>1. Turn(h, calls) /\ Reports(m)
    BY <1>8 DEF HearBeat, Next1, Reports
  <2>2. Sound(h) /\ Justified(h)
    <3>1. Sound(host) /\ Justified(host)
      BY <1>3, BecomesJustified
    <3>2. Sound(Probed(host, m)) /\ Justified(Probed(host, m))
      <4> HIDE DEF m
      <4> QED BY <1>3, <1>4, <2>1, ProbedCredits, CreditsJustified
    <3> QED BY <3>1, <3>2
  <2> HIDE DEF h, m
  <2> QED BY <1>2, <1>3, <2>1, <2>2, TurnInv
<1> QED BY <1>5, <1>6, <1>7, <1>8

-----------------------------------------------------------------------------
(* The steps of the view and of the document.                              *)

LEMMA DisposeInv ==
  ASSUME PanelInv, Dispose
  PROVE  PanelInv'
<1> DEFINE r == Reset(host)
           h == [r EXCEPT !.view = "none", !.ready = FALSE, !.probe = FALSE, !.kind = "none"]
<1>1. Sound(r) /\ r.gen = host.gen /\ r.rendered = 0
  BY HostFollows, ResetSound
<1> HIDE DEF r
<1>2. Follows(r, h)
  <2>1. h \in Provider
    BY <1>1 DEF Sound, Provider
  <2>2. \A f \in {"seq", "attempt", "inFlight", "posted", "out", "rendered", "retries", "gen"} :
           h[f] = r[f]
    BY <1>1 DEF Sound, Provider
  <2> QED BY <1>1, <2>1, <2>2 DEF Follows, Sound
<1>3. /\ host' = h /\ doc' = NewDocument(host.gen, "none")
      /\ wire' = <<>> /\ back' = <<>> /\ calls' = calls
  BY DEF Dispose, r
<1>4. host.gen \in Nat
  BY DEF PanelInv, Sound, Provider
<1>5. /\ doc' \in Document /\ doc'.gen = host.gen
      /\ doc'.rendered = 0 /\ doc'.received = 0 /\ ~doc'.frame
  BY <1>3, <1>4, NewDocumentInv
<1>6. wire' \in Seq(State) /\ back' \in Seq(Honest(doc'))
  BY <1>3, EmptySeq
<1> HIDE DEF h
<1> QED BY <1>1, <1>2, <1>3, <1>5, <1>6 DEF PanelInv, DocumentInv, Follows

(* A document that only renders more leaves what was told honest.          *)
LEMMA DocumentStep ==
  ASSUME PanelInv, DocumentInv', doc'.gen = doc.gen, doc'.rendered >= doc.rendered,
         Follows(host, host'), wire' \in Seq(State), calls' = calls,
         back' \in Seq(Honest(doc)) \/ back' \in Seq(Honest(doc'))
  PROVE  PanelInv'
<1>1. doc \in Document /\ doc' \in Document
  BY DEF PanelInv, DocumentInv
<1>2. doc.rendered \in Nat /\ doc'.rendered \in Nat /\ host.rendered \in Nat /\ host'.rendered \in Nat
  BY <1>1 DEF Document, PanelInv, Follows, Sound, Provider
<1>3. back' \in Seq(Honest(doc'))
  BY <1>1, <1>2, HonestGrows
<1> QED BY <1>2, <1>3 DEF PanelInv, Follows

LEMMA HideInv ==
  ASSUME PanelInv, Hide
  PROVE  PanelInv'
<1> DEFINE g == [host EXCEPT !.view = "hidden"]
           h == Shows(g, FALSE)
           k == [h EXCEPT !.ready = @ /\ h.retain]
<1>1. Follows(host, g) /\ Sound(g)
  BY HostFollows DEF Follows, Sound, Provider
<1>2. /\ host' = Post(k, FALSE, FALSE) /\ doc' \in {doc, [doc EXCEPT !.kind = "none"]}
      /\ UNCHANGED <<wire, back, calls>>
  BY DEF Hide
<1> HIDE DEF g
<1>3. Follows(host, h) /\ Sound(h)
  BY <1>1, ShowsFollows, FollowsTrans DEF Follows
<1> HIDE DEF h
<1>4. Follows(host, k) /\ Sound(k)
  <2> DEFINE b == h.ready /\ h.retain
  <2>1. b \in BOOLEAN
    OBVIOUS
  <2>2. k = [h EXCEPT !.ready = b]
    OBVIOUS
  <2> HIDE DEF b, k
  <2>3. Follows(h, k)
    BY <1>3, <2>1, <2>2, FlagsFollow
  <2> QED BY <1>3, <2>3, FollowsTrans DEF Follows
<1> HIDE DEF k
<1>5. Follows(host, host')
  BY <1>2, <1>4, PostFollows, FollowsTrans
<1>6. DocumentInv' /\ doc'.gen = doc.gen /\ doc'.rendered = doc.rendered /\ doc.rendered \in Nat
  <2>1. DocumentInv /\ doc.rendered \in Nat
    BY DEF PanelInv, DocumentInv, Document
  <2>2. CASE doc' = doc
    BY <2>1, <2>2 DEF DocumentInv
  <2>3. CASE doc' = [doc EXCEPT !.kind = "none"]
    BY <2>1, <2>3 DEF DocumentInv, Document
  <2> QED BY <1>2, <2>1, <2>2, <2>3
<1>7. /\ doc'.rendered >= doc.rendered
      /\ wire' \in Seq(State) /\ calls' = calls /\ back' \in Seq(Honest(doc))
  BY <1>2, <1>6 DEF PanelInv
<1> QED BY <1>5, <1>6, <1>7, DocumentStep

LEMMA DropInv ==
  ASSUME PanelInv, Drop
  PROVE  PanelInv'
<1>1. back' \in Seq(Honest(doc)) /\ UNCHANGED <<host, doc, wire, calls>>
  BY HeadTailProperties DEF Drop, Heard, PanelInv
<1> QED BY <1>1 DEF PanelInv, DocumentInv

(* What the document says of itself is honest.                             *)
LEMMA ToldHonestly ==
  ASSUME PanelInv, NEW d \in Document, d.gen = doc.gen, d.rendered >= doc.rendered,
         NEW m \in Message, m.gen = d.gen, Reports(m) => m.seq <= d.rendered
  PROVE  Append(back, m) \in Seq(Honest(d))
<1>1. doc.gen \in Nat /\ doc \in Document /\ d.gen <= d.gen
      /\ doc.rendered \in Nat /\ d.rendered \in Nat
  BY DEF PanelInv, DocumentInv, Document
<1>2. back \in Seq(Honest(d))
  BY <1>1, HonestGrows DEF PanelInv
<1>3. m \in Honest(d)
  BY <1>1 DEF Honest
<1> QED BY <1>2, <1>3, AppendProperties

LEMMA StartInv ==
  ASSUME PanelInv, Start
  PROVE  PanelInv'
<1> DEFINE v == [kind |-> "visibility", gen |-> doc.gen, hidden |-> FALSE]
           r == [kind |-> "ready", gen |-> doc.gen]
<1>1. doc' = [doc EXCEPT !.started = TRUE] /\ back' = back \o <<v, r>>
      /\ UNCHANGED <<host, wire, calls>>
  BY DEF Start
<1>2. DocumentInv' /\ doc'.gen = doc.gen /\ doc'.rendered = doc.rendered /\ doc.rendered \in Nat
      /\ doc.gen \in Nat
  BY <1>1 DEF PanelInv, DocumentInv, Document
<1>3. v \in Honest(doc) /\ r \in Honest(doc)
  BY <1>2 DEF Honest, Message, Reports
<1> HIDE DEF v, r
<1>4. <<v, r>> \in Seq(Honest(doc))
  BY <1>3
<1>5. back' \in Seq(Honest(doc))
  BY <1>1, <1>4, ConcatProperties DEF PanelInv
<1> QED BY <1>1, <1>2, <1>5, HostFollows, DocumentStep DEF PanelInv

LEMMA ReceiveInv ==
  ASSUME PanelInv, Receive
  PROVE  PanelInv'
<1> DEFINE m == Head(wire)
           d == [doc EXCEPT !.received = m.seq, !.next = m.seq, !.nextVersion = m.version,
                            !.awaiting = FALSE, !.frame = ~doc.hidden]
<1>1. /\ wire /= <<>> /\ wire' = Tail(wire) /\ UNCHANGED <<host, back, calls>>
      /\ doc' = IF m.seq <= doc.received THEN doc ELSE d
  BY DEF Receive
<1>2. m \in State /\ wire' \in Seq(State)
  BY <1>1, HeadTailProperties DEF PanelInv
<1>3. m.seq \in Nat /\ m.version \in Versions
  BY <1>2 DEF State
<1> HIDE DEF m
<1>4. doc \in Document /\ doc.rendered <= doc.received
      /\ doc.rendered \in Nat /\ doc.received \in Nat
  BY DEF PanelInv, DocumentInv, Document
<1>5. d \in Document
  BY <1>3, <1>4 DEF Document
<1>6. d.gen = doc.gen /\ d.rendered = doc.rendered /\ d.received = m.seq /\ d.next = m.seq
  BY <1>4 DEF Document
<1> HIDE DEF d
<1>7. DocumentInv' /\ doc'.gen = doc.gen /\ doc'.rendered = doc.rendered
  BY <1>1, <1>3, <1>4, <1>5, <1>6 DEF PanelInv, DocumentInv
<1> QED BY <1>1, <1>2, <1>4, <1>7, HostFollows, DocumentStep DEF PanelInv

LEMMA FrameInv ==
  ASSUME PanelInv, Frame
  PROVE  PanelInv'
<1> DEFINE d == [doc EXCEPT !.frame = FALSE, !.next = 0, !.rendered = doc.next,
                            !.shown = doc.nextVersion, !.broken = FALSE]
           m == [kind |-> "rendered", gen |-> doc.gen, seq |-> doc.next]
<1>1. doc.frame /\ doc' = d /\ back' = Append(back, m) /\ UNCHANGED <<host, wire, calls>>
  BY DEF Frame, Tell
<1>2. doc \in Document /\ doc.next = doc.received /\ doc.rendered <= doc.next
      /\ doc.rendered \in Nat /\ doc.next \in Nat /\ doc.gen \in Nat
  BY <1>1 DEF PanelInv, DocumentInv, Document
<1>3. d \in Document
  BY <1>2 DEF Document
<1>4. d.gen = doc.gen /\ d.rendered = doc.next /\ d.received = doc.received /\ ~d.frame
  BY <1>2 DEF Document
<1>5. m \in Message /\ m.gen = doc.gen /\ m.seq = doc.next
  BY <1>2 DEF Message
<1> HIDE DEF d, m
<1>6. back' \in Seq(Honest(doc'))
  BY <1>1, <1>2, <1>3, <1>4, <1>5, ToldHonestly
<1>7. DocumentInv' /\ doc'.gen = doc.gen /\ doc'.rendered >= doc.rendered
  BY <1>1, <1>2, <1>3, <1>4 DEF DocumentInv
<1> QED BY <1>1, <1>6, <1>7, HostFollows, DocumentStep DEF PanelInv

LEMMA FrameFailsInv ==
  ASSUME PanelInv, FrameFails
  PROVE  PanelInv'
<1>1. doc' = [doc EXCEPT !.frame = FALSE, !.next = 0, !.broken = TRUE]
      /\ UNCHANGED <<host, wire, back, calls>>
  BY DEF FrameFails
<1>2. DocumentInv' /\ doc'.gen = doc.gen /\ doc'.rendered = doc.rendered /\ doc.rendered \in Nat
  BY <1>1 DEF PanelInv, DocumentInv, Document
<1> QED BY <1>1, <1>2, HostFollows, DocumentStep DEF PanelInv

LEMMA DocumentVisibilityInv ==
  ASSUME PanelInv, DocumentHides \/ DocumentShows
  PROVE  PanelInv'
<1>1. PICK b \in BOOLEAN :
         /\ doc' \in {[doc EXCEPT !.hidden = TRUE, !.frame = FALSE, !.awaiting = TRUE],
                      [doc EXCEPT !.hidden = FALSE, !.awaiting = TRUE]}
         /\ back' = Append(back, [kind |-> "visibility", gen |-> doc.gen, hidden |-> b])
         /\ UNCHANGED <<host, wire, calls>>
  BY DEF DocumentHides, DocumentShows, Tell
<1> DEFINE m == [kind |-> "visibility", gen |-> doc.gen, hidden |-> b]
<1>2. DocumentInv' /\ doc'.gen = doc.gen /\ doc'.rendered = doc.rendered
      /\ doc.rendered \in Nat /\ doc.gen \in Nat /\ doc \in Document
  BY <1>1 DEF PanelInv, DocumentInv, Document
<1>3. m \in Message /\ m.gen = doc.gen /\ ~Reports(m)
  BY <1>2 DEF Message, Reports
<1> HIDE DEF m
<1>4. back' \in Seq(Honest(doc))
  BY <1>1, <1>2, <1>3, ToldHonestly DEF m
<1> QED BY <1>1, <1>2, <1>4, HostFollows, DocumentStep DEF PanelInv

LEMMA BeatInv ==
  ASSUME PanelInv, Beat
  PROVE  PanelInv'
<1>0. PICK health \in Health :
         Tell([kind |-> "beat", gen |-> doc.gen, health |-> health, seq |-> doc.rendered])
  BY DEF Beat
<1> DEFINE m == [kind |-> "beat", gen |-> doc.gen, health |-> health, seq |-> doc.rendered]
<1>1. back' = Append(back, m) /\ UNCHANGED <<host, doc, wire, calls>>
  BY <1>0 DEF Beat, Tell
<1>2. doc \in Document /\ doc.rendered \in Nat /\ doc.gen \in Nat
  BY DEF PanelInv, DocumentInv, Document
<1>3. health \in {"hidden", "unknown", "broken", "ok"}
  BY <1>0 DEF Health
<1>4. m \in Message /\ m.gen = doc.gen /\ m.seq = doc.rendered
  BY <1>2, <1>3 DEF Message
<1> HIDE DEF m
<1>5. back' \in Seq(Honest(doc))
  BY <1>1, <1>2, <1>4, ToldHonestly
<1> QED BY <1>1, <1>5 DEF PanelInv, DocumentInv

-----------------------------------------------------------------------------
LEMMA PanelInit == Init => PanelInv
<1> SUFFICES ASSUME Init PROVE PanelInv
  OBVIOUS
<1>1. host \in Provider
  <2>1. \E retain \in BOOLEAN, now \in Versions :
           host = [view |-> "none", retain |-> retain, now |-> now, gen |-> 0, kind |-> "none",
                   ready |-> FALSE, greets |-> 0, probe |-> FALSE, saved |-> FALSE,
                   docShown |-> TRUE, visible |-> TRUE, posted |-> 0, delivered |-> 0,
                   rendered |-> 0, out |-> 0, dirty |-> FALSE, immediate |-> FALSE,
                   pend |-> FALSE, imm |-> FALSE, inFlight |-> FALSE, attempt |-> 0,
                   timer |-> FALSE, retryTimer |-> FALSE, retries |-> 0, seq |-> 0, sig |-> 0]
    BY DEF Init
  <2> QED BY <2>1 DEF Provider
<1>2. /\ host.inFlight = FALSE /\ host.attempt = 0 /\ host.out = 0 /\ host.rendered = 0
      /\ host.posted = 0 /\ host.seq = 0 /\ host.retries = 0 /\ host.gen = 0
  BY DEF Init
<1>3. Sound(host)
  <2>1. 0 <= 0 /\ 0 <= RetryMax
    BY Bounds
  <2> QED BY <1>1, <1>2, <2>1 DEF Sound
<1>4. doc \in Document /\ doc.gen = 0 /\ doc.rendered = 0 /\ doc.received = 0 /\ ~doc.frame
  BY NewDocumentInv DEF Init
<1>5. wire \in Seq(State) /\ back \in Seq(Honest(doc)) /\ calls \subseteq State
  BY EmptySeq DEF Init
<1> QED BY <1>2, <1>3, <1>4, <1>5 DEF PanelInv, DocumentInv

LEMMA PanelStep == PanelInv /\ [Next]_vars => PanelInv'
<1> SUFFICES ASSUME PanelInv, [Next]_vars PROVE PanelInv'
  OBVIOUS
<1>1. CASE Next
  BY <1>1, ProviderSteps, AnswersToPosts, MessagesHeard, DropInv, DisposeInv, HideInv, StartInv,
     ReceiveInv, FrameInv, FrameFailsInv, DocumentVisibilityInv, BeatInv DEF Next, Hear
<1>2. CASE UNCHANGED vars
  BY <1>2 DEF vars, PanelInv, DocumentInv
<1> QED BY <1>1, <1>2

LEMMA PanelInvHolds == Spec => []PanelInv
  BY PanelInit, PanelStep, PTL DEF Spec

(* The provider, the document and the wires have their types; a post is    *)
(* outstanding only if it is the last one and not rendered yet, and        *)
(* retries stay within their limit.                                        *)
THEOREM TypeCorrect == Spec => []TypeOK
<1>1. PanelInv => TypeOK
  BY DEF PanelInv, DocumentInv, Sound, State, TypeOK
<1> QED BY PanelInvHolds, <1>1, PTL

(* Whatever is hidden, replaced, refused, retried or told late, the        *)
(* provider takes a state for rendered only if the document it has now     *)
(* has rendered that state or a later one.                                 *)
THEOREM BeliefIsTrueHolds == Spec => []BeliefIsTrue
<1>1. PanelInv => BeliefIsTrue
  BY DEF PanelInv, BeliefIsTrue
<1> QED BY PanelInvHolds, <1>1, PTL

-----------------------------------------------------------------------------
(* No state is forgotten.  Until the newest state is shown, something is   *)
(* under way that will bring it: a post, its answer, a timer, a message of *)
(* the document, a frame.  This is the part of EventuallyShown that is not *)
(* about fairness.                                                         *)

Elements(s) == {s[i] : i \in 1..Len(s)}

Shown(h) == h.view = "shown" /\ h.docShown
Live(h) == Shown(h) /\ h.ready
Greeting(h) == h.greets > 0 \/ h.probe
Again(h) == Greeting(h) \/ h.retryTimer

(* What a provider by itself keeps about its posts and timers, and about   *)
(* what it is asked for.                                                   *)
PostsOrderly(h) ==
    /\ h.out /= 0 => h.visible /\ h.ready
    /\ h.attempt /= 0 => h.attempt = h.posted
    /\ h.posted /= 0 => h.posted = h.seq
    /\ h.timer \/ h.retryTimer => h.view /= "none"
    /\ (h.timer \/ h.retryTimer) /\ (h.view = "shown" \/ h.retain) => h.ready
    /\ h.ready => h.kind = "panel"
    /\ h.view = "none" \/ ((h.view = "shown" \/ h.retain) /\ ~h.ready) => h.posted = 0

RequestsOrderly(h) ==
    /\ h.view /= "none" /\ h.visible => Shown(h)
    /\ h.dirty => h.pend
    /\ h.pend /\ ~h.dirty => h.inFlight /\ h.out = 0
    /\ h.inFlight /\ ~h.visible => h.pend

Orderly(h) == PostsOrderly(h) /\ RequestsOrderly(h)

(* What it keeps towards a document in which the states U would be shown   *)
(* in the end, one of which it has received and not rendered if lost, and  *)
(* which is going to say that it is hidden if hides.                       *)
Steady(h, U, lost, hides) ==
    /\ Live(h) => h.visible \/ Greeting(h)
    /\ Live(h) /\ h.posted = 0 => Greeting(h)
    /\ Live(h) /\ h.visible /\ h.pend => h.timer \/ h.inFlight \/ h.out /= 0 \/ Again(h)
    /\ Live(h) /\ h.visible /\ h.posted /= 0 /\ ~h.pend =>
          h.now \in U \/ (~h.inFlight /\ h.out = 0 /\ Again(h))
    /\ Live(h) /\ ~h.inFlight /\ h.posted /= 0 => h.sig \in U \/ (h.out = 0 /\ Again(h))
    /\ Live(h) /\ h.visible /\ lost /\ ~hides =>
          /\ h.out = 0
          /\ \/ h.inFlight /\ h.pend /\ h.immediate
             \/ Greeting(h) \/ (~h.inFlight /\ h.retryTimer)

(* The states that the document would show in the end, if no more came.    *)
Upcoming(d, w) ==
    {v \in Versions : IF w /= <<>> THEN w[Len(w)].version = v
                      ELSE IF d.next /= 0 THEN d.nextVersion = v
                      ELSE d.broken \/ d.shown = v}

Lost(d, w) == w = <<>> /\ d.next /= 0 /\ ~d.frame

(* What the document d has told, and the provider has not heard.           *)
Ours(d, m) == m.gen = d.gen
TellsHidden(d, m) == Ours(d, m) /\ m.kind = "visibility" /\ m.hidden
TellsShown(d, m) ==
    Ours(d, m) /\ ((m.kind = "visibility" /\ ~m.hidden) \/ (m.kind = "beat" /\ m.health = "ok"))

HidesComes(d, b) == \E m \in Elements(b) : TellsHidden(d, m)
ReadyComes(d, b) == \E m \in Elements(b) : Ours(d, m) /\ m.kind = "ready"
RenderComes(d, b, n) == \E m \in Elements(b) : Ours(d, m) /\ m.kind = "rendered" /\ m.seq = n

Matches(h, d) ==
    /\ d.kind \in {"none", h.kind}
    /\ h.view = "shown" \/ (h.view = "hidden" /\ h.retain) => d.kind = h.kind
    /\ h.ready /\ d.kind = "panel" => d.started
    /\ d.hidden => d.started
    /\ d.started => h.kind = "panel"

HiddenLast(d, b) ==
    \A i \in 1..Len(b) : TellsShown(d, b[i]) => \E j \in 1..Len(b) : j > i /\ TellsHidden(d, b[j])

Tells(h, d, b) ==
    /\ \A m \in Elements(b) : Ours(d, m) => d.started
    /\ d.kind = "panel" /\ d.started /\ ~h.ready => ReadyComes(d, b)
    /\ d.hidden /\ h.docShown => HidesComes(d, b)
    /\ d.hidden => HiddenLast(d, b)

Arrives(h, d, w) ==
    /\ \A i \in 1..Len(w) : d.received < w[i].seq /\ w[i].seq <= h.seq
    /\ \A i, j \in 1..Len(w) : i < j => w[i].seq < w[j].seq
    /\ w /= <<>> /\ h.posted /= 0 => w[Len(w)].seq = h.posted
    /\ h.posted /= 0 /\ d.kind = "panel" /\ w = <<>> => d.received = h.posted
    /\ d.received <= h.seq

Renders(d) ==
    /\ d.next /= 0 => d.next = d.received /\ d.rendered < d.next
    /\ d.frame => d.next /= 0 /\ ~d.hidden

Outstanding(h, d, w, b) ==
    h.out /= 0 /\ d.kind = "panel" /\ ~HidesComes(d, b) =>
        w /= <<>> \/ d.frame \/ (d.broken /\ d.next = 0) \/ RenderComes(d, b, h.out)

Decided(h, d, w, c) ==
    /\ \A call \in c : call.seq /= 0 /\ call.seq <= h.seq
    /\ h.inFlight => \E call \in c : call.seq = h.attempt
    /\ h.inFlight /\ d.kind = "panel" =>
          \A call \in c : call.seq = h.attempt => call.version \in Upcoming(d, w)

FlowInv ==
    /\ Orderly(host)
    /\ Steady(host, Upcoming(doc, wire), Lost(doc, wire), HidesComes(doc, back))
    /\ Matches(host, doc)
    /\ Tells(host, doc, back)
    /\ Arrives(host, doc, wire)
    /\ Renders(doc)
    /\ Outstanding(host, doc, wire, back)
    /\ Decided(host, doc, wire, calls)

Rests ==
    /\ ~host.timer /\ ~host.retryTimer /\ host.greets = 0 /\ ~host.probe
    /\ calls = {} /\ wire = <<>> /\ back = <<>> /\ ~doc.frame

NothingForgotten ==
    Rests /\ Viewable /\ host.docShown /\ doc.started /\ ~doc.broken => doc.shown = host.now

-----------------------------------------------------------------------------
(* What a turn of the provider does to its fields.                         *)

(* The fields that a post leaves alone, and those of the last post.        *)
Apart(h, g) ==
    \A f \in {"view", "retain", "now", "gen", "kind", "ready", "greets", "probe", "docShown",
              "retryTimer", "sig"} : g[f] = h[f]
SamePost(h, g) == \A f \in {"seq", "posted", "attempt", "inFlight"} : g[f] = h[f]

NewPost(h, g) ==
    /\ g.seq = h.seq + 1 /\ g.posted = g.seq /\ g.attempt = g.seq /\ g.out = g.seq
    /\ g.inFlight /\ ~g.dirty /\ ~g.pend

StillOut(h) == IF Shown(h) THEN h.out ELSE 0

SyncDoes(h, g) ==
    /\ Apart(h, g) /\ SamePost(h, g)
    /\ g.visible = Shown(h) /\ g.out = StillOut(h)
    /\ g.dirty = (h.dirty \/ g.out /= h.out)
    /\ \A f \in {"pend", "imm", "immediate", "timer"} : g[f] = h[f]

FlushDoes(h, now, g) ==
    /\ Apart(h, g) /\ ~g.timer /\ g.visible = Shown(h)
    /\ \/ /\ SamePost(h, g) /\ g.out = StillOut(h) /\ (~Shown(h) \/ h.out /= 0)
          /\ g.dirty /\ g.pend /\ (h.immediate => g.immediate)
       \/ /\ Shown(h) /\ h.out = 0 /\ h.inFlight
          /\ SamePost(h, g) /\ g.out = 0 /\ g.dirty = h.dirty /\ g.pend /\ g.immediate = h.immediate
       \/ /\ Shown(h) /\ h.out = 0 /\ ~h.inFlight /\ ~now /\ ~h.pend
          /\ SamePost(h, g) /\ g.out = 0 /\ g.dirty = h.dirty /\ ~g.pend
       \/ /\ Shown(h) /\ h.out = 0 /\ ~h.inFlight /\ ~now /\ h.now = h.sig
          /\ SamePost(h, g) /\ g.out = 0 /\ ~g.dirty /\ ~g.pend
       \/ Shown(h) /\ NewPost(h, g)

PostDoes(h, now, boot, g) ==
    /\ Apart(h, g) /\ g.visible = Shown(h)
    /\ \/ /\ SamePost(h, g) /\ g.out = StillOut(h) /\ g.dirty /\ g.pend
          /\ g.immediate = (h.immediate \/ now \/ boot)
          /\ \/ (~Shown(h) \/ h.out /= 0) /\ ~g.timer
             \/ Shown(h) /\ h.out = 0 /\ ~h.ready /\ g.timer = h.timer
             \/ Shown(h) /\ h.out = 0 /\ h.ready /\ h.inFlight /\ g.timer \in {FALSE, h.timer}
             \/ Shown(h) /\ h.out = 0 /\ h.ready /\ ~h.inFlight /\ ~now /\ g.timer
       \/ Shown(h) /\ h.ready /\ NewPost(h, g)

(* What is outstanding is outstanding in a visible panel.                  *)
Tidy(h) == Sound(h) /\ (h.out /= 0 => h.visible)

LEMMA SyncEffect ==
  ASSUME NEW h, Tidy(h)
  PROVE  Sound(Sync(h)) /\ SyncDoes(h, Sync(h))
<1> DEFINE v == Shown(h)
           r == [h EXCEPT !.visible = FALSE, !.out = 0, !.dirty = TRUE]
           s == [h EXCEPT !.visible = v]
<1>1. Sound(Sync(h)) /\ h \in Provider /\ v \in BOOLEAN /\ (h.visible \in BOOLEAN) /\ h.dirty \in BOOLEAN
  BY SyncFollows DEF Follows, Tidy, Sound, Provider, Shown
<1>2. h.out /= 0 <=> Awaiting(h)
  BY DEF Tidy, Sound, Awaiting
<1>3. Sync(h) = IF ~v /\ h.out /= 0 THEN r ELSE s
  BY <1>2 DEF Sync, SetVisible, Shown, Tidy
<1> HIDE DEF v
<1>4. /\ Apart(h, r) /\ SamePost(h, r) /\ r.visible = FALSE /\ r.out = 0 /\ r.dirty = TRUE
      /\ \A f \in {"pend", "imm", "immediate", "timer"} : r[f] = h[f]
  BY <1>1 DEF Provider, Apart, SamePost
<1>5. /\ Apart(h, s) /\ SamePost(h, s) /\ s.visible = v /\ s.out = h.out /\ s.dirty = h.dirty
      /\ \A f \in {"pend", "imm", "immediate", "timer"} : s[f] = h[f]
  BY <1>1 DEF Provider, Apart, SamePost
<1> HIDE DEF r, s
<1>6. CASE ~v /\ h.out /= 0
  BY <1>1, <1>3, <1>4, <1>6 DEF SyncDoes, StillOut, v
<1>7. CASE v \/ h.out = 0
  BY <1>1, <1>3, <1>5, <1>7 DEF SyncDoes, StillOut, v
<1> QED BY <1>6, <1>7

(* The same, but for what the panel asks for.                              *)
Asks(h, g, f) == \A x \in f : g[x] = h[x]

LEMMA ApartTrans ==
  ASSUME NEW h, NEW g, NEW k, Apart(h, g), Apart(g, k)
  PROVE  Apart(h, k)
  BY DEF Apart

LEMMA SamePostTrans ==
  ASSUME NEW h, NEW g, NEW k, SamePost(h, g), SamePost(g, k)
  PROVE  SamePost(h, k)
  BY DEF SamePost

LEMMA SetsAlone ==
  ASSUME NEW h \in Provider, NEW a \in BOOLEAN, NEW b \in BOOLEAN
  PROVE  /\ LET g == [h EXCEPT !.timer = a]
            IN  Apart(h, g) /\ SamePost(h, g) /\ g.timer = a
                /\ Asks(h, g, {"visible", "out", "dirty", "pend", "imm", "immediate"})
         /\ LET g == [h EXCEPT !.pend = a]
            IN  Apart(h, g) /\ SamePost(h, g) /\ g.pend = a
                /\ Asks(h, g, {"visible", "out", "dirty", "timer", "imm", "immediate"})
         /\ LET g == [h EXCEPT !.pend = a, !.imm = b]
            IN  Apart(h, g) /\ SamePost(h, g) /\ g.pend = a /\ g.imm = b
                /\ Asks(h, g, {"visible", "out", "dirty", "timer", "immediate"})
  BY DEF Provider, Apart, SamePost, Asks

LEMMA RequestEffect ==
  ASSUME NEW h \in Provider, NEW now \in BOOLEAN
  PROVE  LET g == Request(h, now)
         IN  /\ Apart(h, g) /\ SamePost(h, g) /\ g.dirty = TRUE /\ g.immediate = (h.immediate \/ now)
             /\ Asks(h, g, {"visible", "out", "pend", "timer", "imm"})
  BY DEF Request, Provider, Apart, SamePost, Asks

LEMMA SendEffect ==
  ASSUME NEW h \in Provider
  PROVE  LET g == Send(h)
         IN  /\ Apart(h, g) /\ NewPost(h, g)
             /\ g.visible = h.visible /\ g.timer = h.timer
  BY DEF Send, Provider, Apart, NewPost

LEMMA UnchangedEffect ==
  ASSUME NEW h \in Provider
  PROVE  LET g == Unchanged(h)
         IN  /\ Apart(h, g) /\ SamePost(h, g) /\ g.dirty = FALSE /\ g.pend = FALSE
             /\ Asks(h, g, {"visible", "out", "timer"})
  BY DEF Unchanged, Provider, Apart, SamePost, Asks

LEMMA FlushEffect ==
  ASSUME NEW h, Tidy(h), h.view /= "none", NEW now \in BOOLEAN
  PROVE  FlushDoes(h, now, Flush(h, now))
<1> DEFINE t == [h EXCEPT !.timer = FALSE]
           s == Sync(t)
           force == now \/ h.imm
           r == Request(s, force)
<1>1. /\ Sound(t) /\ h \in Provider /\ force \in BOOLEAN /\ Apart(h, t) /\ SamePost(h, t) /\ t.timer = FALSE
      /\ Asks(h, t, {"visible", "out", "dirty", "pend", "imm", "immediate"})
  <2>1. h \in Provider
    BY DEF Tidy, Sound
  <2>2. force \in BOOLEAN
    BY <2>1 DEF Provider
  <2>3. Sound(t)
    BY FlagsFollow DEF Follows, Tidy
  <2> QED BY <2>1, <2>2, <2>3, SetsAlone
<1> HIDE DEF t, force
<1>2. Tidy(t) /\ Shown(t) = Shown(h) /\ StillOut(t) = StillOut(h)
  BY <1>1 DEF Tidy, Asks, Apart, Shown, StillOut
<1>3. /\ Sound(s) /\ s \in Provider /\ Apart(h, s) /\ SamePost(h, s)
      /\ s.visible = Shown(h) /\ s.out = StillOut(h) /\ s.dirty = (h.dirty \/ s.out /= h.out)
      /\ s.timer = FALSE /\ s.pend = h.pend /\ s.imm = h.imm /\ s.immediate = h.immediate
  <2>1. Sound(s) /\ SyncDoes(t, s)
    BY <1>2, SyncEffect
  <2> QED BY <1>1, <1>2, <2>1, ApartTrans, SamePostTrans DEF SyncDoes, Asks, Sound
<1> HIDE DEF s
<1>4. /\ Sound(r) /\ r \in Provider /\ Apart(h, r) /\ SamePost(h, r)
      /\ r.visible = Shown(h) /\ r.out = StillOut(h) /\ r.dirty = TRUE /\ r.timer = FALSE
      /\ r.imm = h.imm /\ r.immediate = (h.immediate \/ force)
  <2>1. Sound(r)
    BY <1>1, <1>3, RequestFollows DEF Follows
  <2>2. Apart(s, r) /\ SamePost(s, r) /\ r.dirty = TRUE /\ r.immediate = (s.immediate \/ force)
        /\ Asks(s, r, {"visible", "out", "pend", "timer", "imm"})
    <3>1. s \in Provider /\ force \in BOOLEAN
      BY <1>1, <1>3
    <3> HIDE DEF r
    <3>2. r = Request(s, force)
      BY DEF r
    <3>3. Apart(s, r) /\ SamePost(s, r) /\ Asks(s, r, {"visible", "out", "pend", "timer", "imm"})
      BY <3>1, <3>2, RequestEffect
    <3>4. r.dirty = TRUE
      BY <3>1, <3>2, RequestEffect
    <3>5. r.immediate = (s.immediate \/ force)
      BY <3>1, <3>2, RequestEffect
    <3> QED BY <3>3, <3>4, <3>5
  <2> HIDE DEF r
  <2> QED BY <1>3, <2>1, <2>2, ApartTrans, SamePostTrans DEF Asks, Sound
<1> HIDE DEF r
<1> DEFINE k1 == [r EXCEPT !.pend = TRUE]
           k2 == [r EXCEPT !.pend = TRUE, !.imm = @ \/ force]
           k3 == [s EXCEPT !.pend = TRUE, !.imm = @ \/ force]
           k4 == Unchanged(s)
           k5 == Send(s)
           g == Flush(h, now)
<1>5. Awaiting(s) <=> s.out /= 0
  BY <1>3 DEF Sound, Awaiting
<1>6. s.docShown = h.docShown /\ s.view = h.view /\ s.now = h.now /\ s.sig = h.sig /\ s.inFlight = h.inFlight
  BY <1>3 DEF Apart, SamePost
<1>7. g = IF ~Shown(h) THEN k1 ELSE IF s.out /= 0 THEN k2 ELSE IF h.inFlight THEN k3
          ELSE IF ~force /\ ~h.pend THEN s ELSE IF ~force /\ h.now = h.sig THEN k4 ELSE k5
  BY <1>3, <1>5, <1>6 DEF Flush, Shown, k1, k2, k3, k4, k5, s, r, t, force
<1>8. r.imm \in BOOLEAN /\ s.imm \in BOOLEAN /\ (r.imm \/ force) \in BOOLEAN /\ (s.imm \/ force) \in BOOLEAN
  BY <1>1, <1>3, <1>4 DEF Provider
<1>9. Apart(r, k1) /\ SamePost(r, k1) /\ k1.pend = TRUE
      /\ Asks(r, k1, {"visible", "out", "dirty", "timer", "imm", "immediate"})
  BY <1>4, SetsAlone
<1>10. Apart(r, k2) /\ SamePost(r, k2) /\ k2.pend = TRUE
       /\ Asks(r, k2, {"visible", "out", "dirty", "timer", "immediate"})
  BY <1>4, <1>8, SetsAlone
<1>11. Apart(s, k3) /\ SamePost(s, k3) /\ k3.pend = TRUE
       /\ Asks(s, k3, {"visible", "out", "dirty", "timer", "immediate"})
  BY <1>3, <1>8, SetsAlone
<1>12. Apart(s, k4) /\ SamePost(s, k4) /\ k4.dirty = FALSE /\ k4.pend = FALSE
       /\ Asks(s, k4, {"visible", "out", "timer"})
  BY <1>3, UnchangedEffect
<1>13. Apart(s, k5) /\ NewPost(s, k5) /\ k5.visible = s.visible /\ k5.timer = s.timer
  BY <1>3, SendEffect
<1> HIDE DEF k1, k2, k3, k4, k5, g
<1>14. Apart(h, k1) /\ Apart(h, k2) /\ Apart(h, k3) /\ Apart(h, k4) /\ Apart(h, k5)
       /\ SamePost(h, k1) /\ SamePost(h, k2) /\ SamePost(h, k3) /\ SamePost(h, k4)
  BY <1>3, <1>4, <1>9, <1>10, <1>11, <1>12, <1>13, ApartTrans, SamePostTrans
<1>15. h.pend \in BOOLEAN /\ h.immediate \in BOOLEAN /\ h.dirty \in BOOLEAN /\ force \in BOOLEAN /\ (now => force)
  BY <1>1 DEF Provider, force
<1>16. CASE ~Shown(h)
  <2>1. g = k1
    BY <1>7, <1>16
  <2>2. /\ k1.timer = FALSE /\ k1.visible = Shown(h) /\ k1.out = StillOut(h) /\ k1.dirty = TRUE
        /\ k1.immediate = (h.immediate \/ force)
    BY <1>4, <1>9 DEF Asks
  <2> QED BY <1>9, <1>14, <1>15, <1>16, <2>1, <2>2 DEF FlushDoes, g
<1>17. CASE Shown(h) /\ h.out /= 0
  <2>1. g = k2
    BY <1>3, <1>7, <1>17 DEF StillOut
  <2>2. /\ k2.timer = FALSE /\ k2.visible = Shown(h) /\ k2.out = StillOut(h) /\ k2.dirty = TRUE
        /\ k2.immediate = (h.immediate \/ force)
    BY <1>4, <1>10 DEF Asks
  <2> QED BY <1>10, <1>14, <1>15, <1>17, <2>1, <2>2 DEF FlushDoes, g
<1>18. CASE Shown(h) /\ h.out = 0
  <2>1. s.out = 0 /\ (s.dirty = h.dirty)
    BY <1>3, <1>15, <1>18 DEF StillOut
  <2>2. CASE h.inFlight
    <3>1. g = k3
      BY <1>7, <1>18, <2>1, <2>2
    <3>2. /\ k3.timer = FALSE /\ k3.visible = Shown(h) /\ k3.out = 0 /\ k3.dirty = h.dirty
          /\ k3.immediate = h.immediate
      BY <1>3, <1>11, <2>1 DEF Asks
    <3> QED BY <1>11, <1>14, <1>18, <2>2, <3>1, <3>2 DEF FlushDoes, g
  <2>3. CASE ~h.inFlight /\ ~force /\ ~h.pend
    <3>1. g = s
      BY <1>7, <1>18, <2>1, <2>3
    <3> QED BY <1>3, <1>15, <1>18, <2>1, <2>3, <3>1 DEF FlushDoes, g
  <2>4. CASE ~h.inFlight /\ ~force /\ h.pend /\ h.now = h.sig
    <3>1. g = k4
      BY <1>7, <1>18, <2>1, <2>4
    <3>2. k4.timer = FALSE /\ k4.visible = Shown(h) /\ k4.out = 0
      BY <1>3, <1>12, <2>1 DEF Asks
    <3> QED BY <1>12, <1>14, <1>15, <1>18, <2>4, <3>1, <3>2 DEF FlushDoes, g
  <2>5. CASE ~h.inFlight /\ ~(~force /\ ~h.pend) /\ ~(~force /\ h.now = h.sig)
    <3>1. g = k5
      BY <1>7, <1>18, <2>1, <2>5
    <3>2. NewPost(h, k5)
      BY <1>3, <1>13 DEF NewPost, SamePost
    <3>3. k5.timer = FALSE /\ k5.visible = Shown(h)
      BY <1>3, <1>13
    <3> QED BY <1>14, <1>18, <3>1, <3>2, <3>3 DEF FlushDoes, g
  <2> QED BY <2>2, <2>3, <2>4, <2>5
<1> QED BY <1>16, <1>17, <1>18

LEMMA PostEffect ==
  ASSUME NEW h, Tidy(h), h.view /= "none", NEW now \in BOOLEAN, NEW boot \in BOOLEAN
  PROVE  PostDoes(h, now, boot, Post(h, now, boot))
<1> DEFINE t == Sync(h)
           s == Request(t, now \/ boot)
           r == [s EXCEPT !.pend = TRUE, !.imm = s.immediate]
           k1 == [r EXCEPT !.timer = FALSE]
           k2 == Flush(r, TRUE)
           k3 == [r EXCEPT !.timer = TRUE]
           g == Post(h, now, boot)
           asked == now \/ boot
<1>1. Sound(t) /\ SyncDoes(h, t) /\ t \in Provider /\ h \in Provider
  BY SyncEffect DEF Tidy, Sound
<1> HIDE DEF t
<1>2. /\ Sound(s) /\ s \in Provider /\ Apart(t, s) /\ SamePost(t, s) /\ s.dirty = TRUE
      /\ s.immediate = (t.immediate \/ asked)
      /\ Asks(t, s, {"visible", "out", "pend", "timer", "imm"})
  <2>1. asked \in BOOLEAN /\ s = Request(t, asked)
    OBVIOUS
  <2> HIDE DEF s, asked
  <2>2. Sound(s)
    BY <1>1, <2>1, RequestFollows DEF Follows
  <2>3. Apart(t, s) /\ SamePost(t, s) /\ Asks(t, s, {"visible", "out", "pend", "timer", "imm"})
    BY <1>1, <2>1, RequestEffect
  <2>4. s.dirty = TRUE
    BY <1>1, <2>1, RequestEffect
  <2>5. s.immediate = (t.immediate \/ asked)
    BY <1>1, <2>1, RequestEffect
  <2> QED BY <2>2, <2>3, <2>4, <2>5 DEF Sound
<1> HIDE DEF s, asked
<1>3. s.immediate \in BOOLEAN /\ h.immediate \in BOOLEAN /\ asked \in BOOLEAN
  BY <1>1, <1>2 DEF Provider, asked
<1>4. /\ Sound(r) /\ r \in Provider /\ Apart(s, r) /\ SamePost(s, r) /\ r.pend = TRUE /\ r.imm = s.immediate
      /\ Asks(s, r, {"visible", "out", "dirty", "timer", "immediate"})
  <2>1. Sound(r)
    BY <1>2, <1>3, FlagsFollow DEF Follows
  <2> QED BY <1>2, <1>3, <2>1, SetsAlone DEF Sound
<1> HIDE DEF r
<1>5. /\ Apart(h, r) /\ SamePost(h, r)
      /\ r.visible = Shown(h) /\ r.out = StillOut(h) /\ r.dirty = TRUE /\ r.pend = TRUE /\ r.timer = h.timer
  BY <1>1, <1>2, <1>4, ApartTrans, SamePostTrans DEF SyncDoes, Asks
<1>6. r.immediate = (h.immediate \/ asked)
  BY <1>1, <1>2, <1>4 DEF SyncDoes, Asks
<1>7. /\ Awaiting(r) <=> r.out /= 0
      /\ Shown(r) = Shown(h) /\ r.ready = h.ready /\ r.inFlight = h.inFlight /\ r.view = h.view
  BY <1>4, <1>5 DEF Sound, Awaiting, Shown, Apart, SamePost
<1>8. g = IF ~Shown(h) \/ r.out /= 0 THEN k1 ELSE IF ~h.ready THEN r ELSE IF now THEN k2
          ELSE IF h.inFlight THEN r ELSE k3
  BY <1>5, <1>7 DEF Post, k1, k2, k3, r, s, t
<1>9. /\ Apart(r, k1) /\ SamePost(r, k1) /\ k1.timer = FALSE
      /\ Asks(r, k1, {"visible", "out", "dirty", "pend", "imm", "immediate"})
      /\ Apart(r, k3) /\ SamePost(r, k3) /\ k3.timer = TRUE
      /\ Asks(r, k3, {"visible", "out", "dirty", "pend", "imm", "immediate"})
  BY <1>4, SetsAlone
<1>10. ASSUME Shown(h), r.out = 0
       PROVE  FlushDoes(r, TRUE, k2)
  <2>1. Tidy(r)
    BY <1>4, <1>10 DEF Tidy
  <2> QED BY <1>7, <2>1, FlushEffect
<1> HIDE DEF k1, k2, k3, g
<1>11. Apart(h, k1) /\ Apart(h, k3) /\ SamePost(h, k1) /\ SamePost(h, k3)
  BY <1>5, <1>9, ApartTrans, SamePostTrans
<1>12. CASE ~Shown(h) \/ r.out /= 0
  <2>1. g = k1
    BY <1>8, <1>12
  <2>2. /\ k1.visible = Shown(h) /\ k1.out = StillOut(h) /\ k1.dirty = TRUE /\ k1.pend = TRUE
        /\ k1.immediate = (h.immediate \/ asked)
    BY <1>5, <1>6, <1>9 DEF Asks
  <2>3. ~Shown(h) \/ h.out /= 0
    BY <1>5, <1>12 DEF StillOut
  <2> QED BY <1>9, <1>11, <2>1, <2>2, <2>3 DEF PostDoes, g, asked
<1>13. CASE Shown(h) /\ r.out = 0
  <2>1. h.out = 0 /\ StillOut(h) = 0
    BY <1>5, <1>13 DEF StillOut
  <2>2. CASE ~h.ready
    <3>1. g = r
      BY <1>8, <1>13, <2>2
    <3> QED BY <1>5, <1>6, <1>13, <2>1, <2>2, <3>1 DEF PostDoes, g, asked
  <2>3. CASE h.ready /\ now
    <3>1. g = k2 /\ FlushDoes(r, TRUE, k2)
      BY <1>8, <1>10, <1>13, <2>3
    <3>2. Apart(h, k2) /\ k2.timer = FALSE /\ k2.visible = Shown(h)
      BY <1>5, <1>7, <3>1, ApartTrans DEF FlushDoes
    <3>3. CASE NewPost(r, k2)
      <4>1. NewPost(h, k2)
        BY <1>5, <3>3 DEF NewPost, SamePost
      <4> QED BY <1>13, <2>3, <3>1, <3>2, <4>1 DEF PostDoes, g
    <3>4. CASE ~NewPost(r, k2)
      <4>1. /\ h.inFlight /\ SamePost(r, k2) /\ k2.out = 0 /\ k2.dirty = TRUE /\ k2.pend
            /\ k2.immediate = r.immediate
        BY <1>5, <1>7, <1>13, <3>1, <3>4 DEF FlushDoes
      <4>2. SamePost(h, k2)
        BY <1>5, <4>1, SamePostTrans
      <4>3. k2.immediate = (h.immediate \/ asked)
        BY <1>6, <4>1
      <4> QED BY <1>13, <2>1, <2>3, <3>1, <3>2, <4>1, <4>2, <4>3 DEF PostDoes, g, asked
    <3> QED BY <3>3, <3>4
  <2>4. CASE h.ready /\ ~now /\ h.inFlight
    <3>1. g = r
      BY <1>8, <1>13, <2>4
    <3> QED BY <1>5, <1>6, <1>13, <2>1, <2>4, <3>1 DEF PostDoes, g, asked
  <2>5. CASE h.ready /\ ~now /\ ~h.inFlight
    <3>1. g = k3
      BY <1>8, <1>13, <2>5
    <3>2. /\ k3.visible = Shown(h) /\ k3.out = 0 /\ k3.dirty = TRUE /\ k3.pend = TRUE
          /\ k3.immediate = (h.immediate \/ asked)
      BY <1>5, <1>6, <1>9, <2>1 DEF Asks
    <3> QED BY <1>9, <1>11, <1>13, <2>1, <2>5, <3>1, <3>2 DEF PostDoes, g, asked
  <2> QED BY <2>2, <2>3, <2>4, <2>5
<1> QED BY <1>12, <1>13

-----------------------------------------------------------------------------
(* A turn towards a document that stays: it posts nothing, or its own state *)
(* is the one that will be shown.                                           *)

Kept(h, g) ==
    /\ g.seq = h.seq /\ g.posted = h.posted
    /\ g.out \in {0, h.out} /\ g.attempt \in {0, h.attempt}
Sent(h, g) ==
    /\ g.seq > h.seq /\ g.posted = g.seq /\ g.attempt \in {0, g.seq}

Turned(h, g, U, lost, hides) ==
    /\ Sound(g) /\ g.gen = h.gen /\ g.now = h.now /\ Orderly(g)
    /\ \/ Kept(h, g) /\ Steady(g, U, lost, hides)
       \/ Sent(h, g) /\ Steady(g, {g.now}, FALSE, hides)

(* What a post may rely on.                                                *)
Allows(h, now, U, lost, hides) ==
    Live(h) =>
        /\ h.out /= 0 => (h.inFlight \/ h.sig \in U) /\ (hides \/ ~lost)
        /\ ~now /\ h.out = 0 /\ h.inFlight /\ lost /\ ~hides => h.immediate \/ Greeting(h)
        /\ ~now /\ h.out = 0 /\ ~h.inFlight =>
              /\ h.posted = 0 => Greeting(h)
              /\ h.posted /= 0 => h.sig \in U \/ Again(h)
              /\ lost /\ ~hides => Again(h)

LEMMA SteadyAllows ==
  ASSUME NEW h, Sound(h), Orderly(h), NEW U, NEW lost \in BOOLEAN, NEW hides \in BOOLEAN,
         Steady(h, U, lost, hides), NEW now \in BOOLEAN
  PROVE  Allows(h, now, U, lost, hides)
<1>1. h.out /= 0 => h.posted /= 0
  BY DEF Sound
<1> QED BY <1>1 DEF Orderly, PostsOrderly, Steady, Allows, Again

LEMMA NewPostTurned ==
  ASSUME NEW h, NEW g, Sound(h), Sound(g), Apart(h, g), NewPost(h, g), PostsOrderly(h), Shown(h), h.ready,
         g.visible = Shown(h), NEW U, NEW lost \in BOOLEAN, NEW hides \in BOOLEAN
  PROVE  Turned(h, g, U, lost, hides)
<1>1. g.seq > h.seq /\ g.seq \in Nat /\ g.seq /= 0
  BY DEF Sound, Provider, NewPost
<1>2. Sent(h, g) /\ Orderly(g)
  BY <1>1 DEF Sent, NewPost, Orderly, PostsOrderly, RequestsOrderly, Apart, Shown
<1>3. Steady(g, {g.now}, FALSE, hides)
  BY <1>1 DEF NewPost, Steady
<1>4. g.gen = h.gen /\ g.now = h.now
  BY DEF Apart
<1> QED BY <1>2, <1>3, <1>4 DEF Turned

LEMMA PostTurned ==
  ASSUME NEW h, Sound(h), PostsOrderly(h), h.view /= "none", NEW now \in BOOLEAN, NEW boot \in BOOLEAN,
         NEW U, NEW lost \in BOOLEAN, NEW hides \in BOOLEAN, Allows(h, now, U, lost, hides)
  PROVE  Turned(h, Post(h, now, boot), U, lost, hides)
<1> DEFINE g == Post(h, now, boot)
<1>1. Sound(g) /\ PostDoes(h, now, boot, g)
  BY PostFollows, PostEffect DEF Follows, Tidy, PostsOrderly
<1> HIDE DEF g
<1>2. CASE Shown(h) /\ h.ready /\ NewPost(h, g)
  <2>1. Apart(h, g) /\ g.visible = Shown(h)
    BY <1>1 DEF PostDoes
  <2>2. Turned(h, g, U, lost, hides)
    BY <1>1, <1>2, <2>1, NewPostTurned
  <2> QED BY <2>2 DEF g
<1>3. CASE ~(Shown(h) /\ h.ready /\ NewPost(h, g))
  <2>1. /\ Apart(h, g) /\ SamePost(h, g) /\ g.visible = Shown(h) /\ g.out = StillOut(h) /\ g.dirty /\ g.pend
        /\ g.immediate = (h.immediate \/ now \/ boot)
        /\ \/ (~Shown(h) \/ h.out /= 0) /\ ~g.timer
           \/ Shown(h) /\ h.out = 0 /\ ~h.ready /\ g.timer = h.timer
           \/ Shown(h) /\ h.out = 0 /\ h.ready /\ h.inFlight /\ g.timer \in {FALSE, h.timer}
           \/ Shown(h) /\ h.out = 0 /\ h.ready /\ ~h.inFlight /\ ~now /\ g.timer
    BY <1>1, <1>3 DEF PostDoes
  <2>2. Kept(h, g) /\ g.gen = h.gen /\ g.now = h.now
    BY <2>1 DEF Kept, SamePost, StillOut, Apart
  <2>3. Orderly(g)
    BY <2>1 DEF SamePost, StillOut, Apart, Orderly, PostsOrderly, RequestsOrderly, Shown
  <2>4. /\ Live(g) = Live(h) /\ Greeting(g) = Greeting(h) /\ Again(g) = Again(h) /\ Shown(g) = Shown(h)
        /\ g.sig = h.sig /\ g.inFlight = h.inFlight /\ g.posted = h.posted
    BY <2>1 DEF Apart, SamePost, Live, Shown, Greeting, Again
  <2>5. h.inFlight => h.posted /= 0
    BY DEF Sound, PostsOrderly
  <2>6. h.out /= 0 => h.posted /= 0
    BY DEF Sound
  <2>7. Steady(g, U, lost, hides)
    <3>1. CASE ~Live(h)
      BY <2>4, <3>1 DEF Steady
    <3>2. CASE Live(h) /\ h.out /= 0
      BY <2>1, <2>4, <2>6, <3>2 DEF Steady, Allows, Live, StillOut
    <3>3. CASE Live(h) /\ h.out = 0 /\ h.inFlight
      BY <2>1, <2>4, <2>5, <3>3 DEF Steady, Allows, Live, StillOut
    <3>4. CASE Live(h) /\ h.out = 0 /\ ~h.inFlight
      BY <2>1, <2>4, <3>4 DEF Steady, Allows, Live, StillOut, Again
    <3> QED BY <3>1, <3>2, <3>3, <3>4
  <2> QED BY <1>1, <2>2, <2>3, <2>7 DEF Turned, g
<1> QED BY <1>2, <1>3

Marks(h, g) == \A f \in {"seq", "posted", "out", "attempt", "gen"} : g[f] = h[f]

LEMMA MarksTurned ==
  ASSUME NEW h, NEW k, Marks(h, k), k.now = h.now, NEW U, NEW lost \in BOOLEAN, NEW hides \in BOOLEAN,
         NEW g, Turned(k, g, U, lost, hides)
  PROVE  Turned(h, g, U, lost, hides)
<1>1. Kept(k, g) => Kept(h, g)
  BY DEF Marks, Kept
<1>2. Sent(k, g) => Sent(h, g)
  BY DEF Marks, Sent
<1> QED BY <1>1, <1>2 DEF Marks, Turned

LEMMA TurnedTrans ==
  ASSUME NEW h, Sound(h), NEW U, NEW lost \in BOOLEAN, NEW hides \in BOOLEAN,
         NEW g, Turned(h, g, U, lost, hides), NEW k,
         Kept(h, g) /\ Steady(g, U, lost, hides) => Turned(g, k, U, lost, hides),
         Sent(h, g) /\ Steady(g, {g.now}, FALSE, hides) => Turned(g, k, {g.now}, FALSE, hides)
  PROVE  Turned(h, k, U, lost, hides)
<1>1. h.seq \in Nat /\ g.seq \in Nat
  BY DEF Turned, Sound, Provider
<1>2. CASE Kept(h, g) /\ Steady(g, U, lost, hides)
  <2>1. Turned(g, k, U, lost, hides)
    BY <1>2
  <2>2. Kept(g, k) => Kept(h, k)
    BY <1>2 DEF Kept
  <2>3. Sent(g, k) => Sent(h, k)
    BY <1>2 DEF Kept, Sent
  <2> QED BY <2>1, <2>2, <2>3 DEF Turned
<1>3. CASE Sent(h, g) /\ Steady(g, {g.now}, FALSE, hides)
  <2>1. Turned(g, k, {g.now}, FALSE, hides)
    BY <1>3
  <2>2. k.seq \in Nat
    BY <2>1 DEF Turned, Sound, Provider
  <2>3. Kept(g, k) => Sent(h, k)
    BY <1>1, <1>3, <2>2 DEF Kept, Sent
  <2>4. Sent(g, k) => Sent(h, k)
    BY <1>1, <1>3, <2>2 DEF Sent
  <2>5. Steady(k, {k.now}, FALSE, hides) /\ Sent(h, k) /\ Sound(k) /\ Orderly(k) /\ k.gen = h.gen /\ k.now = h.now
    BY <2>1, <2>3, <2>4 DEF Turned
  <2> QED BY <2>5 DEF Turned
<1> QED BY <1>2, <1>3 DEF Turned

LEMMA StaysTurned ==
  ASSUME NEW h, Sound(h), Orderly(h), NEW U, NEW lost \in BOOLEAN, NEW hides \in BOOLEAN,
         Steady(h, U, lost, hides)
  PROVE  Turned(h, h, U, lost, hides)
  BY DEF Turned, Kept

(* A provider that posts nothing and does not show the panel.              *)
LEMMA DarkTurned ==
  ASSUME NEW h, NEW g, Sound(g), Orderly(g), Kept(h, g), g.gen = h.gen, g.now = h.now, ~Live(g),
         NEW U, NEW lost \in BOOLEAN, NEW hides \in BOOLEAN
  PROVE  Turned(h, g, U, lost, hides)
  BY DEF Turned, Steady

LEMMA SyncTurned ==
  ASSUME NEW h, Sound(h), Orderly(h), NEW U, NEW lost \in BOOLEAN, NEW hides \in BOOLEAN,
         Steady(h, U, lost, hides)
  PROVE  Turned(h, Sync(h), U, lost, hides)
<1> DEFINE g == Sync(h)
<1>1. Sound(g) /\ SyncDoes(h, g)
  BY SyncEffect DEF Tidy, Orderly, PostsOrderly
<1> HIDE DEF g
<1>2. /\ h.out /= 0 => h.posted /= 0
      /\ h.inFlight => h.posted /= 0
      /\ h.visible \in BOOLEAN /\ h.dirty \in BOOLEAN
  BY DEF Sound, Orderly, PostsOrderly, Provider
<1>3. g.out = h.out
  BY <1>1, <1>2 DEF SyncDoes, StillOut, Orderly, PostsOrderly, RequestsOrderly
<1>4. /\ Apart(h, g) /\ SamePost(h, g) /\ g.visible = Shown(h) /\ g.dirty = h.dirty /\ g.pend = h.pend
      /\ g.immediate = h.immediate /\ g.timer = h.timer
  BY <1>1, <1>2, <1>3 DEF SyncDoes
<1>5. Kept(h, g) /\ g.gen = h.gen /\ g.now = h.now /\ g.sig = h.sig /\ g.inFlight = h.inFlight
      /\ g.posted = h.posted
  BY <1>3, <1>4 DEF Kept, Apart, SamePost
<1>6. Shown(g) = Shown(h) /\ Live(g) = Live(h) /\ Again(g) = Again(h) /\ Greeting(g) = Greeting(h)
      /\ (Again(h) <=> Greeting(h) \/ h.retryTimer) /\ g.retryTimer = h.retryTimer
      /\ (Live(h) => Shown(h))
  BY <1>4 DEF Apart, Shown, Live, Again, Greeting
<1>7. Orderly(g)
  <2>1. PostsOrderly(g)
    BY <1>2, <1>3, <1>4, <1>6 DEF Apart, SamePost, Orderly, PostsOrderly, RequestsOrderly
  <2>2. RequestsOrderly(g)
    BY <1>2, <1>3, <1>4, <1>5, <1>6 DEF Apart, Orderly, PostsOrderly, RequestsOrderly, Shown
  <2> QED BY <2>1, <2>2 DEF Orderly
<1>8. Steady(g, U, lost, hides)
  <2>1. CASE ~Live(h)
    BY <1>6, <2>1 DEF Steady
  <2>2. CASE Live(h) /\ h.visible
    BY <1>3, <1>4, <1>5, <1>6, <2>2 DEF Steady
  <2>3. CASE Live(h) /\ ~h.visible
    <3>1. Greeting(h) /\ h.out = 0 /\ (h.inFlight => h.pend)
      BY <2>3 DEF Steady, Orderly, PostsOrderly, RequestsOrderly
    <3> QED BY <1>3, <1>4, <1>5, <1>6, <2>3, <3>1 DEF Steady
  <2> QED BY <2>1, <2>2, <2>3
<1> QED BY <1>1, <1>5, <1>7, <1>8 DEF Turned, g

(* The view or the document hides: what is outstanding is given up.        *)
ViewAside == {"retain", "now", "gen", "kind", "ready", "greets", "probe", "retryTimer", "sig", "seq",
              "posted", "attempt", "inFlight", "view"}

LEMMA HidesEffect ==
  ASSUME NEW h, Sound(h), PostsOrderly(h)
  PROVE  LET g == Shows(h, FALSE)
         IN  /\ Sound(g) /\ Asks(h, g, ViewAside) /\ ~g.docShown /\ g.out = 0 /\ ~g.visible
             /\ h.docShown => g.dirty /\ g.pend /\ ~g.timer
             /\ ~h.docShown => /\ g.pend = h.pend /\ g.dirty = (h.dirty \/ h.out /= 0) /\ g.timer = h.timer
                               /\ g.immediate = h.immediate
<1> DEFINE t == [h EXCEPT !.docShown = FALSE]
           s == Sync(t)
           r == Request(s, FALSE)
           k == [r EXCEPT !.pend = TRUE, !.timer = FALSE]
           g == Shows(h, FALSE)
<1>1. h \in Provider /\ h.docShown \in BOOLEAN
  BY DEF Sound, Provider
<1>2. /\ Sound(t) /\ Asks(h, t, ViewAside) /\ ~t.docShown
      /\ Asks(h, t, {"visible", "out", "dirty", "pend", "imm", "immediate", "timer"})
  <2>1. Sound(t)
    BY FlagsFollow DEF Follows
  <2> QED BY <1>1, <2>1 DEF Provider, Asks, ViewAside
<1> HIDE DEF t
<1>3. Tidy(t) /\ ~Shown(t) /\ StillOut(t) = 0
  BY <1>2 DEF Tidy, PostsOrderly, Asks, Shown, StillOut
<1>4. Sound(s) /\ SyncDoes(t, s) /\ s \in Provider
  BY <1>3, SyncEffect DEF Sound
<1> HIDE DEF s
<1>5. /\ Asks(h, s, ViewAside) /\ ~s.docShown /\ s.out = 0 /\ ~s.visible
      /\ s.pend = h.pend /\ s.dirty = (h.dirty \/ h.out /= 0) /\ s.timer = h.timer
      /\ s.immediate = h.immediate
  BY <1>2, <1>3, <1>4 DEF SyncDoes, Apart, SamePost, Asks, ViewAside
<1>6. Sound(r) /\ r \in Provider /\ Apart(s, r) /\ SamePost(s, r) /\ r.dirty = TRUE
      /\ Asks(s, r, {"visible", "out", "pend", "timer", "imm"})
  BY <1>4, RequestFollows, RequestEffect DEF Follows, Sound
<1> HIDE DEF r
<1>7. Sound(k) /\ Asks(r, k, ViewAside) /\ k.pend = TRUE /\ k.timer = FALSE
      /\ Asks(r, k, {"visible", "out", "dirty", "docShown"})
  <2>1. Sound(k)
    BY <1>6, FlagsFollow DEF Follows
  <2> QED BY <1>6, <2>1 DEF Provider, Asks, ViewAside
<1> HIDE DEF k
<1>8. /\ Asks(h, k, ViewAside) /\ ~k.docShown /\ k.out = 0 /\ ~k.visible /\ k.dirty /\ k.pend /\ ~k.timer
  BY <1>5, <1>6, <1>7 DEF Apart, SamePost, Asks, ViewAside
<1>9. g = IF h.docShown THEN k ELSE s
  BY <1>1 DEF Shows, k, r, s, t
<1> HIDE DEF g
<1>10. CASE h.docShown
  <2>1. g = k
    BY <1>9, <1>10
  <2> QED BY <1>7, <1>8, <1>10, <2>1 DEF g
<1>11. CASE ~h.docShown
  <2>1. g = s
    BY <1>9, <1>11
  <2> QED BY <1>4, <1>5, <1>11, <2>1 DEF g
<1> QED BY <1>10, <1>11

LEMMA ShowsTurned ==
  ASSUME NEW h, Sound(h), Orderly(h), NEW U, NEW lost \in BOOLEAN, NEW hides \in BOOLEAN,
         Steady(h, U, lost, hides), NEW v \in BOOLEAN
  PROVE  /\ Turned(h, Shows(h, v), U, lost, hides)
         /\ Shows(h, v).docShown = v
         /\ \A f \in {"view", "retain", "kind", "ready"} : Shows(h, v)[f] = h[f]
<1> DEFINE t == [h EXCEPT !.docShown = v]
           s == Sync(t)
           g == Shows(h, v)
<1>1. h \in Provider /\ h.docShown \in BOOLEAN
  BY DEF Sound, Provider
<1>2. /\ Sound(t) /\ Asks(h, t, ViewAside) /\ t.docShown = v
      /\ Asks(h, t, {"visible", "out", "dirty", "pend", "imm", "immediate", "timer"})
  <2>1. Sound(t)
    BY FlagsFollow DEF Follows
  <2> QED BY <1>1, <2>1 DEF Provider, Asks, ViewAside
<1> HIDE DEF t
<1>3. PostsOrderly(t) /\ Marks(h, t) /\ t.now = h.now
  BY <1>2 DEF Orderly, PostsOrderly, Asks, ViewAside, Marks
<1>4. Sound(s) /\ SyncDoes(t, s)
  BY <1>2, <1>3, SyncEffect DEF Tidy, PostsOrderly
<1>5. CASE h.docShown = v
  <2>1. g = s
    BY <1>5 DEF Shows, s, t
  <2>2. Orderly(t)
    BY <1>2, <1>3, <1>5 DEF Orderly, RequestsOrderly, Asks, ViewAside, Shown
  <2>3. Steady(t, U, lost, hides)
    BY <1>2, <1>5 DEF Steady, Asks, ViewAside, Live, Shown, Again, Greeting
  <2>4. Turned(h, s, U, lost, hides)
    BY <1>2, <1>3, <2>2, <2>3, SyncTurned, MarksTurned
  <2>5. s.docShown = v /\ \A f \in {"view", "retain", "kind", "ready"} : s[f] = h[f]
    BY <1>2, <1>4 DEF SyncDoes, Apart, Asks, ViewAside
  <2> QED BY <2>1, <2>4, <2>5
<1>6. CASE h.docShown /\ ~v
  <2>1. /\ Sound(g) /\ Asks(h, g, ViewAside) /\ ~g.docShown /\ g.out = 0 /\ ~g.visible
        /\ g.dirty /\ g.pend /\ ~g.timer
    <3>1. v = FALSE
      BY <1>6
    <3> QED BY <1>6, <3>1, HidesEffect DEF Orderly
  <2> HIDE DEF g
  <2>2. Orderly(g) /\ Kept(h, g) /\ ~Live(g)
    BY <2>1 DEF Orderly, PostsOrderly, RequestsOrderly, Kept, Live, Shown, Asks, ViewAside
  <2>3. g.gen = h.gen /\ g.now = h.now /\ \A f \in {"view", "retain", "kind", "ready"} : g[f] = h[f]
    BY <2>1 DEF Asks, ViewAside
  <2>4. g.docShown = v
    BY <1>6, <2>1, <1>1 DEF Sound, Provider
  <2> QED BY <2>1, <2>2, <2>3, <2>4, DarkTurned DEF g
<1>7. CASE ~h.docShown /\ v
  <2>1. g = Post(s, TRUE, FALSE)
    BY <1>7 DEF Shows, s, t
  <2>2. h.out = 0 /\ t.out = 0
    BY <1>2, <1>7 DEF Orderly, PostsOrderly, RequestsOrderly, Shown, Asks, Sound
  <2> HIDE DEF s, g
  <2>3. s.out = 0 /\ s.dirty = h.dirty /\ s.pend = h.pend
    BY <1>1, <1>2, <1>4, <2>2 DEF SyncDoes, StillOut, Asks, Provider
  <2>4. PostsOrderly(s) /\ Marks(h, s) /\ s.now = h.now /\ s.view = h.view /\ s.docShown = v
    BY <1>2, <1>3, <1>4, <2>2, <2>3 DEF SyncDoes, Apart, SamePost, PostsOrderly, Asks, ViewAside, Marks
  <2>5. \A f \in {"view", "retain", "kind", "ready"} : s[f] = h[f]
    BY <1>2, <1>4 DEF SyncDoes, Apart, Asks, ViewAside
  <2>6. CASE h.view = "none"
    <3>1. g = s
      BY <2>1, <2>4, <2>6 DEF Post
    <3>2. Orderly(s)
      BY <1>4, <2>3, <2>4, <2>6 DEF Orderly, PostsOrderly, RequestsOrderly, Sound
    <3>3. Kept(h, s) /\ ~Live(s) /\ s.gen = h.gen
      BY <2>4, <2>6 DEF Kept, Marks, Live, Shown
    <3> QED BY <1>4, <2>4, <2>5, <3>1, <3>2, <3>3, DarkTurned DEF g
  <2>7. CASE h.view /= "none"
    <3>1. Allows(s, TRUE, U, lost, hides)
      BY <2>3 DEF Allows
    <3>2. Turned(s, g, U, lost, hides)
      BY <1>4, <2>1, <2>4, <2>7, <3>1, PostTurned
    <3>3. Turned(h, g, U, lost, hides)
      BY <2>4, <3>2, MarksTurned
    <3>4. Apart(s, g)
      BY <1>4, <2>1, <2>4, <2>7, PostEffect DEF Tidy, PostsOrderly, PostDoes
    <3> QED BY <2>4, <2>5, <3>3, <3>4 DEF g, Apart
  <2> QED BY <2>6, <2>7
<1> QED BY <1>1, <1>5, <1>6, <1>7

LEMMA FlushTurned ==
  ASSUME NEW k, Sound(k), Orderly(k), NEW U, NEW lost \in BOOLEAN, NEW hides \in BOOLEAN,
         Steady(k, U, lost, hides), k.timer \/ k.retryTimer,
         NEW now \in BOOLEAN, NEW h, Sound(h), Asks(k, h, ViewAside \ {"retryTimer"}),
         Asks(k, h, {"docShown", "visible", "out", "dirty", "pend", "immediate"}),
         h.retryTimer => k.retryTimer, now \/ h.retryTimer = k.retryTimer, h.timer => k.timer
  PROVE  /\ Turned(h, Flush(h, now), U, lost, hides)
         /\ Apart(h, Flush(h, now))
<1> DEFINE g == Flush(h, now)
<1>1. /\ Shown(h) = Shown(k) /\ Live(h) = Live(k) /\ Greeting(h) = Greeting(k)
      /\ (Again(k) <=> Greeting(k) \/ k.retryTimer) /\ (Live(h) => Shown(h))
  BY DEF Asks, ViewAside, Shown, Live, Greeting, Again
<1>2. \A f \in {"retain", "now", "sig", "seq", "posted", "attempt", "inFlight", "view", "ready", "kind",
                "visible", "out", "dirty", "pend", "immediate"} : h[f] = k[f]
  BY DEF Asks, ViewAside
<1>3. PostsOrderly(h) /\ h.view /= "none" /\ (Shown(h) => h.ready)
  BY <1>2 DEF Orderly, PostsOrderly, Shown
<1>4. FlushDoes(h, now, g) /\ Sound(g)
  BY <1>3, FlushEffect, FlushFollows DEF Tidy, PostsOrderly, Follows
<1> HIDE DEF g
<1>5. SUFFICES Turned(h, g, U, lost, hides) /\ Apart(h, g)
  BY DEF g
<1>6. /\ h.out /= 0 => h.posted /= 0
      /\ h.inFlight => h.posted /= 0
  BY <1>3 DEF Sound, PostsOrderly
<1>7. Apart(h, g) /\ ~g.timer /\ g.visible = Shown(h)
  BY <1>4 DEF FlushDoes
<1>8. /\ Shown(g) = Shown(h) /\ Live(g) = Live(h) /\ Greeting(g) = Greeting(h)
      /\ (Again(g) <=> Greeting(h) \/ h.retryTimer) /\ g.sig = h.sig /\ g.now = h.now /\ g.gen = h.gen
      /\ g.retryTimer = h.retryTimer /\ g.view = h.view /\ g.ready = h.ready /\ g.kind = h.kind
      /\ g.retain = h.retain
  BY <1>7 DEF Apart, Shown, Live, Greeting, Again
<1>9. CASE Shown(h) /\ NewPost(h, g)
  BY <1>3, <1>4, <1>7, <1>9, NewPostTurned
<1>10. ASSUME SamePost(h, g), g.out = StillOut(h), (g.dirty => g.pend),
              (g.pend /\ ~g.dirty => h.inFlight /\ g.out = 0), (~Shown(h) => g.pend)
       PROVE  Orderly(g) /\ Kept(h, g) /\ g.inFlight = h.inFlight /\ g.posted = h.posted
  <2>1. PostsOrderly(g)
    BY <1>3, <1>7, <1>8, <1>10 DEF PostsOrderly, SamePost, StillOut
  <2>2. RequestsOrderly(g)
    BY <1>3, <1>7, <1>8, <1>10 DEF RequestsOrderly, SamePost, Shown
  <2> QED BY <1>10, <2>1, <2>2 DEF Orderly, Kept, SamePost, StillOut
<1>11. CASE /\ SamePost(h, g) /\ g.out = StillOut(h) /\ (~Shown(h) \/ h.out /= 0)
            /\ g.dirty /\ g.pend
  <2>1. Orderly(g) /\ Kept(h, g) /\ g.inFlight = h.inFlight /\ g.posted = h.posted
    BY <1>10, <1>11
  <2>2. CASE ~Live(h)
    BY <1>4, <1>7, <1>8, <2>1, <2>2, DarkTurned
  <2>4. Live(h) => g.visible
    BY <1>1, <1>7
  <2>3. CASE Live(h)
    <3>1. h.out /= 0 /\ g.out = h.out /\ k.visible /\ (~lost \/ hides) /\ (h.inFlight \/ h.sig \in U)
      BY <1>1, <1>2, <1>3, <1>6, <1>11, <2>3 DEF StillOut, PostsOrderly, Steady
    <3>2. Steady(g, U, lost, hides)
      BY <1>6, <1>8, <1>11, <2>1, <2>3, <2>4, <3>1 DEF Steady
    <3> QED BY <1>4, <1>7, <1>8, <2>1, <3>2 DEF Turned
  <2> QED BY <2>2, <2>3
<1>12. CASE /\ Shown(h) /\ h.out = 0 /\ h.inFlight
            /\ SamePost(h, g) /\ g.out = 0 /\ g.dirty = h.dirty /\ g.pend /\ g.immediate = h.immediate
  <2>1. Orderly(g) /\ Kept(h, g) /\ g.inFlight = h.inFlight /\ g.posted = h.posted
    BY <1>10, <1>12 DEF StillOut
  <2>2. Live(h) /\ lost /\ ~hides => h.immediate \/ Greeting(h)
    BY <1>1, <1>2, <1>12 DEF Steady
  <2>4. Live(h) => g.visible
    BY <1>1, <1>7
  <2>3. Steady(g, U, lost, hides)
    BY <1>6, <1>8, <1>12, <2>1, <2>2, <2>4 DEF Steady
  <2> QED BY <1>4, <1>7, <1>8, <2>1, <2>3 DEF Turned
<1>13. CASE /\ Shown(h) /\ h.out = 0 /\ ~h.inFlight /\ ~now
            /\ SamePost(h, g) /\ g.out = 0 /\ ~g.pend /\ ~g.dirty
            /\ (h.now = h.sig \/ ~h.pend)
  <2>1. Orderly(g) /\ Kept(h, g) /\ g.inFlight = h.inFlight /\ g.posted = h.posted
    BY <1>10, <1>13 DEF StillOut
  <2>2. (Again(g) <=> Again(k)) /\ Live(h) /\ (h.retryTimer = k.retryTimer)
    BY <1>1, <1>3, <1>8, <1>13 DEF Live
  <2>3. h.posted = 0 => Greeting(h)
    BY <1>1, <1>2, <2>2 DEF Steady
  <2>4. h.posted /= 0 => h.sig \in U \/ Again(k)
    BY <1>1, <1>2, <1>13, <2>2 DEF Steady
  <2>5. h.posted /= 0 => h.now \in U \/ Again(k)
    <3>1. CASE h.now = h.sig
      BY <2>4, <3>1
    <3>2. CASE ~h.pend
      BY <1>1, <1>2, <1>13, <2>2, <3>2 DEF Steady, Again
    <3> QED BY <1>13, <3>1, <3>2
  <2>6. lost /\ ~hides => Greeting(h) \/ h.retryTimer
    BY <1>1, <1>2, <1>13, <2>2 DEF Steady
  <2>8. g.visible
    BY <1>7, <1>13
  <2>7. Steady(g, U, lost, hides)
    BY <1>8, <1>13, <2>1, <2>2, <2>3, <2>4, <2>5, <2>6, <2>8 DEF Steady
  <2> QED BY <1>4, <1>7, <1>8, <2>1, <2>7 DEF Turned
<1>14. ~h.pend => ~h.dirty
  BY <1>2 DEF Orderly, RequestsOrderly
<1> QED BY <1>4, <1>7, <1>9, <1>11, <1>12, <1>13, <1>14 DEF FlushDoes

LEMMA AckTurned ==
  ASSUME NEW h, Sound(h), Orderly(h), NEW U, NEW lost \in BOOLEAN, NEW hides \in BOOLEAN,
         Steady(h, U, lost, hides), NEW seq \in Nat
  PROVE  LET g == Acknowledged(h, seq)
         IN  /\ Turned(h, g, U, lost, hides)
             /\ \A f \in {"view", "retain", "kind", "ready", "docShown"} : g[f] = h[f]
             /\ h.out /= 0 /\ seq = h.out => Sent(h, g) \/ g.out = 0
<1> DEFINE o == IF seq >= h.out THEN 0 ELSE h.out
           r == AfterAck(h, seq)
           g == Acknowledged(h, seq)
<1>1. CASE ~Accepted(h, seq)
  <2>1. g = h
    BY <1>1 DEF Acknowledged, AfterAck, Resumes
  <2>2. ~(h.out /= 0 /\ seq = h.out)
    BY <1>1 DEF Accepted, Sound, Provider
  <2> HIDE DEF g
  <2> QED BY <2>1, <2>2, StaysTurned DEF g
<1>2. CASE Accepted(h, seq)
  <2>1. Sound(r) /\ h \in Provider /\ o \in Nat
    BY AfterAckCredits DEF Sound, Provider
  <2>2. r = [h EXCEPT !.rendered = seq, !.out = o]
    BY <1>2 DEF AfterAck, Rendered
  <2> HIDE DEF r, o
  <2>3. Apart(h, r) /\ SamePost(h, r) /\ r.out = o
        /\ Asks(h, r, {"visible", "dirty", "pend", "immediate", "timer"})
    BY <2>1, <2>2 DEF Provider, Apart, SamePost, Asks
  <2>4. /\ Shown(r) = Shown(h) /\ Live(r) = Live(h) /\ Greeting(r) = Greeting(h) /\ Again(r) = Again(h)
        /\ (Again(h) <=> Greeting(h) \/ h.retryTimer) /\ (Live(h) => Shown(h))
    BY <2>3 DEF Apart, Shown, Live, Greeting, Again
  <2>5. \A f \in {"now", "sig", "seq", "posted", "attempt", "inFlight", "gen", "view", "ready", "kind", "retain",
                  "retryTimer", "docShown", "visible", "dirty", "pend", "immediate", "timer"} : r[f] = h[f]
    BY <2>3 DEF Apart, SamePost, Asks
  <2>6. PostsOrderly(r) /\ Kept(h, r) /\ r.gen = h.gen /\ r.now = h.now /\ (r.out = h.out \/ r.out = 0)
    <3>1. r.out = h.out \/ r.out = 0
      BY <2>3 DEF o
    <3> QED BY <2>5, <3>1 DEF Orderly, PostsOrderly, Kept
  <2>7. h.out /= 0 => h.posted /= 0 /\ h.view /= "none" /\ h.visible /\ h.ready
    BY DEF Sound, Orderly, PostsOrderly
  <2>8. CASE r.out = h.out
    <3>1. h.out = 0 \/ ~(seq >= h.out)
      BY <2>3, <2>8 DEF o
    <3>2. g = r
      BY <3>1 DEF Acknowledged, Resumes, r
    <3>3. ~(h.out /= 0 /\ seq = h.out)
      BY <3>1
    <3>4. Orderly(r)
      BY <2>4, <2>5, <2>6, <2>8 DEF Orderly, RequestsOrderly
    <3>5. Steady(r, U, lost, hides)
      BY <2>4, <2>5, <2>8 DEF Steady
    <3> HIDE DEF g
    <3> QED BY <2>1, <2>5, <2>6, <3>2, <3>3, <3>4, <3>5 DEF Turned, g
  <2>9. CASE r.out = 0 /\ h.out /= 0
    <3>1. seq >= h.out
      BY <2>3, <2>9 DEF o
    <3>2. /\ Live(h) /\ lost /\ ~hides => FALSE
          /\ Live(h) /\ ~h.inFlight => h.sig \in U
          /\ Live(h) /\ ~h.pend => h.now \in U
      BY <2>7, <2>9 DEF Steady
    <3>3. CASE h.dirty
      <4>1. Resumes(h, seq)
        BY <1>2, <2>7, <2>9, <3>1, <3>3 DEF Resumes
      <4>2. g = Post(r, h.immediate, FALSE)
        BY <4>1 DEF Acknowledged, r
      <4>3. h.immediate \in BOOLEAN
        BY <2>1 DEF Provider
      <4>4. Allows(r, h.immediate, U, lost, hides)
        BY <2>4, <2>5, <2>7, <2>9, <3>2 DEF Allows
      <4> HIDE DEF g
      <4>5. Turned(r, g, U, lost, hides)
        BY <2>1, <2>5, <2>6, <2>7, <2>9, <4>2, <4>3, <4>4, PostTurned
      <4>6. Apart(r, g)
        <5>1. Tidy(r)
          BY <2>1, <2>6 DEF Tidy, PostsOrderly
        <5> QED BY <2>5, <2>7, <2>9, <4>2, <4>3, <5>1, PostEffect DEF PostDoes
      <4>7. Turned(h, g, U, lost, hides)
        <5>1. Kept(r, g) => Kept(h, g)
          BY <2>6 DEF Kept
        <5>2. Sent(r, g) => Sent(h, g)
          BY <2>5 DEF Sent
        <5> QED BY <2>6, <4>5, <5>1, <5>2 DEF Turned
      <4>8. Sent(h, g) \/ g.out = 0
        <5>1. Sent(r, g) => Sent(h, g)
          BY <2>5 DEF Sent
        <5>2. Kept(r, g) => g.out = 0
          BY <2>9 DEF Kept
        <5> QED BY <4>5, <5>1, <5>2 DEF Turned
      <4> QED BY <2>5, <4>6, <4>7, <4>8 DEF Apart, g
    <3>4. CASE ~h.dirty
      <4>1. g = r
        BY <3>4 DEF Acknowledged, Resumes, r
      <4>2. ~h.pend
        BY <2>9, <3>4 DEF Orderly, RequestsOrderly
      <4>3. Orderly(r)
        BY <2>4, <2>5, <2>6, <2>7, <2>9, <3>4, <4>2 DEF Orderly, RequestsOrderly
      <4>4. Steady(r, U, lost, hides)
        BY <2>4, <2>5, <2>7, <2>9, <3>2, <4>2 DEF Steady
      <4> HIDE DEF g
      <4> QED BY <2>1, <2>5, <2>6, <2>9, <4>1, <4>3, <4>4 DEF Turned, g
    <3> QED BY <3>3, <3>4
  <2> QED BY <2>6, <2>8, <2>9
<1> QED BY <1>1, <1>2

(* The provider has a new document, to which nothing has been posted.      *)
Loaded(h, g) ==
    /\ Sound(g) /\ Orderly(g) /\ g.gen > h.gen /\ g.seq = h.seq
    /\ g.posted = 0 /\ g.out = 0 /\ g.attempt = 0 /\ ~g.ready /\ g.docShown
    /\ g.view = h.view /\ g.kind \in {"panel", "recovery"}

LEMMA LoadLoaded ==
  ASSUME NEW h, Sound(h), NEW kind \in {"panel", "recovery"}
  PROVE  Loaded(h, Load(h, kind))
<1> DEFINE s == [h EXCEPT !.gen = @ + 1, !.ready = FALSE, !.kind = kind]
           r == Reset(s)
           k == [r EXCEPT !.docShown = TRUE]
           b == s.view = "shown"
           g == Load(h, kind)
<1>1. Sound(g) /\ g.gen = h.gen + 1 /\ h.gen \in Nat /\ h \in Provider
  <2>1. kind \in {"none", "panel", "recovery"}
    OBVIOUS
  <2>2. Sound(g) /\ g.gen = h.gen + 1
    BY <2>1, LoadBecomes
  <2>3. h.gen \in Nat /\ h \in Provider
    BY DEF Sound, Provider
  <2> QED BY <2>2, <2>3
<1>2. h.gen + 1 \in Nat /\ h.gen + 1 > h.gen
  BY <1>1
<1>3. s \in Provider /\ s.view = h.view /\ s.seq = h.seq /\ s.kind = kind /\ s.ready = FALSE
  BY <1>1, <1>2 DEF Provider
<1> HIDE DEF s
<1>4. /\ r.visible = b /\ r.posted = 0 /\ r.out = 0 /\ r.attempt = 0 /\ r.inFlight = FALSE
      /\ r.timer = FALSE /\ r.retryTimer = FALSE /\ r.dirty = FALSE /\ r.pend = FALSE
  BY <1>3 DEF Reset, Provider
<1>5. /\ r.view = s.view /\ r.seq = s.seq /\ r.kind = s.kind /\ r.ready = s.ready /\ DOMAIN r = DOMAIN s
  BY <1>3 DEF Reset, Provider
<1>6. DOMAIN s = DOMAIN h /\ "docShown" \in DOMAIN h
  BY <1>1, <1>3 DEF Provider
<1> HIDE DEF r
<1>7. k.docShown = TRUE /\ \A f \in {"visible", "posted", "out", "attempt", "inFlight", "timer", "retryTimer",
                                     "dirty", "pend", "view", "seq", "kind", "ready"} : k[f] = r[f]
  BY <1>5, <1>6
<1>8. g = k
  BY DEF Load, k, r, s
<1> HIDE DEF k, g
<1>9. /\ g.visible = b /\ g.posted = 0 /\ g.out = 0 /\ g.attempt = 0 /\ ~g.inFlight /\ ~g.ready
      /\ ~g.timer /\ ~g.retryTimer /\ ~g.dirty /\ ~g.pend /\ g.docShown
      /\ g.view = h.view /\ g.seq = h.seq /\ g.kind = kind
  BY <1>3, <1>4, <1>5, <1>7, <1>8
<1>10. Orderly(g)
  BY <1>3, <1>9 DEF Orderly, PostsOrderly, RequestsOrderly, Shown, b
<1> QED BY <1>1, <1>2, <1>9, <1>10 DEF Loaded, g

LEMMA RecoverLoaded ==
  ASSUME NEW h, Sound(h), h.view = "shown"
  PROVE  Loaded(h, Recover(h))
<1> DEFINE s == [h EXCEPT !.ready = FALSE]
           r == [h EXCEPT !.ready = FALSE, !.saved = TRUE]
<1>1. Sound(s) /\ s.gen = h.gen /\ s.seq = h.seq /\ s.view = h.view
  <2>1. Sound(s)
    BY FlagsFollow DEF Follows
  <2>2. s.gen = h.gen /\ s.seq = h.seq /\ s.view = h.view
    BY DEF Sound, Provider
  <2> QED BY <2>1, <2>2
<1>2. Sound(r) /\ r.gen = h.gen /\ r.seq = h.seq /\ r.view = h.view
  BY DEF Sound, Provider
<1>3. Loaded(s, Load(s, "recovery")) /\ Loaded(r, Load(r, "panel"))
  BY <1>1, <1>2, LoadLoaded
<1>4. Loaded(h, Load(s, "recovery")) /\ Loaded(h, Load(r, "panel"))
  BY <1>1, <1>2, <1>3 DEF Loaded
<1> QED BY <1>4 DEF Recover

LEMMA ProbedTurned ==
  ASSUME NEW h, Sound(h), Orderly(h), h.view = "shown",
         NEW U, NEW lost \in BOOLEAN, NEW hides \in BOOLEAN,
         Steady(h, U, lost, hides), NEW m, m.seq \in Nat
  PROVE  LET g == Probed(h, m)
         IN  \/ Loaded(h, g)
             \/ /\ Turned(h, g, U, lost, hides)
                /\ \A f \in {"view", "retain", "kind", "ready"} : g[f] = h[f]
                /\ g.docShown => h.docShown \/ m.health = "ok"
<1> DEFINE s == IF m.health = "hidden" THEN Shows(h, FALSE)
                ELSE IF m.health = "ok" /\ ~h.docShown THEN Shows(h, TRUE) ELSE h
           g == Probed(h, m)
           k == Acknowledged(s, m.seq)
<1>1. /\ Turned(h, s, U, lost, hides)
      /\ \A f \in {"view", "retain", "kind", "ready"} : s[f] = h[f]
      /\ s.docShown => h.docShown \/ m.health = "ok"
  <2>1. CASE m.health = "hidden"
    BY <2>1, ShowsTurned
  <2>2. CASE m.health = "ok" /\ ~h.docShown
    <3>1. s = Shows(h, TRUE)
      BY <2>2
    <3> HIDE DEF s
    <3>2. /\ Turned(h, Shows(h, TRUE), U, lost, hides)
          /\ \A f \in {"view", "retain", "kind", "ready"} : Shows(h, TRUE)[f] = h[f]
      <4> DEFINE v == TRUE
      <4>1. v \in BOOLEAN
        OBVIOUS
      <4> HIDE DEF v
      <4>2. /\ Turned(h, Shows(h, v), U, lost, hides)
            /\ \A f \in {"view", "retain", "kind", "ready"} : Shows(h, v)[f] = h[f]
        BY <4>1, ShowsTurned
      <4> QED BY <4>2 DEF v
    <3> QED BY <2>2, <3>1, <3>2
  <2>3. CASE ~(m.health = "hidden") /\ ~(m.health = "ok" /\ ~h.docShown)
    BY <2>3, StaysTurned
  <2> QED BY <2>1, <2>2, <2>3
<1>2. CASE m.health = "broken"
  <2> DEFINE r == AfterAck(h, m.seq)
  <2>1. g = Recover(r)
    BY <1>2 DEF Probed
  <2>2. Sound(r) /\ r.gen = h.gen
    BY AfterAckCredits
  <2>3. r.seq = h.seq /\ r.view = h.view
    BY DEF AfterAck, Rendered, Sound, Provider
  <2> HIDE DEF r
  <2>4. Loaded(r, Recover(r))
    BY <2>2, <2>3, RecoverLoaded
  <2> QED BY <2>1, <2>2, <2>3, <2>4 DEF Loaded
<1>3. CASE m.health /= "broken"
  <2>1. g = k
    BY <1>3 DEF Probed
  <2> HIDE DEF s, g
  <2>2. Sound(s) /\ Orderly(s)
    BY <1>1 DEF Turned
  <2>3. ASSUME Steady(s, U, lost, hides)
        PROVE  /\ Turned(s, k, U, lost, hides)
               /\ \A f \in {"view", "retain", "kind", "ready", "docShown"} : k[f] = s[f]
    BY <2>2, <2>3, AckTurned
  <2>4. ASSUME Steady(s, {s.now}, FALSE, hides)
        PROVE  /\ Turned(s, k, {s.now}, FALSE, hides)
               /\ \A f \in {"view", "retain", "kind", "ready", "docShown"} : k[f] = s[f]
    <3> DEFINE U1 == {s.now}
               l1 == FALSE
    <3>1. l1 \in BOOLEAN /\ Steady(s, U1, l1, hides)
      BY <2>4
    <3> HIDE DEF U1, l1
    <3>2. /\ Turned(s, k, U1, l1, hides)
          /\ \A f \in {"view", "retain", "kind", "ready", "docShown"} : k[f] = s[f]
      BY <2>2, <3>1, AckTurned
    <3> QED BY <3>2 DEF U1, l1
  <2>5. Turned(h, k, U, lost, hides)
    BY <1>1, <2>3, <2>4, TurnedTrans
  <2>6. \A f \in {"view", "retain", "kind", "ready", "docShown"} : k[f] = s[f]
    BY <1>1, <2>3, <2>4 DEF Turned
  <2> QED BY <1>1, <2>1, <2>5, <2>6 DEF g
<1> QED BY <1>2, <1>3

LEMMA PostTakenTurned ==
  ASSUME NEW h, Sound(h), Orderly(h), NEW U, NEW lost \in BOOLEAN, NEW hides \in BOOLEAN,
         Steady(h, U, lost, hides), NEW call \in [seq : Nat, version : Versions],
         call.seq = h.attempt, call.seq /= 0, Live(h) => call.version \in U
  PROVE  LET g == PostTaken(h, call)
         IN  /\ Turned(h, g, U, lost, hides)
             /\ \A f \in {"view", "retain", "kind", "ready", "docShown"} : g[f] = h[f]
             /\ Kept(h, g) => g.attempt = 0
<1> DEFINE d == Delivered(h, call.seq)
           s == [d EXCEPT !.attempt = 0, !.inFlight = FALSE, !.sig = call.version,
                          !.retries = 0, !.retryTimer = FALSE]
           g == PostTaken(h, call)
<1>1. call.seq \in Nat /\ call.version \in Versions /\ h \in Provider
  BY DEF Sound
<1>2. d \in Provider /\ Sound(d) /\ Apart(h, d) /\ SamePost(h, d)
      /\ Asks(h, d, {"visible", "out", "dirty", "pend", "immediate", "timer"})
  BY <1>1 DEF Delivered, Sound, Provider, Apart, SamePost, Asks
<1> HIDE DEF d
<1>3. /\ s \in Provider /\ s.attempt = 0 /\ s.inFlight = FALSE /\ s.sig = call.version /\ s.retries = 0
      /\ s.retryTimer = FALSE
      /\ \A f \in {"view", "retain", "now", "gen", "kind", "ready", "greets", "probe", "docShown", "seq",
                   "posted", "visible", "out", "dirty", "pend", "immediate", "timer", "rendered"} : s[f] = d[f]
  BY <1>1, <1>2 DEF Provider
<1>4. g = IF s.pend /\ s.out = 0 THEN Post(s, s.immediate, FALSE) ELSE s
  BY DEF PostTaken, d, s
<1> HIDE DEF s
<1>5. Sound(s)
  <2>1. 0 <= RetryMax
    BY Bounds
  <2> QED BY <1>2, <1>3, <2>1 DEF Sound
<1>6. \A f \in {"view", "retain", "now", "gen", "kind", "ready", "greets", "probe", "docShown", "seq",
                "posted", "visible", "out", "dirty", "pend", "immediate", "timer"} : s[f] = h[f]
  BY <1>2, <1>3 DEF Apart, SamePost, Asks
<1>7. h.inFlight /\ h.posted /= 0 /\ h.view /= "none"
  BY DEF Sound, Orderly, PostsOrderly
<1>8. /\ Shown(s) = Shown(h) /\ Live(s) = Live(h) /\ Greeting(s) = Greeting(h)
      /\ (Again(s) <=> Greeting(h))
  BY <1>3, <1>6 DEF Shown, Live, Greeting, Again
<1>9. PostsOrderly(s) /\ Kept(h, s)
  BY <1>3, <1>6 DEF Orderly, PostsOrderly, Kept
<1> HIDE DEF g
<1> SUFFICES /\ Turned(h, g, U, lost, hides)
             /\ \A f \in {"view", "retain", "kind", "ready", "docShown"} : g[f] = h[f]
             /\ Kept(h, g) => g.attempt = 0
  BY DEF g
<1>10. CASE s.pend /\ s.out = 0
  <2>1. g = Post(s, s.immediate, FALSE) /\ s.immediate \in BOOLEAN
    BY <1>3, <1>4, <1>10 DEF Provider
  <2>2. Live(h) /\ lost /\ ~hides => s.immediate \/ Greeting(h)
    BY <1>6, <1>7 DEF Steady
  <2>3. Allows(s, s.immediate, U, lost, hides)
    BY <1>3, <1>6, <1>7, <1>8, <1>10, <2>2 DEF Allows
  <2>4. Turned(s, g, U, lost, hides)
    BY <1>5, <1>6, <1>7, <1>9, <2>1, <2>3, PostTurned
  <2>5. Apart(s, g)
    <3>1. Tidy(s)
      BY <1>5, <1>9 DEF Tidy, PostsOrderly
    <3> QED BY <1>6, <1>7, <2>1, <3>1, PostEffect DEF PostDoes
  <2>6. Turned(h, g, U, lost, hides)
    <3>1. Kept(s, g) => Kept(h, g)
      BY <1>9 DEF Kept
    <3>2. Sent(s, g) => Sent(h, g)
      BY <1>6 DEF Sent
    <3> QED BY <1>6, <2>4, <3>1, <3>2 DEF Turned
  <2>7. Kept(h, g) => g.attempt = 0
    <3>1. h.seq \in Nat /\ g.seq \in Nat
      BY <1>1, <2>4 DEF Turned, Sound, Provider
    <3>2. Kept(h, g) => ~Sent(s, g)
      BY <1>6, <3>1 DEF Kept, Sent
    <3>3. Kept(s, g) => g.attempt = 0
      BY <1>3 DEF Kept
    <3> QED BY <2>4, <3>2, <3>3 DEF Turned
  <2> QED BY <1>6, <2>5, <2>6, <2>7 DEF Apart
<1>11. CASE ~(s.pend /\ s.out = 0)
  <2>1. g = s
    BY <1>4, <1>11
  <2>2. Orderly(s)
    BY <1>3, <1>6, <1>7, <1>8, <1>9, <1>11 DEF Orderly, RequestsOrderly
  <2>3. Steady(s, U, lost, hides)
    BY <1>3, <1>6, <1>7, <1>8, <1>11 DEF Steady
  <2> QED BY <1>3, <1>5, <1>6, <1>9, <2>1, <2>2, <2>3 DEF Turned
<1> QED BY <1>10, <1>11

LEMMA PostFailedTurned ==
  ASSUME NEW h, Sound(h), Orderly(h), NEW U, NEW lost \in BOOLEAN, NEW hides \in BOOLEAN,
         Steady(h, U, lost, hides), NEW seq \in Nat, seq = h.attempt, seq /= 0
  PROVE  LET g == PostFailed(h, seq)
         IN  \/ Loaded(h, g)
             \/ /\ Turned(h, g, U, lost, hides)
                /\ \A f \in {"view", "retain", "kind", "ready", "docShown"} : g[f] = h[f]
                /\ g.attempt = 0
<1> DEFINE t == [h EXCEPT !.attempt = 0, !.inFlight = FALSE]
           s == Failed(t, seq)
           b == s.dirty
           r == [s EXCEPT !.pend = b]
           k == [r EXCEPT !.retries = @ + 1, !.retryTimer = TRUE]
           g == PostFailed(h, seq)
           fields == {"view", "retain", "now", "gen", "kind", "ready", "greets", "probe", "docShown", "seq",
                      "posted", "visible", "timer", "sig", "retries", "rendered"}
<1>1. h \in Provider /\ h.inFlight /\ h.posted = seq /\ (h.out /= 0 => h.out = seq)
  BY DEF Sound, Orderly, PostsOrderly
<1>2. /\ t \in Provider /\ t.attempt = 0 /\ t.inFlight = FALSE /\ t.out = h.out /\ t.dirty = h.dirty
      /\ t.retryTimer = h.retryTimer /\ \A f \in fields : t[f] = h[f]
  BY <1>1 DEF Provider
<1> HIDE DEF t
<1>3. /\ s \in Provider /\ s.attempt = 0 /\ s.inFlight = FALSE /\ s.out = 0
      /\ s.retryTimer = h.retryTimer /\ \A f \in fields : s[f] = h[f]
  <2>1. CASE t.out = seq
    <3>1. s = [t EXCEPT !.out = 0, !.dirty = TRUE]
      BY <2>1 DEF Failed
    <3> HIDE DEF s
    <3> QED BY <1>2, <3>1 DEF Provider
  <2>2. CASE t.out /= seq
    <3>1. s = t
      BY <2>2 DEF Failed
    <3> HIDE DEF s
    <3> QED BY <1>1, <1>2, <2>2, <3>1
  <2> QED BY <2>1, <2>2
<1>4. b \in BOOLEAN
  BY <1>3 DEF Provider
<1> HIDE DEF s, b
<1>5. /\ r \in Provider /\ r.attempt = 0 /\ r.inFlight = FALSE /\ r.out = 0 /\ r.pend = b /\ r.dirty = b
      /\ r.retryTimer = h.retryTimer /\ \A f \in fields : r[f] = h[f]
  <2>1. r \in Provider /\ r.pend = b /\ r.dirty = s.dirty
        /\ \A f \in fields \cup {"attempt", "inFlight", "out", "retryTimer"} : r[f] = s[f]
    BY <1>3, <1>4 DEF Provider
  <2> QED BY <1>3, <2>1 DEF b
<1>6. g = IF h.retries >= RetryMax - 1 THEN Load(r, "recovery") ELSE Retry(r)
  BY DEF PostFailed, r, b, s, t
<1> HIDE DEF r
<1>7. h.retries \in Nat /\ RetryMax \in Nat /\ h.seq \in Nat /\ h.gen \in Nat /\ h.rendered \in Nat
  BY <1>1, Bounds DEF Provider
<1>8. Sound(r)
  BY <1>5 DEF Sound
<1> HIDE DEF g
<1> SUFFICES \/ Loaded(h, g)
             \/ /\ Turned(h, g, U, lost, hides)
                /\ \A f \in {"view", "retain", "kind", "ready", "docShown"} : g[f] = h[f]
                /\ g.attempt = 0
  BY DEF g
<1>9. CASE h.retries >= RetryMax - 1
  <2>1. Loaded(r, g)
    BY <1>6, <1>8, <1>9, LoadLoaded
  <2> QED BY <1>5, <2>1 DEF Loaded
<1>10. CASE ~(h.retries >= RetryMax - 1)
  <2>1. ~(r.retries >= RetryMax) /\ r.retries + 1 \in Nat /\ r.retries + 1 <= RetryMax
    BY <1>5, <1>7, <1>10
  <2>2. \/ g = r /\ (r.retryTimer \/ r.view /= "shown" \/ ~r.ready)
        \/ g = k /\ r.view = "shown" /\ r.ready
    BY <1>6, <1>10, <2>1 DEF Retry
  <2>3. k \in Provider /\ k.retryTimer = TRUE /\ k.attempt = 0 /\ k.inFlight = FALSE /\ k.out = 0
        /\ k.pend = b /\ k.dirty = b /\ k.retries <= RetryMax /\ \A f \in fields \ {"retries"} : k[f] = h[f]
    <3>1. k \in Provider /\ k.retryTimer = TRUE /\ k.retries = r.retries + 1
          /\ \A f \in (fields \ {"retries"}) \cup {"attempt", "inFlight", "out", "pend", "dirty"} : k[f] = r[f]
      BY <1>5, <2>1 DEF Provider
    <3> HIDE DEF k
    <3> QED BY <1>5, <2>1, <3>1
  <2> HIDE DEF k
  <2>4. Sound(k)
    BY <1>5, <1>8, <2>3 DEF Sound
  <2>5. Sound(g) /\ g.attempt = 0 /\ ~g.inFlight /\ g.out = 0 /\ g.pend = b /\ g.dirty = b
        /\ \A f \in fields \ {"retries"} : g[f] = h[f]
    BY <1>5, <1>8, <2>2, <2>3, <2>4
  <2>6. /\ g.retryTimer => h.retryTimer \/ (h.view = "shown" /\ h.ready)
        /\ Live(h) => g.retryTimer
    BY <1>5, <2>2, <2>3 DEF Live, Shown
  <2>7. Shown(g) = Shown(h) /\ Live(g) = Live(h) /\ Greeting(g) = Greeting(h)
        /\ (Live(h) => Again(g))
    BY <2>5, <2>6 DEF Shown, Live, Greeting, Again
  <2>8. Orderly(g)
    BY <2>5, <2>6, <2>7 DEF Orderly, PostsOrderly, RequestsOrderly
  <2>9. Steady(g, U, lost, hides)
    BY <2>5, <2>6, <2>7 DEF Steady
  <2>10. Kept(h, g) /\ g.gen = h.gen /\ g.now = h.now
    BY <2>5 DEF Kept
  <2> QED BY <2>5, <2>8, <2>9, <2>10 DEF Turned
<1> QED BY <1>9, <1>10

LEMMA DarkEither ==
  ASSUME NEW h, NEW g, NEW U, NEW lost \in BOOLEAN, NEW a \in BOOLEAN, NEW b \in BOOLEAN,
         Turned(h, g, U, lost, a), ~Live(g)
  PROVE  Turned(h, g, U, lost, b)
  BY DEF Turned, Steady

-----------------------------------------------------------------------------
(* The messages on their way.                                              *)

LEMMA ElementsAppend ==
  ASSUME NEW S, NEW s \in Seq(S), NEW m \in S
  PROVE  Elements(Append(s, m)) = Elements(s) \cup {m}
<1> DEFINE t == Append(s, m)
<1>1. Len(s) \in Nat /\ Len(t) = Len(s) + 1 /\ t[Len(s) + 1] = m
      /\ \A i \in 1..Len(s) : t[i] = s[i]
  BY AppendProperties, LenProperties
<1> HIDE DEF t
<1>2. 1..Len(t) = (1..Len(s)) \cup {Len(s) + 1}
  BY <1>1
<1>3. Elements(t) = Elements(s) \cup {m}
  BY <1>1, <1>2 DEF Elements
<1> QED BY <1>3 DEF t

LEMMA TailShift ==
  ASSUME NEW S, NEW s \in Seq(S), s /= <<>>
  PROVE  /\ Len(s) \in Nat \ {0} /\ Len(Tail(s)) = Len(s) - 1
         /\ Tail(s) \in Seq(S) /\ Head(s) \in S /\ Head(s) = s[1]
         /\ \A i \in 1..Len(Tail(s)) : i + 1 \in 1..Len(s) /\ Tail(s)[i] = s[i + 1]
         /\ \A i \in 2..Len(s) : i - 1 \in 1..Len(Tail(s)) /\ Tail(s)[i - 1] = s[i]
<1>1. /\ Len(s) \in Nat \ {0} /\ Len(Tail(s)) = Len(s) - 1
      /\ Tail(s) \in Seq(S) /\ Head(s) \in S /\ Head(s) = s[1]
  BY HeadTailProperties, EmptySeq, LenProperties
<1>2. \A i \in 1..Len(Tail(s)) : i + 1 \in 1..Len(s) /\ Tail(s)[i] = s[i + 1]
  BY <1>1, HeadTailProperties
<1>3. ASSUME NEW i \in 2..Len(s)
      PROVE  i - 1 \in 1..Len(Tail(s)) /\ Tail(s)[i - 1] = s[i]
  <2>1. i - 1 \in 1..Len(Tail(s)) /\ (i - 1) + 1 = i
    BY <1>1
  <2> QED BY <1>2, <2>1
<1> QED BY <1>1, <1>2, <1>3

LEMMA ElementsTail ==
  ASSUME NEW S, NEW s \in Seq(S), s /= <<>>
  PROVE  Elements(s) = {Head(s)} \cup Elements(Tail(s))
<1>1. ASSUME NEW m \in Elements(s) PROVE m \in {Head(s)} \cup Elements(Tail(s))
  <2>1. PICK i \in 1..Len(s) : m = s[i]
    BY DEF Elements
  <2>2. CASE i = 1
    BY <2>1, <2>2, TailShift
  <2>3. CASE i /= 1
    <3>1. i \in 2..Len(s)
      BY <2>1, <2>3, TailShift
    <3>2. i - 1 \in 1..Len(Tail(s)) /\ Tail(s)[i - 1] = m
      BY <2>1, <3>1, TailShift
    <3> QED BY <3>2 DEF Elements
  <2> QED BY <2>2, <2>3
<1>2. Head(s) \in Elements(s)
  <2>1. Head(s) = s[1] /\ 1 \in 1..Len(s)
    BY TailShift
  <2> QED BY <2>1 DEF Elements
<1>3. ASSUME NEW m \in Elements(Tail(s)) PROVE m \in Elements(s)
  <2>1. PICK i \in 1..Len(Tail(s)) : m = Tail(s)[i]
    BY DEF Elements
  <2>2. i + 1 \in 1..Len(s) /\ s[i + 1] = m
    BY <2>1, TailShift
  <2> QED BY <2>2 DEF Elements
<1> QED BY <1>1, <1>2, <1>3

LEMMA ElementsEmpty == Elements(<<>>) = {}
  BY EmptySeq DEF Elements

(* One message less is on its way back.                                    *)
LEMMA LessComes ==
  ASSUME NEW S, NEW b \in Seq(S), b /= <<>>, NEW d
  PROVE  /\ HidesComes(d, b) <=> TellsHidden(d, Head(b)) \/ HidesComes(d, Tail(b))
         /\ ReadyComes(d, b) <=> (Ours(d, Head(b)) /\ Head(b).kind = "ready") \/ ReadyComes(d, Tail(b))
         /\ \A n : RenderComes(d, b, n) <=>
               (Ours(d, Head(b)) /\ Head(b).kind = "rendered" /\ Head(b).seq = n) \/ RenderComes(d, Tail(b), n)
  BY ElementsTail DEF HidesComes, ReadyComes, RenderComes

LEMMA LessHidden ==
  ASSUME NEW S, NEW b \in Seq(S), b /= <<>>, NEW d, HiddenLast(d, b)
  PROVE  HiddenLast(d, Tail(b)) /\ (TellsShown(d, Head(b)) => HidesComes(d, Tail(b)))
<1>1. ASSUME NEW i \in 1..Len(b), TellsShown(d, b[i])
      PROVE  \E j \in 1..Len(Tail(b)) : j > i - 1 /\ TellsHidden(d, Tail(b)[j])
  <2>1. PICK j \in 1..Len(b) : j > i /\ TellsHidden(d, b[j])
    BY <1>1 DEF HiddenLast
  <2>2. j \in 2..Len(b) /\ j - 1 > i - 1
    BY <2>1, TailShift
  <2>3. j - 1 \in 1..Len(Tail(b)) /\ Tail(b)[j - 1] = b[j]
    BY <2>2, TailShift
  <2> QED BY <2>1, <2>2, <2>3
<1>2. ASSUME NEW i \in 1..Len(Tail(b)), TellsShown(d, Tail(b)[i])
      PROVE  \E j \in 1..Len(Tail(b)) : j > i /\ TellsHidden(d, Tail(b)[j])
  <2>1. i + 1 \in 1..Len(b) /\ b[i + 1] = Tail(b)[i] /\ (i + 1) - 1 = i
    BY TailShift
  <2> QED BY <1>1, <1>2, <2>1
<1>3. ASSUME TellsShown(d, Head(b))
      PROVE  HidesComes(d, Tail(b))
  <2>1. 1 \in 1..Len(b) /\ b[1] = Head(b)
    BY TailShift
  <2>2. PICK j \in 1..Len(Tail(b)) : TellsHidden(d, Tail(b)[j])
    BY <1>1, <1>3, <2>1
  <2> QED BY <2>2 DEF HidesComes, Elements
<1> QED BY <1>2, <1>3 DEF HiddenLast

(* One message more is on its way back.                                    *)
LEMMA MoreComes ==
  ASSUME NEW S, NEW b \in Seq(S), NEW m \in S, NEW d
  PROVE  /\ HidesComes(d, Append(b, m)) <=> TellsHidden(d, m) \/ HidesComes(d, b)
         /\ ReadyComes(d, Append(b, m)) <=> (Ours(d, m) /\ m.kind = "ready") \/ ReadyComes(d, b)
         /\ \A n : RenderComes(d, Append(b, m), n) <=>
               (Ours(d, m) /\ m.kind = "rendered" /\ m.seq = n) \/ RenderComes(d, b, n)
         /\ \A x \in Elements(Append(b, m)) : x = m \/ x \in Elements(b)
  BY ElementsAppend DEF HidesComes, ReadyComes, RenderComes

LEMMA MoreHidden ==
  ASSUME NEW S, NEW b \in Seq(S), NEW m \in S, NEW d,
         TellsHidden(d, m) \/ (HiddenLast(d, b) /\ ~TellsShown(d, m))
  PROVE  HiddenLast(d, Append(b, m))
<1> DEFINE t == Append(b, m)
<1>1. Len(b) \in Nat /\ Len(t) = Len(b) + 1 /\ t[Len(b) + 1] = m
      /\ \A i \in 1..Len(b) : t[i] = b[i]
  BY AppendProperties, LenProperties
<1> HIDE DEF t
<1>2. ASSUME NEW i \in 1..Len(t), TellsShown(d, t[i])
      PROVE  \E j \in 1..Len(t) : j > i /\ TellsHidden(d, t[j])
  <2>1. CASE i = Len(b) + 1
    BY <1>1, <1>2, <2>1 DEF TellsHidden, TellsShown
  <2>2. CASE i /= Len(b) + 1 /\ TellsHidden(d, m)
    <3>1. Len(t) \in 1..Len(t) /\ Len(t) > i /\ t[Len(t)] = m
      BY <1>1, <2>2
    <3> QED BY <2>2, <3>1
  <2>3. CASE i /= Len(b) + 1 /\ HiddenLast(d, b)
    <3>1. i \in 1..Len(b) /\ TellsShown(d, b[i])
      BY <1>1, <1>2, <2>3
    <3>2. PICK j \in 1..Len(b) : j > i /\ TellsHidden(d, b[j])
      BY <2>3, <3>1 DEF HiddenLast
    <3>3. j \in 1..Len(t) /\ t[j] = b[j]
      BY <1>1
    <3> QED BY <3>2, <3>3
  <2> QED BY <2>1, <2>2, <2>3
<1> QED BY <1>2 DEF HiddenLast, t

-----------------------------------------------------------------------------
(* Turns of the provider: the document stays.                              *)

LEMMA FlowTypes ==
  ASSUME PanelInv
  PROVE  /\ Sound(host) /\ host.gen = doc.gen /\ doc \in Document
         /\ back \in Seq(Message) /\ wire \in Seq(State) /\ calls \subseteq State
         /\ Len(wire) \in Nat /\ (wire /= <<>> => Len(wire) > 0)
         /\ \A i \in 1..Len(wire) : wire[i].seq \in Nat /\ wire[i].version \in Versions
         /\ doc.received \in Nat /\ doc.rendered \in Nat /\ doc.next \in Nat /\ doc.gen \in Nat
         /\ host.seq \in Nat /\ host.attempt \in Nat /\ host.posted \in Nat /\ host.out \in Nat
         /\ Upcoming(doc, wire) \subseteq Versions
         /\ Lost(doc, wire) \in BOOLEAN /\ HidesComes(doc, back) \in BOOLEAN
<1>1. back \in Seq(Message)
  <2>1. Honest(doc) \subseteq Message
    BY DEF Honest
  <2> QED BY <2>1, SeqMonotone DEF PanelInv
<1>2. \A i \in 1..Len(wire) : wire[i] \in State
  BY ElementOfSeq DEF PanelInv
<1>3. Len(wire) \in Nat /\ (wire /= <<>> => Len(wire) > 0)
  BY EmptySeq, LenProperties DEF PanelInv
<1>4. doc.received \in Nat /\ doc.rendered \in Nat /\ doc.next \in Nat /\ doc.gen \in Nat
  BY DEF PanelInv, DocumentInv, Document
<1>5. host.seq \in Nat /\ host.attempt \in Nat /\ host.posted \in Nat /\ host.out \in Nat
  BY DEF PanelInv, Sound, Provider
<1>6. Lost(doc, wire) \in BOOLEAN /\ HidesComes(doc, back) \in BOOLEAN
  BY DEF Lost, HidesComes
<1>7. Upcoming(doc, wire) \subseteq Versions
  BY DEF Upcoming
<1> QED BY <1>1, <1>2, <1>3, <1>4, <1>5, <1>6, <1>7 DEF PanelInv, DocumentInv, State

LEMMA FlowTurned ==
  ASSUME PanelInv, FlowInv, NEW k, Marks(host, k), NEW h,
         Turned(k, h, Upcoming(doc, wire), Lost(doc, wire), HidesComes(doc, back')),
         NEW open \in SUBSET calls, Turn(h, open),
         Matches(h, doc), Tells(h, doc, back'),
         Kept(k, h) => Outstanding(h, doc, wire, back'),
         Kept(k, h) /\ h.attempt /= 0 => \A call \in calls : call.seq = h.attempt => call \in open
  PROVE  FlowInv'
<1> DEFINE post == [seq |-> h.seq, version |-> h.now]
<1>1. host' = h /\ h.gen = host.gen /\ k.seq = host.seq /\ k.posted = host.posted /\ k.attempt = host.attempt
      /\ Sound(h) /\ Orderly(h) /\ h.seq \in Nat /\ h.now \in Versions
  BY DEF Turn, Turned, Marks, Sound, Provider
<1>2. /\ doc' = doc
      /\ calls' = IF h.seq > host.seq THEN open \cup {post} ELSE open
      /\ wire' = IF h.seq > host.seq THEN Append(wire, post) ELSE wire
  BY <1>1 DEF Turn
<1>3. Renders(doc) /\ Arrives(host, doc, wire) /\ Decided(host, doc, wire, calls)
  BY DEF FlowInv
<1>4. CASE Kept(k, h) /\ Steady(h, Upcoming(doc, wire), Lost(doc, wire), HidesComes(doc, back'))
  <2>1. h.seq = host.seq /\ h.posted = host.posted /\ h.attempt \in {0, host.attempt}
    BY <1>1, <1>4 DEF Kept
  <2>2. wire' = wire /\ calls' = open
    BY <1>1, <1>2, <2>1
  <2>3. Arrives(h, doc, wire)
    BY <1>3, <2>1 DEF Arrives
  <2>4. Decided(h, doc, wire, open)
    <3>1. h.inFlight => h.attempt /= 0 /\ h.attempt = host.attempt /\ host.inFlight
      BY <1>1, <2>1, FlowTypes DEF Sound
    <3>2. h.inFlight => \E call \in open : call.seq = h.attempt
      BY <1>3, <1>4, <3>1 DEF Decided
    <3> QED BY <1>3, <2>1, <3>1, <3>2 DEF Decided
  <2> QED BY <1>1, <1>2, <1>3, <1>4, <2>2, <2>3, <2>4 DEF FlowInv
<1>5. CASE Sent(k, h) /\ Steady(h, {h.now}, FALSE, HidesComes(doc, back'))
  <2>1. h.seq > host.seq /\ h.posted = h.seq /\ h.attempt \in {0, h.seq} /\ host.seq \in Nat
    BY <1>1, <1>5, FlowTypes DEF Sent
  <2>2. wire' = Append(wire, post) /\ calls' = open \cup {post}
    BY <1>2, <2>1
  <2>3. post \in State /\ post.seq = h.seq /\ post.version = h.now
    BY <1>1 DEF State
  <2> HIDE DEF post
  <2>4. /\ Len(wire) \in Nat /\ Len(wire') = Len(wire) + 1 /\ wire'[Len(wire) + 1] = post
        /\ \A i \in 1..Len(wire) : wire'[i] = wire[i]
        /\ wire' \in Seq(State) /\ wire' /= <<>>
    BY <2>2, <2>3, FlowTypes, AppendProperties, LenProperties
  <2>5. wire'[Len(wire')] = post
    BY <2>4
  <2>6. Upcoming(doc, wire') = {h.now}
    BY <1>1, <2>3, <2>4, <2>5 DEF Upcoming
  <2>7. Lost(doc, wire') = FALSE
    BY <2>4 DEF Lost
  <2>8. Arrives(h, doc, wire')
    <3>1. \A i \in 1..Len(wire) : wire[i].seq \in Nat /\ doc.received < wire[i].seq /\ wire[i].seq < h.seq
      BY <1>1, <1>3, <2>1, FlowTypes DEF Arrives
    <3>2. doc.received < h.seq /\ doc.received <= h.seq
      BY <1>1, <1>3, <2>1, FlowTypes DEF Arrives
    <3>3. ASSUME NEW i \in 1..Len(wire')
          PROVE  doc.received < wire'[i].seq /\ wire'[i].seq <= h.seq
      <4>1. CASE i = Len(wire) + 1
        BY <1>1, <2>3, <2>4, <3>2, <4>1
      <4>2. CASE i /= Len(wire) + 1
        <5>1. i \in 1..Len(wire)
          BY <2>4, <4>2
        <5> QED BY <1>1, <2>4, <3>1, <5>1
      <4> QED BY <4>1, <4>2
    <3>4. ASSUME NEW i \in 1..Len(wire'), NEW j \in 1..Len(wire'), i < j
          PROVE  wire'[i].seq < wire'[j].seq
      <4>1. i \in 1..Len(wire) /\ wire'[i] = wire[i]
        BY <2>4, <3>4
      <4>2. CASE j = Len(wire) + 1
        BY <2>3, <2>4, <3>1, <4>1, <4>2
      <4>3. CASE j /= Len(wire) + 1
        <5>1. j \in 1..Len(wire) /\ wire'[j] = wire[j]
          BY <2>4, <4>3
        <5> QED BY <1>3, <3>4, <4>1, <5>1 DEF Arrives
      <4> QED BY <4>2, <4>3
    <3> QED BY <2>1, <2>3, <2>4, <2>5, <3>2, <3>3, <3>4 DEF Arrives
  <2>9. Outstanding(h, doc, wire', back')
    BY <2>4 DEF Outstanding
  <2>10. Decided(h, doc, wire', calls')
    <3>1. \A call \in open : call.seq \in Nat /\ call.seq /= 0 /\ call.seq < h.seq
      BY <1>1, <1>3, <2>1, FlowTypes DEF Decided, State
    <3>2. h.seq /= 0 /\ h.seq <= h.seq
      BY <1>1, <2>1
    <3>3. \A call \in calls' : call.seq /= 0 /\ call.seq <= h.seq
      BY <1>1, <2>2, <2>3, <3>1, <3>2
    <3>4. h.inFlight => h.attempt = h.seq
      BY <1>1, <2>1 DEF Sound
    <3>5. \A call \in calls' : call.seq = h.seq => call = post
      BY <1>1, <2>2, <3>1
    <3>6. h.now \in Upcoming(doc, wire') /\ post \in calls'
      BY <2>2, <2>6
    <3> QED BY <2>3, <3>3, <3>4, <3>5, <3>6 DEF Decided
  <2>11. Steady(h, Upcoming(doc, wire'), Lost(doc, wire'), HidesComes(doc, back'))
    BY <1>5, <2>6, <2>7
  <2> QED BY <1>1, <1>2, <1>3, <2>8, <2>9, <2>10, <2>11 DEF FlowInv
<1> QED BY <1>4, <1>5 DEF Turned

(* The provider has a new document.                                        *)
LEMMA FlowLoaded ==
  ASSUME PanelInv, FlowInv, NEW k, k.gen = host.gen, k.seq = host.seq, NEW h, Loaded(k, h),
         NEW open \in SUBSET calls, Turn(h, open), Elements(back') \subseteq Elements(back)
  PROVE  FlowInv'
<1>1. host' = h /\ h.gen > host.gen /\ h.seq = host.seq /\ Sound(h) /\ Orderly(h)
      /\ h.posted = 0 /\ h.out = 0 /\ ~h.inFlight /\ ~h.ready /\ h.gen \in Nat /\ h.seq \in Nat
  BY DEF Turn, Loaded, Sound, Provider
<1>2. host.gen \in Nat /\ host.gen /= h.gen
  BY <1>1, FlowTypes
<1>3. doc' = NewDocument(h.gen, h.kind) /\ calls' = open /\ wire' \in {wire, <<>>}
  BY <1>1, <1>2 DEF Turn
<1>4. /\ doc'.gen = h.gen /\ doc'.kind = h.kind /\ doc'.started = FALSE /\ doc'.hidden = FALSE
      /\ doc'.received = 0 /\ doc'.next = 0 /\ doc'.frame = FALSE
  BY <1>3 DEF NewDocument
<1>5. Steady(h, Upcoming(doc', wire'), Lost(doc', wire'), HidesComes(doc', back'))
  BY <1>1 DEF Steady, Live
<1>6. Matches(h, doc')
  BY <1>1, <1>4 DEF Matches
<1>7. \A m \in Elements(back') : ~Ours(doc', m)
  <2>1. ASSUME NEW m \in Elements(back) PROVE m.gen /= h.gen
    <3>1. m \in Honest(doc)
      <4>1. PICK i \in 1..Len(back) : m = back[i]
        BY DEF Elements
      <4> QED BY <4>1, ElementOfSeq DEF PanelInv
    <3>2. m.gen \in Nat /\ m.gen <= doc.gen
      BY <3>1 DEF Honest, Message
    <3> QED BY <1>1, <1>2, <3>2, FlowTypes
  <2> QED BY <1>4, <2>1 DEF Ours
<1>8. Tells(h, doc', back')
  BY <1>4, <1>7 DEF Tells
<1>9. Arrives(h, doc', wire')
  <2>1. CASE wire' = wire
    <3>1. Arrives(host, doc, wire)
      BY DEF FlowInv
    <3>2. \A i \in 1..Len(wire) : 0 < wire[i].seq
      BY <3>1, FlowTypes DEF Arrives
    <3> QED BY <1>1, <1>4, <2>1, <3>1, <3>2 DEF Arrives
  <2>2. CASE wire' = <<>>
    <3>1. Len(wire') = 0 /\ 1..0 = {}
      BY <2>2
    <3> QED BY <1>1, <1>4, <2>2, <3>1 DEF Arrives
  <2> QED BY <1>3, <2>1, <2>2
<1>10. Renders(doc') /\ Outstanding(h, doc', wire', back')
  BY <1>1, <1>4 DEF Renders, Outstanding
<1>11. Decided(h, doc', wire', calls')
  <2>1. Decided(host, doc, wire, calls)
    BY DEF FlowInv
  <2> QED BY <1>1, <1>3, <2>1 DEF Decided
<1> QED BY <1>1, <1>5, <1>6, <1>8, <1>9, <1>10, <1>11 DEF FlowInv

-----------------------------------------------------------------------------
(* The steps of the provider.                                              *)

ViewFields == {"view", "retain", "kind", "ready", "docShown"}

LEMMA FlowHost ==
  ASSUME PanelInv, FlowInv
  PROVE  /\ Orderly(host) /\ PostsOrderly(host)
         /\ Steady(host, Upcoming(doc, wire), Lost(doc, wire), HidesComes(doc, back))
         /\ \A now \in BOOLEAN :
               Allows(host, now, Upcoming(doc, wire), Lost(doc, wire), HidesComes(doc, back))
         /\ Turned(host, host, Upcoming(doc, wire), Lost(doc, wire), HidesComes(doc, back))
<1>1. Orderly(host) /\ Steady(host, Upcoming(doc, wire), Lost(doc, wire), HidesComes(doc, back))
  BY DEF FlowInv
<1>2. ASSUME NEW now \in BOOLEAN
      PROVE  Allows(host, now, Upcoming(doc, wire), Lost(doc, wire), HidesComes(doc, back))
  BY <1>1, FlowTypes, SteadyAllows
<1>3. Turned(host, host, Upcoming(doc, wire), Lost(doc, wire), HidesComes(doc, back))
  BY <1>1, FlowTypes, StaysTurned
<1> QED BY <1>1, <1>2, <1>3 DEF Orderly

(* Nothing is heard, and the view stays as it is.                          *)
LEMMA OwnFlow ==
  ASSUME PanelInv, FlowInv, NEW k, Marks(host, k), Asks(host, k, ViewFields), NEW h,
         Turned(k, h, Upcoming(doc, wire), Lost(doc, wire), HidesComes(doc, back)),
         Asks(k, h, ViewFields), NEW open \in SUBSET calls, Turn(h, open), UNCHANGED back,
         Kept(k, h) /\ h.attempt /= 0 => \A call \in calls : call.seq = h.attempt => call \in open
  PROVE  FlowInv'
<1>1. /\ h.view = host.view /\ h.retain = host.retain /\ h.kind = host.kind /\ h.ready = host.ready
      /\ h.docShown = host.docShown
  BY DEF Asks, ViewFields
<1>2. Matches(h, doc)
  BY <1>1 DEF FlowInv, Matches
<1>3. Tells(h, doc, back)
  BY <1>1 DEF FlowInv, Tells
<1>4. Kept(k, h) => Outstanding(h, doc, wire, back)
  <2>1. k.out = host.out
    BY DEF Marks
  <2> QED BY <2>1 DEF FlowInv, Kept, Outstanding
<1>5. back' = back
  OBVIOUS
<1> QED BY <1>2, <1>3, <1>4, <1>5, FlowTurned

LEMMA PostFrom ==
  ASSUME NEW k, Sound(k), Orderly(k), NEW U, NEW lost \in BOOLEAN, NEW hides \in BOOLEAN,
         NEW now \in BOOLEAN, NEW boot \in BOOLEAN, Allows(k, now, U, lost, hides)
  PROVE  Turned(k, Post(k, now, boot), U, lost, hides) /\ Asks(k, Post(k, now, boot), ViewFields)
<1> DEFINE g == Post(k, now, boot)
<1>1. CASE k.view = "none"
  <2>1. g = k
    BY <1>1 DEF Post
  <2>2. ~Live(k) /\ Kept(k, k)
    BY <1>1 DEF Live, Shown, Kept
  <2>3. Turned(k, k, U, lost, hides)
    BY <2>2, DarkTurned
  <2> HIDE DEF g
  <2>4. Turned(k, g, U, lost, hides) /\ Asks(k, g, ViewFields)
    BY <2>1, <2>3 DEF Asks
  <2> QED BY <2>4 DEF g
<1>2. CASE k.view /= "none"
  <2>1. Turned(k, g, U, lost, hides)
    BY <1>2, PostTurned DEF Orderly
  <2>2. Apart(k, g)
    <3>1. Tidy(k)
      BY DEF Tidy, Orderly, PostsOrderly
    <3> QED BY <1>2, <3>1, PostEffect DEF PostDoes
  <2> HIDE DEF g
  <2>3. Asks(k, g, ViewFields)
    BY <2>2 DEF Apart, Asks, ViewFields
  <2> QED BY <2>1, <2>3 DEF g
<1> QED BY <1>1, <1>2

LEMMA OpenKept ==
  ASSUME PanelInv
  PROVE  calls \in SUBSET calls /\ \A h : \A call \in calls : call.seq = h => call \in calls
  OBVIOUS

LEMMA ChangeFlow ==
  ASSUME PanelInv, FlowInv, NEW v \in Versions, NEW now \in BOOLEAN, Change(v, now)
  PROVE  FlowInv'
<1> DEFINE k == [host EXCEPT !.now = v]
           h == Post(k, now, FALSE)
<1>1. Turn(h, calls) /\ UNCHANGED back
  BY DEF Change
<1>2. /\ Sound(k) /\ Apart(host, [k EXCEPT !.now = host.now]) /\ SamePost(host, k)
      /\ Asks(host, k, ViewFields \cup {"greets", "probe", "retryTimer", "sig", "visible", "out", "dirty", "pend",
                                        "immediate", "timer", "gen"})
  BY FlowTypes DEF Sound, Provider, Apart, SamePost, Asks, ViewFields
<1> HIDE DEF k
<1>3. Orderly(k) /\ Marks(host, k) /\ Asks(host, k, ViewFields)
  BY <1>2, FlowHost DEF Orderly, PostsOrderly, RequestsOrderly, Shown, SamePost, Asks, ViewFields, Marks
<1>4. Allows(k, now, Upcoming(doc, wire), Lost(doc, wire), HidesComes(doc, back))
  <2>1. Allows(host, now, Upcoming(doc, wire), Lost(doc, wire), HidesComes(doc, back))
    BY FlowHost
  <2> QED BY <1>2, <2>1 DEF Allows, Live, Shown, Again, Greeting, SamePost, Asks, ViewFields
<1>5. /\ Turned(k, h, Upcoming(doc, wire), Lost(doc, wire), HidesComes(doc, back))
      /\ Asks(k, h, ViewFields)
  BY <1>2, <1>3, <1>4, FlowTypes, PostFrom
<1> HIDE DEF h
<1> QED BY <1>1, <1>3, <1>5, OpenKept, OwnFlow

LEMMA TimersFlow ==
  ASSUME PanelInv, FlowInv, TimerFires \/ RetryFires
  PROVE  FlowInv'
<1> DEFINE U == Upcoming(doc, wire)
           l == Lost(doc, wire)
           c == HidesComes(doc, back)
<1>1. Sound(host) /\ Orderly(host) /\ Steady(host, U, l, c) /\ l \in BOOLEAN /\ c \in BOOLEAN
  BY FlowHost, FlowTypes
<1> HIDE DEF U, l, c
<1>2. ASSUME NEW h, Sound(h), NEW now \in BOOLEAN, Asks(host, h, ViewAside \ {"retryTimer"}),
             Asks(host, h, {"docShown", "visible", "out", "dirty", "pend", "immediate"}),
             h.retryTimer => host.retryTimer, now \/ h.retryTimer = host.retryTimer, h.timer => host.timer,
             host.timer \/ host.retryTimer, Turn(Flush(h, now), calls), UNCHANGED back
      PROVE  FlowInv'
  <2> DEFINE g == Flush(h, now)
  <2>1. Turned(h, g, U, l, c) /\ Apart(h, g)
    BY <1>1, <1>2, FlushTurned
  <2> HIDE DEF g
  <2>2. Marks(host, h) /\ Asks(host, h, ViewFields) /\ Asks(h, g, ViewFields)
    BY <1>2, <2>1 DEF Marks, Asks, ViewAside, ViewFields, Apart
  <2>3. Turn(g, calls)
    BY <1>2 DEF g
  <2> QED BY <1>2, <2>1, <2>2, <2>3, OpenKept, OwnFlow DEF U, l, c
<1>3. CASE TimerFires
  <2>1. host.timer /\ Turn(Flush(host, FALSE), calls) /\ UNCHANGED back
    BY <1>3 DEF TimerFires
  <2>2. Asks(host, host, ViewAside \ {"retryTimer"})
        /\ Asks(host, host, {"docShown", "visible", "out", "dirty", "pend", "immediate"})
    BY DEF Asks
  <2> QED BY <1>1, <1>2, <2>1, <2>2
<1>4. CASE RetryFires
  <2> DEFINE h == [host EXCEPT !.retryTimer = FALSE]
  <2>1. host.retryTimer /\ Turn(Flush(h, TRUE), calls) /\ UNCHANGED back
    BY <1>4 DEF RetryFires
  <2>2. /\ Sound(h) /\ Asks(host, h, ViewAside \ {"retryTimer"}) /\ ~h.retryTimer /\ h.timer = host.timer
        /\ Asks(host, h, {"docShown", "visible", "out", "dirty", "pend", "immediate"})
    <3>1. Sound(h)
      BY <1>1, FlagsFollow DEF Follows
    <3> QED BY <1>1, <3>1 DEF Sound, Provider, Asks, ViewAside
  <2> HIDE DEF h
  <2> QED BY <1>2, <2>1, <2>2
<1> QED BY <1>3, <1>4

LEMMA GreetingsFlow ==
  ASSUME PanelInv, FlowInv, Greet \/ ProbeTaken
  PROVE  FlowInv'
<1> DEFINE U == Upcoming(doc, wire)
           l == Lost(doc, wire)
           c == HidesComes(doc, back)
           rest == ViewFields \cup {"sig", "visible", "out", "dirty", "pend", "immediate", "timer", "seq",
                                    "posted", "attempt", "inFlight", "gen", "now"}
<1>1. Sound(host) /\ Orderly(host) /\ Allows(host, TRUE, U, l, c) /\ l \in BOOLEAN /\ c \in BOOLEAN
  <2>1. TRUE \in BOOLEAN
    OBVIOUS
  <2> QED BY <2>1, FlowHost, FlowTypes
<1> HIDE DEF U, l, c
<1>2. ASSUME NEW k, Sound(k), Asks(host, k, rest), k.retryTimer => host.retryTimer,
             NEW boot \in BOOLEAN, Turn(Post(k, TRUE, boot), calls), UNCHANGED back
      PROVE  FlowInv'
  <2> DEFINE g == Post(k, TRUE, boot)
  <2>1. Orderly(k) /\ Marks(host, k) /\ Asks(host, k, ViewFields)
    BY <1>1, <1>2 DEF Orderly, PostsOrderly, RequestsOrderly, Shown, Asks, ViewFields, Marks
  <2>2. Allows(k, TRUE, U, l, c)
    BY <1>1, <1>2 DEF Allows, Live, Shown, Asks, ViewFields
  <2>3. Turned(k, g, U, l, c) /\ Asks(k, g, ViewFields)
    BY <1>1, <1>2, <2>1, <2>2, PostFrom
  <2> HIDE DEF g
  <2>4. Turn(g, calls)
    BY <1>2 DEF g
  <2> QED BY <1>2, <2>1, <2>3, <2>4, OpenKept, OwnFlow DEF U, l, c
<1>3. CASE Greet
  <2> DEFINE k == [host EXCEPT !.greets = @ - 1, !.retries = 0, !.retryTimer = FALSE]
  <2>1. Turn(Post(k, TRUE, TRUE), calls) /\ UNCHANGED back
    BY <1>3 DEF Greet
  <2>2. host.greets - 1 \in Nat /\ 0 <= RetryMax
    BY <1>1, <1>3, Bounds DEF Greet, Sound, Provider
  <2>3. /\ k \in Provider /\ k.retries = 0 /\ k.retryTimer = FALSE /\ k.rendered = host.rendered
        /\ Asks(host, k, rest)
    BY <1>1, <2>2 DEF Sound, Provider, Asks, ViewFields
  <2> HIDE DEF k
  <2>4. Sound(k)
    BY <1>1, <2>2, <2>3 DEF Sound, Asks, ViewFields
  <2> QED BY <1>2, <2>1, <2>3, <2>4
<1>4. CASE ProbeTaken
  <2> DEFINE k == [host EXCEPT !.probe = FALSE]
  <2>1. Turn(Post(k, TRUE, FALSE), calls) /\ UNCHANGED back
    BY <1>4 DEF ProbeTaken
  <2>2. Sound(k) /\ k.retryTimer = host.retryTimer /\ Asks(host, k, rest)
    <3>1. Sound(k)
      BY <1>1, FlagsFollow DEF Follows
    <3> QED BY <1>1, <3>1 DEF Sound, Provider, Asks, ViewFields
  <2> HIDE DEF k
  <2> QED BY <1>2, <2>1, <2>2
<1> QED BY <1>3, <1>4

LEMMA AnswersFlow ==
  ASSUME PanelInv, FlowInv, NEW call \in calls, Taken(call) \/ Refused(call)
  PROVE  FlowInv'
<1> DEFINE U == Upcoming(doc, wire)
           l == Lost(doc, wire)
           c == HidesComes(doc, back)
           open == calls \ {call}
<1>1. /\ Sound(host) /\ Orderly(host) /\ Steady(host, U, l, c) /\ l \in BOOLEAN /\ c \in BOOLEAN
      /\ Turned(host, host, U, l, c)
  BY FlowHost, FlowTypes
<1>2. call \in [seq : Nat, version : Versions] /\ call.seq \in Nat /\ call.seq /= 0 /\ open \in SUBSET calls
      /\ \A other \in calls : other /= call => other \in open
  BY FlowTypes DEF State, FlowInv, Decided
<1>3. Marks(host, host) /\ Asks(host, host, ViewFields) /\ UNCHANGED back
  BY DEF Marks, Asks, Taken, Refused
<1>4. Counts(call) /\ Live(host) => call.version \in U
  <2>1. Counts(call) => host.inFlight
    BY <1>1, <1>2 DEF Counts, Sound
  <2>2. Live(host) => doc.kind = "panel"
    BY <1>1 DEF FlowInv, Matches, Live, Shown, Orderly, PostsOrderly
  <2> QED BY <2>1, <2>2 DEF FlowInv, Decided, Counts
<1> HIDE DEF U, l, c, open
<1>5. CASE ~Counts(call)
  <2>1. Turn(host, open)
    BY <1>5 DEF Taken, Refused, open
  <2>2. \A other \in calls : other.seq = host.attempt => other \in open
    BY <1>2, <1>5 DEF Counts
  <2> QED BY <1>1, <1>2, <1>3, <2>1, <2>2, OwnFlow DEF U, l, c
<1>6. CASE Counts(call) /\ Taken(call)
  <2> DEFINE g == PostTaken(host, call)
  <2>1. Turn(g, open)
    BY <1>6 DEF Taken, open
  <2>2. Turned(host, g, U, l, c) /\ Asks(host, g, ViewFields) /\ (Kept(host, g) => g.attempt = 0)
    BY <1>1, <1>2, <1>4, <1>6, PostTakenTurned DEF Counts, Asks, ViewFields
  <2> HIDE DEF g
  <2> QED BY <1>2, <1>3, <2>1, <2>2, OwnFlow DEF U, l, c
<1>7. CASE Counts(call) /\ Refused(call)
  <2> DEFINE g == PostFailed(host, call.seq)
  <2>1. Turn(g, open)
    BY <1>7 DEF Refused, open
  <2>2. \/ Loaded(host, g)
        \/ Turned(host, g, U, l, c) /\ Asks(host, g, ViewFields) /\ g.attempt = 0
    BY <1>1, <1>2, <1>7, PostFailedTurned DEF Counts, Asks, ViewFields
  <2> HIDE DEF g
  <2>3. CASE Loaded(host, g)
    <3>1. Elements(back') \subseteq Elements(back)
      BY <1>3
    <3> QED BY <1>2, <2>1, <2>3, <3>1, FlowLoaded
  <2>4. CASE Turned(host, g, U, l, c) /\ Asks(host, g, ViewFields) /\ g.attempt = 0
    BY <1>2, <1>3, <2>1, <2>4, OwnFlow DEF U, l, c
  <2> QED BY <2>2, <2>3, <2>4
<1> QED BY <1>5, <1>6, <1>7

LEMMA LoadsFlow ==
  ASSUME PanelInv, FlowInv,
         \/ Stalls \/ Watchdog \/ Reload \/ Resolve("hidden") \/ Resolve("shown")
         \/ Show /\ ~host.retain
  PROVE  FlowInv'
<1>1. Sound(host) /\ calls \in SUBSET calls
  BY FlowTypes
<1>2. ASSUME NEW k, Sound(k), k.gen = host.gen, k.seq = host.seq, NEW kind \in {"panel", "recovery"},
             Turn(Load(k, kind), calls), UNCHANGED back
      PROVE  FlowInv'
  <2>1. Loaded(k, Load(k, kind))
    BY <1>2, LoadLoaded
  <2> QED BY <1>1, <1>2, <2>1, FlowLoaded
<1>3. CASE Stalls
  <2>1. Turn(Recover(host), calls) /\ UNCHANGED back /\ host.view = "shown"
    BY <1>3 DEF Stalls
  <2>2. Loaded(host, Recover(host))
    BY <1>1, <2>1, RecoverLoaded
  <2> QED BY <1>1, <2>1, <2>2, FlowLoaded
<1>4. CASE Watchdog
  BY <1>1, <1>2, <1>4 DEF Watchdog
<1>5. CASE Reload
  BY <1>1, <1>2, <1>5 DEF Reload
<1>6. ASSUME NEW v \in {"hidden", "shown"}, Resolve(v) \/ (Show /\ ~host.retain /\ v = "shown")
      PROVE  FlowInv'
  <2> DEFINE k == [host EXCEPT !.view = v]
  <2>1. Sound(k) /\ k.gen = host.gen /\ k.seq = host.seq /\ k.retain = host.retain
    BY <1>1 DEF Sound, Provider
  <2>2. Turn(Load(k, "panel"), calls) /\ UNCHANGED back
    BY <1>6, <2>1 DEF Resolve, Show
  <2> HIDE DEF k
  <2> QED BY <1>2, <2>1, <2>2
<1> QED BY <1>3, <1>4, <1>5, <1>6

LEMMA ShowFlow ==
  ASSUME PanelInv, FlowInv, Show, host.retain
  PROVE  FlowInv'
<1> DEFINE k == [host EXCEPT !.view = "shown"]
           b == k.ready
           h == [k EXCEPT !.probe = b]
           same == {"retain", "kind", "ready", "docShown", "now", "gen", "greets", "retryTimer", "sig", "visible",
                    "out", "dirty", "pend", "immediate", "timer", "seq", "posted", "attempt", "inFlight"}
<1>1. Sound(host) /\ Orderly(host) /\ Steady(host, Upcoming(doc, wire), Lost(doc, wire), HidesComes(doc, back))
  BY FlowHost, FlowTypes
<1>2. Sound(k) /\ k.view = "shown" /\ Asks(host, k, same)
  BY <1>1 DEF Sound, Provider, Asks
<1>3. host.view = "hidden" /\ Turn(h, calls) /\ UNCHANGED back
  BY <1>2 DEF Show, Asks
<1> HIDE DEF k
<1>4. Sound(h) /\ h.view = "shown" /\ h.probe = b /\ Asks(host, h, same) /\ b = h.ready
  <2>1. b \in BOOLEAN /\ k \in Provider
    BY <1>2 DEF Sound, Provider
  <2>2. Sound(h)
    BY <1>2, <2>1, FlagsFollow DEF Follows
  <2>3. h.view = "shown" /\ h.probe = b /\ Asks(k, h, same)
    <3> HIDE DEF b
    <3> QED BY <1>2, <2>1 DEF Provider, Asks
  <2> HIDE DEF h
  <2> QED BY <1>2, <2>2, <2>3 DEF Asks
<1> HIDE DEF h, b
<1>5. ~host.visible /\ host.out = 0
  BY <1>1, <1>3 DEF Orderly, PostsOrderly, RequestsOrderly, Shown
<1>6. Orderly(h)
  <2>1. PostsOrderly(h)
    BY <1>1, <1>3, <1>4, <1>5 DEF Orderly, PostsOrderly, Asks
  <2>2. RequestsOrderly(h)
    BY <1>1, <1>4, <1>5 DEF Orderly, RequestsOrderly, Asks
  <2> QED BY <2>1, <2>2 DEF Orderly
<1>7. Steady(h, Upcoming(doc, wire), Lost(doc, wire), HidesComes(doc, back))
  <2>1. Live(h) => Greeting(h) /\ Again(h)
    BY <1>4 DEF Live, Greeting, Again
  <2>2. h.out = 0 /\ ~h.visible
    BY <1>4, <1>5 DEF Asks
  <2> QED BY <2>1, <2>2 DEF Steady
<1>8. Kept(host, h) /\ h.gen = host.gen /\ h.now = host.now /\ Marks(host, host)
  BY <1>4 DEF Kept, Asks, Marks
<1>9. Turned(host, h, Upcoming(doc, wire), Lost(doc, wire), HidesComes(doc, back'))
  BY <1>3, <1>4, <1>6, <1>7, <1>8 DEF Turned
<1>10. Matches(h, doc)
  BY <1>3, <1>4 DEF FlowInv, Matches, Asks
<1>11. Tells(h, doc, back')
  BY <1>3, <1>4 DEF FlowInv, Tells, Asks
<1>12. Outstanding(h, doc, wire, back')
  BY <1>4, <1>5 DEF Outstanding, Asks
<1> QED BY <1>3, <1>8, <1>9, <1>10, <1>11, <1>12, OpenKept, FlowTurned

-----------------------------------------------------------------------------
(* What is heard of the document.                                          *)

LEMMA Heards ==
  ASSUME PanelInv, FlowInv, back /= <<>>, back' = Tail(back)
  PROVE  /\ Elements(back') \subseteq Elements(back)
         /\ HidesComes(doc, back) <=> TellsHidden(doc, Head(back)) \/ HidesComes(doc, back')
         /\ HidesComes(doc, back') \in BOOLEAN
         /\ doc.kind = "panel" /\ doc.started /\ ~host.ready =>
               (Ours(doc, Head(back)) /\ Head(back).kind = "ready") \/ ReadyComes(doc, back')
         /\ \A n : RenderComes(doc, back, n) =>
               (Ours(doc, Head(back)) /\ Head(back).kind = "rendered" /\ Head(back).seq = n)
                  \/ RenderComes(doc, back', n)
         /\ doc.hidden => HiddenLast(doc, back') /\ (TellsShown(doc, Head(back)) => HidesComes(doc, back'))
         /\ \A m \in Elements(back') : Ours(doc, m) => doc.started
         /\ Ours(doc, Head(back)) => doc.started /\ host.kind = "panel"
         /\ Head(back) \in Message
<1>1. back \in Seq(Message) /\ Tells(host, doc, back) /\ Matches(host, doc)
  BY FlowTypes DEF FlowInv
<1>2. Elements(back) = {Head(back)} \cup Elements(back') /\ Head(back) \in Message
  BY <1>1, ElementsTail, TailShift
<1>3. /\ HidesComes(doc, back) <=> TellsHidden(doc, Head(back)) \/ HidesComes(doc, back')
      /\ ReadyComes(doc, back) <=> (Ours(doc, Head(back)) /\ Head(back).kind = "ready") \/ ReadyComes(doc, back')
      /\ \A n : RenderComes(doc, back, n) <=>
               (Ours(doc, Head(back)) /\ Head(back).kind = "rendered" /\ Head(back).seq = n)
                  \/ RenderComes(doc, back', n)
  BY <1>1, LessComes
<1>4. doc.hidden => HiddenLast(doc, back') /\ (TellsShown(doc, Head(back)) => HidesComes(doc, back'))
  BY <1>1, LessHidden DEF Tells
<1>5. HidesComes(doc, back') \in BOOLEAN
  BY DEF HidesComes
<1>6. /\ doc.kind = "panel" /\ doc.started /\ ~host.ready => ReadyComes(doc, back)
      /\ \A m \in Elements(back) : Ours(doc, m) => doc.started
      /\ doc.started => host.kind = "panel"
  BY <1>1 DEF Tells, Matches
<1> QED BY <1>2, <1>3, <1>4, <1>5, <1>6

(* A message of this document is heard, which may say that it is shown.    *)
LEMMA HeardFlow ==
  ASSUME PanelInv, FlowInv, back /= <<>>, back' = Tail(back), Ours(doc, Head(back)),
         NEW h, Turned(host, h, Upcoming(doc, wire), Lost(doc, wire), HidesComes(doc, back')),
         \A f \in {"view", "retain", "kind", "ready"} : h[f] = host[f],
         Head(back).kind /= "ready",
         h.docShown => (host.docShown /\ ~TellsHidden(doc, Head(back))) \/ TellsShown(doc, Head(back)),
         TellsHidden(doc, Head(back)) => h.out = 0,
         Head(back).kind = "rendered" /\ host.out /= 0 /\ Head(back).seq = host.out /\ Kept(host, h) => h.out = 0,
         Turn(h, calls)
  PROVE  FlowInv'
<1>1. Matches(h, doc)
  BY DEF FlowInv, Matches
<1>2. Tells(h, doc, back')
  <2>1. doc.hidden /\ host.docShown => HidesComes(doc, back)
    BY DEF FlowInv, Tells
  <2>2. doc.hidden /\ h.docShown => HidesComes(doc, back')
    BY <2>1, Heards
  <2> QED BY <2>2, Heards DEF Tells
<1>3. Kept(host, h) => Outstanding(h, doc, wire, back')
  <2>1. CASE Kept(host, h) /\ h.out /= 0
    <3>1. h.out = host.out /\ Outstanding(host, doc, wire, back)
      BY <2>1 DEF Kept, FlowInv
    <3>2. RenderComes(doc, back, host.out) => RenderComes(doc, back', host.out)
      BY <2>1, <3>1, Heards
    <3>3. ~HidesComes(doc, back') => ~HidesComes(doc, back)
      BY <2>1, Heards
    <3> QED BY <3>1, <3>2, <3>3 DEF Outstanding
  <2>2. CASE h.out = 0
    BY <2>2 DEF Outstanding
  <2> QED BY <2>1, <2>2
<1>4. Marks(host, host)
  BY DEF Marks
<1> QED BY <1>1, <1>2, <1>3, <1>4, OpenKept, FlowTurned

LEMMA CurrentOurs ==
  ASSUME PanelInv, Current(Head(back))
  PROVE  Ours(doc, Head(back))
  BY DEF PanelInv, Current, Ours

LEMMA HearReadyFlow ==
  ASSUME PanelInv, FlowInv, HearReady
  PROVE  FlowInv'
<1> DEFINE m == Head(back)
           n == host.greets + 1
           h == [host EXCEPT !.ready = TRUE, !.greets = n]
           same == {"view", "retain", "kind", "docShown", "now", "gen", "probe", "retryTimer", "sig", "visible",
                    "out", "dirty", "pend", "immediate", "timer", "seq", "posted", "attempt", "inFlight"}
<1>1. back /= <<>> /\ back' = Tail(back) /\ m.kind = "ready" /\ Ours(doc, m) /\ Turn(h, calls)
  BY CurrentOurs DEF HearReady, Next1, Heard
<1>2. ~TellsHidden(doc, m) /\ m.kind /= "rendered" /\ doc.started /\ host.kind = "panel"
  BY <1>1, Heards DEF TellsHidden
<1> HIDE DEF m
<1>3. HidesComes(doc, back') = HidesComes(doc, back)
  BY <1>1, <1>2, Heards, FlowTypes DEF m
<1>4. Sound(host) /\ Orderly(host) /\ Steady(host, Upcoming(doc, wire), Lost(doc, wire), HidesComes(doc, back'))
  BY <1>3, FlowHost, FlowTypes
<1>5. n \in Nat /\ n > 0
  BY <1>4 DEF Sound, Provider
<1> HIDE DEF n
<1>6. h \in Provider /\ h.ready = TRUE /\ h.greets = n /\ h.rendered = host.rendered /\ h.retries = host.retries
      /\ Asks(host, h, same)
  BY <1>4, <1>5 DEF Sound, Provider, Asks
<1> HIDE DEF h
<1>7. Sound(h)
  BY <1>4, <1>6 DEF Sound, Asks
<1>8. Orderly(h)
  <2>1. PostsOrderly(h)
    BY <1>2, <1>4, <1>6 DEF Orderly, PostsOrderly, Asks
  <2>2. RequestsOrderly(h)
    BY <1>4, <1>6 DEF Orderly, RequestsOrderly, Asks, Shown
  <2> QED BY <2>1, <2>2 DEF Orderly
<1>9. Steady(h, Upcoming(doc, wire), Lost(doc, wire), HidesComes(doc, back'))
  <2>1. Greeting(h) /\ Again(h) /\ Shown(h) = Shown(host) /\ (Live(h) => Shown(host))
    BY <1>5, <1>6 DEF Greeting, Again, Shown, Live, Asks
  <2>2. CASE host.ready
    <3>1. Live(h) => Live(host)
      BY <2>1, <2>2 DEF Live
    <3> QED BY <1>4, <1>6, <2>1, <3>1 DEF Steady, Asks
  <2>3. CASE ~host.ready
    <3>1. Live(h) => host.posted = 0 /\ host.out = 0
      BY <1>4, <2>1, <2>3 DEF Orderly, PostsOrderly, Shown
    <3> QED BY <1>6, <2>1, <3>1 DEF Steady, Asks
  <2> QED BY <2>2, <2>3
<1>10. Turned(host, h, Upcoming(doc, wire), Lost(doc, wire), HidesComes(doc, back'))
       /\ Marks(host, host) /\ Kept(host, h)
  BY <1>6, <1>7, <1>8, <1>9 DEF Turned, Kept, Asks, Marks
<1>11. Matches(h, doc)
  BY <1>2, <1>6 DEF FlowInv, Matches, Asks
<1>12. Tells(h, doc, back')
  <2>1. doc.hidden /\ host.docShown => HidesComes(doc, back)
    BY DEF FlowInv, Tells
  <2> QED BY <1>1, <1>3, <1>6, <2>1, Heards DEF Tells, Asks
<1>13. Outstanding(h, doc, wire, back')
  <2>1. Outstanding(host, doc, wire, back) /\ h.out = host.out
    BY <1>6 DEF FlowInv, Asks
  <2>2. RenderComes(doc, back, h.out) => RenderComes(doc, back', h.out)
    BY <1>1, <1>2, Heards DEF m
  <2> QED BY <1>3, <2>1, <2>2 DEF Outstanding
<1> QED BY <1>1, <1>10, <1>11, <1>12, <1>13, OpenKept, FlowTurned

LEMMA HearVisibilityFlow ==
  ASSUME PanelInv, FlowInv, HearVisibility
  PROVE  FlowInv'
<1> DEFINE m == Head(back)
           v == ~m.hidden
           h == Shows(host, v)
           U == Upcoming(doc, wire)
           l == Lost(doc, wire)
           c == HidesComes(doc, back)
           d == HidesComes(doc, back')
<1>1. back /= <<>> /\ back' = Tail(back) /\ m.kind = "visibility" /\ Ours(doc, m) /\ Turn(h, calls)
  BY CurrentOurs DEF HearVisibility, Next1, Heard
<1>2. m.hidden \in BOOLEAN /\ v \in BOOLEAN
  BY <1>1, Heards DEF Message
<1>3. (TellsHidden(doc, m) <=> ~v) /\ (TellsShown(doc, m) <=> v)
  BY <1>1, <1>2 DEF TellsHidden, TellsShown
<1>4. (c <=> TellsHidden(doc, m) \/ d) /\ c \in BOOLEAN /\ d \in BOOLEAN /\ l \in BOOLEAN
  BY <1>1, Heards, FlowTypes
<1>5. Sound(host) /\ Orderly(host) /\ Steady(host, U, l, c)
  BY FlowHost, FlowTypes
<1> HIDE DEF U, l, c, d, v
<1>6. /\ Turned(host, h, U, l, c) /\ h.docShown = v
      /\ \A f \in {"view", "retain", "kind", "ready"} : h[f] = host[f]
  BY <1>2, <1>4, <1>5, ShowsTurned
<1> HIDE DEF h, m
<1>7. Turned(host, h, U, l, d)
  <2>1. CASE v
    <3>1. c = d
      BY <1>3, <1>4, <2>1
    <3> QED BY <1>6, <3>1
  <2>2. CASE ~v
    <3>1. ~Live(h)
      BY <1>6, <2>2 DEF Live, Shown
    <3> QED BY <1>4, <1>6, <3>1, DarkEither
  <2> QED BY <2>1, <2>2
<1>8. ~v => h.out = 0
  <2>1. Sound(h) /\ Orderly(h)
    BY <1>6 DEF Turned
  <2> QED BY <1>6, <2>1 DEF Sound, Orderly, PostsOrderly, RequestsOrderly, Shown
<1> QED BY <1>1, <1>3, <1>6, <1>7, <1>8, HeardFlow DEF U, l, d, m

LEMMA HearRenderedFlow ==
  ASSUME PanelInv, FlowInv, HearRendered
  PROVE  FlowInv'
<1> DEFINE m == Head(back)
           h == Acknowledged(host, m.seq)
           U == Upcoming(doc, wire)
           l == Lost(doc, wire)
           d == HidesComes(doc, back')
<1>1. back /= <<>> /\ back' = Tail(back) /\ m.kind = "rendered" /\ Ours(doc, m) /\ Turn(h, calls)
  BY CurrentOurs DEF HearRendered, Next1, Heard
<1>2. m.seq \in Nat
  BY <1>1, Heards DEF Message
<1>3. ~TellsHidden(doc, m) /\ d = HidesComes(doc, back) /\ d \in BOOLEAN /\ l \in BOOLEAN
  BY <1>1, Heards, FlowTypes DEF TellsHidden
<1>4. Sound(host) /\ Orderly(host) /\ Steady(host, U, l, d)
  BY <1>3, FlowHost, FlowTypes
<1> HIDE DEF U, l, d, m
<1>5. /\ Turned(host, h, U, l, d)
      /\ \A f \in {"view", "retain", "kind", "ready", "docShown"} : h[f] = host[f]
      /\ host.out /= 0 /\ m.seq = host.out => Sent(host, h) \/ h.out = 0
  BY <1>2, <1>3, <1>4, AckTurned
<1>6. Kept(host, h) => ~Sent(host, h)
  <2>1. h.seq \in Nat /\ host.seq \in Nat
    BY <1>4, <1>5 DEF Turned, Sound, Provider
  <2> QED BY <2>1 DEF Kept, Sent
<1> HIDE DEF h
<1>7. h.docShown => host.docShown
  BY <1>5
<1> QED BY <1>1, <1>3, <1>5, <1>6, <1>7, HeardFlow DEF U, l, d, m

LEMMA HearBeatFlow ==
  ASSUME PanelInv, FlowInv, HearBeat
  PROVE  FlowInv'
<1> DEFINE m == Head(back)
           g == Probed(host, m)
           U == Upcoming(doc, wire)
           l == Lost(doc, wire)
           d == HidesComes(doc, back')
<1>1. back /= <<>> /\ back' = Tail(back) /\ m.kind = "beat" /\ Ours(doc, m)
      /\ Turn(IF host.view = "shown" /\ host.ready THEN g ELSE host, calls)
  BY CurrentOurs DEF HearBeat, Next1, Heard
<1>2. m.seq \in Nat
  BY <1>1, Heards DEF Message
<1>3. ~TellsHidden(doc, m) /\ d = HidesComes(doc, back) /\ d \in BOOLEAN /\ l \in BOOLEAN
      /\ Elements(back') \subseteq Elements(back)
  BY <1>1, Heards, FlowTypes DEF TellsHidden
<1>4. Sound(host) /\ Orderly(host) /\ Steady(host, U, l, d) /\ Turned(host, host, U, l, d)
  BY <1>3, FlowHost, FlowTypes
<1>5. m.health = "ok" => TellsShown(doc, m)
  BY <1>1 DEF TellsShown
<1> HIDE DEF U, l, d, m
<1>6. CASE ~(host.view = "shown" /\ host.ready)
  <2>1. Turn(host, calls)
    BY <1>1, <1>6
  <2>2. \A f \in {"view", "retain", "kind", "ready"} : host[f] = host[f]
    OBVIOUS
  <2>3. m.kind /= "ready" /\ m.kind /= "rendered"
    BY <1>1
  <2> QED BY <1>1, <1>3, <1>4, <2>1, <2>2, <2>3, HeardFlow DEF U, l, d, m
<1>7. CASE host.view = "shown" /\ host.ready
  <2>1. Turn(g, calls)
    BY <1>1, <1>7
  <2>2. \/ Loaded(host, g)
        \/ /\ Turned(host, g, U, l, d)
           /\ \A f \in {"view", "retain", "kind", "ready"} : g[f] = host[f]
           /\ g.docShown => host.docShown \/ m.health = "ok"
    BY <1>2, <1>3, <1>4, <1>7, ProbedTurned
  <2> HIDE DEF g
  <2>3. CASE Loaded(host, g)
    BY <1>3, <2>1, <2>3, OpenKept, FlowLoaded
  <2>4. CASE /\ Turned(host, g, U, l, d)
             /\ \A f \in {"view", "retain", "kind", "ready"} : g[f] = host[f]
             /\ g.docShown => host.docShown \/ m.health = "ok"
    <3>1. m.kind /= "ready" /\ m.kind /= "rendered"
      BY <1>1
    <3> QED BY <1>1, <1>3, <1>5, <2>1, <2>4, <3>1, HeardFlow DEF U, l, d, m
  <2> QED BY <2>2, <2>3, <2>4
<1> QED BY <1>6, <1>7

LEMMA DropFlow ==
  ASSUME PanelInv, FlowInv, Drop
  PROVE  FlowInv'
<1>1. back /= <<>> /\ back' = Tail(back) /\ ~Ours(doc, Head(back)) /\ UNCHANGED <<host, doc, wire, calls>>
  BY DEF Drop, Heard, Current, Ours, PanelInv
<1>2. HidesComes(doc, back) = HidesComes(doc, back')
  BY <1>1, Heards, FlowTypes DEF TellsHidden
<1>3. Tells(host, doc, back')
  <2>1. doc.hidden /\ host.docShown => HidesComes(doc, back)
    BY DEF FlowInv, Tells
  <2> QED BY <1>1, <1>2, <2>1, Heards DEF Tells
<1>4. Outstanding(host, doc, wire, back')
  <2>1. RenderComes(doc, back, host.out) => RenderComes(doc, back', host.out)
    BY <1>1, Heards
  <2> QED BY <1>2, <2>1 DEF FlowInv, Outstanding
<1> QED BY <1>1, <1>2, <1>3, <1>4 DEF FlowInv

-----------------------------------------------------------------------------
(* The view ends, or hides.                                                *)

LEMMA DisposeFlow ==
  ASSUME PanelInv, FlowInv, Dispose
  PROVE  FlowInv'
<1> DEFINE r == Reset(host)
           h == [r EXCEPT !.view = "none", !.ready = FALSE, !.probe = FALSE, !.kind = "none"]
<1>1. Sound(r) /\ r \in Provider /\ host \in Provider
  BY FlowTypes, ResetSound DEF Sound
<1>2. /\ r.posted = 0 /\ r.out = 0 /\ r.attempt = 0 /\ r.inFlight = FALSE
      /\ r.timer = FALSE /\ r.retryTimer = FALSE /\ r.dirty = FALSE /\ r.pend = FALSE
      /\ r.seq = host.seq
  <2>1. host \in Provider
    BY <1>1
  <2>2. /\ r.posted = 0 /\ r.out = 0 /\ r.attempt = 0 /\ r.inFlight = FALSE
        /\ r.timer = FALSE /\ r.retryTimer = FALSE /\ r.dirty = FALSE /\ r.pend = FALSE
    BY <2>1 DEF Reset, Provider
  <2>3. r.seq = host.seq
    BY <2>1 DEF Reset, Provider
  <2> QED BY <2>2, <2>3
<1>3. /\ host' = h /\ doc' = NewDocument(host.gen, "none")
      /\ wire' = <<>> /\ back' = <<>> /\ calls' = calls
  BY DEF Dispose
<1> HIDE DEF r
<1>4. /\ h.posted = 0 /\ h.out = 0 /\ h.attempt = 0 /\ h.dirty = FALSE /\ h.pend = FALSE
      /\ h.inFlight = FALSE /\ h.timer = FALSE /\ h.retryTimer = FALSE /\ h.seq = host.seq
      /\ h.view = "none" /\ h.ready = FALSE /\ h.kind = "none" /\ h.seq \in Nat
  BY <1>1, <1>2 DEF Provider
<1> HIDE DEF h
<1>5. /\ doc'.kind = "none" /\ doc'.started = FALSE /\ doc'.hidden = FALSE
      /\ doc'.received = 0 /\ doc'.next = 0 /\ doc'.frame = FALSE
  BY <1>3 DEF NewDocument
<1>6. Orderly(h) /\ Steady(h, Upcoming(doc', wire'), Lost(doc', wire'), HidesComes(doc', back'))
  BY <1>4 DEF Orderly, PostsOrderly, RequestsOrderly, Steady, Live, Shown
<1>7. Matches(h, doc')
  BY <1>4, <1>5 DEF Matches
<1>8. Tells(h, doc', back')
  BY <1>3, <1>5, ElementsEmpty DEF Tells
<1>9. Arrives(h, doc', wire')
  <2>1. Len(wire') = 0 /\ 1..0 = {}
    BY <1>3
  <2> QED BY <1>3, <1>4, <1>5, <2>1 DEF Arrives
<1>10. Renders(doc') /\ Outstanding(h, doc', wire', back')
  BY <1>4, <1>5 DEF Renders, Outstanding
<1>11. Decided(h, doc', wire', calls')
  <2>1. Decided(host, doc, wire, calls)
    BY DEF FlowInv
  <2> QED BY <1>3, <1>4, <2>1 DEF Decided
<1> QED BY <1>3, <1>6, <1>7, <1>8, <1>9, <1>10, <1>11 DEF FlowInv

(* Documents that are told apart by nothing that matters to the wires.     *)
Renews(d, e) ==
    \A f \in {"gen", "started", "hidden", "received", "rendered", "shown", "next", "nextVersion",
              "frame", "broken"} : e[f] = d[f]

LEMMA RenewsTold ==
  ASSUME NEW d, NEW e, e.gen = d.gen
  PROVE  /\ \A m : (Ours(e, m) <=> Ours(d, m)) /\ (TellsHidden(e, m) <=> TellsHidden(d, m))
                   /\ (TellsShown(e, m) <=> TellsShown(d, m))
         /\ \A b : /\ HidesComes(e, b) <=> HidesComes(d, b)
                   /\ ReadyComes(e, b) <=> ReadyComes(d, b)
                   /\ \A n : RenderComes(e, b, n) <=> RenderComes(d, b, n)
                   /\ HiddenLast(e, b) <=> HiddenLast(d, b)
<1>1. \A m : Ours(e, m) <=> Ours(d, m)
  BY DEF Ours
<1>2. \A m : (TellsHidden(e, m) <=> TellsHidden(d, m)) /\ (TellsShown(e, m) <=> TellsShown(d, m))
  BY <1>1 DEF TellsHidden, TellsShown
<1>3. \A b : /\ HidesComes(e, b) <=> HidesComes(d, b)
             /\ ReadyComes(e, b) <=> ReadyComes(d, b)
             /\ \A n : RenderComes(e, b, n) <=> RenderComes(d, b, n)
  BY <1>1, <1>2 DEF HidesComes, ReadyComes, RenderComes
<1>4. \A b : HiddenLast(e, b) <=> HiddenLast(d, b)
  BY <1>2 DEF HiddenLast
<1> QED BY <1>1, <1>2, <1>3, <1>4

LEMMA HideFlow ==
  ASSUME PanelInv, FlowInv, Hide
  PROVE  FlowInv'
<1> DEFINE j == [host EXCEPT !.view = "hidden"]
           g == Shows(j, FALSE)
           b == g.ready /\ g.retain
           k == [g EXCEPT !.ready = b]
           h == Post(k, FALSE, FALSE)
<1>1. Sound(host) /\ Orderly(host) /\ host \in Provider
  BY FlowHost, FlowTypes DEF Sound
<1>2. /\ host.view = "shown" /\ host' = h /\ UNCHANGED <<wire, back, calls>>
      /\ doc' = IF host.retain THEN doc ELSE [doc EXCEPT !.kind = "none"]
  BY DEF Hide
<1>3. Sound(j) /\ j.view = "hidden" /\ Asks(host, j, ViewAside \ {"view"})
      /\ Asks(host, j, {"docShown", "visible", "out", "dirty", "pend", "immediate", "timer"})
  BY <1>1 DEF Sound, Provider, Asks, ViewAside
<1> HIDE DEF j
<1>4. PostsOrderly(j)
  BY <1>1, <1>2, <1>3 DEF Orderly, PostsOrderly, Asks, ViewAside
<1>5. /\ Sound(g) /\ Asks(j, g, ViewAside) /\ ~g.docShown /\ g.out = 0 /\ ~g.visible
      /\ g.timer => j.timer
  BY <1>3, <1>4, HidesEffect
<1> HIDE DEF g
<1>6. g \in Provider /\ b \in BOOLEAN
  BY <1>5 DEF Sound
<1>7. Sound(k)
  BY <1>5, <1>6, FlagsFollow DEF Follows
<1>8. k.ready = b /\ Asks(g, k, ViewAside \ {"ready"}) /\ Asks(g, k, {"docShown", "out", "visible", "timer"})
  <2> HIDE DEF b
  <2> QED BY <1>6 DEF Provider, Asks, ViewAside
<1> HIDE DEF k
<1>9. Asks(host, k, ViewAside \ {"ready", "view"}) /\ k.view = "hidden" /\ ~k.docShown /\ k.out = 0
  BY <1>3, <1>5, <1>8 DEF Asks, ViewAside
<1>10. (k.ready <=> host.ready /\ host.retain) /\ (k.timer => host.timer)
  BY <1>3, <1>5, <1>8 DEF Asks, ViewAside, b
<1>11. PostsOrderly(k) /\ Tidy(k) /\ ~Shown(k) /\ StillOut(k) = 0
  BY <1>1, <1>2, <1>7, <1>9, <1>10 DEF Orderly, PostsOrderly, Tidy, Shown, StillOut, Asks, ViewAside
<1>12. /\ Apart(k, h) /\ SamePost(k, h) /\ h.visible = FALSE /\ h.out = 0 /\ h.dirty /\ h.pend
       /\ ~h.timer
  <2> DEFINE no == FALSE
  <2>1. no \in BOOLEAN
    OBVIOUS
  <2>2. k.view /= "none"
    BY <1>9
  <2> HIDE DEF no
  <2>3. PostDoes(k, no, no, Post(k, no, no))
    BY <1>11, <2>1, <2>2, PostEffect
  <2>4. PostDoes(k, FALSE, FALSE, h)
    BY <2>3 DEF no
  <2> HIDE DEF h
  <2>5. Shown(k) = FALSE
    BY <1>11
  <2>6. Apart(k, h) /\ h.visible = FALSE
    BY <2>4, <2>5 DEF PostDoes
  <2>7. SamePost(k, h) /\ h.out = StillOut(k) /\ h.dirty /\ h.pend /\ ~h.timer
    BY <2>4, <2>5 DEF PostDoes
  <2> QED BY <1>11, <2>6, <2>7
<1> HIDE DEF h
<1>13. /\ h.view = "hidden" /\ ~h.docShown /\ (h.ready <=> host.ready /\ host.retain)
       /\ \A f \in {"retain", "kind", "retryTimer", "seq", "posted", "attempt", "inFlight"} : h[f] = host[f]
  BY <1>9, <1>10, <1>12 DEF Apart, SamePost, Asks, ViewAside
<1>14. Orderly(h)
  <2>1. PostsOrderly(h)
    BY <1>1, <1>2, <1>12, <1>13 DEF Orderly, PostsOrderly
  <2>2. RequestsOrderly(h)
    BY <1>12 DEF RequestsOrderly
  <2> QED BY <2>1, <2>2 DEF Orderly
<1>15. Steady(h, Upcoming(doc', wire'), Lost(doc', wire'), HidesComes(doc', back'))
  BY <1>13 DEF Steady, Live, Shown
<1>16. Renews(doc, doc') /\ (host.retain => doc' = doc) /\ (~host.retain => doc'.kind = "none")
  <2>1. doc \in Document
    BY FlowTypes
  <2>2. CASE host.retain
    BY <1>2, <2>2 DEF Renews
  <2>3. CASE ~host.retain
    BY <1>2, <2>1, <2>3 DEF Renews, Document
  <2> QED BY <2>2, <2>3
<1>17. doc'.gen = doc.gen /\ doc'.started = doc.started /\ doc'.hidden = doc.hidden
       /\ (doc'.kind = "none" \/ (host.retain /\ doc'.kind = doc.kind))
  BY <1>16 DEF Renews
<1>18. Matches(h, doc')
  <2>1. Matches(host, doc)
    BY DEF FlowInv
  <2> QED BY <1>2, <1>13, <1>16, <1>17, <2>1 DEF Matches
<1>19. Tells(h, doc', back')
  <2>1. Tells(host, doc, back) /\ back' = back
    BY <1>2 DEF FlowInv
  <2> QED BY <1>13, <1>17, <2>1, RenewsTold DEF Tells
<1>20. Arrives(h, doc', wire')
  <2>1. Arrives(host, doc, wire) /\ wire' = wire /\ doc'.received = doc.received
    BY <1>2, <1>16 DEF FlowInv, Renews
  <2>2. doc'.kind = "panel" => doc.kind = "panel"
    BY <1>17
  <2> QED BY <1>13, <2>1, <2>2 DEF Arrives
<1>21. Renders(doc') /\ Outstanding(h, doc', wire', back')
  <2>1. Renders(doc)
    BY DEF FlowInv
  <2> QED BY <1>12, <1>16, <2>1 DEF Renders, Renews, Outstanding
<1>22. Decided(h, doc', wire', calls')
  <2>1. Decided(host, doc, wire, calls) /\ wire' = wire /\ calls' = calls
    BY <1>2 DEF FlowInv
  <2>2. Upcoming(doc', wire) = Upcoming(doc, wire)
    BY <1>16 DEF Upcoming, Renews
  <2>3. doc'.kind = "panel" => doc.kind = "panel"
    BY <1>17
  <2> QED BY <1>13, <2>1, <2>2, <2>3 DEF Decided
<1> QED BY <1>2, <1>14, <1>15, <1>18, <1>19, <1>20, <1>21, <1>22 DEF FlowInv

-----------------------------------------------------------------------------
(* The steps of the document: the provider stays.                          *)

LEMMA SteadyMono ==
  ASSUME NEW h, NEW U, NEW V, U \subseteq V, NEW l \in BOOLEAN, NEW m \in BOOLEAN,
         NEW c \in BOOLEAN, NEW d \in BOOLEAN, Steady(h, U, l, c),
         Live(h) /\ h.visible /\ m /\ ~d => l /\ ~c
  PROVE  Steady(h, V, m, d)
  BY DEF Steady

LEMMA DocumentFlow ==
  ASSUME PanelInv, FlowInv, UNCHANGED <<host, calls>>, doc'.kind = doc.kind,
         Upcoming(doc, wire) \subseteq Upcoming(doc', wire'),
         Live(host) /\ host.visible /\ Lost(doc', wire') /\ ~HidesComes(doc', back') =>
             Lost(doc, wire) /\ ~HidesComes(doc, back),
         Matches(host, doc'), Tells(host, doc', back'), Arrives(host, doc', wire'), Renders(doc'),
         Outstanding(host, doc', wire', back')
  PROVE  FlowInv'
<1>1. Steady(host, Upcoming(doc', wire'), Lost(doc', wire'), HidesComes(doc', back'))
  <2>1. Lost(doc', wire') \in BOOLEAN /\ HidesComes(doc', back') \in BOOLEAN
    BY DEF Lost, HidesComes
  <2>2. Steady(host, Upcoming(doc, wire), Lost(doc, wire), HidesComes(doc, back))
    BY FlowHost
  <2> QED BY <2>1, <2>2, FlowTypes, SteadyMono
<1>2. Decided(host, doc', wire', calls)
  <2>1. Decided(host, doc, wire, calls)
    BY DEF FlowInv
  <2> QED BY <2>1 DEF Decided
<1> QED BY <1>1, <1>2 DEF FlowInv

(* What follows from a post being outstanding in a running document.       *)
LEMMA FlowFacts ==
  ASSUME PanelInv, FlowInv
  PROVE  /\ Matches(host, doc) /\ Tells(host, doc, back) /\ Arrives(host, doc, wire) /\ Renders(doc)
         /\ Outstanding(host, doc, wire, back)
         /\ host.out /= 0 => host.out = host.posted /\ host.posted /= 0 /\ Live(host)
         /\ Live(host) /\ doc.hidden => HidesComes(doc, back)
         /\ doc.rendered <= doc.received
         /\ doc \in Document /\ back \in Seq(Message)
<1>1. /\ Matches(host, doc) /\ Tells(host, doc, back) /\ Arrives(host, doc, wire) /\ Renders(doc)
      /\ Outstanding(host, doc, wire, back)
  BY DEF FlowInv
<1>2. host.out /= 0 => host.out = host.posted /\ host.posted /= 0 /\ Live(host)
  <2>1. Sound(host) /\ Orderly(host)
    BY FlowHost, FlowTypes
  <2> QED BY <2>1 DEF Sound, Orderly, PostsOrderly, RequestsOrderly, Live
<1>3. Live(host) /\ doc.hidden => HidesComes(doc, back)
  BY <1>1 DEF Tells, Live, Shown
<1>4. doc.rendered <= doc.received
  BY DEF PanelInv, DocumentInv
<1> QED BY <1>1, <1>2, <1>3, <1>4, FlowTypes

LEMMA TwoMore ==
  ASSUME NEW S, NEW s \in Seq(S), NEW a \in S, NEW b \in S
  PROVE  s \o <<a, b>> = Append(Append(s, a), b) /\ Append(s, a) \in Seq(S)
<1>1. <<a>> \in Seq(S) /\ <<b>> \in Seq(S) /\ <<a>> \o <<b>> = <<a, b>>
  <2>1. <<a>> \in Seq(S) /\ <<b>> \in Seq(S) /\ <<a, b>> \in Seq(S)
    OBVIOUS
  <2>2. /\ Len(<<a>>) = 1 /\ Len(<<b>>) = 1 /\ Len(<<a, b>>) = 2
        /\ <<a>>[1] = a /\ <<b>>[1] = b /\ <<a, b>>[1] = a /\ <<a, b>>[2] = b
    OBVIOUS
  <2> DEFINE t == <<a>> \o <<b>>
             u == <<a, b>>
  <2>3. t \in Seq(S) /\ Len(t) = 2 /\ t[1] = a /\ t[2] = b
    <3>1. /\ t \in Seq(S) /\ Len(t) = Len(<<a>>) + Len(<<b>>)
          /\ \A i \in 1..Len(<<a>>) + Len(<<b>>) : t[i] = IF i <= Len(<<a>>) THEN <<a>>[i] ELSE <<b>>[i - Len(<<a>>)]
      BY <2>1, ConcatProperties
    <3> QED BY <2>2, <3>1
  <2>4. u \in Seq(S) /\ Len(u) = 2 /\ u[1] = a /\ u[2] = b
    BY <2>1, <2>2
  <2> HIDE DEF t, u
  <2>5. \A i \in 1..Len(t) : t[i] = u[i]
    BY <2>3, <2>4
  <2>6. t = u
    BY <2>3, <2>4, <2>5, SeqEqual
  <2> QED BY <2>1, <2>6 DEF t, u
<1>2. Append(s, a) = s \o <<a>> /\ Append(s, a) \in Seq(S)
  BY AppendIsConcat, AppendProperties
<1>3. Append(Append(s, a), b) = (s \o <<a>>) \o <<b>>
  BY <1>2, AppendIsConcat
<1>4. (s \o <<a>>) \o <<b>> = s \o (<<a>> \o <<b>>)
  BY <1>1, ConcatAssociative
<1> QED BY <1>1, <1>2, <1>3, <1>4

LEMMA StartFlow ==
  ASSUME PanelInv, FlowInv, Start
  PROVE  FlowInv'
<1> DEFINE v == [kind |-> "visibility", gen |-> doc.gen, hidden |-> FALSE]
           r == [kind |-> "ready", gen |-> doc.gen]
           c == Append(back, v)
<1>1. /\ doc.kind = "panel" /\ ~doc.started /\ doc' = [doc EXCEPT !.started = TRUE]
      /\ back' = back \o <<v, r>> /\ UNCHANGED <<host, wire, calls>>
  BY DEF Start
<1>2. /\ doc'.started = TRUE /\ doc'.kind = doc.kind /\ doc'.gen = doc.gen
      /\ \A f \in {"hidden", "received", "rendered", "shown", "next", "nextVersion", "frame", "broken"} :
            doc'[f] = doc[f]
  BY <1>1, FlowTypes DEF Document
<1>3. /\ v \in Message /\ r \in Message /\ Ours(doc', r) /\ r.kind = "ready"
      /\ ~TellsHidden(doc', v) /\ ~TellsHidden(doc', r)
  BY <1>2, FlowTypes DEF Message, Ours, TellsHidden
<1> HIDE DEF v, r
<1>4. back' = Append(c, r) /\ c \in Seq(Message)
  <2>1. back \in Seq(Message)
    BY FlowTypes
  <2> QED BY <1>1, <1>3, <2>1, TwoMore
<1> HIDE DEF c
<1>5. /\ HidesComes(doc', back') <=> HidesComes(doc', c)
      /\ ReadyComes(doc', back')
      /\ \A n : RenderComes(doc', c, n) => RenderComes(doc', back', n)
  BY <1>3, <1>4, MoreComes
<1>6. /\ HidesComes(doc', c) <=> HidesComes(doc', back)
      /\ \A n : RenderComes(doc', back, n) => RenderComes(doc', c, n)
  <2>1. back \in Seq(Message) /\ c = Append(back, v)
    BY FlowTypes DEF c
  <2> QED BY <1>3, <2>1, MoreComes
<1>7. /\ HidesComes(doc', back') <=> HidesComes(doc, back)
      /\ \A n : RenderComes(doc, back, n) => RenderComes(doc', back', n)
  BY <1>2, <1>5, <1>6, RenewsTold
<1>8. wire' = wire /\ host' = host /\ calls' = calls
  BY <1>1
<1>9. Upcoming(doc', wire') = Upcoming(doc, wire) /\ Lost(doc', wire') = Lost(doc, wire)
  BY <1>2, <1>8 DEF Upcoming, Lost
<1>10. ~doc.hidden
  BY <1>1, FlowFacts DEF Matches
<1>11. Matches(host, doc')
  BY <1>1, <1>2, FlowFacts DEF Matches
<1>12. Tells(host, doc', back')
  BY <1>2, <1>5, <1>10 DEF Tells
<1>13. Arrives(host, doc', wire')
  BY <1>2, <1>8, FlowFacts DEF Arrives
<1>14. Renders(doc') /\ Outstanding(host, doc', wire', back')
  <2>1. Renders(doc')
    BY <1>2, FlowFacts DEF Renders
  <2>2. Outstanding(host, doc', wire', back')
    BY <1>2, <1>7, <1>8, FlowFacts DEF Outstanding
  <2> QED BY <2>1, <2>2
<1> QED BY <1>2, <1>7, <1>8, <1>9, <1>11, <1>12, <1>13, <1>14, DocumentFlow

LEMMA ReceiveFlow ==
  ASSUME PanelInv, FlowInv, Receive
  PROVE  FlowInv'
<1> DEFINE m == Head(wire)
           d == [doc EXCEPT !.received = m.seq, !.next = m.seq, !.nextVersion = m.version,
                            !.awaiting = FALSE, !.frame = ~doc.hidden]
           t == Tail(wire)
<1>1. /\ wire /= <<>> /\ wire' = t /\ UNCHANGED <<host, back, calls>> /\ doc.started
      /\ doc' = IF m.seq <= doc.received THEN doc ELSE d
  BY DEF Receive, Running
<1>2. /\ Len(wire) \in Nat \ {0} /\ Len(t) = Len(wire) - 1 /\ t \in Seq(State) /\ m = wire[1]
      /\ \A i \in 1..Len(t) : i + 1 \in 1..Len(wire) /\ t[i] = wire[i + 1]
      /\ 1 \in 1..Len(wire) /\ Len(wire) \in 1..Len(wire)
  BY <1>1, FlowTypes, TailShift
<1>3. t /= <<>> => Len(t) \in Nat \ {0} /\ t[Len(t)] = wire[Len(wire)]
  <2>1. t /= <<>> => Len(t) \in Nat \ {0}
    BY <1>2, EmptySeq, LenProperties
  <2>2. t /= <<>> => Len(t) \in 1..Len(t) /\ Len(t) + 1 = Len(wire)
    BY <1>2, <2>1
  <2> QED BY <1>2, <2>1, <2>2
<1>4. t = <<>> => m = wire[Len(wire)]
  <2>1. t = <<>> => Len(t) = 0
    BY <1>2, EmptySeq
  <2>2. t = <<>> => Len(wire) = 1
    BY <1>2, <2>1
  <2> QED BY <1>2, <2>2
<1>5. doc.received < m.seq /\ m.seq \in Nat /\ m.version \in Versions /\ doc.received \in Nat /\ m.seq /= 0
      /\ m.seq <= host.seq
  BY <1>2, FlowFacts, FlowTypes DEF Arrives
<1> HIDE DEF m, t
<1>6. doc' = d
  BY <1>1, <1>5
<1>7. /\ doc'.received = m.seq /\ doc'.next = m.seq /\ doc'.nextVersion = m.version /\ doc'.frame = ~doc.hidden
      /\ \A f \in {"kind", "gen", "started", "hidden", "rendered", "shown", "broken"} : doc'[f] = doc[f]
  BY <1>6, FlowTypes DEF Document
<1> HIDE DEF d
<1>8. Upcoming(doc', wire') = Upcoming(doc, wire)
  <2>1. Upcoming(doc, wire) = {v \in Versions : wire[Len(wire)].version = v}
    BY <1>1 DEF Upcoming
  <2>2. CASE t = <<>>
    BY <1>1, <1>4, <1>5, <1>7, <2>1, <2>2 DEF Upcoming
  <2>3. CASE t /= <<>>
    BY <1>1, <1>3, <2>1, <2>3 DEF Upcoming
  <2> QED BY <2>2, <2>3
<1>9. back' = back /\ host' = host /\ calls' = calls /\ (HidesComes(doc', back') <=> HidesComes(doc, back))
  BY <1>1, <1>7, RenewsTold
<1>10. ~(Live(host) /\ Lost(doc', wire') /\ ~HidesComes(doc', back'))
  <2>1. Lost(doc', wire') => doc.hidden
    BY <1>7, FlowTypes DEF Lost, Document
  <2> QED BY <1>9, <2>1, FlowFacts
<1>11. Matches(host, doc')
  BY <1>7, FlowFacts DEF Matches
<1>12. Tells(host, doc', back')
  <2>1. Tells(host, doc, back) /\ doc'.gen = doc.gen
    BY <1>7, FlowFacts
  <2> QED BY <1>7, <1>9, <2>1, RenewsTold DEF Tells
<1>13. Arrives(host, doc', wire')
  <2>1. Arrives(host, doc, wire)
    BY FlowFacts
  <2>2. ASSUME NEW i \in 1..Len(t)
        PROVE  m.seq < t[i].seq /\ t[i].seq <= host.seq
    <3>1. i + 1 \in 1..Len(wire) /\ 1 < i + 1 /\ 1 \in 1..Len(wire) /\ t[i] = wire[i + 1] /\ m = wire[1]
      BY <1>2
    <3> QED BY <2>1, <3>1 DEF Arrives
  <2>3. ASSUME NEW i \in 1..Len(t), NEW j \in 1..Len(t), i < j
        PROVE  t[i].seq < t[j].seq
    <3>1. i + 1 \in 1..Len(wire) /\ j + 1 \in 1..Len(wire) /\ i + 1 < j + 1
          /\ t[i] = wire[i + 1] /\ t[j] = wire[j + 1]
      BY <1>2, <2>3
    <3> QED BY <2>1, <3>1 DEF Arrives
  <2>4. t /= <<>> /\ host.posted /= 0 => t[Len(t)].seq = host.posted
    BY <1>1, <1>3, <2>1 DEF Arrives
  <2>5. t = <<>> /\ host.posted /= 0 => m.seq = host.posted
    BY <1>1, <1>4, <2>1 DEF Arrives
  <2> QED BY <1>1, <1>5, <1>7, <2>2, <2>3, <2>4, <2>5 DEF Arrives
<1>14. Renders(doc')
  <2>1. doc.rendered < m.seq
    BY <1>5, FlowFacts, FlowTypes
  <2> QED BY <1>5, <1>7, <2>1 DEF Renders
<1>15. Outstanding(host, doc', wire', back')
  <2>1. host.out /= 0 /\ ~HidesComes(doc', back') => ~doc.hidden
    BY <1>9, FlowFacts
  <2> QED BY <1>7, <2>1, FlowTypes DEF Outstanding, Document
<1> QED BY <1>7, <1>8, <1>9, <1>10, <1>11, <1>12, <1>13, <1>14, <1>15, DocumentFlow

(* A frame renders a state, or fails to.                                   *)
LEMMA FrameFlow ==
  ASSUME PanelInv, FlowInv, Frame
  PROVE  FlowInv'
<1> DEFINE d == [doc EXCEPT !.frame = FALSE, !.next = 0, !.rendered = doc.next,
                            !.shown = doc.nextVersion, !.broken = FALSE]
           m == [kind |-> "rendered", gen |-> doc.gen, seq |-> doc.next]
<1>1. doc.frame /\ doc' = d /\ back' = Append(back, m) /\ UNCHANGED <<host, wire, calls>> /\ doc.kind = "panel"
      /\ doc.started
  BY DEF Frame, Tell, Running
<1>2. doc.next /= 0 /\ doc.next = doc.received /\ doc.rendered < doc.next /\ ~doc.hidden
  BY <1>1, FlowFacts DEF Renders
<1>3. /\ doc'.frame = FALSE /\ doc'.next = 0 /\ doc'.rendered = doc.next /\ doc'.shown = doc.nextVersion
      /\ doc'.broken = FALSE
      /\ \A f \in {"kind", "gen", "started", "hidden", "received"} : doc'[f] = doc[f]
  BY <1>1, FlowTypes DEF Document
<1>4. /\ m \in Message /\ m.kind = "rendered" /\ m.seq = doc.next /\ Ours(doc', m)
      /\ ~TellsHidden(doc', m)
  BY <1>3, FlowTypes DEF Message, Ours, TellsHidden
<1> HIDE DEF d, m
<1>5. /\ HidesComes(doc', back') <=> HidesComes(doc', back)
      /\ ReadyComes(doc', back) => ReadyComes(doc', back')
      /\ RenderComes(doc', back', doc.next)
      /\ \A n : RenderComes(doc', back, n) => RenderComes(doc', back', n)
  <2>1. back \in Seq(Message)
    BY FlowTypes
  <2> QED BY <1>1, <1>4, <2>1, MoreComes
<1>6. /\ HidesComes(doc', back') <=> HidesComes(doc, back)
      /\ ReadyComes(doc, back) => ReadyComes(doc', back')
      /\ \A n : RenderComes(doc, back, n) => RenderComes(doc', back', n)
  BY <1>3, <1>5, RenewsTold
<1>7. wire' = wire /\ host' = host /\ calls' = calls
  BY <1>1
<1>8. Upcoming(doc', wire') = Upcoming(doc, wire) /\ Lost(doc', wire') = FALSE
  BY <1>2, <1>3, <1>7 DEF Upcoming, Lost
<1>9. Matches(host, doc')
  BY <1>3, FlowFacts DEF Matches
<1>10. Tells(host, doc', back')
  BY <1>1, <1>2, <1>3, <1>6, FlowFacts DEF Tells
<1>11. Arrives(host, doc', wire') /\ Renders(doc')
  BY <1>3, <1>7, FlowFacts DEF Arrives, Renders
<1>12. Outstanding(host, doc', wire', back')
  <2>1. host.out /= 0 /\ wire = <<>> => host.out = doc.next
    BY <1>1, <1>2, FlowFacts DEF Arrives
  <2> QED BY <1>5, <1>7, <2>1 DEF Outstanding
<1> QED BY <1>3, <1>7, <1>8, <1>9, <1>10, <1>11, <1>12, DocumentFlow

LEMMA FrameFailsFlow ==
  ASSUME PanelInv, FlowInv, FrameFails
  PROVE  FlowInv'
<1>1. doc' = [doc EXCEPT !.frame = FALSE, !.next = 0, !.broken = TRUE]
      /\ UNCHANGED <<host, wire, back, calls>>
  BY DEF FrameFails
<1>2. /\ doc'.frame = FALSE /\ doc'.next = 0 /\ doc'.broken = TRUE
      /\ \A f \in {"kind", "gen", "started", "hidden", "received", "rendered"} : doc'[f] = doc[f]
  BY <1>1, FlowTypes DEF Document
<1>3. wire' = wire /\ host' = host /\ calls' = calls /\ back' = back
  BY <1>1
<1>4. Upcoming(doc, wire) \subseteq Upcoming(doc', wire') /\ Lost(doc', wire') = FALSE
  BY <1>2, <1>3 DEF Upcoming, Lost
<1>5. Matches(host, doc')
  BY <1>2, FlowFacts DEF Matches
<1>6. Tells(host, doc', back')
  <2>1. Tells(host, doc, back) /\ doc'.gen = doc.gen
    BY <1>2, FlowFacts
  <2> QED BY <1>2, <1>3, <2>1, RenewsTold DEF Tells
<1>7. Arrives(host, doc', wire') /\ Renders(doc') /\ Outstanding(host, doc', wire', back')
  BY <1>2, <1>3, FlowFacts DEF Arrives, Renders, Outstanding
<1> QED BY <1>2, <1>3, <1>4, <1>5, <1>6, <1>7, DocumentFlow

(* The document hides, or is shown again.                                  *)
LEMMA DocumentHidesFlow ==
  ASSUME PanelInv, FlowInv, DocumentHides
  PROVE  FlowInv'
<1> DEFINE m == [kind |-> "visibility", gen |-> doc.gen, hidden |-> TRUE]
<1>1. doc' = [doc EXCEPT !.hidden = TRUE, !.frame = FALSE, !.awaiting = TRUE] /\ back' = Append(back, m)
      /\ UNCHANGED <<host, wire, calls>> /\ doc.kind = "panel" /\ doc.started
  BY DEF DocumentHides, Tell, Running
<1>2. /\ doc'.frame = FALSE /\ doc'.hidden = TRUE
      /\ \A f \in {"kind", "gen", "started", "received", "rendered", "shown", "next", "nextVersion", "broken"} :
            doc'[f] = doc[f]
  BY <1>1, FlowTypes DEF Document
<1>3. m \in Message /\ TellsHidden(doc', m)
  BY <1>2, FlowTypes DEF Message, Ours, TellsHidden
<1> HIDE DEF m
<1>4. HidesComes(doc', back') /\ (ReadyComes(doc', back) => ReadyComes(doc', back')) /\ HiddenLast(doc', back')
  <2>1. back \in Seq(Message)
    BY FlowTypes
  <2> QED BY <1>1, <1>3, <2>1, MoreComes, MoreHidden
<1>5. ReadyComes(doc, back) => ReadyComes(doc', back')
  BY <1>2, <1>4, RenewsTold
<1>6. wire' = wire /\ host' = host /\ calls' = calls
  BY <1>1
<1>7. Upcoming(doc', wire') = Upcoming(doc, wire)
  BY <1>2, <1>6 DEF Upcoming
<1>8. Matches(host, doc')
  BY <1>1, <1>2, FlowFacts DEF Matches
<1>9. Tells(host, doc', back')
  BY <1>1, <1>2, <1>4, <1>5, FlowFacts DEF Tells
<1>10. Arrives(host, doc', wire') /\ Renders(doc') /\ Outstanding(host, doc', wire', back')
  BY <1>2, <1>4, <1>6, FlowFacts DEF Arrives, Renders, Outstanding
<1> QED BY <1>2, <1>4, <1>6, <1>7, <1>8, <1>9, <1>10, DocumentFlow

LEMMA DocumentShowsFlow ==
  ASSUME PanelInv, FlowInv, DocumentShows
  PROVE  FlowInv'
<1> DEFINE m == [kind |-> "visibility", gen |-> doc.gen, hidden |-> FALSE]
<1>1. doc' = [doc EXCEPT !.hidden = FALSE, !.awaiting = TRUE] /\ back' = Append(back, m)
      /\ UNCHANGED <<host, wire, calls>> /\ doc.kind = "panel" /\ doc.started
  BY DEF DocumentShows, Tell, Running
<1>2. /\ doc'.hidden = FALSE
      /\ \A f \in {"kind", "gen", "started", "received", "rendered", "shown", "next", "nextVersion", "frame",
                   "broken"} : doc'[f] = doc[f]
  BY <1>1, FlowTypes DEF Document
<1>3. m \in Message /\ ~TellsHidden(doc', m)
  BY <1>2, FlowTypes DEF Message, TellsHidden
<1> HIDE DEF m
<1>4. /\ HidesComes(doc', back') <=> HidesComes(doc', back)
      /\ ReadyComes(doc', back) => ReadyComes(doc', back')
      /\ \A n : RenderComes(doc', back, n) => RenderComes(doc', back', n)
  <2>1. back \in Seq(Message)
    BY FlowTypes
  <2> QED BY <1>1, <1>3, <2>1, MoreComes
<1>5. /\ HidesComes(doc', back') <=> HidesComes(doc, back)
      /\ ReadyComes(doc, back) => ReadyComes(doc', back')
      /\ \A n : RenderComes(doc, back, n) => RenderComes(doc', back', n)
  BY <1>2, <1>4, RenewsTold
<1>6. wire' = wire /\ host' = host /\ calls' = calls
  BY <1>1
<1>7. Upcoming(doc', wire') = Upcoming(doc, wire) /\ Lost(doc', wire') = Lost(doc, wire)
  BY <1>2, <1>6 DEF Upcoming, Lost
<1>8. Matches(host, doc')
  BY <1>1, <1>2, FlowFacts DEF Matches
<1>9. Tells(host, doc', back')
  BY <1>1, <1>2, <1>5, FlowFacts DEF Tells
<1>10. Arrives(host, doc', wire') /\ Renders(doc')
  BY <1>2, <1>6, FlowFacts DEF Arrives, Renders
<1>11. Outstanding(host, doc', wire', back')
  BY <1>2, <1>5, <1>6, FlowFacts DEF Outstanding
<1> QED BY <1>2, <1>5, <1>6, <1>7, <1>8, <1>9, <1>10, <1>11, DocumentFlow

LEMMA BeatFlow ==
  ASSUME PanelInv, FlowInv, Beat
  PROVE  FlowInv'
<1>0. PICK health \in Health :
         Tell([kind |-> "beat", gen |-> doc.gen, health |-> health, seq |-> doc.rendered])
  BY DEF Beat
<1> DEFINE m == [kind |-> "beat", gen |-> doc.gen, health |-> health, seq |-> doc.rendered]
<1>1. /\ back = <<>> /\ back' = Append(back, m) /\ UNCHANGED <<host, doc, wire, calls>>
      /\ doc.kind = "panel" /\ doc.started /\ host.ready
  BY <1>0 DEF Beat, Tell, Running
<1>2. m \in Message /\ ~TellsHidden(doc, m) /\ (doc.hidden => ~TellsShown(doc, m))
  <2>1. health \in {"hidden", "unknown", "broken", "ok"} /\ (doc.hidden => health = "hidden")
    BY <1>0 DEF Health
  <2> QED BY <2>1, FlowTypes DEF Message, TellsHidden, TellsShown
<1> HIDE DEF m
<1>3. back \in Seq(Message) /\ HiddenLast(doc, back) /\ ~HidesComes(doc, back)
  <2>1. Len(back) = 0 /\ 1..0 = {}
    BY <1>1
  <2> QED BY <1>1, <2>1, FlowTypes, ElementsEmpty DEF HiddenLast, HidesComes
<1>4. /\ HidesComes(doc, back') <=> HidesComes(doc, back)
      /\ \A n : RenderComes(doc, back, n) => RenderComes(doc, back', n)
  BY <1>1, <1>2, <1>3, MoreComes
<1>5. doc.hidden => HiddenLast(doc, back')
  BY <1>1, <1>2, <1>3, MoreHidden
<1>6. Tells(host, doc, back')
  BY <1>1, <1>3, <1>4, <1>5, FlowFacts DEF Tells
<1>7. Outstanding(host, doc, wire, back')
  BY <1>4, FlowFacts DEF Outstanding
<1>8. doc' = doc /\ wire' = wire
  BY <1>1
<1> QED BY <1>1, <1>4, <1>6, <1>7, <1>8, FlowFacts, DocumentFlow

-----------------------------------------------------------------------------
LEMMA FlowInit == Init => FlowInv
<1> SUFFICES ASSUME Init PROVE FlowInv
  OBVIOUS
<1>1. /\ host.view = "none" /\ host.out = 0 /\ host.attempt = 0 /\ host.posted = 0 /\ host.seq = 0
      /\ ~host.timer /\ ~host.retryTimer /\ ~host.ready /\ ~host.dirty /\ ~host.pend /\ ~host.inFlight
      /\ host.kind = "none" /\ calls = {} /\ wire = <<>> /\ back = <<>>
  BY DEF Init
<1>2. /\ doc.kind = "none" /\ ~doc.started /\ ~doc.hidden /\ ~doc.frame
      /\ doc.received = 0 /\ doc.next = 0
  BY DEF Init, NewDocument
<1>3. Orderly(host) /\ Steady(host, Upcoming(doc, wire), Lost(doc, wire), HidesComes(doc, back))
  BY <1>1 DEF Orderly, PostsOrderly, RequestsOrderly, Steady, Live, Shown
<1>4. Matches(host, doc) /\ Tells(host, doc, back)
  BY <1>1, <1>2, ElementsEmpty DEF Matches, Tells
<1>5. Arrives(host, doc, wire)
  <2>1. Len(wire) = 0 /\ 1..0 = {}
    BY <1>1
  <2> QED BY <1>1, <1>2, <2>1 DEF Arrives
<1>6. Renders(doc) /\ Outstanding(host, doc, wire, back) /\ Decided(host, doc, wire, calls)
  BY <1>1, <1>2 DEF Renders, Outstanding, Decided
<1> QED BY <1>3, <1>4, <1>5, <1>6 DEF FlowInv

LEMMA FlowStep == PanelInv /\ FlowInv /\ [Next]_vars => FlowInv'
<1> SUFFICES ASSUME PanelInv, FlowInv, [Next]_vars PROVE FlowInv'
  OBVIOUS
<1>1. CASE \E v \in Versions, now \in BOOLEAN : Change(v, now)
  BY <1>1, ChangeFlow
<1>2. CASE TimerFires \/ RetryFires
  BY <1>2, TimersFlow
<1>3. CASE \E call \in calls : Taken(call) \/ Refused(call)
  BY <1>3, AnswersFlow
<1>4. CASE Hear
  BY <1>4, DropFlow, HearReadyFlow, HearVisibilityFlow, HearRenderedFlow, HearBeatFlow DEF Hear
<1>5. CASE Greet \/ ProbeTaken
  BY <1>5, GreetingsFlow
<1>6. CASE Stalls \/ Watchdog \/ Reload \/ Resolve("hidden") \/ Resolve("shown")
  BY <1>6, LoadsFlow
<1>7. CASE Show
  BY <1>7, LoadsFlow, ShowFlow
<1>8. CASE Dispose \/ Hide
  BY <1>8, DisposeFlow, HideFlow
<1>9. CASE Start \/ Receive \/ Frame \/ FrameFails
  BY <1>9, StartFlow, ReceiveFlow, FrameFlow, FrameFailsFlow
<1>10. CASE DocumentHides \/ DocumentShows \/ Beat
  BY <1>10, DocumentHidesFlow, DocumentShowsFlow, BeatFlow
<1>11. CASE UNCHANGED vars
  BY <1>11 DEF vars, FlowInv
<1> QED BY <1>1, <1>2, <1>3, <1>4, <1>5, <1>6, <1>7, <1>8, <1>9, <1>10, <1>11 DEF Next

LEMMA FlowInvHolds == Spec => []FlowInv
  BY PanelInvHolds, FlowInit, FlowStep, PTL DEF Spec

(* When nothing is under way, nothing is missing: with no timer running,   *)
(* no call open, no message or state on its way and no frame requested, a  *)
(* view that is seen, and that the provider takes for seen, shows the      *)
(* newest state, unless the rendering of its document failed.              *)
THEOREM NothingForgottenHolds == Spec => []NothingForgotten
<1>1. PanelInv /\ FlowInv => NothingForgotten
  <2> SUFFICES ASSUME PanelInv, FlowInv, Rests, Viewable, host.docShown, doc.started, ~doc.broken
               PROVE  doc.shown = host.now
    BY DEF NothingForgotten
  <2>1. Steady(host, Upcoming(doc, wire), Lost(doc, wire), HidesComes(doc, back))
        /\ Decided(host, doc, wire, calls) /\ RequestsOrderly(host)
    BY DEF FlowInv, Orderly
  <2>2. /\ wire = <<>> /\ ~HidesComes(doc, back) /\ ~ReadyComes(doc, back)
        /\ \A n : ~RenderComes(doc, back, n)
    BY ElementsEmpty DEF Rests, HidesComes, ReadyComes, RenderComes
  <2>3. host.ready /\ Live(host)
    BY <2>2, FlowFacts DEF Tells, Viewable, Live, Shown
  <2>4. ~Greeting(host) /\ ~Again(host)
    BY DEF Rests, Greeting, Again
  <2>5. ~host.inFlight
    BY <2>1 DEF Rests, Decided
  <2>6. host.visible /\ host.posted /= 0
    BY <2>1, <2>3, <2>4 DEF Steady
  <2>7. doc.next = 0
    BY <2>1, <2>2, <2>3, <2>4, <2>5, <2>6 DEF Steady, Lost, Rests
  <2>8. host.out = 0
    BY <2>2, FlowFacts DEF Outstanding, Viewable, Rests
  <2>9. ~host.pend
    BY <2>1, <2>3, <2>4, <2>5, <2>6, <2>8 DEF Steady, Rests
  <2>10. host.now \in Upcoming(doc, wire)
    BY <2>1, <2>3, <2>4, <2>6, <2>9 DEF Steady
  <2> QED BY <2>2, <2>7, <2>10 DEF Upcoming
<1> QED BY PanelInvHolds, FlowInvHolds, <1>1, PTL
=============================================================================
