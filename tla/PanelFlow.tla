------------------------------ MODULE PanelFlow ------------------------------
(***************************************************************************)
(* How the state of the extension reaches the panel: the flow control of   *)
(* full states (src/features/PanelStateFlowControl.ts), the provider that  *)
(* posts them and recovers the panel (src/extension/legacy.ts), and the    *)
(* document that renders them (src/ui/PanelHtml.legacy.ts).                *)
(*                                                                         *)
(* One state is under way at a time; what comes meanwhile is remembered,   *)
(* and the next post takes the newest.  A document may be hidden,          *)
(* replaced or broken at any moment, while answers of its predecessor, of  *)
(* its rendering, and of the delivery of a message are still to come.      *)
(*                                                                         *)
(* A turn of the provider is an operator from the provider to the          *)
(* provider; its calls are nested as in the code.  The wire to the         *)
(* document and the wire back keep their order.  The contents of a state   *)
(* is a version; sequence numbers of states that were built and not sent   *)
(* are left out.                                                           *)
(***************************************************************************)
EXTENDS Naturals, Sequences

CONSTANTS
    Versions,    \* contents of the state
    RetryMax,    \* statePostRetryMax
    MaxChanges,  \* bound: changes of the state
    MaxHides,    \* bound: hidings of the view or the document
    MaxFaults,   \* bound: failed posts and renderings, answers that stay away
    MaxEvents    \* bound: all of these together

ASSUME Bounds == /\ 0 \notin Versions /\ RetryMax \in Nat \ {0}
                 /\ MaxChanges \in Nat /\ MaxHides \in Nat /\ MaxFaults \in Nat
                 /\ MaxEvents \in Nat

VARIABLES
    host,    \* the provider
    doc,     \* the document in the view
    wire,    \* states on their way to the document
    back,    \* messages of documents on their way to the provider
    calls,   \* posts whose delivery is not decided
    budget   \* what may still happen

vars == <<host, doc, wire, back, calls, budget>>

Provider == [
    view : {"none", "hidden", "shown"},
    retain : BOOLEAN,      \* a hidden document is kept
    now : Versions,        \* what buildState() would give
    gen : Nat,             \* panelDocumentGeneration
    kind : {"none", "panel", "recovery"},  \* the document it has loaded
    ready : BOOLEAN,       \* webviewReady
    greets : Nat,          \* handlers of webviewReady that wait in their await
    probe : BOOLEAN,       \* probePanelNow() waits for its message to be taken
    saved : BOOLEAN,       \* the one automatic recovery is spent
    docShown : BOOLEAN,    \* webviewDocumentVisible
    visible : BOOLEAN, posted : Nat, delivered : Nat, rendered : Nat,
    out : Nat,             \* outstandingRenderSeq; 0: none
    dirty : BOOLEAN, immediate : BOOLEAN,
    pend : BOOLEAN,        \* statePostPending
    imm : BOOLEAN,         \* statePostImmediatePending
    inFlight : BOOLEAN,    \* statePostInFlight
    attempt : Nat,         \* the post whose answer counts; 0: none
    timer : BOOLEAN,       \* statePostTimer
    retryTimer : BOOLEAN,
    retries : Nat,         \* statePostRetryCount
    seq : Nat,             \* stateSequence
    sig : Versions \cup {0}] \* lastPostedStateSignature

Document == [
    gen : Nat,
    kind : {"none", "panel", "recovery"},
    started : BOOLEAN,     \* its script runs
    hidden : BOOLEAN,
    received : Nat, rendered : Nat,
    shown : Versions \cup {0},  \* what it has rendered
    next : Nat, nextVersion : Versions \cup {0},  \* pendingRenderSeq, its state
    frame : BOOLEAN,       \* a frame is requested
    awaiting : BOOLEAN,    \* awaitingVisibleStateRefresh
    broken : BOOLEAN]      \* its rendering failed

NewDocument(gen, kind) ==
    [gen |-> gen, kind |-> kind, started |-> FALSE, hidden |-> FALSE, received |-> 0,
     rendered |-> 0, shown |-> 0, next |-> 0, nextVersion |-> 0, frame |-> FALSE,
     awaiting |-> FALSE, broken |-> FALSE]

-----------------------------------------------------------------------------
(* PanelStateFlowControl                                                   *)

Awaiting(h) == h.out /= 0 /\ h.rendered < h.out

\* Mutant: what is outstanding stays so in a hidden panel.
SetVisible_Keeps(h, v) == [h EXCEPT !.visible = v]

SetVisible(h, v) ==
    IF ~v /\ h.visible /\ Awaiting(h)
    THEN [h EXCEPT !.visible = FALSE, !.out = 0, !.dirty = TRUE]
    ELSE [h EXCEPT !.visible = v]

Request(h, now) == [h EXCEPT !.dirty = TRUE, !.immediate = @ \/ now]

Failed(h, seq) == IF h.out = seq THEN [h EXCEPT !.out = 0, !.dirty = TRUE] ELSE h

Delivered(h, seq) ==
    IF seq <= h.posted /\ seq > h.delivered THEN [h EXCEPT !.delivered = seq] ELSE h

Accepted(h, seq) == seq /= 0 /\ seq <= h.posted /\ seq > h.rendered

\* Mutant: only a later state frees the one that is outstanding.
Rendered_Later(h, seq) ==
    [h EXCEPT !.rendered = seq, !.out = IF seq > h.out THEN 0 ELSE h.out]

Rendered(h, seq) ==
    [h EXCEPT !.rendered = seq, !.out = IF seq >= h.out THEN 0 ELSE h.out]

-----------------------------------------------------------------------------
(* Posting: postState(), flushStatePost()                                  *)

Sync(h) == SetVisible(h, h.view = "shown" /\ h.docShown)

Send(h) == [h EXCEPT !.seq = @ + 1, !.attempt = h.seq + 1, !.inFlight = TRUE,
                     !.posted = h.seq + 1, !.out = h.seq + 1,
                     !.dirty = FALSE, !.immediate = FALSE, !.pend = FALSE, !.imm = FALSE]

Unchanged(h) == [h EXCEPT !.dirty = FALSE, !.immediate = FALSE, !.pend = FALSE, !.imm = FALSE]

Flush(h, now) ==
    LET force == now \/ h.imm
        s == Sync([h EXCEPT !.timer = FALSE])
    IN  IF h.view = "none" THEN [h EXCEPT !.timer = FALSE]
        ELSE IF ~s.docShown \/ s.view /= "shown" THEN [Request(s, force) EXCEPT !.pend = TRUE]
        ELSE IF Awaiting(s) THEN [Request(s, force) EXCEPT !.pend = TRUE, !.imm = @ \/ force]
        ELSE IF s.inFlight THEN [s EXCEPT !.pend = TRUE, !.imm = @ \/ force]
        ELSE IF ~force /\ ~s.pend THEN s
        ELSE IF ~force /\ s.now = s.sig THEN Unchanged(s)
        ELSE Send(s)

Post(h, now, boot) ==
    LET s == Request(Sync(h), now \/ boot)
        r == [s EXCEPT !.pend = TRUE, !.imm = s.immediate]
    IN  IF h.view = "none" THEN h
        ELSE IF ~r.visible \/ Awaiting(r) THEN [r EXCEPT !.timer = FALSE]
        ELSE IF ~r.ready THEN r
        ELSE IF now THEN Flush(r, TRUE)
        ELSE IF r.inFlight THEN r ELSE [r EXCEPT !.timer = TRUE]

\* updatePanelDocumentVisibility()
Shows(h, v) ==
    LET s == Sync([h EXCEPT !.docShown = v])
    IN  IF h.docShown = v THEN s
        ELSE IF v THEN Post(s, TRUE, FALSE)
        ELSE [Request(s, FALSE) EXCEPT !.pend = TRUE, !.timer = FALSE]

-----------------------------------------------------------------------------
(* Documents: loadPanelHtml(), showPanelRecovery(), and their end          *)

\* resetPanelStateProgress(true)
Reset(h) ==
    [h EXCEPT !.visible = h.view = "shown", !.posted = 0, !.delivered = 0, !.rendered = 0,
              !.out = 0, !.dirty = FALSE, !.immediate = FALSE, !.pend = FALSE, !.imm = FALSE,
              !.inFlight = FALSE, !.attempt = 0, !.timer = FALSE, !.retryTimer = FALSE,
              !.retries = 0]

Load(h, kind) ==
    [Reset([h EXCEPT !.gen = @ + 1, !.ready = FALSE, !.kind = kind]) EXCEPT !.docShown = TRUE]

\* recoverPanelHeartbeatFailure()
Recover(h) ==
    IF h.view /= "shown" THEN h
    ELSE IF h.saved THEN Load([h EXCEPT !.ready = FALSE], "recovery")
    ELSE Load([h EXCEPT !.ready = FALSE, !.saved = TRUE], "panel")

\* The answer to a post: reportPostError(), completePost()
Retry(h) ==
    IF h.retryTimer \/ h.retries >= RetryMax \/ h.view /= "shown" \/ ~h.ready THEN h
    ELSE [h EXCEPT !.retries = @ + 1, !.retryTimer = TRUE]

PostFailed(h, seq) ==
    LET s == Failed([h EXCEPT !.attempt = 0, !.inFlight = FALSE], seq)
        r == [s EXCEPT !.pend = s.dirty]
    IN  IF h.retries >= RetryMax - 1 THEN Load(r, "recovery") ELSE Retry(r)

PostTaken(h, call) ==
    LET s == [Delivered(h, call.seq) EXCEPT !.attempt = 0, !.inFlight = FALSE, !.sig = call.version,
                                            !.retries = 0, !.retryTimer = FALSE]
    IN  IF s.pend /\ s.out = 0 THEN Post(s, s.immediate, FALSE) ELSE s

-----------------------------------------------------------------------------
Init ==
    /\ host \in [view : {"none"}, retain : BOOLEAN, now : Versions, gen : {0}, kind : {"none"},
                 ready : {FALSE}, greets : {0}, probe : {FALSE}, saved : {FALSE},
                 docShown : {TRUE}, visible : {TRUE}, posted : {0}, delivered : {0}, rendered : {0},
                 out : {0}, dirty : {FALSE}, immediate : {FALSE}, pend : {FALSE}, imm : {FALSE},
                 inFlight : {FALSE}, attempt : {0}, timer : {FALSE}, retryTimer : {FALSE},
                 retries : {0}, seq : {0}, sig : {0}]
    /\ doc = NewDocument(0, "none")
    /\ wire = <<>> /\ back = <<>>
    /\ calls = {}
    /\ budget = [changes |-> MaxChanges, hides |-> MaxHides, faults |-> MaxFaults,
                 events |-> MaxEvents]

(* The provider becomes h, other calls being open.  If it has posted its   *)
(* state, that goes on the wire; a new document may get what was sent to   *)
(* the old one.                                                            *)
Turn(h, open) ==
    /\ host' = h
    /\ LET post == [seq |-> host'.seq, version |-> host'.now]
           posted == host'.seq > host.seq
       IN  /\ calls' = IF posted THEN open \cup {post} ELSE open
           /\ IF host'.gen = host.gen
              THEN doc' = doc /\ wire' = IF posted THEN Append(wire, post) ELSE wire
              ELSE doc' = NewDocument(host'.gen, host'.kind) /\ wire' \in {wire, <<>>}

Spend(what) ==
    /\ budget[what] > 0 /\ budget.events > 0
    /\ budget' = [budget EXCEPT ![what] = @ - 1, !.events = @ - 1]

(* Something changes, and postState() is called.                           *)
Change(v, now) ==
    /\ Spend("changes")
    /\ Turn(Post([host EXCEPT !.now = v], now, FALSE), calls)
    /\ UNCHANGED back

TimerFires ==
    /\ host.timer /\ Turn(Flush(host, FALSE), calls)
    /\ UNCHANGED <<back, budget>>

RetryFires ==
    /\ host.retryTimer /\ Turn(Flush([host EXCEPT !.retryTimer = FALSE], TRUE), calls)
    /\ UNCHANGED <<back, budget>>

(* The promise of a post resolves, or it rejects or its time is over: then *)
(* the document may get the message all the same.                          *)
Counts(call) == call.seq = host.attempt

Taken(call) ==
    /\ call \in calls /\ doc.kind /= "none"
    /\ Turn(IF Counts(call) THEN PostTaken(host, call) ELSE host, calls \ {call})
    /\ UNCHANGED <<back, budget>>

Refused(call) ==
    /\ call \in calls
    /\ Turn(IF Counts(call) THEN PostFailed(host, call.seq) ELSE host, calls \ {call})
    /\ IF doc.kind = "none" THEN UNCHANGED budget ELSE Spend("faults")
    /\ UNCHANGED back

-----------------------------------------------------------------------------
(* Messages of documents                                                   *)

\* Mutant: a message counts whatever document it is of.
Current_Any(m) == TRUE

\* isCurrentPanelDocumentMessage()
Current(m) == m.gen = host.gen

Next1(kind) == back /= <<>> /\ Head(back).kind = kind /\ Current(Head(back))
Heard == back' = Tail(back)

Drop ==
    /\ back /= <<>> /\ ~Current(Head(back)) /\ Heard
    /\ UNCHANGED <<host, doc, wire, calls, budget>>

(* webviewReady, up to its await and after it                              *)
HearReady ==
    /\ Next1("ready") /\ Heard
    /\ Turn([host EXCEPT !.ready = TRUE, !.greets = @ + 1], calls)
    /\ UNCHANGED budget

Greet ==
    /\ host.greets > 0
    /\ Turn(Post([host EXCEPT !.greets = @ - 1, !.retries = 0, !.retryTimer = FALSE], TRUE, TRUE), calls)
    /\ UNCHANGED <<back, budget>>

HearVisibility ==
    /\ Next1("visibility") /\ Heard
    /\ Turn(Shows(host, ~Head(back).hidden), calls)
    /\ UNCHANGED budget

Resumes(h, seq) == Accepted(h, seq) /\ h.out /= 0 /\ seq >= h.out /\ h.dirty /\ h.visible
AfterAck(h, seq) == IF Accepted(h, seq) THEN Rendered(h, seq) ELSE h
Acknowledged(h, seq) ==
    IF Resumes(h, seq) THEN Post(AfterAck(h, seq), h.immediate, FALSE) ELSE AfterAck(h, seq)

HearRendered ==
    /\ Next1("rendered") /\ Heard
    /\ Turn(Acknowledged(host, Head(back).seq), calls)
    /\ UNCHANGED budget

(* An answer to a heartbeat tells of visibility, health and what is        *)
(* rendered.                                                               *)
Probed(h, m) ==
    LET s == IF m.health = "hidden" THEN Shows(h, FALSE)
             ELSE IF m.health = "ok" /\ ~h.docShown THEN Shows(h, TRUE) ELSE h
    IN  IF m.health = "broken" THEN Recover(AfterAck(s, m.seq)) ELSE Acknowledged(s, m.seq)

HearBeat ==
    /\ Next1("beat") /\ Heard
    /\ Turn(IF host.view = "shown" /\ host.ready THEN Probed(host, Head(back)) ELSE host, calls)
    /\ UNCHANGED budget

(* Three answers in a row without progress, or no answer at all.           *)
Stalls ==
    /\ host.view = "shown" /\ host.ready /\ Spend("faults")
    /\ Turn(Recover(host), calls)
    /\ UNCHANGED back

(* The document did not start in time.                                     *)
Watchdog ==
    /\ host.view = "shown" /\ ~host.ready /\ host.kind = "panel" /\ Spend("faults")
    /\ Turn(Load(host, "recovery"), calls)
    /\ UNCHANGED back

-----------------------------------------------------------------------------
(* The view                                                                *)

Resolve(v) ==
    /\ host.view = "none" /\ Turn(Load([host EXCEPT !.view = v], "panel"), calls)
    /\ UNCHANGED <<back, budget>>

Dispose ==
    /\ host.view /= "none" /\ Spend("hides")
    /\ host' = [Reset(host) EXCEPT !.view = "none", !.ready = FALSE, !.probe = FALSE, !.kind = "none"]
    /\ doc' = NewDocument(host.gen, "none")
    /\ wire' = <<>> /\ back' = <<>>
    /\ UNCHANGED calls

(* Without retainContextWhenHidden the document ends with its view.        *)
Hide ==
    LET h == Shows([host EXCEPT !.view = "hidden"], FALSE)
    IN  /\ host.view = "shown" /\ Spend("hides")
        /\ host' = Post([h EXCEPT !.ready = @ /\ h.retain], FALSE, FALSE)
        /\ doc' = IF host.retain THEN doc ELSE [doc EXCEPT !.kind = "none"]
        /\ UNCHANGED <<wire, back, calls>>

Show ==
    LET h == [host EXCEPT !.view = "shown"]
    IN  /\ host.view = "hidden"
        /\ Turn(IF h.retain THEN [h EXCEPT !.probe = h.ready] ELSE Load(h, "panel"), calls)
        /\ UNCHANGED <<back, budget>>

(* probePanelNow(), when its message is taken                              *)
ProbeTaken ==
    /\ host.probe /\ Turn(Post([host EXCEPT !.probe = FALSE], TRUE, FALSE), calls)
    /\ UNCHANGED <<back, budget>>

Reload ==
    /\ host.view /= "none" /\ Spend("hides") /\ Turn(Load(host, "panel"), calls)
    /\ UNCHANGED back

-----------------------------------------------------------------------------
(* The document                                                            *)

Running == doc.kind = "panel" /\ doc.started
Tell(m) == back' = Append(back, m)

Start ==
    /\ doc.kind = "panel" /\ ~doc.started
    /\ doc' = [doc EXCEPT !.started = TRUE]
    /\ back' = back \o << [kind |-> "visibility", gen |-> doc.gen, hidden |-> FALSE],
                          [kind |-> "ready", gen |-> doc.gen] >>
    /\ UNCHANGED <<host, wire, calls, budget>>

Receive ==
    LET m == Head(wire)
    IN  /\ Running /\ wire /= <<>>
        /\ doc' = IF m.seq <= doc.received THEN doc
                  ELSE [doc EXCEPT !.received = m.seq, !.next = m.seq, !.nextVersion = m.version,
                                   !.awaiting = FALSE, !.frame = ~doc.hidden]
        /\ wire' = Tail(wire)
        /\ UNCHANGED <<host, back, calls, budget>>

Frame ==
    /\ Running /\ doc.frame
    /\ doc' = [doc EXCEPT !.frame = FALSE, !.next = 0, !.rendered = doc.next,
                          !.shown = doc.nextVersion, !.broken = FALSE]
    /\ Tell([kind |-> "rendered", gen |-> doc.gen, seq |-> doc.next])
    /\ UNCHANGED <<host, wire, calls, budget>>

FrameFails ==
    /\ Running /\ doc.frame /\ Spend("faults")
    /\ doc' = [doc EXCEPT !.frame = FALSE, !.next = 0, !.broken = TRUE]
    /\ UNCHANGED <<host, wire, back, calls>>

DocumentHides ==
    /\ Running /\ ~doc.hidden /\ Spend("hides")
    /\ doc' = [doc EXCEPT !.hidden = TRUE, !.frame = FALSE, !.awaiting = TRUE]
    /\ Tell([kind |-> "visibility", gen |-> doc.gen, hidden |-> TRUE])
    /\ UNCHANGED <<host, wire, calls>>

DocumentShows ==
    /\ Running /\ doc.hidden
    /\ doc' = [doc EXCEPT !.hidden = FALSE, !.awaiting = TRUE]
    /\ Tell([kind |-> "visibility", gen |-> doc.gen, hidden |-> FALSE])
    /\ UNCHANGED <<host, wire, calls, budget>>

(* A heartbeat comes and is answered.  It comes seldom: what the document  *)
(* has told before was heard.  A document that has not rendered yet, or    *)
(* that was asked too long after its last frame, cannot tell.              *)
Health ==
    IF doc.hidden THEN {"hidden"}
    ELSE IF doc.frame THEN {"unknown"}
    ELSE IF doc.broken THEN {"broken"}
    ELSE {"unknown"} \cup {health \in {"ok"} : doc.rendered /= 0}

Beat ==
    /\ Running /\ host.view = "shown" /\ host.ready
    /\ back = <<>>
    /\ \E health \in Health :
          Tell([kind |-> "beat", gen |-> doc.gen, health |-> health, seq |-> doc.rendered])
    /\ UNCHANGED <<host, doc, wire, calls, budget>>

-----------------------------------------------------------------------------
Hear == Drop \/ HearReady \/ HearVisibility \/ HearRendered \/ HearBeat

Next ==
    \/ \E v \in Versions, now \in BOOLEAN : Change(v, now)
    \/ TimerFires \/ RetryFires \/ \E call \in calls : Taken(call) \/ Refused(call)
    \/ Hear \/ Greet \/ Stalls \/ Watchdog
    \/ Resolve("hidden") \/ Resolve("shown") \/ Dispose \/ Hide \/ Show \/ ProbeTaken \/ Reload
    \/ Start \/ Receive \/ Frame \/ FrameFails \/ DocumentHides \/ DocumentShows \/ Beat

Spec == Init /\ [][Next]_vars

(* What goes on without anybody's doing: timers fire, promises resolve, a  *)
(* document starts, gets its messages and renders.                         *)
Progress ==
    \/ TimerFires \/ RetryFires \/ Greet \/ ProbeTaken \/ \E call \in calls : Taken(call)
    \/ Start \/ Receive \/ Frame

(* Nobody has to show or to reload anything.                               *)
FairSpec == Spec /\ WF_vars(Progress) /\ WF_vars(Hear) /\ WF_vars(Beat)

-----------------------------------------------------------------------------
TypeOK ==
    /\ host \in Provider
    /\ doc \in Document
    /\ wire \in Seq([seq : Nat, version : Versions])
    /\ calls \subseteq [seq : Nat, version : Versions]
    /\ host.inFlight <=> host.attempt /= 0
    /\ host.out /= 0 => host.out = host.posted /\ host.rendered < host.out
    /\ host.retries <= RetryMax

(* What the provider takes for rendered, its document has rendered: an     *)
(* answer of an earlier document, of an earlier post, or one that comes    *)
(* after the panel was hidden never frees or credits a state.              *)
BeliefIsTrue ==
    host.rendered /= 0 => doc.gen = host.gen /\ doc.rendered >= host.rendered

Viewable == host.view = "shown" /\ doc.kind = "panel" /\ ~doc.hidden

(* A retained document that was hidden with its view counts as hidden      *)
(* until it says otherwise.                                                *)
TakenForHidden == host.retain /\ ~host.docShown

(* A panel that stays in view shows the newest state in the end, whatever  *)
(* was hidden, replaced, refused or broken before - unless it is retained  *)
(* and still taken for hidden, which only it could correct (legacy.ts:     *)
(* 28116).  One that is not retained always does.                          *)
EventuallyShown ==
    Viewable ~> (~Viewable \/ doc.shown = host.now \/ TakenForHidden)
=============================================================================
