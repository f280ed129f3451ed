---------------------------- MODULE PublisherProofs ----------------------------
(***************************************************************************)
(* The host's reducer follows the emitter's, agent cycles stay in their    *)
(* incarnation, and disciplined callers are not refused: theorems about    *)
(* Publisher.                                                              *)
(*                                                                         *)
(* The two reducers differ in nothing but the incarnations each has left   *)
(* behind, which no handler reads and only reduceForeign extends.  What a  *)
(* disciplined caller's method has left to emit is in one of a few phases, *)
(* and each says of the emitter's reducer what its next event needs.       *)
(***************************************************************************)
EXTENDS Publisher, ReductionProofs, FiniteSetTheorems, SequenceTheorems

-----------------------------------------------------------------------------
(* Reducers that agree *)

(* Equal but for the incarnations left behind, *)
Alike(q, r) ==
  /\ q.stream = r.stream /\ q.started = r.started /\ q.failed = r.failed
  /\ q.closed = r.closed /\ q.base = r.base /\ q.reducedThrough = r.reducedThrough
  /\ q.suppressed = r.suppressed /\ q.frames = r.frames
  /\ q.foreground = r.foreground /\ q.turns = r.turns /\ q.turnSeen = r.turnSeen
  /\ q.activities = r.activities /\ q.actions = r.actions
  /\ q.actionCycle = r.actionCycle /\ q.blockedCycle = r.blockedCycle

(* which is what HostFollowsEmitter states of them. *)
LEMMA AlikeIsEqual ==
  ASSUME NEW q \in ReducerState, NEW r \in ReducerState, Alike(q, r)
  PROVE  q = [r EXCEPT !.retired = q.retired]
BY DEF Alike, ReducerState

(* A refusal is the same verdict for both (fail). *)
LEMMA FailAlike ==
  ASSUME NEW q \in ReducerState, NEW r \in ReducerState, Alike(q, r), NEW kind
  PROVE  Alike(Fail(q, kind), Fail(r, kind))
BY DEF Alike, Fail, ReducerState

(* A turn that opens opens in both (openTurn). *)
LEMMA OpenTurnAlike ==
  ASSUME NEW q \in ReducerState, NEW r \in ReducerState, Alike(q, r), NEW t, NEW c
  PROVE  Alike(OpenTurn(q, t, c), OpenTurn(r, t, c))
BY DEF Alike, OpenTurn, ReducerState

(* A prompt of either is judged by the turns it knows (applyPromptAccepted). *)
LEMMA PromptAlike ==
  ASSUME NEW q \in ReducerState, NEW r \in ReducerState, Alike(q, r), NEW e
  PROVE  Alike(ApplyPromptAccepted(q, e), ApplyPromptAccepted(r, e))
<1>1. PromptDefect(q, e) = PromptDefect(r, e)
  BY DEF Alike, PromptDefect, TurnOver, TurnKnown
<1> QED  BY <1>1, FailAlike, OpenTurnAlike DEF ApplyPromptAccepted, Unless

(* A transition (applyStateUpdate, applyLive, applyIdle). *)
LEMMA LiveAlike ==
  ASSUME NEW q \in ReducerState, NEW r \in ReducerState, Alike(q, r),
         NEW e \in TransitionEvent, e.turn \in Turn
  PROVE  Alike(ApplyLive(q, e), ApplyLive(r, e))
<1>1. LiveDefect(q, e) = LiveDefect(r, e)
  BY DEF Alike, LiveDefect, TurnOver
<1>2. ASSUME NEW x \in ReducerState, NEW y \in ReducerState, Alike(x, y)
      PROVE  Alike(ReportLive(x, e), ReportLive(y, e))
  BY <1>2 DEF Alike, ReportLive, ReducerState
<1>3. /\ OpenTurn(q, e.turn, "activity") \in ReducerState
      /\ OpenTurn(r, e.turn, "activity") \in ReducerState
      /\ Alike(OpenTurn(q, e.turn, "activity"), OpenTurn(r, e.turn, "activity"))
  BY OpenTurnType, OpenTurnAlike DEF Cause
<1>4. q.turns = r.turns
  BY DEF Alike
<1> QED  BY <1>1, <1>2, <1>3, <1>4, FailAlike DEF ApplyLive, Unless

(* An idle transition (applyIdle, endTurn). *)
LEMMA IdleAlike ==
  ASSUME NEW q \in ReducerState, NEW r \in ReducerState, Alike(q, r), NEW e
  PROVE  Alike(ApplyIdle(q, e), ApplyIdle(r, e))
<1>1. IdleDefect(q, e) = IdleDefect(r, e)
  BY DEF Alike, IdleDefect, TurnOver
<1>2. Alike(EndTurn(q, e), EndTurn(r, e))
  BY DEF Alike, EndTurn, ReducerState
<1>3. Alike([q EXCEPT !.foreground = IdleForeground(e)], [r EXCEPT !.foreground = IdleForeground(e)])
  BY DEF Alike, ReducerState
<1> QED  BY <1>1, <1>2, <1>3, FailAlike DEF ApplyIdle, Unless

(* Any transition: what is owed and what blocks is the same (checkBlockedCycle). *)
LEMMA StateUpdateAlike ==
  ASSUME NEW q \in ReducerState, NEW r \in ReducerState, Alike(q, r), NEW e \in TransitionEvent
  PROVE  Alike(ApplyStateUpdate(q, e), ApplyStateUpdate(r, e))
<1> DEFINE sq == SettleBlockedCycle(q, e)
           sr == SettleBlockedCycle(r, e)
<1>1. BlockedCycleDefect(q, e) = BlockedCycleDefect(r, e)
  BY DEF Alike, BlockedCycleDefect, Blocked, BlockerOf
<1>2. sq \in ReducerState /\ sr \in ReducerState /\ Alike(sq, sr)
  BY DEF Alike, SettleBlockedCycle, ReducerState
<1> HIDE DEF sq, sr
<1>3. Alike(ApplyIdle(sq, e), ApplyIdle(sr, e))
  BY <1>2, IdleAlike
<1>4. e.turn \in Turn => Alike(ApplyLive(sq, e), ApplyLive(sr, e))
  BY <1>2, LiveAlike
<1>5. e.state # "idle" /\ NamelessTurnDefect(e) = None => e.turn \in Turn
  BY TransitionParts, NoneIsAnIdentityOfNothing DEF NamelessTurnDefect, ViolationKind
<1> QED  BY <1>1, <1>3, <1>4, <1>5, FailAlike DEF ApplyStateUpdate, sq, sr

(* First sights and patches of activities and actions. *)
LEMMA RecordActivitiesAlike ==
  ASSUME NEW q \in ReducerState, NEW r \in ReducerState, Alike(q, r), NEW us
  PROVE  Alike(RecordActivities(q, us), RecordActivities(r, us))
BY DEF Alike, RecordActivities, ReducerState

(* The cycle a blocker blocks is the current one of both (recordAction). *)
LEMMA RecordActionsAlike ==
  ASSUME NEW q \in ReducerState, NEW r \in ReducerState, Alike(q, r), NEW us
  PROVE  Alike(RecordActions(q, us), RecordActions(r, us))
<1> DEFINE blocking(x) == {u \in us : ~ActionOver(u) /\ BlocksForeground(u) /\ x.foreground # None}
<1>1. blocking(q) = blocking(r)
  BY DEF Alike
<1> QED  BY <1>1 DEF Alike, RecordActions, ReducerState

(* An activity update (applyActivityUpdate). *)
LEMMA ActivityUpdateAlike ==
  ASSUME NEW q \in ReducerState, NEW r \in ReducerState, Alike(q, r), NEW u
  PROVE  Alike(ApplyActivityUpdate(q, u), ApplyActivityUpdate(r, u))
<1>1. /\ ActivityPatchDefect(q, u) = ActivityPatchDefect(r, u)
      /\ ActivityFirstSightDefect(q, u) = ActivityFirstSightDefect(r, u)
      /\ ActivityKnown(q, u.id) = ActivityKnown(r, u.id)
  BY DEF Alike, ActivityPatchDefect, ActivityFirstSightDefect, ActivityKnown, TurnKnown,
         LiveChild, UnresolvedAction
<1>2. Alike(PatchActivity(q, u), PatchActivity(r, u))
  BY DEF Alike, PatchActivity, ReducerState
<1> QED  BY <1>1, <1>2, FailAlike, RecordActivitiesAlike DEF ApplyActivityUpdate, Unless

(* An action update (applyActionUpdate). *)
LEMMA ActionUpdateAlike ==
  ASSUME NEW q \in ReducerState, NEW r \in ReducerState, Alike(q, r), NEW u
  PROVE  Alike(ApplyActionUpdate(q, u), ApplyActionUpdate(r, u))
<1>1. /\ ActionPatchDefect(q, u) = ActionPatchDefect(r, u)
      /\ ActionFirstSightDefect(q, u) = ActionFirstSightDefect(r, u)
      /\ q.actions = r.actions
  BY DEF Alike, ActionPatchDefect, ActionFirstSightDefect, ActivityKnown, TurnKnown
<1>2. Alike(PatchAction(q, u), PatchAction(r, u))
  BY DEF Alike, PatchAction, ReducerState
<1> QED  BY <1>1, <1>2, FailAlike, RecordActionsAlike DEF ApplyActionUpdate, Unless

(* So two reducers that agree still do after an event (apply) *)
LEMMA ApplyAlike ==
  ASSUME NEW q \in ReducerState, NEW r \in ReducerState, Alike(q, r),
         NEW e \in Event, e.type # "lifecycle_snapshot"
  PROVE  Alike(Apply(q, e), Apply(r, e))
<1>1. e.type = "state_update" => e \in TransitionEvent
  BY DEF TransitionEvent
<1>2. e.type \in {"prompt_accepted", "state_update", "activity_update", "action_update"}
  BY DEF Event
<1> QED  BY <1>1, <1>2, PromptAlike, StateUpdateAlike, ActivityUpdateAlike, ActionUpdateAlike
         DEF Apply

(* and after its commit. *)
LEMMA CommitAlike ==
  ASSUME NEW q \in ReducerState, NEW r \in ReducerState, Alike(q, r), NEW d
  PROVE  Alike(Commit(q, d), Commit(r, d))
BY DEF Alike, Commit, ReducerState

(* An opening snapshot (applySnapshot, projectForeground). *)
LEMMA SnapshotAlike ==
  ASSUME NEW q \in ReducerState, NEW r \in ReducerState, Alike(q, r), NEW e \in SnapshotEvent
  PROVE  Alike(ApplySnapshot(q, e), ApplySnapshot(r, e))
<1>1. CASE SnapshotDefect(e) # None
  BY <1>1, FailAlike DEF ApplySnapshot, Unless
<1>2. CASE SnapshotDefect(e) = None
  <2> DEFINE fg(x) == ProjectForeground(x, e)
             acts(x) == RecordActivities(fg(x), Listed(e.activities))
  <2>1. \A x \in ReducerState : fg(x) \in ReducerState /\ acts(x) \in ReducerState
    BY <1>2, SnapshotListsAreFirstSights, ProjectForegroundType, RecordActivitiesType
  <2>2. Alike(fg(q), fg(r))
    BY DEF Alike, ProjectForeground, ReducerState
  <2>3. Alike(acts(q), acts(r))
    BY <2>1, <2>2, RecordActivitiesAlike
  <2>4. Alike(RecordActions(acts(q), Listed(e.actions)), RecordActions(acts(r), Listed(e.actions)))
    BY <2>1, <2>3, RecordActionsAlike
  <2> QED  BY <1>2, <2>4 DEF ApplySnapshot, Unless, ProjectSnapshot
<1> QED  BY <1>1, <1>2

(* A stream that opens, or a refused opening (reduceFirst). *)
LEMMA StartedAlike ==
  ASSUME NEW q \in ReducerState, NEW r \in ReducerState, Alike(q, r), NEW b \in BOOLEAN
  PROVE  /\ [q EXCEPT !.started = b] \in ReducerState
         /\ [r EXCEPT !.started = b] \in ReducerState
         /\ Alike([q EXCEPT !.started = b], [r EXCEPT !.started = b])
BY DEF Alike, ReducerState

(* The name a stream bore before it opened does not matter (reduceFirst):  *)
(* the next incarnation is judged on a fresh projection under its own name *)
(* (reduceForeign), the emitter's under none.                              *)
LEMMA ReduceFirstAlike ==
  ASSUME NEW q \in ReducerState, NEW r \in ReducerState, NEW d \in Delivery,
         Alike([q EXCEPT !.stream = None], [r EXCEPT !.stream = None])
  PROVE  Alike(ReduceFirst(q, d), ReduceFirst(r, d))
<1> DEFINE renamed(x) == [x EXCEPT !.stream = d.stream]
           based(x) == [renamed(x) EXCEPT !.base = d.sequence]
           begun(x) == [ApplySnapshot(based(x), d.event) EXCEPT !.started = TRUE]
           opened(x) == Commit(begun(x), d)
<1>1. d.sequence \in 0 .. MaxSequence /\ d.stream \in Stream /\ d.event \in Event
  BY BoundAssumption DEF Delivery, Sequence
<1>2. \A x \in ReducerState : renamed(x) \in ReducerState /\ based(x) \in ReducerState
  BY <1>1, ZenonT(30) DEF ReducerState
<1>3. Alike(renamed(q), renamed(r)) /\ Alike(based(q), based(r))
  BY <1>1 DEF Alike, ReducerState
<1>4. CASE d.event.type # "lifecycle_snapshot"
  BY <1>2, <1>3, <1>4, FailAlike DEF ReduceFirst
<1>5. CASE d.event.type = "lifecycle_snapshot"
  <2>1. d.event \in SnapshotEvent
    BY <1>1, <1>5 DEF SnapshotEvent
  <2>2. \A x \in ReducerState : ApplySnapshot(based(x), d.event) \in ReducerState
    BY <1>2, <2>1, ApplySnapshotType
  <2>3. Alike(ApplySnapshot(based(q), d.event), ApplySnapshot(based(r), d.event))
    BY <1>2, <1>3, <2>1, SnapshotAlike
  <2> DEFINE oq == opened(q)
             or == opened(r)
  <2>4. begun(q) \in ReducerState /\ begun(r) \in ReducerState /\ Alike(begun(q), begun(r))
    BY <2>2, <2>3, StartedAlike
  <2>5. oq \in ReducerState /\ or \in ReducerState /\ Alike(oq, or)
    BY <2>4, <1>1, CommitType, CommitAlike
  <2>6. /\ ReduceFirst(q, d) = IF oq.failed # None THEN [oq EXCEPT !.started = FALSE] ELSE oq
        /\ ReduceFirst(r, d) = IF or.failed # None THEN [or EXCEPT !.started = FALSE] ELSE or
    BY <1>5 DEF ReduceFirst
  <2> HIDE DEF oq, or
  <2>7. Alike([oq EXCEPT !.started = FALSE], [or EXCEPT !.started = FALSE])
    BY <2>5, StartedAlike
  <2>8. oq.failed = or.failed
    BY <2>5 DEF Alike
  <2> QED  BY <2>5, <2>6, <2>7, <2>8
<1> QED  BY <1>4, <1>5

-----------------------------------------------------------------------------
(* One event, reduced by the emitter and by the host *)

(* An accepted event of a stream that runs leaves the name and moves the   *)
(* boundary to its sequence; only its commit does (Reduce, commit).        *)
LEMMA ReduceNext ==
  ASSUME NEW r \in ReducerState, NEW d \in Delivery, r.started, r.failed = None,
         d.stream = r.stream, d.sequence = r.reducedThrough + 1,
         Reduce(r, d).failed = None
  PROVE  /\ Reduce(r, d) = Commit(Apply(r, d.event), d)
         /\ d.event \in Event /\ d.event.type # "lifecycle_snapshot"
         /\ Reduce(r, d).stream = r.stream /\ Reduce(r, d).started
         /\ Reduce(r, d).closed = r.closed /\ Reduce(r, d).retired = r.retired
         /\ Reduce(r, d).reducedThrough = d.sequence
         /\ r.closed = FALSE /\ d.carrier = "session_info_update"
         /\ ~(d.sequence < r.base)
<1>1. d.event \in Event /\ r.reducedThrough \in Int /\ d.sequence \in Sequence
  BY BoundAssumption DEF Delivery, ReducerState
<1>2. \A k \in ViolationKind : Fail(r, k).failed # None
  BY NoneIsAnIdentityOfNothing DEF Fail, ReducerState
<1>3. {"illegal_carrier", "stale_stream", "sequence_regression", "stream_cycle"} \subseteq ViolationKind
  BY DEF ViolationKind
<1>4. ~AlreadyReduced(r, d.sequence) /\ ~SkipsASequence(r, d.sequence)
  BY <1>1 DEF AlreadyReduced, SkipsASequence
<1>5. /\ Reduce(r, d) = Commit(Apply(r, d.event), d)
      /\ d.event.type # "lifecycle_snapshot"
      /\ r.closed = FALSE /\ d.carrier = "session_info_update" /\ ~(d.sequence < r.base)
  BY <1>2, <1>3, <1>4 DEF Reduce, ReducerState
<1>6. Apply(r, d.event) \in ReducerState /\ Header(Apply(r, d.event)) = Header(r)
  BY <1>1, <1>5, ApplyType, ApplyKeepsHeader
<1> HIDE DEF Reduce
<1> QED  BY <1>1, <1>5, <1>6, ZenonT(30) DEF Commit, Header, ReducerState

(* The host that agrees with the emitter accepts what the emitter accepts. *)
LEMMA HostReducesNext ==
  ASSUME NEW r \in ReducerState, NEW h \in ReducerState, NEW d \in Delivery, Alike(h, r),
         r.started, r.failed = None, d.stream = r.stream, d.sequence = r.reducedThrough + 1,
         Reduce(r, d).failed = None
  PROVE  Alike(Reduce(h, d), Reduce(r, d)) /\ Reduce(h, d).retired = h.retired
<1>1. /\ Reduce(r, d) = Commit(Apply(r, d.event), d)
      /\ d.event \in Event /\ d.event.type # "lifecycle_snapshot"
      /\ r.closed = FALSE /\ d.carrier = "session_info_update"
      /\ ~(d.sequence < r.base)
  BY ReduceNext, ZenonT(30)
<1>2. r.reducedThrough \in Int
  BY BoundAssumption DEF ReducerState
<1>3. ~AlreadyReduced(h, d.sequence) /\ ~SkipsASequence(h, d.sequence)
  BY <1>2 DEF Alike, AlreadyReduced, SkipsASequence
<1>4. Reduce(h, d) = Commit(Apply(h, d.event), d)
  BY <1>1, <1>3 DEF Reduce, Alike
<1>5. /\ Apply(h, d.event) \in ReducerState /\ Header(Apply(h, d.event)) = Header(h)
      /\ Apply(r, d.event) \in ReducerState
      /\ Alike(Apply(h, d.event), Apply(r, d.event))
  BY <1>1, ApplyType, ApplyKeepsHeader, ApplyAlike
<1>6. Alike(Commit(Apply(h, d.event), d), Commit(Apply(r, d.event), d))
  BY <1>5, CommitAlike
<1>7. Commit(Apply(h, d.event), d).retired = h.retired
  BY <1>5 DEF Commit, Header, ReducerState
<1> QED  BY <1>1, <1>4, <1>6, <1>7

(* An accepted opening (emit of a snapshot on the emitter's fresh reducer) *)
(* opens the stream on the host too, whether it is the host's first        *)
(* incarnation or the next one, and fences the one the host leaves.        *)
LEMMA HostReducesOpening ==
  ASSUME NEW h \in ReducerState, NEW d \in Delivery,
         h.failed = None, h.closed = FALSE,
         h.started => h.stream # None /\ h.stream # d.stream /\ d.stream \notin h.retired,
         ~h.started => h = Fresh(None, {}),
         Reduce(Fresh(None, {}), d).failed = None
  PROVE  LET r == Reduce(Fresh(None, {}), d)
         IN  /\ Alike(Reduce(h, d), r)
             /\ r.started /\ r.closed = FALSE /\ r.stream = d.stream
             /\ r.reducedThrough = d.sequence /\ r.retired = {}
             /\ Reduce(h, d).retired = IF h.started THEN h.retired \cup {h.stream} ELSE {}
<1> DEFINE blank == Fresh(None, {})
           begun == Fresh(d.stream, h.retired)
           next == ReduceFirst(begun, d)
<1>1. d.stream \in Stream
  BY DEF Delivery
<1>2. /\ blank \in ReducerState /\ begun \in ReducerState
      /\ blank.started = FALSE /\ blank.failed = None /\ blank.closed = FALSE /\ blank.retired = {}
      /\ begun.started = FALSE /\ begun.closed = FALSE /\ begun.retired = h.retired
  <2>1. h.retired \in SUBSET Stream
    BY DEF ReducerState
  <2> QED  BY <1>1, <2>1, FreshType DEF Fresh
<1>3. {"illegal_carrier", "delta_before_snapshot"} \subseteq ViolationKind
  BY DEF ViolationKind
<1>4. \A k \in ViolationKind, x \in ReducerState : Fail(x, k).failed # None
  BY NoneIsAnIdentityOfNothing DEF Fail, ReducerState
<1>5. d.carrier = "session_info_update" /\ Reduce(blank, d) = ReduceFirst(blank, d)
  BY <1>2, <1>3, <1>4 DEF Reduce
<1>6. d.event.type = "lifecycle_snapshot"
  <2>1. [blank EXCEPT !.stream = d.stream] \in ReducerState
    BY <1>1, <1>2 DEF ReducerState
  <2> QED  BY <1>3, <1>4, <1>5, <2>1 DEF ReduceFirst
<1>7. /\ ReduceFirst(blank, d).started /\ ReduceFirst(blank, d).closed = FALSE
      /\ ReduceFirst(blank, d).stream = d.stream
      /\ ReduceFirst(blank, d).reducedThrough = d.sequence
      /\ ReduceFirst(blank, d).retired = {}
  BY <1>2, <1>5, ReduceFirstHeader
<1>8. Alike(next, ReduceFirst(blank, d))
  <2>1. Alike([begun EXCEPT !.stream = None], [blank EXCEPT !.stream = None])
    BY <1>1, <1>2 DEF Alike, Fresh
  <2> QED  BY <1>2, <2>1, ReduceFirstAlike
<1>9. next \in ReducerState /\ next.retired = h.retired /\ next.closed = FALSE
  BY <1>2, ReduceFirstHeader, ReduceFirstType
<1> HIDE DEF blank, begun, next
<1>10. CASE h.started
  <2>1. next.failed = None
    BY <1>5, <1>8 DEF Alike, blank
  <2>2. Reduce(h, d) = ReduceForeign(h, d)
    BY <1>5, <1>10 DEF Reduce
  <2>3. Reduce(h, d) = [next EXCEPT !.closed = h.closed, !.retired = @ \cup {h.stream}]
    BY <1>6, <1>10, <2>1, <2>2 DEF ReduceForeign, next, begun
  <2>4. Alike(Reduce(h, d), next) /\ Reduce(h, d).retired = h.retired \cup {h.stream}
    BY <1>9, <2>3 DEF Alike, ReducerState
  <2> QED  BY <1>5, <1>7, <1>8, <1>10, <2>4 DEF Alike, blank
<1>11. CASE ~h.started
  <2>1. Reduce(h, d) = ReduceFirst(blank, d)
    BY <1>5, <1>11 DEF blank
  <2> QED  BY <1>5, <1>7, <1>11, <2>1 DEF Alike, blank
<1> QED  BY <1>10, <1>11

-----------------------------------------------------------------------------
(* What the methods emit *)

(* p.blockers holds finitely many actions, so a cancellation ends. *)
BlockerMap ==
  {m \in [Action -> Cycle \cup {None}] : IsFiniteSet({a \in Action : m[a] # None})}

StepOf == [event : Event, blockers : BlockerMap]

(* The event builders of emit.go build events of the closed vocabulary. *)
LEMMA SnapshotTyped ==
  ASSUME NEW c \in Cycle
  PROVE  SnapshotOf(c) \in Event
<1>1. <<>> \in Seq(ActivityUpdate) /\ <<>> \in Seq(ActionUpdate)
  OBVIOUS
<1>2. SnapshotOf(c).foreground \in SnapshotForeground
  BY DEF SnapshotOf, SnapshotForeground, ForegroundState
<1> QED  BY <1>1, <1>2 DEF SnapshotOf, Event

(* A transition of a cycle that callers hold (transitionEvent). *)
LEMMA TransitionTyped ==
  ASSUME NEW c \in HeldCycle, NEW state \in ForegroundState
  PROVE  TransitionOf(state, c) \in Event
BY DEF TransitionOf, Event, HeldCycle, Cause

(* The transition that ends it (Idle). *)
LEMMA IdleTyped ==
  ASSUME NEW c \in HeldCycle, NEW stop \in {"stated", None}, NEW outcome \in {"success", "failed"}
  PROVE  IdleOf(c, stop, outcome) \in Event
<1> DEFINE Update == [type : {"state_update"}, state : ForegroundState, cycle : Cycle,
                      turn : Turn \cup {None}, cause : Cause, stop : {"stated", None},
                      outcome : Outcome \cup {None}]
<1>1. TransitionOf("idle", c) \in Update
  BY DEF TransitionOf, ForegroundState, HeldCycle, Cause
<1>2. IdleOf(c, stop, outcome) \in Update
  BY <1>1 DEF IdleOf, Outcome
<1> QED  BY <1>2 DEF Event

(* The ask on its behalf (ActionPending). *)
LEMMA AskTyped ==
  ASSUME NEW c \in HeldCycle, NEW a \in Action
  PROVE  PendingOf(a, c) \in Event
<1>1. [type |-> "turn", id |-> c.turn] \in Owner
  BY DEF Owner, HeldCycle
<1>2. PendingOf(a, c).action \in ActionUpdate
  BY <1>1 DEF PendingOf, ActionUpdate, ActionState
<1> QED  BY <1>2 DEF PendingOf, Event

(* The answer to an ask, or its cancellation (ActionResolved, Idle). *)
LEMMA AnswerTyped ==
  ASSUME NEW a \in Action, NEW state \in TerminalActionState
  PROVE  ResolvedOf(a, state) \in Event
<1>1. ResolvedOf(a, state).action \in ActionUpdate
  BY DEF ResolvedOf, ActionUpdate, ActionState
<1> QED  BY <1>1 DEF ResolvedOf, Event

(* What a method has left to emit are events. *)
LEMMA StepsCarryEvents ==
  ASSUME NEW s \in Seq(StepOf)
  PROVE  \A i \in DOMAIN s : s[i].event \in Event
<1> TAKE i \in DOMAIN s
<1>1. s[i] \in StepOf
  OBVIOUS
<1> QED  BY <1>1 DEF StepOf

(* Taking actions off the map leaves a map (ActionResolved, Idle). *)
LEMMA FewerBlockers ==
  ASSUME NEW m \in BlockerMap, NEW p \in [Action -> Cycle \cup {None}],
         \A a \in Action : p[a] # None => m[a] # None
  PROVE  p \in BlockerMap
<1>1. IsFiniteSet({a \in Action : m[a] # None})
  BY DEF BlockerMap
<1>2. {a \in Action : p[a] # None} \in SUBSET {a \in Action : m[a] # None}
  OBVIOUS
<1>3. IsFiniteSet({a \in Action : p[a] # None})
  BY <1>1, <1>2, FS_Subset
<1> QED  BY <1>3 DEF BlockerMap

(* ActionPending adds one. *)
LEMMA OneMoreBlocker ==
  ASSUME NEW m \in BlockerMap, NEW a \in Action, NEW c \in Cycle
  PROVE  [m EXCEPT ![a] = c] \in BlockerMap
<1> DEFINE p == [m EXCEPT ![a] = c]
           on == {x \in Action : m[x] # None}
<1>1. IsFiniteSet(on)
  BY DEF BlockerMap
<1>2. IsFiniteSet(on \cup {a})
  BY <1>1, FS_AddElement
<1>3. p \in [Action -> Cycle \cup {None}]
  BY DEF BlockerMap
<1>4. {x \in Action : p[x] # None} \in SUBSET (on \cup {a})
  BY DEF BlockerMap
<1>5. IsFiniteSet({x \in Action : p[x] # None})
  BY <1>2, <1>4, FS_Subset
<1> QED  BY <1>3, <1>5 DEF BlockerMap

(* A stream that opens has none (Open). *)
LEMMA NoBlockersTyped == NoBlockers \in BlockerMap
<1>1. {a \in Action : NoBlockers[a] # None} = {}
  BY DEF NoBlockers
<1>2. IsFiniteSet({})
  BY FS_EmptySet
<1> QED  BY <1>1, <1>2 DEF BlockerMap, NoBlockers

(* The order in which Idle cancels exists: the blockers of a cycle are finitely many. *)
LEMMA CancellationOrder ==
  ASSUME NEW m \in BlockerMap, NEW c \in Cycle
  PROVE  LET open == BlockedBy(m, c)
             order == CHOOSE s \in [1 .. Cardinality(open) -> open] :
                         \A i, j \in DOMAIN s : s[i] = s[j] => i = j
         IN  /\ Cardinality(open) \in Nat
             /\ order \in [1 .. Cardinality(open) -> open]
<1> DEFINE open == BlockedBy(m, c)
           n == Cardinality(open)
<1>1. open \in SUBSET {a \in Action : m[a] # None}
  BY NoneIsAnIdentityOfNothing DEF BlockedBy
<1>2. IsFiniteSet(open)
  BY <1>1, FS_Subset DEF BlockerMap
<1>3. n \in Nat /\ ExistsBijection(1 .. n, open)
  BY <1>2, FS_CardinalityType
<1> HIDE DEF n, open
<1>4. PICK s : s \in Bijection(1 .. n, open)
  BY <1>3 DEF ExistsBijection
<1>5. s \in [1 .. n -> open] /\ \A i, j \in DOMAIN s : s[i] = s[j] => i = j
  BY <1>4 DEF Bijection, Injection, IsInjective
<1>6. (CHOOSE t \in [1 .. n -> open] : \A i, j \in DOMAIN t : t[i] = t[j] => i = j)
        \in [1 .. n -> open]
  BY <1>5
<1> QED  BY <1>3, <1>6 DEF n, open

(* What ends a cycle is a list of steps: each blocker's cancellation, then idle. *)
LEMMA EndingStepsTyped ==
  ASSUME NEW m \in BlockerMap, blockers = m, NEW c \in HeldCycle, NEW n \in Nat,
         NEW order \in [1 .. n -> Action],
         NEW stop \in {"stated", None}, NEW outcome \in {"success", "failed"}
  PROVE  EndingSteps(order, c, stop, outcome) \in Seq(StepOf)
<1> DEFINE left(i) == [a \in Action |->
                         IF \E j \in 1 .. i : order[j] = a THEN None ELSE blockers[a]]
           cancelled == [i \in 1 .. n |-> Step(ResolvedOf(order[i], "cancelled"), left(i))]
           idle == Step(IdleOf(c, IF outcome = "failed" THEN None ELSE stop, outcome), left(n))
<1>1. \A i : left(i) \in BlockerMap
  <2> TAKE i
  <2>1. left(i) \in [Action -> Cycle \cup {None}]
    BY DEF BlockerMap
  <2>2. \A a \in Action : left(i)[a] # None => m[a] # None
    OBVIOUS
  <2> QED  BY <2>1, <2>2, FewerBlockers
<1> HIDE DEF left
<1>2. order \in Seq(Action) /\ Len(order) = n
  OBVIOUS
<1>3. \A i \in 1 .. n : Step(ResolvedOf(order[i], "cancelled"), left(i)) \in StepOf
  BY <1>1, AnswerTyped DEF Step, StepOf, TerminalActionState
<1>4. cancelled \in Seq(StepOf)
  <2>1. cancelled \in [1 .. n -> StepOf]
    BY <1>3
  <2> QED  BY <2>1, SeqDef
<1>5. idle \in StepOf
  BY <1>1, IdleTyped DEF Step, StepOf
<1> HIDE DEF cancelled, idle
<1>6. cancelled \o <<idle>> \in Seq(StepOf)
  BY <1>4, <1>5
<1> QED  BY <1>2, <1>6 DEF EndingSteps, cancelled, idle, left

-----------------------------------------------------------------------------
(* The invariant *)

(* The variables are typed, the running method's steps too, and there is  *)
(* room for them below the bound on the sequence.                          *)
TypedInv ==
  /\ TypeOK
  /\ todo \in Seq(StepOf)
  /\ sequence + Len(todo) <= MaxSequence
  /\ blockers \in BlockerMap

(* The host never refused, and knows no incarnation that was not named.    *)
HostInv ==
  /\ host.failed = None
  /\ host.closed = FALSE
  /\ host.retired \subseteq named
  /\ host.started => host.stream \in named
  /\ ~host.started => host = Fresh(None, {})
  /\ id # None => id \in named

(* The emitter of an active stream that opened agrees with the host; before *)
(* it opened the host has not heard of the incarnation.                    *)
ActiveInv ==
  /\ emitter.failed = None
  /\ emitter.started => /\ emitter.stream = id
                        /\ emitter.reducedThrough = sequence
                        /\ Alike(host, emitter)
  /\ ~emitter.started => /\ emitter = Fresh(None, {})
                         /\ host.stream # id
                         /\ id \notin host.retired

(* A method that still has to emit has an active stream to emit on, and    *)
(* the host of a stream that ended misses no more than the last envelope.  *)
EmissionInv ==
  /\ todo # <<>> => Active
  /\ Active => ActiveInv
  /\ host.stream = id /\ id # None => sequence - host.reducedThrough \in {0, 1}

PublisherInv == TypedInv /\ HostInv /\ EmissionInv

(* The first state: nothing was opened (NewPublisher). *)
LEMMA InitPublisher == Init => PublisherInv
<1> SUFFICES ASSUME Init PROVE PublisherInv
  OBVIOUS
<1>1. Fresh(None, {}) \in ReducerState
  BY FreshType
<1>2. NoBlockers \in BlockerMap /\ BlockerMap \subseteq [Action -> Cycle \cup {None}]
  BY NoBlockersTyped DEF BlockerMap
<1>3. <<>> \in Seq(StepOf) /\ Len(<<>>) = 0
  OBVIOUS
<1>4. 0 \in 0 .. MaxId /\ 0 \in 0 .. MaxSequence /\ 0 <= MaxSequence
  BY PublisherAssumption, BoundAssumption
<1>5. TypedInv
  BY <1>1, <1>2, <1>3, <1>4 DEF Init, TypedInv, TypeOK
<1>6. HostInv /\ EmissionInv
  BY DEF Init, HostInv, EmissionInv, Active, Fresh
<1> QED  BY <1>5, <1>6 DEF PublisherInv

-----------------------------------------------------------------------------
(* emit *)

(* The delivery that emit builds is one, and both reducers can take it. *)
LEMMA DeliveryTyped ==
  ASSUME PublisherInv, todo # <<>>
  PROVE  /\ NextDelivery \in Delivery
         /\ NextDelivery.stream = id /\ NextDelivery.sequence = sequence + 1
         /\ id \in Stream /\ Active /\ ActiveInv
         /\ Judged \in ReducerState
         /\ Reduce(host, NextDelivery) \in ReducerState
         /\ Head(todo) \in StepOf /\ Tail(todo) \in Seq(StepOf)
         /\ Len(Tail(todo)) = Len(todo) - 1 /\ Len(todo) >= 1
<1>1. todo \in Seq(StepOf) /\ Active /\ ActiveInv
  BY DEF PublisherInv, TypedInv, EmissionInv
<1>2. /\ Head(todo) \in StepOf /\ Tail(todo) \in Seq(StepOf)
      /\ Len(Tail(todo)) = Len(todo) - 1
  BY <1>1, HeadTailProperties
<1>3. Len(todo) \in Nat /\ Len(todo) >= 1
  BY <1>1
<1>4. id \in Stream /\ named \subseteq Stream /\ None \notin Stream
  BY <1>1, NoneIsAnIdentityOfNothing DEF PublisherInv, TypedInv, TypeOK, Active
<1>5. sequence + 1 \in Sequence
  BY <1>3, BoundAssumption DEF PublisherInv, TypedInv, TypeOK, Sequence
<1>6. NextDelivery \in Delivery
  BY <1>2, <1>4, <1>5 DEF NextDelivery, Delivery, Carrier, StepOf
<1>7. emitter \in ReducerState /\ host \in ReducerState
  BY DEF PublisherInv, TypedInv, TypeOK
<1>8. emitter.started => emitter.stream # None
  BY <1>1, <1>4 DEF ActiveInv
<1>9. host.started => host.stream # None
  BY <1>4 DEF PublisherInv, HostInv
<1>10. Judged \in ReducerState /\ Reduce(host, NextDelivery) \in ReducerState
  BY <1>6, <1>7, <1>8, <1>9, ReduceType DEF Judged
<1> QED  BY <1>1, <1>2, <1>3, <1>4, <1>6, <1>10 DEF NextDelivery

(* What the emitter accepts, the host that receives it accepts too, and    *)
(* the two agree again: on the opening snapshot and on every later event.  *)
LEMMA Accepted ==
  ASSUME PublisherInv, todo # <<>>, Judged.failed = None
  PROVE  LET reached == Reduce(host, NextDelivery)
         IN  /\ Alike(reached, Judged)
             /\ Judged.started /\ Judged.closed = FALSE /\ Judged.stream = id
             /\ Judged.reducedThrough = sequence + 1
             /\ reached.retired \subseteq named
<1> DEFINE reached == Reduce(host, NextDelivery)
<1>1. /\ NextDelivery \in Delivery /\ NextDelivery.stream = id
      /\ NextDelivery.sequence = sequence + 1
      /\ id \in Stream /\ Active /\ ActiveInv
  BY DeliveryTyped
<1>2. emitter \in ReducerState /\ host \in ReducerState /\ emitter.failed = None
  BY <1>1 DEF PublisherInv, TypedInv, TypeOK, ActiveInv
<1>3. host.retired \subseteq named /\ named \subseteq Stream /\ None \notin Stream
  BY NoneIsAnIdentityOfNothing DEF PublisherInv, HostInv, TypedInv, TypeOK
<1>4. CASE emitter.started
  <2>1. /\ Alike(host, emitter)
        /\ NextDelivery.stream = emitter.stream
        /\ NextDelivery.sequence = emitter.reducedThrough + 1
    BY <1>1, <1>4 DEF ActiveInv
  <2>2. Alike(reached, Judged) /\ reached.retired = host.retired
    BY <1>1, <1>2, <1>4, <2>1, HostReducesNext DEF Judged
  <2>3. /\ Judged.stream = emitter.stream /\ Judged.started
        /\ Judged.reducedThrough = NextDelivery.sequence
        /\ Judged.closed = emitter.closed /\ emitter.closed = FALSE
    BY <1>1, <1>2, <1>4, <2>1, ReduceNext DEF Judged
  <2> QED  BY <1>1, <1>3, <2>1, <2>2, <2>3
<1>5. CASE ~emitter.started
  <2>1. /\ emitter = Fresh(None, {}) /\ host.stream # id /\ id \notin host.retired
    BY <1>1, <1>5 DEF ActiveInv
  <2>2. /\ host.failed = None /\ host.closed = FALSE
        /\ host.started => host.stream \in named
        /\ ~host.started => host = Fresh(None, {})
    BY DEF PublisherInv, HostInv
  <2>3. /\ Alike(reached, Judged)
        /\ Judged.started /\ Judged.closed = FALSE /\ Judged.stream = NextDelivery.stream
        /\ Judged.reducedThrough = NextDelivery.sequence
        /\ reached.retired = IF host.started THEN host.retired \cup {host.stream} ELSE {}
    <3>1. host.started => /\ host.stream # None /\ host.stream # NextDelivery.stream
                          /\ NextDelivery.stream \notin host.retired
      BY <1>1, <1>3, <2>1, <2>2
    <3> QED  BY <1>1, <1>2, <2>1, <2>2, <3>1, HostReducesOpening DEF Judged
  <2> QED  BY <1>1, <1>3, <2>2, <2>3
<1> QED  BY <1>4, <1>5

(* A fenced emitter is typed (fence). *)
LEMMA CloseType ==
  ASSUME NEW r \in ReducerState
  PROVE  Close(r) \in ReducerState /\ Close(r).closed = TRUE
BY DEF Close, ReducerState

(* The event is consumed, whatever becomes of it: the host has it and the  *)
(* stream goes on, or the stream is fenced and the host may have it or not. *)
LEMMA EmitKeeps ==
  ASSUME PublisherInv, Emit, UNCHANGED disciplined
  PROVE  PublisherInv'
<1> DEFINE reached == Reduce(host, NextDelivery)
<1>1. /\ TypeOK /\ todo \in Seq(StepOf) /\ sequence + Len(todo) <= MaxSequence
      /\ blockers \in BlockerMap /\ HostInv
  BY DEF PublisherInv, TypedInv
<1>2. todo # <<>>
  BY DEF Emit, EmitRefused, EmitDelivered, EmitUndelivered
<1>3. /\ id \in Stream /\ Active /\ ActiveInv
      /\ Judged \in ReducerState /\ reached \in ReducerState
      /\ Head(todo) \in StepOf /\ Tail(todo) \in Seq(StepOf)
      /\ Len(Tail(todo)) = Len(todo) - 1 /\ Len(todo) >= 1
  BY <1>2, DeliveryTyped
<1>4. /\ sequence \in 0 .. MaxSequence /\ Len(todo) \in Nat /\ sequence \in Int
      /\ MaxSequence \in Int /\ sequence + 1 \in 0 .. MaxSequence
  BY <1>1, <1>3, BoundAssumption DEF TypeOK
<1>5. None \notin Stream /\ <<>> \in Seq(StepOf) /\ Len(<<>>) = 0
  BY NoneIsAnIdentityOfNothing
<1>6. Close(Judged) \in ReducerState /\ Close(Judged).closed = TRUE
  BY <1>3, CloseType
<1>7. host.reducedThrough \in Int /\ reached.reducedThrough \in Int
  BY <1>1, <1>3, BoundAssumption DEF TypeOK, ReducerState
<1>8. host.stream = id => host.reducedThrough = sequence
  BY <1>3 DEF ActiveInv, Alike
<1>9. ASSUME Judged.failed = None
      PROVE  /\ Alike(reached, Judged)
             /\ Judged.started /\ Judged.closed = FALSE /\ Judged.stream = id
             /\ Judged.reducedThrough = sequence + 1
             /\ reached.retired \subseteq named
             /\ reached.failed = None /\ reached.closed = FALSE /\ reached.started
             /\ reached.stream = id /\ reached.reducedThrough = sequence + 1
             /\ id \in named
  <2>1. /\ Alike(reached, Judged)
        /\ Judged.started /\ Judged.closed = FALSE /\ Judged.stream = id
        /\ Judged.reducedThrough = sequence + 1
        /\ reached.retired \subseteq named
    BY <1>2, <1>9, Accepted
  <2> QED  BY <1>1, <1>3, <1>9, <2>1 DEF Alike, Active, HostInv
<1> HIDE DEF reached
<1>10. CASE EmitRefused
  <2>1. /\ sequence' = sequence + 1 /\ emitter' = Close(Judged) /\ todo' = <<>>
        /\ UNCHANGED <<id, named, seq, blockers, held, host>>
    BY <1>10 DEF EmitRefused
  <2>2. TypedInv'
    BY <1>1, <1>4, <1>5, <1>6, <2>1 DEF TypedInv, TypeOK
  <2>3. HostInv' /\ EmissionInv'
    BY <1>1, <1>4, <1>6, <1>7, <1>8, <2>1 DEF HostInv, EmissionInv, Active
  <2> QED  BY <2>2, <2>3 DEF PublisherInv
<1>11. CASE EmitDelivered
  <2>1. /\ Judged.failed = None
        /\ sequence' = sequence + 1 /\ emitter' = Judged /\ host' = reached
        /\ blockers' = Head(todo).blockers /\ todo' = Tail(todo)
        /\ UNCHANGED <<id, named, seq, held>>
    BY <1>11 DEF EmitDelivered, reached
  <2>2. Head(todo).blockers \in BlockerMap
        /\ BlockerMap \subseteq [Action -> Cycle \cup {None}]
    BY <1>3 DEF StepOf, BlockerMap
  <2>3. \A i \in DOMAIN Tail(todo) : Tail(todo)[i].event \in Event
    BY <1>3, StepsCarryEvents
  <2>4. TypedInv'
    BY <1>1, <1>3, <1>4, <2>1, <2>2, <2>3 DEF TypedInv, TypeOK
  <2>5. HostInv'
    BY <1>9, <2>1 DEF HostInv
  <2>6. Active' /\ ActiveInv'
    BY <1>3, <1>5, <1>9, <2>1 DEF Active, ActiveInv
  <2>7. EmissionInv'
    BY <1>4, <1>9, <2>1, <2>6 DEF EmissionInv
  <2> QED  BY <2>4, <2>5, <2>7 DEF PublisherInv
<1>12. CASE EmitUndelivered
  <2>1. /\ Judged.failed = None
        /\ sequence' = sequence + 1 /\ emitter' = Close(Judged)
        /\ host' = host \/ host' = reached
        /\ todo' = <<>>
        /\ UNCHANGED <<id, named, seq, blockers, held>>
    BY <1>12 DEF EmitUndelivered, reached
  <2>2. TypedInv'
    BY <1>1, <1>3, <1>4, <1>5, <1>6, <2>1 DEF TypedInv, TypeOK
  <2>3. HostInv'
    BY <1>1, <1>9, <2>1 DEF HostInv
  <2>4. EmissionInv'
    BY <1>4, <1>6, <1>7, <1>8, <1>9, <2>1 DEF EmissionInv, Active
  <2> QED  BY <2>2, <2>3, <2>4 DEF PublisherInv
<1> QED  BY <1>10, <1>11, <1>12 DEF Emit

-----------------------------------------------------------------------------
(* The methods *)

(* A method that only settles what it will emit moves neither reducer. *)
LEMMA BegunKeeps ==
  ASSUME PublisherInv, Active,
         UNCHANGED <<id, named, sequence, emitter, host, disciplined>>,
         seq' \in 0 .. MaxId, held' \subseteq HeldCycle, blockers' \in BlockerMap,
         todo' \in Seq(StepOf), sequence + Len(todo') <= MaxSequence
  PROVE  PublisherInv'
<1>1. \A i \in DOMAIN todo' : todo'[i].event \in Event
  BY StepsCarryEvents
<1>2. BlockerMap \subseteq [Action -> Cycle \cup {None}]
  BY DEF BlockerMap
<1>3. TypedInv'
  BY <1>1, <1>2 DEF PublisherInv, TypedInv, TypeOK
<1>4. HostInv'
  BY DEF PublisherInv, HostInv
<1>5. EmissionInv'
  BY DEF PublisherInv, EmissionInv, Active, ActiveInv
<1> QED  BY <1>3, <1>4, <1>5 DEF PublisherInv

(* One or two steps are a list of steps. *)
LEMMA FewSteps ==
  ASSUME NEW s \in StepOf, NEW t \in StepOf
  PROVE  <<s>> \in Seq(StepOf) /\ <<s, t>> \in Seq(StepOf)
OBVIOUS

(* Every call keeps the invariant. *)
LEMMA CallKeeps ==
  ASSUME PublisherInv, Call, UNCHANGED disciplined
  PROVE  PublisherInv'
<1>1. /\ TypeOK /\ blockers \in BlockerMap /\ held \subseteq HeldCycle
      /\ todo \in Seq(StepOf) /\ sequence + Len(todo) <= MaxSequence
      /\ seq \in 0 .. MaxId /\ HostInv /\ EmissionInv
  BY DEF PublisherInv, TypedInv, TypeOK
<1>2. \A e \in Event, m \in BlockerMap : Step(e, m) \in StepOf
  BY DEF Step, StepOf
<1>3. ForegroundState = {"running", "idle", "requires_action"}
  BY DEF ForegroundState
<1>4. \A n : seq + n <= MaxId /\ n \in {1, 2} => seq + n \in 0 .. MaxId /\ seq + n \in Cycle
  BY <1>1, PublisherAssumption
<1>5. ASSUME NEW s \in Stream, Open(s) PROVE PublisherInv'
  <2>1. /\ todo = <<>> /\ s \in Stream \ named /\ seq' = seq + 1 /\ seq + 1 <= MaxId
        /\ id' = s /\ named' = named \cup {s} /\ sequence' = 0
        /\ emitter' = Fresh(None, {}) /\ blockers' = NoBlockers
        /\ todo' = <<Step(SnapshotOf(seq'), NoBlockers)>>
        /\ UNCHANGED <<held, host>>
    BY <1>5 DEF Open, Unlocked, NewIncarnation
  <2>2. Step(SnapshotOf(seq'), NoBlockers) \in StepOf
    BY <1>2, <1>4, <2>1, SnapshotTyped, NoBlockersTyped
  <2>3. todo' \in Seq(StepOf) /\ Len(todo') = 1 /\ todo'[1] \in StepOf /\ DOMAIN todo' = {1}
    BY <2>1, <2>2
  <2>4. Fresh(None, {}) \in ReducerState /\ NoBlockers \in [Action -> Cycle \cup {None}]
    BY FreshType, NoBlockersTyped DEF BlockerMap
  <2>5. 0 \in 0 .. MaxSequence /\ 0 + 1 <= MaxSequence
    BY PublisherAssumption, BoundAssumption
  <2>6. TypedInv'
    <3>1. TypeOK'
      BY <1>1, <1>4, <2>1, <2>3, <2>4, <2>5 DEF TypeOK, StepOf
    <3> QED  BY <2>1, <2>3, <2>5, <3>1, NoBlockersTyped DEF TypedInv
  <2>7. HostInv'
    BY <1>1, <2>1 DEF HostInv
  <2>8. host.stream # s /\ s \notin host.retired /\ s # None
    <3>1. ~host.started => host.stream = None
      BY <1>1 DEF HostInv, Fresh
    <3> QED  BY <1>1, <2>1, <3>1, NoneIsAnIdentityOfNothing DEF HostInv
  <2>9. emitter'.failed = None /\ emitter'.started = FALSE /\ emitter'.closed = FALSE
    BY <2>1 DEF Fresh
  <2>10. EmissionInv'
    BY <2>1, <2>8, <2>9 DEF EmissionInv, Active, ActiveInv
  <2> QED  BY <2>6, <2>7, <2>10 DEF PublisherInv
<1>6. ASSUME Accept PROVE PublisherInv'
  <2> DEFINE c == [turn |-> seq + 1, cycle |-> seq + 2, origin |-> "submission",
                   incarnation |-> None]
  <2>1. /\ Active /\ seq' = seq + 2 /\ seq + 2 <= MaxId /\ held' = held \cup {c}
        /\ todo' = <<Step(AcceptedOf(c.turn), blockers),
                     Step(TransitionOf("running", c), blockers)>>
        /\ sequence + Len(todo') <= MaxSequence
        /\ UNCHANGED <<id, named, sequence, emitter, blockers, host>>
    BY <1>6 DEF Accept, Begins
  <2>2. c \in HeldCycle
    BY <1>1, <2>1, PublisherAssumption DEF HeldCycle
  <2>3. AcceptedOf(c.turn) \in Event
    BY <2>2 DEF AcceptedOf, Event, HeldCycle
  <2>4. todo' \in Seq(StepOf)
    BY <1>1, <1>2, <1>3, <2>1, <2>2, <2>3, TransitionTyped, FewSteps
  <2> QED  BY <1>1, <1>4, <2>1, <2>2, <2>4, BegunKeeps
<1>7. ASSUME NewAgentCycle PROVE PublisherInv'
  <2> DEFINE c == [turn |-> seq + 1, cycle |-> seq + 2, origin |-> "activity",
                   incarnation |-> id]
  <2>1. /\ Active /\ seq' = seq + 2 /\ seq + 2 <= MaxId /\ held' = held \cup {c}
        /\ UNCHANGED <<id, named, sequence, emitter, blockers, todo, host>>
    BY <1>7 DEF NewAgentCycle
  <2>2. c \in HeldCycle
    BY <1>1, <2>1, PublisherAssumption DEF HeldCycle, TypeOK
  <2> QED  BY <1>1, <1>4, <2>1, <2>2, BegunKeeps
<1>8. ASSUME NEW c \in held, OpenAgentCycle(c) PROVE PublisherInv'
  <2>1. /\ Active /\ todo' = <<Step(TransitionOf("running", c), blockers)>>
        /\ sequence + Len(todo') <= MaxSequence
        /\ UNCHANGED <<id, named, sequence, emitter, seq, blockers, held, host>>
    BY <1>8 DEF OpenAgentCycle, Begins
  <2>2. todo' \in Seq(StepOf)
    BY <1>1, <1>2, <1>3, <2>1, TransitionTyped, FewSteps
  <2> QED  BY <1>1, <2>1, <2>2, BegunKeeps
<1>9. ASSUME NEW c \in held, NEW a \in Action, ActionPending(c, a) PROVE PublisherInv'
  <2>1. /\ Active /\ todo' = AskingSteps(c, a)
        /\ sequence + Len(todo') <= MaxSequence
        /\ UNCHANGED <<id, named, sequence, emitter, seq, blockers, held, host>>
    BY <1>9 DEF ActionPending, Begins
  <2>2. [blockers EXCEPT ![a] = c.cycle] \in BlockerMap
    BY <1>1, OneMoreBlocker DEF HeldCycle
  <2>3. todo' \in Seq(StepOf)
    BY <1>1, <1>2, <1>3, <2>1, <2>2, AskTyped, TransitionTyped, FewSteps DEF AskingSteps
  <2> QED  BY <1>1, <2>1, <2>3, BegunKeeps
<1>10. ASSUME NEW c \in held, NEW a \in Action, NEW state \in {"accepted", "declined"},
              ActionResolved(c, a, state)
       PROVE  PublisherInv'
  <2>1. /\ Active /\ blockers' = [blockers EXCEPT ![a] = None]
        /\ todo' = AnsweringSteps(c, a, state, blockers')
        /\ sequence + Len(todo') <= MaxSequence
        /\ UNCHANGED <<id, named, sequence, emitter, seq, held, host>>
    BY <1>10 DEF ActionResolved, Begins
  <2>2. blockers' \in BlockerMap
    <3>1. blockers' \in [Action -> Cycle \cup {None}]
          /\ \A x \in Action : blockers'[x] # None => blockers[x] # None
      BY <1>1, <2>1 DEF BlockerMap
    <3> QED  BY <1>1, <3>1, FewerBlockers
  <2>3. ResolvedOf(a, state) \in Event
    BY AnswerTyped DEF TerminalActionState
  <2>4. todo' \in Seq(StepOf)
    BY <1>1, <1>2, <1>3, <2>1, <2>2, <2>3, TransitionTyped, FewSteps DEF AnsweringSteps
  <2> QED  BY <1>1, <2>1, <2>2, <2>4, BegunKeeps
<1>11. ASSUME NEW c \in held, NEW stop \in {"stated", None}, NEW outcome \in {"success", "failed"},
              Idle(c, stop, outcome)
       PROVE  PublisherInv'
  <2> DEFINE open == BlockedBy(blockers, c.cycle)
             order == CHOOSE s \in [1 .. Cardinality(open) -> open] :
                         \A i, j \in DOMAIN s : s[i] = s[j] => i = j
  <2>1. /\ Active /\ todo' = EndingSteps(order, c, stop, outcome)
        /\ sequence + Len(todo') <= MaxSequence
        /\ UNCHANGED <<id, named, sequence, emitter, seq, blockers, held, host>>
    BY <1>11 DEF Idle, Begins
  <2>2. Cardinality(open) \in Nat /\ order \in [1 .. Cardinality(open) -> open]
    BY <1>1, CancellationOrder DEF HeldCycle
  <2>3. open \subseteq Action
    BY DEF BlockedBy
  <2> HIDE DEF order, open
  <2>4. order \in [1 .. Cardinality(open) -> Action]
    BY <2>2, <2>3
  <2>5. todo' \in Seq(StepOf)
    BY <1>1, <2>1, <2>2, <2>4, EndingStepsTyped
  <2> QED  BY <1>1, <2>1, <2>5, BegunKeeps
<1>12. ASSUME Fence PROVE PublisherInv'
  <2>1. /\ todo = <<>> /\ emitter' = Close(emitter)
        /\ UNCHANGED <<id, named, sequence, seq, blockers, todo, held, host>>
    BY <1>12 DEF Fence, Unlocked
  <2>2. emitter' \in ReducerState /\ emitter'.closed = TRUE
    BY <1>1, <2>1, CloseType DEF TypeOK
  <2>3. TypedInv' /\ HostInv'
    BY <1>1, <2>1, <2>2 DEF TypedInv, TypeOK, HostInv
  <2>4. EmissionInv'
    BY <1>1, <2>1, <2>2 DEF EmissionInv, Active
  <2> QED  BY <2>3, <2>4 DEF PublisherInv
<1> QED  BY <1>5, <1>6, <1>7, <1>8, <1>9, <1>10, <1>11, <1>12 DEF Call

-----------------------------------------------------------------------------
(* Theorems *)

(* The invariant holds of every behaviour. *)
LEMMA PublisherInvariant == Spec => []PublisherInv
<1>1. PublisherInv /\ [Next]_vars => PublisherInv'
  <2> SUFFICES ASSUME PublisherInv, [Next]_vars PROVE PublisherInv'
    OBVIOUS
  <2>1. CASE UNCHANGED vars
    BY <2>1 DEF vars, PublisherInv, TypedInv, TypeOK, HostInv, EmissionInv, ActiveInv, Active
  <2> QED  BY <2>1, EmitKeeps, CallKeeps DEF Next
<1> QED  BY <1>1, InitPublisher, PTL DEF Spec

(* The publisher's record, its validating reducer and the host's reducer   *)
(* are well typed, and so is every event it emits (Publisher, emit).       *)
THEOREM PublisherTypes == Spec => []TypeOK
<1>1. PublisherInv => TypeOK
  BY DEF PublisherInv, TypedInv
<1> QED  BY <1>1, PublisherInvariant, PTL

(* Whatever callers do and whichever deliveries fail, the host refuses     *)
(* nothing, agrees with the emitter while the stream is active, and misses *)
(* at most the last envelope of a stream that ended (emit).                *)
THEOREM HostFollows == Spec => []HostFollowsEmitter
<1>1. PublisherInv => HostFollowsEmitter
  <2> SUFFICES ASSUME PublisherInv PROVE HostFollowsEmitter
    OBVIOUS
  <2>1. emitter \in ReducerState /\ host \in ReducerState
    BY DEF PublisherInv, TypedInv, TypeOK
  <2>2. Active /\ emitter.started => host = [emitter EXCEPT !.retired = host.retired]
    BY <2>1, AlikeIsEqual DEF PublisherInv, EmissionInv, ActiveInv
  <2> QED  BY <2>2 DEF HostFollowsEmitter, PublisherInv, HostInv, EmissionInv
<1> QED  BY <1>1, PublisherInvariant, PTL

-----------------------------------------------------------------------------
(* The turns an event introduces *)

Introduces(e) ==
  IF e.type = "lifecycle_snapshot" THEN SnapshotTurns(e)
  ELSE IF \/ e.type = "prompt_accepted"
          \/ e.type = "state_update" /\ e.cause = "activity" /\ e.state = "running"
       THEN {e.turn}
  ELSE {}

(* Only a prompt's acceptance and the first report of an activity's turn   *)
(* introduce a turn (openTurn).                                            *)
LEMMA TurnsIntroduced ==
  ASSUME NEW r \in ReducerState, NEW e \in Event, e.type # "lifecycle_snapshot"
  PROVE  Apply(r, e).turnSeen \subseteq r.turnSeen \cup Introduces(e)
<1>1. \A x \in ReducerState : \A k : Fail(x, k).turnSeen = x.turnSeen
  BY DEF Fail, ReducerState
<1>2. \A x \in ReducerState : \A t, c : OpenTurn(x, t, c).turnSeen = x.turnSeen \cup {t}
  BY DEF OpenTurn, ReducerState
<1>3. CASE e.type = "prompt_accepted"
  BY <1>1, <1>2, <1>3 DEF Apply, ApplyPromptAccepted, Unless, Introduces
<1>4. CASE e.type = "state_update"
  <2> DEFINE q == SettleBlockedCycle(r, e)
  <2>1. e \in TransitionEvent
    BY <1>4 DEF TransitionEvent
  <2>2. q \in ReducerState /\ q.turnSeen = r.turnSeen
    BY DEF SettleBlockedCycle, ReducerState
  <2> HIDE DEF q
  <2>3. ApplyIdle(q, e).turnSeen = r.turnSeen
    <3>1. EndTurn(q, e).turnSeen = r.turnSeen
      BY <2>2 DEF EndTurn, ReducerState
    <3>2. [q EXCEPT !.foreground = IdleForeground(e)].turnSeen = r.turnSeen
      BY <2>2 DEF ReducerState
    <3> QED  BY <1>1, <2>2, <3>1, <3>2 DEF ApplyIdle, Unless
  <2>4. e.turn \in Turn => ApplyLive(q, e).turnSeen \subseteq r.turnSeen \cup Introduces(e)
    <3> SUFFICES ASSUME e.turn \in Turn
                 PROVE  ApplyLive(q, e).turnSeen \subseteq r.turnSeen \cup Introduces(e)
      OBVIOUS
    <3> DEFINE o == OpenTurn(q, e.turn, "activity")
    <3>1. o \in ReducerState /\ o.turnSeen = r.turnSeen \cup {e.turn}
      <4>1. "activity" \in Cause
        BY DEF Cause
      <4>2. o \in ReducerState
        BY <2>2, <4>1, OpenTurnType
      <4>3. o.turnSeen = q.turnSeen \cup {e.turn}
        BY <1>2, <2>2
      <4> QED  BY <2>2, <4>2, <4>3
    <3>2. \A x \in ReducerState : ReportLive(x, e).turnSeen = x.turnSeen
      BY DEF ReportLive, ReducerState
    <3>3. q.turns[e.turn] = None /\ LiveDefect(q, e) = None
            => e.cause = "activity" /\ e.state = "running"
      BY NoneIsAnIdentityOfNothing DEF LiveDefect, ViolationKind
    <3> HIDE DEF o
    <3>4. CASE LiveDefect(q, e) # None
      BY <1>1, <2>2, <3>4 DEF ApplyLive, Unless
    <3>5. CASE LiveDefect(q, e) = None /\ q.turns[e.turn] = None
      <4>1. ApplyLive(q, e) = ReportLive(o, e)
        BY <3>5 DEF ApplyLive, Unless, o
      <4> QED  BY <1>4, <3>1, <3>2, <3>3, <3>5, <4>1 DEF Introduces
    <3>6. CASE LiveDefect(q, e) = None /\ q.turns[e.turn] # None
      BY <2>2, <3>2, <3>6 DEF ApplyLive, Unless
    <3> QED  BY <3>4, <3>5, <3>6
  <2>5. e.state # "idle" /\ NamelessTurnDefect(e) = None => e.turn \in Turn
    BY <2>1, TransitionParts, NoneIsAnIdentityOfNothing DEF NamelessTurnDefect, ViolationKind
  <2> QED  BY <1>1, <1>4, <2>3, <2>4, <2>5 DEF Apply, ApplyStateUpdate, q
<1>5. CASE e.type = "activity_update"
  <2>1. \A u, us : /\ PatchActivity(r, u).turnSeen = r.turnSeen
                   /\ RecordActivities(r, us).turnSeen = r.turnSeen
    BY DEF PatchActivity, RecordActivities, ReducerState
  <2> QED  BY <1>1, <1>5, <2>1 DEF Apply, ApplyActivityUpdate, Unless
<1>6. CASE e.type = "action_update"
  <2>1. \A u, us : /\ PatchAction(r, u).turnSeen = r.turnSeen
                   /\ RecordActions(r, us).turnSeen = r.turnSeen
    BY DEF PatchAction, RecordActions, ReducerState
  <2> QED  BY <1>1, <1>6, <2>1 DEF Apply, ApplyActionUpdate, Unless
<1>7. e.type \in {"prompt_accepted", "state_update", "activity_update", "action_update"}
  BY DEF Event
<1> QED  BY <1>3, <1>4, <1>5, <1>6, <1>7

(* An opening stream knows the turns its snapshot names (projectForeground, *)
(* recordActivity).                                                        *)
LEMMA OpeningIntroduces ==
  ASSUME NEW r \in ReducerState, NEW d \in Delivery
  PROVE  ReduceFirst(r, d).turnSeen \subseteq r.turnSeen \cup Introduces(d.event)
<1> DEFINE renamed(x) == [x EXCEPT !.stream = d.stream]
           based == [renamed(r) EXCEPT !.base = d.sequence]
           shown == ApplySnapshot(based, d.event)
           begun == [shown EXCEPT !.started = TRUE]
           opened == Commit(begun, d)
<1>1. d.sequence \in 0 .. MaxSequence /\ d.stream \in Stream /\ d.event \in Event
  BY BoundAssumption DEF Delivery, Sequence
<1>2. /\ renamed(r) \in ReducerState /\ renamed(r).turnSeen = r.turnSeen
      /\ based \in ReducerState /\ based.turnSeen = r.turnSeen
  BY <1>1 DEF ReducerState
<1>3. \A x \in ReducerState : \A k : Fail(x, k).turnSeen = x.turnSeen
  BY DEF Fail, ReducerState
<1>4. CASE d.event.type # "lifecycle_snapshot"
  <2>1. ReduceFirst(r, d) = Fail(renamed(r), "delta_before_snapshot")
    BY <1>4 DEF ReduceFirst
  <2> QED  BY <1>2, <1>3, <2>1
<1>5. CASE d.event.type = "lifecycle_snapshot"
  <2> DEFINE e == d.event
             p == ProjectForeground(based, e)
             q == RecordActivities(p, Listed(e.activities))
  <2>1. e \in SnapshotEvent
    BY <1>1, <1>5 DEF SnapshotEvent
  <2>2. shown \in ReducerState
    BY <1>2, <2>1, ApplySnapshotType
  <2>3. shown.turnSeen \subseteq r.turnSeen \cup SnapshotTurns(e)
    <3>1. CASE SnapshotDefect(e) # None
      BY <1>2, <1>3, <3>1 DEF ApplySnapshot, Unless
    <3>2. CASE SnapshotDefect(e) = None
      <4>1. p \in ReducerState /\ q \in ReducerState
        BY <1>2, <2>1, <3>2, SnapshotListsAreFirstSights, ProjectForegroundType,
           RecordActivitiesType
      <4>2. p.turnSeen = r.turnSeen \cup SnapshotTurns(e)
        BY <1>2, SMTT(30) DEF ProjectForeground, ReducerState
      <4>3. q.turnSeen = p.turnSeen
        BY <4>1 DEF RecordActivities, ReducerState
      <4>4. RecordActions(q, Listed(e.actions)).turnSeen = q.turnSeen
        BY <4>1 DEF RecordActions, ReducerState
      <4>5. shown = RecordActions(q, Listed(e.actions))
        BY <3>2 DEF ApplySnapshot, Unless, ProjectSnapshot
      <4> QED  BY <4>2, <4>3, <4>4, <4>5
    <3> QED  BY <3>1, <3>2
  <2> HIDE DEF shown
  <2>4. begun \in ReducerState /\ begun.turnSeen = shown.turnSeen
    BY <2>2 DEF ReducerState
  <2> HIDE DEF begun
  <2>5. opened \in ReducerState /\ opened.turnSeen = begun.turnSeen
    <3>1. opened \in ReducerState
      BY <1>1, <2>4, CommitType
    <3>2. opened.turnSeen = begun.turnSeen
      BY <2>4 DEF Commit, ReducerState
    <3> QED  BY <3>1, <3>2
  <2> HIDE DEF opened
  <2>6. [opened EXCEPT !.started = FALSE].turnSeen = opened.turnSeen
    BY <2>5 DEF ReducerState
  <2>7. ReduceFirst(r, d) = IF opened.failed # None THEN [opened EXCEPT !.started = FALSE]
                                                    ELSE opened
    BY <1>5 DEF ReduceFirst, opened, begun, shown
  <2> QED  BY <1>5, <2>3, <2>4, <2>5, <2>6, <2>7 DEF Introduces
<1> QED  BY <1>4, <1>5

(* An action is asked for a turn the stream knows: its first sight checks  *)
(* the owner, a repeated ask must state the owner recorded.                *)
LEMMA AskedTurnKnown ==
  ASSUME NEW r \in ReducerState, OwnerKnown(r), NEW e \in Event, e.type = "action_update",
         NEW t \in Turn, e.action.owner = [type |-> "turn", id |-> t], Apply(r, e).failed = None
  PROVE  t \in r.turnSeen
<1> DEFINE u == e.action
<1>1. u.id \in Action /\ u.owner # None
  <2>1. u \in ActionUpdate
    BY DEF Event
  <2>2. [type |-> "turn", id |-> t] \in Owner
    BY DEF Owner
  <2>3. None \notin Owner
    BY NoneIsAnIdentityOfNothing
  <2> QED  BY <2>1, <2>2, <2>3 DEF ActionUpdate
<1>2. Apply(r, e) = ApplyActionUpdate(r, u)
  BY DEF Apply
<1>3. \A k : Fail(r, k).failed = k
  BY DEF Fail, ReducerState
<1>4. u.owner.type = "turn" /\ u.owner.id = t
  OBVIOUS
<1>5. CASE r.actions[u.id] # None
  <2>1. ActionPatchDefect(r, u) = None
    BY <1>2, <1>3, <1>5 DEF ApplyActionUpdate, Unless
  <2>2. u.owner = r.actions[u.id].owner
    BY <1>1, <2>1, NoneIsAnIdentityOfNothing
       DEF ActionPatchDefect, ImmutableActionConflict, ViolationKind
  <2> QED  BY <1>1, <1>4, <1>5, <2>2 DEF OwnerKnown, TurnKnown
<1>6. CASE r.actions[u.id] = None
  <2>1. ActionFirstSightDefect(r, u) = None
    BY <1>2, <1>3, <1>6 DEF ApplyActionUpdate, Unless
  <2> QED  BY <1>1, <1>4, <2>1, NoneIsAnIdentityOfNothing
           DEF ActionFirstSightDefect, ViolationKind, TurnKnown
<1> QED  BY <1>5, <1>6

-----------------------------------------------------------------------------
(* Which incarnation a cycle belongs to *)

(* An agent cycle belongs to the incarnation s it was allocated in; a      *)
(* submission's is opened as it is minted.                                 *)
Here(c, s) == c.origin = "activity" => c.incarnation = s

(* Every turn of the set is one of the cycles cs that belong to s. *)
TurnsHere(turns, cs, s) == \A t \in turns : \E c \in cs : c.turn = t /\ Here(c, s)

(* Every cycle a map names is one of those. *)
MapHere(m, cs, s) ==
  \A a \in Action : m[a] # None => \E c \in cs : c.cycle = m[a] /\ Here(c, s)

(* An event that asks for an action on behalf of the cycle. *)
Asks(e, c) ==
  /\ e.type = "action_update"
  /\ e.action.owner = [type |-> "turn", id |-> c.turn]

(* A cycle that a step will leave blocked belongs here, or the method asks *)
(* on its behalf first; that is refused unless its turn is known.          *)
AskedHere(steps, i, cs, s) ==
  \A a \in Action :
    steps[i].blockers[a] # None =>
      \E c \in cs : /\ c.cycle = steps[i].blockers[a]
                    /\ Here(c, s) \/ \E j \in 1 .. i : Asks(steps[j].event, c)

StepsHere(steps, cs, s) ==
  \A i \in 1 .. Len(steps) :
    TurnsHere(Introduces(steps[i].event), cs, s) /\ AskedHere(steps, i, cs, s)

(* Ids are minted once. *)
MintedOnce(cs, n) ==
  /\ \A c, d \in cs : c.turn = d.turn \/ c.cycle = d.cycle => c = d
  /\ \A c \in cs : c.turn <= n /\ c.cycle <= n

CyclesInv ==
  /\ Sound(emitter)
  /\ MintedOnce(held, seq)
  /\ TurnsHere(host.turnSeen, held, host.stream)
  /\ MapHere(blockers, held, id)
  /\ StepsHere(todo, held, id)

(* Nothing was minted yet (NewPublisher). *)
LEMMA InitCycles == Init => CyclesInv
<1> SUFFICES ASSUME Init PROVE CyclesInv
  OBVIOUS
<1>1. Fresh(None, {}) \in ReducerState
  BY FreshType
<1>2. Sound(emitter)
  <2>1. Blank(emitter) /\ ~emitter.started /\ emitter \in ReducerState
    BY <1>1 DEF Init, Fresh, Blank
  <2> QED  BY <2>1, BlankSound
<1>3. MintedOnce(held, seq) /\ TurnsHere(host.turnSeen, held, host.stream)
  BY DEF Init, MintedOnce, TurnsHere, Fresh
<1>4. MapHere(blockers, held, id) /\ StepsHere(todo, held, id)
  BY DEF Init, NoBlockers, MapHere, StepsHere
<1> QED  BY <1>2, <1>3, <1>4 DEF CyclesInv

(* What the emitter knows of an active stream belongs to it. *)
LEMMA EmitterTurnsHere ==
  ASSUME PublisherInv, CyclesInv, Active
  PROVE  TurnsHere(emitter.turnSeen, held, id)
<1>1. ActiveInv
  BY DEF PublisherInv, EmissionInv
<1>2. CASE emitter.started
  <2>1. host.turnSeen = emitter.turnSeen /\ host.stream = id
    BY <1>1, <1>2 DEF ActiveInv, Alike
  <2> QED  BY <2>1 DEF CyclesInv
<1>3. CASE ~emitter.started
  <2>1. emitter.turnSeen = {}
    BY <1>1, <1>3 DEF ActiveInv, Fresh
  <2> QED  BY <2>1 DEF TurnsHere
<1> QED  BY <1>2, <1>3

(* An accepted event introduces no turn but its own. *)
LEMMA JudgedTurns ==
  ASSUME PublisherInv, todo # <<>>, Judged.failed = None
  PROVE  Judged.turnSeen \subseteq emitter.turnSeen \cup Introduces(Head(todo).event)
<1>1. /\ NextDelivery \in Delivery /\ NextDelivery.stream = id
      /\ NextDelivery.sequence = sequence + 1 /\ ActiveInv
  BY DeliveryTyped
<1>2. NextDelivery.event = Head(todo).event
  BY DEF NextDelivery
<1>3. emitter \in ReducerState /\ emitter.failed = None
  BY <1>1 DEF PublisherInv, TypedInv, TypeOK, ActiveInv
<1>4. CASE emitter.started
  <2>1. /\ NextDelivery.stream = emitter.stream
        /\ NextDelivery.sequence = emitter.reducedThrough + 1
    BY <1>1, <1>4 DEF ActiveInv
  <2>2. /\ Judged = Commit(Apply(emitter, NextDelivery.event), NextDelivery)
        /\ NextDelivery.event \in Event /\ NextDelivery.event.type # "lifecycle_snapshot"
    BY <1>1, <1>3, <1>4, <2>1, ReduceNext DEF Judged
  <2>3. Apply(emitter, NextDelivery.event) \in ReducerState
    BY <1>3, <2>2, ApplyType
  <2>4. Judged.turnSeen = Apply(emitter, NextDelivery.event).turnSeen
    BY <2>2, <2>3 DEF Commit, ReducerState
  <2> QED  BY <1>2, <1>3, <2>2, <2>4, TurnsIntroduced
<1>5. CASE ~emitter.started
  <2>1. emitter.closed = FALSE
    BY <1>1, <1>5 DEF ActiveInv, Fresh
  <2>2. Judged = ReduceFirst(emitter, NextDelivery)
    <3>1. NextDelivery.carrier = "session_info_update"
      BY DEF NextDelivery
    <3> QED  BY <1>3, <1>5, <2>1, <3>1 DEF Judged, Reduce
  <2> QED  BY <1>1, <1>2, <1>3, <2>2, OpeningIntroduces
<1> QED  BY <1>4, <1>5

(* A cycle on whose behalf an ask was accepted belongs here. *)
LEMMA AskedIsHere ==
  ASSUME PublisherInv, CyclesInv, todo # <<>>, Judged.failed = None,
         NEW c \in held, Asks(Head(todo).event, c)
  PROVE  Here(c, id)
<1>1. /\ NextDelivery \in Delivery /\ NextDelivery.stream = id
      /\ NextDelivery.sequence = sequence + 1 /\ Active /\ ActiveInv
  BY DeliveryTyped
<1>2. NextDelivery.event = Head(todo).event
  BY DEF NextDelivery
<1>3. emitter \in ReducerState /\ emitter.failed = None /\ OwnerKnown(emitter)
      /\ c.turn \in Turn
  BY <1>1 DEF PublisherInv, TypedInv, TypeOK, ActiveInv, CyclesInv, Sound, Coherent, HeldCycle
<1>4. emitter.started
  <2>1. SUFFICES ASSUME ~emitter.started PROVE FALSE
    OBVIOUS
  <2>2. emitter.closed = FALSE /\ NextDelivery.carrier = "session_info_update"
    BY <1>1, <2>1 DEF ActiveInv, Fresh, NextDelivery
  <2>3. Judged = ReduceFirst(emitter, NextDelivery)
    BY <1>3, <2>1, <2>2 DEF Judged, Reduce
  <2>4. NextDelivery.stream \in Stream
    BY <1>1 DEF Delivery
  <2>5. [emitter EXCEPT !.stream = NextDelivery.stream] \in ReducerState
    BY <1>3, <2>4 DEF ReducerState
  <2>6. Judged.failed = "delta_before_snapshot"
    BY <1>2, <2>3, <2>5 DEF ReduceFirst, Asks, Fail, ReducerState
  <2> QED  BY <2>6, NoneIsAnIdentityOfNothing DEF ViolationKind
<1>5. /\ NextDelivery.stream = emitter.stream
      /\ NextDelivery.sequence = emitter.reducedThrough + 1
  BY <1>1, <1>4 DEF ActiveInv
<1>6. /\ Judged = Commit(Apply(emitter, NextDelivery.event), NextDelivery)
      /\ NextDelivery.event \in Event /\ NextDelivery.event.type # "lifecycle_snapshot"
  BY <1>1, <1>3, <1>4, <1>5, ReduceNext DEF Judged
<1>7. Apply(emitter, NextDelivery.event).failed = None
  <2>1. Apply(emitter, NextDelivery.event) \in ReducerState
    BY <1>3, <1>6, ApplyType
  <2> QED  BY <1>6, <2>1 DEF Commit, ReducerState
<1>8. c.turn \in emitter.turnSeen
  BY <1>2, <1>3, <1>6, <1>7, AskedTurnKnown DEF Asks
<1>9. PICK d \in held : d.turn = c.turn /\ Here(d, id)
  BY <1>1, <1>8, EmitterTurnsHere DEF TurnsHere
<1> QED  BY <1>9 DEF CyclesInv, MintedOnce

(* A fence leaves the projection alone (fence). *)
LEMMA CloseSound ==
  ASSUME NEW r \in ReducerState, Sound(r)
  PROVE  Sound(Close(r))
<1> DEFINE q == Close(r)
<1>1. /\ q.foreground = r.foreground /\ q.turns = r.turns /\ q.turnSeen = r.turnSeen
      /\ q.activities = r.activities /\ q.actions = r.actions
      /\ q.actionCycle = r.actionCycle /\ q.blockedCycle = r.blockedCycle
      /\ q.started = r.started /\ q.failed = r.failed
  BY DEF Close, ReducerState
<1> HIDE DEF q
<1>2. Sound(q)
  BY <1>1, SameProjectionSound
<1> QED  BY <1>2 DEF q

(* The steps after the first: what the first asked for was accepted. *)
LEMMA RestHere ==
  ASSUME PublisherInv, CyclesInv, todo # <<>>, Judged.failed = None
  PROVE  StepsHere(Tail(todo), held, id) /\ MapHere(Head(todo).blockers, held, id)
<1>1. todo \in Seq(StepOf)
  BY DEF PublisherInv, TypedInv
<1>2. /\ Len(todo) \in Nat /\ Len(todo) >= 1 /\ Head(todo) = todo[1]
      /\ Len(Tail(todo)) = Len(todo) - 1
      /\ \A i \in 1 .. Len(Tail(todo)) : Tail(todo)[i] = todo[i + 1]
  BY <1>1
<1>3. \A i \in 1 .. Len(todo) : TurnsHere(Introduces(todo[i].event), held, id) /\ AskedHere(todo, i, held, id)
  BY DEF CyclesInv, StepsHere
<1>4. \A c \in held : Asks(todo[1].event, c) => Here(c, id)
  BY <1>2, AskedIsHere
<1>5. MapHere(Head(todo).blockers, held, id)
  <2>1. AskedHere(todo, 1, held, id)
    BY <1>2, <1>3
  <2>2. \A j \in 1 .. 1 : j = 1
    OBVIOUS
  <2> QED  BY <1>2, <1>4, <2>1, <2>2 DEF AskedHere, MapHere
<1>6. ASSUME NEW i \in 1 .. Len(Tail(todo))
      PROVE  AskedHere(Tail(todo), i, held, id)
  <2>1. i + 1 \in 1 .. Len(todo) /\ Tail(todo)[i] = todo[i + 1]
    BY <1>2
  <2>2. AskedHere(todo, i + 1, held, id)
    BY <1>3, <2>1
  <2>3. SUFFICES ASSUME NEW a \in Action, todo[i + 1].blockers[a] # None
                 PROVE  \E c \in held :
                          /\ c.cycle = todo[i + 1].blockers[a]
                          /\ Here(c, id) \/ \E j \in 1 .. i : Asks(Tail(todo)[j].event, c)
    BY <2>1 DEF AskedHere
  <2>4. PICK c \in held :
          /\ c.cycle = todo[i + 1].blockers[a]
          /\ Here(c, id) \/ \E j \in 1 .. i + 1 : Asks(todo[j].event, c)
    BY <2>2, <2>3 DEF AskedHere
  <2>5. CASE Here(c, id)
    BY <2>4, <2>5
  <2>6. ASSUME NEW j \in 1 .. i + 1, Asks(todo[j].event, c)
        PROVE  Here(c, id) \/ \E k \in 1 .. i : Asks(Tail(todo)[k].event, c)
    <3>1. CASE j = 1
      BY <1>4, <2>6, <3>1
    <3>2. CASE j # 1
      <4>1. j - 1 \in 1 .. i /\ j - 1 \in 1 .. Len(Tail(todo)) /\ (j - 1) + 1 = j
        BY <1>2, <3>2
      <4>2. Tail(todo)[j - 1] = todo[j]
        BY <1>2, <4>1
      <4> QED  BY <2>6, <4>1, <4>2
    <3> QED  BY <3>1, <3>2
  <2> QED  BY <2>4, <2>5, <2>6
<1>7. ASSUME NEW i \in 1 .. Len(Tail(todo))
      PROVE  TurnsHere(Introduces(Tail(todo)[i].event), held, id)
  <2>1. i + 1 \in 1 .. Len(todo) /\ Tail(todo)[i] = todo[i + 1]
    BY <1>2
  <2> QED  BY <1>3, <2>1
<1> QED  BY <1>5, <1>6, <1>7 DEF StepsHere

(* emit keeps the cycles apart: the host learns of turns of this incarnation only. *)
LEMMA EmitKeepsCycles ==
  ASSUME PublisherInv, CyclesInv, Emit
  PROVE  CyclesInv'
<1> DEFINE reached == Reduce(host, NextDelivery)
<1>1. todo # <<>>
  BY DEF Emit, EmitRefused, EmitDelivered, EmitUndelivered
<1>2. /\ Sound(emitter) /\ MintedOnce(held, seq)
      /\ TurnsHere(host.turnSeen, held, host.stream)
      /\ MapHere(blockers, held, id)
  BY DEF CyclesInv
<1>3. /\ NextDelivery \in Delivery /\ Judged \in ReducerState /\ Active /\ ActiveInv
      /\ emitter \in ReducerState /\ id \in Stream /\ None \notin Stream
      /\ todo \in Seq(StepOf) /\ Len(todo) \in Nat /\ Len(todo) >= 1
  BY <1>1, DeliveryTyped, NoneIsAnIdentityOfNothing DEF PublisherInv, TypedInv, TypeOK
<1>4. Sound(Judged) /\ Sound(Close(Judged))
  <2>1. emitter.started => emitter.stream # None
    BY <1>3 DEF ActiveInv
  <2>2. Sound(Judged)
    BY <1>2, <1>3, <2>1, ReduceSound DEF Judged
  <2> QED  BY <1>3, <2>2, CloseSound
<1>5. Judged.failed = None => TurnsHere(reached.turnSeen, held, reached.stream)
  <2> SUFFICES ASSUME Judged.failed = None
               PROVE  TurnsHere(reached.turnSeen, held, reached.stream)
    OBVIOUS
  <2>1. reached.stream = id /\ reached.turnSeen = Judged.turnSeen
    BY <1>1, Accepted DEF Alike
  <2>2. Judged.turnSeen \subseteq emitter.turnSeen \cup Introduces(Head(todo).event)
    BY <1>1, JudgedTurns
  <2>3. TurnsHere(emitter.turnSeen, held, id)
    BY <1>3, EmitterTurnsHere
  <2>4. TurnsHere(Introduces(Head(todo).event), held, id)
    <3>1. Head(todo) = todo[1] /\ 1 \in 1 .. Len(todo)
      BY <1>3
    <3> QED  BY <3>1 DEF CyclesInv, StepsHere
  <2> QED  BY <2>1, <2>2, <2>3, <2>4 DEF TurnsHere
<1>6. StepsHere(<<>>, held, id)
  BY DEF StepsHere
<1> HIDE DEF reached
<1>7. CASE EmitRefused
  BY <1>2, <1>4, <1>6, <1>7 DEF EmitRefused, CyclesInv
<1>8. CASE EmitDelivered
  <2>1. StepsHere(Tail(todo), held, id) /\ MapHere(Head(todo).blockers, held, id)
    BY <1>1, <1>8, RestHere DEF EmitDelivered
  <2> QED  BY <1>2, <1>4, <1>5, <1>8, <2>1 DEF EmitDelivered, CyclesInv, reached
<1>9. CASE EmitUndelivered
  BY <1>2, <1>4, <1>5, <1>6, <1>9 DEF EmitUndelivered, CyclesInv, reached
<1> QED  BY <1>7, <1>8, <1>9 DEF Emit

(* A step that introduces turns of this incarnation and leaves blocked     *)
(* cycles of it.                                                           *)
StepHere(step, cs, s) ==
  TurnsHere(Introduces(step.event), cs, s) /\ MapHere(step.blockers, cs, s)

(* A method that emits one such event emits steps of this incarnation, *)
LEMMA OneStepHere ==
  ASSUME NEW s, NEW cs, NEW x, StepHere(x, cs, s)
  PROVE  StepsHere(<<x>>, cs, s)
BY DEF StepHere, StepsHere, MapHere, AskedHere

(* and so does one that emits two. *)
LEMMA TwoStepsHere ==
  ASSUME NEW s, NEW cs, NEW x, NEW y, StepHere(x, cs, s), StepHere(y, cs, s)
  PROVE  StepsHere(<<x, y>>, cs, s)
<1>1. Len(<<x, y>>) = 2 /\ <<x, y>>[1] = x /\ <<x, y>>[2] = y
  OBVIOUS
<1>2. ASSUME NEW i \in 1 .. 2
      PROVE  <<x, y>>[i] = x \/ <<x, y>>[i] = y
  BY <1>1
<1>3. ASSUME NEW i \in 1 .. 2
      PROVE  StepHere(<<x, y>>[i], cs, s)
  BY <1>2
<1> HIDE DEF StepHere
<1>4. ASSUME NEW i \in 1 .. 2
      PROVE  TurnsHere(Introduces(<<x, y>>[i].event), cs, s) /\ AskedHere(<<x, y>>, i, cs, s)
  BY <1>3 DEF StepHere, MapHere, AskedHere
<1> QED  BY <1>1, <1>4 DEF StepsHere

(* New cycles leave the old ones where they are. *)
LEMMA MoreHeld ==
  ASSUME NEW cs, NEW more, cs \subseteq more, NEW s, NEW m, NEW turns
  PROVE  /\ MapHere(m, cs, s) => MapHere(m, more, s)
         /\ TurnsHere(turns, cs, s) => TurnsHere(turns, more, s)
BY DEF MapHere, TurnsHere

(* Ids that are minted are new. *)
LEMMA MintNext ==
  ASSUME NEW cs, cs \subseteq HeldCycle, NEW n \in Nat, MintedOnce(cs, n), NEW c,
         c.turn = n + 1, c.cycle = n + 2
  PROVE  MintedOnce(cs \cup {c}, n + 2)
<1>1. \A d \in cs : d.turn \in Int /\ d.cycle \in Int
  BY PublisherAssumption DEF HeldCycle
<1>2. \A d \in cs : d.turn <= n /\ d.cycle <= n
  BY DEF MintedOnce
<1>3. \A d \in cs : d.turn # c.turn /\ d.cycle # c.cycle /\ d.turn <= n + 2 /\ d.cycle <= n + 2
  BY <1>1, <1>2
<1> QED  BY <1>3 DEF MintedOnce

(* What ends a cycle introduces no turn and unblocks only. *)
LEMMA EndingStepsHere ==
  ASSUME NEW cs, NEW s, MapHere(blockers, cs, s), NEW order \in Seq(Action),
         NEW c, NEW stop, NEW outcome
  PROVE  StepsHere(EndingSteps(order, c, stop, outcome), cs, s)
<1> DEFINE left(i) == [a \in Action |->
                         IF \E j \in 1 .. i : order[j] = a THEN None ELSE blockers[a]]
           n == Len(order)
           stated == IF outcome = "failed" THEN None ELSE stop
           cancelled == [i \in 1 .. n |-> Step(ResolvedOf(order[i], "cancelled"), left(i))]
           idle == Step(IdleOf(c, stated, outcome), left(n))
           steps == cancelled \o <<idle>>
<1>1. \A i : MapHere(left(i), cs, s)
  BY DEF MapHere
<1>2. \A e, m : Step(e, m).event = e /\ Step(e, m).blockers = m
  BY DEF Step
<1>3. \A a : Introduces(ResolvedOf(a, "cancelled")) = {}
  BY DEF Introduces, ResolvedOf
<1>4. Introduces(IdleOf(c, stated, outcome)) = {}
  BY DEF Introduces, IdleOf, TransitionOf
<1> HIDE DEF left, stated
<1>5. n \in Nat /\ EndingSteps(order, c, stop, outcome) = steps
  BY DEF EndingSteps, left, stated
<1>6. StepHere(idle, cs, s)
  BY <1>1, <1>2, <1>4 DEF StepHere, TurnsHere
<1>7. \A i \in 1 .. n : StepHere(Step(ResolvedOf(order[i], "cancelled"), left(i)), cs, s)
  BY <1>1, <1>2, <1>3 DEF StepHere, TurnsHere
<1>8. Len(steps) = n + 1 /\ \A i \in 1 .. n + 1 : steps[i] = IF i <= n THEN cancelled[i] ELSE idle
  <2> DEFINE S == {cancelled[i] : i \in 1 .. n} \cup {idle}
  <2>1. cancelled \in Seq(S) /\ Len(cancelled) = n
    <3>1. cancelled \in [1 .. n -> S]
      OBVIOUS
    <3> HIDE DEF cancelled
    <3> QED  BY <1>5, <3>1
  <2>2. <<idle>> \in Seq(S) /\ Len(<<idle>>) = 1 /\ <<idle>>[1] = idle
    OBVIOUS
  <2> HIDE DEF cancelled, idle, S
  <2>3. /\ Len(steps) = Len(cancelled) + Len(<<idle>>)
        /\ \A i \in 1 .. Len(cancelled) + Len(<<idle>>) :
             steps[i] = IF i <= Len(cancelled) THEN cancelled[i] ELSE <<idle>>[i - Len(cancelled)]
    BY <2>1, <2>2, ConcatProperties
  <2> QED  BY <1>5, <2>1, <2>2, <2>3
<1>9. ASSUME NEW i \in 1 .. n + 1 PROVE StepHere(steps[i], cs, s)
  <2>1. CASE i <= n
    <3>1. i \in 1 .. n
      BY <1>5, <2>1
    <3> QED  BY <1>7, <1>8, <2>1, <3>1
  <2>2. CASE ~(i <= n)
    BY <1>6, <1>8, <2>2
  <2> QED  BY <2>1, <2>2
<1> HIDE DEF steps
<1>10. ASSUME NEW i \in 1 .. n + 1
       PROVE  TurnsHere(Introduces(steps[i].event), cs, s) /\ AskedHere(steps, i, cs, s)
  BY <1>9 DEF StepHere, MapHere, AskedHere
<1> QED  BY <1>5, <1>8, <1>10 DEF StepsHere

(* Every call keeps the cycles apart. *)
LEMMA CallKeepsCycles ==
  ASSUME PublisherInv, CyclesInv, Call
  PROVE  CyclesInv'
<1>1. /\ Sound(emitter) /\ MintedOnce(held, seq)
      /\ TurnsHere(host.turnSeen, held, host.stream)
      /\ MapHere(blockers, held, id) /\ StepsHere(todo, held, id)
  BY DEF CyclesInv
<1>2. /\ emitter \in ReducerState /\ seq \in Nat /\ held \subseteq HeldCycle
      /\ blockers \in [Action -> Cycle \cup {None}] /\ id \in Stream \cup {None}
      /\ None \notin Cycle
  BY PublisherAssumption, NoneIsAnIdentityOfNothing DEF PublisherInv, TypedInv, TypeOK
<1>3. \A m, e : Step(e, m).event = e /\ Step(e, m).blockers = m
  BY DEF Step
<1>4. \A c, s : TransitionOf(s, c).type = "state_update" /\ TransitionOf(s, c).state = s
                /\ TransitionOf(s, c).turn = c.turn /\ TransitionOf(s, c).cause = c.origin
  BY DEF TransitionOf
<1>5. \A cs, s : TurnsHere({}, cs, s)
  BY DEF TurnsHere
<1>6. \A c \in held : Here(c, id) => TurnsHere(Introduces(TransitionOf("running", c)), held, id)
  BY <1>4 DEF TurnsHere, Introduces
<1>7. ASSUME NEW s \in Stream, Open(s) PROVE CyclesInv'
  <2>1. /\ id' = s /\ emitter' = Fresh(None, {}) /\ seq' = seq + 1 /\ blockers' = NoBlockers
        /\ todo' = <<Step(SnapshotOf(seq'), NoBlockers)>>
        /\ UNCHANGED <<held, host>>
    BY <1>7 DEF Open
  <2>2. Sound(Fresh(None, {}))
    <3>1. Fresh(None, {}) \in ReducerState /\ Blank(Fresh(None, {})) /\ ~Fresh(None, {}).started
      BY FreshType DEF Fresh, Blank
    <3> QED  BY <3>1, BlankSound
  <2>3. MintedOnce(held, seq')
    <3>1. \A c \in held : c.turn \in Int /\ c.cycle \in Int
      BY <1>2, PublisherAssumption DEF HeldCycle
    <3> QED  BY <1>1, <1>2, <2>1, <3>1 DEF MintedOnce
  <2>4. MapHere(NoBlockers, held, s)
    BY DEF MapHere, NoBlockers
  <2>5. Introduces(SnapshotOf(seq')) = {}
    <3> DEFINE e == SnapshotOf(seq')
    <3>1. e.type = "lifecycle_snapshot" /\ e.foreground.turn = None /\ e.activities = <<>>
      BY DEF SnapshotOf
    <3>2. Listed(<<>>) = {}
      BY DEF Listed
    <3> HIDE DEF e
    <3> QED  BY <3>1, <3>2 DEF Introduces, SnapshotTurns, e
  <2>6. StepsHere(todo', held, s)
    BY <1>3, <1>5, <2>1, <2>4, <2>5, OneStepHere DEF StepHere
  <2> QED  BY <1>1, <2>1, <2>2, <2>3, <2>4, <2>6 DEF CyclesInv
<1>8. ASSUME Accept PROVE CyclesInv'
  <2> DEFINE c == [turn |-> seq + 1, cycle |-> seq + 2, origin |-> "submission",
                   incarnation |-> None]
             x == Step(AcceptedOf(c.turn), blockers)
             y == Step(TransitionOf("running", c), blockers)
  <2>1. /\ seq' = seq + 2 /\ held' = held \cup {c} /\ todo' = <<x, y>>
        /\ UNCHANGED <<id, emitter, blockers, host>>
    BY <1>8 DEF Accept, Begins
  <2>2. /\ MintedOnce(held', seq') /\ MapHere(blockers, held', id)
        /\ TurnsHere(host.turnSeen, held', host.stream)
    BY <1>1, <1>2, <2>1, MintNext, MoreHeld
  <2>3. StepHere(x, held', id)
    <3>1. Introduces(AcceptedOf(c.turn)) = {c.turn}
      BY DEF Introduces, AcceptedOf
    <3> QED  BY <1>3, <2>1, <2>2, <3>1 DEF StepHere, TurnsHere, Here
  <2>4. StepHere(y, held', id)
    <3>1. Introduces(TransitionOf("running", c)) = {}
      BY <1>4 DEF Introduces
    <3>2. y.event = TransitionOf("running", c) /\ y.blockers = blockers
      BY <1>3
    <3> HIDE DEF y, c
    <3>3. TurnsHere(Introduces(y.event), held', id)
      BY <1>5, <3>1, <3>2
    <3> QED  BY <2>2, <3>2, <3>3 DEF StepHere
  <2> QED  BY <1>1, <2>1, <2>2, <2>3, <2>4, TwoStepsHere DEF CyclesInv
<1>9. ASSUME NewAgentCycle PROVE CyclesInv'
  <2> DEFINE c == [turn |-> seq + 1, cycle |-> seq + 2, origin |-> "activity",
                   incarnation |-> id]
  <2>1. /\ todo = <<>> /\ seq' = seq + 2 /\ held' = held \cup {c}
        /\ UNCHANGED <<id, emitter, blockers, todo, host>>
    BY <1>9 DEF NewAgentCycle, Unlocked
  <2>2. /\ MintedOnce(held', seq') /\ MapHere(blockers, held', id)
        /\ TurnsHere(host.turnSeen, held', host.stream)
    BY <1>1, <1>2, <2>1, MintNext, MoreHeld
  <2>3. StepsHere(<<>>, held', id)
    BY DEF StepsHere
  <2> QED  BY <1>1, <2>1, <2>2, <2>3 DEF CyclesInv
<1>10. ASSUME NEW c \in held, OpenAgentCycle(c) PROVE CyclesInv'
  <2>1. /\ BelongsHere(c) /\ todo' = <<Step(TransitionOf("running", c), blockers)>>
        /\ UNCHANGED <<id, emitter, seq, blockers, held, host>>
    BY <1>10 DEF OpenAgentCycle, Begins
  <2>2. StepHere(Step(TransitionOf("running", c), blockers), held, id)
    BY <1>1, <1>3, <1>6, <2>1 DEF StepHere, BelongsHere, Here
  <2> QED  BY <1>1, <2>1, <2>2, OneStepHere DEF CyclesInv
<1>11. ASSUME NEW c \in held, NEW a \in Action, ActionPending(c, a) PROVE CyclesInv'
  <2> DEFINE asked == [blockers EXCEPT ![a] = c.cycle]
             e == PendingOf(a, c)
  <2>1. /\ todo' = AskingSteps(c, a)
        /\ UNCHANGED <<id, emitter, seq, blockers, held, host>>
    BY <1>11 DEF ActionPending, Begins
  <2>2. Asks(e, c) /\ Introduces(e) = {}
    BY DEF Asks, PendingOf, Introduces
  <2>3. Introduces(TransitionOf("requires_action", c)) = {}
    BY <1>4 DEF Introduces
  <2>4. ASSUME NEW b \in Action, asked[b] # None
        PROVE  \E d \in held : d.cycle = asked[b] /\ (Here(d, id) \/ Asks(e, d))
    BY <1>1, <1>2, <2>2, <2>4 DEF MapHere
  <2> HIDE DEF asked, e
  <2>5. CASE todo' = <<Step(e, asked)>>
    <3>1. StepsHere(<<Step(e, asked)>>, held, id)
      <4> DEFINE x == Step(e, asked)
      <4>1. x.event = e /\ x.blockers = asked
        BY <1>3
      <4> HIDE DEF x
      <4>2. Len(<<x>>) = 1 /\ <<x>>[1] = x /\ \A i \in 1 .. 1 : i = 1
        OBVIOUS
      <4>3. AskedHere(<<x>>, 1, held, id)
        BY <2>4, <4>1, <4>2 DEF AskedHere
      <4>4. TurnsHere(Introduces(x.event), held, id)
        BY <1>5, <2>2, <4>1
      <4>5. StepsHere(<<x>>, held, id)
        BY <4>2, <4>3, <4>4 DEF StepsHere
      <4> QED  BY <4>5 DEF x
    <3> QED  BY <1>1, <2>1, <2>5, <3>1 DEF CyclesInv
  <2>6. CASE todo' = <<Step(e, blockers), Step(TransitionOf("requires_action", c), asked)>>
    <3> DEFINE x == Step(e, blockers)
               y == Step(TransitionOf("requires_action", c), asked)
    <3>1. StepsHere(<<x, y>>, held, id)
      <4>1. Len(<<x, y>>) = 2 /\ <<x, y>>[1] = x /\ <<x, y>>[2] = y
        OBVIOUS
      <4>2. /\ x.event = e /\ x.blockers = blockers
            /\ y.event = TransitionOf("requires_action", c) /\ y.blockers = asked
        BY <1>3
      <4> HIDE DEF x, y
      <4>3. AskedHere(<<x, y>>, 1, held, id)
        BY <1>1, <4>1, <4>2 DEF AskedHere, MapHere
      <4>4. AskedHere(<<x, y>>, 2, held, id)
        <5>1. 1 \in 1 .. 2
          OBVIOUS
        <5> QED  BY <2>4, <4>1, <4>2, <5>1 DEF AskedHere
      <4>5. TurnsHere(Introduces(x.event), held, id) /\ TurnsHere(Introduces(y.event), held, id)
        BY <1>5, <2>2, <2>3, <4>2
      <4>6. \A i \in 1 .. 2 : i = 1 \/ i = 2
        OBVIOUS
      <4> QED  BY <4>1, <4>3, <4>4, <4>5, <4>6 DEF StepsHere
    <3> QED  BY <1>1, <2>1, <2>6, <3>1 DEF CyclesInv
  <2> QED  BY <2>1, <2>5, <2>6 DEF AskingSteps, asked, e
<1>12. ASSUME NEW c \in held, NEW a \in Action, NEW state \in {"accepted", "declined"},
              ActionResolved(c, a, state)
       PROVE  CyclesInv'
  <2> DEFINE left == [blockers EXCEPT ![a] = None]
  <2>1. /\ blockers[a] = c.cycle /\ blockers' = left
        /\ todo' = AnsweringSteps(c, a, state, left)
        /\ UNCHANGED <<id, emitter, seq, held, host>>
    BY <1>12 DEF ActionResolved, Begins
  <2>2. MapHere(left, held, id)
    BY <1>1, <1>2 DEF MapHere
  <2>3. Here(c, id)
    <3>1. blockers[a] # None
      BY <1>2, <2>1 DEF HeldCycle
    <3>2. PICK d \in held : d.cycle = c.cycle /\ Here(d, id)
      BY <1>1, <2>1, <3>1 DEF MapHere
    <3> QED  BY <1>1, <3>2 DEF MintedOnce
  <2> HIDE DEF left
  <2>4. StepHere(Step(ResolvedOf(a, state), left), held, id)
    <3>1. Introduces(ResolvedOf(a, state)) = {}
      BY DEF Introduces, ResolvedOf
    <3> QED  BY <1>3, <1>5, <2>2, <3>1 DEF StepHere
  <2>5. StepHere(Step(TransitionOf("running", c), left), held, id)
    BY <1>3, <1>6, <2>2, <2>3 DEF StepHere
  <2>6. StepsHere(todo', held, id)
    BY <2>1, <2>4, <2>5, OneStepHere, TwoStepsHere DEF AnsweringSteps
  <2> QED  BY <1>1, <2>1, <2>2, <2>6 DEF CyclesInv
<1>13. ASSUME NEW c \in held, NEW stop \in {"stated", None}, NEW outcome \in {"success", "failed"},
              Idle(c, stop, outcome)
       PROVE  CyclesInv'
  <2> DEFINE open == BlockedBy(blockers, c.cycle)
             order == CHOOSE s \in [1 .. Cardinality(open) -> open] :
                         \A i, j \in DOMAIN s : s[i] = s[j] => i = j
  <2>1. /\ todo' = EndingSteps(order, c, stop, outcome)
        /\ UNCHANGED <<id, emitter, seq, blockers, held, host>>
    BY <1>13 DEF Idle, Begins
  <2>2. Cardinality(open) \in Nat /\ order \in [1 .. Cardinality(open) -> open]
    BY CancellationOrder DEF PublisherInv, TypedInv, TypeOK, HeldCycle
  <2>3. order \in Seq(Action) /\ Len(order) \in Nat
    <3>1. open \subseteq Action
      BY DEF BlockedBy
    <3> HIDE DEF order, open
    <3> QED  BY <2>2, <3>1
  <2> HIDE DEF order, open
  <2>4. StepsHere(EndingSteps(order, c, stop, outcome), held, id)
    BY <1>1, <2>3, EndingStepsHere
  <2> QED  BY <1>1, <2>1, <2>4 DEF CyclesInv
<1>14. ASSUME Fence PROVE CyclesInv'
  BY <1>1, <1>2, <1>14, CloseSound DEF Fence, CyclesInv
<1> QED  BY <1>7, <1>8, <1>9, <1>10, <1>11, <1>12, <1>13, <1>14 DEF Call

(* So every state keeps the cycles apart. *)
LEMMA CyclesInvariant == Spec => []CyclesInv
<1>1. PublisherInv /\ CyclesInv /\ [Next]_vars => CyclesInv'
  <2> SUFFICES ASSUME PublisherInv, CyclesInv, [Next]_vars PROVE CyclesInv'
    OBVIOUS
  <2>1. CASE UNCHANGED vars
    BY <2>1 DEF vars, CyclesInv
  <2> QED  BY <2>1, EmitKeepsCycles, CallKeepsCycles DEF Next
<1> QED  BY <1>1, InitCycles, PublisherInvariant, PTL DEF Spec

(* An agent cycle is published in the incarnation it was allocated in or   *)
(* not at all, although NewAgentCycle's result may be handed to any method *)
(* after any number of reopenings (OpenAgentCycle, ActionPending, Idle).   *)
THEOREM AgentTurnsStay == Spec => []AgentTurnsStayInTheirIncarnation
<1>1. CyclesInv => AgentTurnsStayInTheirIncarnation
  BY DEF CyclesInv, TurnsHere, MintedOnce, Here, AgentTurnsStayInTheirIncarnation, TurnKnown
<1> QED  BY <1>1, CyclesInvariant, PTL

-----------------------------------------------------------------------------
(* What an event does to the projection *)

(* What is asked on behalf of a cycle and still open. *)
Pending(r, a) == r.actions[a] # None /\ r.actions[a].state = "pending"

(* The actions and what they block stay, and so does the debt. *)
SameActions(q, r) ==
  q.actions = r.actions /\ q.actionCycle = r.actionCycle /\ q.blockedCycle = r.blockedCycle

(* The reducers project the same. *)
SameView(q, r) == SameActions(q, r) /\ q.foreground = r.foreground /\ q.turns = r.turns

(* An event that is not refused leaves the verdict, and a commit the rest. *)
LEMMA CommitView ==
  ASSUME NEW r \in ReducerState, r.failed = None, NEW d
  PROVE  /\ Commit(r, d).failed = None /\ SameView(Commit(r, d), r)
         /\ Commit(r, d).started = r.started /\ Commit(r, d).base = r.base
BY DEF Commit, SameView, SameActions, ReducerState

(* The acceptance of a turn that is new opens it (applyPromptAccepted). *)
LEMMA AcceptOpens ==
  ASSUME NEW r \in ReducerState, r.failed = None, RecordedTurnsWereSeen(r),
         NEW t \in Turn, ~TurnKnown(r, t)
  PROVE  LET q == Apply(r, AcceptedOf(t))
         IN  /\ q.failed = None /\ SameActions(q, r) /\ q.foreground = r.foreground
             /\ q.turns[t] # None /\ ~q.turns[t].terminal
<1> DEFINE opened == [origin |-> "submission", terminal |-> FALSE, cycle |-> None, outcome |-> None]
<1>1. r.turns[t] = None
  BY DEF RecordedTurnsWereSeen
<1>2. PromptDefect(r, AcceptedOf(t)) = None
  BY <1>1 DEF PromptDefect, AcceptedOf, TurnOver
<1>3. Apply(r, AcceptedOf(t)) = OpenTurn(r, t, "submission")
  BY <1>2 DEF Apply, AcceptedOf, ApplyPromptAccepted, Unless
<1>4. opened # None /\ ~opened.terminal
  <2>1. opened \in TurnRecord
    BY DEF TurnRecord, Cause
  <2> QED  BY <2>1, NoneIsAnIdentityOfNothing
<1> HIDE DEF opened
<1>5. /\ OpenTurn(r, t, "submission").turns = [r.turns EXCEPT ![t] = opened]
      /\ SameActions(OpenTurn(r, t, "submission"), r)
      /\ OpenTurn(r, t, "submission").failed = r.failed
      /\ OpenTurn(r, t, "submission").foreground = r.foreground
  BY DEF OpenTurn, SameActions, ReducerState, opened
<1>6. [r.turns EXCEPT ![t] = opened][t] = opened
  BY DEF ReducerState
<1> QED  BY <1>3, <1>4, <1>5, <1>6

(* A transition that no blocker or debt forbids, of a turn that may run,   *)
(* moves the foreground (applyStateUpdate, applyLive).                     *)
LEMMA TransitionMoves ==
  ASSUME NEW r \in ReducerState, r.failed = None, NEW c \in HeldCycle,
         NEW state \in {"running", "requires_action"},
         BlockedCycleDefect(r, TransitionOf(state, c)) = None,
         LiveDefect(r, TransitionOf(state, c)) = None
  PROVE  LET q == Apply(r, TransitionOf(state, c))
         IN  /\ q.failed = None /\ q.actions = r.actions /\ q.actionCycle = r.actionCycle
             /\ q.blockedCycle = IF state = "requires_action" /\ r.blockedCycle = c.cycle
                                 THEN None ELSE r.blockedCycle
             /\ q.foreground = [state |-> state, cycle |-> c.cycle, turn |-> c.turn]
<1> DEFINE e == TransitionOf(state, c)
           s == SettleBlockedCycle(r, e)
           o == OpenTurn(s, e.turn, "activity")
           moved(x) == ReportLive(x, e)
<1>1. /\ e.type = "state_update" /\ e.state = state /\ e.cycle = c.cycle /\ e.turn = c.turn
      /\ e.turn \in Turn /\ e.turn # None /\ e.state # "idle"
  BY NoneIsAnIdentityOfNothing DEF TransitionOf, HeldCycle
<1> HIDE DEF e
<1>2. NamelessTurnDefect(e) = None /\ EndingIdleDefect(e) = None
  BY <1>1 DEF NamelessTurnDefect, EndingIdleDefect
<1>3. /\ s \in ReducerState /\ s.failed = None /\ s.turns = r.turns
      /\ s.actions = r.actions /\ s.actionCycle = r.actionCycle
      /\ s.blockedCycle = IF state = "requires_action" /\ r.blockedCycle = c.cycle
                          THEN None ELSE r.blockedCycle
  BY <1>1 DEF SettleBlockedCycle, ReducerState
<1> HIDE DEF s
<1>4. LiveDefect(s, e) = None
  BY <1>3 DEF LiveDefect, TurnOver, e
<1>5. Apply(r, e) = ApplyLive(s, e)
  <2>1. BlockedCycleDefect(r, e) = None
    BY DEF e
  <2> QED  BY <1>1, <1>2, <2>1 DEF Apply, ApplyStateUpdate, s
<1>6. Apply(r, e) = moved(o) \/ Apply(r, e) = moved(s)
  BY <1>4, <1>5 DEF ApplyLive, Unless
<1>7. o \in ReducerState /\ o.failed = None /\ SameActions(o, s)
  <2>1. o \in ReducerState
    BY <1>1, <1>3, OpenTurnType DEF Cause
  <2> QED  BY <1>3, <2>1 DEF OpenTurn, SameActions, ReducerState
<1> HIDE DEF o
<1>8. ASSUME NEW x \in ReducerState
      PROVE  /\ moved(x).failed = x.failed /\ SameActions(moved(x), x)
             /\ moved(x).foreground = [state |-> state, cycle |-> c.cycle, turn |-> c.turn]
  BY <1>1 DEF ReportLive, SameActions, ReducerState
<1> HIDE DEF moved
<1> QED  BY <1>3, <1>6, <1>7, <1>8 DEF SameActions, e

(* The transition that ends a cycle nothing blocks (applyIdle). *)
LEMMA IdleMoves ==
  ASSUME NEW r \in ReducerState, r.failed = None, NEW c \in HeldCycle,
         NEW stop \in {"stated", None}, NEW outcome \in {"success", "failed"},
         (outcome = "failed") = (stop = None),
         ~Blocked(r, c.cycle), r.blockedCycle # c.cycle,
         r.turns[c.turn] # None, ~r.turns[c.turn].terminal
  PROVE  LET q == Apply(r, IdleOf(c, stop, outcome))
         IN  /\ q.failed = None /\ SameActions(q, r)
             /\ q.foreground = [state |-> "idle", cycle |-> c.cycle, turn |-> None]
<1> DEFINE e == IdleOf(c, stop, outcome)
           s == SettleBlockedCycle(r, e)
<1>1. /\ e.type = "state_update" /\ e.state = "idle" /\ e.cycle = c.cycle /\ e.turn = c.turn
      /\ e.turn \in Turn /\ e.turn # None /\ e.stop = stop /\ e.outcome = outcome
  BY NoneIsAnIdentityOfNothing DEF IdleOf, TransitionOf, HeldCycle
<1> HIDE DEF e
<1>2. NamelessTurnDefect(e) = None
  BY <1>1 DEF NamelessTurnDefect
<1>3. EndingIdleDefect(e) = None
  <2>1. outcome # None
    BY NoneIsAnIdentityOfNothing DEF Outcome
  <2> QED  BY <1>1, <2>1 DEF EndingIdleDefect
<1>4. BlockedCycleDefect(r, e) = None
  BY <1>1 DEF BlockedCycleDefect
<1>5. s = r
  BY <1>1 DEF SettleBlockedCycle, ReducerState
<1>6. IdleDefect(r, e) = None
  BY <1>1 DEF IdleDefect, TurnOver
<1>7. Apply(r, e) = EndTurn(r, e)
  BY <1>1, <1>2, <1>3, <1>4, <1>5, <1>6 DEF Apply, ApplyStateUpdate, ApplyIdle, Unless
<1>8. /\ EndTurn(r, e).failed = None /\ SameActions(EndTurn(r, e), r)
      /\ EndTurn(r, e).foreground = [state |-> "idle", cycle |-> c.cycle, turn |-> None]
  BY <1>1 DEF EndTurn, IdleForeground, SameActions, ReducerState
<1> QED  BY <1>7, <1>8 DEF e

(* The ask of an action not yet named, for a turn that is known, blocks    *)
(* the current cycle and leaves it owing the wait (recordAction).          *)
LEMMA AskRecords ==
  ASSUME NEW r \in ReducerState, r.failed = None, r.foreground # None,
         NEW c \in HeldCycle, TurnKnown(r, c.turn), NEW a \in Action, r.actions[a] = None
  PROVE  LET q == Apply(r, PendingOf(a, c))
         IN  /\ q.failed = None /\ q.foreground = r.foreground /\ q.turns = r.turns
             /\ q.blockedCycle = IF r.foreground.state # "requires_action"
                                 THEN r.foreground.cycle ELSE r.blockedCycle
             /\ Pending(q, a) /\ q.actions[a].blocks = "foreground"
             /\ q.actionCycle[a] = r.foreground.cycle
             /\ \A b \in Action \ {a} : q.actions[b] = r.actions[b] /\ q.actionCycle[b] = r.actionCycle[b]
<1> DEFINE u == PendingOf(a, c).action
           us == {u}
           rec == [state |-> u.state, owner |-> u.owner, blocks |-> u.blocks]
<1>1. /\ PendingOf(a, c).type = "action_update"
      /\ u.id = a /\ u.state = "pending" /\ u.owner = [type |-> "turn", id |-> c.turn]
      /\ u.blocks = "foreground" /\ u.owner \in Owner
  BY DEF PendingOf, Owner, HeldCycle
<1> HIDE DEF u
<1>2. ActionIdentityDefect(u) = None
  BY <1>1, NoneIsAnIdentityOfNothing DEF ActionIdentityDefect
<1>3. ActionFirstSightDefect(r, u) = None
  BY <1>1, <1>2 DEF ActionFirstSightDefect
<1>4. Apply(r, PendingOf(a, c)) = RecordActions(r, us)
  BY <1>1, <1>3 DEF Apply, ApplyActionUpdate, Unless, u
<1>5. ~ActionOver(u) /\ BlocksForeground(u)
  BY <1>1 DEF ActionOver, BlocksForeground, TerminalActionState
<1>6. {x \in us : ~ActionOver(x) /\ BlocksForeground(x) /\ r.foreground # None} = us
  BY <1>5
<1>7. Named(us) = {a} /\ Naming(us, a) = u
  BY <1>1 DEF Named, Naming
<1>8. rec \in ActionRecord /\ rec # None /\ rec.state = "pending" /\ rec.blocks = "foreground"
  BY <1>1, NoneIsAnIdentityOfNothing DEF ActionRecord, ActionState
<1> HIDE DEF us, rec
<1>9. /\ RecordActions(r, us).failed = r.failed
      /\ RecordActions(r, us).foreground = r.foreground /\ RecordActions(r, us).turns = r.turns
      /\ RecordActions(r, us).blockedCycle =
           IF us # {} /\ r.foreground.state # "requires_action" THEN r.foreground.cycle
                                                                ELSE r.blockedCycle
      /\ RecordActions(r, us).actionCycle =
           [b \in Action |-> IF b \in Named(us) THEN r.foreground.cycle ELSE r.actionCycle[b]]
      /\ RecordActions(r, us).actions =
           [b \in Action |->
              IF b \in Named(us)
              THEN LET x == Naming(us, b)
                   IN  [state |-> x.state, owner |-> x.owner, blocks |-> x.blocks]
              ELSE r.actions[b]]
  BY <1>6 DEF RecordActions, ReducerState
<1>10. us # {}
  BY DEF us
<1>11. RecordActions(r, us).actions[a] = rec
  BY <1>7, <1>9 DEF rec
<1>12. \A b \in Action \ {a} : RecordActions(r, us).actions[b] = r.actions[b]
                               /\ RecordActions(r, us).actionCycle[b] = r.actionCycle[b]
  BY <1>7, <1>9
<1>13. RecordActions(r, us).actionCycle[a] = r.foreground.cycle
  BY <1>7, <1>9
<1> QED  BY <1>4, <1>8, <1>9, <1>10, <1>11, <1>12, <1>13 DEF Pending

(* The answer to an open ask is taken (patchAction). *)
LEMMA AnswerPatches ==
  ASSUME NEW r \in ReducerState, r.failed = None, NEW a \in Action, Pending(r, a),
         NEW state \in TerminalActionState
  PROVE  LET q == Apply(r, ResolvedOf(a, state))
         IN  /\ q.failed = None /\ q.foreground = r.foreground /\ q.turns = r.turns
             /\ q.blockedCycle = r.blockedCycle /\ q.actionCycle = r.actionCycle
             /\ ~Pending(q, a)
             /\ \A b \in Action \ {a} : q.actions[b] = r.actions[b]
<1> DEFINE u == ResolvedOf(a, state).action
<1>1. /\ ResolvedOf(a, state).type = "action_update"
      /\ u.id = a /\ u.state = state /\ u.owner = None /\ u.blocks = None
  BY DEF ResolvedOf
<1> HIDE DEF u
<1>2. r.actions[a] # None /\ ~ActionOver(r.actions[a])
  BY DEF Pending, ActionOver, TerminalActionState
<1>3. ActionPatchDefect(r, u) = None
  BY <1>1, <1>2 DEF ActionPatchDefect, ImmutableActionConflict
<1>4. Apply(r, ResolvedOf(a, state)) = PatchAction(r, u)
  BY <1>1, <1>2, <1>3 DEF Apply, ApplyActionUpdate, Unless, u
<1>5. /\ PatchAction(r, u).failed = r.failed
      /\ PatchAction(r, u).foreground = r.foreground /\ PatchAction(r, u).turns = r.turns
      /\ PatchAction(r, u).blockedCycle = r.blockedCycle
      /\ PatchAction(r, u).actionCycle = r.actionCycle
      /\ PatchAction(r, u).actions = [r.actions EXCEPT ![a] = [@ EXCEPT !.state = state]]
  BY <1>1 DEF PatchAction, ReducerState
<1>6. r.actions[a] \in ActionRecord /\ r.actions \in [Action -> ActionRecord \cup {None}]
  BY <1>2 DEF ReducerState
<1>7. [r.actions[a] EXCEPT !.state = state].state = state
  BY <1>6 DEF ActionRecord
<1>8. state # "pending"
  BY DEF TerminalActionState
<1>9. PatchAction(r, u).actions[a].state = state
      /\ \A b \in Action \ {a} : PatchAction(r, u).actions[b] = r.actions[b]
  BY <1>5, <1>6, <1>7
<1> QED  BY <1>4, <1>5, <1>8, <1>9 DEF Pending

(* A stream opens idle, with nothing asked (Open, applySnapshot). *)
LEMMA OpeningProjects ==
  ASSUME NEW d \in Delivery, NEW n \in Cycle, d.event = SnapshotOf(n)
  PROVE  LET q == ReduceFirst(Fresh(None, {}), d)
         IN  /\ q.failed = None /\ q.started /\ q.base = d.sequence
             /\ q.reducedThrough = d.sequence
             /\ q.foreground = [state |-> "idle", cycle |-> n, turn |-> None]
             /\ q.blockedCycle = None /\ q.actions = [a \in Action |-> None]
<1> DEFINE blank == Fresh(None, {})
           based == [[blank EXCEPT !.stream = d.stream] EXCEPT !.base = d.sequence]
           e == d.event
           p == ProjectForeground(based, e)
           q == RecordActivities(p, Listed(e.activities))
           s == RecordActions(q, Listed(e.actions))
           begun == [s EXCEPT !.started = TRUE]
<1>1. d.sequence \in 0 .. MaxSequence /\ d.stream \in Stream /\ e \in SnapshotEvent
  <2>1. d.event.type = "lifecycle_snapshot"
    BY DEF SnapshotOf
  <2> QED  BY <2>1, BoundAssumption DEF Delivery, Sequence, SnapshotEvent
<1>2. /\ e.foreground.state = "idle" /\ e.foreground.cycle = n /\ e.foreground.turn = None
      /\ e.foreground.origin = None /\ e.activities = <<>> /\ e.actions = <<>>
      /\ e.type = "lifecycle_snapshot"
  BY DEF SnapshotOf
<1>3. Listed(<<>>) = {} /\ Named({}) = {}
  BY DEF Listed, Named
<1> HIDE DEF e
<1>4. SnapshotDefect(e) = None
  <2>1. ForegroundDefect(e.foreground) = None
    <3>1. None # "session"
      BY NoneIsAnIdentityOfNothing DEF Cause
    <3> QED  BY <1>2, <3>1 DEF ForegroundDefect
  <2>2. SnapshotActivitiesDefect(e) = None /\ SnapshotActionsDefect(e) = None
    BY <1>2 DEF SnapshotActivitiesDefect, SnapshotActionsDefect, FirstDefect
  <2> QED  BY <1>2, <2>1, <2>2 DEF SnapshotDefect
<1>5. /\ blank \in ReducerState /\ blank.started = FALSE /\ blank.failed = None
      /\ blank.actions = [a \in Action |-> None] /\ blank.blockedCycle = None
  BY FreshType DEF Fresh
<1> HIDE DEF blank
<1>6. /\ based \in ReducerState /\ based.failed = None
      /\ based.actions = blank.actions /\ based.blockedCycle = None
  BY <1>1, <1>5 DEF ReducerState
<1> HIDE DEF based
<1>7. /\ p \in ReducerState /\ p.failed = None
      /\ p.actions = based.actions /\ p.blockedCycle = None
      /\ p.foreground = [state |-> "idle", cycle |-> n, turn |-> None]
  <2>1. p \in ReducerState
    BY <1>1, <1>4, <1>6, SnapshotListsAreFirstSights, ProjectForegroundType, SMTT(30)
  <2> QED  BY <1>2, <1>6, <2>1 DEF ProjectForeground, ReducerState
<1> HIDE DEF p
<1>8. /\ q \in ReducerState /\ q.failed = None
      /\ q.actions = p.actions /\ q.blockedCycle = None /\ q.foreground = p.foreground
  <2>1. q \in ReducerState
    BY <1>1, <1>4, <1>7, SnapshotListsAreFirstSights, RecordActivitiesType
  <2> QED  BY <1>7, <2>1 DEF RecordActivities, ReducerState
<1> HIDE DEF q
<1>9. /\ s.failed = None /\ s.foreground = q.foreground
      /\ s.actions = q.actions /\ s.blockedCycle = None
  <2>1. {u \in {} : ~ActionOver(u) /\ BlocksForeground(u) /\ q.foreground # None} = {}
    OBVIOUS
  <2>2. [a \in Action |-> q.actions[a]] = q.actions
    BY <1>8 DEF ReducerState
  <2>3. Listed(e.actions) = {}
    BY <1>2, <1>3
  <2> QED  BY <1>3, <1>8, <2>1, <2>2, <2>3 DEF RecordActions, ReducerState
<1>10. s \in ReducerState /\ ApplySnapshot(based, e) = s
  <2>1. ApplySnapshot(based, e) = s
    BY <1>4 DEF ApplySnapshot, ProjectSnapshot, Unless, s, q, p
  <2> QED  BY <1>1, <1>6, <2>1, ApplySnapshotType
<1> HIDE DEF s
<1>11. /\ begun \in ReducerState /\ begun.failed = None /\ begun.foreground = s.foreground
       /\ begun.actions = s.actions /\ begun.blockedCycle = s.blockedCycle
  BY <1>9, <1>10 DEF ReducerState
<1> HIDE DEF begun
<1>12. Commit(begun, d).failed = None /\ SameView(Commit(begun, d), begun)
  BY <1>11, CommitView
<1>13. ReduceFirst(blank, d) = Commit(begun, d)
  BY <1>2, <1>10, <1>12 DEF ReduceFirst, begun, based, e
<1>14. LET r == ReduceFirst(blank, d)
       IN  r.failed = None /\ r.started /\ r.base = d.sequence /\ r.reducedThrough = d.sequence
  BY <1>5, <1>12, <1>13, ReduceFirstHeader
<1> QED
  BY <1>5, <1>6, <1>7, <1>8, <1>9, <1>11, <1>12, <1>13, <1>14
     DEF SameView, SameActions, blank

(* The emitter of a stream that runs judges its next event by what the     *)
(* event does to the projection (emit, Reduce).                            *)
LEMMA JudgedNext ==
  ASSUME PublisherInv, todo # <<>>, emitter.started, emitter.base <= emitter.reducedThrough,
         Head(todo).event.type # "lifecycle_snapshot",
         Apply(emitter, Head(todo).event).failed = None
  PROVE  /\ Judged.failed = None /\ SameView(Judged, Apply(emitter, Head(todo).event))
         /\ Judged.started /\ Judged.base <= Judged.reducedThrough
<1> DEFINE d == NextDelivery
           e == Head(todo).event
           a == Apply(emitter, e)
<1>1. /\ d \in Delivery /\ d.stream = id /\ d.sequence = sequence + 1 /\ Active /\ ActiveInv
      /\ Head(todo) \in StepOf
  BY DeliveryTyped
<1>2. d.event = e /\ d.carrier = "session_info_update" /\ e \in Event
  BY <1>1 DEF NextDelivery, StepOf
<1>3. /\ emitter \in ReducerState /\ emitter.failed = None /\ emitter.closed = FALSE
      /\ emitter.stream = id /\ emitter.reducedThrough = sequence
  BY <1>1 DEF PublisherInv, TypedInv, TypeOK, ActiveInv, Active, ReducerState
<1>4. emitter.base \in Int /\ sequence \in Int
  BY <1>3, BoundAssumption DEF PublisherInv, TypedInv, TypeOK, ReducerState
<1> HIDE DEF d, e
<1>5. /\ ~(d.sequence < emitter.base) /\ ~AlreadyReduced(emitter, d.sequence)
      /\ ~SkipsASequence(emitter, d.sequence)
  BY <1>1, <1>3, <1>4 DEF AlreadyReduced, SkipsASequence
<1>6. Reduce(emitter, d) = Commit(a, d)
  BY <1>1, <1>2, <1>3, <1>5 DEF Reduce, e
<1>7. a \in ReducerState /\ Header(a) = Header(emitter) /\ a.failed = None
  BY <1>2, <1>3, ApplyType, ApplyKeepsHeader DEF e
<1> HIDE DEF a
<1>8. a.started /\ a.base = emitter.base
  BY <1>7 DEF Header
<1>9. /\ Commit(a, d).failed = None /\ SameView(Commit(a, d), a)
      /\ Commit(a, d).started /\ Commit(a, d).base = emitter.base
  BY <1>7, <1>8, CommitView
<1>10. Commit(a, d).reducedThrough = sequence + 1
  BY <1>1, <1>7 DEF Commit, ReducerState
<1> QED  BY <1>3, <1>4, <1>6, <1>9, <1>10 DEF Judged, d, a, e

-----------------------------------------------------------------------------
(* The blockers of the publisher and of its reducer *)

(* The map names what is asked and not answered, all of it on behalf of    *)
(* the current cycle.                                                      *)
Mapped(r, m) ==
  \A a \in Action :
    /\ ~Pending(r, a) => m[a] = None
    /\ Pending(r, a) => /\ r.actions[a].blocks = "foreground"
                        /\ r.actionCycle[a] = r.foreground.cycle
                        /\ m[a] = r.foreground.cycle

(* A cycle that runs is one that callers hold. *)
InHand(r, cs) ==
  r.foreground.state # "idle" =>
    \E c \in cs : c.turn = r.foreground.turn /\ c.cycle = r.foreground.cycle

Runs(r, m, cs) ==
  /\ r.started /\ r.base <= r.reducedThrough /\ r.foreground # None
  /\ Mapped(r, m) /\ InHand(r, cs)

(* Between methods nothing is owed, and a cycle with a question waits. *)
Agrees(r, m, cs) ==
  /\ Runs(r, m, cs)
  /\ r.blockedCycle = None
  /\ \A a \in Action : Pending(r, a) => r.foreground.state = "requires_action"

Holds(r, c) == r.foreground.state # "idle" /\ r.foreground.cycle = c.cycle

Without(m, a) == [m EXCEPT ![a] = None]

With(m, a, cycle) == [m EXCEPT ![a] = cycle]

(* The current cycle of a reducer that runs is one. *)
LEMMA CurrentCycle ==
  ASSUME NEW r \in ReducerState, r.foreground # None
  PROVE  r.foreground \in Foreground /\ r.foreground.cycle \in Cycle /\ r.foreground.cycle # None
BY NoneIsAnIdentityOfNothing DEF ReducerState, Foreground

(* A map that names nothing leaves no cycle blocked. *)
LEMMA NothingAsked ==
  ASSUME NEW r \in ReducerState, r.foreground # None, Mapped(r, NoBlockers)
  PROVE  (\A a \in Action : ~Pending(r, a)) /\ \A cycle : ~Blocked(r, cycle)
<1>1. \A a \in Action : ~Pending(r, a)
  BY CurrentCycle DEF Mapped, NoBlockers
<1> QED  BY <1>1 DEF Blocked, BlockerOf, Pending

(* A map that names no blocker of the current cycle names nothing. *)
LEMMA NothingMapped ==
  ASSUME NEW r \in ReducerState, NEW m \in BlockerMap, Mapped(r, m),
         BlockedBy(m, r.foreground.cycle) = {}
  PROVE  m = NoBlockers
<1>1. \A a \in Action : m[a] = None
  BY DEF Mapped, BlockedBy
<1>2. m \in [Action -> Cycle \cup {None}]
  BY DEF BlockerMap
<1> QED  BY <1>1, <1>2 DEF NoBlockers

(* The cycle that is current has one turn, and that is open (MintedOnce,   *)
(* ForegroundTurnIsOpen).                                                  *)
LEMMA CurrentTurn ==
  ASSUME NEW r, r.foreground # None, ForegroundTurnIsOpen(r),
         NEW cs, NEW n, MintedOnce(cs, n), InHand(r, cs), NEW c \in cs, Holds(r, c)
  PROVE  r.foreground.turn = c.turn /\ r.turns[c.turn] # None /\ ~r.turns[c.turn].terminal
<1>1. PICK d \in cs : d.turn = r.foreground.turn /\ d.cycle = r.foreground.cycle
  BY DEF Holds, InHand
<1>2. c = d
  BY <1>1 DEF Holds, MintedOnce
<1> QED  BY <1>1, <1>2 DEF ForegroundTurnIsOpen, Holds

(* What changes neither actions nor the foreground keeps the agreement. *)
LEMMA StillAgrees ==
  ASSUME NEW r, NEW q, NEW m, NEW cs, Agrees(r, m, cs), SameActions(q, r),
         q.foreground = r.foreground, q.started, q.base <= q.reducedThrough
  PROVE  Agrees(q, m, cs)
BY DEF Agrees, Runs, Mapped, InHand, Pending, SameActions

(* A transition when nothing is asked, or to the wait of the current cycle. *)
LEMMA MovedAgrees ==
  ASSUME NEW r \in ReducerState, NEW q, NEW m, NEW cs, Runs(r, m, cs), NEW c \in cs, NEW state,
         q.actions = r.actions, q.actionCycle = r.actionCycle, q.blockedCycle = None,
         q.foreground = [state |-> state, cycle |-> c.cycle, turn |-> c.turn],
         q.foreground # None, q.started, q.base <= q.reducedThrough,
         m = NoBlockers \/ (state = "requires_action" /\ c.cycle = r.foreground.cycle)
  PROVE  Agrees(q, m, cs)
<1>1. InHand(q, cs)
  BY DEF InHand
<1>2. \A a \in Action : Pending(q, a) <=> Pending(r, a)
  BY DEF Pending
<1>3. CASE m = NoBlockers
  <2>1. \A a \in Action : ~Pending(r, a)
    BY <1>3, NothingAsked DEF Runs
  <2>2. Mapped(q, m)
    BY <1>2, <1>3, <2>1 DEF Mapped, NoBlockers
  <2> QED  BY <1>1, <1>2, <2>1, <2>2 DEF Agrees, Runs
<1>4. CASE state = "requires_action" /\ c.cycle = r.foreground.cycle
  <2>1. Mapped(q, m)
    BY <1>2, <1>4 DEF Mapped, Runs
  <2> QED  BY <1>1, <1>4, <2>1 DEF Agrees, Runs
<1> QED  BY <1>3, <1>4

(* An idle foreground of a cycle that has ended. *)
LEMMA EndedAgrees ==
  ASSUME NEW r \in ReducerState, NEW q, NEW cs, Agrees(r, NoBlockers, cs), NEW cycle,
         SameActions(q, r), q.foreground = [state |-> "idle", cycle |-> cycle, turn |-> None],
         q.foreground # None, q.started, q.base <= q.reducedThrough
  PROVE  Agrees(q, NoBlockers, cs)
<1>1. \A a \in Action : ~Pending(r, a)
  BY NothingAsked DEF Agrees, Runs
<1>2. \A a \in Action : ~Pending(q, a)
  BY <1>1 DEF Pending, SameActions
<1>3. Mapped(q, NoBlockers)
  BY <1>2 DEF Mapped, NoBlockers
<1>4. InHand(q, cs)
  BY DEF InHand
<1> QED  BY <1>2, <1>3, <1>4 DEF Agrees, Runs, SameActions

(* An ask adds to the map what it adds to the actions. *)
LEMMA AskedAgrees ==
  ASSUME NEW r \in ReducerState, NEW q, NEW m \in BlockerMap, NEW cs, Agrees(r, m, cs),
         NEW c \in cs, Holds(r, c), NEW a \in Action,
         q.foreground = r.foreground,
         q.blockedCycle = IF r.foreground.state # "requires_action"
                          THEN r.foreground.cycle ELSE r.blockedCycle,
         Pending(q, a), q.actions[a].blocks = "foreground",
         q.actionCycle[a] = r.foreground.cycle,
         \A b \in Action \ {a} : q.actions[b] = r.actions[b] /\ q.actionCycle[b] = r.actionCycle[b],
         q.started, q.base <= q.reducedThrough
  PROVE  /\ Runs(q, With(m, a, c.cycle), cs) /\ q.blockedCycle \in {None, c.cycle}
         /\ r.foreground.state = "requires_action" => Agrees(q, With(m, a, c.cycle), cs)
<1> DEFINE w == With(m, a, c.cycle)
<1>1. w[a] = c.cycle /\ \A b \in Action \ {a} : w[b] = m[b]
  BY DEF With, BlockerMap
<1> HIDE DEF w
<1>2. \A b \in Action \ {a} : Pending(q, b) <=> Pending(r, b)
  BY DEF Pending
<1>3. ASSUME NEW b \in Action
      PROVE  /\ ~Pending(q, b) => w[b] = None
             /\ Pending(q, b) => /\ q.actions[b].blocks = "foreground"
                                 /\ q.actionCycle[b] = q.foreground.cycle
                                 /\ w[b] = q.foreground.cycle
  <2>1. CASE b = a
    BY <1>1, <2>1 DEF Holds
  <2>2. CASE b # a
    BY <1>1, <1>2, <2>2 DEF Agrees, Runs, Mapped
  <2> QED  BY <2>1, <2>2
<1>4. Mapped(q, w)
  BY <1>3 DEF Mapped
<1>5. InHand(q, cs)
  BY DEF Agrees, Runs, InHand
<1>6. Runs(q, w, cs) /\ q.blockedCycle \in {None, c.cycle}
  BY <1>4, <1>5 DEF Agrees, Runs, Holds
<1>7. r.foreground.state = "requires_action" => Agrees(q, w, cs)
  BY <1>6 DEF Agrees
<1> QED  BY <1>6, <1>7 DEF w

(* An answer takes off the map what it settles. *)
LEMMA AnsweredAgrees ==
  ASSUME NEW r \in ReducerState, NEW q, NEW m \in BlockerMap, NEW cs, Agrees(r, m, cs),
         NEW a \in Action,
         q.foreground = r.foreground, q.blockedCycle = r.blockedCycle,
         q.actionCycle = r.actionCycle, ~Pending(q, a),
         \A b \in Action \ {a} : q.actions[b] = r.actions[b],
         q.started, q.base <= q.reducedThrough
  PROVE  Agrees(q, Without(m, a), cs)
<1> DEFINE w == Without(m, a)
<1>1. w[a] = None /\ \A b \in Action \ {a} : w[b] = m[b]
  BY DEF Without, BlockerMap
<1> HIDE DEF w
<1>2. \A b \in Action \ {a} : Pending(q, b) <=> Pending(r, b)
  BY DEF Pending
<1>3. ASSUME NEW b \in Action
      PROVE  /\ ~Pending(q, b) => w[b] = None
             /\ Pending(q, b) => /\ q.actions[b].blocks = "foreground"
                                 /\ q.actionCycle[b] = q.foreground.cycle
                                 /\ w[b] = q.foreground.cycle
                                 /\ q.foreground.state = "requires_action"
  <2>1. CASE b = a
    BY <1>1, <2>1
  <2>2. CASE b # a
    BY <1>1, <1>2, <2>2 DEF Agrees, Runs, Mapped
  <2> QED  BY <2>1, <2>2
<1>4. Mapped(q, w) /\ \A b \in Action : Pending(q, b) => q.foreground.state = "requires_action"
  BY <1>3 DEF Mapped
<1>5. InHand(q, cs)
  BY DEF Agrees, Runs, InHand
<1>6. Agrees(q, w, cs)
  BY <1>4, <1>5 DEF Agrees, Runs
<1> QED  BY <1>6 DEF w

-----------------------------------------------------------------------------
(* What is left of a disciplined caller's method *)

Opening(r, steps) ==
  ~r.started /\ \E n \in Cycle : steps = <<Step(SnapshotOf(n), NoBlockers)>>

Between(r, m, steps, cs) == steps = <<>> /\ Agrees(r, m, cs)

Accepting(r, m, steps, cs) ==
  \E c \in cs :
    /\ Agrees(r, m, cs) /\ r.foreground.state = "idle" /\ ~TurnKnown(r, c.turn)
    /\ steps = <<Step(AcceptedOf(c.turn), m), Step(TransitionOf("running", c), m)>>

Starting(r, steps, cs) ==
  \E c \in cs :
    /\ Agrees(r, NoBlockers, cs) /\ LiveDefect(r, TransitionOf("running", c)) = None
    /\ steps = <<Step(TransitionOf("running", c), NoBlockers)>>

Asking(r, m, steps, cs) ==
  \E c \in cs, a \in Action :
    /\ Agrees(r, m, cs) /\ Holds(r, c) /\ r.actions[a] = None
    /\ steps = IF BlockedBy(m, c.cycle) = {}
               THEN <<Step(PendingOf(a, c), m),
                      Step(TransitionOf("requires_action", c), With(m, a, c.cycle))>>
               ELSE <<Step(PendingOf(a, c), With(m, a, c.cycle))>>

(* The ask is out, the wait it brings is not. *)
Asked(r, steps, cs) ==
  \E c \in cs, a \in Action, m \in BlockerMap :
    /\ Runs(r, m, cs) /\ Holds(r, c) /\ m[a] = c.cycle
    /\ r.blockedCycle \in {None, c.cycle}
    /\ steps = <<Step(TransitionOf("requires_action", c), m)>>

Answering(r, m, steps, cs) ==
  \E c \in cs, a \in Action, state \in {"accepted", "declined"} :
    /\ m[a] = None /\ Agrees(r, With(m, a, c.cycle), cs)
    /\ steps = AnsweringSteps(c, a, state, m)

(* The map before the i-th step. *)
Before(steps, i, m) == IF i = 1 THEN m ELSE steps[i - 1].blockers

(* Each step but the last cancels an action of the map, the last ends the  *)
(* cycle when the map is empty.                                            *)
Ends(steps, m, c) ==
  LET n == Len(steps)
  IN  /\ n >= 1 /\ Before(steps, n, m) = NoBlockers
      /\ \E stop \in {"stated", None}, outcome \in {"success", "failed"} :
           /\ (outcome = "failed") = (stop = None)
           /\ steps[n] = Step(IdleOf(c, stop, outcome), NoBlockers)
      /\ \A i \in 1 .. n - 1 :
           \E a \in Action :
             /\ Before(steps, i, m)[a] # None
             /\ steps[i] = Step(ResolvedOf(a, "cancelled"), Without(Before(steps, i, m), a))

Ending(r, m, steps, cs) ==
  \E c \in cs : Agrees(r, m, cs) /\ Holds(r, c) /\ Ends(steps, m, c)

Phase(r, m, steps, cs) ==
  \/ Opening(r, steps) \/ Between(r, m, steps, cs)
  \/ Accepting(r, m, steps, cs) \/ Starting(r, steps, cs)
  \/ Asking(r, m, steps, cs) \/ Asked(r, steps, cs)
  \/ Answering(r, m, steps, cs) \/ Ending(r, m, steps, cs)

(* Whatever its state, a stream that a disciplined caller did not fence is *)
(* in the middle of a method or between two.                               *)
DisciplineInv ==
  disciplined => emitter.failed = None /\ (Active => Phase(emitter, blockers, todo, held))

(* The next event of the running method is accepted, and what follows it   *)
(* is the rest of a method.                                                *)
GoesOn ==
  Judged.failed = None /\ Phase(Judged, Head(todo).blockers, Tail(todo), held)

(* What a running method may build on. *)
LEMMA Underway ==
  ASSUME PublisherInv, CyclesInv, todo # <<>>
  PROVE  /\ emitter \in ReducerState /\ emitter.failed = None /\ held \subseteq HeldCycle
         /\ RecordedTurnsWereSeen(emitter) /\ ForegroundTurnIsOpen(emitter)
         /\ blockers \in BlockerMap /\ Head(todo).blockers \in BlockerMap
         /\ MintedOnce(held, seq) /\ Judged \in ReducerState /\ None \notin Cycle
         /\ todo \in Seq(StepOf)
<1>1. ActiveInv /\ Judged \in ReducerState /\ Head(todo) \in StepOf
  BY DeliveryTyped
<1>2. Sound(emitter) /\ MintedOnce(held, seq)
  BY DEF CyclesInv
<1> QED
  BY <1>1, <1>2, NoneIsAnIdentityOfNothing
     DEF ActiveInv, PublisherInv, TypedInv, TypeOK, Sound, Coherent, StepOf

(* A method that emits one step or two. *)
LEMMA FewLeft ==
  ASSUME NEW x, NEW y
  PROVE  /\ Head(<<x>>) = x /\ Tail(<<x>>) = <<>>
         /\ Head(<<x, y>>) = x /\ Tail(<<x, y>>) = <<y>>
OBVIOUS

(* A step is what it was built of. *)
LEMMA StepParts ==
  \A e, m : Step(e, m).event = e /\ Step(e, m).blockers = m
BY DEF Step

(* The opening of a stream. *)
LEMMA OpeningGoesOn ==
  ASSUME PublisherInv, CyclesInv, todo # <<>>, Opening(emitter, todo)
  PROVE  GoesOn
<1>1. PICK n \in Cycle : todo = <<Step(SnapshotOf(n), NoBlockers)>>
  BY DEF Opening
<1>2. /\ Head(todo).event = SnapshotOf(n) /\ Head(todo).blockers = NoBlockers /\ Tail(todo) = <<>>
  BY <1>1, StepParts, FewLeft
<1>3. /\ NextDelivery \in Delivery /\ ActiveInv /\ NextDelivery.event = SnapshotOf(n)
      /\ NextDelivery.carrier = "session_info_update"
  <2>1. NextDelivery \in Delivery /\ ActiveInv
    BY DeliveryTyped
  <2> QED  BY <1>2, <2>1 DEF NextDelivery
<1>4. emitter = Fresh(None, {})
  BY <1>3 DEF Opening, ActiveInv
<1>5. Judged = ReduceFirst(Fresh(None, {}), NextDelivery)
  <2>1. /\ Fresh(None, {}).failed = None /\ Fresh(None, {}).closed = FALSE
        /\ Fresh(None, {}).started = FALSE
    BY DEF Fresh
  <2> QED  BY <1>3, <1>4, <2>1 DEF Judged, Reduce
<1>6. /\ Judged.failed = None /\ Judged.started /\ Judged.base = NextDelivery.sequence
      /\ Judged.reducedThrough = NextDelivery.sequence
      /\ Judged.foreground = [state |-> "idle", cycle |-> n, turn |-> None]
      /\ Judged.blockedCycle = None /\ Judged.actions = [a \in Action |-> None]
  BY <1>3, <1>5, OpeningProjects
<1>7. Judged.foreground # None
  <2>1. [state |-> "idle", cycle |-> n, turn |-> None] \in Foreground
    BY DEF Foreground, ForegroundState
  <2> QED  BY <1>6, <2>1, NoneIsAnIdentityOfNothing
<1>8. NextDelivery.sequence <= NextDelivery.sequence
  BY <1>3, BoundAssumption DEF Delivery, Sequence
<1>9. \A a \in Action : ~Pending(Judged, a)
  BY <1>6 DEF Pending
<1>10. Agrees(Judged, NoBlockers, held)
  BY <1>6, <1>7, <1>8, <1>9 DEF Agrees, Runs, Mapped, InHand, NoBlockers
<1> QED  BY <1>2, <1>6, <1>10 DEF GoesOn, Phase, Between

(* The prompt of a cycle that opens (Accept). *)
LEMMA AcceptingGoesOn ==
  ASSUME PublisherInv, CyclesInv, todo # <<>>, Accepting(emitter, blockers, todo, held)
  PROVE  GoesOn
<1>1. PICK c \in held :
        /\ Agrees(emitter, blockers, held) /\ emitter.foreground.state = "idle"
        /\ ~TurnKnown(emitter, c.turn)
        /\ todo = <<Step(AcceptedOf(c.turn), blockers), Step(TransitionOf("running", c), blockers)>>
  BY DEF Accepting
<1>2. /\ emitter \in ReducerState /\ emitter.failed = None /\ c \in HeldCycle
      /\ RecordedTurnsWereSeen(emitter) /\ blockers \in BlockerMap
  BY Underway
<1>3. c.turn \in Turn
  BY <1>2 DEF HeldCycle
<1>4. /\ Head(todo).event = AcceptedOf(c.turn) /\ Head(todo).blockers = blockers
      /\ Tail(todo) = <<Step(TransitionOf("running", c), blockers)>>
  BY <1>1, StepParts, FewLeft
<1> DEFINE q == Apply(emitter, AcceptedOf(c.turn))
<1>5. /\ q.failed = None /\ SameActions(q, emitter) /\ q.foreground = emitter.foreground
      /\ q.turns[c.turn] # None /\ ~q.turns[c.turn].terminal
  BY <1>1, <1>2, <1>3, AcceptOpens
<1>6. emitter.started /\ emitter.base <= emitter.reducedThrough
  BY <1>1 DEF Agrees, Runs
<1>7. Head(todo).event.type # "lifecycle_snapshot"
  BY <1>4 DEF AcceptedOf
<1> HIDE DEF q
<1>8. /\ Judged.failed = None /\ SameView(Judged, q) /\ Judged.started
      /\ Judged.base <= Judged.reducedThrough
  BY <1>4, <1>5, <1>6, <1>7, JudgedNext DEF q
<1>9. Agrees(Judged, blockers, held)
  BY <1>1, <1>5, <1>8, StillAgrees DEF SameView, SameActions
<1>10. blockers = NoBlockers
  <2>1. \A a \in Action : ~Pending(emitter, a)
    BY <1>1 DEF Agrees
  <2>2. \A a \in Action : blockers[a] = None
    BY <1>1, <2>1 DEF Agrees, Runs, Mapped
  <2> QED  BY <1>2, <2>2 DEF BlockerMap, NoBlockers
<1>11. LiveDefect(Judged, TransitionOf("running", c)) = None
  BY <1>5, <1>8 DEF SameView, LiveDefect, TurnOver, TransitionOf
<1> QED  BY <1>4, <1>8, <1>9, <1>10, <1>11 DEF GoesOn, Phase, Starting

(* The transition to running, of a cycle that opens or goes on. *)
LEMMA StartingGoesOn ==
  ASSUME PublisherInv, CyclesInv, todo # <<>>, Starting(emitter, todo, held)
  PROVE  GoesOn
<1> DEFINE run(c) == TransitionOf("running", c)
<1>1. PICK c \in held :
        /\ Agrees(emitter, NoBlockers, held) /\ LiveDefect(emitter, run(c)) = None
        /\ todo = <<Step(run(c), NoBlockers)>>
  BY DEF Starting
<1>2. emitter \in ReducerState /\ emitter.failed = None /\ c \in HeldCycle /\ None \notin Cycle
      /\ Judged \in ReducerState
  BY Underway
<1>3. Head(todo).event = run(c) /\ Head(todo).blockers = NoBlockers /\ Tail(todo) = <<>>
  BY <1>1, StepParts, FewLeft
<1>4. /\ emitter.started /\ emitter.base <= emitter.reducedThrough /\ emitter.foreground # None
      /\ emitter.blockedCycle = None /\ Mapped(emitter, NoBlockers)
      /\ Runs(emitter, NoBlockers, held)
  BY <1>1 DEF Agrees, Runs
<1>5. BlockedCycleDefect(emitter, run(c)) = None
  <2>1. ~Blocked(emitter, c.cycle)
    BY <1>2, <1>4, NothingAsked
  <2>2. c.cycle # None
    BY <1>2 DEF HeldCycle
  <2> QED  BY <1>4, <2>1, <2>2 DEF BlockedCycleDefect, TransitionOf
<1> DEFINE q == Apply(emitter, run(c))
<1>6. /\ q.failed = None /\ q.actions = emitter.actions /\ q.actionCycle = emitter.actionCycle
      /\ q.blockedCycle = None
      /\ q.foreground = [state |-> "running", cycle |-> c.cycle, turn |-> c.turn]
  BY <1>1, <1>2, <1>4, <1>5, TransitionMoves
<1>7. Head(todo).event.type # "lifecycle_snapshot"
  BY <1>3 DEF TransitionOf
<1> HIDE DEF q
<1>8. /\ Judged.failed = None /\ SameView(Judged, q) /\ Judged.started
      /\ Judged.base <= Judged.reducedThrough
  BY <1>3, <1>4, <1>6, <1>7, JudgedNext DEF q
<1>9. Judged.foreground # None
  <2>1. [state |-> "running", cycle |-> c.cycle, turn |-> c.turn] \in Foreground
    BY <1>2 DEF Foreground, ForegroundState, HeldCycle
  <2> QED  BY <1>6, <1>8, <2>1, NoneIsAnIdentityOfNothing DEF SameView
<1>10. Agrees(Judged, NoBlockers, held)
  BY <1>2, <1>4, <1>6, <1>8, <1>9, MovedAgrees DEF SameView, SameActions
<1> QED  BY <1>3, <1>8, <1>10 DEF GoesOn, Phase, Between

(* The ask of an action, alone while the cycle waits already                *)
(* (ActionPending).                                                        *)
LEMMA AskingGoesOn ==
  ASSUME PublisherInv, CyclesInv, todo # <<>>, Asking(emitter, blockers, todo, held)
  PROVE  GoesOn
<1> DEFINE m == blockers
<1>1. PICK c \in held, a \in Action :
        /\ Agrees(emitter, m, held) /\ Holds(emitter, c) /\ emitter.actions[a] = None
        /\ todo = IF BlockedBy(m, c.cycle) = {}
                  THEN <<Step(PendingOf(a, c), m),
                         Step(TransitionOf("requires_action", c), With(m, a, c.cycle))>>
                  ELSE <<Step(PendingOf(a, c), With(m, a, c.cycle))>>
  BY DEF Asking
<1>2. /\ emitter \in ReducerState /\ emitter.failed = None /\ c \in HeldCycle
      /\ RecordedTurnsWereSeen(emitter) /\ ForegroundTurnIsOpen(emitter)
      /\ m \in BlockerMap /\ MintedOnce(held, seq) /\ None \notin Cycle
  BY Underway
<1> DEFINE w == With(m, a, c.cycle)
<1>3. c.turn \in Turn /\ c.cycle \in Cycle /\ w \in BlockerMap /\ w[a] = c.cycle
  <2>1. c.turn \in Turn /\ c.cycle \in Cycle
    BY <1>2 DEF HeldCycle
  <2>2. w \in BlockerMap
    BY <1>2, <2>1, OneMoreBlocker DEF With
  <2> QED  BY <1>2, <2>1, <2>2 DEF With, BlockerMap
<1>4. /\ emitter.started /\ emitter.base <= emitter.reducedThrough /\ emitter.foreground # None
      /\ InHand(emitter, held) /\ Mapped(emitter, m)
      /\ \A b \in Action : Pending(emitter, b) => emitter.foreground.state = "requires_action"
  BY <1>1 DEF Agrees, Runs
<1>5. TurnKnown(emitter, c.turn)
  <2>1. emitter.turns[c.turn] # None
    BY <1>1, <1>2, <1>4, CurrentTurn
  <2> QED  BY <1>2, <1>3, <2>1 DEF RecordedTurnsWereSeen
<1> HIDE DEF w
<1>6. Head(todo).event = PendingOf(a, c)
  BY <1>1, StepParts, FewLeft
<1> DEFINE q == Apply(emitter, PendingOf(a, c))
<1>7. /\ q.failed = None /\ q.foreground = emitter.foreground
      /\ q.blockedCycle = IF emitter.foreground.state # "requires_action"
                          THEN emitter.foreground.cycle ELSE emitter.blockedCycle
      /\ Pending(q, a) /\ q.actions[a].blocks = "foreground"
      /\ q.actionCycle[a] = emitter.foreground.cycle
      /\ \A b \in Action \ {a} : /\ q.actions[b] = emitter.actions[b]
                                 /\ q.actionCycle[b] = emitter.actionCycle[b]
  BY <1>1, <1>2, <1>4, <1>5, AskRecords
<1>8. Head(todo).event.type # "lifecycle_snapshot"
  BY <1>6 DEF PendingOf
<1> HIDE DEF q
<1>9. /\ Judged.failed = None /\ SameView(Judged, q) /\ Judged.started
      /\ Judged.base <= Judged.reducedThrough
  BY <1>4, <1>6, <1>7, <1>8, JudgedNext DEF q
<1>10. /\ Judged.actions = q.actions /\ Judged.actionCycle = q.actionCycle
       /\ Judged.blockedCycle = q.blockedCycle /\ Judged.foreground = q.foreground
  BY <1>9 DEF SameView, SameActions
<1>11. Pending(Judged, a)
  BY <1>7, <1>10 DEF Pending
<1>12. /\ Runs(Judged, w, held) /\ Judged.blockedCycle \in {None, c.cycle}
       /\ emitter.foreground.state = "requires_action" => Agrees(Judged, w, held)
  BY <1>1, <1>2, <1>7, <1>9, <1>10, <1>11, AskedAgrees DEF w
<1>13. CASE BlockedBy(m, c.cycle) = {}
  <2>1. Tail(todo) = <<Step(TransitionOf("requires_action", c), w)>>
    BY <1>1, <1>13, FewLeft DEF w
  <2>2. Holds(Judged, c)
    BY <1>1, <1>7, <1>10 DEF Holds
  <2>3. Asked(Judged, Tail(todo), held)
    BY <1>3, <1>12, <2>1, <2>2 DEF Asked
  <2> QED  BY <1>9, <2>3 DEF GoesOn, Phase
<1>14. CASE BlockedBy(m, c.cycle) # {}
  <2>1. Tail(todo) = <<>> /\ Head(todo).blockers = w
    BY <1>1, <1>14, FewLeft, StepParts DEF w
  <2>2. PICK b \in Action : m[b] = c.cycle
    BY <1>14 DEF BlockedBy
  <2>3. Pending(emitter, b)
    BY <1>2, <1>3, <1>4, <2>2 DEF Mapped
  <2>4. Agrees(Judged, w, held)
    BY <1>4, <1>12, <2>3
  <2> QED  BY <1>9, <2>1, <2>4 DEF GoesOn, Phase, Between
<1> QED  BY <1>13, <1>14

(* The wait that follows the first ask. *)
LEMMA AskedGoesOn ==
  ASSUME PublisherInv, CyclesInv, todo # <<>>, Asked(emitter, todo, held)
  PROVE  GoesOn
<1> DEFINE wait(c) == TransitionOf("requires_action", c)
<1>1. PICK c \in held, a \in Action, m \in BlockerMap :
        /\ Runs(emitter, m, held) /\ Holds(emitter, c) /\ m[a] = c.cycle
        /\ emitter.blockedCycle \in {None, c.cycle}
        /\ todo = <<Step(wait(c), m)>>
  BY DEF Asked
<1>2. /\ emitter \in ReducerState /\ emitter.failed = None /\ c \in HeldCycle
      /\ ForegroundTurnIsOpen(emitter) /\ MintedOnce(held, seq) /\ None \notin Cycle
  BY Underway
<1>3. c.turn \in Turn /\ c.cycle \in Cycle /\ c.cycle # None
  BY <1>2 DEF HeldCycle
<1>4. /\ emitter.started /\ emitter.base <= emitter.reducedThrough /\ emitter.foreground # None
      /\ InHand(emitter, held) /\ Mapped(emitter, m)
  BY <1>1 DEF Runs
<1>5. Head(todo).event = wait(c) /\ Head(todo).blockers = m /\ Tail(todo) = <<>>
  BY <1>1, StepParts, FewLeft
<1>6. BlockedCycleDefect(emitter, wait(c)) = None
  <2>1. Pending(emitter, a)
    BY <1>1, <1>3, <1>4 DEF Mapped
  <2>2. emitter.actions[a].blocks = "foreground" /\ emitter.actionCycle[a] = c.cycle
    BY <1>1, <1>4, <2>1 DEF Mapped, Holds
  <2>3. Blocked(emitter, c.cycle)
    BY <2>1, <2>2 DEF Blocked, BlockerOf, Pending
  <2> QED  BY <2>3 DEF BlockedCycleDefect, TransitionOf
<1>7. LiveDefect(emitter, wait(c)) = None
  <2>1. emitter.turns[c.turn] # None /\ ~emitter.turns[c.turn].terminal
    BY <1>1, <1>2, <1>4, CurrentTurn
  <2> QED  BY <2>1 DEF LiveDefect, TurnOver, TransitionOf
<1> DEFINE q == Apply(emitter, wait(c))
<1>8. /\ q.failed = None /\ q.actions = emitter.actions /\ q.actionCycle = emitter.actionCycle
      /\ q.blockedCycle = IF emitter.blockedCycle = c.cycle THEN None ELSE emitter.blockedCycle
      /\ q.foreground = [state |-> "requires_action", cycle |-> c.cycle, turn |-> c.turn]
  BY <1>2, <1>6, <1>7, TransitionMoves
<1>9. q.blockedCycle = None
  BY <1>1, <1>8
<1>10. Head(todo).event.type # "lifecycle_snapshot"
  BY <1>5 DEF TransitionOf
<1> HIDE DEF q
<1>11. /\ Judged.failed = None /\ SameView(Judged, q) /\ Judged.started
       /\ Judged.base <= Judged.reducedThrough
  BY <1>4, <1>5, <1>8, <1>10, JudgedNext DEF q
<1>12. Judged.foreground # None
  <2>1. [state |-> "requires_action", cycle |-> c.cycle, turn |-> c.turn] \in Foreground
    BY <1>3 DEF Foreground, ForegroundState
  <2> QED  BY <1>8, <1>11, <2>1, NoneIsAnIdentityOfNothing DEF SameView
<1>13. c.cycle = emitter.foreground.cycle
  BY <1>1 DEF Holds
<1>14. Agrees(Judged, m, held)
  BY <1>1, <1>2, <1>8, <1>9, <1>11, <1>12, <1>13, MovedAgrees DEF SameView, SameActions
<1> QED  BY <1>5, <1>11, <1>14 DEF GoesOn, Phase, Between

(* The answer, and the cycle that goes on when it was the last              *)
(* (ActionResolved).                                                       *)
LEMMA AnsweringGoesOn ==
  ASSUME PublisherInv, CyclesInv, todo # <<>>, Answering(emitter, blockers, todo, held)
  PROVE  GoesOn
<1> DEFINE m == blockers
<1>1. PICK c \in held, a \in Action, state \in {"accepted", "declined"} :
        /\ m[a] = None /\ Agrees(emitter, With(m, a, c.cycle), held)
        /\ todo = AnsweringSteps(c, a, state, m)
  BY DEF Answering
<1> DEFINE w == With(m, a, c.cycle)
           answer == ResolvedOf(a, state)
           run == TransitionOf("running", c)
<1>2. /\ emitter \in ReducerState /\ emitter.failed = None /\ c \in HeldCycle
      /\ ForegroundTurnIsOpen(emitter) /\ MintedOnce(held, seq) /\ None \notin Cycle
      /\ m \in BlockerMap /\ Judged \in ReducerState
  BY Underway
<1>3. c.turn \in Turn /\ c.cycle \in Cycle /\ c.cycle # None
  BY <1>2 DEF HeldCycle
<1>4. w \in BlockerMap /\ w[a] = c.cycle /\ Without(w, a) = m
  <2>1. w \in BlockerMap
    BY <1>2, <1>3, OneMoreBlocker DEF With
  <2>2. m \in [Action -> Cycle \cup {None}]
    BY <1>2 DEF BlockerMap
  <2>3. w[a] = c.cycle /\ Without(w, a) = m
    BY <1>1, <2>2 DEF With, Without
  <2> QED  BY <2>1, <2>3
<1>5. Agrees(emitter, w, held)
  BY <1>1
<1> HIDE DEF w
<1>6. /\ emitter.started /\ emitter.base <= emitter.reducedThrough /\ emitter.foreground # None
      /\ InHand(emitter, held) /\ Mapped(emitter, w)
      /\ \A b \in Action : Pending(emitter, b) => emitter.foreground.state = "requires_action"
  BY <1>5 DEF Agrees, Runs
<1>7. Pending(emitter, a) /\ emitter.foreground.cycle = c.cycle
      /\ emitter.foreground.state = "requires_action"
  <2>1. Pending(emitter, a)
    BY <1>3, <1>4, <1>6 DEF Mapped
  <2> QED  BY <1>4, <1>6, <2>1 DEF Mapped
<1>8. Holds(emitter, c)
  BY <1>7 DEF Holds
<1>9. /\ Head(todo).event = answer /\ Head(todo).blockers = m
      /\ Tail(todo) = IF BlockedBy(m, c.cycle) # {} THEN <<>> ELSE <<Step(run, m)>>
  BY <1>1, StepParts, FewLeft DEF AnsweringSteps
<1> DEFINE q == Apply(emitter, answer)
<1>10. /\ q.failed = None /\ q.foreground = emitter.foreground /\ q.turns = emitter.turns
       /\ q.blockedCycle = emitter.blockedCycle /\ q.actionCycle = emitter.actionCycle
       /\ ~Pending(q, a)
       /\ \A b \in Action \ {a} : q.actions[b] = emitter.actions[b]
  <2>1. state \in TerminalActionState
    BY DEF TerminalActionState
  <2> QED  BY <1>2, <1>7, <2>1, AnswerPatches
<1>11. Head(todo).event.type # "lifecycle_snapshot"
  BY <1>9 DEF ResolvedOf
<1> HIDE DEF q
<1>12. /\ Judged.failed = None /\ SameView(Judged, q) /\ Judged.started
       /\ Judged.base <= Judged.reducedThrough
  BY <1>6, <1>9, <1>10, <1>11, JudgedNext DEF q
<1>13. /\ Judged.actions = q.actions /\ Judged.actionCycle = q.actionCycle
       /\ Judged.blockedCycle = q.blockedCycle /\ Judged.foreground = q.foreground
       /\ Judged.turns = q.turns
  BY <1>12 DEF SameView, SameActions
<1>14. ~Pending(Judged, a)
  BY <1>10, <1>13 DEF Pending
<1>15. Agrees(Judged, m, held)
  BY <1>2, <1>4, <1>5, <1>10, <1>12, <1>13, <1>14, AnsweredAgrees
<1>16. CASE BlockedBy(m, c.cycle) # {}
  BY <1>9, <1>12, <1>15, <1>16 DEF GoesOn, Phase, Between
<1>17. CASE BlockedBy(m, c.cycle) = {}
  <2>1. m = NoBlockers
    <3>1. Judged.foreground.cycle = c.cycle /\ Mapped(Judged, m)
      BY <1>7, <1>10, <1>13, <1>15 DEF Agrees, Runs
    <3> QED  BY <1>2, <1>17, <3>1, NothingMapped
  <2>2. LiveDefect(Judged, run) = None
    <3>1. emitter.turns[c.turn] # None /\ ~emitter.turns[c.turn].terminal
      BY <1>2, <1>6, <1>8, CurrentTurn
    <3> QED  BY <1>10, <1>13, <3>1 DEF LiveDefect, TurnOver, TransitionOf
  <2>3. Starting(Judged, Tail(todo), held)
    BY <1>9, <1>15, <1>17, <2>1, <2>2 DEF Starting
  <2> QED  BY <1>12, <2>3 DEF GoesOn, Phase
<1> QED  BY <1>16, <1>17

(* What ends a cycle is, after its first step, what still ends it. *)
LEMMA EndsFurther ==
  ASSUME NEW T, NEW steps \in Seq(T), NEW m, NEW c, Ends(steps, m, c), Len(steps) > 1
  PROVE  Ends(Tail(steps), Head(steps).blockers, c)
<1> DEFINE n == Len(steps)
           rest == Tail(steps)
           after == Head(steps).blockers
<1>1. n \in Nat /\ n > 1 /\ Len(rest) = n - 1
  BY HeadTailProperties
<1>2. /\ \A i \in 1 .. n - 1 : rest[i] = steps[i + 1]
      /\ Head(steps) = steps[1]
  BY HeadTailProperties
<1> HIDE DEF n, rest
<1>3. ASSUME NEW i \in 1 .. n - 1
      PROVE  Before(rest, i, after) = Before(steps, i + 1, m)
  <2>1. CASE i = 1
    BY <1>2, <2>1 DEF Before
  <2>2. CASE i # 1
    <3>1. i - 1 \in 1 .. n - 1 /\ (i - 1) + 1 = i /\ (i + 1) - 1 = i /\ i + 1 # 1
      BY <1>1, <2>2
    <3>2. rest[i - 1] = steps[i]
      BY <1>2, <3>1
    <3> QED  BY <2>2, <3>1, <3>2 DEF Before
  <2> QED  BY <2>1, <2>2
<1> DEFINE cancels(s, b) == \E a \in Action :
                              b[a] # None /\ s = Step(ResolvedOf(a, "cancelled"), Without(b, a))
           ends(s) == \E stop \in {"stated", None}, outcome \in {"success", "failed"} :
                        /\ (outcome = "failed") = (stop = None)
                        /\ s = Step(IdleOf(c, stop, outcome), NoBlockers)
<1>4. /\ Before(steps, n, m) = NoBlockers /\ ends(steps[n])
      /\ \A i \in 1 .. n - 1 : cancels(steps[i], Before(steps, i, m))
  BY DEF Ends, n
<1> HIDE DEF cancels, ends, after
<1>5. n - 1 >= 1 /\ n - 1 \in 1 .. n - 1 /\ (n - 1) + 1 = n
  BY <1>1
<1>6. Before(rest, n - 1, after) = NoBlockers /\ ends(rest[n - 1])
  BY <1>2, <1>3, <1>4, <1>5
<1>7. ASSUME NEW i \in 1 .. (n - 1) - 1
      PROVE  cancels(rest[i], Before(rest, i, after))
  <2>1. i \in 1 .. n - 1 /\ i + 1 \in 1 .. n - 1
    BY <1>1
  <2> QED  BY <1>2, <1>3, <1>4, <2>1
<1>8. Ends(rest, after, c)
  BY <1>1, <1>5, <1>6, <1>7 DEF Ends, cancels, ends
<1> QED  BY <1>8 DEF rest, after

(* The cancellations that end a cycle, and the transition that does (Idle). *)
LEMMA EndingGoesOn ==
  ASSUME PublisherInv, CyclesInv, todo # <<>>, Ending(emitter, blockers, todo, held)
  PROVE  GoesOn
<1> DEFINE m == blockers
           n == Len(todo)
<1>1. PICK c \in held : Agrees(emitter, m, held) /\ Holds(emitter, c) /\ Ends(todo, m, c)
  BY DEF Ending
<1>2. /\ emitter \in ReducerState /\ emitter.failed = None /\ c \in HeldCycle
      /\ ForegroundTurnIsOpen(emitter) /\ MintedOnce(held, seq) /\ None \notin Cycle
      /\ m \in BlockerMap /\ todo \in Seq(StepOf)
  BY Underway
<1>3. c.turn \in Turn /\ c.cycle \in Cycle /\ c.cycle # None
  BY <1>2 DEF HeldCycle
<1>4. /\ emitter.started /\ emitter.base <= emitter.reducedThrough /\ emitter.foreground # None
      /\ InHand(emitter, held) /\ Mapped(emitter, m) /\ emitter.blockedCycle = None
  BY <1>1 DEF Agrees, Runs
<1>5. n \in Nat /\ n >= 1 /\ Head(todo) = todo[1] /\ Len(Tail(todo)) = n - 1
  BY <1>2, HeadTailProperties
<1>6. CASE n = 1
  <2>1. m = NoBlockers /\ Tail(todo) = <<>>
    <3>1. Before(todo, 1, m) = NoBlockers
      BY <1>1, <1>6 DEF Ends
    <3>2. Tail(todo) \in Seq(StepOf) /\ Len(Tail(todo)) = 0
      BY <1>2, <1>5, <1>6, HeadTailProperties
    <3> QED  BY <3>1, <3>2, EmptySeq DEF Before
  <2>2. PICK stop \in {"stated", None}, outcome \in {"success", "failed"} :
          /\ (outcome = "failed") = (stop = None)
          /\ Head(todo) = Step(IdleOf(c, stop, outcome), NoBlockers)
    BY <1>1, <1>5, <1>6 DEF Ends
  <2> DEFINE e == IdleOf(c, stop, outcome)
             q == Apply(emitter, e)
  <2>3. Head(todo).event = e /\ Head(todo).blockers = NoBlockers
    BY <2>2, StepParts
  <2>4. ~Blocked(emitter, c.cycle)
    BY <1>2, <1>4, <2>1, NothingAsked
  <2>5. emitter.turns[c.turn] # None /\ ~emitter.turns[c.turn].terminal
    BY <1>1, <1>2, <1>4, CurrentTurn
  <2>6. /\ q.failed = None /\ SameActions(q, emitter)
        /\ q.foreground = [state |-> "idle", cycle |-> c.cycle, turn |-> None]
    <3>1. emitter.blockedCycle # c.cycle
      BY <1>3, <1>4
    <3> HIDE DEF m, n
    <3> QED  BY <1>2, <2>2, <2>4, <2>5, <3>1, IdleMoves
  <2>7. e.type # "lifecycle_snapshot"
    BY DEF IdleOf, TransitionOf
  <2> HIDE DEF e, q
  <2>8. /\ Judged.failed = None /\ SameView(Judged, q) /\ Judged.started
        /\ Judged.base <= Judged.reducedThrough
    BY <1>4, <2>3, <2>6, <2>7, JudgedNext DEF q
  <2>9. /\ SameActions(Judged, emitter)
        /\ Judged.foreground = [state |-> "idle", cycle |-> c.cycle, turn |-> None]
    BY <2>6, <2>8 DEF SameView, SameActions
  <2>10. Judged.foreground # None
    <3>1. [state |-> "idle", cycle |-> c.cycle, turn |-> None] \in Foreground
      BY <1>3 DEF Foreground, ForegroundState
    <3> QED  BY <2>9, <3>1, NoneIsAnIdentityOfNothing
  <2>11. Agrees(emitter, NoBlockers, held)
    BY <1>1, <2>1
  <2>12. Agrees(Judged, NoBlockers, held)
    BY <1>2, <2>8, <2>9, <2>10, <2>11, EndedAgrees
  <2> QED  BY <2>1, <2>3, <2>8, <2>12 DEF GoesOn, Phase, Between
<1>7. CASE n > 1
  <2>1. PICK a \in Action : m[a] # None /\ Head(todo) = Step(ResolvedOf(a, "cancelled"), Without(m, a))
    <3>1. 1 \in 1 .. n - 1 /\ Before(todo, 1, m) = m
      BY <1>5, <1>7 DEF Before
    <3> QED  BY <1>1, <1>5, <3>1 DEF Ends
  <2> DEFINE e == ResolvedOf(a, "cancelled")
             w == Without(m, a)
             q == Apply(emitter, e)
  <2>2. Head(todo).event = e /\ Head(todo).blockers = w
    BY <2>1, StepParts
  <2>3. Pending(emitter, a)
    BY <1>4, <2>1 DEF Mapped
  <2>4. /\ q.failed = None /\ q.foreground = emitter.foreground /\ q.turns = emitter.turns
        /\ q.blockedCycle = emitter.blockedCycle /\ q.actionCycle = emitter.actionCycle
        /\ ~Pending(q, a)
        /\ \A b \in Action \ {a} : q.actions[b] = emitter.actions[b]
    <3>1. "cancelled" \in TerminalActionState
      BY DEF TerminalActionState
    <3> QED  BY <1>2, <2>3, <3>1, AnswerPatches
  <2>5. e.type # "lifecycle_snapshot"
    BY DEF ResolvedOf
  <2> HIDE DEF e, q, w
  <2>6. /\ Judged.failed = None /\ SameView(Judged, q) /\ Judged.started
        /\ Judged.base <= Judged.reducedThrough
    BY <1>4, <2>2, <2>4, <2>5, JudgedNext DEF q
  <2>7. /\ Judged.actions = q.actions /\ Judged.actionCycle = q.actionCycle
        /\ Judged.blockedCycle = q.blockedCycle /\ Judged.foreground = q.foreground
    BY <2>6 DEF SameView, SameActions
  <2>8. ~Pending(Judged, a)
    BY <2>4, <2>7 DEF Pending
  <2>9. Agrees(Judged, w, held)
    <3>1. Judged \in ReducerState
      BY Underway
    <3> QED  BY <1>1, <1>2, <2>4, <2>6, <2>7, <2>8, <3>1, AnsweredAgrees DEF w
  <2>10. Holds(Judged, c)
    BY <1>1, <2>4, <2>7 DEF Holds
  <2>11. Ends(Tail(todo), w, c)
    BY <1>1, <1>2, <1>7, <2>2, EndsFurther
  <2>12. Ending(Judged, w, Tail(todo), held)
    BY <2>9, <2>10, <2>11 DEF Ending
  <2> QED  BY <2>2, <2>6, <2>12 DEF GoesOn, Phase
<1> QED  BY <1>5, <1>6, <1>7

-----------------------------------------------------------------------------
(* The invariant *)

(* Whatever phase a method is in, its next event is accepted. *)
LEMMA PhaseGoesOn ==
  ASSUME PublisherInv, CyclesInv, todo # <<>>, Phase(emitter, blockers, todo, held)
  PROVE  GoesOn
BY OpeningGoesOn, AcceptingGoesOn, StartingGoesOn, AskingGoesOn, AskedGoesOn, AnsweringGoesOn,
   EndingGoesOn DEF Phase, Between

(* emit, of a disciplined caller's method. *)
LEMMA EmitKeepsDiscipline ==
  ASSUME PublisherInv, CyclesInv, DisciplineInv, Emit, UNCHANGED disciplined
  PROVE  DisciplineInv'
<1> SUFFICES ASSUME disciplined
             PROVE  emitter'.failed = None /\ (Active' => Phase(emitter', blockers', todo', held'))
  BY DEF DisciplineInv
<1>1. todo # <<>>
  BY DEF Emit, EmitRefused, EmitDelivered, EmitUndelivered
<1>2. Active /\ Judged \in ReducerState
  BY <1>1, DeliveryTyped
<1>3. GoesOn
  BY <1>1, <1>2, PhaseGoesOn DEF DisciplineInv
<1>4. CASE EmitRefused
  BY <1>3, <1>4 DEF EmitRefused, GoesOn
<1>5. CASE EmitDelivered
  BY <1>3, <1>5 DEF EmitDelivered, GoesOn
<1>6. CASE EmitUndelivered
  <2>1. Close(Judged).closed /\ Close(Judged).failed = Judged.failed
    BY <1>2 DEF Close, ReducerState
  <2>2. emitter' = Close(Judged)
    BY <1>6 DEF EmitUndelivered
  <2> QED  BY <1>3, <2>1, <2>2 DEF Active, GoesOn
<1> QED  BY <1>4, <1>5, <1>6 DEF Emit

-----------------------------------------------------------------------------
(* Calls of disciplined callers *)

(* The order in which Idle cancels names each blocker of the cycle once. *)
LEMMA CancelsEachOnce ==
  ASSUME NEW m \in BlockerMap, NEW c \in Cycle
  PROVE  LET open == BlockedBy(m, c)
             order == CHOOSE s \in [1 .. Cardinality(open) -> open] :
                         \A i, j \in DOMAIN s : s[i] = s[j] => i = j
         IN  /\ order \in [1 .. Cardinality(open) -> open]
             /\ \A i, j \in 1 .. Cardinality(open) : order[i] = order[j] => i = j
             /\ \A a \in open : \E i \in 1 .. Cardinality(open) : order[i] = a
<1> DEFINE open == BlockedBy(m, c)
           n == Cardinality(open)
           order == CHOOSE s \in [1 .. n -> open] : \A i, j \in DOMAIN s : s[i] = s[j] => i = j
<1>1. open \in SUBSET {a \in Action : m[a] # None}
  BY NoneIsAnIdentityOfNothing DEF BlockedBy
<1>2. IsFiniteSet(open)
  BY <1>1, FS_Subset DEF BlockerMap
<1>3. n \in Nat /\ ExistsBijection(1 .. n, open)
  BY <1>2, FS_CardinalityType
<1> HIDE DEF n, open
<1>4. PICK s : s \in Bijection(1 .. n, open)
  BY <1>3 DEF ExistsBijection
<1>5. s \in [1 .. n -> open] /\ \A i, j \in DOMAIN s : s[i] = s[j] => i = j
  BY <1>4 DEF Bijection, Injection, IsInjective
<1>6. order \in [1 .. n -> open] /\ \A i, j \in DOMAIN order : order[i] = order[j] => i = j
  BY <1>5
<1> HIDE DEF order
<1>7. order \in Injection(1 .. n, open)
  BY <1>6 DEF Injection, IsInjective
<1>8. Cardinality(1 .. n) = n
  BY <1>3, FS_CardinalityType, FS_Interval
<1>9. order \in Surjection(1 .. n, open)
  <2>1. n = Cardinality(open)
    BY DEF n
  <2> QED  BY <1>2, <1>7, <1>8, <2>1, FS_Injection
<1>10. \A a \in open : \E i \in 1 .. n : order[i] = a
  BY <1>9 DEF Surjection
<1> QED  BY <1>6, <1>10 DEF order, n, open

(* What Idle emits ends the cycle: every blocker in the map is one of the  *)
(* cycle's, and is cancelled once.                                         *)
LEMMA EndingStepsEnd ==
  ASSUME blockers \in BlockerMap, NEW c \in HeldCycle, NEW n \in Nat,
         NEW order \in [1 .. n -> Action],
         \A i, j \in 1 .. n : order[i] = order[j] => i = j,
         \A i \in 1 .. n : blockers[order[i]] # None,
         \A a \in Action : blockers[a] # None => \E i \in 1 .. n : order[i] = a,
         NEW stop \in {"stated", None}, NEW outcome \in {"success", "failed"},
         outcome # "failed" => stop # None
  PROVE  Ends(EndingSteps(order, c, stop, outcome), blockers, c)
<1> DEFINE left(i) == [a \in Action |->
                         IF \E j \in 1 .. i : order[j] = a THEN None ELSE blockers[a]]
           stated == IF outcome = "failed" THEN None ELSE stop
           cancelled == [i \in 1 .. n |-> Step(ResolvedOf(order[i], "cancelled"), left(i))]
           idle == Step(IdleOf(c, stated, outcome), left(n))
           steps == cancelled \o <<idle>>
<1>1. blockers \in [Action -> Cycle \cup {None}]
  BY DEF BlockerMap
<1>2. left(0) = blockers
  BY <1>1
<1>3. left(n) = NoBlockers
  BY DEF NoBlockers
<1>4. ASSUME NEW i \in 1 .. n
      PROVE  left(i - 1)[order[i]] # None /\ left(i) = Without(left(i - 1), order[i])
  <2>1. \A j \in 1 .. i - 1 : order[j] # order[i]
    OBVIOUS
  <2>2. left(i - 1)[order[i]] = blockers[order[i]]
    BY <2>1
  <2>3. ASSUME NEW a \in Action
        PROVE  left(i)[a] = IF a = order[i] THEN None ELSE left(i - 1)[a]
    <3>1. CASE a = order[i]
      BY <3>1
    <3>2. CASE a # order[i]
      <4>1. (\E j \in 1 .. i : order[j] = a) <=> \E j \in 1 .. i - 1 : order[j] = a
        BY <3>2
      <4> QED  BY <3>2, <4>1
    <3> QED  BY <3>1, <3>2
  <2>4. /\ Without(left(i - 1), order[i])
           = [a \in Action |-> IF a = order[i] THEN None ELSE left(i - 1)[a]]
        /\ left(i) = [a \in Action |-> left(i)[a]]
    BY DEF Without
  <2>5. left(i) = Without(left(i - 1), order[i])
    <3> HIDE DEF left
    <3> QED  BY <2>3, <2>4
  <2> QED  BY <2>2, <2>5
<1> HIDE DEF left
<1>5. Len(order) = n
  OBVIOUS
<1>6. EndingSteps(order, c, stop, outcome) = steps
  BY <1>5 DEF EndingSteps, left
<1>7. stated \in {"stated", None} /\ (outcome = "failed") = (stated = None)
  OBVIOUS
<1> HIDE DEF stated
<1>8. Len(steps) = n + 1 /\ \A i \in 1 .. n + 1 : steps[i] = IF i <= n THEN cancelled[i] ELSE idle
  <2> DEFINE S == {cancelled[i] : i \in 1 .. n} \cup {idle}
  <2>1. cancelled \in Seq(S) /\ Len(cancelled) = n
    <3>1. cancelled \in [1 .. n -> S]
      OBVIOUS
    <3> HIDE DEF cancelled
    <3> QED  BY <3>1
  <2>2. <<idle>> \in Seq(S) /\ Len(<<idle>>) = 1 /\ <<idle>>[1] = idle
    OBVIOUS
  <2> HIDE DEF cancelled, idle, S
  <2>3. /\ Len(steps) = Len(cancelled) + Len(<<idle>>)
        /\ \A i \in 1 .. Len(cancelled) + Len(<<idle>>) :
             steps[i] = IF i <= Len(cancelled) THEN cancelled[i] ELSE <<idle>>[i - Len(cancelled)]
    BY <2>1, <2>2, ConcatProperties
  <2> QED  BY <2>1, <2>2, <2>3
<1> HIDE DEF steps
<1>9. \A i \in 1 .. n : /\ steps[i] = Step(ResolvedOf(order[i], "cancelled"), left(i))
                        /\ steps[i].blockers = left(i)
  BY <1>8, StepParts
<1>10. steps[n + 1] = Step(IdleOf(c, stated, outcome), NoBlockers)
  BY <1>3, <1>8
<1>11. ASSUME NEW i \in 1 .. n + 1
       PROVE  Before(steps, i, blockers) = left(i - 1)
  <2>1. CASE i = 1
    BY <1>2, <2>1 DEF Before
  <2>2. CASE i # 1
    <3>1. i - 1 \in 1 .. n
      BY <2>2
    <3> QED  BY <1>9, <2>2, <3>1 DEF Before
  <2> QED  BY <2>1, <2>2
<1>12. ASSUME NEW i \in 1 .. (n + 1) - 1
       PROVE  \E a \in Action :
                /\ Before(steps, i, blockers)[a] # None
                /\ steps[i] = Step(ResolvedOf(a, "cancelled"),
                                   Without(Before(steps, i, blockers), a))
  <2>1. i \in 1 .. n /\ i \in 1 .. n + 1 /\ order[i] \in Action
    OBVIOUS
  <2>2. Before(steps, i, blockers) = left(i - 1)
    BY <1>11, <2>1
  <2>3. left(i - 1)[order[i]] # None /\ left(i) = Without(left(i - 1), order[i])
    BY <1>4, <2>1
  <2>4. steps[i] = Step(ResolvedOf(order[i], "cancelled"), left(i))
    BY <1>9, <2>1
  <2>5. steps[i] = Step(ResolvedOf(order[i], "cancelled"),
                        Without(Before(steps, i, blockers), order[i]))
    BY <2>2, <2>3, <2>4
  <2>6. Before(steps, i, blockers)[order[i]] # None
    BY <2>2, <2>3
  <2> QED  BY <2>1, <2>5, <2>6
<1>13. Before(steps, n + 1, blockers) = NoBlockers /\ n + 1 >= 1
  <2>1. n + 1 \in 1 .. n + 1 /\ (n + 1) - 1 = n
    OBVIOUS
  <2> QED  BY <1>3, <1>11, <2>1
<1>14. Ends(steps, blockers, c)
  BY <1>7, <1>8, <1>10, <1>12, <1>13 DEF Ends
<1> QED  BY <1>6, <1>14

(* The lock is free between methods only. *)
LEMMA BetweenMethods ==
  ASSUME DisciplineInv, disciplined, Active, Unlocked
  PROVE  Agrees(emitter, blockers, held) /\ emitter.failed = None
<1>1. todo = <<>> /\ emitter.failed = None /\ Phase(emitter, blockers, todo, held)
  BY DEF DisciplineInv, Unlocked
<1>2. \A x : <<x>> # <<>>
  OBVIOUS
<1>3. \A x, y : <<x, y>> # <<>>
  OBVIOUS
<1>4. ~Opening(emitter, todo) /\ ~Starting(emitter, todo, held) /\ ~Asked(emitter, todo, held)
  BY <1>1, <1>2 DEF Opening, Starting, Asked
<1>5. ~Accepting(emitter, blockers, todo, held)
  BY <1>1, <1>3 DEF Accepting
<1>6. ~Asking(emitter, blockers, todo, held) /\ ~Answering(emitter, blockers, todo, held)
  BY <1>1, <1>2, <1>3 DEF Asking, Answering, AnsweringSteps
<1>7. ~Ending(emitter, blockers, todo, held)
  <2>1. Len(todo) = 0
    BY <1>1
  <2> QED  BY <2>1 DEF Ending, Ends
<1> QED  BY <1>1, <1>4, <1>5, <1>6, <1>7 DEF Phase, Between

(* An agreement survives new cycles in hand. *)
LEMMA StillInHand ==
  ASSUME NEW r, NEW m, NEW cs, NEW more, cs \subseteq more, Agrees(r, m, cs)
  PROVE  Agrees(r, m, more)
BY DEF Agrees, Runs, InHand

(* A stream opens with its snapshot to emit (Open). *)
LEMMA OpenDisciplined ==
  ASSUME PublisherInv, NEW s \in Stream, Open(s)
  PROVE  emitter'.failed = None /\ Phase(emitter', blockers', todo', held')
<1>1. /\ emitter' = Fresh(None, {}) /\ seq' = seq + 1 /\ seq + 1 <= MaxId
      /\ todo' = <<Step(SnapshotOf(seq'), NoBlockers)>>
  BY DEF Open
<1>2. seq' \in Cycle
  <2>1. seq \in 0 .. MaxId /\ MaxId \in Nat
    BY PublisherAssumption DEF PublisherInv, TypedInv, TypeOK
  <2> QED  BY <1>1, <2>1, PublisherAssumption
<1>3. Fresh(None, {}).failed = None /\ ~Fresh(None, {}).started
  BY DEF Fresh
<1> QED  BY <1>1, <1>2, <1>3 DEF Phase, Opening

(* A prompt finds the foreground idle and mints a turn never named (Accept). *)
LEMMA AcceptDisciplined ==
  ASSUME PublisherInv, CyclesInv, DisciplineInv, disciplined, Accept
  PROVE  emitter' = emitter /\ Phase(emitter', blockers', todo', held')
<1> DEFINE c == [turn |-> seq + 1, cycle |-> seq + 2, origin |-> "submission",
                 incarnation |-> None]
<1>1. /\ Unlocked /\ Active /\ emitter.foreground.state = "idle"
      /\ held' = held \cup {c} /\ emitter' = emitter /\ blockers' = blockers
      /\ todo' = <<Step(AcceptedOf(c.turn), blockers), Step(TransitionOf("running", c), blockers)>>
  BY DEF Accept, Begins, Permits, ForegroundIsFree
<1>2. Agrees(emitter, blockers, held \cup {c})
  BY <1>1, BetweenMethods, StillInHand
<1>3. ~TurnKnown(emitter, c.turn)
  <2>1. held \subseteq HeldCycle /\ seq \in Int
    BY PublisherAssumption DEF PublisherInv, TypedInv, TypeOK
  <2>2. \A d \in held : d.turn \in Int /\ d.turn <= seq
    BY <2>1, PublisherAssumption DEF CyclesInv, MintedOnce, HeldCycle
  <2>3. \A d \in held : d.turn # seq + 1
    BY <2>1, <2>2
  <2>4. \A t \in emitter.turnSeen : \E d \in held : d.turn = t
    BY <1>1, EmitterTurnsHere DEF TurnsHere
  <2> QED  BY <2>3, <2>4 DEF TurnKnown
<1>4. c \in held \cup {c}
  OBVIOUS
<1> HIDE DEF c
<1>5. Accepting(emitter, blockers, todo', held')
  BY <1>1, <1>2, <1>3, <1>4 DEF Accepting
<1> QED  BY <1>1, <1>5 DEF Phase

(* An agent cycle that opens has its turn to itself (OpenAgentCycle). *)
LEMMA OpenAgentDisciplined ==
  ASSUME PublisherInv, CyclesInv, DisciplineInv, disciplined, NEW c \in held, OpenAgentCycle(c)
  PROVE  emitter' = emitter /\ Phase(emitter', blockers', todo', held')
<1>1. /\ Unlocked /\ Active /\ emitter.foreground.state = "idle" /\ ~TurnKnown(emitter, c.turn)
      /\ c.origin = "activity" /\ held' = held /\ emitter' = emitter /\ blockers' = blockers
      /\ todo' = <<Step(TransitionOf("running", c), blockers)>>
  BY DEF OpenAgentCycle, Begins, BelongsHere, Permits, ForegroundIsFree
<1>2. /\ held \subseteq HeldCycle /\ RecordedTurnsWereSeen(emitter)
      /\ blockers \in [Action -> Cycle \cup {None}]
  BY DEF PublisherInv, TypedInv, TypeOK, CyclesInv, Sound, Coherent
<1>3. Agrees(emitter, blockers, held)
  BY <1>1, BetweenMethods
<1>4. blockers = NoBlockers
  <2>1. \A a \in Action : ~Pending(emitter, a)
    BY <1>1, <1>3 DEF Agrees
  <2>2. \A a \in Action : blockers[a] = None
    BY <1>3, <2>1 DEF Agrees, Runs, Mapped
  <2> QED  BY <1>2, <2>2 DEF NoBlockers
<1>5. LiveDefect(emitter, TransitionOf("running", c)) = None
  <2>1. c.turn \in Turn
    BY <1>2 DEF HeldCycle
  <2>2. emitter.turns[c.turn] = None
    BY <1>1, <1>2, <2>1 DEF RecordedTurnsWereSeen
  <2> QED  BY <1>1, <2>2 DEF LiveDefect, TurnOver, TransitionOf
<1>6. Starting(emitter, todo', held)
  BY <1>1, <1>3, <1>4, <1>5 DEF Starting
<1> QED  BY <1>1, <1>6 DEF Phase

(* An ask of the open cycle (ActionPending). *)
LEMMA AskDisciplined ==
  ASSUME PublisherInv, DisciplineInv, disciplined,
         NEW c \in held, NEW a \in Action, ActionPending(c, a)
  PROVE  emitter' = emitter /\ Phase(emitter', blockers', todo', held')
<1>1. /\ Unlocked /\ Active /\ Holds(emitter, c) /\ emitter.actions[a] = None
      /\ held' = held /\ emitter' = emitter /\ blockers' = blockers
      /\ todo' = AskingSteps(c, a)
  BY DEF ActionPending, Begins, Permits, HoldsForeground, Holds
<1>2. Agrees(emitter, blockers, held)
  BY <1>1, BetweenMethods
<1>3. Asking(emitter, blockers, todo', held)
  BY <1>1, <1>2 DEF Asking, AskingSteps, With
<1> QED  BY <1>1, <1>3 DEF Phase

(* An answer to what the map names (ActionResolved). *)
LEMMA AnswerDisciplined ==
  ASSUME PublisherInv, DisciplineInv, disciplined, NEW c \in held, NEW a \in Action,
         NEW state \in {"accepted", "declined"}, ActionResolved(c, a, state)
  PROVE  emitter' = emitter /\ Phase(emitter', blockers', todo', held')
<1> DEFINE left == Without(blockers, a)
<1>1. /\ Unlocked /\ Active /\ blockers[a] = c.cycle
      /\ held' = held /\ emitter' = emitter /\ blockers' = left
      /\ todo' = AnsweringSteps(c, a, state, left)
  BY DEF ActionResolved, Begins, Without
<1>2. Agrees(emitter, blockers, held)
  BY <1>1, BetweenMethods
<1>3. blockers \in [Action -> Cycle \cup {None}]
  BY DEF PublisherInv, TypedInv, TypeOK
<1>4. left[a] = None /\ With(left, a, c.cycle) = blockers
  BY <1>1, <1>3 DEF With, Without
<1> HIDE DEF left
<1>5. Answering(emitter, left, todo', held)
  BY <1>1, <1>2, <1>4 DEF Answering
<1> QED  BY <1>1, <1>5 DEF Phase

(* The end of the open cycle (Idle). *)
LEMMA IdleDisciplined ==
  ASSUME PublisherInv, DisciplineInv, disciplined, NEW c \in held,
         NEW stop \in {"stated", None}, NEW outcome \in {"success", "failed"},
         Idle(c, stop, outcome)
  PROVE  emitter' = emitter /\ Phase(emitter', blockers', todo', held')
<1> DEFINE open == BlockedBy(blockers, c.cycle)
           n == Cardinality(open)
           order == CHOOSE s \in [1 .. n -> open] : \A i, j \in DOMAIN s : s[i] = s[j] => i = j
<1>1. /\ Unlocked /\ Active /\ Holds(emitter, c) /\ (outcome # "failed" => stop # None)
      /\ held' = held /\ emitter' = emitter /\ blockers' = blockers
      /\ todo' = EndingSteps(order, c, stop, outcome)
  BY DEF Idle, Begins, Permits, HoldsForeground, Holds
<1>2. /\ blockers \in BlockerMap /\ c \in HeldCycle /\ c.cycle \in Cycle /\ c.cycle # None
      /\ None \notin Cycle
  BY NoneIsAnIdentityOfNothing DEF PublisherInv, TypedInv, TypeOK, HeldCycle
<1>3. n \in Nat
  BY <1>2, CancellationOrder
<1>4. /\ order \in [1 .. n -> open]
      /\ \A i, j \in 1 .. n : order[i] = order[j] => i = j
      /\ \A a \in open : \E i \in 1 .. n : order[i] = a
  BY <1>2, CancelsEachOnce
<1>5. Agrees(emitter, blockers, held)
  BY <1>1, BetweenMethods
<1>6. \A a \in open : a \in Action /\ blockers[a] = c.cycle
  BY DEF BlockedBy
<1>7. ASSUME NEW a \in Action, blockers[a] # None
      PROVE  a \in open
  BY <1>1, <1>5, <1>7 DEF Agrees, Runs, Mapped, Holds, BlockedBy
<1> HIDE DEF order, n, open
<1>8. order \in [1 .. n -> Action] /\ \A i \in 1 .. n : blockers[order[i]] # None
  BY <1>2, <1>4, <1>6
<1>9. \A a \in Action : blockers[a] # None => \E i \in 1 .. n : order[i] = a
  BY <1>4, <1>7
<1>10. Ends(EndingSteps(order, c, stop, outcome), blockers, c)
  BY <1>1, <1>2, <1>3, <1>4, <1>8, <1>9, EndingStepsEnd
<1>11. Ending(emitter, blockers, todo', held)
  BY <1>1, <1>5, <1>10 DEF Ending
<1> QED  BY <1>1, <1>11 DEF Phase

(* Every call of a disciplined caller begins a method that goes on. *)
LEMMA CallKeepsDiscipline ==
  ASSUME PublisherInv, CyclesInv, DisciplineInv, Call, UNCHANGED disciplined
  PROVE  DisciplineInv'
<1> SUFFICES ASSUME disciplined
             PROVE  emitter'.failed = None /\ (Active' => Phase(emitter', blockers', todo', held'))
  BY DEF DisciplineInv
<1>1. emitter.failed = None
  BY DEF DisciplineInv
<1>2. CASE \E s \in Stream : Open(s)
  BY <1>2, OpenDisciplined
<1>3. CASE Accept
  BY <1>1, <1>3, AcceptDisciplined
<1>4. CASE NewAgentCycle
  <2> DEFINE c == [turn |-> seq + 1, cycle |-> seq + 2, origin |-> "activity",
                   incarnation |-> id]
  <2>1. /\ Unlocked /\ Active /\ held' = held \cup {c}
        /\ emitter' = emitter /\ blockers' = blockers /\ todo' = todo
    BY <1>4 DEF NewAgentCycle
  <2>2. Agrees(emitter, blockers, held \cup {c})
    BY <2>1, BetweenMethods, StillInHand
  <2>3. Between(emitter, blockers, todo, held \cup {c})
    BY <2>1, <2>2 DEF Between, Unlocked
  <2> HIDE DEF c
  <2> QED  BY <1>1, <2>1, <2>3 DEF Phase
<1>5. CASE \E c \in held : OpenAgentCycle(c)
  BY <1>1, <1>5, OpenAgentDisciplined
<1>6. CASE \E c \in held, a \in Action : ActionPending(c, a)
  BY <1>1, <1>6, AskDisciplined
<1>7. CASE \E c \in held, a \in Action, state \in {"accepted", "declined"} :
             ActionResolved(c, a, state)
  BY <1>1, <1>7, AnswerDisciplined
<1>8. CASE \E c \in held, stop \in {"stated", None}, outcome \in {"success", "failed"} :
             Idle(c, stop, outcome)
  BY <1>1, <1>8, IdleDisciplined
<1>9. CASE Fence
  <2>1. emitter' = Close(emitter) /\ emitter \in ReducerState
    BY <1>9 DEF Fence, PublisherInv, TypedInv, TypeOK
  <2>2. Close(emitter).closed /\ Close(emitter).failed = emitter.failed
    BY <2>1 DEF Close, ReducerState
  <2> QED  BY <1>1, <2>1, <2>2 DEF Active
<1> QED  BY <1>2, <1>3, <1>4, <1>5, <1>6, <1>7, <1>8, <1>9 DEF Call

(* So every state of a disciplined caller's publisher is in one of the phases. *)
LEMMA DisciplineInvariant == Spec => []DisciplineInv
<1>1. Init => DisciplineInv
  BY DEF Init, DisciplineInv, Active, Fresh
<1>2. PublisherInv /\ CyclesInv /\ DisciplineInv /\ [Next]_vars => DisciplineInv'
  <2> SUFFICES ASSUME PublisherInv, CyclesInv, DisciplineInv, [Next]_vars
               PROVE  DisciplineInv'
    OBVIOUS
  <2>1. CASE UNCHANGED vars
    BY <2>1 DEF vars, DisciplineInv, Active
  <2> QED  BY <2>1, EmitKeepsDiscipline, CallKeepsDiscipline DEF Next
<1> QED  BY <1>1, <1>2, CyclesInvariant, PublisherInvariant, PTL DEF Spec

(* A caller that keeps to one open cycle is never fenced by the publisher's *)
(* own validation, whatever it asks, in whatever order its questions are   *)
(* answered and however often the stream is reopened (emit).               *)
THEOREM DisciplinedNotRefused == Spec => []DisciplinedCallersAreNotRefused
<1>1. DisciplineInv => DisciplinedCallersAreNotRefused
  BY DEF DisciplineInv, DisciplinedCallersAreNotRefused
<1> QED  BY <1>1, DisciplineInvariant, PTL

(* Between its methods p.blockers is exactly what the reducer holds to be  *)
(* blocking each cycle, and the host that has a question waits             *)
(* (ActionPending, ActionResolved, Idle).                                  *)
THEOREM BlockersCounted == Spec => []BlockersAgreeWithProjection
<1>1. ASSUME PublisherInv, DisciplineInv
      PROVE  BlockersAgreeWithProjection
  <2> SUFFICES ASSUME disciplined, Active, Unlocked
               PROVE  BlockersAgree /\ AskedMeansWaiting
    BY DEF BlockersAgreeWithProjection
  <2>1. Agrees(emitter, blockers, held)
    BY <1>1, BetweenMethods
  <2>2. /\ Mapped(emitter, blockers) /\ emitter.foreground # None /\ emitter.started
        /\ \A a \in Action : Pending(emitter, a) => emitter.foreground.state = "requires_action"
    BY <2>1 DEF Agrees, Runs
  <2>3. None \notin Cycle
    BY NoneIsAnIdentityOfNothing
  <2>4. ASSUME NEW c \in Cycle, NEW a \in Action
        PROVE  blockers[a] = c <=> BlockerOf(emitter, a, c)
    BY <2>2, <2>3 DEF Mapped, Pending, BlockerOf
  <2>5. BlockersAgree
    BY <2>4 DEF BlockersAgree, BlockedBy
  <2>6. host.actions = emitter.actions /\ host.foreground = emitter.foreground
    BY <1>1, <2>2 DEF PublisherInv, EmissionInv, ActiveInv, Alike
  <2>7. AskedMeansWaiting
    BY <2>2, <2>6 DEF AskedMeansWaiting, Waiting, Pending
  <2> QED  BY <2>5, <2>7
<1> QED  BY <1>1, DisciplineInvariant, PublisherInvariant, PTL

=============================================================================
