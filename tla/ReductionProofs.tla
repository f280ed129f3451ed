--------------------------- MODULE ReductionProofs ---------------------------
(***************************************************************************)
(* Lemmas about the reducer's handlers: each takes a well-typed state to a *)
(* well-typed state, and keeps of the projection that the foreground, the  *)
(* turns, the activity tree and the blocking actions agree.                *)
(***************************************************************************)
EXTENDS Reduction, WellFoundedInduction, TLAPS

-----------------------------------------------------------------------------
(* Refusals *)

(* Latching a refusal (fail) keeps the state well typed. *)
LEMMA FailType ==
  ASSUME NEW r \in ReducerState, NEW kind \in ViolationKind \cup {None}
  PROVE  Fail(r, kind) \in ReducerState
BY DEF Fail, ReducerState

(* A state that was just opened or reset (NewReducer, reset) is well typed. *)
LEMMA FreshType ==
  ASSUME NEW s \in Stream \cup {None}, NEW x \in SUBSET Stream
  PROVE  Fresh(s, x) \in ReducerState
BY BoundAssumption DEF Fresh, ReducerState

(* A nonempty set of positions has a least one. *)
LEMMA LeastPosition ==
  ASSUME NEW S, S \subseteq Nat, S # {}
  PROVE  \E i \in S : \A j \in S : i <= j
<1>1. PICK m \in S : \A k \in S : <<k, m>> \notin OpToRel(<, Nat)
  BY NatLessThanWellFounded, WFMin, Zenon
<1>2. \A k \in S : ~ (k < m)
  BY <1>1, Zenon DEF OpToRel
<1> QED  BY <1>2

(* The first defect of a list is one of the list's defects, and it is None *)
(* only when the list has none (checkSnapshotActivities and                *)
(* checkSnapshotActions refuse at the first entry that offends).           *)
LEMMA FirstDefectFound ==
  ASSUME NEW defects, DOMAIN defects \subseteq Nat
  PROVE  /\ FirstDefect(defects) = None => \A i \in DOMAIN defects : defects[i] = None
         /\ FirstDefect(defects) # None => \E i \in DOMAIN defects : FirstDefect(defects) = defects[i]
<1> DEFINE bad == {i \in DOMAIN defects : defects[i] # None}
<1>1. CASE bad = {}
  BY <1>1 DEF FirstDefect
<1>2. CASE bad # {}
  <2>1. \E i \in bad : \A j \in bad : i <= j
    <3>1. bad \subseteq Nat
      OBVIOUS
    <3> QED  BY <3>1, <1>2, LeastPosition
  <2>2. FirstDefect(defects) = defects[CHOOSE i \in bad : \A j \in bad : i <= j]
    BY <1>2 DEF FirstDefect
  <2> QED  BY <2>1, <2>2
<1> QED  BY <1>1, <1>2

-----------------------------------------------------------------------------
(* First sights *)

(* A set of updates may be recorded when each states the members that an   *)
(* activity's first sight must state (checkActivityIdentity).              *)
FirstSights(us) ==
  \A u \in us : u \in ActivityUpdate /\ ActivityIdentityDefect(u) = None

(* ... or that an action's must (checkActionIdentity). *)
FirstAsks(us) ==
  \A u \in us : u \in ActionUpdate /\ ActionIdentityDefect(u) = None

(* recordActivity stores complete records only. *)
LEMMA RecordActivitiesType ==
  ASSUME NEW r \in ReducerState, NEW us, FirstSights(us)
  PROVE  RecordActivities(r, us) \in ReducerState
<1>1. ASSUME NEW u \in us
      PROVE  [kind |-> u.kind, state |-> u.state, parent |-> u.parent,
              origin |-> u.origin, progress |-> u.progress] \in ActivityRecord
  BY <1>1, NoneIsAnIdentityOfNothing
  DEF FirstSights, ActivityUpdate, ActivityIdentityDefect, ActivityRecord, ViolationKind
<1>2. ASSUME NEW a \in Activity, a \in Named(us)
      PROVE  Naming(us, a) \in us
  BY <1>2 DEF Named, Naming
<1>3. RecordActivities(r, us).activities \in [Activity -> ActivityRecord \cup {None}]
  BY <1>1, <1>2 DEF RecordActivities, ReducerState
<1> QED  BY <1>3 DEF RecordActivities, ReducerState

(* recordAction stores complete records only, and blockForeground names    *)
(* the current cycle.                                                      *)
LEMMA RecordActionsType ==
  ASSUME NEW r \in ReducerState, NEW us, FirstAsks(us)
  PROVE  RecordActions(r, us) \in ReducerState
<1>1. ASSUME NEW u \in us
      PROVE  [state |-> u.state, owner |-> u.owner, blocks |-> u.blocks] \in ActionRecord
  BY <1>1, NoneIsAnIdentityOfNothing
  DEF FirstAsks, ActionUpdate, ActionIdentityDefect, ActionRecord, ViolationKind
<1>2. ASSUME NEW a \in Action, a \in Named(us)
      PROVE  Naming(us, a) \in us
  BY <1>2 DEF Named, Naming
<1>3. RecordActions(r, us).actions \in [Action -> ActionRecord \cup {None}]
  BY <1>1, <1>2 DEF RecordActions, ReducerState
<1> DEFINE blockers ==
      {u \in us : ~ActionOver(u) /\ BlocksForeground(u) /\ r.foreground # None}
<1>4. blockers # {} => r.foreground.cycle \in Cycle
  BY DEF ReducerState, Foreground
<1>5. RecordActions(r, us).actionCycle \in [Action -> Cycle \cup {None}]
  <2>1. \A a \in Action : a \in Named(blockers) => blockers # {}
    BY DEF Named
  <2> QED  BY <2>1, <1>4 DEF RecordActions, ReducerState
<1>6. RecordActions(r, us).blockedCycle \in Cycle \cup {None}
  BY <1>4 DEF RecordActions, ReducerState
<1> QED  BY <1>3, <1>5, <1>6 DEF RecordActions, ReducerState

-----------------------------------------------------------------------------
(* lifecycle_snapshot *)

SnapshotEvent == {e \in Event : e.type = "lifecycle_snapshot"}

(* The parts of a snapshot event. *)
LEMMA SnapshotParts ==
  ASSUME NEW e \in SnapshotEvent
  PROVE  /\ e.foreground \in SnapshotForeground
         /\ e.activities \in Seq(ActivityUpdate)
         /\ e.actions \in Seq(ActionUpdate)
BY DEF SnapshotEvent, Event

(* checkSnapshot accepts a snapshot only when every listed activity and    *)
(* action is a complete first sight.                                       *)
LEMMA SnapshotListsAreFirstSights ==
  ASSUME NEW e \in SnapshotEvent, SnapshotDefect(e) = None
  PROVE  FirstSights(Listed(e.activities)) /\ FirstAsks(Listed(e.actions))
<1>1. /\ DOMAIN e.activities \subseteq Nat /\ \A i \in DOMAIN e.activities : e.activities[i] \in ActivityUpdate
      /\ DOMAIN e.actions \subseteq Nat /\ \A i \in DOMAIN e.actions : e.actions[i] \in ActionUpdate
  BY SnapshotParts
<1>2. SnapshotActivitiesDefect(e) = None /\ SnapshotActionsDefect(e) = None
  BY DEF SnapshotDefect
<1>3. \A i \in DOMAIN e.activities : SnapshotActivityDefect(e, i) = None
  BY <1>1, <1>2, FirstDefectFound DEF SnapshotActivitiesDefect
<1>4. \A i \in DOMAIN e.actions : SnapshotActionDefect(e, i) = None
  BY <1>1, <1>2, FirstDefectFound DEF SnapshotActionsDefect
<1>5. \A i \in DOMAIN e.activities : ActivityIdentityDefect(e.activities[i]) = None
  BY <1>3, NoneIsAnIdentityOfNothing DEF SnapshotActivityDefect, ViolationKind
<1>6. \A i \in DOMAIN e.actions : ActionIdentityDefect(e.actions[i]) = None
  BY <1>4, NoneIsAnIdentityOfNothing DEF SnapshotActionDefect, ViolationKind
<1> QED  BY <1>1, <1>5, <1>6 DEF FirstSights, FirstAsks, Listed

(* What checkSnapshot refuses with is a violation of the closed list. *)
LEMMA SnapshotDefectType ==
  ASSUME NEW e \in SnapshotEvent
  PROVE  SnapshotDefect(e) \in ViolationKind \cup {None}
<1>1. SnapshotActivitiesDefect(e) \in ViolationKind \cup {None}
  <2> DEFINE defects == [i \in DOMAIN e.activities |-> SnapshotActivityDefect(e, i)]
  <2>1. DOMAIN defects \subseteq Nat
    BY SnapshotParts
  <2>2. \A i \in DOMAIN defects : defects[i] \in ViolationKind \cup {None}
    BY DEF SnapshotActivityDefect, ActivityIdentityDefect, ViolationKind
  <2> HIDE DEF defects
  <2>3. FirstDefect(defects) \in ViolationKind \cup {None}
    BY <2>1, <2>2, FirstDefectFound
  <2> QED  BY <2>3 DEF defects, SnapshotActivitiesDefect
<1>2. SnapshotActionsDefect(e) \in ViolationKind \cup {None}
  <2> DEFINE defects == [i \in DOMAIN e.actions |-> SnapshotActionDefect(e, i)]
  <2>1. DOMAIN defects \subseteq Nat
    BY SnapshotParts
  <2>2. \A i \in DOMAIN defects : defects[i] \in ViolationKind \cup {None}
    BY DEF SnapshotActionDefect, ActionIdentityDefect, ViolationKind
  <2> HIDE DEF defects
  <2>3. FirstDefect(defects) \in ViolationKind \cup {None}
    BY <2>1, <2>2, FirstDefectFound
  <2> QED  BY <2>3 DEF defects, SnapshotActionsDefect
<1> QED  BY <1>1, <1>2 DEF SnapshotDefect, ForegroundDefect, ViolationKind

(* A snapshot whose foreground names a turn names that turn's origin, which *)
(* is never the session (checkSnapshot).                                    *)
LEMMA ProjectForegroundType ==
  ASSUME NEW r \in ReducerState, NEW e \in SnapshotEvent,
         SnapshotDefect(e) = None
  PROVE  ProjectForeground(r, e) \in ReducerState
<1>1. e.foreground \in SnapshotForeground /\ FirstSights(Listed(e.activities))
  BY SnapshotParts, SnapshotListsAreFirstSights
<1>2. ForegroundDefect(e.foreground) = None
  BY DEF SnapshotDefect
<1>3. e.foreground.turn \in Turn => e.foreground.origin \in Cause
  BY <1>1, <1>2, NoneIsAnIdentityOfNothing
  DEF SnapshotForeground, ForegroundDefect, ViolationKind
<1>4. SnapshotTurns(e) \subseteq Turn
  BY <1>1 DEF SnapshotTurns, SnapshotForeground, FirstSights, ActivityUpdate
<1>5. ProjectForeground(r, e).foreground \in Foreground
  BY <1>1 DEF ProjectForeground, ReducerState, SnapshotForeground, Foreground
<1>6. ProjectForeground(r, e).turns \in [Turn -> TurnRecord \cup {None}]
  BY <1>1, <1>3 DEF ProjectForeground, ReducerState, SnapshotForeground, TurnRecord
<1>7. ProjectForeground(r, e).turnSeen \in SUBSET Turn
  BY <1>4 DEF ProjectForeground, ReducerState
<1> DEFINE p == ProjectForeground(r, e)
<1>8. p = [r EXCEPT !.foreground = p.foreground, !.turns = p.turns, !.turnSeen = p.turnSeen]
  BY DEF ProjectForeground, ReducerState
<1> HIDE DEF p
<1> QED  BY <1>5, <1>6, <1>7, <1>8, ZenonT(30) DEF p, ReducerState

(* applySnapshot projects a whole state or refuses. *)
LEMMA ApplySnapshotType ==
  ASSUME NEW r \in ReducerState, NEW e \in SnapshotEvent
  PROVE  ApplySnapshot(r, e) \in ReducerState
<1>1. CASE SnapshotDefect(e) # None
  BY <1>1, SnapshotDefectType, FailType DEF ApplySnapshot, Unless
<1>2. CASE SnapshotDefect(e) = None
  <2>1. ProjectSnapshot(r, e) \in ReducerState
    BY <1>2, SnapshotListsAreFirstSights, ProjectForegroundType, RecordActivitiesType,
       RecordActionsType DEF ProjectSnapshot
  <2> QED  BY <1>2, <2>1 DEF ApplySnapshot, Unless
<1> QED  BY <1>1, <1>2

-----------------------------------------------------------------------------
(* prompt_accepted and state_update *)

PromptEvent == {e \in Event : e.type = "prompt_accepted"}
TransitionEvent == {e \in Event : e.type = "state_update"}

(* The parts of a transition. *)
LEMMA TransitionParts ==
  ASSUME NEW e \in TransitionEvent
  PROVE  /\ e.state \in ForegroundState /\ e.cycle \in Cycle
         /\ e.turn \in Turn \cup {None} /\ e.cause \in Cause
         /\ e.outcome \in Outcome \cup {None}
BY DEF TransitionEvent, Event

(* Opening a turn records it whole. *)
LEMMA OpenTurnType ==
  ASSUME NEW r \in ReducerState, NEW t \in Turn, NEW c \in Cause
  PROVE  OpenTurn(r, t, c) \in ReducerState /\ OpenTurn(r, t, c).turns[t] \in TurnRecord
<1>1. OpenTurn(r, t, c).turns \in [Turn -> TurnRecord \cup {None}]
  BY DEF OpenTurn, ReducerState, TurnRecord
<1>2. OpenTurn(r, t, c).turns[t] \in TurnRecord
  BY DEF OpenTurn, ReducerState, TurnRecord
<1> QED  BY <1>1, <1>2 DEF OpenTurn, ReducerState

(* applyPromptAccepted opens the turn it names or refuses. *)
LEMMA ApplyPromptAcceptedType ==
  ASSUME NEW r \in ReducerState, NEW e \in PromptEvent
  PROVE  ApplyPromptAccepted(r, e) \in ReducerState
<1>1. e.turn \in Turn
  BY DEF PromptEvent, Event
<1>2. PromptDefect(r, e) \in ViolationKind \cup {None}
  BY DEF PromptDefect, ViolationKind
<1>3. OpenTurn(r, e.turn, "submission") \in ReducerState
  BY <1>1, OpenTurnType DEF Cause
<1> QED  BY <1>2, <1>3, FailType DEF ApplyPromptAccepted, Unless

(* Reporting a known turn live moves its cycle and the foreground. *)
LEMMA ReportLiveType ==
  ASSUME NEW r \in ReducerState, NEW e \in TransitionEvent, e.turn \in Turn,
         r.turns[e.turn] # None
  PROVE  ReportLive(r, e) \in ReducerState
<1>1. ReportLive(r, e).turns \in [Turn -> TurnRecord \cup {None}]
  BY TransitionParts DEF ReportLive, ReducerState, TurnRecord
<1>2. ReportLive(r, e).foreground \in Foreground
  BY TransitionParts DEF ReportLive, ReducerState, Foreground
<1> QED  BY <1>1, <1>2 DEF ReportLive, ReducerState

(* applyLive: a transition that is not idle and names a turn. *)
LEMMA ApplyLiveType ==
  ASSUME NEW r \in ReducerState, NEW e \in TransitionEvent, e.turn \in Turn
  PROVE  ApplyLive(r, e) \in ReducerState
<1>1. LiveDefect(r, e) \in ViolationKind \cup {None}
  BY DEF LiveDefect, ViolationKind
<1>2. r.turns[e.turn] = None => ReportLive(OpenTurn(r, e.turn, "activity"), e) \in ReducerState
  BY OpenTurnType, ReportLiveType, NoneIsAnIdentityOfNothing DEF Cause
<1>3. r.turns[e.turn] # None => ReportLive(r, e) \in ReducerState
  BY ReportLiveType
<1> QED  BY <1>1, <1>2, <1>3, FailType DEF ApplyLive, Unless

(* applyIdle: the end of a turn, or an idle of no turn. *)
LEMMA ApplyIdleType ==
  ASSUME NEW r \in ReducerState, NEW e \in TransitionEvent
  PROVE  ApplyIdle(r, e) \in ReducerState
<1>1. IdleForeground(e) \in Foreground
  BY TransitionParts DEF IdleForeground, Foreground, ForegroundState
<1>2. CASE e.turn = None
  BY <1>1, <1>2 DEF ApplyIdle, ReducerState
<1>3. CASE e.turn \in Turn
  <2>1. IdleDefect(r, e) \in ViolationKind \cup {None}
    BY DEF IdleDefect, ViolationKind
  <2>2. ASSUME r.turns[e.turn] # None
        PROVE  EndTurn(r, e) \in ReducerState
    <3>1. r.turns[e.turn] \in TurnRecord
      BY <1>3, <2>2 DEF ReducerState
    <3>2. EndTurn(r, e).turns \in [Turn -> TurnRecord \cup {None}]
      BY <1>3, <3>1, TransitionParts DEF EndTurn, ReducerState, TurnRecord
    <3> QED  BY <1>1, <3>2 DEF EndTurn, ReducerState
  <2>3. IdleDefect(r, e) = None => r.turns[e.turn] # None
    BY NoneIsAnIdentityOfNothing DEF IdleDefect, ViolationKind
  <2> QED  BY <1>3, <2>1, <2>2, <2>3, FailType, NoneIsAnIdentityOfNothing
           DEF ApplyIdle, Unless
<1> QED  BY <1>2, <1>3, TransitionParts

(* applyStateUpdate. *)
LEMMA ApplyStateUpdateType ==
  ASSUME NEW r \in ReducerState, NEW e \in TransitionEvent
  PROVE  ApplyStateUpdate(r, e) \in ReducerState
<1>1. /\ NamelessTurnDefect(e) \in ViolationKind \cup {None}
      /\ EndingIdleDefect(e) \in ViolationKind \cup {None}
      /\ BlockedCycleDefect(r, e) \in ViolationKind \cup {None}
  BY DEF NamelessTurnDefect, EndingIdleDefect, BlockedCycleDefect, ViolationKind
<1>2. SettleBlockedCycle(r, e) \in ReducerState
  BY DEF SettleBlockedCycle, ReducerState
<1>3. e.state # "idle" /\ NamelessTurnDefect(e) = None => e.turn \in Turn
  BY TransitionParts, NoneIsAnIdentityOfNothing DEF NamelessTurnDefect, ViolationKind
<1> QED  BY <1>1, <1>2, <1>3, FailType, ApplyIdleType, ApplyLiveType DEF ApplyStateUpdate

-----------------------------------------------------------------------------
(* activity_update and action_update *)

(* A patch of a known activity moves its state and progress only. *)
LEMMA PatchActivityType ==
  ASSUME NEW r \in ReducerState, NEW u \in ActivityUpdate, ActivityKnown(r, u.id)
  PROVE  PatchActivity(r, u) \in ReducerState
<1>1. u.id \in Activity /\ u.state \in ActivityState /\ u.progress \in Progress \cup {None}
  BY DEF ActivityUpdate
<1>2. r.activities[u.id] \in ActivityRecord
  BY <1>1 DEF ActivityKnown, ReducerState
<1>3. Patched(r.activities[u.id], u) \in ActivityRecord
  BY <1>1, <1>2 DEF Patched, ActivityRecord
<1> QED  BY <1>1, <1>3 DEF PatchActivity, ReducerState

(* applyActivityUpdate. *)
LEMMA ApplyActivityUpdateType ==
  ASSUME NEW r \in ReducerState, NEW u \in ActivityUpdate
  PROVE  ApplyActivityUpdate(r, u) \in ReducerState
<1>1. /\ ActivityPatchDefect(r, u) \in ViolationKind \cup {None}
      /\ ActivityFirstSightDefect(r, u) \in ViolationKind \cup {None}
  BY DEF ActivityPatchDefect, ActivityFirstSightDefect, ActivityIdentityDefect, ViolationKind
<1>2. ActivityFirstSightDefect(r, u) = None => RecordActivities(r, {u}) \in ReducerState
  <2>1. ActivityFirstSightDefect(r, u) = None => ActivityIdentityDefect(u) = None
    BY DEF ActivityFirstSightDefect
  <2> QED  BY <2>1, RecordActivitiesType DEF FirstSights
<1> QED  BY <1>1, <1>2, FailType, PatchActivityType DEF ApplyActivityUpdate, Unless

(* A patch of a known action moves its state only. *)
LEMMA PatchActionType ==
  ASSUME NEW r \in ReducerState, NEW u \in ActionUpdate, r.actions[u.id] # None
  PROVE  PatchAction(r, u) \in ReducerState
<1>1. u.id \in Action /\ u.state \in ActionState
  BY DEF ActionUpdate
<1>2. r.actions[u.id] \in ActionRecord
  BY <1>1 DEF ReducerState
<1>3. [r.actions[u.id] EXCEPT !.state = u.state] \in ActionRecord
  BY <1>1, <1>2 DEF ActionRecord
<1> QED  BY <1>1, <1>3 DEF PatchAction, ReducerState

(* applyActionUpdate. *)
LEMMA ApplyActionUpdateType ==
  ASSUME NEW r \in ReducerState, NEW u \in ActionUpdate
  PROVE  ApplyActionUpdate(r, u) \in ReducerState
<1>1. /\ ActionPatchDefect(r, u) \in ViolationKind \cup {None}
      /\ ActionFirstSightDefect(r, u) \in ViolationKind \cup {None}
  BY DEF ActionPatchDefect, ActionFirstSightDefect, ActionIdentityDefect, ViolationKind
<1>2. ActionFirstSightDefect(r, u) = None => RecordActions(r, {u}) \in ReducerState
  <2>1. ActionFirstSightDefect(r, u) = None => ActionIdentityDefect(u) = None
    BY DEF ActionFirstSightDefect
  <2> QED  BY <2>1, RecordActionsType DEF FirstAsks
<1> QED  BY <1>1, <1>2, FailType, PatchActionType DEF ApplyActionUpdate, Unless

-----------------------------------------------------------------------------
(* Ordering and incarnations *)

(* apply dispatches on the type of an event that is not a snapshot. *)
LEMMA ApplyType ==
  ASSUME NEW r \in ReducerState, NEW e \in Event, e.type # "lifecycle_snapshot"
  PROVE  Apply(r, e) \in ReducerState
<1>1. CASE e.type = "prompt_accepted"
  BY <1>1, ApplyPromptAcceptedType DEF Apply, PromptEvent
<1>2. CASE e.type = "state_update"
  BY <1>2, ApplyStateUpdateType DEF Apply, TransitionEvent
<1>3. CASE e.type = "activity_update"
  <2>1. e.activity \in ActivityUpdate
    BY <1>3 DEF Event
  <2> QED  BY <1>3, <2>1, ApplyActivityUpdateType DEF Apply
<1>4. CASE e.type = "action_update"
  <2>1. e.action \in ActionUpdate
    BY <1>4 DEF Event
  <2> QED  BY <1>4, <2>1, ApplyActionUpdateType DEF Apply
<1>5. e.type \in {"prompt_accepted", "state_update", "activity_update", "action_update"}
  BY DEF Event
<1> QED  BY <1>1, <1>2, <1>3, <1>4, <1>5

(* commit records the boundary and the frame. *)
LEMMA CommitType ==
  ASSUME NEW r \in ReducerState, NEW d \in Delivery
  PROVE  Commit(r, d) \in ReducerState
<1>1. d.sequence \in Sequence /\ d.sequence \in 0 .. MaxSequence /\ d.event \in Event
  BY BoundAssumption DEF Delivery, Sequence
<1> QED  BY <1>1 DEF Commit, ReducerState

(* reduceFirst opens a stream or latches. *)
LEMMA ReduceFirstType ==
  ASSUME NEW r \in ReducerState, NEW d \in Delivery
  PROVE  ReduceFirst(r, d) \in ReducerState
<1> DEFINE named == [r EXCEPT !.stream = d.stream]
           based == [named EXCEPT !.base = d.sequence]
           begun == [ApplySnapshot(based, d.event) EXCEPT !.started = TRUE]
           opened == Commit(begun, d)
<1>1. d.sequence \in 0 .. MaxSequence /\ d.stream \in Stream /\ d.event \in Event
  BY BoundAssumption DEF Delivery, Sequence
<1>2. named \in ReducerState
  BY <1>1 DEF ReducerState
<1>3. based \in ReducerState
  BY <1>1, <1>2 DEF ReducerState
<1>4. CASE d.event.type # "lifecycle_snapshot"
  BY <1>2, <1>4, FailType DEF ReduceFirst, ViolationKind
<1>5. CASE d.event.type = "lifecycle_snapshot"
  <2>1. ApplySnapshot(based, d.event) \in ReducerState
    BY <1>1, <1>3, <1>5, ApplySnapshotType DEF SnapshotEvent
  <2> HIDE DEF based
  <2>2. begun \in ReducerState
    BY <2>1 DEF ReducerState
  <2> HIDE DEF begun
  <2>3. opened \in ReducerState
    BY <2>2, CommitType
  <2> HIDE DEF opened
  <2>4. [opened EXCEPT !.started = FALSE] \in ReducerState
    BY <2>3 DEF ReducerState
  <2>5. ReduceFirst(r, d) = IF opened.failed # None THEN [opened EXCEPT !.started = FALSE]
                                                    ELSE opened
    BY <1>5 DEF ReduceFirst, opened, begun, based
  <2> QED  BY <2>3, <2>4, <2>5
<1> QED  BY <1>4, <1>5

(* reduceForeign swaps in a whole incarnation or latches. *)
LEMMA ReduceForeignType ==
  ASSUME NEW r \in ReducerState, NEW d \in Delivery, r.stream # None
  PROVE  ReduceForeign(r, d) \in ReducerState
<1> DEFINE next == ReduceFirst(Fresh(d.stream, r.retired), d)
<1>1. next \in ReducerState
  <2>1. d.stream \in Stream /\ r.retired \in SUBSET Stream
    BY DEF Delivery, ReducerState
  <2> QED  BY <2>1, FreshType, ReduceFirstType
<1> HIDE DEF next
<1>2. r.closed \in BOOLEAN /\ r.stream \in Stream
  BY DEF ReducerState
<1>3. [next EXCEPT !.closed = r.closed, !.retired = @ \cup {r.stream}] \in ReducerState
  BY <1>1, <1>2 DEF ReducerState
<1>4. next.failed \in ViolationKind \cup {None}
  BY <1>1 DEF ReducerState
<1> QED  BY <1>3, <1>4, FailType DEF ReduceForeign, next, ViolationKind

(* reduceDuplicate counts a retransmission or latches. *)
LEMMA ReduceDuplicateType ==
  ASSUME NEW r \in ReducerState, NEW d \in Delivery
  PROVE  ReduceDuplicate(r, d) \in ReducerState
<1>1. [r EXCEPT !.suppressed = @ + 1] \in ReducerState
  BY DEF ReducerState
<1> QED  BY <1>1, FailType DEF ReduceDuplicate, ViolationKind

(* Reduce.  A started reducer has a name (reduceFirst names it). *)
LEMMA ReduceType ==
  ASSUME NEW r \in ReducerState, NEW d \in Delivery, r.started => r.stream # None
  PROVE  Reduce(r, d) \in ReducerState
<1>1. ASSUME d.event.type # "lifecycle_snapshot"
      PROVE  Commit(Apply(r, d.event), d) \in ReducerState
  <2>1. d.event \in Event
    BY DEF Delivery
  <2> QED  BY <1>1, <2>1, ApplyType, CommitType
<1>2. \A k \in ViolationKind : Fail(r, k) \in ReducerState
  BY FailType
<1>3. {"illegal_carrier", "stale_stream", "sequence_regression", "sequence_gap",
       "stream_cycle"} \subseteq ViolationKind
  BY DEF ViolationKind
<1> QED  BY <1>1, <1>2, <1>3, ReduceFirstType, ReduceForeignType, ReduceDuplicateType
         DEF Reduce

-----------------------------------------------------------------------------
(* The ordering bookkeeping *)

(* What the handlers of a single event leave alone. *)
Header(r) ==
  <<r.stream, r.started, r.closed, r.base, r.reducedThrough, r.suppressed, r.frames, r.retired>>

(* No handler of an event touches the ordering bookkeeping: only Reduce,   *)
(* reduceFirst, reduceForeign and commit do.                               *)
LEMMA ApplyKeepsHeader ==
  ASSUME NEW r \in ReducerState, NEW e \in Event, e.type # "lifecycle_snapshot"
  PROVE  Header(Apply(r, e)) = Header(r)
<1>1. \A k : Header(Fail(r, k)) = Header(r)
  BY DEF Fail, Header, ReducerState
<1>2. \A t, c : Header(OpenTurn(r, t, c)) = Header(r)
  BY DEF OpenTurn, Header, ReducerState
<1>3. CASE e.type = "prompt_accepted"
  BY <1>1, <1>2, <1>3 DEF Apply, ApplyPromptAccepted, Unless
<1>4. CASE e.type = "state_update"
  <2> DEFINE q == SettleBlockedCycle(r, e)
  <2>1. e \in TransitionEvent
    BY <1>4 DEF TransitionEvent
  <2>2. q \in ReducerState /\ Header(q) = Header(r)
    BY DEF SettleBlockedCycle, ReducerState, Header
  <2> HIDE DEF q
  <2>3. \A k : Header(Fail(q, k)) = Header(r)
    BY <2>2 DEF Fail, Header, ReducerState
  <2>4. Header(ApplyIdle(q, e)) = Header(r)
    BY <2>2, <2>3 DEF ApplyIdle, Unless, EndTurn, Header, ReducerState
  <2>5. e.turn \in Turn => Header(ApplyLive(q, e)) = Header(r)
    <3> SUFFICES ASSUME e.turn \in Turn PROVE Header(ApplyLive(q, e)) = Header(r)
      OBVIOUS
    <3> DEFINE o == OpenTurn(q, e.turn, "activity")
    <3>1. o \in ReducerState
      BY <2>2, OpenTurnType DEF Cause
    <3>2. Header(o) = Header(r)
      BY <2>2 DEF OpenTurn, Header, ReducerState
    <3> HIDE DEF o
    <3>3. Header(ReportLive(o, e)) = Header(r)
      BY <3>1, <3>2 DEF ReportLive, Header, ReducerState
    <3>4. Header(ReportLive(q, e)) = Header(r)
      BY <2>2 DEF ReportLive, Header, ReducerState
    <3> QED  BY <2>3, <3>3, <3>4 DEF ApplyLive, Unless, o
  <2>6. e.state # "idle" /\ NamelessTurnDefect(e) = None => e.turn \in Turn
    BY <2>1, TransitionParts, NoneIsAnIdentityOfNothing DEF NamelessTurnDefect, ViolationKind
  <2> QED  BY <1>1, <1>4, <2>4, <2>5, <2>6 DEF Apply, ApplyStateUpdate, q
<1>5. CASE e.type = "activity_update"
  BY <1>1, <1>5 DEF Apply, ApplyActivityUpdate, Unless, PatchActivity, RecordActivities,
                    Header, ReducerState
<1>6. CASE e.type = "action_update"
  BY <1>1, <1>6 DEF Apply, ApplyActionUpdate, Unless, PatchAction, RecordActions,
                    Header, ReducerState
<1>7. e.type \in {"prompt_accepted", "state_update", "activity_update", "action_update"}
  BY DEF Event
<1> QED  BY <1>3, <1>4, <1>5, <1>6, <1>7

(* Nor does applySnapshot, which writes the projection only. *)
LEMMA ApplySnapshotKeepsHeader ==
  ASSUME NEW r \in ReducerState, NEW e \in SnapshotEvent
  PROVE  Header(ApplySnapshot(r, e)) = Header(r)
<1>1. CASE SnapshotDefect(e) # None
  BY <1>1 DEF ApplySnapshot, Unless, Fail, Header, ReducerState
<1>2. CASE SnapshotDefect(e) = None
  <2> DEFINE p == ProjectForeground(r, e)
             q == RecordActivities(p, Listed(e.activities))
  <2>1. p \in ReducerState /\ q \in ReducerState
    BY <1>2, SnapshotListsAreFirstSights, ProjectForegroundType, RecordActivitiesType
  <2>2. Header(p) = Header(r)
    BY SMTT(30) DEF ProjectForeground, Header, ReducerState
  <2>3. Header(q) = Header(p)
    BY <2>1 DEF RecordActivities, Header, ReducerState
  <2>4. Header(RecordActions(q, Listed(e.actions))) = Header(q)
    BY <2>1 DEF RecordActions, Header, ReducerState
  <2> QED  BY <1>2, <2>2, <2>3, <2>4 DEF ApplySnapshot, Unless, ProjectSnapshot
<1> QED  BY <1>1, <1>2

-----------------------------------------------------------------------------
(* Opening a stream *)

(* reduceFirst: a stream that opens is named, based and reduced through    *)
(* the sequence of its snapshot, and retains that frame; either way the    *)
(* fence of earlier incarnations is left alone.                            *)
LEMMA ReduceFirstHeader ==
  ASSUME NEW r \in ReducerState, NEW d \in Delivery, ~r.started
  PROVE  LET q == ReduceFirst(r, d)
         IN  /\ q.stream = d.stream
             /\ q.closed = r.closed
             /\ q.retired = r.retired
             /\ q.suppressed = r.suppressed
             /\ q.started => q.failed = None
             /\ q.failed = None => /\ q.started
                                   /\ q.base = d.sequence
                                   /\ q.reducedThrough = d.sequence
                                   /\ RetainFrames => q.frames[d.sequence] = d.event
<1> DEFINE named == [r EXCEPT !.stream = d.stream]
           based == [named EXCEPT !.base = d.sequence]
           begun == [ApplySnapshot(based, d.event) EXCEPT !.started = TRUE]
           opened == Commit(begun, d)
<1>1. d.sequence \in 0 .. MaxSequence /\ d.sequence \in Sequence /\ d.stream \in Stream
      /\ d.event \in Event
  BY BoundAssumption DEF Delivery, Sequence
<1>2. named \in ReducerState /\ named.stream = d.stream
  BY <1>1 DEF ReducerState
<1>3. based \in ReducerState
  BY <1>1, <1>2 DEF ReducerState
<1>4. CASE d.event.type # "lifecycle_snapshot"
  <2>1. ReduceFirst(r, d) = Fail(named, "delta_before_snapshot")
    BY <1>4 DEF ReduceFirst
  <2> QED  BY <2>1, <1>1, NoneIsAnIdentityOfNothing DEF Fail, ReducerState, ViolationKind
<1>5. CASE d.event.type = "lifecycle_snapshot"
  <2>1. d.event \in SnapshotEvent
    BY <1>1, <1>5 DEF SnapshotEvent
  <2>2. /\ ApplySnapshot(based, d.event) \in ReducerState
        /\ Header(ApplySnapshot(based, d.event)) = Header(based)
    BY <1>3, <2>1, ApplySnapshotType, ApplySnapshotKeepsHeader
  <2>3. /\ based.stream = d.stream /\ based.base = d.sequence /\ based.closed = r.closed
        /\ based.retired = r.retired /\ based.suppressed = r.suppressed
    BY <1>1, <1>2 DEF ReducerState
  <2> HIDE DEF based
  <2>4. /\ begun \in ReducerState /\ begun.started
        /\ begun.stream = d.stream /\ begun.base = d.sequence /\ begun.closed = r.closed
        /\ begun.retired = r.retired /\ begun.suppressed = r.suppressed
    BY <2>2, <2>3, ZenonT(30) DEF ReducerState, Header
  <2> HIDE DEF begun
  <2>5. /\ opened \in ReducerState
        /\ opened.failed = begun.failed /\ opened.started
        /\ opened.stream = d.stream /\ opened.base = d.sequence /\ opened.closed = r.closed
        /\ opened.retired = r.retired /\ opened.suppressed = r.suppressed
        /\ opened.failed = None => /\ opened.reducedThrough = d.sequence
                                   /\ RetainFrames => opened.frames[d.sequence] = d.event
    <3>1. opened \in ReducerState
      BY <2>4, CommitType
    <3> QED  BY <3>1, <2>4, <1>1 DEF Commit, ReducerState
  <2> HIDE DEF opened
  <2>6. ReduceFirst(r, d) = IF opened.failed # None THEN [opened EXCEPT !.started = FALSE]
                                                    ELSE opened
    BY <1>5 DEF ReduceFirst, opened, begun, based
  <2> QED  BY <2>5, <2>6 DEF ReducerState
<1> QED  BY <1>4, <1>5


-----------------------------------------------------------------------------
(* The parts of the inductive invariant, of any reducer state. *)

(* A turn with a record was introduced; the converse fails for the origin  *)
(* turns of a snapshot's activities.                                       *)
RecordedTurnsWereSeen(r) == \A t \in Turn : r.turns[t] # None => TurnKnown(r, t)

ForegroundTurnIsOpen(r) ==
  LET f == r.foreground
  IN  (f # None /\ f.state # "idle") =>
        /\ f.turn # None
        /\ r.turns[f.turn] # None
        /\ ~r.turns[f.turn].terminal
        /\ r.turns[f.turn].cycle = f.cycle

ChildEndsFirst(r, c) ==
  LET child == r.activities[c]
  IN  (child # None /\ child.parent # None) =>
        /\ r.activities[child.parent] # None
        /\ ActivityOver(r.activities[child.parent]) => ActivityOver(child)

TreeEndsBottomUp(r) == \A c \in Activity : ChildEndsFirst(r, c)

OriginKnown(r) ==
  \A a \in Activity : r.activities[a] # None => TurnKnown(r, r.activities[a].origin)

OwnerKnown(r) ==
  \A a \in Action :
    LET x == r.actions[a]
    IN  x # None => IF x.owner.type = "activity" THEN ActivityKnown(r, x.owner.id)
                                                 ELSE TurnKnown(r, x.owner.id)

BlockersHaveCycles(r) ==
  \A a \in Action :
    LET x == r.actions[a]
    IN  (x # None /\ x.blocks = "foreground" /\ x.state = "pending")
        => r.actionCycle[a] # None

StoppedCycleInDebt(r) ==
  LET f == r.foreground
  IN  (r.failed = None /\ f # None /\ f.state # "requires_action" /\ Blocked(r, f.cycle))
      => r.blockedCycle = f.cycle

ForegroundOnceStarted(r) == r.started => r.foreground # None

(* A stream that has not opened projects nothing. *)
Blank(r) ==
  /\ r.foreground = None
  /\ r.turns = [t \in Turn |-> None]
  /\ r.activities = [a \in Activity |-> None]
  /\ r.actions = [a \in Action |-> None]

BlankUntilStarted(r) == ~r.started => Blank(r)

Coherent(r) ==
  /\ RecordedTurnsWereSeen(r)
  /\ ForegroundTurnIsOpen(r)
  /\ TreeEndsBottomUp(r)
  /\ OriginKnown(r)
  /\ OwnerKnown(r)
  /\ BlockersHaveCycles(r)
  /\ ForegroundOnceStarted(r)
  /\ BlankUntilStarted(r)

(* checkBlockedCycle settles a debt before the transition is judged        *)
(* further, so between the two a state is coherent only.                   *)
Sound(r) == Coherent(r) /\ StoppedCycleInDebt(r)

-----------------------------------------------------------------------------
(* Steps that leave the projection alone *)

(* Coherence depends on the projected members and on whether the stream   *)
(* has started.                                                            *)
LEMMA SameProjectionCoherent ==
  ASSUME NEW r, NEW q, Coherent(r),
         q.foreground = r.foreground, q.turns = r.turns, q.turnSeen = r.turnSeen,
         q.activities = r.activities, q.actions = r.actions,
         q.actionCycle = r.actionCycle, q.started = r.started
  PROVE  Coherent(q)
<1>1. RecordedTurnsWereSeen(q)
  BY DEF Coherent, RecordedTurnsWereSeen, TurnKnown
<1>2. ForegroundTurnIsOpen(q)
  BY DEF Coherent, ForegroundTurnIsOpen
<1>3. TreeEndsBottomUp(q)
  BY DEF Coherent, TreeEndsBottomUp, ChildEndsFirst
<1>4. OriginKnown(q)
  BY DEF Coherent, OriginKnown, TurnKnown
<1>5. OwnerKnown(q)
  BY DEF Coherent, OwnerKnown, TurnKnown, ActivityKnown
<1>6. BlockersHaveCycles(q)
  BY DEF Coherent, BlockersHaveCycles
<1>7. ForegroundOnceStarted(q) /\ BlankUntilStarted(q)
  BY DEF Coherent, ForegroundOnceStarted, BlankUntilStarted, Blank
<1> QED  BY <1>1, <1>2, <1>3, <1>4, <1>5, <1>6, <1>7 DEF Coherent

(* Soundness depends on the debt too, and on no refusal being forgotten.   *)
LEMMA SameProjectionSound ==
  ASSUME NEW r, NEW q, Sound(r),
         q.foreground = r.foreground, q.turns = r.turns, q.turnSeen = r.turnSeen,
         q.activities = r.activities, q.actions = r.actions,
         q.actionCycle = r.actionCycle, q.blockedCycle = r.blockedCycle,
         q.started = r.started,
         q.failed = None => r.failed = None
  PROVE  Sound(q)
<1>1. Coherent(q)
  BY SameProjectionCoherent DEF Sound
<1>2. StoppedCycleInDebt(q)
  BY DEF Sound, StoppedCycleInDebt, Blocked, BlockerOf
<1> QED  BY <1>1, <1>2 DEF Sound

(* A refusal makes the projection sound (fail). *)
LEMMA FailSound ==
  ASSUME NEW r \in ReducerState, Coherent(r), NEW k, k # None
  PROVE  Sound(Fail(r, k))
<1> DEFINE q == Fail(r, k)
<1>1. /\ q.foreground = r.foreground /\ q.turns = r.turns /\ q.turnSeen = r.turnSeen
      /\ q.activities = r.activities /\ q.actions = r.actions
      /\ q.actionCycle = r.actionCycle
      /\ q.started = r.started /\ q.failed = k
  BY DEF Fail, ReducerState
<1> HIDE DEF q
<1>2. Coherent(q)
  BY <1>1, SameProjectionCoherent
<1>3. StoppedCycleInDebt(q)
  BY <1>1 DEF StoppedCycleInDebt
<1>4. Sound(q)
  BY <1>2, <1>3 DEF Sound
<1> QED  BY <1>4 DEF q

(* So does committing what was applied (commit). *)
LEMMA CommitSound ==
  ASSUME NEW r \in ReducerState, Sound(r), NEW d \in Delivery
  PROVE  Sound(Commit(r, d))
<1> DEFINE q == Commit(r, d)
<1>1. /\ q.foreground = r.foreground /\ q.turns = r.turns /\ q.turnSeen = r.turnSeen
      /\ q.activities = r.activities /\ q.actions = r.actions
      /\ q.actionCycle = r.actionCycle /\ q.blockedCycle = r.blockedCycle
      /\ q.started = r.started /\ q.failed = r.failed
  BY DEF Commit, ReducerState
<1> HIDE DEF q
<1>2. Sound(q)
  BY <1>1, SameProjectionSound
<1> QED  BY <1>2 DEF q

-----------------------------------------------------------------------------
(* prompt_accepted and state_update *)

(* Opening a turn that has no record, hence is not the foreground's, keeps *)
(* the projection coherent (applyPromptAccepted, applyLive).               *)
LEMMA OpenTurnCoherent ==
  ASSUME NEW r \in ReducerState, Coherent(r), r.started,
         NEW t \in Turn, r.turns[t] = None, NEW c \in Cause
  PROVE  /\ Coherent(OpenTurn(r, t, c))
         /\ StoppedCycleInDebt(r) => StoppedCycleInDebt(OpenTurn(r, t, c))
<1> DEFINE q == OpenTurn(r, t, c)
<1>1. /\ q.foreground = r.foreground /\ q.activities = r.activities
      /\ q.actions = r.actions /\ q.actionCycle = r.actionCycle
      /\ q.blockedCycle = r.blockedCycle /\ q.started = r.started
      /\ q.failed = r.failed
      /\ q.turnSeen = r.turnSeen \cup {t}
      /\ \A x \in Turn \ {t} : q.turns[x] = r.turns[x]
  BY DEF OpenTurn, ReducerState
<1>2. r.foreground # None => r.foreground.turn \in Turn \cup {None}
  BY DEF ReducerState, Foreground
<1> HIDE DEF q
<1>3. RecordedTurnsWereSeen(q)
  BY <1>1 DEF Coherent, RecordedTurnsWereSeen, TurnKnown
<1>4. ForegroundTurnIsOpen(q)
  BY <1>1, <1>2 DEF Coherent, ForegroundTurnIsOpen
<1>5. TreeEndsBottomUp(q) /\ BlockersHaveCycles(q)
  BY <1>1 DEF Coherent, TreeEndsBottomUp, ChildEndsFirst, BlockersHaveCycles
<1>6. OriginKnown(q) /\ OwnerKnown(q)
  BY <1>1 DEF Coherent, OriginKnown, OwnerKnown, TurnKnown, ActivityKnown
<1>7. StoppedCycleInDebt(r) => StoppedCycleInDebt(q)
  BY <1>1 DEF StoppedCycleInDebt, Blocked, BlockerOf
<1>8. ForegroundOnceStarted(q) /\ BlankUntilStarted(q)
  BY <1>1 DEF Coherent, ForegroundOnceStarted, BlankUntilStarted
<1>9. Coherent(q)
  BY <1>3, <1>4, <1>5, <1>6, <1>8 DEF Coherent
<1> QED  BY <1>7, <1>9 DEF q

(* Acceptance opens a turn that was not known. *)
LEMMA ApplyPromptAcceptedSound ==
  ASSUME NEW r \in ReducerState, Sound(r), r.started, NEW e \in PromptEvent
  PROVE  Sound(ApplyPromptAccepted(r, e))
<1>1. e.turn \in Turn
  BY DEF PromptEvent, Event
<1>2. CASE PromptDefect(r, e) # None
  BY <1>2, FailSound DEF Sound, ApplyPromptAccepted, Unless
<1>3. CASE PromptDefect(r, e) = None
  <2>1. e.turn \notin r.turnSeen
    BY <1>3, NoneIsAnIdentityOfNothing DEF PromptDefect, TurnKnown, ViolationKind
  <2>2. r.turns[e.turn] = None
    BY <1>1, <2>1 DEF Sound, Coherent, RecordedTurnsWereSeen, TurnKnown
  <2> QED  BY <1>1, <1>3, <2>2, OpenTurnCoherent DEF Sound, ApplyPromptAccepted, Unless, Cause
<1> QED  BY <1>2, <1>3

(* Reporting an open turn live makes it sound when no blocker of the cycle *)
(* it is reported on is left unreported (applyLive after                   *)
(* checkBlockedCycle).                                                     *)
LEMMA ReportLiveSound ==
  ASSUME NEW r \in ReducerState, Coherent(r), r.started,
         NEW e \in TransitionEvent, e.turn \in Turn,
         r.turns[e.turn] # None, ~r.turns[e.turn].terminal,
         e.state # "requires_action" => ~Blocked(r, e.cycle)
  PROVE  Sound(ReportLive(r, e))
<1> DEFINE q == ReportLive(r, e)
<1>1. /\ q.foreground = [state |-> e.state, cycle |-> e.cycle, turn |-> e.turn]
      /\ q.activities = r.activities
      /\ q.actions = r.actions /\ q.actionCycle = r.actionCycle
      /\ q.started = r.started
      /\ q.turnSeen = r.turnSeen
  BY DEF ReportLive, ReducerState
<1>2. q.turns = [r.turns EXCEPT ![e.turn].cycle = e.cycle]
  BY DEF ReportLive, ReducerState
<1>3. r.turns \in [Turn -> TurnRecord \cup {None}] /\ r.turns[e.turn] \in TurnRecord
  BY DEF ReducerState
<1>4. /\ \A x \in Turn \ {e.turn} : q.turns[x] = r.turns[x]
      /\ q.turns[e.turn] \in TurnRecord
      /\ ~q.turns[e.turn].terminal
      /\ q.turns[e.turn].cycle = e.cycle
  BY <1>2, <1>3, TransitionParts DEF TurnRecord
<1>5. q.foreground # None /\ None \notin TurnRecord /\ e.turn # None
  <2>1. q.foreground \in Foreground
    BY <1>1, TransitionParts DEF Foreground
  <2> QED  BY <2>1, NoneIsAnIdentityOfNothing
<1> HIDE DEF q
<1>6. RecordedTurnsWereSeen(q)
  BY <1>1, <1>4 DEF Coherent, RecordedTurnsWereSeen, TurnKnown
<1>7. ForegroundTurnIsOpen(q)
  BY <1>1, <1>4, <1>5 DEF ForegroundTurnIsOpen
<1>8. TreeEndsBottomUp(q) /\ BlockersHaveCycles(q)
  BY <1>1 DEF Coherent, TreeEndsBottomUp, ChildEndsFirst, BlockersHaveCycles
<1>9. OriginKnown(q) /\ OwnerKnown(q)
  BY <1>1 DEF Coherent, OriginKnown, OwnerKnown, TurnKnown, ActivityKnown
<1>10. StoppedCycleInDebt(q)
  BY <1>1 DEF StoppedCycleInDebt, Blocked, BlockerOf
<1>11. ForegroundOnceStarted(q) /\ BlankUntilStarted(q)
  BY <1>1, <1>5 DEF ForegroundOnceStarted, BlankUntilStarted
<1>12. Sound(q)
  BY <1>6, <1>7, <1>8, <1>9, <1>10, <1>11 DEF Sound, Coherent
<1> QED  BY <1>12 DEF q

(* applyLive: what it opens is open, what it finds terminal it refuses. *)
LEMMA ApplyLiveSound ==
  ASSUME NEW r \in ReducerState, Coherent(r), r.started,
         NEW e \in TransitionEvent, e.turn \in Turn,
         e.state # "requires_action" => ~Blocked(r, e.cycle)
  PROVE  Sound(ApplyLive(r, e))
<1>1. CASE LiveDefect(r, e) # None
  BY <1>1, FailSound DEF ApplyLive, Unless
<1>2. CASE LiveDefect(r, e) = None /\ r.turns[e.turn] # None
  <2>1. ~r.turns[e.turn].terminal
    BY <1>2, NoneIsAnIdentityOfNothing DEF LiveDefect, TurnOver, ViolationKind
  <2> QED  BY <1>2, <2>1, ReportLiveSound DEF ApplyLive, Unless
<1>3. CASE LiveDefect(r, e) = None /\ r.turns[e.turn] = None
  <2> DEFINE o == OpenTurn(r, e.turn, "activity")
  <2>1. o \in ReducerState /\ o.turns[e.turn] # None /\ ~o.turns[e.turn].terminal
    <3>1. o \in ReducerState /\ o.turns[e.turn] \in TurnRecord
      BY OpenTurnType DEF Cause
    <3>2. ~o.turns[e.turn].terminal
      BY DEF OpenTurn, ReducerState
    <3> QED  BY <3>1, <3>2, NoneIsAnIdentityOfNothing
  <2>2. Coherent(o)
    BY <1>3, OpenTurnCoherent DEF Cause
  <2>3. o.started /\ o.actions = r.actions /\ o.actionCycle = r.actionCycle
    BY DEF OpenTurn, ReducerState
  <2> HIDE DEF o
  <2>4. e.state # "requires_action" => ~Blocked(o, e.cycle)
    BY <2>3 DEF Blocked, BlockerOf
  <2>5. Sound(ReportLive(o, e))
    BY <2>1, <2>2, <2>3, <2>4, ReportLiveSound
  <2> QED  BY <1>3, <2>5 DEF ApplyLive, Unless, o
<1> QED  BY <1>1, <1>2, <1>3

(* applyIdle: the turn that ends leaves the foreground. *)
LEMMA ApplyIdleSound ==
  ASSUME NEW r \in ReducerState, Coherent(r), r.started,
         NEW e \in TransitionEvent, ~Blocked(r, e.cycle)
  PROVE  Sound(ApplyIdle(r, e))
<1> DEFINE q == ApplyIdle(r, e)
<1>1. CASE e.turn # None /\ IdleDefect(r, e) # None
  BY <1>1, FailSound DEF ApplyIdle, Unless
<1>2. CASE e.turn = None \/ IdleDefect(r, e) = None
  <2>1. /\ q.foreground = IdleForeground(e)
        /\ q.activities = r.activities
        /\ q.actions = r.actions /\ q.actionCycle = r.actionCycle
        /\ q.started = r.started
        /\ q.turnSeen = r.turnSeen
    BY <1>2 DEF ApplyIdle, Unless, EndTurn, ReducerState
  <2>2. IdleForeground(e) \in Foreground
    BY TransitionParts DEF IdleForeground, Foreground, ForegroundState
  <2>3. \A x \in Turn : q.turns[x] # None => r.turns[x] # None
    <3>1. CASE e.turn = None
      BY <3>1 DEF ApplyIdle, ReducerState
    <3>2. CASE e.turn # None
      <4>1. q = EndTurn(r, e) /\ e.turn \in Turn
        BY <1>2, <3>2, TransitionParts DEF ApplyIdle, Unless
      <4>2. r.turns[e.turn] # None
        BY <1>2, <3>2, NoneIsAnIdentityOfNothing DEF IdleDefect, ViolationKind
      <4> QED  BY <4>1, <4>2 DEF EndTurn, ReducerState
    <3> QED  BY <3>1, <3>2
  <2> HIDE DEF q
  <2>4. RecordedTurnsWereSeen(q)
    BY <2>1, <2>3 DEF Coherent, RecordedTurnsWereSeen, TurnKnown
  <2>5. ForegroundTurnIsOpen(q)
    BY <2>1 DEF ForegroundTurnIsOpen, IdleForeground
  <2>6. TreeEndsBottomUp(q) /\ BlockersHaveCycles(q)
    BY <2>1 DEF Coherent, TreeEndsBottomUp, ChildEndsFirst, BlockersHaveCycles
  <2>7. OriginKnown(q) /\ OwnerKnown(q)
    BY <2>1 DEF Coherent, OriginKnown, OwnerKnown, TurnKnown, ActivityKnown
  <2>8. StoppedCycleInDebt(q)
    BY <2>1 DEF StoppedCycleInDebt, Blocked, BlockerOf, IdleForeground
  <2>9. ForegroundOnceStarted(q) /\ BlankUntilStarted(q)
    BY <2>1, <2>2, NoneIsAnIdentityOfNothing DEF ForegroundOnceStarted, BlankUntilStarted
  <2>10. Sound(q)
    BY <2>4, <2>5, <2>6, <2>7, <2>8, <2>9 DEF Sound, Coherent
  <2> QED  BY <2>10 DEF q
<1> QED  BY <1>1, <1>2

(* Settling a debt keeps the projection coherent, and the debt itself but  *)
(* for a requires_action transition (checkBlockedCycle).                   *)
LEMMA SettledCoherent ==
  ASSUME NEW r \in ReducerState, Sound(r), NEW e \in TransitionEvent
  PROVE  LET q == SettleBlockedCycle(r, e)
         IN  /\ q \in ReducerState
             /\ Coherent(q)
             /\ q.started = r.started
             /\ \A c : Blocked(q, c) = Blocked(r, c)
<1> DEFINE q == SettleBlockedCycle(r, e)
<1>1. q \in ReducerState
  BY DEF SettleBlockedCycle, ReducerState
<1>2. /\ q.foreground = r.foreground /\ q.turns = r.turns /\ q.turnSeen = r.turnSeen
      /\ q.activities = r.activities /\ q.actions = r.actions
      /\ q.actionCycle = r.actionCycle /\ q.started = r.started
  BY DEF SettleBlockedCycle, ReducerState
<1> HIDE DEF q
<1>3. Coherent(q)
  BY <1>2, SameProjectionCoherent DEF Sound
<1>4. \A c : Blocked(q, c) = Blocked(r, c)
  BY <1>2 DEF Blocked, BlockerOf
<1> QED  BY <1>1, <1>2, <1>3, <1>4 DEF q

(* applyStateUpdate: whatever the transition, what is left is sound.       *)
LEMMA ApplyStateUpdateSound ==
  ASSUME NEW r \in ReducerState, Sound(r), r.started, NEW e \in TransitionEvent
  PROVE  Sound(ApplyStateUpdate(r, e))
<1> DEFINE q == SettleBlockedCycle(r, e)
<1>1. Coherent(r)
  BY DEF Sound
<1>2. CASE \/ NamelessTurnDefect(e) # None \/ EndingIdleDefect(e) # None
           \/ BlockedCycleDefect(r, e) # None
  BY <1>1, <1>2, FailSound DEF ApplyStateUpdate
<1>3. CASE /\ NamelessTurnDefect(e) = None /\ EndingIdleDefect(e) = None
           /\ BlockedCycleDefect(r, e) = None
  <2>1. q \in ReducerState /\ Coherent(q) /\ q.started /\ \A c : Blocked(q, c) = Blocked(r, c)
    BY SettledCoherent
  <2>2. e.state # "requires_action" => ~Blocked(r, e.cycle)
    BY <1>3, NoneIsAnIdentityOfNothing DEF BlockedCycleDefect, ViolationKind
  <2>3. e.state # "idle" => e.turn \in Turn
    BY <1>3, TransitionParts, NoneIsAnIdentityOfNothing DEF NamelessTurnDefect, ViolationKind
  <2>4. ApplyStateUpdate(r, e) = IF e.state = "idle" THEN ApplyIdle(q, e) ELSE ApplyLive(q, e)
    BY <1>3 DEF ApplyStateUpdate
  <2> HIDE DEF q
  <2> QED  BY <2>1, <2>2, <2>3, <2>4, ApplyIdleSound, ApplyLiveSound
<1> QED  BY <1>2, <1>3

-----------------------------------------------------------------------------
(* activity_update and action_update *)

(* What no activity or action handler touches. *)
SameForeground(q, r) ==
  /\ q.foreground = r.foreground /\ q.turns = r.turns /\ q.turnSeen = r.turnSeen
  /\ q.started = r.started

(* The foreground and the turns answer for their share by themselves. *)
LEMMA SameForegroundParts ==
  ASSUME NEW r, NEW q, Coherent(r), r.started, SameForeground(q, r)
  PROVE  /\ RecordedTurnsWereSeen(q)
         /\ ForegroundTurnIsOpen(q)
         /\ ForegroundOnceStarted(q)
         /\ BlankUntilStarted(q)
BY DEF SameForeground, Coherent, RecordedTurnsWereSeen, ForegroundTurnIsOpen,
       ForegroundOnceStarted, BlankUntilStarted, TurnKnown

(* A first sight names an introduced origin and, if any, a known parent    *)
(* that is not over; nothing can have named the new activity before        *)
(* (applyActivityUpdate).                                                  *)
LEMMA FirstActivitySound ==
  ASSUME NEW r \in ReducerState, Sound(r), r.started,
         NEW u \in ActivityUpdate, ~ActivityKnown(r, u.id),
         ActivityFirstSightDefect(r, u) = None
  PROVE  Sound(RecordActivities(r, {u}))
<1> DEFINE q == RecordActivities(r, {u})
           rec == [kind |-> u.kind, state |-> u.state, parent |-> u.parent,
                   origin |-> u.origin, progress |-> u.progress]
<1>1. u.id \in Activity /\ Named({u}) = {u.id} /\ Naming({u}, u.id) = u
  BY DEF ActivityUpdate, Named, Naming
<1>2. /\ SameForeground(q, r) /\ q.failed = r.failed
      /\ q.actions = r.actions /\ q.actionCycle = r.actionCycle
      /\ q.blockedCycle = r.blockedCycle
  BY DEF RecordActivities, SameForeground, ReducerState
<1>3. q.activities = [a \in Activity |-> IF a = u.id THEN rec ELSE r.activities[a]]
  BY <1>1 DEF RecordActivities, ReducerState
<1>4. /\ TurnKnown(r, u.origin)
      /\ u.parent # None => ActivityKnown(r, u.parent) /\ ~ActivityOver(r.activities[u.parent])
  BY NoneIsAnIdentityOfNothing DEF ActivityFirstSightDefect, ViolationKind
<1>5. u.parent \in Activity \cup {None}
  BY DEF ActivityUpdate
<1>6. ASSUME NEW c \in Activity, r.activities[c] # None, r.activities[c].parent # None
      PROVE  r.activities[c].parent \in Activity \ {u.id}
  <2>1. r.activities[c] \in ActivityRecord
    BY <1>6 DEF ReducerState
  <2>2. r.activities[c].parent \in Activity
    BY <1>6, <2>1 DEF ActivityRecord
  <2>3. r.activities[r.activities[c].parent] # None
    BY <1>6 DEF Sound, Coherent, TreeEndsBottomUp, ChildEndsFirst
  <2> QED  BY <2>2, <2>3 DEF ActivityKnown
<1>7. rec # None
  <2>1. ActivityIdentityDefect(u) = None
    BY DEF ActivityFirstSightDefect
  <2>2. rec \in ActivityRecord
    BY <2>1, NoneIsAnIdentityOfNothing
    DEF ActivityUpdate, ActivityIdentityDefect, ActivityRecord, ViolationKind
  <2> QED  BY <2>2, NoneIsAnIdentityOfNothing
<1> HIDE DEF q
<1>8. TreeEndsBottomUp(q)
  <2> SUFFICES ASSUME NEW c \in Activity PROVE ChildEndsFirst(q, c)
    BY DEF TreeEndsBottomUp
  <2>1. CASE c = u.id
    BY <2>1, <1>1, <1>3, <1>4, <1>5 DEF ChildEndsFirst, ActivityKnown
  <2>2. CASE c # u.id
    BY <2>2, <1>3, <1>6 DEF ChildEndsFirst, Sound, Coherent, TreeEndsBottomUp
  <2> QED  BY <2>1, <2>2
<1>9. OriginKnown(q)
  BY <1>2, <1>3, <1>4 DEF OriginKnown, Sound, Coherent, SameForeground, TurnKnown
<1>10. OwnerKnown(q)
  <2>1. \A a \in Activity : r.activities[a] # None => q.activities[a] # None
    BY <1>3, <1>7
  <2>2. \A x \in Action : r.actions[x] # None =>
           (r.actions[x].owner.type = "activity" => r.actions[x].owner.id \in Activity)
    <3> TAKE x \in Action
    <3>1. HAVE r.actions[x] # None
    <3>2. r.actions[x].owner \in Owner
      BY <3>1 DEF ReducerState, ActionRecord
    <3> QED  BY <3>2 DEF Owner
  <2> QED  BY <1>2, <2>1, <2>2
           DEF OwnerKnown, Sound, Coherent, SameForeground, ActivityKnown, TurnKnown
<1>11. BlockersHaveCycles(q) /\ StoppedCycleInDebt(q)
  BY <1>2 DEF BlockersHaveCycles, StoppedCycleInDebt, Sound, Coherent, SameForeground,
              Blocked, BlockerOf
<1>12. Coherent(q)
  BY <1>2, <1>8, <1>9, <1>10, <1>11, SameForegroundParts DEF Sound, Coherent
<1>13. Sound(q)
  BY <1>11, <1>12 DEF Sound
<1> QED  BY <1>13 DEF q

(* A patch ends an activity only when none of its children is live.        *)
LEMMA PatchActivitySound ==
  ASSUME NEW r \in ReducerState, Sound(r), r.started,
         NEW u \in ActivityUpdate, ActivityKnown(r, u.id),
         ActivityPatchDefect(r, u) = None
  PROVE  Sound(PatchActivity(r, u))
<1> DEFINE q == PatchActivity(r, u)
           old == r.activities[u.id]
<1>1. u.id \in Activity /\ old \in ActivityRecord /\ old # None
  BY DEF ActivityUpdate, ActivityKnown, ReducerState
<1>2. CASE ActivityOver(old)
  BY <1>2 DEF PatchActivity
<1>3. CASE ~ActivityOver(old)
  <2>1. /\ SameForeground(q, r) /\ q.failed = r.failed
        /\ q.actions = r.actions /\ q.actionCycle = r.actionCycle
        /\ q.blockedCycle = r.blockedCycle
    BY DEF PatchActivity, SameForeground, ReducerState
  <2>2. q.activities = [r.activities EXCEPT ![u.id] = Patched(old, u)]
    BY <1>3 DEF PatchActivity, ReducerState
  <2>3. /\ Patched(old, u) \in ActivityRecord
        /\ Patched(old, u).parent = old.parent /\ Patched(old, u).origin = old.origin
        /\ Patched(old, u).state = u.state
    BY <1>1 DEF Patched, ActivityRecord, ActivityUpdate
  <2>4. /\ q.activities[u.id] = Patched(old, u) /\ Patched(old, u) # None
        /\ \A a \in Activity \ {u.id} : q.activities[a] = r.activities[a]
    BY <1>1, <2>2, <2>3, NoneIsAnIdentityOfNothing DEF ReducerState
  <2>5. ActivityOver(u) => ~LiveChild(r, u.id)
    BY <1>3, NoneIsAnIdentityOfNothing DEF ActivityPatchDefect, ViolationKind
  <2>6. \A a \in Activity : (q.activities[a] # None) = (r.activities[a] # None)
    BY <1>1, <2>4
  <2>7. \A a \in Activity : r.activities[a] # None =>
           /\ r.activities[a].parent \in Activity \cup {None}
           /\ q.activities[a].parent = r.activities[a].parent
           /\ q.activities[a].origin = r.activities[a].origin
    BY <1>1, <2>3, <2>4 DEF ReducerState, ActivityRecord
  <2> HIDE DEF q, old
  <2>8. TreeEndsBottomUp(q)
    <3> SUFFICES ASSUME NEW c \in Activity, q.activities[c] # None,
                        q.activities[c].parent # None
                 PROVE  /\ q.activities[q.activities[c].parent] # None
                        /\ ActivityOver(q.activities[q.activities[c].parent])
                             => ActivityOver(q.activities[c])
      BY DEF TreeEndsBottomUp, ChildEndsFirst
    <3> DEFINE p == r.activities[c].parent
    <3>1. r.activities[c] # None /\ p \in Activity /\ p # None /\ q.activities[c].parent = p
      BY <2>6, <2>7
    <3>2. r.activities[p] # None
          /\ (ActivityOver(r.activities[p]) => ActivityOver(r.activities[c]))
      BY <3>1 DEF Sound, Coherent, TreeEndsBottomUp, ChildEndsFirst
    <3>3. q.activities[p] # None
      BY <2>6, <3>1, <3>2
    <3>4. ASSUME ActivityOver(q.activities[p]) PROVE ActivityOver(q.activities[c])
      <4>1. CASE p = u.id
        <5>1. ActivityOver(u)
          BY <2>3, <2>4, <3>4, <4>1 DEF ActivityOver
        <5>2. ActivityOver(r.activities[c])
          BY <2>5, <3>1, <4>1, <5>1 DEF LiveChild
        <5> QED  BY <1>3, <2>4, <5>2 DEF old
      <4>2. CASE p # u.id
        <5>1. ActivityOver(r.activities[c])
          BY <2>4, <3>1, <3>2, <3>4, <4>2
        <5> QED  BY <1>3, <2>4, <5>1 DEF old
      <4> QED  BY <4>1, <4>2
    <3> QED  BY <3>1, <3>3, <3>4
  <2>9. OriginKnown(q)
    BY <2>1, <2>6, <2>7 DEF OriginKnown, Sound, Coherent, SameForeground, TurnKnown
  <2>10. OwnerKnown(q)
    <3>1. \A x \in Action : r.actions[x] # None =>
             (r.actions[x].owner.type = "activity" => r.actions[x].owner.id \in Activity)
      <4> TAKE x \in Action
      <4>1. HAVE r.actions[x] # None
      <4>2. r.actions[x].owner \in Owner
        BY <4>1 DEF ReducerState, ActionRecord
      <4> QED  BY <4>2 DEF Owner
    <3> QED  BY <2>1, <2>6, <3>1
             DEF OwnerKnown, Sound, Coherent, SameForeground, ActivityKnown, TurnKnown
  <2>11. BlockersHaveCycles(q) /\ StoppedCycleInDebt(q)
    BY <2>1 DEF BlockersHaveCycles, StoppedCycleInDebt, Sound, Coherent, SameForeground,
                Blocked, BlockerOf
  <2>12. Coherent(q)
    BY <2>1, <2>8, <2>9, <2>10, <2>11, SameForegroundParts DEF Sound, Coherent
  <2>13. Sound(q)
    BY <2>11, <2>12 DEF Sound
  <2> QED  BY <2>13 DEF q
<1> QED  BY <1>2, <1>3

(* applyActivityUpdate. *)
LEMMA ApplyActivityUpdateSound ==
  ASSUME NEW r \in ReducerState, Sound(r), r.started, NEW u \in ActivityUpdate
  PROVE  Sound(ApplyActivityUpdate(r, u))
<1>1. Coherent(r)
  BY DEF Sound
<1> QED  BY <1>1, FailSound, FirstActivitySound, PatchActivitySound
         DEF ApplyActivityUpdate, Unless

(* recordAction and blockForeground: recording blockers ties each to the   *)
(* current cycle, and puts that cycle in debt unless it reports waiting.   *)
LEMMA RecordActionsParts ==
  ASSUME NEW r \in ReducerState, r.foreground # None,
         OwnerKnown(r), BlockersHaveCycles(r), StoppedCycleInDebt(r),
         NEW us, FirstAsks(us),
         \A u \in us : IF u.owner.type = "activity" THEN ActivityKnown(r, u.owner.id)
                                                    ELSE TurnKnown(r, u.owner.id)
  PROVE  LET q == RecordActions(r, us)
         IN  /\ SameForeground(q, r) /\ q.failed = r.failed
             /\ q.activities = r.activities
             /\ OwnerKnown(q) /\ BlockersHaveCycles(q) /\ StoppedCycleInDebt(q)
<1> DEFINE q == RecordActions(r, us)
           blockers == {u \in us : ~ActionOver(u) /\ BlocksForeground(u) /\ r.foreground # None}
           rec(u) == [state |-> u.state, owner |-> u.owner, blocks |-> u.blocks]
<1>1. SameForeground(q, r) /\ q.failed = r.failed /\ q.activities = r.activities
  BY DEF RecordActions, SameForeground, ReducerState
<1>2. q.actions = [a \in Action |-> IF a \in Named(us) THEN rec(Naming(us, a)) ELSE r.actions[a]]
  BY DEF RecordActions, ReducerState
<1>3. q.actionCycle = [a \in Action |-> IF a \in Named(blockers) THEN r.foreground.cycle
                                                                 ELSE r.actionCycle[a]]
  BY DEF RecordActions, ReducerState
<1>4. blockers # {} /\ r.foreground.state # "requires_action"
        => q.blockedCycle = r.foreground.cycle
  BY DEF RecordActions, ReducerState
<1>5. blockers = {} => q.blockedCycle = r.blockedCycle
  BY DEF RecordActions, ReducerState
<1>6. ASSUME NEW a \in Action, a \in Named(us)
      PROVE  LET u == Naming(us, a)
             IN  /\ u \in us /\ u.id = a
                 /\ q.actions[a].owner = u.owner
                 /\ q.actions[a].blocks = u.blocks
                 /\ q.actions[a].state = u.state
                 /\ (u.blocks = "foreground" /\ u.state = "pending") => u \in blockers
  <2> DEFINE u == Naming(us, a)
  <2>1. u \in us /\ u.id = a
    BY <1>6 DEF Named, Naming
  <2>2. q.actions[a].owner = u.owner /\ q.actions[a].blocks = u.blocks
        /\ q.actions[a].state = u.state
    BY <1>2, <1>6
  <2>3. (u.blocks = "foreground" /\ u.state = "pending") => u \in blockers
    BY <2>1 DEF ActionOver, BlocksForeground, TerminalActionState
  <2> QED  BY <2>1, <2>2, <2>3
<1>7. r.foreground.cycle # None
  BY NoneIsAnIdentityOfNothing DEF ReducerState, Foreground
<1>8. ASSUME NEW a \in Action, a \notin Named(us)
      PROVE  /\ q.actions[a] = r.actions[a]
             /\ q.actionCycle[a] = r.actionCycle[a]
  <2>1. a \notin Named(blockers)
    BY <1>8 DEF Named
  <2> QED  BY <2>1, <1>2, <1>3, <1>8
<1>9. ASSUME NEW a \in Action, a \in Named(us),
             q.actions[a].blocks = "foreground", q.actions[a].state = "pending"
      PROVE  blockers # {} /\ q.actionCycle[a] = r.foreground.cycle
  <2> HIDE DEF blockers, rec, q
  <2>1. Naming(us, a) \in blockers /\ Naming(us, a).id = a
    BY <1>6, <1>9
  <2>2. a \in Named(blockers)
    BY <2>1 DEF Named
  <2> QED  BY <2>1, <2>2, <1>3
<1> HIDE DEF q, rec
<1>10. OwnerKnown(q)
  <2> SUFFICES ASSUME NEW a \in Action, q.actions[a] # None
               PROVE  IF q.actions[a].owner.type = "activity"
                      THEN ActivityKnown(q, q.actions[a].owner.id)
                      ELSE TurnKnown(q, q.actions[a].owner.id)
    BY DEF OwnerKnown
  <2>1. CASE a \in Named(us)
    <3>1. Naming(us, a) \in us /\ q.actions[a].owner = Naming(us, a).owner
      BY <1>6, <2>1
    <3> QED  BY <3>1, <1>1 DEF SameForeground, ActivityKnown, TurnKnown
  <2>2. CASE a \notin Named(us)
    BY <2>2, <1>1, <1>8 DEF OwnerKnown, SameForeground, ActivityKnown, TurnKnown
  <2> QED  BY <2>1, <2>2
<1> HIDE DEF blockers
<1>11. BlockersHaveCycles(q)
  <2> SUFFICES ASSUME NEW a \in Action, q.actions[a] # None,
                      q.actions[a].blocks = "foreground", q.actions[a].state = "pending"
               PROVE  q.actionCycle[a] # None
    BY DEF BlockersHaveCycles
  <2> QED  BY <1>7, <1>8, <1>9 DEF BlockersHaveCycles
<1>12. StoppedCycleInDebt(q)
  <2> SUFFICES ASSUME q.failed = None, r.foreground.state # "requires_action",
                      NEW a \in Action, BlockerOf(q, a, r.foreground.cycle)
               PROVE  q.blockedCycle = r.foreground.cycle
    BY <1>1 DEF StoppedCycleInDebt, Blocked, SameForeground
  <2>1. CASE blockers # {}
    BY <2>1, <1>4
  <2>2. CASE blockers = {}
    <3>1. a \notin Named(us)
      BY <2>2, <1>9 DEF BlockerOf
    <3>2. BlockerOf(r, a, r.foreground.cycle)
      BY <3>1, <1>8 DEF BlockerOf
    <3>3. r.blockedCycle = r.foreground.cycle
      BY <3>2, <1>1 DEF StoppedCycleInDebt, Blocked
    <3> QED  BY <2>2, <3>3, <1>5
  <2> QED  BY <2>1, <2>2
<1> QED  BY <1>1, <1>10, <1>11, <1>12 DEF q

(* The owner of a first sight was introduced (applyActionUpdate).          *)
LEMMA FirstActionSound ==
  ASSUME NEW r \in ReducerState, Sound(r), r.started,
         NEW u \in ActionUpdate, ActionFirstSightDefect(r, u) = None
  PROVE  Sound(RecordActions(r, {u}))
<1> DEFINE q == RecordActions(r, {u})
<1>1. r.foreground # None
  BY DEF Sound, Coherent, ForegroundOnceStarted
<1>2. FirstAsks({u})
  BY DEF FirstAsks, ActionFirstSightDefect
<1>3. \A v \in {u} : IF v.owner.type = "activity" THEN ActivityKnown(r, v.owner.id)
                                                  ELSE TurnKnown(r, v.owner.id)
  BY NoneIsAnIdentityOfNothing DEF ActionFirstSightDefect, ViolationKind
<1>4. OwnerKnown(r) /\ BlockersHaveCycles(r) /\ StoppedCycleInDebt(r)
  BY DEF Sound, Coherent
<1>5. /\ SameForeground(q, r) /\ q.activities = r.activities
      /\ OwnerKnown(q) /\ BlockersHaveCycles(q) /\ StoppedCycleInDebt(q)
  BY <1>1, <1>2, <1>3, <1>4, RecordActionsParts
<1> HIDE DEF q
<1>6. TreeEndsBottomUp(q) /\ OriginKnown(q)
  BY <1>5 DEF Sound, Coherent, TreeEndsBottomUp, ChildEndsFirst, OriginKnown, TurnKnown,
              SameForeground
<1>7. Sound(q)
  BY <1>5, <1>6, SameForegroundParts DEF Sound, Coherent
<1> QED  BY <1>7 DEF q

(* A patch resolves an action or changes nothing: it can only unblock.     *)
LEMMA PatchActionSound ==
  ASSUME NEW r \in ReducerState, Sound(r), r.started,
         NEW u \in ActionUpdate, r.actions[u.id] # None,
         ActionPatchDefect(r, u) = None
  PROVE  Sound(PatchAction(r, u))
<1> DEFINE q == PatchAction(r, u)
           old == r.actions[u.id]
<1>1. u.id \in Action /\ u.state \in ActionState /\ old \in ActionRecord
  BY DEF ActionUpdate, ReducerState
<1>2. /\ SameForeground(q, r) /\ q.failed = r.failed
      /\ q.activities = r.activities /\ q.actionCycle = r.actionCycle
      /\ q.blockedCycle = r.blockedCycle
  BY DEF PatchAction, SameForeground, ReducerState
<1>3. /\ q.actions[u.id] = [old EXCEPT !.state = u.state]
      /\ \A a \in Action \ {u.id} : q.actions[a] = r.actions[a]
  BY <1>1 DEF PatchAction, ReducerState
<1>4. /\ q.actions[u.id].owner = old.owner /\ q.actions[u.id].blocks = old.blocks
      /\ q.actions[u.id].state = u.state
  BY <1>1, <1>3 DEF ActionRecord
<1>5. u.state = "pending" => old.state = "pending"
  <2>1. ActionOver(old) => u.state = old.state
    BY NoneIsAnIdentityOfNothing DEF ActionPatchDefect, ViolationKind
  <2> QED  BY <1>1, <2>1 DEF ActionOver, ActionRecord, ActionState
<1> HIDE DEF q
<1>6. ASSUME NEW a \in Action, q.actions[a] # None
      PROVE  /\ r.actions[a] # None
             /\ q.actions[a].owner = r.actions[a].owner
             /\ q.actions[a].blocks = r.actions[a].blocks
             /\ q.actions[a].state = "pending" => r.actions[a].state = "pending"
  BY <1>3, <1>4, <1>5, <1>6
<1> HIDE DEF old
<1>7. OwnerKnown(q) /\ BlockersHaveCycles(q)
  BY <1>2, <1>6 DEF Sound, Coherent, OwnerKnown, BlockersHaveCycles, SameForeground,
                    ActivityKnown, TurnKnown
<1>8. StoppedCycleInDebt(q)
  <2>1. \A c : Blocked(q, c) => Blocked(r, c)
    BY <1>2, <1>6 DEF Blocked, BlockerOf
  <2> QED  BY <2>1, <1>2 DEF Sound, StoppedCycleInDebt, SameForeground
<1>9. TreeEndsBottomUp(q) /\ OriginKnown(q)
  BY <1>2 DEF Sound, Coherent, TreeEndsBottomUp, ChildEndsFirst, OriginKnown, TurnKnown,
              SameForeground
<1>10. Sound(q)
  BY <1>2, <1>7, <1>8, <1>9, SameForegroundParts DEF Sound, Coherent
<1> QED  BY <1>10 DEF q

(* applyActionUpdate. *)
LEMMA ApplyActionUpdateSound ==
  ASSUME NEW r \in ReducerState, Sound(r), r.started, NEW u \in ActionUpdate
  PROVE  Sound(ApplyActionUpdate(r, u))
<1>1. Coherent(r)
  BY DEF Sound
<1> QED  BY <1>1, FailSound, FirstActionSound, PatchActionSound
         DEF ApplyActionUpdate, Unless

(* apply. *)
LEMMA ApplySound ==
  ASSUME NEW r \in ReducerState, Sound(r), r.started,
         NEW e \in Event, e.type # "lifecycle_snapshot"
  PROVE  Sound(Apply(r, e))
<1>1. CASE e.type = "prompt_accepted"
  BY <1>1, ApplyPromptAcceptedSound DEF Apply, PromptEvent
<1>2. CASE e.type = "state_update"
  BY <1>2, ApplyStateUpdateSound DEF Apply, TransitionEvent
<1>3. CASE e.type = "activity_update"
  <2>1. e.activity \in ActivityUpdate
    BY <1>3 DEF Event
  <2> QED  BY <1>3, <2>1, ApplyActivityUpdateSound DEF Apply
<1>4. CASE e.type = "action_update"
  <2>1. e.action \in ActionUpdate
    BY <1>4 DEF Event
  <2> QED  BY <1>4, <2>1, ApplyActionUpdateSound DEF Apply
<1>5. e.type \in {"prompt_accepted", "state_update", "activity_update", "action_update"}
  BY DEF Event
<1> QED  BY <1>1, <1>2, <1>3, <1>4, <1>5

-----------------------------------------------------------------------------
(* lifecycle_snapshot *)

(* What checkSnapshot established about an accepted snapshot's lists: the  *)
(* activities are live and their parents listed, the owners of actions     *)
(* introduced.                                                             *)
LEMMA AcceptedSnapshot ==
  ASSUME NEW e \in SnapshotEvent, SnapshotDefect(e) = None
  PROVE  /\ \A u \in Listed(e.activities) :
              /\ ~ActivityOver(u)
              /\ u.origin # None
              /\ u.parent # None => u.parent \in Named(Listed(e.activities))
         /\ \A u \in Listed(e.actions) :
              IF u.owner.type = "activity" THEN u.owner.id \in Named(Listed(e.activities))
                                           ELSE u.owner.id \in SnapshotTurns(e)
         /\ ForegroundDefect(e.foreground) = None
<1>1. DOMAIN e.activities \subseteq Nat /\ DOMAIN e.actions \subseteq Nat
  BY SnapshotParts
<1>2. /\ SnapshotActivitiesDefect(e) = None /\ SnapshotActionsDefect(e) = None
      /\ ForegroundDefect(e.foreground) = None
  BY DEF SnapshotDefect
<1>3. \A i \in DOMAIN e.activities : SnapshotActivityDefect(e, i) = None
  BY <1>1, <1>2, FirstDefectFound DEF SnapshotActivitiesDefect
<1>4. \A i \in DOMAIN e.actions : SnapshotActionDefect(e, i) = None
  BY <1>1, <1>2, FirstDefectFound DEF SnapshotActionsDefect
<1>5. ASSUME NEW i \in DOMAIN e.activities
      PROVE  LET u == e.activities[i]
             IN  /\ ~ActivityOver(u)
                 /\ u.origin # None
                 /\ u.parent # None => u.parent \in Named(Listed(e.activities))
  BY <1>3, NoneIsAnIdentityOfNothing
  DEF SnapshotActivityDefect, ActivityIdentityDefect, ViolationKind
<1>6. ASSUME NEW i \in DOMAIN e.actions
      PROVE  LET u == e.actions[i]
             IN  IF u.owner.type = "activity" THEN u.owner.id \in Named(Listed(e.activities))
                                              ELSE u.owner.id \in SnapshotTurns(e)
  BY <1>4, NoneIsAnIdentityOfNothing DEF SnapshotActionDefect, ViolationKind
<1> QED  BY <1>2, <1>5, <1>6 DEF Listed

(* projectSnapshot on a stream that projects nothing yet.                  *)
LEMMA ProjectSnapshotSound ==
  ASSUME NEW r \in ReducerState, Blank(r), NEW e \in SnapshotEvent, SnapshotDefect(e) = None
  PROVE  LET q == ProjectSnapshot(r, e)
         IN  /\ RecordedTurnsWereSeen(q) /\ ForegroundTurnIsOpen(q)
             /\ TreeEndsBottomUp(q) /\ OriginKnown(q)
             /\ OwnerKnown(q) /\ BlockersHaveCycles(q) /\ StoppedCycleInDebt(q)
             /\ q.foreground # None
<1> DEFINE us == Listed(e.activities)
           p == ProjectForeground(r, e)
           m == RecordActivities(p, us)
           q == RecordActions(m, Listed(e.actions))
           rec(u) == [kind |-> u.kind, state |-> u.state, parent |-> u.parent,
                      origin |-> u.origin, progress |-> u.progress]
           f == e.foreground
<1>1. p \in ReducerState /\ m \in ReducerState
  BY SnapshotListsAreFirstSights, ProjectForegroundType, RecordActivitiesType
<1>2. /\ p.foreground = [state |-> f.state, cycle |-> f.cycle, turn |-> f.turn]
      /\ p.turnSeen = r.turnSeen \cup SnapshotTurns(e)
      /\ p.activities = [a \in Activity |-> None] /\ p.actions = [a \in Action |-> None]
      /\ p.turns = [t \in Turn |-> IF t = f.turn
                                   THEN [origin |-> f.origin, terminal |-> FALSE,
                                         cycle |-> f.cycle, outcome |-> None]
                                   ELSE None]
  BY DEF ProjectForeground, ReducerState, Blank
<1>3. f.turn \in Turn \cup {None} /\ (f.state # "idle" => f.turn # None)
  BY SnapshotParts, AcceptedSnapshot, NoneIsAnIdentityOfNothing
  DEF SnapshotForeground, ForegroundDefect, ViolationKind
<1>4. p.foreground # None
  <2>1. p.foreground \in Foreground
    BY <1>2, SnapshotParts DEF SnapshotForeground, Foreground
  <2> QED  BY <2>1, NoneIsAnIdentityOfNothing
<1>5. RecordedTurnsWereSeen(p)
  <2>1. f.turn # None => f.turn \in SnapshotTurns(e)
    BY DEF SnapshotTurns
  <2> QED  BY <1>2, <2>1, NoneIsAnIdentityOfNothing DEF RecordedTurnsWereSeen, TurnKnown
<1>6. ForegroundTurnIsOpen(p)
  <2> SUFFICES ASSUME f.state # "idle"
               PROVE  /\ f.turn # None
                      /\ p.turns[f.turn] # None
                      /\ ~p.turns[f.turn].terminal
                      /\ p.turns[f.turn].cycle = f.cycle
    BY <1>2 DEF ForegroundTurnIsOpen
  <2>1. f.turn \in Turn /\ f.turn # None
    BY <1>3
  <2>2. /\ p.turns[f.turn] = [origin |-> f.origin, terminal |-> FALSE,
                              cycle |-> f.cycle, outcome |-> None]
        /\ p.turns[f.turn] \in TurnRecord \cup {None}
    BY <1>1, <1>2, <2>1 DEF ReducerState
  <2>3. p.turns[f.turn] # None
    <3>1. f.origin \in Cause
      BY <2>1, SnapshotParts, AcceptedSnapshot, NoneIsAnIdentityOfNothing
      DEF SnapshotForeground, ForegroundDefect, ViolationKind
    <3>2. p.turns[f.turn] \in TurnRecord
      BY <2>2, <3>1, SnapshotParts DEF TurnRecord, SnapshotForeground
    <3> QED  BY <3>2, NoneIsAnIdentityOfNothing
  <2> QED  BY <2>1, <2>2, <2>3
<1>7. /\ SameForeground(m, p) /\ m.actions = [a \in Action |-> None]
      /\ m.activities = [a \in Activity |-> IF a \in Named(us) THEN rec(Naming(us, a)) ELSE None]
  BY <1>1, <1>2 DEF RecordActivities, SameForeground, ReducerState
<1>8. ASSUME NEW a \in Activity, a \in Named(us)
      PROVE  Naming(us, a) \in us
  BY <1>8 DEF Named, Naming
<1>9. ASSUME NEW a \in Activity, a \in Named(us)
      PROVE  m.activities[a] # None
  <2>1. Naming(us, a) \in ActivityUpdate /\ ActivityIdentityDefect(Naming(us, a)) = None
    BY <1>8, <1>9, SnapshotListsAreFirstSights DEF FirstSights
  <2>2. rec(Naming(us, a)) \in ActivityRecord
    BY <2>1, NoneIsAnIdentityOfNothing
    DEF ActivityUpdate, ActivityIdentityDefect, ActivityRecord, ViolationKind
  <2> QED  BY <1>7, <1>9, <2>2, NoneIsAnIdentityOfNothing
<1>10. ASSUME NEW a \in Activity, m.activities[a] # None
       PROVE  /\ ~ActivityOver(m.activities[a])
              /\ m.activities[a].origin \in SnapshotTurns(e)
              /\ m.activities[a].parent # None => m.activities[a].parent \in Named(us)
  <2>1. a \in Named(us) /\ m.activities[a] = rec(Naming(us, a))
    BY <1>7, <1>10
  <2>2. LET u == Naming(us, a)
        IN  /\ u \in us
            /\ ~ActivityOver(u) /\ u.origin # None
            /\ u.parent # None => u.parent \in Named(us)
    BY <1>8, <2>1, AcceptedSnapshot
  <2> QED  BY <2>1, <2>2 DEF SnapshotTurns, ActivityOver
<1>11. Named(us) \subseteq Activity
  BY SnapshotListsAreFirstSights DEF Named, FirstSights, ActivityUpdate
<1> HIDE DEF p, m, us, rec
<1>12. TreeEndsBottomUp(m) /\ OriginKnown(m)
  BY <1>2, <1>7, <1>9, <1>10, <1>11
  DEF TreeEndsBottomUp, ChildEndsFirst, OriginKnown, TurnKnown, SameForeground
<1>13. OwnerKnown(m) /\ BlockersHaveCycles(m) /\ StoppedCycleInDebt(m)
  BY <1>7 DEF OwnerKnown, BlockersHaveCycles, StoppedCycleInDebt, Blocked, BlockerOf
<1>14. ASSUME NEW u \in Listed(e.actions)
       PROVE  IF u.owner.type = "activity" THEN ActivityKnown(m, u.owner.id)
                                           ELSE TurnKnown(m, u.owner.id)
  BY <1>2, <1>7, <1>9, <1>11, AcceptedSnapshot
  DEF us, ActivityKnown, TurnKnown, SameForeground
<1>15. m.foreground # None
  BY <1>4, <1>7 DEF SameForeground
<1>16. /\ SameForeground(q, m) /\ q.activities = m.activities
       /\ OwnerKnown(q) /\ BlockersHaveCycles(q) /\ StoppedCycleInDebt(q)
  BY <1>1, <1>13, <1>14, <1>15, SnapshotListsAreFirstSights, RecordActionsParts
<1> HIDE DEF q
<1>17. RecordedTurnsWereSeen(q) /\ ForegroundTurnIsOpen(q)
  BY <1>5, <1>6, <1>7, <1>16
  DEF RecordedTurnsWereSeen, ForegroundTurnIsOpen, TurnKnown, SameForeground
<1>18. TreeEndsBottomUp(q) /\ OriginKnown(q)
  BY <1>12, <1>16 DEF TreeEndsBottomUp, ChildEndsFirst, OriginKnown, TurnKnown, SameForeground
<1> QED  BY <1>15, <1>16, <1>17, <1>18 DEF ProjectSnapshot, SameForeground, q, m, p, us

-----------------------------------------------------------------------------
(* Opening and superseding a stream *)

(* A stream that projects nothing projects nothing unsound. *)
LEMMA BlankSound ==
  ASSUME NEW r \in ReducerState, Blank(r), ~r.started
  PROVE  Sound(r)
<1>1. \A t \in Turn : r.turns[t] = None
  BY DEF Blank
<1>2. \A a \in Activity : r.activities[a] = None
  BY DEF Blank
<1>3. \A a \in Action : r.actions[a] = None
  BY DEF Blank
<1>4. RecordedTurnsWereSeen(r) /\ ForegroundTurnIsOpen(r)
  BY <1>1 DEF Blank, RecordedTurnsWereSeen, ForegroundTurnIsOpen
<1>5. TreeEndsBottomUp(r) /\ OriginKnown(r)
  BY <1>2 DEF TreeEndsBottomUp, ChildEndsFirst, OriginKnown
<1>6. OwnerKnown(r) /\ BlockersHaveCycles(r) /\ StoppedCycleInDebt(r)
  BY <1>3 DEF OwnerKnown, BlockersHaveCycles, StoppedCycleInDebt, Blocked, BlockerOf
<1>7. ForegroundOnceStarted(r) /\ BlankUntilStarted(r)
  BY DEF ForegroundOnceStarted, BlankUntilStarted
<1> QED  BY <1>4, <1>5, <1>6, <1>7 DEF Sound, Coherent

(* reduceFirst opens a sound stream, or leaves it projecting nothing.      *)
LEMMA ReduceFirstSound ==
  ASSUME NEW r \in ReducerState, Blank(r), ~r.started, r.failed = None, NEW d \in Delivery
  PROVE  Sound(ReduceFirst(r, d))
<1> DEFINE named == [r EXCEPT !.stream = d.stream]
           based == [named EXCEPT !.base = d.sequence]
           shown == ApplySnapshot(based, d.event)
           begun == [shown EXCEPT !.started = TRUE]
           opened == Commit(begun, d)
           q == ReduceFirst(r, d)
<1>1. d.sequence \in 0 .. MaxSequence /\ d.stream \in Stream /\ d.event \in Event
  BY BoundAssumption DEF Delivery, Sequence
<1>2. q \in ReducerState
  BY ReduceFirstType
<1>3. based \in ReducerState /\ Blank(based) /\ ~based.started /\ based.failed = None
  <2>1. named \in ReducerState
    BY <1>1 DEF ReducerState
  <2>2. Blank(named) /\ ~named.started /\ named.failed = None
    BY <1>1 DEF ReducerState, Blank
  <2> HIDE DEF named
  <2>3. based \in ReducerState
    BY <1>1, <2>1 DEF ReducerState
  <2>4. Blank(based) /\ ~based.started /\ based.failed = None
    BY <1>1, <2>1, <2>2 DEF ReducerState, Blank
  <2> QED  BY <2>3, <2>4
<1>4. CASE d.event.type # "lifecycle_snapshot"
  <2>1. q = Fail(named, "delta_before_snapshot")
    BY <1>4 DEF ReduceFirst
  <2>2. Blank(q) /\ ~q.started
    BY <1>1, <2>1 DEF Fail, ReducerState, Blank
  <2> HIDE DEF q
  <2>3. Sound(q)
    BY <1>2, <2>2, BlankSound
  <2> QED  BY <2>3 DEF q
<1>5. CASE d.event.type = "lifecycle_snapshot"
  <2>1. d.event \in SnapshotEvent
    BY <1>1, <1>5 DEF SnapshotEvent
  <2>2. shown \in ReducerState
    BY <1>3, <2>1, ApplySnapshotType
  <2>3. q = IF opened.failed # None THEN [opened EXCEPT !.started = FALSE] ELSE opened
    BY <1>5 DEF ReduceFirst
  <2> HIDE DEF based, named
  <2>4. CASE SnapshotDefect(d.event) # None
    <3>1. Blank(shown) /\ shown.failed # None
      BY <1>3, <2>4 DEF ApplySnapshot, Unless, Fail, ReducerState, Blank
    <3> HIDE DEF shown
    <3>2. begun \in ReducerState /\ Blank(begun) /\ begun.failed # None
      BY <2>2, <3>1 DEF ReducerState, Blank
    <3> HIDE DEF begun
    <3>3. opened = begun
      BY <3>2 DEF Commit
    <3>4. q = [begun EXCEPT !.started = FALSE]
      BY <2>3, <3>2, <3>3
    <3>5. Blank(q) /\ ~q.started
      BY <3>2, <3>4 DEF ReducerState, Blank
    <3> HIDE DEF q
    <3>6. Sound(q)
      BY <1>2, <3>5, BlankSound
    <3> QED  BY <3>6 DEF q
  <2>5. CASE SnapshotDefect(d.event) = None
    <3>1. shown = ProjectSnapshot(based, d.event)
      BY <2>5 DEF ApplySnapshot, Unless
    <3>2. shown.failed = None
      BY <1>3, <3>1 DEF ProjectSnapshot, RecordActions, RecordActivities, ProjectForeground,
                        ReducerState
    <3>3. /\ RecordedTurnsWereSeen(shown) /\ ForegroundTurnIsOpen(shown)
          /\ TreeEndsBottomUp(shown) /\ OriginKnown(shown)
          /\ OwnerKnown(shown) /\ BlockersHaveCycles(shown) /\ StoppedCycleInDebt(shown)
          /\ shown.foreground # None
      BY <1>3, <2>1, <2>5, <3>1, ProjectSnapshotSound
    <3> HIDE DEF shown
    <3>4. /\ begun \in ReducerState /\ begun.started /\ begun.failed = None
          /\ begun.foreground = shown.foreground /\ begun.turns = shown.turns
          /\ begun.turnSeen = shown.turnSeen /\ begun.activities = shown.activities
          /\ begun.actions = shown.actions /\ begun.actionCycle = shown.actionCycle
          /\ begun.blockedCycle = shown.blockedCycle
      BY <2>2, <3>2 DEF ReducerState
    <3> HIDE DEF begun
    <3>5. RecordedTurnsWereSeen(begun) /\ ForegroundTurnIsOpen(begun)
      BY <3>3, <3>4 DEF RecordedTurnsWereSeen, ForegroundTurnIsOpen, TurnKnown
    <3>6. TreeEndsBottomUp(begun) /\ OriginKnown(begun) /\ OwnerKnown(begun)
      BY <3>3, <3>4 DEF TreeEndsBottomUp, ChildEndsFirst, OriginKnown, OwnerKnown, TurnKnown,
                        ActivityKnown
    <3>7. BlockersHaveCycles(begun) /\ StoppedCycleInDebt(begun)
      BY <3>2, <3>3, <3>4 DEF BlockersHaveCycles, StoppedCycleInDebt, Blocked, BlockerOf
    <3>8. Sound(begun)
      BY <3>3, <3>4, <3>5, <3>6, <3>7
      DEF Sound, Coherent, ForegroundOnceStarted, BlankUntilStarted
    <3>9. Sound(opened)
      BY <3>4, <3>8, CommitSound
    <3>10. opened.failed = None
      BY <3>4 DEF Commit, ReducerState
    <3> QED  BY <2>3, <3>9, <3>10
  <2> QED  BY <2>4, <2>5
<1> QED  BY <1>4, <1>5

(* reduceForeign swaps in a sound incarnation or keeps the one it has.     *)
LEMMA ReduceForeignSound ==
  ASSUME NEW r \in ReducerState, Sound(r), r.stream # None, NEW d \in Delivery
  PROVE  Sound(ReduceForeign(r, d))
<1> DEFINE blank == Fresh(d.stream, r.retired)
           next == ReduceFirst(blank, d)
           adopted == [next EXCEPT !.closed = r.closed, !.retired = @ \cup {r.stream}]
<1>1. blank \in ReducerState
  BY FreshType DEF Delivery, ReducerState
<1>2. Blank(blank) /\ ~blank.started /\ blank.failed = None
  BY DEF Fresh, Blank
<1> HIDE DEF blank
<1>3. next \in ReducerState /\ Sound(next)
  BY <1>1, <1>2, ReduceFirstType, ReduceFirstSound
<1> HIDE DEF next
<1>4. /\ adopted.foreground = next.foreground /\ adopted.turns = next.turns
      /\ adopted.turnSeen = next.turnSeen /\ adopted.activities = next.activities
      /\ adopted.actions = next.actions /\ adopted.actionCycle = next.actionCycle
      /\ adopted.blockedCycle = next.blockedCycle
      /\ adopted.started = next.started /\ adopted.failed = next.failed
  BY <1>3 DEF ReducerState
<1>5. Sound(adopted)
  <2> HIDE DEF adopted
  <2> QED  BY <1>3, <1>4, SameProjectionSound
<1>6. \A k : k # None => Sound(Fail(r, k))
  BY FailSound DEF Sound
<1> QED  BY <1>5, <1>6, NoneIsAnIdentityOfNothing DEF ReduceForeign, next, blank, ViolationKind

(* Reduce. *)
LEMMA ReduceSound ==
  ASSUME NEW r \in ReducerState, Sound(r), r.started => r.stream # None, NEW d \in Delivery
  PROVE  Sound(Reduce(r, d))
<1>1. \A k \in ViolationKind : Sound(Fail(r, k))
  BY FailSound, NoneIsAnIdentityOfNothing DEF Sound
<1>2. Sound(ReduceDuplicate(r, d))
  <2> DEFINE q == [r EXCEPT !.suppressed = @ + 1]
  <2>1. /\ q.foreground = r.foreground /\ q.turns = r.turns /\ q.turnSeen = r.turnSeen
        /\ q.activities = r.activities /\ q.actions = r.actions
        /\ q.actionCycle = r.actionCycle /\ q.blockedCycle = r.blockedCycle
        /\ q.started = r.started /\ q.failed = r.failed
    BY DEF ReducerState
  <2> HIDE DEF q
  <2>2. Sound(q)
    BY <2>1, SameProjectionSound
  <2> QED  BY <1>1, <2>2 DEF ReduceDuplicate, q, ViolationKind
<1>3. ~r.started /\ r.failed = None => Sound(ReduceFirst(r, d))
  <2>1. ~r.started => Blank(r)
    BY DEF Sound, Coherent, BlankUntilStarted
  <2> QED  BY <2>1, ReduceFirstSound
<1>4. r.started => Sound(ReduceForeign(r, d))
  BY ReduceForeignSound
<1>5. r.started /\ d.event.type # "lifecycle_snapshot" => Sound(Commit(Apply(r, d.event), d))
  <2>1. d.event \in Event
    BY DEF Delivery
  <2> QED  BY <2>1, ApplyType, ApplySound, CommitSound
<1>6. {"illegal_carrier", "stale_stream", "sequence_regression", "sequence_gap",
       "stream_cycle"} \subseteq ViolationKind
  BY DEF ViolationKind
<1> QED  BY <1>1, <1>2, <1>3, <1>4, <1>5, <1>6 DEF Reduce

==============================================================================
