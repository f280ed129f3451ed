------------------------------ MODULE Reduction ------------------------------
(***************************************************************************)
(* The lifecycle reducer as operators over its state                       *)
(* (lifecycle/reducer.go, reducer_apply.go, state.go): Reduce(r, d) is the *)
(* reducer r after it was handed delivery d.  Each handler mirrors the     *)
(* method of that name; where the method returns the first refusal of a    *)
(* list of checks, "...Defect" is that list in the code's order.           *)
(*                                                                         *)
(* activitySeen is left out: recordActivity is the only writer of it and   *)
(* of the records, so it is the set of activities that have a record.  The *)
(* order of the projected slices is left out too.                          *)
(***************************************************************************)
EXTENDS Lifecycle

CONSTANT RetainFrames  \* FALSE on an emitter's validating reducer (frames = nil)

ASSUME RetainFramesAssumption == RetainFrames \in BOOLEAN

ReducerState ==
  [stream : Stream \cup {None},
   started : BOOLEAN,
   failed : ViolationKind \cup {None},
   closed : BOOLEAN,
   base : 0 .. MaxSequence,
   reducedThrough : 0 .. MaxSequence,
   suppressed : Nat,
   frames : [Sequence -> Event \cup {None}],
   foreground : Foreground \cup {None},
   turns : [Turn -> TurnRecord \cup {None}],
   turnSeen : SUBSET Turn,
   activities : [Activity -> ActivityRecord \cup {None}],
   actions : [Action -> ActionRecord \cup {None}],
   actionCycle : [Action -> Cycle \cup {None}],
   blockedCycle : Cycle \cup {None},
   retired : SUBSET Stream]

Fresh(stream, retired) ==
  [stream |-> stream, started |-> FALSE, failed |-> None, closed |-> FALSE,
   base |-> 0, reducedThrough |-> 0, suppressed |-> 0,
   frames |-> [n \in Sequence |-> None],
   foreground |-> None,
   turns |-> [t \in Turn |-> None], turnSeen |-> {},
   activities |-> [a \in Activity |-> None],
   actions |-> [a \in Action |-> None],
   actionCycle |-> [a \in Action |-> None],
   blockedCycle |-> None,
   retired |-> retired]

Fail(r, kind) == [r EXCEPT !.failed = kind]

(* Refuse with the defect found, or go on. *)
Unless(r, defect, next) == IF defect # None THEN Fail(r, defect) ELSE next

TurnKnown(r, t) == t \in r.turnSeen
ActivityKnown(r, a) == r.activities[a] # None
TurnOver(r, t) == r.turns[t] # None /\ r.turns[t].terminal

-----------------------------------------------------------------------------
(* Recording first sights.  us is a set of updates with distinct ids: the  *)
(* one update of an event, or the list of a snapshot.                      *)

Naming(us, id) == CHOOSE u \in us : u.id = id
Named(us) == {u.id : u \in us}

RecordActivities(r, us) ==
  [r EXCEPT !.activities =
     [a \in Activity |->
        IF a \in Named(us)
        THEN LET u == Naming(us, a)
             IN  [kind |-> u.kind, state |-> u.state, parent |-> u.parent,
                  origin |-> u.origin, progress |-> u.progress]
        ELSE r.activities[a]]]

(* Faulty variant: a debt already recorded is not replaced by the current cycle's. *)
RecordActionsFirstDebtWins(r, us) ==
  LET blockers == {u \in us : ~ActionOver(u) /\ BlocksForeground(u) /\ r.foreground # None}
  IN  [r EXCEPT
         !.actions =
            [a \in Action |->
               IF a \in Named(us)
               THEN LET u == Naming(us, a)
                    IN  [state |-> u.state, owner |-> u.owner, blocks |-> u.blocks]
               ELSE r.actions[a]],
         !.actionCycle =
            [a \in Action |->
               IF a \in Named(blockers) THEN r.foreground.cycle ELSE r.actionCycle[a]],
         !.blockedCycle = IF blockers # {} /\ @ = None THEN r.foreground.cycle ELSE @]

(* A blocker blocks the cycle current at its first sight, which then owes  *)
(* its requires_action transition.                                         *)
RecordActions(r, us) ==
  LET blockers == {u \in us : ~ActionOver(u) /\ BlocksForeground(u) /\ r.foreground # None}
  IN  [r EXCEPT
         !.actions =
            [a \in Action |->
               IF a \in Named(us)
               THEN LET u == Naming(us, a)
                    IN  [state |-> u.state, owner |-> u.owner, blocks |-> u.blocks]
               ELSE r.actions[a]],
         !.actionCycle =
            [a \in Action |->
               IF a \in Named(blockers) THEN r.foreground.cycle ELSE r.actionCycle[a]],
         !.blockedCycle =
            IF blockers # {} /\ r.foreground.state # "requires_action"
            THEN r.foreground.cycle ELSE @]

-----------------------------------------------------------------------------
(* lifecycle_snapshot *)

Listed(s) == {s[i] : i \in DOMAIN s}

SnapshotTurns(e) ==
  ({e.foreground.turn} \cup {u.origin : u \in Listed(e.activities)}) \ {None}

ActivityIdentityDefect(u) ==
  IF u.kind = None \/ u.origin = None THEN "immutable_identity_change"
  ELSE IF u.kind \notin NegotiatedKind THEN "unnegotiated_fact"
  ELSE None

(* Faulty variant: an omitted blocksForeground reads as present. *)
ActionIdentityDefectDefaulting(u) ==
  IF u.owner = None THEN "malformed_envelope" ELSE None

ActionIdentityDefect(u) ==
  IF u.owner = None \/ u.blocks = None THEN "malformed_envelope" ELSE None

ListedTwice(s, i) == \E j \in 1 .. i - 1 : s[j].id = s[i].id

SnapshotActivityDefect(e, i) ==
  LET u == e.activities[i]
  IN  IF ListedTwice(e.activities, i) THEN "malformed_envelope"
      ELSE IF ActivityIdentityDefect(u) # None THEN ActivityIdentityDefect(u)
      ELSE IF ActivityOver(u) THEN "malformed_envelope"
      ELSE IF u.parent # None /\ u.parent \notin Named(Listed(e.activities))
           THEN "unknown_entity"
      ELSE None

SnapshotActionDefect(e, i) ==
  LET u == e.actions[i]
      introduced == IF u.owner.type = "activity" THEN Named(Listed(e.activities))
                                                 ELSE SnapshotTurns(e)
  IN  IF ListedTwice(e.actions, i) THEN "malformed_envelope"
      ELSE IF ActionIdentityDefect(u) # None THEN ActionIdentityDefect(u)
      ELSE IF ActionOver(u) THEN "malformed_envelope"
      ELSE IF u.owner.id \notin introduced THEN "unknown_entity"
      ELSE None

(* The first defect of a list of them, in the list's order. *)
FirstDefect(defects) ==
  LET bad == {i \in DOMAIN defects : defects[i] # None}
  IN  IF bad = {} THEN None ELSE defects[CHOOSE i \in bad : \A j \in bad : i <= j]

SnapshotActivitiesDefect(e) ==
  FirstDefect([i \in DOMAIN e.activities |-> SnapshotActivityDefect(e, i)])

SnapshotActionsDefect(e) ==
  FirstDefect([i \in DOMAIN e.actions |-> SnapshotActionDefect(e, i)])

SnapshotDefect(e) ==
  IF ForegroundDefect(e.foreground) # None THEN ForegroundDefect(e.foreground)
  ELSE IF SnapshotActivitiesDefect(e) # None THEN SnapshotActivitiesDefect(e)
  ELSE IF SnapshotActionsDefect(e) # None THEN SnapshotActionsDefect(e)
  ELSE IF /\ e.foreground.state = "requires_action"
          /\ ~ \E u \in Listed(e.actions) : BlocksForeground(u)
       THEN "inconsistent_foreground"
  ELSE None

ProjectForeground(r, e) ==
  LET f == e.foreground
  IN  [r EXCEPT
         !.foreground = [state |-> f.state, cycle |-> f.cycle, turn |-> f.turn],
         !.turns = [t \in Turn |->
                      IF t = f.turn
                      THEN [origin |-> f.origin, terminal |-> FALSE,
                            cycle |-> f.cycle, outcome |-> None]
                      ELSE r.turns[t]],
         !.turnSeen = @ \cup SnapshotTurns(e)]

ProjectSnapshot(r, e) ==
  RecordActions(RecordActivities(ProjectForeground(r, e), Listed(e.activities)),
                Listed(e.actions))

ApplySnapshot(r, e) == Unless(r, SnapshotDefect(e), ProjectSnapshot(r, e))

-----------------------------------------------------------------------------
(* prompt_accepted *)

PromptDefect(r, e) ==
  IF TurnOver(r, e.turn) THEN "post_terminal_mutation"
  ELSE IF TurnKnown(r, e.turn) THEN "immutable_identity_change"
  ELSE None

OpenTurn(r, turn, origin) ==
  [r EXCEPT !.turns[turn] =
              [origin |-> origin, terminal |-> FALSE, cycle |-> None, outcome |-> None],
            !.turnSeen = @ \cup {turn}]

ApplyPromptAccepted(r, e) ==
  Unless(r, PromptDefect(r, e), OpenTurn(r, e.turn, "submission"))

-----------------------------------------------------------------------------
(* state_update *)

BlockerOf(r, a, cycle) ==
  /\ r.actions[a] # None
  /\ r.actions[a].blocks = "foreground"
  /\ r.actions[a].state = "pending"
  /\ r.actionCycle[a] = cycle

Blocked(r, cycle) == \E a \in Action : BlockerOf(r, a, cycle)

BlockedCycleDefect(r, e) ==
  IF \/ e.state = "requires_action" /\ ~Blocked(r, e.cycle)
     \/ e.state # "requires_action" /\ (Blocked(r, e.cycle) \/ r.blockedCycle = e.cycle)
  THEN "inconsistent_foreground" ELSE None

(* The transition a blocked cycle owes was reported.  This is done before  *)
(* the transition is judged further, so a refused one settles it too.      *)
SettleBlockedCycle(r, e) ==
  [r EXCEPT !.blockedCycle = IF e.state = "requires_action" /\ @ = e.cycle THEN None ELSE @]

LiveDefect(r, e) ==
  IF TurnOver(r, e.turn) THEN "post_terminal_mutation"
  ELSE IF r.turns[e.turn] = None /\ ~(e.cause = "activity" /\ e.state = "running")
       THEN "unknown_entity"
  ELSE None

ReportLive(r, e) ==
  [r EXCEPT !.turns[e.turn].cycle = e.cycle,
            !.foreground = [state |-> e.state, cycle |-> e.cycle, turn |-> e.turn]]

(* Faulty variant: the turn is opened before the transition is judged. *)
ApplyLiveOpeningFirst(r, e) ==
  LET opened == IF r.turns[e.turn] = None THEN OpenTurn(r, e.turn, "activity") ELSE r
  IN  Unless(opened, LiveDefect(r, e), ReportLive(opened, e))

ApplyLive(r, e) ==
  Unless(r, LiveDefect(r, e),
         IF r.turns[e.turn] = None THEN ReportLive(OpenTurn(r, e.turn, "activity"), e)
                                   ELSE ReportLive(r, e))

IdleForeground(e) == [state |-> "idle", cycle |-> e.cycle, turn |-> None]

EndTurn(r, e) ==
  [r EXCEPT !.turns[e.turn] = [@ EXCEPT !.terminal = TRUE, !.outcome = e.outcome,
                                        !.cycle = e.cycle],
            !.foreground = IdleForeground(e)]

IdleDefect(r, e) ==
  IF TurnOver(r, e.turn) THEN "post_terminal_mutation"
  ELSE IF r.turns[e.turn] = None THEN "unknown_entity"
  ELSE None

ApplyIdle(r, e) ==
  IF e.turn = None THEN [r EXCEPT !.foreground = IdleForeground(e)]
  ELSE Unless(r, IdleDefect(r, e), EndTurn(r, e))

ApplyStateUpdate(r, e) ==
  IF NamelessTurnDefect(e) # None THEN Fail(r, NamelessTurnDefect(e))
  ELSE IF EndingIdleDefect(e) # None THEN Fail(r, EndingIdleDefect(e))
  ELSE IF BlockedCycleDefect(r, e) # None THEN Fail(r, BlockedCycleDefect(r, e))
  ELSE IF e.state = "idle" THEN ApplyIdle(SettleBlockedCycle(r, e), e)
  ELSE ApplyLive(SettleBlockedCycle(r, e), e)

-----------------------------------------------------------------------------
(* activity_update *)

ImmutableActivityConflict(existing, u) ==
  \/ u.kind # None /\ u.kind # existing.kind
  \/ u.parent # None /\ u.parent # existing.parent
  \/ u.origin # None /\ u.origin # existing.origin

TerminalActivityDifference(existing, u) ==
  \/ ImmutableActivityConflict(existing, u)
  \/ u.state # existing.state
  \/ u.progress # None /\ u.progress # existing.progress

LiveChild(r, a) ==
  \E c \in Activity : /\ r.activities[c] # None
                      /\ r.activities[c].parent = a
                      /\ ~ActivityOver(r.activities[c])

UnresolvedAction(r, a) ==
  \E x \in Action : /\ r.actions[x] # None
                    /\ r.actions[x].owner = [type |-> "activity", id |-> a]
                    /\ r.actions[x].state = "pending"

ActivityPatchDefect(r, u) ==
  LET existing == r.activities[u.id]
  IN  IF ActivityOver(existing)
      THEN IF TerminalActivityDifference(existing, u) THEN "post_terminal_mutation" ELSE None
      ELSE IF ImmutableActivityConflict(existing, u) THEN "immutable_identity_change"
      ELSE IF ActivityOver(u) /\ (LiveChild(r, u.id) \/ UnresolvedAction(r, u.id))
           THEN "parent_terminal_before_child"
      ELSE None

Patched(existing, u) ==
  [existing EXCEPT !.state = u.state,
                   !.progress = IF u.progress # None THEN u.progress ELSE @]

PatchActivity(r, u) ==
  IF ActivityOver(r.activities[u.id]) THEN r
  ELSE [r EXCEPT !.activities[u.id] = Patched(r.activities[u.id], u)]

(* Faulty variant: a terminal parent may gain a child. *)
ActivityFirstSightDefectLate(r, u) ==
  IF ActivityIdentityDefect(u) # None THEN ActivityIdentityDefect(u)
  ELSE IF ~TurnKnown(r, u.origin) THEN "unknown_entity"
  ELSE IF u.parent # None /\ ~ActivityKnown(r, u.parent) THEN "unknown_entity"
  ELSE None

ActivityFirstSightDefect(r, u) ==
  IF ActivityIdentityDefect(u) # None THEN ActivityIdentityDefect(u)
  ELSE IF ~TurnKnown(r, u.origin) THEN "unknown_entity"
  ELSE IF u.parent = None THEN None
  ELSE IF ~ActivityKnown(r, u.parent) THEN "unknown_entity"
  ELSE IF ActivityOver(r.activities[u.parent]) THEN "child_after_parent_terminal"
  ELSE None

ApplyActivityUpdate(r, u) ==
  IF ActivityKnown(r, u.id)
  THEN Unless(r, ActivityPatchDefect(r, u), PatchActivity(r, u))
  ELSE Unless(r, ActivityFirstSightDefect(r, u), RecordActivities(r, {u}))

-----------------------------------------------------------------------------
(* action_update *)

ImmutableActionConflict(existing, u) ==
  \/ u.owner # None /\ u.owner # existing.owner
  \/ u.blocks # None /\ u.blocks # existing.blocks

(* Faulty variant: a resolved action may be resolved again, otherwise. *)
ActionPatchDefectTwice(r, u) ==
  IF ImmutableActionConflict(r.actions[u.id], u) THEN "immutable_identity_change" ELSE None

ActionPatchDefect(r, u) ==
  LET existing == r.actions[u.id]
  IN  IF ActionOver(existing)
      THEN IF ImmutableActionConflict(existing, u) \/ u.state # existing.state
           THEN "post_terminal_mutation" ELSE None
      ELSE IF ImmutableActionConflict(existing, u) THEN "immutable_identity_change"
      ELSE None

PatchAction(r, u) == [r EXCEPT !.actions[u.id].state = u.state]

(* The owner must have been introduced; whether it is over is not asked.   *)
ActionFirstSightDefect(r, u) ==
  IF ActionIdentityDefect(u) # None THEN ActionIdentityDefect(u)
  ELSE IF IF u.owner.type = "activity" THEN ~ActivityKnown(r, u.owner.id)
                                       ELSE ~TurnKnown(r, u.owner.id)
       THEN "unknown_entity"
  ELSE None

ApplyActionUpdate(r, u) ==
  IF r.actions[u.id] # None
  THEN Unless(r, ActionPatchDefect(r, u), PatchAction(r, u))
  ELSE Unless(r, ActionFirstSightDefect(r, u), RecordActions(r, {u}))

-----------------------------------------------------------------------------
(* Ordering, incarnations, commit. *)

Apply(r, e) ==
  CASE e.type = "prompt_accepted" -> ApplyPromptAccepted(r, e)
    [] e.type = "state_update"    -> ApplyStateUpdate(r, e)
    [] e.type = "activity_update" -> ApplyActivityUpdate(r, e.activity)
    [] e.type = "action_update"   -> ApplyActionUpdate(r, e.action)

(* Faulty variant: only the last frame is retained. *)
CommitLastFrame(r, d) ==
  IF r.failed # None THEN r
  ELSE [r EXCEPT !.reducedThrough = d.sequence,
                 !.frames = [n \in Sequence |->
                               IF RetainFrames /\ n = d.sequence THEN d.event ELSE None]]

Commit(r, d) ==
  IF r.failed # None THEN r
  ELSE [r EXCEPT !.reducedThrough = d.sequence,
                 !.frames[d.sequence] = IF RetainFrames THEN d.event ELSE None]

(* A refused opening names the stream and leaves the reducer unstarted.    *)
ReduceFirst(r, d) ==
  LET named == [r EXCEPT !.stream = d.stream]
      based == [named EXCEPT !.base = d.sequence]
      opened == Commit([ApplySnapshot(based, d.event) EXCEPT !.started = TRUE], d)
  IN  IF d.event.type # "lifecycle_snapshot" THEN Fail(named, "delta_before_snapshot")
      ELSE IF opened.failed # None THEN [opened EXCEPT !.started = FALSE]
      ELSE opened

(* The next incarnation is judged on a projection of its own and swapped   *)
(* in only once it proves out.                                             *)
ReduceForeign(r, d) ==
  LET next == ReduceFirst(Fresh(d.stream, r.retired), d)
  IN  IF d.event.type # "lifecycle_snapshot" \/ d.stream \in r.retired
      THEN Fail(r, "stale_stream")
      ELSE IF next.failed # None THEN Fail(r, next.failed)
      ELSE [next EXCEPT !.closed = r.closed, !.retired = @ \cup {r.stream}]

ReduceDuplicate(r, d) ==
  IF r.frames[d.sequence] = d.event THEN [r EXCEPT !.suppressed = @ + 1]
  ELSE Fail(r, "conflicting_duplicate")

AlreadyReduced(r, n) == n <= r.reducedThrough

(* Faulty variant: one lost sequence goes unnoticed. *)
SkipsASequenceByTwo(r, n) == n > r.reducedThrough + 2

SkipsASequence(r, n) == n > r.reducedThrough + 1

Reduce(r, d) ==
  IF r.failed # None THEN r
  ELSE IF d.carrier # "session_info_update" THEN Fail(r, "illegal_carrier")
  ELSE IF r.closed THEN Fail(r, "stale_stream")
  ELSE IF ~r.started THEN ReduceFirst(r, d)
  ELSE IF d.stream # r.stream THEN ReduceForeign(r, d)
  ELSE IF d.sequence < r.base THEN Fail(r, "sequence_regression")
  ELSE IF AlreadyReduced(r, d.sequence) THEN ReduceDuplicate(r, d)
  ELSE IF SkipsASequence(r, d.sequence) THEN Fail(r, "sequence_gap")
  ELSE IF d.event.type = "lifecycle_snapshot" THEN Fail(r, "stream_cycle")
  ELSE Commit(Apply(r, d.event), d)

(* Faulty variant: a later refusal replaces the first verdict. *)
RefuseFrameAgain(r, kind, stream) ==
  [Fail(r, kind) EXCEPT !.stream = IF r.started THEN @ ELSE stream]

(* ReduceSessionUpdate on a frame the decoder refused.  A stream that has  *)
(* not opened takes the name the refused frame bore, if it bore one.       *)
RefuseFrame(r, kind, stream) ==
  IF r.failed # None THEN r
  ELSE [Fail(r, kind) EXCEPT !.stream = IF r.started THEN @ ELSE stream]

Close(r) == [r EXCEPT !.closed = TRUE]

Settled(r) ==
  /\ r.foreground = None \/ r.foreground.state = "idle"
  /\ \A a \in Activity : r.activities[a] # None => ActivityOver(r.activities[a])
  /\ \A a \in Action : r.actions[a] # None => ActionOver(r.actions[a])

=============================================================================
