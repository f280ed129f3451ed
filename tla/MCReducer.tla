------------------------------ MODULE MCReducer ------------------------------
(* Event alphabets for the model checking of Reducer. *)
EXTENDS Reducer, TLC

CONSTANTS t1, t2, c1, c2, a1, a2, a3, p1, p2

Idle(cycle) == [state |-> "idle", cycle |-> cycle, turn |-> None, origin |-> None]
Running(turn, cycle) ==
  [state |-> "running", cycle |-> cycle, turn |-> turn, origin |-> "submission"]
Waiting(turn, cycle) == [Running(turn, cycle) EXCEPT !.state = "requires_action"]

Snapshot(f, activities, actions) ==
  [type |-> "lifecycle_snapshot", foreground |-> f, activities |-> activities,
   actions |-> actions]
Prompt(t) == [type |-> "prompt_accepted", turn |-> t]
Transition(state, cycle, turn, cause) ==
  [type |-> "state_update", state |-> state, cycle |-> cycle, turn |-> turn,
   cause |-> cause, stop |-> None, outcome |-> None]
Ending(cycle, turn, outcome, stop) ==
  [Transition("idle", cycle, turn, "submission") EXCEPT !.stop = stop, !.outcome = outcome]
OfActivity(u) == [type |-> "activity_update", activity |-> u]
OfAction(u) == [type |-> "action_update", action |-> u]

Seen(a, parent, turn) ==
  [id |-> a, kind |-> "task", state |-> "running", parent |-> parent, origin |-> turn,
   progress |-> None]
Patch(a, state) ==
  [id |-> a, kind |-> None, state |-> state, parent |-> None, origin |-> None,
   progress |-> None]
TurnOwner(t) == [type |-> "turn", id |-> t]
ActivityOwner(a) == [type |-> "activity", id |-> a]
Asked(p, owner, blocks) == [id |-> p, state |-> "pending", owner |-> owner, blocks |-> blocks]
Answered(p, state) == [id |-> p, state |-> state, owner |-> None, blocks |-> None]

-----------------------------------------------------------------------------
(* Turns, cycles and blocking actions; two of each. *)

ForegroundSnapshots ==
  {Snapshot(Idle(c1), <<>>, <<>>),
   Snapshot(Waiting(t1, c1), <<>>, <<Asked(p1, TurnOwner(t1), "foreground")>>),
   Snapshot(Waiting(t1, c1), <<>>, <<Asked(p1, TurnOwner(t1), "background")>>),
   Snapshot(Running(t1, c1), <<>>, <<Asked(p1, TurnOwner(t1), "foreground")>>),
   Snapshot(Running(t1, c1), <<>>, <<Asked(p1, TurnOwner(t2), "foreground")>>)}

ForegroundEvents ==
  ForegroundSnapshots
  \cup {Prompt(t) : t \in {t1, t2}}
  \cup {Transition(s, c, t, cause) : s \in {"running", "requires_action"}, c \in {c1, c2},
                                      t \in {t1, t2}, cause \in {"submission", "activity"}}
  \cup {Ending(c, t, "success", "stated") : c \in {c1, c2}, t \in {t1, t2}}
  \cup {Ending(c1, t1, "failed", "stated"), Ending(c1, t1, "failed", None)}
  \cup {Transition("idle", c, None, "session") : c \in {c1, c2}}
  \cup {Transition("running", c1, None, "session")}
  \cup {OfAction(Asked(p, TurnOwner(t1), b)) : p \in {p1, p2}, b \in {"foreground", "background"}}
  \cup {OfAction([Asked(p1, TurnOwner(t1), "foreground") EXCEPT !.blocks = None])}
  \cup {OfAction(Answered(p, s)) : p \in {p1, p2}, s \in {"pending", "accepted", "cancelled"}}

-----------------------------------------------------------------------------
(* An activity tree under one turn, with an action hung off it. *)

TreeSnapshots ==
  {Snapshot(Idle(c1), <<>>, <<>>),
   Snapshot(Running(t1, c1), <<Seen(a1, None, t1)>>, <<>>),
   Snapshot(Idle(c1), <<Seen(a1, a2, t2), Seen(a2, None, t2)>>,
            <<Asked(p1, ActivityOwner(a1), "background")>>),
   Snapshot(Idle(c1), <<Seen(a1, a1, t2)>>, <<>>),
   Snapshot(Idle(c1), <<Seen(a1, None, t1), Seen(a1, None, t2)>>, <<>>),
   Snapshot(Idle(c1), <<Patch(a1, "running")>>, <<>>),
   Snapshot(Idle(c1), <<[Seen(a1, None, t1) EXCEPT !.state = "failed"]>>, <<>>),
   Snapshot(Idle(c1), <<[Seen(a1, None, t1) EXCEPT !.kind = "subagent"]>>, <<>>)}

TreeEvents ==
  TreeSnapshots
  \cup {Prompt(t1)}
  \cup {OfActivity(Seen(a, p, t1)) : a \in {a1, a2, a3}, p \in {None, a1, a2}}
  \cup {OfActivity(Patch(a, s)) : a \in {a1, a2, a3}, s \in {"running", "completed"}}
  \cup {OfActivity([Patch(a1, s) EXCEPT !.progress = g]) :
           s \in {"pending", "completed", "cancelled"}, g \in Progress}
  \cup {OfAction(Asked(p1, ActivityOwner(a), "background")) : a \in {a1, a2}}
  \cup {OfAction(Answered(p1, s)) : s \in {"accepted", "failed"}}

ProjectionEvents == ForegroundEvents \cup TreeEvents

(* A projection with activities is followed while its foreground stays as  *)
(* simple as the tree needs it: on the first cycle and never blocked, one  *)
(* turn accepted at most and none over; a refusal with activities listed   *)
(* ends the run (the reducer then only refuses: see the foreground's).      *)
TreeOrForeground ==
  (\E a \in Activity : reducer.activities[a] # None) =>
    /\ reducer.failed = None /\ ~reducer.closed
    /\ reducer.foreground.cycle = c1
    /\ reducer.foreground.state # "requires_action"
    /\ reducer.blockedCycle = None
    /\ reducer.turns[t1] # None => ~reducer.turns[t1].terminal /\ reducer.turns[t1].cycle # c2
    /\ reducer.turns[t2] = None
    /\ reducer.actions[p2] = None
    /\ reducer.actions[p1] # None => reducer.actions[p1].owner.type = "activity"

-----------------------------------------------------------------------------
(* Incarnations, retransmissions, gaps and undecodable frames. *)

IncarnationEvents ==
  {Snapshot(Idle(c1), <<>>, <<>>),
   Snapshot(Running(t1, c1), <<>>, <<>>),
   Snapshot(Running(t1, c1), <<Patch(a1, "running")>>, <<>>),
   Prompt(t1),
   Transition("running", c1, t1, "submission"),
   Ending(c1, t1, "cancelled", "stated")}

InOrder == {1}
AnyOrder == {-2, -1, 0, 1, 2}
Refusals == {"malformed_envelope", "unknown_field"}
OnlyCarrier == {"session_info_update"}
NoRefusals == {}

=============================================================================
