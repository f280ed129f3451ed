------------------------------ MODULE Lifecycle ------------------------------
(***************************************************************************)
(* The closed vocabulary of the acp-go.dev/lifecycle stream and the        *)
(* structural rules that both the wire decoder and the reducer consult     *)
(* (lifecycle/vocabulary.go, event.go, decode.go, violation.go).           *)
(*                                                                         *)
(* An omitted member (the empty string or a nil pointer in the code) is    *)
(* None.  Identifiers are members of small sets.  A stop reason is         *)
(* reduced to whether it is stated; submission ids, client nonces and run  *)
(* ids of turns are left out because nothing reads them back.  In an       *)
(* activity, "kind" stands for the immutable members that nothing else     *)
(* resolves (kind, cause, tool link, run id); in an action, "owner" stands *)
(* for its kind, run id and owner.                                         *)
(***************************************************************************)
EXTENDS Integers, Sequences

CONSTANTS
  None,            \* the omitted member
  Turn, Cycle,     \* foreground epochs and cycles
  Activity,        \* activity ids
  Action,          \* action ids
  Stream,          \* incarnation identities
  Progress,        \* opaque progress objects
  NegotiatedKind,  \* the activity kinds the capability answer claimed
  MaxSequence      \* bound on the envelope sequence (a uint64 in the code)

ForegroundState == {"running", "idle", "requires_action"}
Cause == {"submission", "activity", "session"}
Outcome == {"success", "refused", "cancelled", "limit", "failed"}
ActivityKind == {"task", "subagent"}
TerminalActivityState == {"completed", "failed", "cancelled"}
ActivityState == {"pending", "running", "requires_action"} \cup TerminalActivityState
TerminalActionState == {"accepted", "declined", "cancelled", "failed"}
ActionState == {"pending"} \cup TerminalActionState
Carrier == {"session_info_update", "ineligible"}
Sequence == 1 .. MaxSequence

ViolationKind ==
  {"unsupported_version", "unknown_field", "malformed_envelope", "unknown_event_type",
   "unnegotiated_fact", "illegal_carrier", "delta_before_snapshot", "conflicting_duplicate",
   "sequence_gap", "sequence_regression", "stream_cycle", "stale_stream",
   "post_terminal_mutation", "immutable_identity_change", "inconsistent_foreground",
   "parent_terminal_before_child", "child_after_parent_terminal", "unknown_entity"}

Owner == [type : {"turn"}, id : Turn] \cup [type : {"activity"}, id : Activity]

-----------------------------------------------------------------------------
(* What an event carries. *)

SnapshotForeground ==
  [state : ForegroundState, cycle : Cycle, turn : Turn \cup {None}, origin : Cause \cup {None}]

ActivityUpdate ==
  [id : Activity, kind : ActivityKind \cup {None}, state : ActivityState,
   parent : Activity \cup {None}, origin : Turn \cup {None}, progress : Progress \cup {None}]

ActionUpdate ==
  [id : Action, state : ActionState, owner : Owner \cup {None},
   blocks : {"foreground", "background", None}]

Event ==
  [type : {"lifecycle_snapshot"}, foreground : SnapshotForeground,
   activities : Seq(ActivityUpdate), actions : Seq(ActionUpdate)]
  \cup [type : {"prompt_accepted"}, turn : Turn]
  \cup [type : {"state_update"}, state : ForegroundState, cycle : Cycle,
        turn : Turn \cup {None}, cause : Cause, stop : {"stated", None},
        outcome : Outcome \cup {None}]
  \cup [type : {"activity_update"}, activity : ActivityUpdate]
  \cup [type : {"action_update"}, action : ActionUpdate]

(* One delivered event.  The event stands for the whole decoded frame.     *)
Delivery == [stream : Stream, sequence : Sequence, carrier : Carrier, event : Event]

-----------------------------------------------------------------------------
(* What the projection holds. *)

Foreground == [state : ForegroundState, cycle : Cycle, turn : Turn \cup {None}]

TurnRecord ==
  [origin : Cause, terminal : BOOLEAN, cycle : Cycle \cup {None}, outcome : Outcome \cup {None}]

ActivityRecord ==
  [kind : ActivityKind, state : ActivityState, parent : Activity \cup {None},
   origin : Turn, progress : Progress \cup {None}]

ActionRecord == [state : ActionState, owner : Owner, blocks : {"foreground", "background"}]

ASSUME KindsAssumption == NegotiatedKind \subseteq ActivityKind
ASSUME BoundAssumption == MaxSequence \in Nat
ASSUME NoneIsAnIdentityOfNothing ==
  /\ None \notin Turn \cup Cycle \cup Activity \cup Action \cup Stream \cup Progress
  /\ None \notin Cause \cup Outcome \cup ActivityKind \cup ViolationKind
  /\ None \notin {"stated", "foreground", "background"}
  /\ None \notin Owner
  /\ None \notin Foreground
  /\ None \notin TurnRecord
  /\ None \notin ActivityRecord
  /\ None \notin ActionRecord
  /\ None \notin Event

-----------------------------------------------------------------------------
(* Structural rules.  Each returns the violation an event is refused with, *)
(* or None.                                                                *)

ForegroundDefect(f) ==
  IF \/ f.state = "idle" /\ f.turn # None
     \/ f.state # "idle" /\ f.turn = None
     \/ (f.turn = None) # (f.origin = None)
     \/ f.origin = "session"
  THEN "malformed_envelope" ELSE None

NamelessTurnDefect(e) ==
  IF e.turn = None /\ (e.cause # "session" \/ e.state # "idle")
  THEN "malformed_envelope" ELSE None

EndingIdleDefect(e) ==
  IF /\ e.state = "idle"
     /\ e.turn # None
     /\ \/ e.outcome = None
        \/ (e.outcome = "failed") = (e.stop # None)
  THEN "malformed_envelope" ELSE None

(* A structured activity or action is over once it reaches one of these. *)
ActivityOver(u) == u.state \in TerminalActivityState
ActionOver(u) == u.state \in TerminalActionState

BlocksForeground(u) == u.blocks = "foreground"

=============================================================================
