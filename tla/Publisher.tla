------------------------------ MODULE Publisher ------------------------------
(***************************************************************************)
(* One session's lifecycle publisher (lifecycle/publisher.go, emit.go) and *)
(* the host that reduces what it delivers.                                 *)
(*                                                                         *)
(* A method takes the publisher's lock, settles which events it emits and  *)
(* emits them one after another; todo holds what the running method has    *)
(* yet to emit, so the lock is free when todo is empty.  A Cycle value is  *)
(* copied to its callers, and any of them may be handed to any method at   *)
(* any time, however old.  A turn or cycle id is the value of the          *)
(* publisher's counter when NextID minted it.                              *)
(*                                                                         *)
(* Calls that return before they change anything (nothing negotiated, a    *)
(* stream that is not active, a Cycle without a turn, an unknown blocker)  *)
(* are left out.  RetainFrames is FALSE in every instance, as newStream    *)
(* sets it; the host needs no frames because nothing is sent twice here.   *)
(***************************************************************************)
EXTENDS Reduction, FiniteSets

CONSTANT MaxId  \* bound on the publisher's id counter

ASSUME PublisherAssumption ==
  /\ MaxId \in Nat
  /\ Turn = 1 .. MaxId
  /\ Cycle = 1 .. MaxId
  /\ MaxSequence > 0

VARIABLES
  id,        \* stream.id of p.stream; None while p.stream is nil
  named,     \* the names given to incarnations so far
  sequence,  \* stream.sequence
  emitter,   \* stream.reducer
  seq,       \* p.seq, the id counter
  blockers,  \* p.blockers: the cycle an outstanding action blocks, or None
  todo,      \* the steps the method that holds the lock has left
  held,      \* the Cycle values callers hold
  host,      \* the consumer's reducer
  disciplined  \* whether callers keep to one open cycle (see Permits)

vars == <<id, named, sequence, emitter, seq, blockers, todo, held, host, disciplined>>

NoBlockers == [a \in Action |-> None]

HeldCycle ==
  [turn : Turn, cycle : Cycle, origin : {"submission", "activity"},
   incarnation : Stream \cup {None}]

(* A step emits an event and, once that is delivered, leaves p.blockers as given. *)
Step(event, after) == [event |-> event, blockers |-> after]

-----------------------------------------------------------------------------
(* The events of emit.go *)

(* Faulty variant: the opening snapshot names no cycle. *)
SnapshotOfNoCycle(cycle) ==
  [type |-> "lifecycle_snapshot",
   foreground |-> [state |-> "idle", cycle |-> None, turn |-> None, origin |-> None],
   activities |-> <<>>, actions |-> <<>>]

SnapshotOf(cycle) ==
  [type |-> "lifecycle_snapshot",
   foreground |-> [state |-> "idle", cycle |-> cycle, turn |-> None, origin |-> None],
   activities |-> <<>>, actions |-> <<>>]

AcceptedOf(turn) == [type |-> "prompt_accepted", turn |-> turn]

TransitionOf(state, c) ==
  [type |-> "state_update", state |-> state, cycle |-> c.cycle, turn |-> c.turn,
   cause |-> c.origin, stop |-> None, outcome |-> None]

IdleOf(c, stop, outcome) ==
  [TransitionOf("idle", c) EXCEPT !.stop = stop, !.outcome = outcome]

PendingOf(a, c) ==
  [type |-> "action_update",
   action |-> [id |-> a, state |-> "pending",
               owner |-> [type |-> "turn", id |-> c.turn], blocks |-> "foreground"]]

ResolvedOf(a, state) ==
  [type |-> "action_update",
   action |-> [id |-> a, state |-> state, owner |-> None, blocks |-> None]]

-----------------------------------------------------------------------------
(* The publisher's own predicates *)

Active == id # None /\ ~emitter.closed

Unlocked == todo = <<>>

BlockedBy(map, cycle) == {a \in Action : map[a] = cycle}

(* What a disciplined caller asks: it opens a cycle when the foreground is *)
(* idle, with a turn not yet used, and otherwise uses the cycle that is    *)
(* open; it names an action once.                                          *)
ForegroundIsFree == emitter.foreground # None /\ emitter.foreground.state = "idle"
HoldsForeground(c) ==
  /\ emitter.foreground # None
  /\ emitter.foreground.state # "idle"
  /\ emitter.foreground.cycle = c.cycle
Permits(condition) == disciplined => condition

(* A method begins when its events fit the bound on the sequence. *)
Begins(steps) ==
  /\ sequence + Len(steps) <= MaxSequence
  /\ todo' = steps

-----------------------------------------------------------------------------

Init ==
  /\ id = None
  /\ named = {}
  /\ sequence = 0
  /\ emitter = Fresh(None, {})
  /\ seq = 0
  /\ blockers = NoBlockers
  /\ todo = <<>>
  /\ held = {}
  /\ host = Fresh(None, {})
  /\ disciplined \in BOOLEAN

(* NewIncarnation: a random suffix, so never a name given before. *)
NewIncarnation == Stream \ named

Open(s) ==
  /\ Unlocked /\ ~Active
  /\ s \in NewIncarnation
  /\ seq + 1 <= MaxId
  /\ id' = s
  /\ named' = named \cup {s}
  /\ sequence' = 0
  /\ emitter' = Fresh(None, {})
  /\ seq' = seq + 1
  /\ blockers' = NoBlockers
  /\ todo' = <<Step(SnapshotOf(seq'), NoBlockers)>>
  /\ UNCHANGED <<held, host>>

Accept ==
  /\ Unlocked /\ Active
  /\ Permits(ForegroundIsFree)
  /\ seq + 2 <= MaxId
  /\ seq' = seq + 2
  /\ LET c == [turn |-> seq + 1, cycle |-> seq + 2, origin |-> "submission",
               incarnation |-> None]
     IN  /\ held' = held \cup {c}
         /\ Begins(<<Step(AcceptedOf(c.turn), blockers),
                     Step(TransitionOf("running", c), blockers)>>)
  /\ UNCHANGED <<id, named, sequence, emitter, blockers, host>>

NewAgentCycle ==
  /\ Unlocked /\ Active
  /\ seq + 2 <= MaxId
  /\ seq' = seq + 2
  /\ held' = held \cup {[turn |-> seq + 1, cycle |-> seq + 2, origin |-> "activity",
                         incarnation |-> id]}
  /\ UNCHANGED <<id, named, sequence, emitter, blockers, todo, host>>

(* Faulty variant: the incarnation of the cycle is not compared. *)
BelongsHereUnchecked(c) == c.origin = "activity"

BelongsHere(c) == c.incarnation = id /\ c.origin = "activity"

OpenAgentCycle(c) ==
  /\ Unlocked /\ Active
  /\ BelongsHere(c)
  /\ Permits(ForegroundIsFree /\ ~TurnKnown(emitter, c.turn))
  /\ Begins(<<Step(TransitionOf("running", c), blockers)>>)
  /\ UNCHANGED <<id, named, sequence, emitter, seq, blockers, held, host>>

AskingSteps(c, a) ==
  LET asked == [blockers EXCEPT ![a] = c.cycle]
  IN  IF BlockedBy(blockers, c.cycle) = {}
      THEN <<Step(PendingOf(a, c), blockers), Step(TransitionOf("requires_action", c), asked)>>
      ELSE <<Step(PendingOf(a, c), asked)>>

ActionPending(c, a) ==
  /\ Unlocked /\ Active
  /\ Permits(HoldsForeground(c) /\ emitter.actions[a] = None)
  /\ Begins(AskingSteps(c, a))
  /\ UNCHANGED <<id, named, sequence, emitter, seq, blockers, held, host>>

(* Faulty variant: the first answer resumes the cycle, whatever else blocks it. *)
AnsweringStepsAtFirst(c, a, state, left) ==
  <<Step(ResolvedOf(a, state), left), Step(TransitionOf("running", c), left)>>

AnsweringSteps(c, a, state, left) ==
  IF BlockedBy(left, c.cycle) # {}
  THEN <<Step(ResolvedOf(a, state), left)>>
  ELSE <<Step(ResolvedOf(a, state), left), Step(TransitionOf("running", c), left)>>

ActionResolved(c, a, state) ==
  /\ Unlocked /\ Active
  /\ blockers[a] = c.cycle
  /\ blockers' = [blockers EXCEPT ![a] = None]
  /\ Begins(AnsweringSteps(c, a, state, blockers'))
  /\ UNCHANGED <<id, named, sequence, emitter, seq, held, host>>

(* Faulty variant: cancelled blockers stay in the map. *)
EndingStepsKeepingBlockers(order, c, stop, outcome) ==
  [i \in 1 .. Len(order) |-> Step(ResolvedOf(order[i], "cancelled"), blockers)]
  \o <<Step(IdleOf(c, IF outcome = "failed" THEN None ELSE stop, outcome), blockers)>>

EndingSteps(order, c, stop, outcome) ==
  LET left(i) == [a \in Action |-> IF \E j \in 1 .. i : order[j] = a THEN None ELSE blockers[a]]
  IN  [i \in 1 .. Len(order) |-> Step(ResolvedOf(order[i], "cancelled"), left(i))]
      \o <<Step(IdleOf(c, IF outcome = "failed" THEN None ELSE stop, outcome),
                left(Len(order)))>>

(* Idle cancels the outstanding blockers in some fixed order of their ids. *)
Idle(c, stop, outcome) ==
  /\ Unlocked /\ Active
  /\ Permits(HoldsForeground(c) /\ (outcome # "failed" => stop # None))
  /\ LET open == BlockedBy(blockers, c.cycle)
         order == CHOOSE s \in [1 .. Cardinality(open) -> open] :
                     \A i, j \in DOMAIN s : s[i] = s[j] => i = j
     IN  Begins(EndingSteps(order, c, stop, outcome))
  /\ UNCHANGED <<id, named, sequence, emitter, seq, blockers, held, host>>

Fence ==
  /\ Unlocked /\ id # None
  /\ emitter' = Close(emitter)
  /\ UNCHANGED <<id, named, sequence, seq, blockers, todo, held, host>>

-----------------------------------------------------------------------------
(* emit: the next event of the method that holds the lock *)

NextDelivery ==
  [stream |-> id, sequence |-> sequence + 1, carrier |-> "session_info_update",
   event |-> Head(todo).event]

Judged == Reduce(emitter, NextDelivery)

(* The emitter's own reducer refuses the event: the stream is fenced, the  *)
(* sequence stays consumed and nothing is delivered.                       *)
EmitRefused ==
  /\ todo # <<>>
  /\ Judged.failed # None
  /\ sequence' = sequence + 1
  /\ emitter' = Close(Judged)
  /\ todo' = <<>>
  /\ UNCHANGED <<id, named, seq, blockers, held, host>>

EmitDelivered ==
  /\ todo # <<>>
  /\ Judged.failed = None
  /\ sequence' = sequence + 1
  /\ emitter' = Judged
  /\ host' = Reduce(host, NextDelivery)
  /\ blockers' = Head(todo).blockers
  /\ todo' = Tail(todo)
  /\ UNCHANGED <<id, named, seq, held>>

(* Faulty variant: a failed delivery ends the method but not the stream. *)
EmitUndeliveredUnfenced ==
  /\ todo # <<>>
  /\ Judged.failed = None
  /\ sequence' = sequence + 1
  /\ emitter' = Judged
  /\ host' \in {host, Reduce(host, NextDelivery)}
  /\ todo' = <<>>
  /\ UNCHANGED <<id, named, seq, blockers, held>>

(* deliver reports a failure: whether the host has the envelope is not known. *)
EmitUndelivered ==
  /\ todo # <<>>
  /\ Judged.failed = None
  /\ sequence' = sequence + 1
  /\ emitter' = Close(Judged)
  /\ host' \in {host, Reduce(host, NextDelivery)}
  /\ todo' = <<>>
  /\ UNCHANGED <<id, named, seq, blockers, held>>

Emit == EmitRefused \/ EmitDelivered \/ EmitUndelivered

Call ==
  \/ \E s \in Stream : Open(s)
  \/ Accept
  \/ NewAgentCycle
  \/ \E c \in held : OpenAgentCycle(c)
  \/ \E c \in held, a \in Action : ActionPending(c, a)
  \/ \E c \in held, a \in Action, state \in {"accepted", "declined"} :
        ActionResolved(c, a, state)
  \/ \E c \in held, stop \in {"stated", None}, outcome \in {"success", "failed"} :
        Idle(c, stop, outcome)
  \/ Fence

Next == (Call \/ Emit) /\ UNCHANGED disciplined

Spec == Init /\ [][Next]_vars

-----------------------------------------------------------------------------
(* Properties *)

(* The variables have their types: the validating reducer, the host and   *)
(* the steps the running method has left (Publisher, stream).             *)
TypeOK ==
  /\ id \in Stream \cup {None}
  /\ named \subseteq Stream
  /\ sequence \in 0 .. MaxSequence
  /\ emitter \in ReducerState
  /\ seq \in 0 .. MaxId
  /\ blockers \in [Action -> Cycle \cup {None}]
  /\ \A i \in DOMAIN todo : todo[i].event \in Event
  /\ held \subseteq HeldCycle
  /\ disciplined \in BOOLEAN
  /\ host \in ReducerState

(* A stream a sibling could not support fails at the point of emission     *)
(* instead of at its consumers (emit.go): whatever callers do, in whatever *)
(* order, and whichever deliveries fail, the host never refuses a frame.   *)
(* While the stream is active the host's projection is the one the emitter *)
(* judged by, and it is behind a fenced stream by no more than the one     *)
(* envelope whose delivery failed or that was refused.                     *)
HostFollowsEmitter ==
  /\ host.failed = None
  /\ (Active /\ emitter.started) =>
       host = [emitter EXCEPT !.retired = host.retired]
  /\ host.stream = id /\ id # None => sequence - host.reducedThrough \in {0, 1}

(* An agent cycle is published in the incarnation it was allocated in or   *)
(* not at all, however late its caller opens it and whatever was reopened  *)
(* meanwhile (NewAgentCycle, OpenAgentCycle).                              *)
AgentTurnsStayInTheirIncarnation ==
  \A c \in held : (c.origin = "activity" /\ TurnKnown(host, c.turn))
                    => host.stream = c.incarnation

(* A caller that keeps to one open cycle is never fenced by the            *)
(* publisher's own validation: only a failed delivery or Fence ends the    *)
(* stream.                                                                 *)
DisciplinedCallersAreNotRefused == disciplined => emitter.failed = None

(* The publisher's map of blockers is what its reducer holds to be         *)
(* blocking each cycle.                                                    *)
BlockersAgree ==
  \A c \in Cycle : BlockedBy(blockers, c) = {a \in Action : BlockerOf(emitter, a, c)}

Waiting == host.foreground # None /\ host.foreground.state = "requires_action"

(* The host is not left with a pending question and a running cycle: the   *)
(* question and the wait are two events, and what follows a failed         *)
(* delivery is the end of the stream.                                      *)
AskedMeansWaiting ==
  \A a \in Action :
    (host.actions[a] # None /\ host.actions[a].state = "pending") => Waiting

(* Between the methods of a disciplined caller, counting the blockers      *)
(* decides when a cycle waits and when it resumes, and the host is told    *)
(* both (ActionPending, ActionResolved).                                   *)
BlockersAgreeWithProjection ==
  (disciplined /\ Active /\ Unlocked) => BlockersAgree /\ AskedMeansWaiting

=============================================================================
