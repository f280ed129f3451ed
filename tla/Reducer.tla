------------------------------- MODULE Reducer -------------------------------
(***************************************************************************)
(* One session's reducer and the stream it is handed.  The environment is  *)
(* any producer and any channel: every offered event may arrive on every   *)
(* stream identity, at any of the offered distances from the reduced       *)
(* boundary, on any offered carrier; a frame may fail to decode; the       *)
(* session may close at any time.                                          *)
(***************************************************************************)
EXTENDS Reduction

CONSTANTS
  Offered,         \* the events the environment may deliver
  Lead,            \* how far past the reduced boundary a sequence may lie
  OfferedCarrier,  \* the carriers an envelope may ride
  Undecodable,     \* the refusals the decoder may report
  MaxSuppressed    \* bound on counted retransmissions

ASSUME EnvironmentAssumption ==
  /\ Offered \subseteq Event
  /\ Lead \subseteq Int
  /\ OfferedCarrier \subseteq Carrier
  /\ Undecodable \subseteq ViolationKind
  /\ MaxSuppressed \in Nat

VARIABLE reducer

vars == <<reducer>>

Init == reducer = Fresh(None, {})

(* Reduce *)
Deliver(d) ==
  /\ Reduce(reducer, d).suppressed <= MaxSuppressed
  /\ reducer' = Reduce(reducer, d)

(* ReduceSessionUpdate on a frame the decoder refused *)
Undecoded(kind, stream) == reducer' = RefuseFrame(reducer, kind, stream)

(* Close *)
SessionClosed == reducer' = Close(reducer)

Next ==
  \/ \E s \in Stream, k \in Lead, c \in OfferedCarrier, e \in Offered :
        /\ reducer.reducedThrough + k \in Sequence
        /\ Deliver([stream |-> s, sequence |-> reducer.reducedThrough + k,
                    carrier |-> c, event |-> e])
  \/ \E kind \in Undecodable, s \in Stream \cup {None} : Undecoded(kind, s)
  \/ SessionClosed

Spec == Init /\ [][Next]_vars

-----------------------------------------------------------------------------
(* Properties *)

TypeOK == reducer \in ReducerState

Live(r) == r.failed = None /\ ~r.closed

(* What a lifecycle fact may be read from: everything but the latches, the *)
(* retransmission count and the ordering bookkeeping.                      *)
Projection(r) == <<r.foreground, r.turns, r.activities, r.actions, r.reducedThrough, r.retired>>

(* A running or requires_action foreground names a turn that is open and   *)
(* that was last reported on that very cycle (applyLive, applyIdle and     *)
(* projectSnapshot move the two together).                                 *)
LiveForegroundNamesOpenTurn ==
  LET f == reducer.foreground
  IN  (f # None /\ f.state # "idle") =>
        /\ f.turn # None
        /\ reducer.turns[f.turn] # None
        /\ ~reducer.turns[f.turn].terminal
        /\ reducer.turns[f.turn].cycle = f.cycle

(* No activity outlives its parent: once an activity is over, its children *)
(* are over, hence by induction its whole subtree, although                *)
(* checkDescendantsTerminal looks at direct children only.                 *)
NoActivityOutlivesItsParent ==
  \A c \in Activity :
    LET child == reducer.activities[c]
    IN  (child # None /\ child.parent # None) =>
          /\ reducer.activities[child.parent] # None
          /\ ActivityOver(reducer.activities[child.parent]) => ActivityOver(child)

(* While the stream is sound, a cycle that an unresolved blocker stopped   *)
(* and that the foreground still reports as idle or running owes its       *)
(* requires_action transition, so checkBlockedCycle refuses anything else  *)
(* from it (blockForeground, checkBlockedCycle).                           *)
StoppedCycleOwesItsTransition ==
  LET f == reducer.foreground
  IN  (reducer.failed = None /\ f # None /\ f.state # "requires_action"
         /\ Blocked(reducer, f.cycle))
      => reducer.blockedCycle = f.cycle

(* No pending blocker stops nothing: each was recorded against the cycle   *)
(* current at its first sight, although blockForeground records nothing    *)
(* while there is no foreground, so no blocker arrives before one.         *)
EveryBlockerStopsACycle ==
  \A a \in Action :
    LET x == reducer.actions[a]
    IN  (x # None /\ x.blocks = "foreground" /\ x.state = "pending")
        => reducer.actionCycle[a] # None

(* What a host may rely on when it renders the foreground (state.go).      *)
ForegroundIsSound ==
  /\ LiveForegroundNamesOpenTurn
  /\ StoppedCycleOwesItsTransition
  /\ EveryBlockerStopsACycle

(* Every identity the projection refers to was introduced: the origin turn *)
(* of an activity, the owner of an action, the turn of the foreground.     *)
ReferencesResolve ==
  /\ \A a \in Activity :
       LET x == reducer.activities[a]
       IN  x # None => TurnKnown(reducer, x.origin)
  /\ \A a \in Action :
       LET x == reducer.actions[a]
       IN  x # None => IF x.owner.type = "activity" THEN ActivityKnown(reducer, x.owner.id)
                                                    ELSE TurnKnown(reducer, x.owner.id)

(* What a host may rely on when it renders the activities (state.go). *)
TreeIsSound == NoActivityOutlivesItsParent /\ ReferencesResolve

(* A superseded incarnation is fenced for the rest of the session: its     *)
(* identity is never the current one again (reduceForeign, retired).       *)
CurrentIncarnationIsNotRetired == reducer.stream \notin reducer.retired

(* Wholesale idempotence has no window: whatever was reduced on this       *)
(* incarnation may be handed in again, however late, and only the count of *)
(* suppressed retransmissions moves.                                       *)
RetransmissionIsNoOp ==
  (RetainFrames /\ Live(reducer) /\ reducer.started) =>
    \A n \in reducer.base .. reducer.reducedThrough :
      /\ reducer.frames[n] # None
      /\ Reduce(reducer, [stream |-> reducer.stream, sequence |-> n,
                          carrier |-> "session_info_update", event |-> reducer.frames[n]])
         = [reducer EXCEPT !.suppressed = @ + 1]

(* A reused identity bearing other content is never reduced: no delivery   *)
(* at or below the reduced boundary of the current incarnation changes the *)
(* projection.                                                             *)
ReducedOnce ==
  reducer.started =>
    \A s \in {reducer.stream}, n \in 1 .. reducer.reducedThrough, e \in Offered :
      Projection(Reduce(reducer, [stream |-> s, sequence |-> n,
                                  carrier |-> "session_info_update", event |-> e]))
      = Projection(reducer)

(* A refusal leaves the projection as it stood: nothing half-applied, and  *)
(* a refused replacement snapshot supersedes nothing.                      *)
RefusalKeepsProjection ==
  [][(reducer.failed = None /\ reducer'.failed # None)
       => Projection(reducer') = Projection(reducer)]_vars

(* Fail closed latches and close is final: from then on nothing moves, and *)
(* the first verdict stands.                                               *)
RefusalAndCloseAreFinal ==
  [][/\ (reducer.failed # None \/ reducer.closed)
          => Projection(reducer') = Projection(reducer)
     /\ reducer.failed # None => reducer'.failed = reducer.failed
     /\ reducer.closed => reducer'.closed]_vars

(* Within an incarnation a terminal turn, activity or action keeps its     *)
(* reduced record, whatever restatements arrive.                           *)
TerminalIsFinal ==
  [][reducer'.stream = reducer.stream =>
       /\ \A t \in Turn : TurnOver(reducer, t) => reducer'.turns[t] = reducer.turns[t]
       /\ \A a \in Activity :
            (reducer.activities[a] # None /\ ActivityOver(reducer.activities[a]))
              => reducer'.activities[a] = reducer.activities[a]
       /\ \A a \in Action :
            (reducer.actions[a] # None /\ ActionOver(reducer.actions[a]))
              => reducer'.actions[a] = reducer.actions[a]]_vars

(* Sequences are reduced one by one: a step of a started incarnation moves *)
(* the boundary by at most one, never back, and a step to another          *)
(* incarnation retires the one it leaves.                                  *)
BoundaryIsContiguous ==
  [][reducer.started =>
       \/ /\ reducer'.stream = reducer.stream
          /\ reducer'.reducedThrough - reducer.reducedThrough \in {0, 1}
          /\ reducer'.base = reducer.base
       \/ /\ reducer'.stream \notin reducer.retired \cup {reducer.stream}
          /\ reducer'.retired = reducer.retired \cup {reducer.stream}]_vars

-----------------------------------------------------------------------------
(* What the wire contract states and the reducer does not do. *)

(* docs/02-wire-contract.md:768-772: "a transition that leaves             *)
(* requires_action ... while a blocker is nonterminal" is                  *)
(* inconsistent_foreground.  checkBlockedCycle judges only the cycle the   *)
(* transition names, so a transition naming another cycle gets through.    *)
LeavesRequiresActionUnblocked ==
  [][LET f == reducer.foreground
         g == reducer'.foreground
     IN  (/\ reducer'.stream = reducer.stream
          /\ f # None /\ f.state = "requires_action"
          /\ Blocked(reducer, f.cycle)
          /\ g # f)
         => g.state = "requires_action"]_vars

=============================================================================
