---------------------------- MODULE ReducerProofs ----------------------------
(***************************************************************************)
(* Theorems about one session's reducer, for every vocabulary, event       *)
(* alphabet and channel.                                                   *)
(***************************************************************************)
EXTENDS Reducer, ReductionProofs

-----------------------------------------------------------------------------
(* The incarnation invariant *)

(* A stream that has opened bears a name and starts no later than it is    *)
(* reduced through; one that has not has superseded nothing.               *)
Opened(r) ==
  /\ r.started => /\ r.stream # None
                  /\ r.base \in Sequence
                  /\ r.base <= r.reducedThrough
  /\ ~r.started => r.retired = {}

(* Every frame of the incarnation was retained, from the opening on. *)
Retained(r) ==
  (RetainFrames /\ r.started) => \A n \in r.base .. r.reducedThrough : r.frames[n] # None

(* The strengthening under which the ordering properties are inductive. *)
IncarnationInv ==
  /\ TypeOK
  /\ Opened(reducer)
  /\ Retained(reducer)
  /\ CurrentIncarnationIsNotRetired

(* The environment hands in well-formed deliveries. *)
LEMMA OfferedDelivery ==
  ASSUME NEW s \in Stream, NEW n \in Sequence, NEW c \in OfferedCarrier, NEW e \in Offered
  PROVE  [stream |-> s, sequence |-> n, carrier |-> c, event |-> e] \in Delivery
BY EnvironmentAssumption DEF Delivery

(* The reducer starts well typed, unopened and with nothing retired. *)
LEMMA InitIncarnation == Init => IncarnationInv
<1> SUFFICES ASSUME Init PROVE IncarnationInv
  OBVIOUS
<1>1. TypeOK
  BY FreshType DEF Init, TypeOK
<1> QED  BY <1>1 DEF IncarnationInv, Init, Opened, Retained, CurrentIncarnationIsNotRetired,
                     Fresh

(* Reduce keeps the incarnation invariant: the case of a delta in order.   *)
LEMMA DeltaIncarnation ==
  ASSUME NEW d \in Delivery, IncarnationInv, reducer.started,
         d.sequence = reducer.reducedThrough + 1, d.event.type # "lifecycle_snapshot"
  PROVE  LET q == Commit(Apply(reducer, d.event), d)
         IN  Opened(q) /\ Retained(q) /\ q.stream \notin q.retired
<1> DEFINE p == Apply(reducer, d.event)
           q == Commit(p, d)
<1> SUFFICES Opened(q) /\ Retained(q) /\ q.stream \notin q.retired
  OBVIOUS
<1>1. d.event \in Event /\ d.sequence \in Sequence
  BY DEF Delivery
<1>2. reducer \in ReducerState
  BY DEF IncarnationInv, TypeOK
<1>3. p \in ReducerState /\ Header(p) = Header(reducer)
  BY <1>1, <1>2, ApplyType, ApplyKeepsHeader
<1> HIDE DEF p
<1>4. /\ p.stream = reducer.stream /\ p.started /\ p.base = reducer.base
      /\ p.reducedThrough = reducer.reducedThrough /\ p.frames = reducer.frames
      /\ p.retired = reducer.retired
  BY <1>3 DEF Header
<1>5. Opened(p) /\ Retained(p) /\ p.stream \notin p.retired
  BY <1>4 DEF IncarnationInv, Opened, Retained, CurrentIncarnationIsNotRetired
<1>6. CASE p.failed # None
  BY <1>5, <1>6 DEF Commit
<1>7. CASE p.failed = None
  <2>1. /\ q.stream = p.stream /\ q.started /\ q.base = p.base /\ q.retired = p.retired
        /\ q.reducedThrough = p.reducedThrough + 1
        /\ \A n \in Sequence : q.frames[n] = IF n = d.sequence /\ RetainFrames THEN d.event
                                             ELSE IF n = d.sequence THEN None ELSE p.frames[n]
    BY <1>1, <1>3, <1>4, <1>7 DEF Commit, ReducerState
  <2>2. q.base \in Sequence /\ q.base \in Int /\ p.reducedThrough \in 0 .. MaxSequence
        /\ d.sequence \in 1 .. MaxSequence /\ MaxSequence \in Nat
    BY <1>1, <1>3, <1>5, <2>1, BoundAssumption, <1>4 DEF Opened, Sequence, ReducerState
  <2> HIDE DEF q
  <2>3. Opened(q)
    BY <1>4, <1>5, <2>1, <2>2 DEF Opened
  <2>4. Retained(q)
    <3> SUFFICES ASSUME RetainFrames, NEW n \in q.base .. q.reducedThrough
                 PROVE  q.frames[n] # None
      BY DEF Retained
    <3>1. n \in Sequence
      BY <1>4, <2>1, <2>2 DEF Sequence
    <3>2. n # d.sequence => n \in p.base .. p.reducedThrough
      BY <1>4, <2>1, <2>2
    <3>3. d.event # None
      BY <1>1, NoneIsAnIdentityOfNothing
    <3> QED  BY <3>1, <3>2, <3>3, <2>1, <1>4, <1>5 DEF Retained
  <2> QED  BY <1>5, <2>1, <2>3, <2>4 DEF q
<1> QED  BY <1>6, <1>7

(* Opening keeps it. *)
LEMMA FirstIncarnation ==
  ASSUME NEW d \in Delivery, IncarnationInv, ~reducer.started
  PROVE  LET q == ReduceFirst(reducer, d)
         IN  q \in ReducerState /\ Opened(q) /\ Retained(q) /\ q.stream \notin q.retired
<1> DEFINE q == ReduceFirst(reducer, d)
<1> SUFFICES q \in ReducerState /\ Opened(q) /\ Retained(q) /\ q.stream \notin q.retired
  OBVIOUS
<1>1. reducer \in ReducerState /\ reducer.retired = {}
  BY DEF IncarnationInv, TypeOK, Opened
<1>2. /\ q \in ReducerState
      /\ q.stream = d.stream
      /\ q.retired = {}
      /\ q.started => /\ q.base = d.sequence
                      /\ q.reducedThrough = d.sequence
                      /\ RetainFrames => q.frames[d.sequence] = d.event
  BY <1>1, ReduceFirstType, ReduceFirstHeader
<1> HIDE DEF q
<1>3. d.stream # None /\ d.event # None /\ d.sequence \in Sequence /\ d.sequence \in Int
  BY NoneIsAnIdentityOfNothing DEF Delivery, Sequence
<1> QED  BY <1>2, <1>3 DEF Opened, Retained

(* A replacement incarnation keeps it, and fences the one it replaces. *)
LEMMA ForeignIncarnation ==
  ASSUME NEW d \in Delivery, IncarnationInv, reducer.started, d.stream # reducer.stream
  PROVE  LET q == ReduceForeign(reducer, d)
         IN  q \in ReducerState /\ Opened(q) /\ Retained(q) /\ q.stream \notin q.retired
<1> DEFINE blank == Fresh(d.stream, reducer.retired)
           next == ReduceFirst(blank, d)
           adopted == [next EXCEPT !.closed = reducer.closed,
                                   !.retired = @ \cup {reducer.stream}]
           q == ReduceForeign(reducer, d)
<1> SUFFICES q \in ReducerState /\ Opened(q) /\ Retained(q) /\ q.stream \notin q.retired
  OBVIOUS
<1>1. reducer \in ReducerState /\ reducer.stream # None
  BY DEF IncarnationInv, TypeOK, Opened
<1>2. q \in ReducerState
  BY <1>1, ReduceForeignType
<1>3. blank \in ReducerState /\ ~blank.started /\ blank.retired = reducer.retired
  <2>1. d.stream \in Stream /\ reducer.retired \in SUBSET Stream
    BY <1>1 DEF Delivery, ReducerState
  <2> QED  BY <2>1, FreshType DEF Fresh
<1> HIDE DEF blank
<1>4. /\ next \in ReducerState /\ next.stream = d.stream /\ next.retired = reducer.retired
      /\ next.failed = None => /\ next.started
                               /\ next.base = d.sequence
                               /\ next.reducedThrough = d.sequence
                               /\ RetainFrames => next.frames[d.sequence] = d.event
  BY <1>3, ReduceFirstType, ReduceFirstHeader
<1> HIDE DEF next
<1>5. ASSUME NEW k
      PROVE  LET p == Fail(reducer, k)
             IN  Opened(p) /\ Retained(p) /\ p.stream \notin p.retired
  BY <1>1 DEF Fail, ReducerState, IncarnationInv, Opened, Retained,
              CurrentIncarnationIsNotRetired
<1>6. CASE d.event.type # "lifecycle_snapshot" \/ d.stream \in reducer.retired
  BY <1>2, <1>5, <1>6 DEF ReduceForeign
<1>7. CASE /\ ~(d.event.type # "lifecycle_snapshot" \/ d.stream \in reducer.retired)
           /\ next.failed # None
  BY <1>2, <1>5, <1>7 DEF ReduceForeign, next, blank
<1>8. CASE /\ ~(d.event.type # "lifecycle_snapshot" \/ d.stream \in reducer.retired)
           /\ next.failed = None
  <2>1. q = adopted
    BY <1>8 DEF ReduceForeign, next, blank
  <2>2. /\ adopted.stream = d.stream /\ adopted.started
        /\ adopted.base = d.sequence /\ adopted.reducedThrough = d.sequence
        /\ RetainFrames => adopted.frames[d.sequence] = d.event
        /\ adopted.retired = reducer.retired \cup {reducer.stream}
    BY <1>4, <1>8 DEF ReducerState
  <2>3. d.stream # None /\ d.event # None /\ d.sequence \in Sequence /\ d.sequence \in Int
    BY NoneIsAnIdentityOfNothing DEF Delivery, Sequence
  <2> HIDE DEF adopted, q
  <2>4. Opened(adopted) /\ Retained(adopted) /\ adopted.stream \notin adopted.retired
    BY <1>8, <2>2, <2>3 DEF Opened, Retained
  <2> QED  BY <1>2, <2>1, <2>4
<1> QED  BY <1>6, <1>7, <1>8

(* Reduce keeps it. *)
LEMMA ReduceIncarnation ==
  ASSUME NEW d \in Delivery, IncarnationInv
  PROVE  LET q == Reduce(reducer, d)
         IN  q \in ReducerState /\ Opened(q) /\ Retained(q) /\ q.stream \notin q.retired
<1> DEFINE Good(p) == Opened(p) /\ Retained(p) /\ p.stream \notin p.retired
           q == Reduce(reducer, d)
<1>1. /\ reducer \in ReducerState /\ Good(reducer)
      /\ reducer.started => reducer.stream # None
  BY DEF IncarnationInv, TypeOK, CurrentIncarnationIsNotRetired, Opened
<1>2. q \in ReducerState
  BY <1>1, ReduceType
<1>3. \A k : Good(Fail(reducer, k))
  BY <1>1 DEF Fail, ReducerState, Opened, Retained
<1>4. Good([reducer EXCEPT !.suppressed = @ + 1])
  BY <1>1 DEF ReducerState, Opened, Retained
<1>5. Good(ReduceDuplicate(reducer, d))
  BY <1>3, <1>4 DEF ReduceDuplicate
<1>6. ~reducer.started => Good(ReduceFirst(reducer, d))
  BY FirstIncarnation
<1>7. reducer.started /\ d.stream # reducer.stream => Good(ReduceForeign(reducer, d))
  BY ForeignIncarnation
<1>8. /\ reducer.started
      /\ ~AlreadyReduced(reducer, d.sequence)
      /\ ~SkipsASequence(reducer, d.sequence)
      /\ d.event.type # "lifecycle_snapshot"
      => Good(Commit(Apply(reducer, d.event), d))
  <2>1. d.sequence \in Int /\ reducer.reducedThrough \in Int
    BY <1>1, BoundAssumption DEF Delivery, Sequence, ReducerState
  <2> QED  BY <2>1, DeltaIncarnation DEF AlreadyReduced, SkipsASequence
<1> HIDE DEF Good
<1>9. Good(q)
  BY <1>1, <1>3, <1>5, <1>6, <1>7, <1>8 DEF Reduce
<1> QED  BY <1>2, <1>9 DEF Good

(* Every step keeps it. *)
LEMMA NextIncarnation == IncarnationInv /\ [Next]_vars => IncarnationInv'
<1> SUFFICES ASSUME IncarnationInv, [Next]_vars PROVE IncarnationInv'
  OBVIOUS
<1>1. reducer \in ReducerState
  BY DEF IncarnationInv, TypeOK
<1>2. ASSUME NEW s \in Stream, NEW k \in Lead, NEW c \in OfferedCarrier, NEW e \in Offered,
             reducer.reducedThrough + k \in Sequence,
             Deliver([stream |-> s, sequence |-> reducer.reducedThrough + k,
                      carrier |-> c, event |-> e])
      PROVE  IncarnationInv'
  <2> DEFINE d == [stream |-> s, sequence |-> reducer.reducedThrough + k,
                   carrier |-> c, event |-> e]
  <2>1. d \in Delivery
    BY <1>2, OfferedDelivery
  <2>2. reducer' = Reduce(reducer, d)
    BY <1>2 DEF Deliver
  <2> HIDE DEF d
  <2> QED  BY <2>1, <2>2, ReduceIncarnation
           DEF IncarnationInv, TypeOK, CurrentIncarnationIsNotRetired, Opened, Retained
<1>3. ASSUME NEW k \in Undecodable, NEW s \in Stream \cup {None}, Undecoded(k, s)
      PROVE  IncarnationInv'
  <2>1. k \in ViolationKind
    BY EnvironmentAssumption
  <2>2. reducer' = RefuseFrame(reducer, k, s)
    BY <1>3 DEF Undecoded
  <2>3. reducer' \in ReducerState
    BY <1>1, <2>1, <2>2 DEF RefuseFrame, Fail, ReducerState
  <2>4. /\ reducer'.started = reducer.started /\ reducer'.base = reducer.base
        /\ reducer'.reducedThrough = reducer.reducedThrough
        /\ reducer'.frames = reducer.frames /\ reducer'.retired = reducer.retired
        /\ reducer.started => reducer'.stream = reducer.stream
    BY <1>1, <2>2 DEF RefuseFrame, Fail, ReducerState
  <2> QED  BY <2>3, <2>4
           DEF IncarnationInv, TypeOK, CurrentIncarnationIsNotRetired, Opened, Retained
<1>4. ASSUME SessionClosed PROVE IncarnationInv'
  <2>1. reducer' \in ReducerState
    BY <1>1, <1>4 DEF SessionClosed, Close, ReducerState
  <2>2. /\ reducer'.started = reducer.started /\ reducer'.base = reducer.base
        /\ reducer'.reducedThrough = reducer.reducedThrough
        /\ reducer'.frames = reducer.frames /\ reducer'.retired = reducer.retired
        /\ reducer'.stream = reducer.stream
    BY <1>1, <1>4 DEF SessionClosed, Close, ReducerState
  <2> QED  BY <2>1, <2>2
           DEF IncarnationInv, TypeOK, CurrentIncarnationIsNotRetired, Opened, Retained
<1>5. CASE UNCHANGED vars
  BY <1>5 DEF vars, IncarnationInv, TypeOK, CurrentIncarnationIsNotRetired, Opened, Retained
<1> QED  BY <1>2, <1>3, <1>4, <1>5 DEF Next

(* Retransmissions of anything reduced on a live incarnation are counted   *)
(* and change nothing else.                                                *)
LEMMA RetainedFramesAreSuppressed == IncarnationInv => RetransmissionIsNoOp
<1> SUFFICES ASSUME IncarnationInv, RetainFrames, Live(reducer), reducer.started,
                    NEW n \in reducer.base .. reducer.reducedThrough
             PROVE  /\ reducer.frames[n] # None
                    /\ Reduce(reducer, [stream |-> reducer.stream, sequence |-> n,
                                        carrier |-> "session_info_update",
                                        event |-> reducer.frames[n]])
                       = [reducer EXCEPT !.suppressed = @ + 1]
  BY DEF RetransmissionIsNoOp
<1> DEFINE d == [stream |-> reducer.stream, sequence |-> n,
                 carrier |-> "session_info_update", event |-> reducer.frames[n]]
<1>1. reducer.frames[n] # None
  BY DEF IncarnationInv, Retained
<1>2. reducer.base \in Int /\ reducer.reducedThrough \in Int
  BY DEF IncarnationInv, TypeOK, ReducerState
<1>3. ~(n < reducer.base) /\ n <= reducer.reducedThrough
  BY <1>2
<1>4. Reduce(reducer, d) = ReduceDuplicate(reducer, d)
  BY <1>3 DEF Reduce, Live, AlreadyReduced
<1> QED  BY <1>1, <1>4 DEF ReduceDuplicate

-----------------------------------------------------------------------------
(* Type correctness: whatever is delivered, in whatever order, the         *)
(* projection holds complete records and verdicts of the closed lists      *)
(* (Reducer, State).                                                       *)
THEOREM TypeCorrect == Spec => []TypeOK
<1>1. IncarnationInv => TypeOK
  BY DEF IncarnationInv
<1> QED  BY <1>1, InitIncarnation, NextIncarnation, PTL DEF Spec

(* Supersession fences an incarnation for good (reduceForeign): no         *)
(* sequence of deliveries makes a retired identity current again.          *)
THEOREM SupersededStaysFenced == Spec => []CurrentIncarnationIsNotRetired
<1>1. IncarnationInv => CurrentIncarnationIsNotRetired
  BY DEF IncarnationInv
<1> QED  BY <1>1, InitIncarnation, NextIncarnation, PTL DEF Spec

(* Wholesale idempotence has no window (reduceDuplicate, commit): every    *)
(* frame reduced on the live incarnation is still suppressed when it comes *)
(* again.                                                                  *)
THEOREM Idempotence == Spec => []RetransmissionIsNoOp
<1> QED  BY RetainedFramesAreSuppressed, InitIncarnation, NextIncarnation, PTL DEF Spec

-----------------------------------------------------------------------------
(* The invariant of the specification *)

(* The strengthening under which the projection properties are inductive: a *)
(* delta is judged against the projection only on a stream that opened, and *)
(* an opening is judged on a projection that is still blank.                *)
ProjectionInv == IncarnationInv /\ Sound(reducer)

(* The session starts with a blank projection. *)
LEMMA InitProjection == Init => ProjectionInv
<1> SUFFICES ASSUME Init PROVE ProjectionInv
  OBVIOUS
<1>1. IncarnationInv
  BY InitIncarnation
<1>2. reducer \in ReducerState
  BY <1>1 DEF IncarnationInv, TypeOK
<1>3. Blank(reducer) /\ ~reducer.started
  BY DEF Init, Fresh, Blank
<1> QED  BY <1>1, <1>2, <1>3, BlankSound DEF ProjectionInv

(* Every step of the session keeps the projection sound. *)
LEMMA NextProjection == ProjectionInv /\ [Next]_vars => ProjectionInv'
<1> SUFFICES ASSUME ProjectionInv, [Next]_vars PROVE Sound(reducer')
  BY NextIncarnation DEF ProjectionInv
<1>1. /\ reducer \in ReducerState /\ Sound(reducer)
      /\ reducer.started => reducer.stream # None
  BY DEF ProjectionInv, IncarnationInv, TypeOK, Opened
<1>2. ASSUME NEW s \in Stream, NEW k \in Lead, NEW c \in OfferedCarrier, NEW e \in Offered,
             reducer.reducedThrough + k \in Sequence,
             Deliver([stream |-> s, sequence |-> reducer.reducedThrough + k,
                      carrier |-> c, event |-> e])
      PROVE  Sound(reducer')
  <2> DEFINE d == [stream |-> s, sequence |-> reducer.reducedThrough + k,
                   carrier |-> c, event |-> e]
  <2>1. d \in Delivery
    BY <1>2, OfferedDelivery
  <2>2. reducer' = Reduce(reducer, d)
    BY <1>2 DEF Deliver
  <2> HIDE DEF d
  <2> QED  BY <1>1, <2>1, <2>2, ReduceSound
<1>3. ASSUME NEW k \in Undecodable, NEW s \in Stream \cup {None}, Undecoded(k, s)
      PROVE  Sound(reducer')
  <2>1. reducer' = RefuseFrame(reducer, k, s)
    BY <1>3 DEF Undecoded
  <2>2. /\ reducer'.foreground = reducer.foreground /\ reducer'.turns = reducer.turns
        /\ reducer'.turnSeen = reducer.turnSeen /\ reducer'.activities = reducer.activities
        /\ reducer'.actions = reducer.actions /\ reducer'.actionCycle = reducer.actionCycle
        /\ reducer'.blockedCycle = reducer.blockedCycle
        /\ reducer'.started = reducer.started
        /\ reducer'.failed = None => reducer.failed = None
    BY <1>1, <2>1 DEF RefuseFrame, Fail, ReducerState
  <2> QED  BY <1>1, <2>2, SameProjectionSound
<1>4. ASSUME SessionClosed PROVE Sound(reducer')
  <2>1. /\ reducer'.foreground = reducer.foreground /\ reducer'.turns = reducer.turns
        /\ reducer'.turnSeen = reducer.turnSeen /\ reducer'.activities = reducer.activities
        /\ reducer'.actions = reducer.actions /\ reducer'.actionCycle = reducer.actionCycle
        /\ reducer'.blockedCycle = reducer.blockedCycle
        /\ reducer'.started = reducer.started
        /\ reducer'.failed = reducer.failed
    BY <1>1, <1>4 DEF SessionClosed, Close, ReducerState
  <2> QED  BY <1>1, <2>1, SameProjectionSound
<1>5. CASE UNCHANGED vars
  BY <1>1, <1>5 DEF vars
<1> QED  BY <1>2, <1>3, <1>4, <1>5 DEF Next

-----------------------------------------------------------------------------
(* A live foreground names an open turn, last reported on its cycle:       *)
(* applyLive, applyIdle and projectSnapshot move the two together.         *)
THEOREM ForegroundTurnOpen == Spec => []LiveForegroundNamesOpenTurn
<1>1. ProjectionInv => LiveForegroundNamesOpenTurn
  BY DEF ProjectionInv, Sound, Coherent, ForegroundTurnIsOpen, LiveForegroundNamesOpenTurn
<1> QED  BY <1>1, InitProjection, NextProjection, PTL DEF Spec

(* The activity tree ends bottom up: checkDescendantsTerminal looks at     *)
(* direct children only, which is enough.                                  *)
THEOREM TreeEnds == Spec => []NoActivityOutlivesItsParent
<1>1. ProjectionInv => NoActivityOutlivesItsParent
  BY DEF ProjectionInv, Sound, Coherent, TreeEndsBottomUp, ChildEndsFirst,
         NoActivityOutlivesItsParent
<1> QED  BY <1>1, InitProjection, NextProjection, PTL DEF Spec

(* A blocker is always tied to a cycle: none is recorded before there is a *)
(* foreground (blockForeground).                                           *)
THEOREM BlockersStopCycles == Spec => []EveryBlockerStopsACycle
<1>1. ProjectionInv => EveryBlockerStopsACycle
  BY DEF ProjectionInv, Sound, Coherent, BlockersHaveCycles, EveryBlockerStopsACycle
<1> QED  BY <1>1, InitProjection, NextProjection, PTL DEF Spec

(* A stopped cycle that is not reported waiting is in debt                 *)
(* (blockForeground, checkBlockedCycle).                                   *)
THEOREM StoppedCycleDebt == Spec => []StoppedCycleOwesItsTransition
<1>1. ProjectionInv => StoppedCycleOwesItsTransition
  BY DEF ProjectionInv, Sound, StoppedCycleInDebt, StoppedCycleOwesItsTransition
<1> QED  BY <1>1, InitProjection, NextProjection, PTL DEF Spec

(* Whatever the projection refers to was introduced (the unknown_entity    *)
(* checks).                                                                *)
THEOREM ReferencesAreResolved == Spec => []ReferencesResolve
<1>1. ProjectionInv => ReferencesResolve
  BY DEF ProjectionInv, Sound, Coherent, OriginKnown, OwnerKnown, ReferencesResolve
<1> QED  BY <1>1, InitProjection, NextProjection, PTL DEF Spec

(* What a host relies on to render the foreground holds throughout         *)
(* (applyLive, applyIdle, blockForeground, checkBlockedCycle).             *)
THEOREM ForegroundSound == Spec => []ForegroundIsSound
  BY ForegroundTurnOpen, StoppedCycleDebt, BlockersStopCycles, PTL DEF ForegroundIsSound

(* What a host relies on to render the activities holds throughout         *)
(* (patchActivity, checkDescendantsTerminal, the unknown_entity checks).   *)
THEOREM TreeSound == Spec => []TreeIsSound
  BY TreeEnds, ReferencesAreResolved, PTL DEF TreeIsSound

-----------------------------------------------------------------------------
(* What one step may never do *)

(* Every step hands in a delivery, a frame that does not decode, or a      *)
(* close, or leaves the reducer alone.                                     *)
LEMMA StepKinds ==
  ASSUME [Next]_vars
  PROVE  \/ \E d \in Delivery : reducer' = Reduce(reducer, d)
         \/ \E k \in ViolationKind, s \in Stream \cup {None} :
               reducer' = RefuseFrame(reducer, k, s)
         \/ reducer' = Close(reducer)
         \/ reducer' = reducer
<1>1. ASSUME NEW s \in Stream, NEW k \in Lead, NEW c \in OfferedCarrier, NEW e \in Offered,
             reducer.reducedThrough + k \in Sequence,
             Deliver([stream |-> s, sequence |-> reducer.reducedThrough + k,
                      carrier |-> c, event |-> e])
      PROVE  \E d \in Delivery : reducer' = Reduce(reducer, d)
  BY <1>1, OfferedDelivery DEF Deliver
<1>2. ASSUME NEW k \in Undecodable, NEW s \in Stream \cup {None}, Undecoded(k, s)
      PROVE  \E j \in ViolationKind, t \in Stream \cup {None} :
               reducer' = RefuseFrame(reducer, j, t)
  BY <1>2, EnvironmentAssumption DEF Undecoded
<1>3. CASE SessionClosed
  BY <1>3 DEF SessionClosed
<1>4. CASE UNCHANGED vars
  BY <1>4 DEF vars
<1> QED  BY <1>1, <1>2, <1>3, <1>4 DEF Next

-----------------------------------------------------------------------------
(* Refusals are total *)

(* A refusal or a close changes no projected member. *)
LEMMA FailKeepsProjection ==
  ASSUME NEW r \in ReducerState, NEW k
  PROVE  Projection(Fail(r, k)) = Projection(r)
BY DEF Fail, Projection, ReducerState

(* Whatever handler refuses an event has applied none of it (apply). *)
LEMMA ApplyRefusedWhole ==
  ASSUME NEW r \in ReducerState, r.failed = None,
         NEW e \in Event, e.type # "lifecycle_snapshot",
         Apply(r, e).failed # None
  PROVE  Projection(Apply(r, e)) = Projection(r)
<1>1. \A k : Projection(Fail(r, k)) = Projection(r)
  BY FailKeepsProjection
<1>2. CASE e.type = "prompt_accepted"
  <2>1. OpenTurn(r, e.turn, "submission").failed = None
    BY DEF OpenTurn, ReducerState
  <2> QED  BY <1>1, <1>2, <2>1 DEF Apply, ApplyPromptAccepted, Unless
<1>3. CASE e.type = "state_update"
  <2> DEFINE q == SettleBlockedCycle(r, e)
  <2>1. e \in TransitionEvent
    BY <1>3 DEF TransitionEvent
  <2>2. q \in ReducerState /\ Projection(q) = Projection(r) /\ q.failed = None
    BY DEF SettleBlockedCycle, ReducerState, Projection
  <2> HIDE DEF q
  <2>3. \A k : Projection(Fail(q, k)) = Projection(r)
    BY <2>2, FailKeepsProjection
  <2>4. ApplyIdle(q, e).failed # None => Projection(ApplyIdle(q, e)) = Projection(r)
    BY <2>2, <2>3 DEF ApplyIdle, Unless, EndTurn, ReducerState
  <2>5. e.turn \in Turn =>
          (ApplyLive(q, e).failed # None => Projection(ApplyLive(q, e)) = Projection(r))
    <3> SUFFICES ASSUME e.turn \in Turn, ApplyLive(q, e).failed # None
                 PROVE  Projection(ApplyLive(q, e)) = Projection(r)
      OBVIOUS
    <3> DEFINE o == OpenTurn(q, e.turn, "activity")
    <3>1. o \in ReducerState
      BY <2>2, OpenTurnType DEF Cause
    <3>2. o.failed = None
      BY <2>2 DEF OpenTurn, ReducerState
    <3> HIDE DEF o
    <3>3. ReportLive(o, e).failed = None /\ ReportLive(q, e).failed = None
      BY <2>2, <3>1, <3>2 DEF ReportLive, ReducerState
    <3> QED  BY <2>3, <3>3 DEF ApplyLive, Unless, o
  <2>6. e.state # "idle" /\ NamelessTurnDefect(e) = None => e.turn \in Turn
    BY <2>1, TransitionParts, NoneIsAnIdentityOfNothing DEF NamelessTurnDefect, ViolationKind
  <2> QED  BY <1>1, <1>3, <2>4, <2>5, <2>6 DEF Apply, ApplyStateUpdate, q
<1>4. CASE e.type = "activity_update"
  <2>1. /\ PatchActivity(r, e.activity).failed = None
        /\ RecordActivities(r, {e.activity}).failed = None
    BY DEF PatchActivity, RecordActivities, ReducerState
  <2> QED  BY <1>1, <1>4, <2>1 DEF Apply, ApplyActivityUpdate, Unless
<1>5. CASE e.type = "action_update"
  <2>1. /\ PatchAction(r, e.action).failed = None
        /\ RecordActions(r, {e.action}).failed = None
    BY DEF PatchAction, RecordActions, ReducerState
  <2> QED  BY <1>1, <1>5, <2>1 DEF Apply, ApplyActionUpdate, Unless
<1>6. e.type \in {"prompt_accepted", "state_update", "activity_update", "action_update"}
  BY DEF Event
<1> QED  BY <1>2, <1>3, <1>4, <1>5, <1>6

(* Marking a stream as opened touches nothing else. *)
LEMMA StartedProjection ==
  ASSUME NEW r \in ReducerState
  PROVE  LET q == [r EXCEPT !.started = TRUE]
         IN  q \in ReducerState /\ q.failed = r.failed /\ Projection(q) = Projection(r)
<1> DEFINE q == [r EXCEPT !.started = TRUE]
<1>1. q \in ReducerState
  BY DEF ReducerState
<1>2. q.failed = r.failed /\ Projection(q) = Projection(r)
  BY DEF ReducerState, Projection
<1> QED  BY <1>1, <1>2

(* A refused opening has projected nothing (reduceFirst). *)
LEMMA ReduceFirstRefusedWhole ==
  ASSUME NEW r \in ReducerState, r.failed = None, NEW d \in Delivery,
         ReduceFirst(r, d).failed # None
  PROVE  Projection(ReduceFirst(r, d)) = Projection(r)
<1> DEFINE named == [r EXCEPT !.stream = d.stream]
           based == [named EXCEPT !.base = d.sequence]
           shown == ApplySnapshot(based, d.event)
           begun == [shown EXCEPT !.started = TRUE]
           opened == Commit(begun, d)
           q == ReduceFirst(r, d)
<1>1. d.sequence \in 0 .. MaxSequence /\ d.stream \in Stream /\ d.event \in Event
  BY BoundAssumption DEF Delivery, Sequence
<1>2. named \in ReducerState /\ Projection(named) = Projection(r) /\ named.failed = None
  BY <1>1 DEF ReducerState, Projection
<1> HIDE DEF named
<1>3. based \in ReducerState /\ Projection(based) = Projection(r) /\ based.failed = None
  BY <1>1, <1>2 DEF ReducerState, Projection
<1>4. CASE d.event.type # "lifecycle_snapshot"
  <2>1. q = Fail(named, "delta_before_snapshot")
    BY <1>4 DEF ReduceFirst, named
  <2> QED  BY <2>1, <1>2, FailKeepsProjection
<1>5. CASE d.event.type = "lifecycle_snapshot"
  <2>1. shown \in ReducerState
    BY <1>1, <1>3, <1>5, ApplySnapshotType DEF SnapshotEvent
  <2>2. q = IF opened.failed # None THEN [opened EXCEPT !.started = FALSE] ELSE opened
    BY <1>5 DEF ReduceFirst, named
  <2> HIDE DEF based
  <2>3. shown.failed # None => Projection(shown) = Projection(r)
    <3>1. ProjectSnapshot(based, d.event).failed = None
      BY <1>3 DEF ProjectSnapshot, RecordActions, RecordActivities, ProjectForeground,
                  ReducerState
    <3> QED  BY <1>3, <3>1, FailKeepsProjection DEF ApplySnapshot, Unless
  <2> HIDE DEF shown
  <2>4. begun \in ReducerState /\ begun.failed = shown.failed
        /\ Projection(begun) = Projection(shown)
    BY <2>1, StartedProjection
  <2> HIDE DEF begun
  <2>5. begun.failed = None => opened.failed = None
    BY <2>4 DEF Commit, ReducerState
  <2>6. begun.failed # None => opened = begun
    BY DEF Commit
  <2>7. begun.failed # None /\ q = [begun EXCEPT !.started = FALSE]
    <3> HIDE DEF q, opened
    <3>1. opened.failed # None
      BY <2>2 DEF q
    <3> QED  BY <2>2, <2>5, <2>6, <3>1
  <2>8. Projection([begun EXCEPT !.started = FALSE]) = Projection(begun)
    BY <2>4 DEF ReducerState, Projection
  <2> QED  BY <2>3, <2>4, <2>7, <2>8
<1> QED  BY <1>4, <1>5

(* Reduce refuses whole. *)
LEMMA ReduceRefusedWhole ==
  ASSUME NEW r \in ReducerState, r.failed = None, NEW d \in Delivery,
         Reduce(r, d).failed # None
  PROVE  Projection(Reduce(r, d)) = Projection(r)
<1> DEFINE Whole(q) == q.failed # None => Projection(q) = Projection(r)
<1>1. \A k : Whole(Fail(r, k))
  BY FailKeepsProjection
<1>2. Whole(ReduceFirst(r, d))
  BY ReduceFirstRefusedWhole
<1>3. Whole(ReduceForeign(r, d))
  <2> DEFINE next == ReduceFirst(Fresh(d.stream, r.retired), d)
  <2>1. Fresh(d.stream, r.retired) \in ReducerState
    BY FreshType DEF Delivery, ReducerState
  <2>2. next \in ReducerState
    BY <2>1, ReduceFirstType
  <2> HIDE DEF next
  <2>3. next.failed = None
          => [next EXCEPT !.closed = r.closed, !.retired = @ \cup {r.stream}].failed = None
    BY <2>2 DEF ReducerState
  <2> QED  BY <1>1, <2>3 DEF ReduceForeign, next
<1>4. Whole(ReduceDuplicate(r, d))
  <2>1. [r EXCEPT !.suppressed = @ + 1].failed = None
    BY DEF ReducerState
  <2> QED  BY <1>1, <2>1 DEF ReduceDuplicate
<1>5. d.event.type # "lifecycle_snapshot" => Whole(Commit(Apply(r, d.event), d))
  <2> DEFINE p == Apply(r, d.event)
  <2> SUFFICES ASSUME d.event.type # "lifecycle_snapshot" PROVE Whole(Commit(p, d))
    OBVIOUS
  <2>1. p \in ReducerState /\ Whole(p)
    BY ApplyType, ApplyRefusedWhole DEF Delivery
  <2> HIDE DEF p
  <2>2. p.failed = None => Commit(p, d).failed = None
    BY <2>1 DEF Commit, ReducerState
  <2>3. p.failed # None => Commit(p, d) = p
    BY DEF Commit
  <2> QED  BY <2>1, <2>2, <2>3
<1> HIDE DEF Whole
<1>6. Whole(Reduce(r, d))
  BY <1>1, <1>2, <1>3, <1>4, <1>5 DEF Reduce
<1> QED  BY <1>6 DEF Whole

(* A refusal leaves the projection as it stood, whatever step refuses      *)
(* (RefuseFrame, Reduce): nothing half-applied, and a refused replacement  *)
(* supersedes nothing.                                                     *)
THEOREM RefusalIsTotal == Spec => RefusalKeepsProjection
<1>1. ProjectionInv /\ [Next]_vars =>
        [(reducer.failed = None /\ reducer'.failed # None)
           => Projection(reducer') = Projection(reducer)]_vars
  <2> SUFFICES ASSUME ProjectionInv, [Next]_vars, reducer.failed = None, reducer'.failed # None
               PROVE  Projection(reducer') = Projection(reducer)
    OBVIOUS
  <2>1. reducer \in ReducerState
    BY DEF ProjectionInv, IncarnationInv, TypeOK
  <2>2. ASSUME NEW k \in ViolationKind, NEW s \in Stream \cup {None},
               reducer' = RefuseFrame(reducer, k, s)
        PROVE  Projection(reducer') = Projection(reducer)
    BY <2>1, <2>2 DEF RefuseFrame, Fail, Projection, ReducerState
  <2>3. ASSUME reducer' = Close(reducer)
        PROVE  Projection(reducer') = Projection(reducer)
    BY <2>1, <2>3 DEF Close, Projection, ReducerState
  <2> QED  BY <2>1, <2>2, <2>3, StepKinds, ReduceRefusedWhole
<1> QED  BY <1>1, InitProjection, NextProjection, PTL DEF Spec, RefusalKeepsProjection

-----------------------------------------------------------------------------
(* Latches *)

(* After a refusal Reduce does nothing; after a close it refuses only, so  *)
(* the projection stands either way and the first verdict too.             *)
LEMMA ReduceLatched ==
  ASSUME NEW r \in ReducerState, NEW d \in Delivery
  PROVE  /\ r.failed # None => Reduce(r, d) = r
         /\ r.failed = None /\ r.closed =>
              /\ Projection(Reduce(r, d)) = Projection(r)
              /\ Reduce(r, d).closed
<1>1. \A k : Fail(r, k).closed = r.closed
  BY DEF Fail, ReducerState
<1> QED  BY <1>1, FailKeepsProjection DEF Reduce

(* Failing closed and closing are final (fail, Close): nothing that        *)
(* arrives later moves the projection, and the first verdict stands.       *)
THEOREM Latched == Spec => RefusalAndCloseAreFinal
<1>1. ProjectionInv /\ [Next]_vars =>
        [/\ (reducer.failed # None \/ reducer.closed)
              => Projection(reducer') = Projection(reducer)
         /\ reducer.failed # None => reducer'.failed = reducer.failed
         /\ reducer.closed => reducer'.closed]_vars
  <2> SUFFICES ASSUME ProjectionInv, [Next]_vars
               PROVE  /\ (reducer.failed # None \/ reducer.closed)
                            => Projection(reducer') = Projection(reducer)
                      /\ reducer.failed # None => reducer'.failed = reducer.failed
                      /\ reducer.closed => reducer'.closed
    OBVIOUS
  <2>1. reducer \in ReducerState
    BY DEF ProjectionInv, IncarnationInv, TypeOK
  <2>2. CASE \E d \in Delivery : reducer' = Reduce(reducer, d)
    BY <2>1, <2>2, ReduceLatched
  <2>3. ASSUME NEW k \in ViolationKind, NEW s \in Stream \cup {None},
               reducer' = RefuseFrame(reducer, k, s)
        PROVE  /\ Projection(reducer') = Projection(reducer)
               /\ reducer.failed # None => reducer'.failed = reducer.failed
               /\ reducer'.closed = reducer.closed
    BY <2>1, <2>3 DEF RefuseFrame, Fail, Projection, ReducerState
  <2>4. CASE reducer' = Close(reducer)
    BY <2>1, <2>4 DEF Close, Projection, ReducerState
  <2>5. CASE reducer' = reducer
    BY <2>5
  <2> QED  BY <2>2, <2>3, <2>4, <2>5, StepKinds
<1> QED  BY <1>1, InitProjection, NextProjection, PTL DEF Spec, RefusalAndCloseAreFinal

-----------------------------------------------------------------------------
(* Ordering *)

(* A delivery at or below the reduced boundary is counted or refused.      *)
LEMMA ReducedAgain ==
  ASSUME NEW r \in ReducerState, r.started, NEW d \in Delivery, d.stream = r.stream,
         d.sequence <= r.reducedThrough
  PROVE  Projection(Reduce(r, d)) = Projection(r)
<1>1. \A k : Projection(Fail(r, k)) = Projection(r)
  BY FailKeepsProjection
<1>2. Projection([r EXCEPT !.suppressed = @ + 1]) = Projection(r)
  BY DEF Projection, ReducerState
<1>3. Projection(ReduceDuplicate(r, d)) = Projection(r)
  BY <1>1, <1>2 DEF ReduceDuplicate
<1> QED  BY <1>1, <1>3 DEF Reduce, AlreadyReduced

(* A sequence is reduced once: whatever is delivered under a number        *)
(* already reduced changes no projected member (reduceDuplicate, Reduce).  *)
THEOREM ReducedOnlyOnce == Spec => []ReducedOnce
<1>1. ProjectionInv => ReducedOnce
  <2> SUFFICES ASSUME ProjectionInv, reducer.started,
                      NEW n \in 1 .. reducer.reducedThrough, NEW e \in Offered
               PROVE  Projection(Reduce(reducer,
                        [stream |-> reducer.stream, sequence |-> n,
                         carrier |-> "session_info_update", event |-> e]))
                      = Projection(reducer)
    BY DEF ReducedOnce
  <2> DEFINE d == [stream |-> reducer.stream, sequence |-> n,
                   carrier |-> "session_info_update", event |-> e]
  <2>1. reducer \in ReducerState /\ reducer.stream # None
    BY DEF ProjectionInv, IncarnationInv, TypeOK, Opened
  <2>2. /\ reducer.stream \in Stream /\ reducer.reducedThrough \in 0 .. MaxSequence
    BY <2>1 DEF ReducerState
  <2>3. n \in Sequence /\ n <= reducer.reducedThrough
    BY <2>2, BoundAssumption DEF Sequence
  <2>4. d \in Delivery /\ d.stream = reducer.stream /\ d.sequence <= reducer.reducedThrough
    BY <2>2, <2>3, EnvironmentAssumption DEF Delivery, Carrier
  <2> HIDE DEF d
  <2>5. Projection(Reduce(reducer, d)) = Projection(reducer)
    BY <2>1, <2>4, ReducedAgain
  <2> QED  BY <2>5 DEF d
<1> QED  BY <1>1, InitProjection, NextProjection, PTL DEF Spec

(* Where a delivery may take a stream that has opened. *)
LEMMA ReduceMoves ==
  ASSUME NEW r \in ReducerState, r.started, r.stream # None, NEW d \in Delivery
  PROVE  LET q == Reduce(r, d)
         IN  \/ /\ q.stream = r.stream /\ q.base = r.base
                /\ q.reducedThrough - r.reducedThrough \in {0, 1}
             \/ /\ q.stream \notin r.retired \cup {r.stream}
                /\ q.retired = r.retired \cup {r.stream}
<1> DEFINE q == Reduce(r, d)
           OneOn(x) == /\ x.stream = r.stream /\ x.base = r.base
                       /\ x.reducedThrough - r.reducedThrough \in {0, 1}
           Replaced(x) == /\ x.stream \notin r.retired \cup {r.stream}
                          /\ x.retired = r.retired \cup {r.stream}
           Moves(x) == OneOn(x) \/ Replaced(x)
<1>1. r.reducedThrough \in Int /\ d.sequence \in Int
  BY BoundAssumption DEF ReducerState, Delivery, Sequence
<1>2. \A k : Fail(r, k).stream = r.stream /\ Fail(r, k).base = r.base
             /\ Fail(r, k).reducedThrough = r.reducedThrough
  BY DEF Fail, ReducerState
<1>3. \A k : OneOn(Fail(r, k))
  BY <1>1, <1>2
<1>4. OneOn(ReduceDuplicate(r, d))
  <2> DEFINE x == [r EXCEPT !.suppressed = @ + 1]
  <2>1. x.stream = r.stream /\ x.base = r.base /\ x.reducedThrough = r.reducedThrough
    BY DEF ReducerState
  <2> HIDE DEF x
  <2>2. OneOn(x)
    BY <1>1, <2>1
  <2> HIDE DEF OneOn
  <2> QED  BY <1>3, <2>2 DEF ReduceDuplicate, x
<1>5. ASSUME d.stream # r.stream PROVE Moves(ReduceForeign(r, d))
  <2> DEFINE blank == Fresh(d.stream, r.retired)
             next == ReduceFirst(blank, d)
             adopted == [next EXCEPT !.closed = r.closed, !.retired = @ \cup {r.stream}]
  <2>1. blank \in ReducerState /\ ~blank.started /\ blank.retired = r.retired
    <3>1. blank \in ReducerState
      BY FreshType DEF Delivery, ReducerState
    <3> QED  BY <3>1 DEF Fresh
  <2> HIDE DEF blank
  <2>2. next \in ReducerState /\ next.stream = d.stream /\ next.retired = r.retired
    BY <2>1, ReduceFirstType, ReduceFirstHeader
  <2> HIDE DEF next
  <2>3. adopted.stream = d.stream /\ adopted.retired = r.retired \cup {r.stream}
    BY <2>2 DEF ReducerState
  <2> HIDE DEF adopted
  <2>4. d.stream \notin r.retired => Replaced(adopted)
    BY <1>5, <2>3
  <2> HIDE DEF OneOn, Replaced
  <2> QED  BY <1>3, <2>4 DEF ReduceForeign, adopted, next, blank
<1>6. ASSUME ~AlreadyReduced(r, d.sequence), ~SkipsASequence(r, d.sequence),
             d.event.type # "lifecycle_snapshot"
      PROVE  OneOn(Commit(Apply(r, d.event), d))
  <2> DEFINE p == Apply(r, d.event)
  <2>1. p \in ReducerState /\ Header(p) = Header(r)
    BY <1>6, ApplyType, ApplyKeepsHeader DEF Delivery
  <2>2. d.sequence = r.reducedThrough + 1
    BY <1>1, <1>6 DEF AlreadyReduced, SkipsASequence
  <2> HIDE DEF p
  <2>3. p.stream = r.stream /\ p.base = r.base /\ p.reducedThrough = r.reducedThrough
    BY <2>1 DEF Header
  <2>4. /\ Commit(p, d).stream = p.stream /\ Commit(p, d).base = p.base
        /\ Commit(p, d).reducedThrough \in {p.reducedThrough, d.sequence}
    BY <2>1 DEF Commit, ReducerState
  <2>5. OneOn(Commit(p, d))
    BY <1>1, <2>2, <2>3, <2>4
  <2> QED  BY <2>5 DEF p
<1>7. Moves(r)
  BY <1>1
<1> HIDE DEF OneOn, Replaced
<1>8. Moves(q)
  BY <1>3, <1>4, <1>5, <1>6, <1>7 DEF Reduce
<1> QED  BY <1>8 DEF OneOn, Replaced

(* Within an incarnation the boundary moves by at most one and never back; *)
(* moving to another incarnation retires the one left (Reduce, commit,     *)
(* reduceForeign).                                                         *)
THEOREM Contiguous == Spec => BoundaryIsContiguous
<1>1. ProjectionInv /\ [Next]_vars =>
        [reducer.started =>
           \/ /\ reducer'.stream = reducer.stream
              /\ reducer'.reducedThrough - reducer.reducedThrough \in {0, 1}
              /\ reducer'.base = reducer.base
           \/ /\ reducer'.stream \notin reducer.retired \cup {reducer.stream}
              /\ reducer'.retired = reducer.retired \cup {reducer.stream}]_vars
  <2> SUFFICES ASSUME ProjectionInv, [Next]_vars, reducer.started
               PROVE  \/ /\ reducer'.stream = reducer.stream
                         /\ reducer'.reducedThrough - reducer.reducedThrough \in {0, 1}
                         /\ reducer'.base = reducer.base
                      \/ /\ reducer'.stream \notin reducer.retired \cup {reducer.stream}
                         /\ reducer'.retired = reducer.retired \cup {reducer.stream}
    OBVIOUS
  <2>1. reducer \in ReducerState /\ reducer.stream # None /\ reducer.reducedThrough \in Int
    BY DEF ProjectionInv, IncarnationInv, TypeOK, Opened, ReducerState
  <2>2. CASE \E d \in Delivery : reducer' = Reduce(reducer, d)
    BY <2>1, <2>2, ReduceMoves
  <2>3. ASSUME NEW k \in ViolationKind, NEW s \in Stream \cup {None},
               reducer' = RefuseFrame(reducer, k, s)
        PROVE  /\ reducer'.stream = reducer.stream /\ reducer'.base = reducer.base
               /\ reducer'.reducedThrough = reducer.reducedThrough
    BY <2>1, <2>3 DEF RefuseFrame, Fail, ReducerState
  <2>4. ASSUME reducer' = Close(reducer)
        PROVE  /\ reducer'.stream = reducer.stream /\ reducer'.base = reducer.base
               /\ reducer'.reducedThrough = reducer.reducedThrough
    BY <2>1, <2>4 DEF Close, ReducerState
  <2> QED  BY <2>1, <2>2, <2>3, <2>4, StepKinds
<1> QED  BY <1>1, InitProjection, NextProjection, PTL DEF Spec, BoundaryIsContiguous

-----------------------------------------------------------------------------
(* Terminal records *)

(* What is over in r reads the same in q. *)
Keeps(q, r) ==
  /\ \A t \in Turn : TurnOver(r, t) => q.turns[t] = r.turns[t]
  /\ \A a \in Activity :
       (r.activities[a] # None /\ ActivityOver(r.activities[a]))
         => q.activities[a] = r.activities[a]
  /\ \A a \in Action :
       (r.actions[a] # None /\ ActionOver(r.actions[a])) => q.actions[a] = r.actions[a]

(* A state with the same records keeps them. *)
LEMMA SameRecordsKept ==
  ASSUME NEW r, NEW q, q.turns = r.turns, q.activities = r.activities, q.actions = r.actions
  PROVE  Keeps(q, r)
BY DEF Keeps

(* Opening a turn writes a record where there was none                     *)
(* (applyPromptAccepted, applyLive).                                       *)
LEMMA OpeningKeeps ==
  ASSUME NEW r \in ReducerState, NEW t \in Turn, r.turns[t] = None, NEW c \in Cause
  PROVE  Keeps(OpenTurn(r, t, c), r)
<1> DEFINE q == OpenTurn(r, t, c)
<1>1. /\ q.activities = r.activities /\ q.actions = r.actions
      /\ \A x \in Turn \ {t} : q.turns[x] = r.turns[x]
  BY DEF OpenTurn, ReducerState
<1> HIDE DEF q
<1>2. Keeps(q, r)
  BY <1>1 DEF Keeps, TurnOver
<1> QED  BY <1>2 DEF q

(* A live transition writes the record of a turn that is not over          *)
(* (applyLive).                                                            *)
LEMMA ReportingKeeps ==
  ASSUME NEW r \in ReducerState, NEW e \in TransitionEvent, e.turn \in Turn,
         ~TurnOver(r, e.turn)
  PROVE  Keeps(ReportLive(r, e), r)
<1> DEFINE q == ReportLive(r, e)
<1>1. /\ q.activities = r.activities /\ q.actions = r.actions
      /\ q.turns = [r.turns EXCEPT ![e.turn].cycle = e.cycle]
  BY DEF ReportLive, ReducerState
<1>2. \A x \in Turn \ {e.turn} : q.turns[x] = r.turns[x]
  BY <1>1 DEF ReducerState
<1> HIDE DEF q
<1>3. Keeps(q, r)
  BY <1>1, <1>2 DEF Keeps
<1> QED  BY <1>3 DEF q

(* An ending idle ends a turn that is not over (applyIdle). *)
LEMMA EndingKeeps ==
  ASSUME NEW r \in ReducerState, NEW e \in TransitionEvent, e.turn \in Turn,
         ~TurnOver(r, e.turn)
  PROVE  Keeps(EndTurn(r, e), r)
<1> DEFINE q == EndTurn(r, e)
<1>1. /\ q.activities = r.activities /\ q.actions = r.actions
      /\ \A x \in Turn \ {e.turn} : q.turns[x] = r.turns[x]
  BY DEF EndTurn, ReducerState
<1> HIDE DEF q
<1>2. Keeps(q, r)
  BY <1>1 DEF Keeps
<1> QED  BY <1>2 DEF q

(* applyStateUpdate refuses a transition of a turn that is over. *)
LEMMA ApplyStateUpdateKeeps ==
  ASSUME NEW r \in ReducerState, NEW e \in TransitionEvent
  PROVE  Keeps(ApplyStateUpdate(r, e), r)
<1> DEFINE s == SettleBlockedCycle(r, e)
<1>1. /\ s \in ReducerState /\ s.turns = r.turns /\ s.activities = r.activities
      /\ s.actions = r.actions
  BY DEF SettleBlockedCycle, ReducerState
<1>2. \A k : Keeps(Fail(r, k), r)
  BY DEF Fail, ReducerState, Keeps
<1>3. e.state # "idle" /\ NamelessTurnDefect(e) = None => e.turn \in Turn
  BY TransitionParts, NoneIsAnIdentityOfNothing DEF NamelessTurnDefect, ViolationKind
<1> HIDE DEF s
<1>4. \A q : Keeps(q, s) => Keeps(q, r)
  BY <1>1 DEF Keeps, TurnOver
<1>5. \A k : Keeps(Fail(s, k), s)
  BY <1>1 DEF Fail, ReducerState, Keeps
<1>6. Keeps(ApplyIdle(s, e), s)
  <2>1. CASE e.turn = None
    <3>1. /\ ApplyIdle(s, e).turns = s.turns /\ ApplyIdle(s, e).activities = s.activities
          /\ ApplyIdle(s, e).actions = s.actions
      BY <1>1, <2>1 DEF ApplyIdle, ReducerState
    <3> QED  BY <3>1, SameRecordsKept
  <2>2. CASE e.turn # None /\ IdleDefect(s, e) # None
    BY <1>5, <2>2 DEF ApplyIdle, Unless
  <2>3. CASE e.turn # None /\ IdleDefect(s, e) = None
    <3>1. ~TurnOver(s, e.turn) /\ e.turn \in Turn
      BY <2>3, TransitionParts, NoneIsAnIdentityOfNothing DEF IdleDefect, ViolationKind
    <3> QED  BY <1>1, <2>3, <3>1, EndingKeeps DEF ApplyIdle, Unless
  <2> QED  BY <2>1, <2>2, <2>3
<1>7. ASSUME e.turn \in Turn PROVE Keeps(ApplyLive(s, e), s)
  <2>1. CASE LiveDefect(s, e) # None
    BY <1>5, <2>1 DEF ApplyLive, Unless
  <2>2. CASE LiveDefect(s, e) = None /\ s.turns[e.turn] # None
    <3>1. ~TurnOver(s, e.turn)
      BY <2>2, NoneIsAnIdentityOfNothing DEF LiveDefect, ViolationKind
    <3> QED  BY <1>1, <1>7, <2>2, <3>1, ReportingKeeps DEF ApplyLive, Unless
  <2>3. CASE LiveDefect(s, e) = None /\ s.turns[e.turn] = None
    <3> DEFINE o == OpenTurn(s, e.turn, "activity")
    <3>1. o \in ReducerState /\ Keeps(o, s)
      BY <1>1, <1>7, <2>3, OpenTurnType, OpeningKeeps DEF Cause
    <3>2. ~TurnOver(o, e.turn)
      BY <1>1, <1>7 DEF OpenTurn, ReducerState, TurnOver
    <3> HIDE DEF o
    <3>3. Keeps(ReportLive(o, e), o)
      BY <1>7, <3>1, <3>2, ReportingKeeps
    <3>4. Keeps(ReportLive(o, e), s)
      BY <3>1, <3>3 DEF Keeps, TurnOver
    <3> QED  BY <2>3, <3>4 DEF ApplyLive, Unless, o
  <2> QED  BY <2>1, <2>2, <2>3
<1> QED  BY <1>2, <1>3, <1>4, <1>6, <1>7 DEF ApplyStateUpdate, s

(* Restating an activity that is over changes nothing (patchActivity). *)
LEMMA ApplyActivityUpdateKeeps ==
  ASSUME NEW r \in ReducerState, NEW u \in ActivityUpdate
  PROVE  Keeps(ApplyActivityUpdate(r, u), r)
<1>1. \A k : Keeps(Fail(r, k), r)
  BY DEF Fail, ReducerState, Keeps
<1>2. u.id \in Activity
  BY DEF ActivityUpdate
<1>3. ASSUME ActivityKnown(r, u.id) PROVE Keeps(PatchActivity(r, u), r)
  <2>1. CASE ActivityOver(r.activities[u.id])
    BY <2>1 DEF PatchActivity, Keeps
  <2>2. CASE ~ActivityOver(r.activities[u.id])
    <3> DEFINE q == PatchActivity(r, u)
    <3>1. /\ q.turns = r.turns /\ q.actions = r.actions
          /\ \A a \in Activity \ {u.id} : q.activities[a] = r.activities[a]
      BY <1>2, <2>2 DEF PatchActivity, ReducerState
    <3> HIDE DEF q
    <3>2. Keeps(q, r)
      BY <2>2, <3>1 DEF Keeps
    <3> QED  BY <3>2 DEF q
  <2> QED  BY <2>1, <2>2
<1>4. ASSUME ~ActivityKnown(r, u.id) PROVE Keeps(RecordActivities(r, {u}), r)
  <2> DEFINE q == RecordActivities(r, {u})
  <2>1. /\ q.turns = r.turns /\ q.actions = r.actions
        /\ \A a \in Activity \ {u.id} : q.activities[a] = r.activities[a]
    BY DEF RecordActivities, Named, ReducerState
  <2> HIDE DEF q
  <2>2. Keeps(q, r)
    BY <1>4, <2>1 DEF Keeps, ActivityKnown
  <2> QED  BY <2>2 DEF q
<1> QED  BY <1>1, <1>3, <1>4 DEF ApplyActivityUpdate, Unless

(* Nor does restating a resolved action (patchAction). *)
LEMMA ApplyActionUpdateKeeps ==
  ASSUME NEW r \in ReducerState, NEW u \in ActionUpdate
  PROVE  Keeps(ApplyActionUpdate(r, u), r)
<1>1. \A k : Keeps(Fail(r, k), r)
  BY DEF Fail, ReducerState, Keeps
<1>2. u.id \in Action
  BY DEF ActionUpdate
<1>3. ASSUME r.actions[u.id] # None, ActionPatchDefect(r, u) = None
      PROVE  Keeps(PatchAction(r, u), r)
  <2> DEFINE q == PatchAction(r, u)
             old == r.actions[u.id]
  <2>1. old \in ActionRecord
    BY <1>2, <1>3 DEF ReducerState
  <2>2. /\ q.turns = r.turns /\ q.activities = r.activities
        /\ q.actions[u.id] = [old EXCEPT !.state = u.state]
        /\ \A a \in Action \ {u.id} : q.actions[a] = r.actions[a]
    BY <1>2 DEF PatchAction, ReducerState
  <2>3. ActionOver(old) => u.state = old.state
    BY <1>3, NoneIsAnIdentityOfNothing DEF ActionPatchDefect, ViolationKind
  <2>4. ActionOver(old) => q.actions[u.id] = old
    BY <2>1, <2>2, <2>3 DEF ActionRecord
  <2> HIDE DEF q
  <2>5. Keeps(q, r)
    BY <2>2, <2>4 DEF Keeps
  <2> QED  BY <2>5 DEF q
<1>4. ASSUME r.actions[u.id] = None PROVE Keeps(RecordActions(r, {u}), r)
  <2> DEFINE q == RecordActions(r, {u})
  <2>1. /\ q.turns = r.turns /\ q.activities = r.activities
        /\ \A a \in Action \ {u.id} : q.actions[a] = r.actions[a]
    BY DEF RecordActions, Named, ReducerState
  <2> HIDE DEF q
  <2>2. Keeps(q, r)
    BY <1>4, <2>1 DEF Keeps
  <2> QED  BY <2>2 DEF q
<1> QED  BY <1>1, <1>3, <1>4 DEF ApplyActionUpdate, Unless

(* apply and commit. *)
LEMMA ApplyKeeps ==
  ASSUME NEW r \in ReducerState, NEW d \in Delivery, d.event.type # "lifecycle_snapshot"
  PROVE  Keeps(Commit(Apply(r, d.event), d), r)
<1> DEFINE e == d.event
           p == Apply(r, e)
<1>1. e \in Event /\ p \in ReducerState
  BY ApplyType DEF Delivery
<1>2. Keeps(p, r)
  <2>1. CASE e.type = "prompt_accepted"
    <3>1. e.turn \in Turn
      BY <1>1, <2>1 DEF Event
    <3>2. CASE PromptDefect(r, e) # None
      BY <2>1, <3>2 DEF Apply, ApplyPromptAccepted, Unless, Fail, ReducerState, Keeps
    <3>3. CASE PromptDefect(r, e) = None
      <4>1. ~TurnOver(r, e.turn)
        BY <3>3, NoneIsAnIdentityOfNothing DEF PromptDefect, ViolationKind
      <4> DEFINE o == OpenTurn(r, e.turn, "submission")
      <4>2. /\ o.activities = r.activities /\ o.actions = r.actions
            /\ \A x \in Turn \ {e.turn} : o.turns[x] = r.turns[x]
        BY <3>1 DEF OpenTurn, ReducerState
      <4> HIDE DEF o
      <4>3. Keeps(o, r)
        BY <4>1, <4>2 DEF Keeps
      <4> QED  BY <2>1, <3>3, <4>3 DEF Apply, ApplyPromptAccepted, Unless, o
    <3> QED  BY <3>2, <3>3
  <2>2. CASE e.type = "state_update"
    BY <1>1, <2>2, ApplyStateUpdateKeeps DEF Apply, TransitionEvent
  <2>3. CASE e.type = "activity_update"
    <3>1. e.activity \in ActivityUpdate
      BY <1>1, <2>3 DEF Event
    <3> QED  BY <2>3, <3>1, ApplyActivityUpdateKeeps DEF Apply
  <2>4. CASE e.type = "action_update"
    <3>1. e.action \in ActionUpdate
      BY <1>1, <2>4 DEF Event
    <3> QED  BY <2>4, <3>1, ApplyActionUpdateKeeps DEF Apply
  <2>5. e.type \in {"prompt_accepted", "state_update", "activity_update", "action_update"}
    BY <1>1 DEF Event
  <2> QED  BY <2>1, <2>2, <2>3, <2>4, <2>5
<1> HIDE DEF p
<1>3. /\ Commit(p, d).turns = p.turns /\ Commit(p, d).activities = p.activities
      /\ Commit(p, d).actions = p.actions
  BY <1>1 DEF Commit, ReducerState
<1>4. Keeps(Commit(p, d), r)
  BY <1>2, <1>3 DEF Keeps
<1> QED  BY <1>4 DEF p

(* Reduce keeps what is over as long as it stays on the incarnation: an    *)
(* opening finds nothing recorded, and a replacement has another name.     *)
LEMMA ReduceKeeps ==
  ASSUME NEW r \in ReducerState, Sound(r), NEW d \in Delivery, Reduce(r, d).stream = r.stream
  PROVE  Keeps(Reduce(r, d), r)
<1>1. \A k : Keeps(Fail(r, k), r)
  BY DEF Fail, ReducerState, Keeps
<1>2. Keeps(r, r)
  BY DEF Keeps
<1>3. Keeps(ReduceDuplicate(r, d), r)
  <2>1. Keeps([r EXCEPT !.suppressed = @ + 1], r)
    BY DEF ReducerState, Keeps
  <2> QED  BY <1>1, <2>1 DEF ReduceDuplicate
<1>4. ~r.started => \A q : Keeps(q, r)
  BY DEF Sound, Coherent, BlankUntilStarted, Blank, Keeps, TurnOver
<1>5. d.stream # r.stream =>
        (ReduceForeign(r, d).stream = r.stream => Keeps(ReduceForeign(r, d), r))
  <2> DEFINE blank == Fresh(d.stream, r.retired)
             next == ReduceFirst(blank, d)
             adopted == [next EXCEPT !.closed = r.closed, !.retired = @ \cup {r.stream}]
  <2>1. blank \in ReducerState /\ ~blank.started
    <3>1. blank \in ReducerState
      BY FreshType DEF Delivery, ReducerState
    <3> QED  BY <3>1 DEF Fresh
  <2> HIDE DEF blank
  <2>2. next \in ReducerState /\ next.stream = d.stream
    BY <2>1, ReduceFirstType, ReduceFirstHeader
  <2> HIDE DEF next
  <2>3. adopted.stream = d.stream
    BY <2>2 DEF ReducerState
  <2> HIDE DEF adopted
  <2> QED  BY <1>1, <2>3 DEF ReduceForeign, adopted, next, blank
<1>6. d.event.type # "lifecycle_snapshot" => Keeps(Commit(Apply(r, d.event), d), r)
  BY ApplyKeeps
<1> QED  BY <1>1, <1>2, <1>3, <1>4, <1>5, <1>6 DEF Reduce

(* Within an incarnation what is over stays as it was reduced, whatever    *)
(* restatements and transitions arrive (applyIdle, patchActivity,          *)
(* patchAction).                                                           *)
THEOREM TerminalStands == Spec => TerminalIsFinal
<1>1. ProjectionInv /\ [Next]_vars =>
        [reducer'.stream = reducer.stream =>
           /\ \A t \in Turn : TurnOver(reducer, t) => reducer'.turns[t] = reducer.turns[t]
           /\ \A a \in Activity :
                (reducer.activities[a] # None /\ ActivityOver(reducer.activities[a]))
                  => reducer'.activities[a] = reducer.activities[a]
           /\ \A a \in Action :
                (reducer.actions[a] # None /\ ActionOver(reducer.actions[a]))
                  => reducer'.actions[a] = reducer.actions[a]]_vars
  <2> SUFFICES ASSUME ProjectionInv, [Next]_vars, reducer'.stream = reducer.stream
               PROVE  Keeps(reducer', reducer)
    BY DEF Keeps
  <2>1. reducer \in ReducerState /\ Sound(reducer)
    BY DEF ProjectionInv, IncarnationInv, TypeOK
  <2>2. CASE \E d \in Delivery : reducer' = Reduce(reducer, d)
    BY <2>1, <2>2, ReduceKeeps
  <2>3. ASSUME NEW k \in ViolationKind, NEW s \in Stream \cup {None},
               reducer' = RefuseFrame(reducer, k, s)
        PROVE  Keeps(reducer', reducer)
    <3>1. /\ reducer'.turns = reducer.turns /\ reducer'.activities = reducer.activities
          /\ reducer'.actions = reducer.actions
      BY <2>1, <2>3 DEF RefuseFrame, Fail, ReducerState
    <3> QED  BY <3>1, SameRecordsKept
  <2>4. ASSUME reducer' = Close(reducer) PROVE Keeps(reducer', reducer)
    <3>1. /\ reducer'.turns = reducer.turns /\ reducer'.activities = reducer.activities
          /\ reducer'.actions = reducer.actions
      BY <2>1, <2>4 DEF Close, ReducerState
    <3> QED  BY <3>1, SameRecordsKept
  <2>5. CASE reducer' = reducer
    BY <2>5 DEF Keeps
  <2> QED  BY <2>2, <2>3, <2>4, <2>5, StepKinds
<1> QED  BY <1>1, InitProjection, NextProjection, PTL DEF Spec, TerminalIsFinal

=============================================================================
