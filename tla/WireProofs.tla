------------------------------ MODULE WireProofs ------------------------------
(***************************************************************************)
(* The wire package: what Transport and SessionOutput promise, each of     *)
(* which keeps variables of its own.                                       *)
(*                                                                         *)
(* Opening publications take turns, and prompts are admitted behind all of *)
(* them, for every set of requests and sessions, and whatever the client   *)
(* asks.  The invariant follows the chain of previous channels: whoever is *)
(* earlier than a publication is over, or not later than its predecessor.  *)
(* Prompts keep their params: the record of a prompt whose handler runs is *)
(* in the queue, or a prompt like it took it.                              *)
(*                                                                         *)
(* What a host may rely on of the notifications, requests and reservations *)
(* of a session holds for every number of callers, attempts, events and    *)
(* operations.                                                             *)
(***************************************************************************)
EXTENDS Transport, SessionOutput, SequenceTheorems, TLAPS

SessionOf(id) == OpeningOf(id).session
PreviousOf(id) == OpeningOf(id).previous

IsOpening(id) == turn[id] # 0

Before(id, other) ==
  IsOpening(id) /\ turn[id] < turn[other] /\ SessionOf(id) = SessionOf(other)

(* How far the handler and the publication of a request are.               *)
InStep(id) ==
  /\ sent[id] = None =>
       turn[id] = 0 /\ requests[id] = None /\ handlers[id].at = "unread"
  /\ hooks[id] # None =>
       /\ publications[id] = None
       /\ hooks[id].hook = handlers[id].hook
  /\ publications[id] # None =>
       /\ hooks[id] = None
       /\ handlers[id].at = "answered"
       /\ publications[id].success = handlers[id].ok
       /\ publications[id].publication.hook = handlers[id].hook
       /\ Publishes(id) => handlers[id].ok
  /\ IsOpening(id) <=> hooks[id] # None \/ publications[id] # None

AllInStep == \A id \in Ids : InStep(id)

TurnsDiffer ==
  \A id, other \in Ids : IsOpening(id) /\ turn[id] = turn[other] => id = other

ClosedWhenDone == \A id \in Ids : id \in closed <=> Done(id)

(* ready names the last publication that is not over, *)
LastIsReady ==
  \A s \in Sessions : \A id \in Ids :
    IsOpening(id) /\ SessionOf(id) = s =>
      IF ready[s] = None THEN Done(id) ELSE turn[id] <= turn[ready[s]]

ReadyIsOpen ==
  \A s \in Sessions :
    ready[s] # None =>
      IsOpening(ready[s]) /\ SessionOf(ready[s]) = s /\ ~Done(ready[s])

(* a predecessor covers all who are earlier, *)
Covered ==
  \A id, other \in Ids :
    IsOpening(other) /\ Before(id, other) =>
      \/ Done(id)
      \/ PreviousOf(other) # None /\ turn[id] <= turn[PreviousOf(other)]

PredecessorIsOpening ==
  \A id, p \in Ids :
    IsOpening(id) /\ PreviousOf(id) = p => IsOpening(p) /\ SessionOf(p) = SessionOf(id)

(* and who has started has nobody before it. *)
StartedInTurn ==
  \A id, other \in Ids :
    (Publishes(other) \/ Done(other)) /\ Before(id, other) => Done(id)

Chain == /\ LastIsReady /\ ReadyIsOpen /\ Covered
         /\ PredecessorIsOpening /\ StartedInTurn

OpeningInv ==
  TypeOK /\ AllInStep /\ TurnsDiffer /\ ClosedWhenDone /\ (~cancelled => Chain)

-----------------------------------------------------------------------------
(* The steps of the transport, by what they do to openings. *)

(* A new transport (NewTransport) has read nothing and opened nothing.     *)
LEMMA InitInv == Init => OpeningInv
<1> SUFFICES ASSUME Init PROVE OpeningInv
  OBVIOUS
<1> USE TransportAssumption, NoneIsNoRecord
<1>1. TypeOK
  <2>1. Unread \in Handler
    BY DEF Unread, Handler
  <2>2. handlers \in [Ids -> Handler]
    BY <2>1 DEF Init
  <2>3. opened \in Nat /\ turn \in [Ids -> 0 .. opened]
    BY DEF Init
  <2>4. raw \in [Keys -> SUBSET Ids]
    BY DEF Init
  <2>5. \A id \in Ids : hooks[id] = None /\ turn[id] = 0
    BY DEF Init
  <2> QED
    BY <2>2, <2>3, <2>4, <2>5 DEF Init, TypeOK
<1>2. AllInStep
  BY DEF Init, AllInStep, InStep, IsOpening, Unread
<1>3. TurnsDiffer
  BY DEF Init, TurnsDiffer, IsOpening
<1>4. ClosedWhenDone
  BY DEF Init, ClosedWhenDone, Done
<1>5. Chain
  BY DEF Init, Chain, LastIsReady, ReadyIsOpen, Covered, PredecessorIsOpening,
         StartedInTurn, IsOpening, Before
<1> QED
  BY <1>1, <1>2, <1>3, <1>4, <1>5 DEF OpeningInv

(* A finished publication had started, or waited for its turn.             *)
FinishesInTurn(id) ==
  /\ Finish(id)
  /\ Waits(id) \/ Publishes(id)
  /\ ~cancelled /\ Waits(id) => ItsTurn(id)

(* Only RegisterHook, the observed response and publishOpening touch the   *)
(* openings, and Close is final.                                           *)
LEMMA Steps ==
  ASSUME [Next]_vars
  PROVE  \/ UNCHANGED openingVars /\ (cancelled => cancelled')
         \/ \E id \in Ids, s \in Sessions : RegisterHook(id, s)
         \/ \E id \in Ids : ObserveResponse(id)
         \/ \E id \in Ids : Publish(id)
         \/ \E id \in Ids : FinishesInTurn(id)
<1>1. CASE UNCHANGED vars
  BY <1>1 DEF vars, openingVars
<1>2. CASE Next
  <2>1. ASSUME NEW id \in Ids, NEW request, Read(id, request)
        PROVE  UNCHANGED openingVars /\ cancelled' = cancelled
    BY <2>1 DEF Read
  <2>2. ASSUME NEW id \in Ids, TakeRaw(id)
        PROVE  UNCHANGED openingVars /\ cancelled' = cancelled
    BY <2>2 DEF TakeRaw
  <2>3. ASSUME NEW id \in Ids, Answer(id)
        PROVE  UNCHANGED openingVars /\ cancelled' = cancelled
    BY <2>3 DEF Answer, Respond, LoseResponse
  <2>4. ASSUME NEW id \in Ids, AwaitSession(id) \/ AwaitClosed(id) \/ AwaitCancelled(id)
        PROVE  UNCHANGED openingVars /\ cancelled' = cancelled
    BY <2>4 DEF AwaitSession, AwaitClosed, AwaitCancelled, AwaitRefused
  <2>5. ASSUME NEW id \in Ids, Pass(id) \/ GiveUp(id) \/ HookReturns(id)
        PROVE  FinishesInTurn(id)
    BY <2>5 DEF Pass, GiveUp, HookReturns, FinishesInTurn, Waits, Publishes
  <2>6. CASE Close
    BY <2>6 DEF Close
  <2> QED
    BY <1>2, <2>1, <2>2, <2>3, <2>4, <2>5, <2>6 DEF Next
<1> QED
  BY <1>1, <1>2

-----------------------------------------------------------------------------
(* Types. *)

(* No handler, response or publication breaks the types, and a request has *)
(* a hook exactly from RegisterHook to the observation of its response.    *)
LEMMA TypeStep ==
  ASSUME TypeOK, AllInStep, [Next]_vars
  PROVE  TypeOK'
<1> USE TransportAssumption, OffersAssumption, NoneIsNoRecord
<1>1. CASE UNCHANGED vars
  BY <1>1 DEF vars, requestVars, openingVars, TypeOK
<1>2. ASSUME NEW id \in Ids, NEW request \in Offers[id], Read(id, request)
      PROVE  TypeOK'
  <2>1. request \in Request /\ request # None
    BY DEF Request
  <2>2. sent' \in [Ids -> Request \cup {None}] /\ requests' \in [Ids -> Request \cup {None}]
    BY <1>2, <2>1 DEF Read, TypeOK
  <2>3. handlers' \in [Ids -> Handler]
    <3>1. [handlers[id] EXCEPT !.at = "running"] \in Handler
      BY DEF TypeOK, Handler
    <3> QED
      BY <1>2, <3>1 DEF Read, TypeOK
  <2>4. raw' \in [Keys -> SUBSET Ids]
    BY <1>2 DEF Read, TypeOK
  <2>5. \A other \in Ids : hooks'[other] # None <=> turn'[other] # 0 /\ requests'[other] # None
    <3>1. turn[id] = 0
      BY <1>2 DEF Read, AllInStep, InStep
    <3> QED
      BY <1>2, <3>1 DEF Read, TypeOK, openingVars
  <2> QED
    BY <1>2, <2>2, <2>3, <2>4, <2>5 DEF Read, TypeOK, openingVars
<1>3. ASSUME NEW id \in Ids, TakeRaw(id)
      PROVE  TypeOK'
  <2> DEFINE candidates == Candidates(id, raw[KeyOf(sent[id])])
  <2>1. handlers' \in [Ids -> Handler] /\ raw' \in [Keys -> SUBSET Ids]
    <3>1. CASE handlers' = [handlers EXCEPT ![id].took = 0] /\ UNCHANGED raw
      <4>1. [handlers[id] EXCEPT !.took = 0] \in Handler
        BY DEF TypeOK, Handler
      <4> QED
        BY <3>1, <4>1 DEF TypeOK
    <3>2. ASSUME NEW record \in Oldest(candidates),
                 handlers' = [handlers EXCEPT ![id].took = record],
                 raw' = [raw EXCEPT ![KeyOf(sent[id])] = @ \ {record}]
          PROVE  handlers' \in [Ids -> Handler] /\ raw' \in [Keys -> SUBSET Ids]
      <4>1. KeyOf(sent[id]) \in Keys
        <5>1. sent[id] \in Request \cup {None}
          BY DEF TypeOK
        <5>2. Recorded(sent[id])
          BY <1>3 DEF TakeRaw
        <5>3. sent[id] # None
          BY <1>3 DEF TakeRaw, Running, AllInStep, InStep
        <5> QED
          BY <5>1, <5>2, <5>3 DEF KeyOf, Keys, Recorded, Request, Initialize
      <4>2. record \in Ids
        BY <3>2, <4>1 DEF Oldest, Candidates, TypeOK
      <4>3. [handlers[id] EXCEPT !.took = record] \in Handler
        <5> handlers[id] \in Handler
          BY DEF TypeOK
        <5> QED
          BY <4>2 DEF Handler
      <4> QED
        BY <3>2, <4>3 DEF TypeOK
    <3> QED
      BY <1>3, <3>1, <3>2 DEF TakeRaw
  <2> QED
    BY <1>3, <2>1 DEF TakeRaw, TypeOK, openingVars
<1>4. ASSUME NEW id \in Ids, NEW s \in Sessions, RegisterHook(id, s)
      PROVE  TypeOK'
  <2> DEFINE hook == handlers[id].hook + 1
  <2>1. hook \in Nat /\ handlers[id] \in Handler
    BY DEF TypeOK, Handler
  <2>2. handlers' \in [Ids -> Handler]
    <3>1. [handlers[id] EXCEPT !.hook = hook] \in Handler
      BY <2>1 DEF Handler
    <3> QED
      BY <1>4, <3>1 DEF RegisterHook, TypeOK
  <2>3. requests[id] # None
    BY <1>4 DEF RegisterHook, MayOpen
  <2>4. CASE hooks[id] # None
    <3>1. hooks[id] \in Publication
      BY <2>4 DEF TypeOK
    <3>2. [hooks[id] EXCEPT !.hook = hook] \in Publication
      BY <2>1, <3>1 DEF Publication
    <3>3. hooks' = [hooks EXCEPT ![id] = [hooks[id] EXCEPT !.hook = hook]]
      BY <1>4, <2>4 DEF RegisterHook, TypeOK
    <3>4. hooks' \in [Ids -> Publication \cup {None}]
      BY <3>2, <3>3 DEF TypeOK
    <3>5. \A other \in Ids : hooks'[other] # None <=> hooks[other] # None
      BY <2>4, <3>2, <3>3 DEF TypeOK
    <3> QED
      BY <1>4, <2>2, <2>4, <3>4, <3>5 DEF RegisterHook, TypeOK, requestVars
  <2>5. CASE hooks[id] = None
    <3>1. Chained(s, hook) \in Publication
      BY <2>1 DEF Chained, Publication, TypeOK
    <3>2. hooks' \in [Ids -> Publication \cup {None}]
      BY <1>4, <2>5, <3>1 DEF RegisterHook, TypeOK
    <3>3. opened' \in Nat /\ turn' \in [Ids -> 0 .. opened']
      BY <1>4, <2>5 DEF RegisterHook, TypeOK
    <3>4. ready' \in [Sessions -> Ids \cup {None}]
      BY <1>4, <2>5 DEF RegisterHook, TypeOK
    <3>5. \A other \in Ids : hooks'[other] # None <=> turn'[other] # 0 /\ requests'[other] # None
      BY <1>4, <2>3, <2>5, <3>1 DEF RegisterHook, TypeOK, requestVars
    <3> QED
      BY <1>4, <2>2, <3>2, <3>3, <3>4, <3>5 DEF RegisterHook, TypeOK, requestVars
  <2> QED
    BY <2>4, <2>5
<1>5. ASSUME NEW id \in Ids, Answer(id)
      PROVE  TypeOK'
  <2>1. handlers[id] \in Handler
    BY DEF TypeOK
  <2>2. [handlers[id] EXCEPT !.at = "lost"] \in Handler
    BY <2>1 DEF Handler
  <2>3. \A ok \in BOOLEAN : [handlers[id] EXCEPT !.at = "written", !.ok = ok] \in Handler
    BY <2>1 DEF Handler
  <2>4. handlers' \in [Ids -> Handler]
    <3>1. CASE LoseResponse(id)
      BY <2>2, <3>1 DEF LoseResponse, TypeOK
    <3>2. ASSUME NEW ok \in BOOLEAN, Respond(id, ok)
          PROVE  handlers' \in [Ids -> Handler]
      <4>1. [handlers[id] EXCEPT !.at = "written", !.ok = ok] \in Handler
        BY <2>3
      <4>2. handlers' = [handlers EXCEPT ![id] =
                           [handlers[id] EXCEPT !.at = "written", !.ok = ok]]
        BY <3>2 DEF Respond
      <4> QED
        BY <4>1, <4>2 DEF TypeOK
    <3> QED
      BY <1>5, <3>1, <3>2 DEF Answer, Outcomes
  <2> QED
    BY <1>5, <2>4 DEF Answer, LoseResponse, Respond, TypeOK, requestVars, openingVars
<1>6. ASSUME NEW id \in Ids, ObserveResponse(id)
      PROVE  TypeOK'
  <2>1. handlers' \in [Ids -> Handler]
    <3>1. [handlers[id] EXCEPT !.at = "answered"] \in Handler
      BY DEF TypeOK, Handler
    <3> QED
      BY <1>6, <3>1 DEF ObserveResponse, TypeOK
  <2>2. raw' \in [Keys -> SUBSET Ids]
    BY <1>6 DEF ObserveResponse, TypeOK
  <2>3. publications' \in [Ids -> Goroutine \cup {None}]
    <3>1. CASE hooks[id] = None
      BY <1>6, <3>1 DEF ObserveResponse, TypeOK
    <3>2. CASE hooks[id] # None
      <4>1. hooks[id] \in Publication /\ handlers[id].ok \in BOOLEAN
        BY <3>2 DEF TypeOK, Handler
      <4>2. [publication |-> hooks[id], success |-> handlers[id].ok, at |-> "waiting"]
              \in Goroutine
        BY <4>1 DEF Goroutine
      <4> QED
        BY <1>6, <3>2, <4>2 DEF ObserveResponse, TypeOK
    <3> QED
      BY <3>1, <3>2
  <2>4. hooks' \in [Ids -> Publication \cup {None}] /\ requests' \in [Ids -> Request \cup {None}]
    BY <1>6 DEF ObserveResponse, HooksAfter, TypeOK
  <2>5. \A other \in Ids : hooks'[other] # None <=> turn'[other] # 0 /\ requests'[other] # None
    BY <1>6 DEF ObserveResponse, HooksAfter, TypeOK
  <2> QED
    BY <1>6, <2>1, <2>2, <2>3, <2>4, <2>5 DEF ObserveResponse, TypeOK
<1>7. ASSUME NEW id \in Ids, Publish(id)
      PROVE  TypeOK'
  <2>1. publications[id] \in Goroutine
    BY <1>7 DEF Publish, Waits, TypeOK
  <2>2. [publications[id] EXCEPT !.at = "publishing"] \in Goroutine
    BY <2>1 DEF Goroutine
  <2>3. publications' \in [Ids -> Goroutine \cup {None}]
    BY <1>7, <2>2 DEF Publish, TypeOK
  <2> QED
    BY <1>7, <2>3 DEF Publish, TypeOK, requestVars
<1>8. ASSUME NEW id \in Ids, Finish(id), publications[id] # None
      PROVE  TypeOK'
  <2>1. publications[id] \in Goroutine
    BY <1>8 DEF TypeOK
  <2>2. [publications[id] EXCEPT !.at = "done"] \in Goroutine
    BY <2>1 DEF Goroutine
  <2>3. publications' \in [Ids -> Goroutine \cup {None}]
    BY <1>8, <2>2 DEF Finish, TypeOK
  <2>4. ready' \in [Sessions -> Ids \cup {None}] /\ closed' \subseteq Ids
    BY <1>8 DEF Finish, LastAfter, ClosedAfter, TypeOK
  <2> QED
    BY <1>8, <2>3, <2>4 DEF Finish, TypeOK, requestVars
<1>9. ASSUME NEW id \in Ids, AwaitSession(id) \/ AwaitRefused(id)
      PROVE  TypeOK'
  <2>1. handlers[id] \in Handler
    BY DEF TypeOK
  <2>2. [handlers[id] EXCEPT !.wait = "refused", !.on = None] \in Handler
    BY <2>1 DEF Handler
  <2>3. \A last \in Ids \cup {None} : Looked(id, last) \in Handler
    BY <2>1 DEF Looked, Handler
  <2>4. handlers' \in [Ids -> Handler]
    <3>1. CASE AwaitRefused(id)
      BY <2>2, <3>1 DEF AwaitRefused, TypeOK
    <3>2. CASE AwaitSession(id)
      <4>1. sent[id] \in Request /\ sent[id].method = "prompt"
        BY <3>2 DEF AwaitSession, TypeOK
      <4>2. sent[id].session \in Sessions
        BY <4>1 DEF Request, Initialize
      <4>3. ready[sent[id].session] \in Ids \cup {None}
        BY <4>2 DEF TypeOK
      <4> QED
        BY <2>3, <3>2, <4>3 DEF AwaitSession, TypeOK
    <3> QED
      BY <1>9, <3>1, <3>2
  <2> QED
    BY <1>9, <2>4 DEF AwaitSession, AwaitRefused, TypeOK, requestVars, openingVars
<1>10. CASE Close
  BY <1>10 DEF Close, TypeOK, requestVars, openingVars
<1> QED
  BY <1>1, <1>2, <1>3, <1>4, <1>5, <1>6, <1>7, <1>8, <1>9, <1>10
  DEF Next, Pass, GiveUp, HookReturns, Waits, Publishes, AwaitClosed, AwaitCancelled

-----------------------------------------------------------------------------
(* Handlers and publications keep step. *)

(* A request is answered before its publication starts, and what its       *)
(* handler registered last is what is published (observeOutboundFrame).    *)
LEMMA InStepStep ==
  ASSUME TypeOK, AllInStep, [Next]_vars
  PROVE  AllInStep'
<1> USE TransportAssumption, OffersAssumption, NoneIsNoRecord
<1> SUFFICES ASSUME NEW other \in Ids PROVE InStep(other)'
  BY DEF AllInStep
<1>0. InStep(other) /\ handlers[other] \in Handler
  BY DEF AllInStep, TypeOK
<1>1. CASE UNCHANGED vars
  BY <1>0, <1>1 DEF vars, requestVars, openingVars, InStep, IsOpening, Publishes
<1>2. ASSUME NEW id \in Ids, NEW request \in Offers[id], Read(id, request)
      PROVE  InStep(other)'
  <2>1. request # None
    OBVIOUS
  <2>2. CASE other = id
    BY <1>0, <1>2, <2>1, <2>2
    DEF Read, InStep, IsOpening, Publishes, openingVars, TypeOK, Handler
  <2>3. CASE other # id
    BY <1>0, <1>2, <2>3
    DEF Read, InStep, IsOpening, Publishes, openingVars, TypeOK, Handler
  <2> QED
    BY <2>2, <2>3
<1>3. ASSUME NEW id \in Ids,
             handlers'[other].at = handlers[other].at,
             handlers'[other].ok = handlers[other].ok,
             handlers'[other].hook = handlers[other].hook,
             UNCHANGED <<sent, requests, openingVars>>
      PROVE  InStep(other)'
  BY <1>0, <1>3 DEF InStep, IsOpening, Publishes, openingVars
<1>4. ASSUME NEW id \in Ids, TakeRaw(id) \/ AwaitSession(id) \/ AwaitRefused(id)
      PROVE  InStep(other)'
  <2>1. handlers[id] \in Handler
    BY DEF TypeOK
  <2>2. /\ handlers'[other].at = handlers[other].at
        /\ handlers'[other].ok = handlers[other].ok
        /\ handlers'[other].hook = handlers[other].hook
    <3>1. CASE TakeRaw(id)
      <4>1. PICK took : handlers' = [handlers EXCEPT ![id].took = took]
        BY <3>1 DEF TakeRaw
      <4> QED
        BY <1>0, <4>1 DEF Handler, TypeOK
    <3>2. CASE AwaitSession(id)
      <4>1. PICK last : handlers' = [handlers EXCEPT ![id] = Looked(id, last)]
        BY <3>2 DEF AwaitSession
      <4>2. /\ Looked(id, last).at = handlers[id].at
            /\ Looked(id, last).ok = handlers[id].ok
            /\ Looked(id, last).hook = handlers[id].hook
        BY <2>1 DEF Looked, Handler
      <4> QED
        BY <4>1, <4>2 DEF TypeOK
    <3>3. CASE AwaitRefused(id)
      BY <1>0, <3>3 DEF AwaitRefused, Handler, TypeOK
    <3> QED
      BY <1>4, <3>1, <3>2, <3>3
  <2>3. UNCHANGED <<sent, requests, openingVars>>
    BY <1>4 DEF TakeRaw, AwaitSession, AwaitRefused, requestVars
  <2> QED
    BY <1>3, <2>2, <2>3
<1>5. ASSUME NEW id \in Ids, NEW s \in Sessions, RegisterHook(id, s)
      PROVE  InStep(other)'
  <2> DEFINE hook == handlers[id].hook + 1
  <2>1. /\ sent[id] # None /\ requests[id] # None
        /\ handlers[id].at = "running" /\ publications[id] = None
    BY <1>5 DEF RegisterHook, MayOpen, Running, AllInStep, InStep
  <2>2. CASE other = id
    <3>1. handlers'[id].hook = hook /\ handlers'[id].at = "running"
      BY <1>0, <1>5, <2>1, <2>2 DEF RegisterHook, TypeOK, Handler
    <3>2. hooks'[id] # None /\ hooks'[id].hook = hook
      <4>1. CASE hooks[id] # None
        <5>1. hooks[id] \in Publication
          BY <4>1 DEF TypeOK
        <5>2. hooks'[id] = [hooks[id] EXCEPT !.hook = hook]
          BY <1>5, <4>1 DEF RegisterHook, TypeOK
        <5>3. hook \in Nat
          BY <1>0, <2>2 DEF Handler
        <5> QED
          BY <5>1, <5>2, <5>3 DEF Publication
      <4>2. CASE hooks[id] = None
        <5>1. hooks'[id] = Chained(s, hook)
          BY <1>5, <4>2 DEF RegisterHook, TypeOK
        <5>2. hook \in Nat
          BY <1>0, <2>2 DEF Handler
        <5> QED
          BY <5>1, <5>2 DEF Chained, Publication, TypeOK
      <4> QED
        BY <4>1, <4>2
    <3>3. turn'[id] # 0
      BY <1>0, <1>5, <2>2 DEF RegisterHook, InStep, IsOpening, TypeOK
    <3> QED
      BY <1>5, <2>1, <2>2, <3>1, <3>2, <3>3
      DEF RegisterHook, InStep, IsOpening, Publishes, requestVars
  <2>3. CASE other # id
    <3>1. handlers'[other] = handlers[other] /\ hooks'[other] = hooks[other]
            /\ turn'[other] = turn[other]
      BY <1>5, <2>3 DEF RegisterHook, TypeOK
    <3> QED
      BY <1>0, <1>5, <3>1 DEF RegisterHook, InStep, IsOpening, Publishes, requestVars
  <2> QED
    BY <2>2, <2>3
<1>6. ASSUME NEW id \in Ids, Answer(id)
      PROVE  InStep(other)'
  <2>1. sent[id] # None /\ publications[id] = None
    BY <1>6 DEF Answer, LoseResponse, Respond, Running, AllInStep, InStep
  <2>2. UNCHANGED <<sent, requests, openingVars>>
    BY <1>6 DEF Answer, LoseResponse, Respond, requestVars
  <2>3. CASE other = id
    <3>1. \/ handlers'[id] = [handlers[id] EXCEPT !.at = "lost"]
          \/ \E ok : handlers'[id] = [handlers[id] EXCEPT !.at = "written", !.ok = ok]
      <4>1. CASE LoseResponse(id)
        BY <4>1 DEF LoseResponse, TypeOK
      <4>2. ASSUME NEW ok, Respond(id, ok)
            PROVE  handlers'[id] = [handlers[id] EXCEPT !.at = "written", !.ok = ok]
        <5>1. handlers' = [handlers EXCEPT ![id] =
                             [handlers[id] EXCEPT !.at = "written", !.ok = ok]]
          BY <4>2 DEF Respond
        <5> QED
          BY <5>1 DEF TypeOK
      <4> QED
        BY <1>6, <4>1, <4>2 DEF Answer
    <3>2. handlers'[id].hook = handlers[id].hook
      BY <1>0, <2>3, <3>1 DEF Handler
    <3> QED
      BY <1>0, <2>1, <2>2, <2>3, <3>2 DEF InStep, IsOpening, Publishes, openingVars
  <2>4. CASE other # id
    <3>1. handlers'[other] = handlers[other]
      BY <1>6, <2>4 DEF Answer, LoseResponse, Respond, TypeOK
    <3> QED
      BY <1>0, <2>2, <3>1 DEF InStep, IsOpening, Publishes, openingVars
  <2> QED
    BY <2>3, <2>4
<1>7. ASSUME NEW id \in Ids, ObserveResponse(id)
      PROVE  InStep(other)'
  <2>1. sent[id] # None /\ publications[id] = None
    BY <1>7 DEF ObserveResponse, AllInStep, InStep
  <2>2. CASE other = id
    <3>1. /\ handlers'[id].at = "answered"
          /\ handlers'[id].ok = handlers[id].ok
          /\ handlers'[id].hook = handlers[id].hook
      BY <1>0, <1>7, <2>2 DEF ObserveResponse, TypeOK, Handler
    <3>2. hooks'[id] = None /\ turn'[id] = turn[id] /\ sent'[id] # None
      BY <1>7, <2>1 DEF ObserveResponse, HooksAfter, TypeOK
    <3>3. CASE hooks[id] = None
      BY <1>0, <1>7, <2>1, <2>2, <3>1, <3>2, <3>3
      DEF ObserveResponse, InStep, IsOpening, Publishes, TypeOK
    <3>4. CASE hooks[id] # None
      <4>1. publications'[id] = [publication |-> hooks[id],
                                 success |-> handlers[id].ok, at |-> "waiting"]
        BY <1>7, <3>4 DEF ObserveResponse, TypeOK
      <4>2. publications'[id] \in Goroutine
        <5>1. hooks[id] \in Publication /\ handlers[id].ok \in BOOLEAN
          BY <3>4 DEF TypeOK, Handler
        <5> QED
          BY <4>1, <5>1 DEF Goroutine
      <4> QED
        BY <1>0, <2>2, <3>1, <3>2, <3>4, <4>1, <4>2 DEF InStep, IsOpening, Publishes
    <3> QED
      BY <3>3, <3>4
  <2>3. CASE other # id
    <3>1. /\ handlers'[other] = handlers[other] /\ hooks'[other] = hooks[other]
          /\ publications'[other] = publications[other]
          /\ requests'[other] = requests[other]
      BY <1>7, <2>3 DEF ObserveResponse, HooksAfter, TypeOK
    <3> QED
      BY <1>0, <1>7, <3>1 DEF ObserveResponse, InStep, IsOpening, Publishes
  <2> QED
    BY <2>2, <2>3
<1>8. ASSUME NEW id \in Ids, publications[id] # None,
             \/ publications' = [publications EXCEPT ![id].at = "done"]
             \/ /\ publications[id].success
                /\ publications' = [publications EXCEPT ![id].at = "publishing"],
             UNCHANGED <<requestVars, handlers, hooks, turn>>
      PROVE  InStep(other)'
  <2>1. CASE other = id
    <3>1. publications[id] \in Goroutine
      BY <1>8 DEF TypeOK
    <3>2. /\ publications'[id] \in Goroutine
          /\ publications'[id].success = publications[id].success
          /\ publications'[id].publication = publications[id].publication
          /\ publications'[id].at = "publishing" => publications[id].success
      BY <1>8, <3>1 DEF Goroutine, TypeOK
    <3> QED
      BY <1>0, <1>8, <2>1, <3>2 DEF InStep, IsOpening, Publishes, requestVars
  <2>2. CASE other # id
    <3>1. publications'[other] = publications[other]
      BY <1>8, <2>2 DEF TypeOK
    <3> QED
      BY <1>0, <1>8, <3>1 DEF InStep, IsOpening, Publishes, requestVars
  <2> QED
    BY <2>1, <2>2
<1>9. ASSUME NEW id \in Ids, Publish(id) \/ Finish(id), publications[id] # None
      PROVE  InStep(other)'
  <2>1. CASE Publish(id)
    <3>1. UNCHANGED <<requestVars, handlers, hooks, turn>>
      BY <2>1 DEF Publish
    <3>2. publications[id].success
            /\ publications' = [publications EXCEPT ![id].at = "publishing"]
      BY <2>1 DEF Publish
    <3> QED
      BY <1>8, <1>9, <3>1, <3>2
  <2>2. CASE Finish(id)
    <3>1. UNCHANGED <<requestVars, handlers, hooks, turn>>
      BY <2>2 DEF Finish
    <3>2. publications' = [publications EXCEPT ![id].at = "done"]
      BY <2>2 DEF Finish
    <3> QED
      BY <1>8, <1>9, <3>1, <3>2
  <2> QED
    BY <1>9, <2>1, <2>2
<1>10. CASE Close
  BY <1>0, <1>10 DEF Close, InStep, IsOpening, Publishes, requestVars, openingVars
<1> QED
  BY <1>1, <1>2, <1>4, <1>5, <1>6, <1>7, <1>9, <1>10
  DEF Next, Publish, Pass, GiveUp, HookReturns, Waits, Publishes, AwaitClosed, AwaitCancelled

-----------------------------------------------------------------------------
(* The chain of one session. *)

(* What an opening was registered with stays, through its response and its *)
(* publication.                                                            *)
LEMMA OpeningsKept ==
  ASSUME TypeOK, AllInStep, NEW id \in Ids,
         \/ \E s \in Sessions : RegisterHook(id, s) /\ hooks[id] # None
         \/ ObserveResponse(id)
         \/ publications[id] # None /\ (Publish(id) \/ Finish(id))
  PROVE  /\ turn' = turn
         /\ \A o \in Ids : IsOpening(o) =>
              SessionOf(o)' = SessionOf(o) /\ PreviousOf(o)' = PreviousOf(o)
<1> SUFFICES ASSUME NEW o \in Ids, IsOpening(o)
             PROVE  /\ turn' = turn
                    /\ OpeningOf(o)'.session = OpeningOf(o).session
                    /\ OpeningOf(o)'.previous = OpeningOf(o).previous
  BY DEF SessionOf, PreviousOf, RegisterHook, ObserveResponse, Publish, Finish
<1> USE NoneIsNoRecord
<1>0. InStep(o) /\ InStep(id)
  BY DEF AllInStep
<1>1. ASSUME NEW s \in Sessions, RegisterHook(id, s), hooks[id] # None
      PROVE  /\ turn' = turn
             /\ OpeningOf(o)'.session = OpeningOf(o).session
             /\ OpeningOf(o)'.previous = OpeningOf(o).previous
  <2>1. turn' = turn /\ publications' = publications
    BY <1>1 DEF RegisterHook
  <2>2. CASE o = id
    <3>1. hooks[id] \in Publication /\ handlers[id].hook + 1 \in Nat
      BY <1>1 DEF TypeOK, Handler
    <3>2. hooks'[id] = [hooks[id] EXCEPT !.hook = handlers[id].hook + 1]
      BY <1>1 DEF RegisterHook, TypeOK
    <3>3. hooks'[id] \in Publication
      BY <3>1, <3>2 DEF Publication
    <3>4. hooks'[id].session = hooks[id].session /\ hooks'[id].previous = hooks[id].previous
      BY <3>1, <3>2 DEF Publication
    <3> QED
      BY <1>1, <2>1, <2>2, <3>3, <3>4 DEF OpeningOf
  <2>3. CASE o # id
    <3>1. hooks'[o] = hooks[o]
      BY <1>1, <2>3 DEF RegisterHook, TypeOK
    <3> QED
      BY <2>1, <3>1 DEF OpeningOf
  <2> QED
    BY <2>2, <2>3
<1>2. CASE ObserveResponse(id)
  <2>1. turn' = turn
    BY <1>2 DEF ObserveResponse
  <2>2. CASE o = id
    <3>1. publications[id] = None
      BY <1>0, <1>2 DEF ObserveResponse, InStep
    <3>2. hooks[id] # None
      BY <1>0, <2>2, <3>1 DEF InStep
    <3>3. hooks'[id] = None /\ publications'[id].publication = hooks[id]
      BY <1>2, <3>2 DEF ObserveResponse, HooksAfter, TypeOK
    <3> QED
      BY <2>1, <2>2, <3>2, <3>3 DEF OpeningOf
  <2>3. CASE o # id
    <3>1. hooks'[o] = hooks[o] /\ publications'[o] = publications[o]
      BY <1>2, <2>3 DEF ObserveResponse, HooksAfter, TypeOK
    <3> QED
      BY <2>1, <3>1 DEF OpeningOf
  <2> QED
    BY <2>2, <2>3
<1>3. CASE publications[id] # None /\ (Publish(id) \/ Finish(id))
  <2>1. turn' = turn /\ hooks' = hooks
    BY <1>3 DEF Publish, Finish
  <2>2. publications'[o] = publications[o]
          \/ publications'[o].publication = publications[o].publication
    <3>1. publications[id] \in Goroutine
      BY <1>3 DEF TypeOK
    <3>2. CASE o = id
      BY <1>3, <3>1, <3>2 DEF Publish, Finish, TypeOK, Goroutine
    <3>3. CASE o # id
      BY <1>3, <3>3 DEF Publish, Finish, TypeOK
    <3> QED
      BY <3>2, <3>3
  <2> QED
    BY <2>1, <2>2 DEF OpeningOf
<1> QED
  BY <1>1, <1>2, <1>3

(* Nothing that the chain speaks of changes, but perhaps who publishes.    *)
LEMMA ChainKept ==
  ASSUME TurnsDiffer, ClosedWhenDone, ~cancelled => Chain,
         turn' = turn, ready' = ready, closed' = closed, cancelled => cancelled',
         \A o \in Ids : IsOpening(o) =>
           SessionOf(o)' = SessionOf(o) /\ PreviousOf(o)' = PreviousOf(o),
         \A o \in Ids : Done(o)' <=> Done(o),
         \A o \in Ids : Publishes(o)' /\ ~Publishes(o) /\ ~cancelled =>
           \A e \in Ids : Before(e, o) => Done(e),
         \A o \in Ids : Publishes(o) \/ Done(o) \/ Publishes(o)' => IsOpening(o),
         TransportAssumption,
         ready \in [Sessions -> Ids \cup {None}],
         \A o \in Ids : IsOpening(o) => PreviousOf(o) \in Ids \cup {None}
  PROVE  TurnsDiffer' /\ ClosedWhenDone' /\ (~cancelled' => Chain')
<1>1. TurnsDiffer'
  BY DEF TurnsDiffer, IsOpening
<1>2. ClosedWhenDone'
  BY DEF ClosedWhenDone
<1> SUFFICES ASSUME ~cancelled' PROVE Chain'
  BY <1>1, <1>2
<1>0. Chain /\ ~cancelled
  OBVIOUS
<1>3. \A e, o \in Ids : IsOpening(o) /\ Before(e, o)' => Before(e, o)
  BY DEF Before, IsOpening
<1>4. LastIsReady'
  BY <1>0 DEF Chain, LastIsReady, IsOpening
<1>5. ReadyIsOpen'
  BY <1>0 DEF Chain, ReadyIsOpen, IsOpening
<1>6. Covered'
  BY <1>0, <1>3 DEF Chain, Covered, IsOpening
<1>7. PredecessorIsOpening'
  BY <1>0 DEF Chain, PredecessorIsOpening, IsOpening
<1>8. StartedInTurn'
  BY <1>0, <1>3 DEF Chain, StartedInTurn
<1> QED
  BY <1>4, <1>5, <1>6, <1>7, <1>8 DEF Chain

(* Every opening belongs to a session, and its previous channel is none or *)
(* that of a request (RegisterHook).                                       *)
LEMMA OpeningTyped ==
  ASSUME TypeOK, AllInStep, NEW id \in Ids, IsOpening(id)
  PROVE  SessionOf(id) \in Sessions /\ PreviousOf(id) \in Ids \cup {None}
<1>1. hooks[id] # None \/ publications[id] # None
  BY DEF AllInStep, InStep
<1>2. OpeningOf(id) \in Publication
  BY <1>1 DEF OpeningOf, TypeOK, Goroutine
<1> QED
  BY <1>2 DEF SessionOf, PreviousOf, Publication

(* When its turn comes, all that are earlier are over.                     *)
LEMMA InTurn ==
  ASSUME TypeOK, AllInStep, TurnsDiffer, ClosedWhenDone, Chain,
         NEW id \in Ids, IsOpening(id),
         Publishes(id) \/ (publications[id] # None /\ ItsTurn(id)),
         NEW e \in Ids, Before(e, id)
  PROVE  Done(e)
<1>1. CASE Publishes(id)
  BY <1>1 DEF Chain, StartedInTurn
<1>2. CASE publications[id] # None /\ ItsTurn(id)
  <2>1. PreviousOf(id) \in {None} \cup closed
    BY <1>2 DEF ItsTurn, PreviousOf, OpeningOf, AllInStep, InStep
  <2>2. Done(e) \/ (PreviousOf(id) # None /\ turn[e] <= turn[PreviousOf(id)])
    BY DEF Chain, Covered
  <2>3. CASE PreviousOf(id) # None /\ turn[e] <= turn[PreviousOf(id)]
    <3> DEFINE p == PreviousOf(id)
    <3>1. p \in Ids /\ IsOpening(p) /\ SessionOf(p) = SessionOf(id)
      BY <2>3, OpeningTyped DEF Chain, PredecessorIsOpening
    <3>2. Done(p)
      BY <2>1, <2>3, <3>1 DEF ClosedWhenDone
    <3>3. turn[e] = turn[p] \/ turn[e] < turn[p]
      BY <2>3, <3>1 DEF TypeOK
    <3>4. CASE turn[e] = turn[p]
      BY <3>1, <3>2, <3>4 DEF TurnsDiffer, Before
    <3>5. CASE turn[e] < turn[p]
      <4>1. Before(e, p)
        BY <3>1, <3>5 DEF Before
      <4> QED
        BY <3>1, <3>2, <4>1 DEF Chain, StartedInTurn
    <3> QED
      BY <3>3, <3>4, <3>5
  <2> QED
    BY <2>2, <2>3
<1> QED
  BY <1>1, <1>2

(* A new opening comes last, behind the one that ready names.              *)
LEMMA RegisterStep ==
  ASSUME OpeningInv, NEW id \in Ids, NEW s \in Sessions,
         RegisterHook(id, s), hooks[id] = None
  PROVE  TurnsDiffer' /\ ClosedWhenDone' /\ (~cancelled' => Chain')
<1> USE TransportAssumption, NoneIsNoRecord DEF OpeningInv
<1>1. publications[id] = None /\ turn[id] = 0
  BY DEF RegisterHook, Running, AllInStep, InStep, IsOpening
<1>2. /\ turn' = [turn EXCEPT ![id] = opened + 1]
      /\ ready' = [ready EXCEPT ![s] = id]
      /\ UNCHANGED <<publications, closed, cancelled>>
  BY DEF RegisterHook
<1>3. opened \in Nat /\ \A o \in Ids : turn[o] \in Nat /\ turn[o] < opened + 1
  BY DEF TypeOK
<1>4. IsOpening(id)' /\ SessionOf(id)' = s /\ PreviousOf(id)' = ready[s]
  <2>1. handlers[id].hook + 1 \in Nat
    BY DEF TypeOK, Handler
  <2>2. hooks'[id] = Chained(s, handlers[id].hook + 1)
    BY DEF RegisterHook, TypeOK
  <2>3. hooks'[id] \in Publication
    BY <2>1, <2>2 DEF Chained, Publication, TypeOK
  <2>4. turn'[id] # 0
    BY <1>2 DEF TypeOK
  <2> QED
    BY <2>2, <2>3, <2>4 DEF SessionOf, PreviousOf, OpeningOf, IsOpening, Chained
<1>5. \A o \in Ids : o # id =>
        /\ turn'[o] = turn[o]
        /\ SessionOf(o)' = SessionOf(o) /\ PreviousOf(o)' = PreviousOf(o)
  BY <1>2 DEF RegisterHook, SessionOf, PreviousOf, OpeningOf, TypeOK
<1>6. \A o \in Ids : (Done(o)' <=> Done(o)) /\ (Publishes(o)' <=> Publishes(o))
  BY <1>2 DEF Done, Publishes
<1>7. ~Done(id) /\ ~Publishes(id)
  BY <1>1 DEF Done, Publishes
<1>8. \A o \in Ids : IsOpening(o)' <=> IsOpening(o) \/ o = id
  BY <1>4, <1>5 DEF IsOpening
<1>9. TurnsDiffer'
  BY <1>2, <1>3, <1>5, <1>8 DEF TurnsDiffer, IsOpening, TypeOK
<1>10. ClosedWhenDone'
  BY <1>2, <1>6 DEF ClosedWhenDone
<1> SUFFICES ASSUME ~cancelled' PROVE Chain'
  BY <1>9, <1>10
<1>11. Chain
  BY <1>2
<1>12. turn'[id] = opened + 1
  BY <1>2 DEF TypeOK
<1>13. \A e, o \in Ids : o # id /\ Before(e, o)' => e # id /\ Before(e, o)
  BY <1>3, <1>5, <1>12 DEF Before, IsOpening
<1>14. \A r \in Sessions : ready'[r] = IF r = s THEN id ELSE ready[r]
  BY <1>2 DEF TypeOK
<1>15. \A r \in Sessions : ready[r] # None =>
         ready[r] \in Ids /\ ready[r] # id
  BY <1>1, <1>11 DEF Chain, ReadyIsOpen, IsOpening, TypeOK
<1>16. LastIsReady'
  <2> SUFFICES ASSUME NEW r \in Sessions, NEW o \in Ids, IsOpening(o)', SessionOf(o)' = r
               PROVE  IF ready'[r] = None THEN Done(o)' ELSE turn'[o] <= turn'[ready'[r]]
    BY DEF LastIsReady
  <2>1. CASE r = s
    BY <1>3, <1>5, <1>12, <1>14, <2>1
  <2>2. CASE r # s
    <3>1. o # id
      BY <1>4, <2>2
    <3> QED
      BY <1>5, <1>6, <1>8, <1>11, <1>14, <1>15, <2>2, <3>1 DEF Chain, LastIsReady
  <2> QED
    BY <2>1, <2>2
<1>17. ReadyIsOpen'
  BY <1>4, <1>5, <1>6, <1>7, <1>8, <1>11, <1>14, <1>15 DEF Chain, ReadyIsOpen
<1>18. Covered'
  <2> SUFFICES ASSUME NEW e \in Ids, NEW o \in Ids, IsOpening(o)', Before(e, o)'
               PROVE  \/ Done(e)'
                      \/ PreviousOf(o)' # None /\ turn'[e] <= turn'[PreviousOf(o)']
    BY DEF Covered
  <2>1. CASE o = id
    <3>1. e # id /\ IsOpening(e) /\ SessionOf(e) = s
      BY <1>3, <1>4, <1>5, <1>12, <2>1 DEF Before, IsOpening
    <3>2. IF ready[s] = None THEN Done(e) ELSE turn[e] <= turn[ready[s]]
      BY <1>11, <3>1 DEF Chain, LastIsReady
    <3> QED
      BY <1>4, <1>5, <1>6, <1>15, <2>1, <3>1, <3>2
  <2>2. CASE o # id
    <3>1. e # id /\ Before(e, o) /\ IsOpening(o)
      BY <1>8, <1>13, <2>2
    <3>2. Done(e) \/ (PreviousOf(o) # None /\ turn[e] <= turn[PreviousOf(o)])
      BY <1>11, <3>1 DEF Chain, Covered
    <3>3. PreviousOf(o) # None => PreviousOf(o) \in Ids /\ PreviousOf(o) # id
      BY <1>1, <1>11, <3>1, OpeningTyped DEF Chain, PredecessorIsOpening, IsOpening
    <3> QED
      BY <1>5, <1>6, <2>2, <3>1, <3>2, <3>3
  <2> QED
    BY <2>1, <2>2
<1>19. PredecessorIsOpening'
  <2> SUFFICES ASSUME NEW o \in Ids, NEW p \in Ids, IsOpening(o)', PreviousOf(o)' = p
               PROVE  IsOpening(p)' /\ SessionOf(p)' = SessionOf(o)'
    BY DEF PredecessorIsOpening
  <2>1. CASE o = id
    <3>1. p = ready[s] /\ p # None /\ p # id
      BY <1>4, <1>15, <2>1
    <3>2. IsOpening(p) /\ SessionOf(p) = s
      BY <1>11, <3>1 DEF Chain, ReadyIsOpen
    <3> QED
      BY <1>4, <1>5, <1>8, <2>1, <3>1, <3>2
  <2>2. CASE o # id
    <3>1. IsOpening(p) /\ SessionOf(p) = SessionOf(o)
      BY <1>5, <1>8, <1>11, <2>2 DEF Chain, PredecessorIsOpening
    <3>2. p # id
      BY <1>1, <3>1 DEF IsOpening
    <3> QED
      BY <1>5, <1>8, <2>2, <3>1, <3>2
  <2> QED
    BY <2>1, <2>2
<1>20. StartedInTurn'
  BY <1>6, <1>7, <1>11, <1>13 DEF Chain, StartedInTurn
<1> QED
  BY <1>16, <1>17, <1>18, <1>19, <1>20 DEF Chain

(* A publication that is over opens its channel, and is no longer the last. *)
LEMMA FinishStep ==
  ASSUME OpeningInv, NEW id \in Ids, FinishesInTurn(id)
  PROVE  TurnsDiffer' /\ ClosedWhenDone' /\ (~cancelled' => Chain')
<1> USE TransportAssumption, NoneIsNoRecord DEF OpeningInv
<1>1. Finish(id) /\ publications[id] # None /\ ~Done(id) /\ IsOpening(id)
  BY DEF FinishesInTurn, Waits, Publishes, Done, AllInStep, InStep
<1>2. /\ turn' = turn
      /\ \A o \in Ids : IsOpening(o) =>
           SessionOf(o)' = SessionOf(o) /\ PreviousOf(o)' = PreviousOf(o)
  BY <1>1, OpeningsKept
<1>3. \A o \in Ids : IsOpening(o)' <=> IsOpening(o)
  BY <1>2 DEF IsOpening
<1>4. publications' = [publications EXCEPT ![id].at = "done"] /\ closed' = closed \cup {id}
  BY <1>1 DEF Finish, ClosedAfter
<1>5. publications[id] \in Goroutine
  BY <1>1 DEF TypeOK
<1>6. publications'[id] = [publications[id] EXCEPT !.at = "done"]
  BY <1>4 DEF TypeOK
<1>7. publications'[id] \in Goroutine /\ publications'[id].at = "done"
  BY <1>5, <1>6 DEF Goroutine
<1>8. \A o \in Ids : o # id => publications'[o] = publications[o]
  BY <1>4 DEF TypeOK
<1>9. \A o \in Ids : Done(o)' <=> Done(o) \/ o = id
  BY <1>7, <1>8 DEF Done
<1>10. \A o \in Ids : Publishes(o)' => Publishes(o)
  BY <1>7, <1>8 DEF Publishes
<1>11. TurnsDiffer'
  BY <1>2 DEF TurnsDiffer, IsOpening
<1>12. ClosedWhenDone'
  BY <1>4, <1>9 DEF ClosedWhenDone
<1> SUFFICES ASSUME ~cancelled' PROVE Chain'
  BY <1>11, <1>12
<1>13. ~cancelled /\ Chain
  BY <1>1 DEF Finish
<1>14. \A e, o \in Ids : Before(e, o)' <=> IsOpening(e) /\ turn[e] < turn[o]
                                             /\ SessionOf(e) = SessionOf(o)'
  BY <1>2, <1>3 DEF Before
<1>15. \A e, o \in Ids : IsOpening(o) => (Before(e, o)' <=> Before(e, o))
  BY <1>2, <1>14 DEF Before
<1>16. \A e \in Ids : Before(e, id) => Done(e)
  <2>1. Publishes(id) \/ (publications[id] # None /\ ItsTurn(id))
    BY <1>13 DEF FinishesInTurn, Waits
  <2> QED
    BY <1>1, <1>13, <2>1, InTurn
<1>17. SessionOf(id) = publications[id].publication.session /\ SessionOf(id) \in Sessions
  BY <1>1, OpeningTyped DEF SessionOf, OpeningOf, AllInStep, InStep
<1>18. \A r \in Sessions :
         ready'[r] = IF r = SessionOf(id) /\ ready[r] = id THEN None ELSE ready[r]
  BY <1>1, <1>17 DEF Finish, LastAfter, TypeOK
<1>19. LastIsReady'
  <2> SUFFICES ASSUME NEW r \in Sessions, NEW o \in Ids, IsOpening(o), SessionOf(o) = r
               PROVE  IF ready'[r] = None THEN Done(o)' ELSE turn'[o] <= turn'[ready'[r]]
    BY <1>2, <1>3 DEF LastIsReady
  <2>1. IF ready[r] = None THEN Done(o) ELSE turn[o] <= turn[ready[r]]
    BY <1>13 DEF Chain, LastIsReady
  <2>2. CASE r = SessionOf(id) /\ ready[r] = id
    <3>1. turn[o] = turn[id] \/ turn[o] < turn[id]
      BY <2>1, <2>2 DEF TypeOK
    <3>2. o = id \/ Before(o, id)
      BY <2>2, <3>1 DEF TurnsDiffer, Before
    <3> QED
      BY <1>9, <1>16, <1>18, <2>2, <3>2
  <2>3. CASE ~(r = SessionOf(id) /\ ready[r] = id)
    BY <1>2, <1>9, <1>18, <2>1, <2>3
  <2> QED
    BY <2>2, <2>3
<1>20. ReadyIsOpen'
  <2>1. \A r \in Sessions : ready'[r] # None =>
          /\ ready'[r] = ready[r] /\ ready[r] \in Ids /\ ready[r] # id
          /\ IsOpening(ready[r]) /\ SessionOf(ready[r]) = r /\ ~Done(ready[r])
    <3>1. \A r \in Sessions : ready[r] # None =>
            /\ ready[r] \in Ids
            /\ IsOpening(ready[r]) /\ SessionOf(ready[r]) = r /\ ~Done(ready[r])
      BY <1>13 DEF Chain, ReadyIsOpen, TypeOK
    <3> QED
      BY <1>18, <3>1
  <2> QED
    BY <1>2, <1>3, <1>9, <2>1 DEF ReadyIsOpen
<1>21. Covered'
  <2> SUFFICES ASSUME NEW e \in Ids, NEW o \in Ids, IsOpening(o)', Before(e, o)'
               PROVE  \/ Done(e)'
                      \/ PreviousOf(o)' # None /\ turn'[e] <= turn'[PreviousOf(o)']
    BY DEF Covered
  <2>1. IsOpening(o) /\ Before(e, o)
    BY <1>3, <1>15
  <2>2. Done(e) \/ (PreviousOf(o) # None /\ turn[e] <= turn[PreviousOf(o)])
    BY <1>13, <2>1 DEF Chain, Covered
  <2> QED
    BY <1>2, <1>9, <2>1, <2>2
<1>22. PredecessorIsOpening'
  BY <1>2, <1>3, <1>13 DEF Chain, PredecessorIsOpening
<1>23. StartedInTurn'
  <2> SUFFICES ASSUME NEW e \in Ids, NEW o \in Ids, Publishes(o)' \/ Done(o)', Before(e, o)'
               PROVE  Done(e)'
    BY DEF StartedInTurn
  <2>1. Publishes(o) \/ Done(o) \/ o = id
    BY <1>9, <1>10
  <2>2. IsOpening(o)
    BY <1>1, <2>1 DEF Publishes, Done, AllInStep, InStep
  <2>3. Before(e, o)
    BY <1>15, <2>2
  <2> QED
    BY <1>9, <1>13, <1>16, <2>1, <2>3 DEF Chain, StartedInTurn
<1> QED
  BY <1>19, <1>20, <1>21, <1>22, <1>23 DEF Chain

-----------------------------------------------------------------------------
(* The theorems. *)

(* Every step of the transport keeps the invariant: the chain of channels  *)
(* of publishOpening, with what RegisterHook and Close do to it.           *)
LEMMA OpeningInvStep ==
  ASSUME OpeningInv, [Next]_vars
  PROVE  OpeningInv'
<1> USE TransportAssumption DEF OpeningInv
<1>1. TypeOK' /\ AllInStep'
  BY TypeStep, InStepStep
<1> SUFFICES TurnsDiffer' /\ ClosedWhenDone' /\ (~cancelled' => Chain')
  BY <1>1
<1>2. ready \in [Sessions -> Ids \cup {None}]
  BY DEF TypeOK
<1>3. \A o \in Ids : IsOpening(o) => PreviousOf(o) \in Ids \cup {None}
  BY OpeningTyped
<1>4. \A o \in Ids : Publishes(o) \/ Done(o) => IsOpening(o)
  BY DEF Publishes, Done, AllInStep, InStep
<1>5. CASE UNCHANGED openingVars /\ (cancelled => cancelled')
  <2>1. \A o \in Ids : SessionOf(o)' = SessionOf(o) /\ PreviousOf(o)' = PreviousOf(o)
    BY <1>5 DEF openingVars, SessionOf, PreviousOf, OpeningOf
  <2>2. \A o \in Ids : (Done(o)' <=> Done(o)) /\ (Publishes(o)' <=> Publishes(o))
    BY <1>5 DEF openingVars, Done, Publishes
  <2> QED
    BY <1>2, <1>3, <1>4, <1>5, <2>1, <2>2, ChainKept DEF openingVars
<1>6. ASSUME NEW id \in Ids, NEW s \in Sessions, RegisterHook(id, s)
      PROVE  TurnsDiffer' /\ ClosedWhenDone' /\ (~cancelled' => Chain')
  <2>1. CASE hooks[id] = None
    BY <1>6, <2>1, RegisterStep
  <2>2. CASE hooks[id] # None
    <3>1. UNCHANGED <<ready, publications, closed, cancelled>>
      BY <1>6, <2>2 DEF RegisterHook
    <3>2. \A o \in Ids : (Done(o)' <=> Done(o)) /\ (Publishes(o)' <=> Publishes(o))
      BY <3>1 DEF Done, Publishes
    <3>3. /\ turn' = turn
          /\ \A o \in Ids : IsOpening(o) =>
               SessionOf(o)' = SessionOf(o) /\ PreviousOf(o)' = PreviousOf(o)
      BY <1>6, <2>2, OpeningsKept
    <3> QED
      BY <1>2, <1>3, <1>4, <3>1, <3>2, <3>3, ChainKept
  <2> QED
    BY <2>1, <2>2
<1>7. ASSUME NEW id \in Ids, ObserveResponse(id)
      PROVE  TurnsDiffer' /\ ClosedWhenDone' /\ (~cancelled' => Chain')
  <2>1. UNCHANGED <<ready, closed, cancelled>>
    BY <1>7 DEF ObserveResponse
  <2>2. \A o \in Ids : (Done(o)' <=> Done(o)) /\ (Publishes(o)' <=> Publishes(o))
    <3>1. publications[id] = None
      BY <1>7 DEF ObserveResponse, AllInStep, InStep
    <3>2. CASE hooks[id] = None
      BY <1>7, <3>2 DEF ObserveResponse, Done, Publishes
    <3>3. CASE hooks[id] # None
      <4> DEFINE started == [publication |-> hooks[id], success |-> handlers[id].ok,
                             at |-> "waiting"]
      <4>1. publications' = [publications EXCEPT ![id] = started]
        BY <1>7, <3>3 DEF ObserveResponse
      <4>2. started.at = "waiting"
        OBVIOUS
      <4> HIDE DEF started
      <4> QED
        BY <3>1, <4>1, <4>2 DEF Done, Publishes, TypeOK
    <3> QED
      BY <3>2, <3>3
  <2>3. /\ turn' = turn
        /\ \A o \in Ids : IsOpening(o) =>
             SessionOf(o)' = SessionOf(o) /\ PreviousOf(o)' = PreviousOf(o)
    BY <1>7, OpeningsKept
  <2> QED
    BY <1>2, <1>3, <1>4, <2>1, <2>2, <2>3, ChainKept
<1>8. ASSUME NEW id \in Ids, Publish(id)
      PROVE  TurnsDiffer' /\ ClosedWhenDone' /\ (~cancelled' => Chain')
  <2>1. UNCHANGED <<ready, closed, cancelled>>
    BY <1>8 DEF Publish
  <2>2. publications[id] # None /\ ~Publishes(id) /\ ~Done(id) /\ IsOpening(id) /\ ItsTurn(id)
    BY <1>8 DEF Publish, Waits, Publishes, Done, AllInStep, InStep
  <2>3. \A o \in Ids : o # id => publications'[o] = publications[o]
    BY <1>8 DEF Publish, TypeOK
  <2>4. publications'[id].at = "publishing"
    <3>1. publications[id] \in Goroutine
      BY <2>2 DEF TypeOK
    <3> QED
      BY <1>8, <3>1 DEF Publish, Goroutine, TypeOK
  <2>5. \A o \in Ids : (Done(o)' <=> Done(o)) /\ (Publishes(o)' => Publishes(o) \/ o = id)
    BY <2>2, <2>3, <2>4 DEF Done, Publishes
  <2>6. \A o \in Ids : Publishes(o)' /\ ~Publishes(o) /\ ~cancelled =>
          \A e \in Ids : Before(e, o) => Done(e)
    BY <2>2, <2>5, InTurn
  <2>7. \A o \in Ids : Publishes(o) \/ Done(o) \/ Publishes(o)' => IsOpening(o)
    BY <1>4, <2>2, <2>5
  <2>8. /\ turn' = turn
        /\ \A o \in Ids : IsOpening(o) =>
             SessionOf(o)' = SessionOf(o) /\ PreviousOf(o)' = PreviousOf(o)
    BY <1>8, <2>2, OpeningsKept
  <2> QED
    BY <1>2, <1>3, <2>1, <2>5, <2>6, <2>7, <2>8, ChainKept
<1> QED
  BY <1>5, <1>6, <1>7, <1>8, Steps, FinishStep

(* The invariant that carries the rest: in every state of the transport    *)
(* the openings of a session form one chain, in the order in which their   *)
(* hooks were registered, and ready names its end (Transport.ready,        *)
(* openingHook.previous).                                                  *)
THEOREM OpeningInvHolds == Spec => []OpeningInv
<1>1. Init => OpeningInv
  BY InitInv
<1>2. OpeningInv /\ [Next]_vars => OpeningInv'
  BY OpeningInvStep
<1> QED
  BY <1>1, <1>2, PTL DEF Spec

(* The types hold, and a hook is registered exactly for a request that is  *)
(* unanswered and opened something (RegisterHook, observeOutboundFrame).   *)
THEOREM TransportTypes == Spec => []TypeOK
<1>1. OpeningInv => TypeOK
  BY DEF OpeningInv
<1> QED
  BY <1>1, OpeningInvHolds, PTL

(* The opening publications of a session run one after the other, in the   *)
(* order of their registration and behind their own responses, as long as  *)
(* Close was not called (publishOpening).                                  *)
THEOREM OpeningsInOrder == Spec => []OpeningsTakeTurns
<1>1. OpeningInv => OpeningsTakeTurns
  <2> SUFFICES ASSUME OpeningInv, ~cancelled, NEW id \in Ids, Publishes(id)
               PROVE  RunsInTurn(id)
    BY DEF OpeningsTakeTurns
  <2>1. /\ handlers[id].at = "answered" /\ handlers[id].ok
        /\ publications[id].publication.hook = handlers[id].hook
    BY DEF OpeningInv, AllInStep, InStep, Publishes
  <2>2. \A earlier \in Openings(OpeningOf(id).session) :
          turn[earlier] < turn[id] => Done(earlier)
    BY DEF Openings, OpeningInv, Chain, StartedInTurn, Before, SessionOf, IsOpening
  <2> QED
    BY <2>1, <2>2 DEF RunsInTurn
<1> QED
  BY <1>1, OpeningInvHolds, PTL

(* AwaitSession admits a prompt, before Close, only when every opening     *)
(* publication registered for its session is over.                         *)
THEOREM AdmittedLast == Spec => AdmittedBehindOpenings
<1> DEFINE Admitted(id) ==
      ~cancelled /\ handlers[id].wait # "admitted" /\ handlers'[id].wait = "admitted"
<1>1. ASSUME OpeningInv, [Next]_vars, NEW id \in Ids, Admitted(id)
      PROVE  \A opening \in Openings(sent[id].session) : Done(opening)
  <2> USE TransportAssumption DEF OpeningInv
  <2>0. handlers \in [Ids -> Handler]
    BY <1>1 DEF TypeOK
  <2>1. AwaitSession(id)
    <3> SUFFICES ASSUME ~AwaitSession(id) PROVE handlers'[id].wait # "admitted"
      BY <1>1
    <3>1. \A other \in Ids : handlers[other] \in Handler
      BY <2>0
    <3>2. ASSUME NEW other \in Ids, NEW request, Read(other, request)
          PROVE  handlers'[id].wait = handlers[id].wait
      BY <2>0, <3>1, <3>2 DEF Read, Handler
    <3>3. ASSUME NEW other \in Ids, TakeRaw(other)
          PROVE  handlers'[id].wait = handlers[id].wait
      BY <2>0, <3>1, <3>3 DEF TakeRaw, Handler
    <3>4. ASSUME NEW other \in Ids, NEW s \in Sessions, RegisterHook(other, s)
          PROVE  handlers'[id].wait = handlers[id].wait
      BY <2>0, <3>1, <3>4 DEF RegisterHook, Handler
    <3>5. ASSUME NEW other \in Ids, Answer(other)
          PROVE  handlers'[id].wait = handlers[id].wait
      BY <2>0, <3>1, <3>5 DEF Answer, Respond, LoseResponse, Handler
    <3>6. ASSUME NEW other \in Ids, ObserveResponse(other)
          PROVE  handlers'[id].wait = handlers[id].wait
      BY <2>0, <3>1, <3>6 DEF ObserveResponse, Handler
    <3>7. ASSUME NEW other \in Ids, Publish(other) \/ Finish(other)
          PROVE  handlers'[id].wait = handlers[id].wait
      BY <3>7 DEF Publish, Finish
    <3>8. ASSUME NEW other \in Ids, AwaitRefused(other)
          PROVE  handlers'[id].wait = handlers[id].wait \/ handlers'[id].wait = "refused"
      BY <2>0, <3>1, <3>8 DEF AwaitRefused, Handler
    <3>9. ASSUME NEW other \in Ids, AwaitSession(other), other # id
          PROVE  handlers'[id].wait = handlers[id].wait
      BY <2>0, <3>9 DEF AwaitSession
    <3>10. CASE Close \/ UNCHANGED vars
      BY <1>1, <3>10 DEF Close, vars
    <3> QED
      BY <1>1, <3>2, <3>3, <3>4, <3>5, <3>6, <3>7, <3>8, <3>9, <3>10
      DEF Next, Pass, GiveUp, HookReturns, AwaitClosed, AwaitCancelled
  <2> DEFINE s == sent[id].session
  <2>2. sent[id] \in Request /\ sent[id].method = "prompt"
    BY <1>1, <2>1 DEF AwaitSession, TypeOK
  <2>3. s \in Sessions
    BY <2>2 DEF Request, Initialize
  <2>4. ready[s] = None
    <3> SUFFICES ASSUME ready[s] # None PROVE FALSE
      OBVIOUS
    <3>1. handlers'[id] = Looked(id, ready[s])
      BY <2>0, <2>1 DEF AwaitSession
    <3>2. handlers'[id].wait = "blocked"
      <4>1. handlers[id] \in Handler
        BY <2>0
      <4> QED
        BY <3>1, <4>1 DEF Looked, Handler
    <3> QED
      BY <1>1, <3>2
  <2>5. \A opening \in Ids : IsOpening(opening) /\ SessionOf(opening) = s => Done(opening)
    BY <1>1, <2>3, <2>4 DEF Chain, LastIsReady
  <2> QED
    BY <2>5 DEF Openings, IsOpening, SessionOf
<1>2. OpeningInv /\ [Next]_vars =>
        [\A id \in Ids :
           (/\ ~cancelled
            /\ handlers[id].wait # "admitted" /\ handlers'[id].wait = "admitted")
           => \A opening \in Openings(sent[id].session) : Done(opening)]_vars
  BY <1>1
<1> QED
  BY <1>2, OpeningInvHolds, PTL DEF Spec, AdmittedBehindOpenings

-----------------------------------------------------------------------------
(* Records of params. *)

IsPrompt(id) == sent[id] # None /\ sent[id].method = "prompt"

(* Whose record it is: a request that is not answered, under its key.      *)
RecordsOfUnanswered ==
  \A key \in Keys : \A id \in raw[key] :
    /\ sent[id] # None /\ requests[id] # None
    /\ Recorded(sent[id]) /\ KeyOf(sent[id]) = key

UnansweredHandlers ==
  \A id \in Ids :
    IF sent[id] = None THEN handlers[id].took = None
    ELSE requests[id] = None <=> handlers[id].at = "answered"

TookFrom(id, other) == Alike(id, other) /\ handlers[other].took = id

(* A prompt's record waits, or was taken by a prompt like it, *)
RecordsWait ==
  \A id \in Ids :
    IsPrompt(id) /\ handlers[id].at # "answered" =>
      id \in raw[sent[id].session] \/ \E other \in Ids : TookFrom(id, other)

(* and what a prompt took was the record of one like it. *)
TookAlike(id) ==
  \E other \in Ids :
    /\ Alike(id, other)
    /\ \/ handlers[id].took = other
       \/ handlers[id].took = 0 /\ other # id /\ handlers[other].took = id

AllTookAlike ==
  \A id \in Ids : IsPrompt(id) /\ handlers[id].took # None => TookAlike(id)

RecordInv ==
  RecordsOfUnanswered /\ UnansweredHandlers /\ RecordsWait /\ AllTookAlike

(* The steps that leave requests and records alone.                        *)
RecordsKept ==
  /\ UNCHANGED requestVars
  /\ \A id \in Ids :
       /\ handlers'[id].took = handlers[id].took
       /\ handlers'[id].at = "answered" <=> handlers[id].at = "answered"

(* Only the reader, the taking handler and the writer's observation touch  *)
(* the records (observeInboundFrame, takeRaw, observeOutboundFrame).       *)
LEMMA RecordSteps ==
  ASSUME TypeOK, [Next]_vars
  PROVE  \/ RecordsKept
         \/ \E id \in Ids : \E request \in Offers[id] : Read(id, request)
         \/ \E id \in Ids : TakeRaw(id)
         \/ \E id \in Ids : ObserveResponse(id)
<1> USE DEF RecordsKept
<1>0. handlers \in [Ids -> Handler] /\ \A id \in Ids : handlers[id] \in Handler
  BY DEF TypeOK
<1>1. CASE UNCHANGED vars \/ Close
  BY <1>1 DEF vars, Close, requestVars
<1>2. ASSUME NEW id \in Ids, NEW s \in Sessions, RegisterHook(id, s)
      PROVE  RecordsKept
  BY <1>0, <1>2 DEF RegisterHook, Handler
<1>3. ASSUME NEW id \in Ids, Answer(id)
      PROVE  RecordsKept
  <2>1. CASE LoseResponse(id)
    BY <1>0, <2>1 DEF LoseResponse, Running, Handler
  <2>2. ASSUME NEW ok, Respond(id, ok)
        PROVE  RecordsKept
    BY <1>0, <2>2 DEF Respond, Running, Handler
  <2> QED
    BY <1>3, <2>1, <2>2 DEF Answer
<1>4. ASSUME NEW id \in Ids, Publish(id) \/ Finish(id)
      PROVE  RecordsKept
  BY <1>4 DEF Publish, Finish
<1>5. ASSUME NEW id \in Ids, AwaitRefused(id)
      PROVE  RecordsKept
  BY <1>0, <1>5 DEF AwaitRefused, Handler
<1>6. ASSUME NEW id \in Ids, AwaitSession(id)
      PROVE  RecordsKept
  <2>1. \A last : Looked(id, last).took = handlers[id].took /\ Looked(id, last).at = handlers[id].at
    BY <1>0 DEF Looked, Handler
  <2> QED
    BY <1>0, <1>6, <2>1 DEF AwaitSession
<1> QED
  BY <1>1, <1>2, <1>3, <1>4, <1>5, <1>6
  DEF Next, Pass, GiveUp, HookReturns, AwaitClosed, AwaitCancelled

(* A prompt that the reader has seen names a session, and its key is no    *)
(* other request's (rawKeyPrompt).                                         *)
LEMMA PromptKeys ==
  ASSUME TypeOK
  PROVE  \A id \in Ids : sent[id] # None /\ Recorded(sent[id]) =>
           /\ sent[id] \in Request /\ KeyOf(sent[id]) \in Keys
           /\ IsPrompt(id) <=> KeyOf(sent[id]) # "initialize"
           /\ IsPrompt(id) => sent[id].session \in Sessions /\ KeyOf(sent[id]) = sent[id].session
<1> SUFFICES ASSUME NEW id \in Ids, sent[id] # None, Recorded(sent[id])
             PROVE  /\ sent[id] \in Request /\ KeyOf(sent[id]) \in Keys
                    /\ IsPrompt(id) <=> KeyOf(sent[id]) # "initialize"
                    /\ IsPrompt(id) => /\ sent[id].session \in Sessions
                                       /\ KeyOf(sent[id]) = sent[id].session
  OBVIOUS
<1>1. sent[id] \in Request
  BY DEF TypeOK
<1>2. CASE sent[id].method = "initialize"
  BY <1>1, <1>2 DEF KeyOf, Keys, IsPrompt
<1>3. CASE sent[id].method = "prompt"
  <2>1. sent[id].session \in Sessions
    BY <1>1, <1>3 DEF Request, Initialize
  <2> QED
    BY <1>1, <1>3, <2>1, InitializeIsNoSession DEF KeyOf, Keys, IsPrompt
<1> QED
  BY <1>2, <1>3 DEF Recorded

(* The reader records a request that nobody recorded before.               *)
LEMMA ReadKeepsRecords ==
  ASSUME TypeOK, AllInStep, RecordInv,
         NEW id \in Ids, NEW request \in Offers[id], Read(id, request), TypeOK'
  PROVE  RecordInv'
<1> USE TransportAssumption, OffersAssumption, NoneIsNoRecord
<1>1. request \in Request /\ request # None
  OBVIOUS
<1>2. /\ sent[id] = None /\ requests[id] = None /\ handlers[id].at = "unread"
      /\ handlers[id].took = None
  BY DEF Read, AllInStep, InStep, RecordInv, UnansweredHandlers
<1>3. /\ sent'[id] = request /\ requests'[id] = request
      /\ \A o \in Ids : o # id => sent'[o] = sent[o] /\ requests'[o] = requests[o]
  BY DEF Read, TypeOK
<1>4. /\ \A o \in Ids : handlers'[o].took = handlers[o].took
      /\ handlers'[id].at = "running"
      /\ \A o \in Ids : o # id => handlers'[o] = handlers[o]
  <2>1. handlers \in [Ids -> Handler] /\ handlers[id] \in Handler
    BY DEF TypeOK
  <2> QED
    BY <2>1 DEF Read, Handler
<1>5. \A key \in Keys : id \notin raw[key]
  BY <1>2 DEF RecordInv, RecordsOfUnanswered
<1>6. \A key \in Keys : \A o \in Ids :
        o \in raw'[key] <=> o \in raw[key] \/ (o = id /\ Recorded(request) /\ KeyOf(request) = key)
  BY DEF Read, TypeOK
<1>7. raw' \in [Keys -> SUBSET Ids] /\ raw \in [Keys -> SUBSET Ids]
  BY DEF TypeOK
<1>8. RecordsOfUnanswered'
  BY <1>1, <1>3, <1>5, <1>6, <1>7 DEF RecordInv, RecordsOfUnanswered
<1>9. UnansweredHandlers'
  BY <1>1, <1>3, <1>4 DEF RecordInv, UnansweredHandlers
<1>10. \A o, p \in Ids : o # id /\ Alike(o, p) => Alike(o, p)'
  BY <1>2, <1>3 DEF Alike
<1>11. RecordsWait'
  <2> SUFFICES ASSUME NEW o \in Ids, IsPrompt(o)', handlers'[o].at # "answered"
               PROVE  o \in raw'[sent'[o].session] \/ \E p \in Ids : TookFrom(o, p)'
    BY DEF RecordsWait
  <2>1. sent'[o].session \in Keys
    BY PromptKeys, <1>1, <1>3 DEF IsPrompt, TypeOK, Request, Initialize, Keys
  <2>2. CASE o = id
    BY <1>3, <1>6, <2>1, <2>2 DEF IsPrompt, Recorded, KeyOf
  <2>3. CASE o # id
    <3>1. o \in raw[sent[o].session] \/ \E p \in Ids : TookFrom(o, p)
      BY <1>3, <1>4, <2>3 DEF RecordInv, RecordsWait, IsPrompt
    <3> QED
      BY <1>3, <1>4, <1>6, <1>10, <2>1, <2>3, <3>1 DEF TookFrom
  <2> QED
    BY <2>2, <2>3
<1>12. AllTookAlike'
  <2> SUFFICES ASSUME NEW o \in Ids, IsPrompt(o)', handlers'[o].took # None
               PROVE  TookAlike(o)'
    BY DEF AllTookAlike
  <2>1. o # id
    BY <1>2, <1>4
  <2>2. TookAlike(o)
    BY <1>3, <1>4, <2>1 DEF RecordInv, AllTookAlike, IsPrompt
  <2> QED
    BY <1>4, <1>10, <2>1, <2>2 DEF TookAlike
<1> QED
  BY <1>8, <1>9, <1>11, <1>12 DEF RecordInv

(* A handler takes a record of its session with its own value, or finds    *)
(* that a prompt like it took its own.                                     *)
LEMMA TakeKeepsRecords ==
  ASSUME TypeOK, AllInStep, RecordInv, NEW id \in Ids, TakeRaw(id)
  PROVE  RecordInv'
<1> USE TransportAssumption
<1> DEFINE key == KeyOf(sent[id])
           candidates == Candidates(id, raw[key])
<1>1. /\ sent[id] # None /\ Recorded(sent[id]) /\ handlers[id].took = None
      /\ handlers[id].at = "running"
  BY DEF TakeRaw, Running, AllInStep, InStep
<1>2. /\ key \in Keys
      /\ IsPrompt(id) <=> key # "initialize"
      /\ IsPrompt(id) => sent[id].session \in Sessions /\ key = sent[id].session
  BY <1>1, PromptKeys
<1>3. UNCHANGED <<sent, requests>>
  BY DEF TakeRaw
<1>4. \A o, p \in Ids : Alike(o, p)' <=> Alike(o, p)
  BY <1>3 DEF Alike
<1>5. \E took \in {0} \cup raw[key] : handlers' = [handlers EXCEPT ![id].took = took]
  <2>1. \A record \in Oldest(candidates) : record \in raw[key]
    BY DEF Oldest, Candidates
  <2> QED
    BY <2>1 DEF TakeRaw
<1>6. PICK took \in {0} \cup raw[key] : handlers' = [handlers EXCEPT ![id].took = took]
  BY <1>5
<1>7. took # None
  BY <1>2 DEF TypeOK
<1>8. /\ handlers'[id].took = took
      /\ \A o \in Ids : handlers'[o].at = handlers[o].at
      /\ \A o \in Ids : o # id => handlers'[o].took = handlers[o].took
  <2>1. handlers \in [Ids -> Handler] /\ handlers[id] \in Handler
    BY DEF TypeOK
  <2> QED
    BY <1>6, <2>1 DEF Handler
<1>9. \/ took = 0 /\ candidates = {} /\ raw' = raw
      \/ took \in candidates /\ raw' = [raw EXCEPT ![key] = @ \ {took}]
  <2>1. CASE candidates = {} /\ handlers' = [handlers EXCEPT ![id].took = 0] /\ raw' = raw
    <3>1. handlers'[id].took = 0
      <4>1. handlers \in [Ids -> Handler] /\ handlers[id] \in Handler
        BY DEF TypeOK
      <4> QED
        BY <2>1, <4>1 DEF Handler
    <3> QED
      BY <1>8, <2>1, <3>1
  <2>2. ASSUME NEW record \in Oldest(candidates),
               handlers' = [handlers EXCEPT ![id].took = record],
               raw' = [raw EXCEPT ![key] = @ \ {record}]
        PROVE  took \in candidates /\ raw' = [raw EXCEPT ![key] = @ \ {took}]
    <3>1. handlers'[id].took = record
      <4>1. handlers \in [Ids -> Handler] /\ handlers[id] \in Handler
        BY DEF TypeOK
      <4> QED
        BY <2>2, <4>1 DEF Handler
    <3> QED
      BY <1>8, <2>2, <3>1 DEF Oldest
  <2> QED
    BY <2>1, <2>2 DEF TakeRaw
<1>10. \A k \in Keys : raw'[k] \subseteq raw[k]
  BY <1>9 DEF TypeOK
<1>11. RecordsOfUnanswered'
  BY <1>3, <1>10 DEF RecordInv, RecordsOfUnanswered
<1>12. UnansweredHandlers'
  BY <1>1, <1>3, <1>8 DEF RecordInv, UnansweredHandlers
<1>13. \A o, p \in Ids : TookFrom(o, p) => TookFrom(o, p)'
  BY <1>1, <1>4, <1>8 DEF TookFrom
<1>14. took # 0 => /\ took \in Ids /\ took \in raw[key]
                   /\ IsPrompt(took) <=> IsPrompt(id)
                   /\ IsPrompt(id) => Alike(took, id) /\ Alike(id, took)
  <2> SUFFICES ASSUME took # 0
               PROVE  /\ took \in Ids /\ took \in raw[key]
                      /\ IsPrompt(took) <=> IsPrompt(id)
                      /\ IsPrompt(id) => Alike(took, id) /\ Alike(id, took)
    OBVIOUS
  <2>1. took \in candidates /\ took \in raw[key] /\ took \in Ids
    BY <1>2, <1>9 DEF TypeOK
  <2>2. /\ sent[took] # None /\ Recorded(sent[took]) /\ KeyOf(sent[took]) = key
    BY <1>2, <2>1 DEF RecordInv, RecordsOfUnanswered
  <2>3. /\ IsPrompt(took) <=> IsPrompt(id)
        /\ IsPrompt(took) => sent[took].session = key
    BY <1>2, <2>1, <2>2, PromptKeys
  <2>4. IsPrompt(id) => sent[took].value = sent[id].value
    BY <2>1 DEF Candidates, IsPrompt
  <2> QED
    BY <1>2, <2>1, <2>3, <2>4 DEF Alike, IsPrompt
<1>15. RecordsWait'
  <2> SUFFICES ASSUME NEW o \in Ids, IsPrompt(o), handlers[o].at # "answered"
               PROVE  o \in raw'[sent[o].session] \/ \E p \in Ids : TookFrom(o, p)'
    BY <1>3, <1>8 DEF RecordsWait, IsPrompt
  <2>1. o \in raw[sent[o].session] \/ \E p \in Ids : TookFrom(o, p)
    BY DEF RecordInv, RecordsWait
  <2>2. sent[o].session \in Keys
    BY DEF IsPrompt, TypeOK, Request, Initialize, Keys
  <2>3. CASE o = took /\ took # 0
    BY <1>4, <1>8, <1>14, <2>3 DEF TookFrom
  <2>4. CASE ~(o = took /\ took # 0)
    <3>1. o # 0
      OBVIOUS
    <3>2. o \in raw[sent[o].session] => o \in raw'[sent[o].session]
      BY <1>9, <2>2, <2>4, <3>1 DEF TypeOK
    <3> QED
      BY <1>13, <2>1, <3>2
  <2> QED
    BY <2>3, <2>4
<1>16. AllTookAlike'
  <2> SUFFICES ASSUME NEW o \in Ids, IsPrompt(o), handlers'[o].took # None
               PROVE  TookAlike(o)'
    BY <1>3 DEF AllTookAlike, IsPrompt
  <2>1. CASE o # id
    <3>1. TookAlike(o)
      BY <1>8, <2>1 DEF RecordInv, AllTookAlike
    <3> QED
      BY <1>1, <1>4, <1>8, <2>1, <3>1 DEF TookAlike
  <2>2. CASE o = id /\ took # 0
    BY <1>4, <1>8, <1>14, <2>2 DEF TookAlike
  <2>3. CASE o = id /\ took = 0
    <3>1. candidates = {}
      <4>1. 0 \notin raw[key]
        BY <1>2 DEF TypeOK
      <4> QED
        BY <1>9, <2>3, <4>1 DEF Candidates
    <3>2. id \notin raw[key]
      BY <2>3, <3>1 DEF Candidates
    <3>3. PICK p \in Ids : TookFrom(id, p)
      BY <1>1, <1>2, <2>3, <3>2 DEF RecordInv, RecordsWait
    <3>4. p # id
      BY <1>1, <3>3 DEF TookFrom
    <3> QED
      BY <1>4, <1>8, <2>3, <3>3, <3>4 DEF TookAlike, TookFrom
  <2> QED
    BY <2>1, <2>2, <2>3
<1> QED
  BY <1>11, <1>12, <1>15, <1>16 DEF RecordInv

(* The observed response drops the record that nobody took (dropRaw).      *)
LEMMA ResponseDropsRecord ==
  ASSUME TypeOK, AllInStep, RecordInv, NEW id \in Ids, ObserveResponse(id)
  PROVE  RecordInv'
<1> USE TransportAssumption
<1>1. sent[id] # None
  BY DEF ObserveResponse, AllInStep, InStep
<1>2. /\ requests'[id] = None /\ sent' = sent
      /\ \A o \in Ids : o # id => requests'[o] = requests[o]
  BY DEF ObserveResponse, TypeOK
<1>3. /\ handlers'[id].at = "answered"
      /\ \A o \in Ids : o # id => handlers'[o].at = handlers[o].at
      /\ \A o \in Ids : handlers'[o].took = handlers[o].took
  <2>1. handlers \in [Ids -> Handler] /\ handlers[id] \in Handler
    BY DEF TypeOK
  <2> QED
    BY <2>1 DEF ObserveResponse, Handler
<1>4. \A k \in Keys : raw'[k] = raw[k] \ {id}
  <2>1. \A k \in Keys : id \in raw[k] => Recorded(sent[id]) /\ KeyOf(sent[id]) = k
    BY DEF RecordInv, RecordsOfUnanswered
  <2> QED
    BY <2>1 DEF ObserveResponse, TypeOK
<1>5. \A o, p \in Ids : Alike(o, p)' <=> Alike(o, p)
  BY <1>2 DEF Alike
<1>6. RecordsOfUnanswered'
  <2> SUFFICES ASSUME NEW k \in Keys, NEW o \in raw'[k]
               PROVE  /\ sent'[o] # None /\ requests'[o] # None
                      /\ Recorded(sent'[o]) /\ KeyOf(sent'[o]) = k
    BY DEF RecordsOfUnanswered
  <2>1. o \in raw[k] /\ o # id /\ o \in Ids
    BY <1>4 DEF TypeOK
  <2> QED
    BY <1>2, <2>1 DEF RecordInv, RecordsOfUnanswered
<1>7. UnansweredHandlers'
  BY <1>1, <1>2, <1>3 DEF RecordInv, UnansweredHandlers
<1>8. RecordsWait'
  <2> SUFFICES ASSUME NEW o \in Ids, IsPrompt(o), handlers'[o].at # "answered"
               PROVE  o \in raw'[sent[o].session] \/ \E p \in Ids : TookFrom(o, p)'
    BY <1>2 DEF RecordsWait, IsPrompt
  <2>1. o # id /\ handlers[o].at # "answered"
    BY <1>3
  <2>2. o \in raw[sent[o].session] \/ \E p \in Ids : TookFrom(o, p)
    BY <2>1 DEF RecordInv, RecordsWait
  <2>3. sent[o].session \in Keys
    BY DEF IsPrompt, TypeOK, Request, Initialize, Keys
  <2> QED
    BY <1>3, <1>4, <1>5, <2>1, <2>2, <2>3 DEF TookFrom
<1>9. AllTookAlike'
  <2> SUFFICES ASSUME NEW o \in Ids, IsPrompt(o)', handlers'[o].took # None
               PROVE  TookAlike(o)'
    BY DEF AllTookAlike
  <2>1. TookAlike(o)
    BY <1>2, <1>3, <1>5 DEF RecordInv, AllTookAlike, IsPrompt
  <2> QED
    BY <1>2, <1>3, <1>5, <2>1 DEF TookAlike, IsPrompt
<1> QED
  BY <1>6, <1>7, <1>8, <1>9 DEF RecordInv

(* A prompt of concurrent prompts takes its own params, or those of one    *)
(* that carries the same lifecycle value, or none when such a one took     *)
(* its own; and no record outlives its request (TakeRawPrompt, dropRaw).   *)
THEOREM ParamsKept == Spec => []PromptsKeepTheirParams
<1>1. Init => RecordInv
  <2> SUFFICES ASSUME Init PROVE RecordInv
    OBVIOUS
  <2> QED
    BY DEF Init, Unread, RecordInv, RecordsOfUnanswered, UnansweredHandlers, RecordsWait,
           AllTookAlike, IsPrompt
<1>2. ASSUME OpeningInv, RecordInv, [Next]_vars, OpeningInv'
      PROVE  RecordInv'
  <2> USE <1>2 DEF OpeningInv
  <2>1. CASE RecordsKept
    <3>1. \A o, p \in Ids : Alike(o, p)' <=> Alike(o, p)
      BY <2>1 DEF RecordsKept, requestVars, Alike
    <3>2. RecordsOfUnanswered' /\ UnansweredHandlers'
      BY <2>1 DEF RecordsKept, requestVars, RecordInv, RecordsOfUnanswered, UnansweredHandlers
    <3>3. RecordsWait' /\ AllTookAlike'
      BY <2>1, <3>1 DEF RecordsKept, requestVars, RecordInv, RecordsWait, AllTookAlike,
         TookAlike, TookFrom, IsPrompt
    <3> QED
      BY <3>2, <3>3 DEF RecordInv
  <2> QED
    BY <2>1, RecordSteps, ReadKeepsRecords, TakeKeepsRecords, ResponseDropsRecord
<1>3. RecordInv => PromptsKeepTheirParams
  BY DEF RecordInv, AllTookAlike, TookAlike, RecordsOfUnanswered, IsPrompt,
         PromptsKeepTheirParams
<1> QED
  BY <1>1, <1>2, <1>3, OpeningInvHolds, PTL DEF Spec

-----------------------------------------------------------------------------
(* CallAndAnnounce *)

WaitedKeys == {ActionKey[c] : c \in Callers}

CallTypes ==
  /\ call \in [Callers -> {"idle", "waiting", "announcing", "answering", "returned"}]
  /\ send \in [Callers -> {"none", "sending", "out", "sent", "answered", "unsent"}]
  /\ written \in [WaitedKeys -> Callers \cup {Nothing}]
  /\ announced \in [Callers -> {0, 1}]
  /\ observed \subseteq Callers

Written(c) == send[c] \in {"sent", "answered"}
WaitsForKey(c) == written[ActionKey[c]] = c

(* Where a call stands, and where its request.                             *)
CallSound(c) ==
  /\ call[c] = "idle" <=> send[c] = "none"
  /\ call[c] \in {"idle", "waiting", "announcing"} => announced[c] = 0
  /\ call[c] = "answering" => announced[c] = 1
  /\ call[c] = "returned" => /\ HasAnswer(c)
                             /\ send[c] = "answered" => announced[c] = 1
  /\ call[c] \in {"idle", "returned"} => ~WaitsForKey(c)

(* The channel of a call stands for the write of its own request.          *)
ChannelSound(c) ==
  IF c \in Embedded
  THEN call[c] # "waiting" /\ ~WaitsForKey(c) /\ c \notin observed
  ELSE /\ c \in observed => Written(c)
       /\ Written(c) => c \in observed \/ call[c] = "idle"
       /\ call[c] \in {"announcing", "answering"} => c \in observed
       /\ announced[c] = 1 => c \in observed
       /\ send[c] \in {"sending", "out"} => call[c] = "waiting" /\ WaitsForKey(c)

CallInv ==
  /\ CallTypes
  /\ \A c \in Callers : CallSound(c) /\ ChannelSound(c)

(* Nobody has called yet (CallAndAnnounce).                                *)
LEMMA CallInit == OutputInit => CallInv
BY SessionOutputAssumption
   DEF OutputInit, CallInv, CallTypes, CallSound, ChannelSound, WaitedKeys, WaitsForKey, Written,
       HasAnswer

(* A step of one caller: the channel of its action changes hands only when *)
(* it was the caller's own, or nobody else waits for it.                   *)
OwnStep(c, p, s, w, a) ==
  /\ call' = [call EXCEPT ![c] = p] /\ send' = [send EXCEPT ![c] = s]
  /\ written' = [written EXCEPT ![ActionKey[c]] = w]
  /\ announced' = [announced EXCEPT ![c] = a]
  /\ observed' = observed \/ observed' = observed \cup {c}
  /\ w = written[ActionKey[c]] \/ w = c \/ w = Nothing
  /\ w # written[ActionKey[c]] =>
       \/ written[ActionKey[c]] = c
       \/ \A d \in Callers \ {c} :
            ActionKey[d] = ActionKey[c] => call[d] \in {"idle", "returned"}

(* One caller steps: what it changes of the shared channels concerns no    *)
(* other call (awaitRequestWrite, observeOutboundFrame).                   *)
LEMMA OneCallerSteps ==
  ASSUME CallInv, NEW c \in Callers,
         NEW p \in {"idle", "waiting", "announcing", "answering", "returned"},
         NEW s \in {"none", "sending", "out", "sent", "answered", "unsent"},
         NEW w \in Callers \cup {Nothing}, NEW a \in {0, 1},
         OwnStep(c, p, s, w, a), CallSound(c)', ChannelSound(c)'
  PROVE  CallInv'
<1> USE SessionOutputAssumption DEF OwnStep
<1> DEFINE k == ActionKey[c]
<1>1. k \in WaitedKeys /\ \A d \in Callers : ActionKey[d] \in WaitedKeys
  BY DEF WaitedKeys
<1>2. CallTypes'
  BY <1>1 DEF CallInv, CallTypes, WaitedKeys
<1>3. ASSUME NEW d \in Callers, d # c PROVE CallSound(d)' /\ ChannelSound(d)'
  <2>1. /\ call'[d] = call[d] /\ send'[d] = send[d] /\ announced'[d] = announced[d]
        /\ d \in observed' <=> d \in observed
    BY <1>3 DEF CallInv, CallTypes
  <2>2. ActionKey[d] # k => written'[ActionKey[d]] = written[ActionKey[d]]
    BY <1>1 DEF CallInv, CallTypes
  <2>3. ActionKey[d] = k => written'[ActionKey[d]] = w
    BY <1>1 DEF CallInv, CallTypes
  <2>4. WaitsForKey(d)' => WaitsForKey(d)
    BY <1>3, <2>2, <2>3 DEF WaitsForKey
  <2>5. WaitsForKey(d) /\ call[d] = "waiting" => WaitsForKey(d)'
    BY <1>3, <2>2, <2>3 DEF WaitsForKey
  <2>6. CallSound(d) /\ ChannelSound(d)
    BY DEF CallInv
  <2>7. CallSound(d)'
    BY <2>1, <2>4, <2>6 DEF CallSound, HasAnswer
  <2>8. ChannelSound(d)'
    BY <2>1, <2>4, <2>5, <2>6 DEF ChannelSound, Written
  <2> QED
    BY <2>7, <2>8
<1> QED
  BY <1>2, <1>3 DEF CallInv

(* Every step of a call keeps the calls sound (CallAndAnnounce).           *)
LEMMA CallerStep ==
  ASSUME CallInv, NEW c \in Callers,
         Begins(c) \/ CallStep(c) \/ ClientAnswers(c) \/ CallIsCancelled(c)
  PROVE  CallInv'
<1> USE SessionOutputAssumption
<1> DEFINE k == ActionKey[c]
           Moves(p, s, w, a) ==
             /\ call' = [call EXCEPT ![c] = p] /\ send' = [send EXCEPT ![c] = s]
             /\ written' = [written EXCEPT ![k] = w]
             /\ announced' = [announced EXCEPT ![c] = a]
<1>1. /\ CallTypes /\ CallSound(c) /\ ChannelSound(c)
      /\ k \in WaitedKeys /\ written[k] \in Callers \cup {Nothing}
      /\ Nothing \notin Callers
  BY DEF CallInv, CallTypes, WaitedKeys
<1>2. /\ call = [call EXCEPT ![c] = call[c]] /\ send = [send EXCEPT ![c] = send[c]]
      /\ written = [written EXCEPT ![k] = written[k]]
      /\ announced = [announced EXCEPT ![c] = announced[c]]
  BY <1>1 DEF CallTypes
<1>3. ASSUME NEW p \in {"idle", "waiting", "announcing", "answering", "returned"},
             NEW s \in {"none", "sending", "out", "sent", "answered", "unsent"},
             NEW w \in Callers \cup {Nothing}, NEW a \in {0, 1}, Moves(p, s, w, a)
      PROVE  /\ call'[c] = p /\ send'[c] = s /\ written'[k] = w /\ announced'[c] = a
  BY <1>1, <1>3 DEF CallTypes
<1>4. ASSUME NEW p \in {"idle", "waiting", "announcing", "answering", "returned"},
             NEW s \in {"none", "sending", "out", "sent", "answered", "unsent"},
             NEW w \in Callers \cup {Nothing}, NEW a \in {0, 1}, Moves(p, s, w, a),
             observed' = observed \/ observed' = observed \cup {c},
             w = written[k] \/ w = c \/ w = Nothing,
             w # written[k] =>
               \/ written[k] = c
               \/ \A d \in Callers \ {c} : ActionKey[d] = k => call[d] \in {"idle", "returned"},
             CallSound(c)', ChannelSound(c)'
      PROVE  CallInv'
  <2>1. OwnStep(c, p, s, w, a)
    BY <1>4 DEF OwnStep
  <2> HIDE DEF k, Moves
  <2> QED
    BY <1>4, <2>1, OneCallerSteps
<1>5. call[c] \in {"idle", "waiting", "announcing", "answering", "returned"}
      /\ send[c] \in {"none", "sending", "out", "sent", "answered", "unsent"}
      /\ announced[c] \in {0, 1}
  BY <1>1 DEF CallTypes
<1> HIDE DEF k, Moves
<1>6. CASE Begins(c)
  <2>1. CASE c \in Embedded
    <3>1. Moves("announcing", "sending", written[k], announced[c]) /\ observed' = observed
      BY <1>2, <1>6, <2>1 DEF Begins, Moves
    <3>2. CallSound(c)' /\ ChannelSound(c)'
      BY <1>1, <1>3, <1>5, <1>6, <2>1, <3>1
         DEF Begins, CallSound, ChannelSound, WaitsForKey, Written, HasAnswer, k
    <3> QED
      BY <1>1, <1>4, <1>5, <3>1, <3>2
  <2>2. CASE c \notin Embedded
    <3>1. Moves("waiting", "sending", c, announced[c]) /\ observed' = observed
      BY <1>2, <1>6, <2>2 DEF Begins, Moves, k
    <3>2. CallSound(c)' /\ ChannelSound(c)'
      BY <1>1, <1>3, <1>5, <1>6, <2>2, <3>1
         DEF Begins, CallSound, ChannelSound, WaitsForKey, Written, HasAnswer, k
    <3>3. \A d \in Callers \ {c} : ActionKey[d] = k => call[d] \in {"idle", "returned"}
      BY <1>6 DEF Begins, Unused, k
    <3> QED
      BY <1>4, <1>5, <3>1, <3>2, <3>3
  <2> QED
    BY <2>1, <2>2
<1>7. ASSUME NEW s \in {"out", "sent", "answered", "unsent"},
             send' = [send EXCEPT ![c] = s],
             UNCHANGED <<call, written, observed, announced>>,
             \/ send[c] = "sending" /\ s \in {"out", "unsent"}
             \/ send[c] = "sent" /\ s = "answered"
      PROVE  CallInv'
  <2>1. Moves(call[c], s, written[k], announced[c]) /\ observed' = observed
    BY <1>2, <1>7 DEF Moves
  <2>2. CallSound(c)' /\ ChannelSound(c)'
    BY <1>1, <1>3, <1>5, <1>7, <2>1
       DEF CallSound, ChannelSound, WaitsForKey, Written, HasAnswer, k
  <2> QED
    BY <1>1, <1>4, <1>5, <2>1, <2>2
<1>8. CASE FrameIsOut(c) \/ SendFails(c) \/ ClientAnswers(c)
  BY <1>7, <1>8 DEF FrameIsOut, SendFails, ClientAnswers
<1>9. CASE CallIsCancelled(c) \/ CloseCancels(c)
  BY <1>7, <1>9 DEF CallIsCancelled, CloseCancels
<1>10. CASE FrameIsObserved(c)
  <2>1. CASE c \in Embedded
    <3>1. Moves(call[c], "sent", written[k], announced[c]) /\ observed' = observed
      BY <1>2, <1>10, <2>1 DEF FrameIsObserved, Moves
    <3>2. CallSound(c)' /\ ChannelSound(c)'
      BY <1>1, <1>3, <1>5, <1>10, <2>1, <3>1
         DEF FrameIsObserved, CallSound, ChannelSound, WaitsForKey, Written, HasAnswer, k
    <3> QED
      BY <1>1, <1>4, <1>5, <3>1, <3>2
  <2>2. CASE c \notin Embedded
    <3>1. written[k] = c
      BY <1>1, <1>10, <2>2 DEF FrameIsObserved, ChannelSound, WaitsForKey, k
    <3>2. Moves(call[c], "sent", Nothing, announced[c]) /\ observed' = observed \cup {c}
      BY <1>1, <1>2, <1>10, <2>2, <3>1 DEF FrameIsObserved, Moves, k
    <3>3. CallSound(c)' /\ ChannelSound(c)'
      BY <1>1, <1>3, <1>5, <1>10, <2>2, <3>2
         DEF FrameIsObserved, CallSound, ChannelSound, WaitsForKey, Written, HasAnswer, k
    <3> QED
      BY <1>4, <1>5, <3>1, <3>2, <3>3
  <2> QED
    BY <2>1, <2>2
<1>11. CASE WaitsForWrite(c) /\ c \in observed
  <2>1. Moves("announcing", send[c], written[k], announced[c]) /\ observed' = observed
    BY <1>2, <1>11 DEF WaitsForWrite, AnswersFirst, Moves
  <2>2. CallSound(c)' /\ ChannelSound(c)'
    BY <1>1, <1>3, <1>5, <1>11, <2>1
       DEF WaitsForWrite, CallSound, ChannelSound, WaitsForKey, Written, HasAnswer, k
  <2> QED
    BY <1>1, <1>4, <1>5, <2>1, <2>2
<1>12. CASE WaitsForWrite(c) /\ c \notin observed
  <2>1. /\ HasAnswer(c) /\ call[c] = "waiting" /\ observed' = observed
        /\ call' = [call EXCEPT ![c] = "returned"] /\ written' = Released(c)
    BY <1>12 DEF WaitsForWrite, AnswersFirst
  <2>2. Moves("returned", send[c], IF written[k] = c THEN Nothing ELSE written[k], announced[c])
    BY <1>2, <1>12, <2>1 DEF WaitsForWrite, Moves, Released, k
  <2>3. CallSound(c)' /\ ChannelSound(c)'
    BY <1>1, <1>3, <1>5, <1>12, <2>1, <2>2
       DEF CallSound, ChannelSound, WaitsForKey, Written, HasAnswer, k
  <2> QED
    BY <1>1, <1>4, <1>5, <2>1, <2>2, <2>3
<1>13. CASE Announces(c)
  <2>1. announced[c] = 0 /\ call[c] = "announcing"
    BY <1>1, <1>13 DEF Announces, CallSound
  <2>2. Moves("answering", send[c], written[k], 1) /\ observed' = observed
    BY <1>2, <1>13, <2>1 DEF Announces, Moves
  <2>3. CallSound(c)' /\ ChannelSound(c)'
    BY <1>1, <1>3, <1>5, <2>1, <2>2
       DEF CallSound, ChannelSound, WaitsForKey, Written, HasAnswer, k
  <2> QED
    BY <1>1, <1>4, <1>5, <2>2, <2>3
<1>14. CASE TakesAnswer(c)
  <2>1. Moves("returned", send[c], IF written[k] = c THEN Nothing ELSE written[k], announced[c])
        /\ observed' = observed
    BY <1>2, <1>14 DEF TakesAnswer, Moves, Released, k
  <2>2. CallSound(c)' /\ ChannelSound(c)'
    BY <1>1, <1>3, <1>5, <1>14, <2>1
       DEF TakesAnswer, CallSound, ChannelSound, WaitsForKey, Written, HasAnswer, k
  <2> QED
    BY <1>1, <1>4, <1>5, <2>1, <2>2
<1> QED
  BY <1>6, <1>8, <1>9, <1>10, <1>11, <1>12, <1>13, <1>14 DEF CallStep

-----------------------------------------------------------------------------
(* SessionRequests, and the gate *)

HoldTypes ==
  /\ holds \in [Operations -> [Locks -> {"no", "held", "released"}]]
  /\ pending \subseteq Locks

(* Nobody holds anything yet (SessionRequests).                            *)
LEMMA HoldInit == OutputInit => HoldTypes /\ OneHolderAtATime
BY DEF OutputInit, HoldTypes, OneHolderAtATime, Locks

(* A lock that nobody holds is taken, and a release counts once (Acquire). *)
LEMMA HoldStep ==
  ASSUME HoldTypes, OneHolderAtATime, NEW o \in Operations, NEW lock \in Locks,
         Acquires(o, lock) \/ Releases(o, lock)
  PROVE  HoldTypes' /\ OneHolderAtATime'
<1> DEFINE Kept == \A d \in Operations, l \in Locks : d # o \/ l # lock =>
                       holds'[d][l] = holds[d][l]
<1>1. CASE Acquires(o, lock)
  <2>1. HoldTypes' /\ Kept /\ holds'[o][lock] = "held"
    BY <1>1 DEF Acquires, HoldTypes
  <2>2. \A d \in Operations : holds[d][lock] # "held"
    BY <1>1 DEF Acquires, OneHolderAtATime
  <2>3. pending' = pending \cup {lock}
    BY <1>1 DEF Acquires
  <2> QED
    BY <2>1, <2>2, <2>3 DEF OneHolderAtATime
<1>2. CASE Releases(o, lock)
  <2>1. HoldTypes' /\ Kept /\ holds'[o][lock] = "released"
    BY <1>2 DEF Releases, HoldTypes
  <2>2. pending' = IF holds[o][lock] = "held" THEN pending \ {lock} ELSE pending
    BY <1>2 DEF Releases, StillHeld
  <2>3. holds[o][lock] = "held" => \A d \in Operations \ {o} : holds[d][lock] # "held"
    BY DEF OneHolderAtATime
  <2> QED
    BY <2>1, <2>2, <2>3 DEF OneHolderAtATime
<1> QED
  BY <1>1, <1>2

-----------------------------------------------------------------------------
(* Compactions *)

(* What the host was shown of an attempt is what is recorded of it, or an  *)
(* earlier state of it; ids are given out once.                            *)
ShownFits(i) ==
  LET s == shown[i]
  IN  /\ s \in Compaction /\ s.id < events
      /\ s.key # Uncorrelated =>
           LET a == attempts[s.key]
           IN  /\ a # Nothing /\ a.id = s.id
               /\ a.status = "in_progress" => s.status = "in_progress"
               /\ s.trigger # Nothing => a.trigger # Nothing
      /\ \A k \in Attempts \ {s.key} : attempts[k] # Nothing => attempts[k].id # s.id

CompactionInv ==
  /\ events \in Nat
  /\ attempts \in [Attempts -> Compaction \cup {Nothing}]
  /\ \A k \in Attempts : attempts[k] # Nothing => attempts[k].id < events
  /\ \A k, l \in Attempts :
       k # l /\ attempts[k] # Nothing /\ attempts[l] # Nothing => attempts[k].id # attempts[l].id
  /\ shown \in Seq(Compaction)
  /\ \A i \in DOMAIN shown : ShownFits(i)
  /\ AttemptsAreSeenOnce

(* Nothing was compacted or shown yet (Compactions).                       *)
LEMMA CompactionInit == OutputInit => CompactionInv
BY DEF OutputInit, CompactionInv, ShownFits, AttemptsAreSeenOnce

(* A report is dropped, or is the next state of an attempt the host can    *)
(* tell from all others (Publish).                                         *)
LEMMA CompactionStep ==
  ASSUME CompactionInv, NEW key \in Attempts \cup {Uncorrelated}, NEW status \in Statuses,
         NEW trigger \in Triggers \cup {Nothing}, PublishesCompaction(key, status, trigger)
  PROVE  CompactionInv'
<1> USE SessionOutputAssumption, NothingIsNoCompaction
<1>1. CASE AlreadyPublished(key, status)
  <2>1. events' = events + 1 /\ UNCHANGED <<attempts, shown>>
    BY <1>1 DEF PublishesCompaction
  <2>2. events \in Nat /\ events' \in Nat
    BY <2>1 DEF CompactionInv
  <2>3. ASSUME NEW id \in Nat, id < events PROVE id < events'
    BY <2>1, <2>2, <2>3
  <2>4. \A k \in Attempts : attempts[k] # Nothing => attempts[k].id < events'
    BY <2>3 DEF CompactionInv, Compaction
  <2>5. \A i \in DOMAIN shown : ShownFits(i)'
    BY <2>1, <2>3 DEF CompactionInv, ShownFits, Compaction
  <2> QED
    BY <2>1, <2>2, <2>4, <2>5 DEF CompactionInv, AttemptsAreSeenOnce
<1>2. CASE ~AlreadyPublished(key, status)
  <2> DEFINE previous == Previous(key)
             value == Transition(key, status, trigger)
             n == Len(shown)
  <2>1. /\ key = Uncorrelated => status # "in_progress" /\ previous = Nothing
        /\ key # Uncorrelated => key \in Attempts /\ previous = attempts[key]
        /\ previous \in Compaction \cup {Nothing}
        /\ previous # Nothing => previous.status = "in_progress" /\ status # "in_progress"
    BY <1>2 DEF PublishesCompaction, CompactionInv, Previous, AlreadyPublished, Uncorrelated
  <2>2. /\ value \in Compaction
        /\ value.key = key /\ value.status = status
        /\ value.id = IF previous = Nothing THEN events ELSE previous.id
        /\ previous # Nothing /\ previous.trigger # Nothing => value.trigger # Nothing
    BY <2>1 DEF Transition, Compaction, CompactionInv, Uncorrelated
  <2>3. /\ events' = events + 1
        /\ attempts' = IF key = Uncorrelated THEN attempts ELSE [attempts EXCEPT ![key] = value]
        /\ shown' = shown \/ shown' = Append(shown, value)
    BY <1>2 DEF PublishesCompaction
  <2> HIDE DEF previous, value
  <2>4. \A k \in Attempts :
          attempts'[k] = IF k = key THEN value ELSE attempts[k]
    BY <2>1, <2>3 DEF CompactionInv, Uncorrelated
  <2>5. value.id < events' /\ events' \in Nat /\ events \in Nat /\ value.id \in Nat
    BY <2>1, <2>2, <2>3 DEF CompactionInv, Compaction
  <2>6. ASSUME NEW k \in Attempts \ {key}, attempts[k] # Nothing PROVE attempts[k].id # value.id
    BY <2>1, <2>2, <2>5, <2>6 DEF CompactionInv, Compaction
  <2>7. ASSUME NEW i \in DOMAIN shown
        PROVE  IF shown[i].key = key /\ key # Uncorrelated
               THEN /\ previous # Nothing /\ shown[i].status = "in_progress"
                    /\ shown[i].id = value.id
                    /\ shown[i].trigger # Nothing => value.trigger # Nothing
               ELSE shown[i].id # value.id
    <3>1. ShownFits(i) /\ shown[i].id \in Nat
      BY DEF CompactionInv, ShownFits, Compaction
    <3>2. CASE shown[i].key = key /\ key # Uncorrelated
      BY <2>1, <2>2, <3>1, <3>2 DEF ShownFits
    <3>3. CASE ~(shown[i].key = key /\ key # Uncorrelated)
      <4>1. CASE previous = Nothing
        BY <2>2, <2>5, <3>1, <3>3, <4>1 DEF ShownFits
      <4>2. CASE previous # Nothing
        BY <2>1, <2>2, <3>1, <3>3, <4>2 DEF ShownFits
      <4> QED
        BY <4>1, <4>2
    <3> QED
      BY <3>2, <3>3
  <2>8. /\ shown' \in Seq(Compaction)
        /\ \A i \in DOMAIN shown : i \in DOMAIN shown' /\ shown'[i] = shown[i]
        /\ \A i \in DOMAIN shown' \ DOMAIN shown : i = n + 1 /\ shown'[i] = value
        /\ n \in Nat /\ DOMAIN shown = 1 .. n
    <3>1. shown \in Seq(Compaction) /\ n \in Nat /\ DOMAIN shown = 1 .. n
      BY DEF CompactionInv
    <3>2. CASE shown' = shown
      BY <3>1, <3>2
    <3>3. CASE shown' = Append(shown, value)
      <4>1. /\ shown' \in Seq(Compaction) /\ Len(shown') = n + 1
            /\ \A i \in 1 .. n : shown'[i] = shown[i]
            /\ shown'[n + 1] = value
        BY <2>2, <3>1, <3>3, AppendProperties
      <4>2. DOMAIN shown' = 1 .. n + 1
        BY <4>1
      <4> QED
        BY <3>1, <4>1, <4>2
    <3> QED
      BY <2>3, <3>2, <3>3
  <2> HIDE DEF n
  <2>9. ASSUME NEW i \in DOMAIN shown' PROVE ShownFits(i)'
    <3>1. CASE i \in DOMAIN shown
      <4>1. shown'[i] = shown[i] /\ ShownFits(i) /\ shown[i].id \in Nat
        BY <2>8, <3>1 DEF CompactionInv, ShownFits, Compaction
      <4>2. shown[i].key \in Attempts \cup {Nothing}
        BY <4>1 DEF ShownFits, Compaction
      <4>3. CASE shown[i].key = key /\ key # Uncorrelated
        BY <2>1, <2>2, <2>3, <2>4, <2>5, <2>7, <3>1, <4>1, <4>2, <4>3 DEF ShownFits, Uncorrelated
      <4>4. CASE ~(shown[i].key = key /\ key # Uncorrelated)
        BY <2>1, <2>2, <2>3, <2>4, <2>5, <2>7, <3>1, <4>1, <4>2, <4>4 DEF ShownFits, Uncorrelated
      <4> QED
        BY <4>3, <4>4
    <3>2. CASE i \notin DOMAIN shown
      <4>1. shown'[i] = value
        BY <2>8, <3>2
      <4> QED
        BY <2>1, <2>2, <2>4, <2>5, <2>6, <4>1 DEF ShownFits, Uncorrelated
    <3> QED
      BY <3>1, <3>2
  <2>10. AttemptsAreSeenOnce'
    <3> SUFFICES ASSUME NEW i \in DOMAIN shown', NEW j \in DOMAIN shown', i < j
                 PROVE  IF shown'[i].key = shown'[j].key /\ shown'[i].key # Uncorrelated
                        THEN /\ shown'[i].status = "in_progress"
                             /\ shown'[j].status # "in_progress"
                             /\ shown'[i].id = shown'[j].id
                             /\ shown'[i].trigger # Nothing => shown'[j].trigger # Nothing
                        ELSE shown'[i].id # shown'[j].id
      BY DEF AttemptsAreSeenOnce
    <3>1. CASE j \in DOMAIN shown
      <4>1. i \in DOMAIN shown
        BY <2>8, <3>1
      <4> QED
        BY <2>8, <3>1, <4>1 DEF CompactionInv, AttemptsAreSeenOnce
    <3>2. CASE j \notin DOMAIN shown
      <4>1. shown'[j] = value /\ i \in DOMAIN shown /\ shown'[i] = shown[i]
        BY <2>8, <3>2
      <4> QED
        BY <2>1, <2>2, <2>7, <4>1
    <3> QED
      BY <3>1, <3>2
  <2>11. /\ attempts' \in [Attempts -> Compaction \cup {Nothing}]
         /\ \A k \in Attempts : attempts'[k] # Nothing => attempts'[k].id < events'
         /\ \A k, l \in Attempts :
              k # l /\ attempts'[k] # Nothing /\ attempts'[l] # Nothing
                => attempts'[k].id # attempts'[l].id
    <3>1. attempts' \in [Attempts -> Compaction \cup {Nothing}]
      BY <2>2, <2>3 DEF CompactionInv
    <3>2. \A k \in Attempts : attempts[k] # Nothing => attempts[k].id \in Nat
      BY DEF CompactionInv, Compaction
    <3>3. \A k \in Attempts : attempts'[k] # Nothing => attempts'[k].id < events'
      BY <2>3, <2>4, <2>5, <3>2 DEF CompactionInv
    <3>4. \A k, l \in Attempts :
            k # l /\ attempts'[k] # Nothing /\ attempts'[l] # Nothing
              => attempts'[k].id # attempts'[l].id
      BY <2>4, <2>6 DEF CompactionInv
    <3> QED
      BY <3>1, <3>3, <3>4
  <2>12. events' \in Nat /\ shown' \in Seq(Compaction)
    BY <2>5, <2>8
  <2>13. \A i \in DOMAIN shown' : ShownFits(i)'
    BY <2>9
  <2> QED
    BY <2>10, <2>11, <2>12, <2>13 DEF CompactionInv
<1> QED
  BY <1>1, <1>2

-----------------------------------------------------------------------------
(* RawEvents *)

RawPayload == [number : Nat, event : {"given", "truncated"}]

RawInv == shown \in Seq(RawPayload) /\ RawEventsAreContiguous

(* Every delivered event has the next number (Emit).                       *)
LEMMA RawStep ==
  ASSUME RawInv, EmitsRaw
  PROVE  RawInv'
<1>1. PICK delivered \in BOOLEAN, payload \in Payloads :
        /\ sequence' = NextSequence(delivered)
        /\ shown' = IF delivered THEN Append(shown, payload) ELSE shown
  BY DEF EmitsRaw
<1>2. shown \in Seq(RawPayload) /\ sequence = Len(shown) /\ Len(shown) \in Nat
  BY DEF RawInv, RawEventsAreContiguous
<1>3. CASE delivered
  <2>1. payload \in RawPayload /\ payload.number = Len(shown) + 1
    BY <1>2 DEF Payloads, RawPayload
  <2>2. /\ shown' \in Seq(RawPayload) /\ Len(shown') = Len(shown) + 1
        /\ \A i \in 1 .. Len(shown) : shown'[i] = shown[i]
        /\ shown'[Len(shown) + 1] = payload
    BY <1>1, <1>2, <1>3, <2>1, AppendProperties
  <2>3. \A i \in DOMAIN shown' : shown'[i].number = i
    BY <1>2, <2>1, <2>2 DEF RawInv, RawEventsAreContiguous
  <2>4. sequence' = Len(shown')
    BY <1>1, <1>2, <1>3, <2>2 DEF NextSequence
  <2> QED
    BY <2>2, <2>3, <2>4 DEF RawInv, RawEventsAreContiguous
<1>4. CASE ~delivered
  BY <1>1, <1>4 DEF NextSequence, RawInv, RawEventsAreContiguous
<1> QED
  BY <1>3, <1>4

-----------------------------------------------------------------------------
(* StreamedText *)

TextInv ==
  /\ full \in Nat /\ finals \in Nat
  /\ text = shown /\ text \in Seq(1 .. full)
  /\ ~dropped => text = Final
  /\ TextIsAppendOnly

(* The whole text is a sequence that rises (Suffix).                       *)
LEMMA FinalRises ==
  ASSUME full \in Nat
  PROVE  Final \in Seq(1 .. full) /\ Len(Final) = full /\ \A i \in 1 .. full : Final[i] = i
<1>1. Final \in [1 .. full -> 1 .. full]
  BY DEF Final
<1> QED
  BY <1>1 DEF Final

(* A delta is behind all that was streamed (Add).                          *)
LEMMA ChunkStep ==
  ASSUME TextInv, StreamsChunk
  PROVE  TextInv'
<1>1. /\ full \in Nat /\ full' = full + 1 /\ finals = 0 /\ finals' = finals
      /\ text = shown /\ text \in Seq(1 .. full')
  <2>1. 1 .. full \subseteq 1 .. full + 1
    BY DEF TextInv
  <2>2. text \in Seq(1 .. full + 1)
    BY <2>1 DEF TextInv
  <2> QED
    BY <2>2 DEF TextInv, StreamsChunk
<1>2. CASE text' = Append(text, full + 1) /\ shown' = text' /\ dropped' = dropped
  <2>1. /\ text' \in Seq(1 .. full') /\ Len(text') = Len(text) + 1
        /\ \A i \in 1 .. Len(text) : text'[i] = text[i]
        /\ text'[Len(text) + 1] = full'
        /\ Len(text) \in Nat
    <3>1. full + 1 \in 1 .. full'
      BY <1>1
    <3> QED
      BY <1>1, <1>2, <3>1, AppendProperties
  <2>2. \A i, j \in DOMAIN shown' : i < j => shown'[i] < shown'[j]
    <3> SUFFICES ASSUME NEW i \in DOMAIN text', NEW j \in DOMAIN text', i < j
                 PROVE  text'[i] < text'[j]
      BY <1>2
    <3>1. i \in 1 .. Len(text) /\ text[i] \in 1 .. full /\ text'[i] = text[i]
      BY <2>1 DEF TextInv
    <3>2. CASE j = Len(text) + 1
      BY <1>1, <2>1, <3>1, <3>2
    <3>3. CASE j # Len(text) + 1
      <4>1. j \in 1 .. Len(text) /\ text'[j] = text[j]
        BY <2>1, <3>3
      <4>2. DOMAIN shown = 1 .. Len(text)
        BY <1>1
      <4>3. text[i] < text[j]
        BY <1>1, <3>1, <4>1, <4>2 DEF TextInv, TextIsAppendOnly
      <4> QED
        BY <3>1, <4>1, <4>3
    <3> QED
      BY <3>2, <3>3
  <2>3. ~dropped => text' = Final'
    <3> SUFFICES ASSUME ~dropped PROVE text' = Final'
      OBVIOUS
    <3>1. text = Final
      BY DEF TextInv
    <3>2. Final' = [i \in 1 .. full' |-> i]
      BY DEF Final
    <3>3. Len(text) = full /\ \A i \in 1 .. full : text[i] = i
      BY <1>1, <3>1, FinalRises
    <3>4. text' \in [1 .. full' -> 1 .. full'] /\ \A i \in 1 .. full' : text'[i] = i
      BY <1>1, <2>1, <3>3
    <3> QED
      BY <3>2, <3>4
  <2> QED
    BY <1>1, <1>2, <2>1, <2>2, <2>3 DEF TextInv, TextIsAppendOnly
<1>3. CASE dropped' = TRUE /\ UNCHANGED <<text, shown>>
  BY <1>1, <1>3 DEF TextInv, TextIsAppendOnly
<1> QED
  BY <1>2, <1>3 DEF StreamsChunk

(* A final text adds what is missing behind a text it extends, and nothing *)
(* behind another (Suffix).                                                *)
LEMMA FinalStep ==
  ASSUME TextInv, FinalComes
  PROVE  TextInv'
<1> DEFINE suffix == UnstreamedSuffix(text, Final)
<1>1. /\ text' = text \o suffix /\ shown' = text' /\ text = shown
      /\ finals' = finals + 1 /\ full' = full /\ dropped' = dropped /\ Final' = Final
  BY DEF TextInv, FinalComes, Final
<1>2. Final \in Seq(1 .. full) /\ Len(Final) = full /\ \A i \in 1 .. full : Final[i] = i
  BY FinalRises DEF TextInv
<1>3. CASE IsPrefix(text, Final)
  <2>1. text = SubSeq(Final, 1, Len(text)) /\ Len(text) \in 0 .. full
    <3>1. Len(text) <= Len(Final) /\ SubSeq(text, 1, Len(text)) = SubSeq(Final, 1, Len(text))
      BY <1>3 DEF IsPrefix
    <3>2. text \in Seq(1 .. full)
      BY DEF TextInv
    <3>3. SubSeq(text, 1, Len(text)) = text
      BY <3>2, SubSeqFull
    <3> QED
      BY <1>2, <3>1, <3>2, <3>3
  <2>2. suffix = SubSeq(Final, Len(text) + 1, full)
    BY <1>2, <1>3 DEF UnstreamedSuffix
  <2>3. SubSeq(Final, 1, Len(text)) \o SubSeq(Final, Len(text) + 1, full) = SubSeq(Final, 1, full)
    <3>1. ASSUME NEW S, NEW t \in Seq(S), NEW n \in 0 .. Len(t)
          PROVE  SubSeq(t, 1, n) \o SubSeq(t, n + 1, Len(t)) = SubSeq(t, 1, Len(t))
      <4>1. /\ 1 \in 1 .. Len(t) + 1 /\ n \in 1 - 1 .. Len(t) /\ Len(t) \in n .. Len(t)
        OBVIOUS
      <4> QED
        BY <4>1, ConcatAdjacentSubSeq
    <3> QED
      BY <1>2, <2>1, <3>1
  <2>4. SubSeq(Final, 1, full) = Final
    BY <1>2, SubSeqFull
  <2>5. text' = Final
    BY <1>1, <2>1, <2>2, <2>3, <2>4
  <2> QED
    BY <1>1, <1>2, <2>5 DEF TextInv, TextIsAppendOnly
<1>4. CASE ~IsPrefix(text, Final)
  <2>1. text' = text
    BY <1>1, <1>4, ConcatEmptySeq DEF UnstreamedSuffix, TextInv
  <2> QED
    BY <1>1, <2>1 DEF TextInv, TextIsAppendOnly
<1> QED
  BY <1>3, <1>4

-----------------------------------------------------------------------------
(* All the parts together *)

OutputInv ==
  /\ part \in Parts
  /\ CallInv
  /\ HoldTypes /\ OneHolderAtATime
  /\ part = "compactions" => CompactionInv
  /\ part = "raw" => RawInv
  /\ part = "text" => TextInv

(* A session that has sent nothing (Init).                                 *)
LEMMA OutputStarts == OutputInit => OutputInv
<1> SUFFICES ASSUME OutputInit PROVE OutputInv
  OBVIOUS
<1>1. shown \in Seq(RawPayload) /\ RawInv
  BY DEF OutputInit, RawInv, RawEventsAreContiguous
<1>2. TextInv
  <2>1. text = <<>> /\ full = 0 /\ finals = 0 /\ shown = <<>> /\ dropped = FALSE
    BY DEF OutputInit
  <2>2. Final = <<>>
    BY <2>1 DEF Final
  <2> QED
    BY <2>1, <2>2 DEF TextInv, TextIsAppendOnly
<1> QED
  BY <1>1, <1>2, CallInit, HoldInit, CompactionInit DEF OutputInv, OutputInit

(* Each step belongs to one part and leaves the others as they were.       *)
LEMMA OutputStep == OutputInv /\ [OutputNext]_outputVars => OutputInv'
<1> SUFFICES ASSUME OutputInv, [OutputNext]_outputVars PROVE OutputInv'
  OBVIOUS
<1>1. UNCHANGED calls => CallInv'
  BY DEF OutputInv, calls, CallInv, CallTypes, CallSound, ChannelSound, WaitsForKey, Written,
         HasAnswer
<1>2. UNCHANGED reservations => HoldTypes' /\ OneHolderAtATime'
  BY DEF OutputInv, reservations, HoldTypes, OneHolderAtATime
<1>3. UNCHANGED <<part, notices, texts>> =>
        /\ part' \in Parts
        /\ (part = "compactions" => CompactionInv)' /\ (part = "raw" => RawInv)'
        /\ (part = "text" => TextInv)'
  BY DEF OutputInv, notices, texts, CompactionInv, ShownFits, AttemptsAreSeenOnce,
         RawInv, RawEventsAreContiguous, TextInv, TextIsAppendOnly, Final
<1>4. CASE UNCHANGED outputVars
  BY <1>1, <1>2, <1>3, <1>4 DEF OutputInv, outputVars
<1>5. CASE \E c \in Callers : Begins(c) \/ CallStep(c) \/ ClientAnswers(c) \/ CallIsCancelled(c)
  <2>1. PICK c \in Callers : Begins(c) \/ CallStep(c) \/ ClientAnswers(c) \/ CallIsCancelled(c)
    BY <1>5
  <2>2. UNCHANGED Others
    BY <2>1 DEF Begins, CallStep, ClientAnswers, CallIsCancelled, FrameIsOut, SendFails,
                FrameIsObserved, CloseCancels, WaitsForWrite, Announces, TakesAnswer
  <2>3. CallInv'
    BY <2>1, CallerStep DEF OutputInv
  <2> QED
    BY <1>2, <1>3, <2>2, <2>3 DEF OutputInv, Others
<1>6. CASE TransportCloses
  <2>1. UNCHANGED <<call, send, written, observed, announced, Others>>
    BY <1>6 DEF TransportCloses
  <2>2. CallInv'
    BY <2>1 DEF OutputInv, CallInv, CallTypes, CallSound, ChannelSound, WaitsForKey, Written,
                HasAnswer
  <2> QED
    BY <1>2, <1>3, <2>1, <2>2 DEF OutputInv, Others
<1>7. ASSUME NEW key \in Attempts \cup {Uncorrelated}, NEW status \in Statuses,
             NEW trigger \in Triggers \cup {Nothing}, PublishesCompaction(key, status, trigger)
      PROVE  OutputInv'
  <2>1. part = "compactions" /\ UNCHANGED <<part, calls, reservations>>
    BY <1>7 DEF PublishesCompaction
  <2>2. CompactionInv'
    BY <1>7, <2>1, CompactionStep DEF OutputInv
  <2> QED
    BY <1>1, <1>2, <2>1, <2>2 DEF OutputInv
<1>8. CASE EmitsRaw
  <2>1. part = "raw" /\ UNCHANGED <<part, calls, reservations>>
    BY <1>8 DEF EmitsRaw
  <2>2. RawInv'
    BY <1>8, <2>1, RawStep DEF OutputInv
  <2> QED
    BY <1>1, <1>2, <2>1, <2>2 DEF OutputInv
<1>9. CASE StreamsChunk \/ FinalComes
  <2>1. part = "text" /\ UNCHANGED <<part, calls, reservations>>
    BY <1>9 DEF StreamsChunk, FinalComes
  <2>2. TextInv'
    BY <1>9, <2>1, ChunkStep, FinalStep DEF OutputInv
  <2> QED
    BY <1>1, <1>2, <2>1, <2>2 DEF OutputInv
<1>10. CASE \E o \in Operations, lock \in Locks : Acquires(o, lock) \/ Releases(o, lock)
  <2>1. HoldTypes' /\ OneHolderAtATime' /\ UNCHANGED <<part, calls, notices, texts>>
    BY <1>10, HoldStep DEF OutputInv, Acquires, Releases
  <2> QED
    BY <1>1, <1>3, <2>1 DEF OutputInv
<1> QED
  BY <1>4, <1>5, <1>6, <1>7, <1>8, <1>9, <1>10 DEF OutputNext

(* The strengthening holds throughout: where a call stands goes with where *)
(* its request is, and what was shown with what is recorded.               *)
THEOREM OutputInvHolds == OutputSpec => []OutputInv
BY OutputStarts, OutputStep, PTL DEF OutputSpec

(* An action is announced once, behind its written request, and always if  *)
(* the client answered it (CallAndAnnounce).                               *)
THEOREM AnnouncedBehindWrite == OutputSpec => []AnnouncedWhenWritten
<1>1. OutputInv => AnnouncedWhenWritten
  BY DEF OutputInv, CallInv, CallTypes, CallSound, ChannelSound, WaitsForKey, Written,
         AnnouncedWhenWritten
<1> QED
  BY <1>1, OutputInvHolds, PTL

(* Compactions, raw events and streamed text reach the host once each      *)
(* (Publish, Emit, Suffix).                                                *)
THEOREM SeenOnce == OutputSpec => []HostSeesEachOnce
<1>1. OutputInv => HostSeesEachOnce
  BY DEF OutputInv, CompactionInv, RawInv, TextInv, HostSeesEachOnce
<1> QED
  BY <1>1, OutputInvHolds, PTL

(* A session, and its gate, have one holder at a time (Acquire,            *)
(* AcquireSessionGate).                                                    *)
THEOREM OneHolder == OutputSpec => []OneHolderAtATime
<1>1. OutputInv => OneHolderAtATime
  BY DEF OutputInv
<1> QED
  BY <1>1, OutputInvHolds, PTL

===============================================================================
