------------------------------ MODULE Transport ------------------------------
(***************************************************************************)
(* The transport of one connection (wire/transport.go): it reads every     *)
(* request before its handler does and sees every response after it was    *)
(* written, so that a session's opening publication follows the response   *)
(* that establishes the session, and prompts wait for that publication.    *)
(*                                                                         *)
(* Every request has a handler of its own.  A response is written in one   *)
(* step and observed in a later one, for the writer locks the transport    *)
(* only after the bytes have gone out.  A channel is named by the request  *)
(* whose publication closes it.  A prompt's params are their lifecycle     *)
(* value, the part by which the transport tells prompts apart, and a queue *)
(* of recorded params is the set of their requests: ids grow with arrival. *)
(***************************************************************************)
EXTENDS Naturals

CONSTANTS
  None,
  Ids,        \* request ids in the order the client uses them, each only once
  Sessions,
  Values,     \* lifecycle values of the params of a request
  Offers,     \* bound on what the client may ask under each id
  MaxHooks    \* bounds on the registrations of the handlers

ASSUME TransportAssumption ==
  /\ Ids \subseteq Nat \ {0} /\ None \notin Nat
  /\ MaxHooks \in [Ids -> Nat]

Initialize == [method |-> "initialize"]
Request ==
  {Initialize}
    \cup [method : {"new"}, session : {None}]
    \cup [method : {"restore"}, session : Sessions]
    \cup [method : {"prompt"}, session : Sessions, value : Values]

ASSUME OffersAssumption == Offers \in [Ids -> SUBSET Request]

VARIABLES
  sent,          \* the requests the client has sent
  handlers,      \* their handlers and how far they are
  requests,      \* Transport.requests: read and not yet answered
  raw,           \* Transport.raw
  hooks,         \* Transport.hooks: publications whose response is to come
  ready,         \* Transport.ready: the last publication of each session
  publications,  \* the goroutines of publishOpening
  closed,        \* the channels that were closed
  cancelled,     \* Close was called
  opened,        \* history: how many publications were registered
  turn           \* history: which of them is that of each request

requestVars == <<sent, requests, raw>>
openingVars == <<hooks, ready, publications, closed, opened, turn>>
vars == <<sent, handlers, requests, raw, hooks, ready, publications, closed,
          cancelled, opened, turn>>

(* A prompt's own wait: not begun, blocked on a channel, over.             *)
Handler == [at : {"unread", "running", "written", "lost", "answered"},
            ok : BOOLEAN, hook : Nat,
            took : Ids \cup {None, 0},
            wait : {"no", "blocked", "admitted", "refused"}, on : Ids \cup {None}]

Publication == [session : Sessions, hook : Nat, previous : Ids \cup {None}]
Goroutine == [publication : Publication, success : BOOLEAN,
              at : {"waiting", "publishing", "done"}]

(* None stands for a map's missing value. *)
ASSUME NoneIsNoRecord ==
  None \notin Request /\ None \notin Publication /\ None \notin Goroutine

(* The records of initialize have a key of their own (rawKeyPrompt).       *)
ASSUME InitializeIsNoSession == "initialize" \notin Sessions

Keys == {"initialize"} \cup Sessions

Unread == [at |-> "unread", ok |-> FALSE, hook |-> 0, took |-> None,
           wait |-> "no", on |-> None]

Init ==
  /\ sent = [id \in Ids |-> None]
  /\ handlers = [id \in Ids |-> Unread]
  /\ requests = [id \in Ids |-> None]
  /\ raw = [key \in Keys |-> {}]
  /\ hooks = [id \in Ids |-> None]
  /\ ready = [s \in Sessions |-> None]
  /\ publications = [id \in Ids |-> None]
  /\ closed = {}
  /\ cancelled = FALSE
  /\ opened = 0
  /\ turn = [id \in Ids |-> 0]

-----------------------------------------------------------------------------
(* Requests and their raw params *)

KeyOf(request) ==
  IF request.method = "initialize" THEN "initialize" ELSE request.session

Recorded(request) == request.method \in {"initialize", "prompt"}

(* The reader records a request before its handler starts.                 *)
Read(id, request) ==
  /\ sent[id] = None
  /\ \A earlier \in Ids : earlier < id => sent[earlier] # None
  /\ sent' = [sent EXCEPT ![id] = request]
  /\ requests' = [requests EXCEPT ![id] = request]
  /\ raw' = IF Recorded(request)
            THEN [raw EXCEPT ![KeyOf(request)] = @ \cup {id}]
            ELSE raw
  /\ handlers' = [handlers EXCEPT ![id].at = "running"]
  /\ UNCHANGED <<openingVars, cancelled>>

Running(id) == handlers[id].at = "running" /\ handlers[id].wait # "blocked"

(* Faulty variant: a prompt may take any record of its session.            *)
CandidatesAny(id, queue) == queue

(* The records that may be a handler's: of prompts, those with the value   *)
(* that its own params were decoded to.                                    *)
Candidates(id, queue) ==
  IF sent[id].method = "initialize" THEN queue
  ELSE {other \in queue : sent[other].value = sent[id].value}

Oldest(queue) == {id \in queue : \A other \in queue : id <= other}

(* A handler takes its params, once; 0 are none. *)
TakeRaw(id) ==
  /\ Running(id) /\ Recorded(sent[id]) /\ handlers[id].took = None
  /\ LET key == KeyOf(sent[id])
         candidates == Candidates(id, raw[key])
     IN  \/ /\ candidates = {}
            /\ handlers' = [handlers EXCEPT ![id].took = 0]
            /\ UNCHANGED raw
         \/ \E record \in Oldest(candidates) :
              /\ handlers' = [handlers EXCEPT ![id].took = record]
              /\ raw' = [raw EXCEPT ![key] = @ \ {record}]
  /\ UNCHANGED <<sent, requests, openingVars, cancelled>>

-----------------------------------------------------------------------------
(* Opening publications *)

MayOpen(request, s) ==
  /\ request # None
  /\ request.method \in {"new", "restore"}
  /\ request.method = "restore" => request.session = s

(* Faulty variant: a publication does not know its predecessor. *)
ChainedToNone(s, hook) == [session |-> s, hook |-> hook, previous |-> None]

(* A publication waits for the one registered last for its session.        *)
Chained(s, hook) == [session |-> s, hook |-> hook, previous |-> ready[s]]

(* A refused registration changes nothing; a second one replaces the hook  *)
(* of the first.                                                           *)
RegisterHook(id, s) ==
  /\ Running(id) /\ handlers[id].hook < MaxHooks[id]
  /\ MayOpen(requests[id], s)
  /\ LET hook == handlers[id].hook + 1
     IN  /\ handlers' = [handlers EXCEPT ![id].hook = hook]
         /\ IF hooks[id] # None
            THEN /\ hooks' = [hooks EXCEPT ![id].hook = hook]
                 /\ UNCHANGED <<ready, opened, turn>>
            ELSE /\ hooks' = [hooks EXCEPT ![id] = Chained(s, hook)]
                 /\ ready' = [ready EXCEPT ![s] = id]
                 /\ opened' = opened + 1
                 /\ turn' = [turn EXCEPT ![id] = opened + 1]
  /\ UNCHANGED <<requestVars, publications, closed, cancelled>>

(* A handler answers, and the complete frame goes out. *)
Respond(id, ok) ==
  /\ Running(id)
  /\ handlers' = [handlers EXCEPT ![id].at = "written", ![id].ok = ok]
  /\ UNCHANGED <<requestVars, openingVars, cancelled>>

(* The write fails; no complete frame went out. *)
LoseResponse(id) ==
  /\ Running(id)
  /\ handlers' = [handlers EXCEPT ![id].at = "lost"]
  /\ UNCHANGED <<requestVars, openingVars, cancelled>>

(* Faulty variant: an answered request keeps its publication. *)
HooksAfterKeeping(id) == hooks

HooksAfter(id) == [hooks EXCEPT ![id] = None]

(* The writer sees the response it wrote: the request is over, its record  *)
(* is dropped, and its publication starts.                                 *)
ObserveResponse(id) ==
  /\ handlers[id].at = "written"
  /\ handlers' = [handlers EXCEPT ![id].at = "answered"]
  /\ requests' = [requests EXCEPT ![id] = None]
  /\ raw' = IF Recorded(sent[id]) THEN [raw EXCEPT ![KeyOf(sent[id])] = @ \ {id}]
                                  ELSE raw
  /\ hooks' = HooksAfter(id)
  /\ publications' =
       IF hooks[id] = None THEN publications
       ELSE [publications EXCEPT ![id] =
               [publication |-> hooks[id], success |-> handlers[id].ok, at |-> "waiting"]]
  /\ UNCHANGED <<sent, ready, closed, cancelled, opened, turn>>

Waits(id) == publications[id] # None /\ publications[id].at = "waiting"
Publishes(id) == publications[id] # None /\ publications[id].at = "publishing"

(* The last publication of a session, once this one is over. *)
LastAfter(id) ==
  LET s == publications[id].publication.session
  IN  [ready EXCEPT ![s] = IF @ = id THEN None ELSE @]

(* Faulty variant: the publication of a failed request is just dropped. *)
ClosedOnSuccess(id) ==
  IF publications[id].success THEN closed \cup {id} ELSE closed

ClosedAfter(id) == closed \cup {id}

Finish(id) ==
  /\ ready' = LastAfter(id)
  /\ closed' = ClosedAfter(id)
  /\ publications' = [publications EXCEPT ![id].at = "done"]
  /\ UNCHANGED <<requestVars, handlers, hooks, cancelled, opened, turn>>

ItsTurn(id) == publications[id].publication.previous \in {None} \cup closed

Publish(id) ==
  /\ Waits(id) /\ ItsTurn(id) /\ publications[id].success
  /\ publications' = [publications EXCEPT ![id].at = "publishing"]
  /\ UNCHANGED <<requestVars, handlers, hooks, ready, closed, cancelled, opened, turn>>

(* The request failed: its hook does not run. *)
Pass(id) == Waits(id) /\ ItsTurn(id) /\ ~publications[id].success /\ Finish(id)

(* The connection closed before its turn came. *)
GiveUp(id) ==
  /\ Waits(id) /\ cancelled /\ publications[id].publication.previous # None
  /\ Finish(id)

(* The hook returns. *)
HookReturns(id) == Publishes(id) /\ Finish(id)

-----------------------------------------------------------------------------
(* A prompt waits for its session *)

(* When a wait looks at the session: at first, and when the channel it     *)
(* slept on was closed.                                                    *)
MayLook(id) ==
  /\ handlers[id].at = "running"
  /\ \/ handlers[id].wait = "no"
     \/ handlers[id].wait = "blocked" /\ handlers[id].on \in closed

(* Faulty variant: a wait ends with the publication it slept on. *)
LookedOnce(id, last) ==
  IF last = None \/ handlers[id].wait = "blocked"
  THEN [handlers[id] EXCEPT !.wait = "admitted", !.on = None]
  ELSE [handlers[id] EXCEPT !.wait = "blocked", !.on = last]

Looked(id, last) ==
  IF last = None THEN [handlers[id] EXCEPT !.wait = "admitted", !.on = None]
  ELSE [handlers[id] EXCEPT !.wait = "blocked", !.on = last]

AwaitSession(id) ==
  /\ sent[id] # None /\ sent[id].method = "prompt"
  /\ MayLook(id)
  /\ handlers' = [handlers EXCEPT ![id] = Looked(id, ready[sent[id].session])]
  /\ UNCHANGED <<requestVars, openingVars, cancelled>>

AwaitRefused(id) ==
  /\ handlers[id].wait = "blocked"
  /\ handlers' = [handlers EXCEPT ![id].wait = "refused", ![id].on = None]
  /\ UNCHANGED <<requestVars, openingVars, cancelled>>

AwaitClosed(id) == cancelled /\ AwaitRefused(id)

(* The caller's own context ends. *)
AwaitCancelled(id) == AwaitRefused(id)

Close ==
  /\ ~cancelled
  /\ cancelled' = TRUE
  /\ UNCHANGED <<requestVars, handlers, openingVars>>

(* Whoever serves a connection that lost a frame ends it. *)
ServeEnds == Close /\ \E id \in Ids : handlers[id].at = "lost"

-----------------------------------------------------------------------------
(* Whether it is a result or an error matters to a publication only.       *)
Outcomes(id) == IF hooks[id] = None THEN {TRUE} ELSE BOOLEAN

Answer(id) == LoseResponse(id) \/ \E ok \in Outcomes(id) : Respond(id, ok)

Resume(id) == handlers[id].wait = "blocked" /\ AwaitSession(id)

Next ==
  \/ \E id \in Ids :
       \/ \E request \in Offers[id] : Read(id, request)
       \/ TakeRaw(id)
       \/ \E s \in Sessions : RegisterHook(id, s)
       \/ Answer(id)
       \/ ObserveResponse(id)
       \/ Publish(id) \/ Pass(id) \/ GiveUp(id) \/ HookReturns(id)
       \/ AwaitSession(id) \/ AwaitClosed(id) \/ AwaitCancelled(id)
  \/ Close

Spec == Init /\ [][Next]_vars

(* What a handler's goroutine does without being asked: it answers, its    *)
(* answer is written, and it wakes up.                                     *)
HandlerGoesOn(id) ==
  Answer(id) \/ ObserveResponse(id) \/ Resume(id) \/ AwaitClosed(id)

PublicationGoesOn(id) == Publish(id) \/ Pass(id) \/ GiveUp(id) \/ HookReturns(id)

(* A goroutine that can go on does, so handlers answer and hooks return,   *)
(* and a connection that lost a frame is closed.  Nobody has to send,      *)
(* register or cancel anything.                                            *)
Fairness ==
  /\ \A id \in Ids : WF_vars(HandlerGoesOn(id)) /\ WF_vars(PublicationGoesOn(id))
  /\ WF_vars(ServeEnds)

FairSpec == Spec /\ Fairness

-----------------------------------------------------------------------------
(* Properties *)

(* Types; a publication waits for its response exactly as long as the      *)
(* request is unanswered and it is registered (RegisterHook,               *)
(* observeOutboundFrame).                                                  *)
TypeOK ==
  /\ sent \in [Ids -> Request \cup {None}]
  /\ handlers \in [Ids -> Handler]
  /\ requests \in [Ids -> Request \cup {None}]
  /\ raw \in [Keys -> SUBSET Ids]
  /\ hooks \in [Ids -> Publication \cup {None}]
  /\ ready \in [Sessions -> Ids \cup {None}]
  /\ publications \in [Ids -> Goroutine \cup {None}]
  /\ closed \subseteq Ids
  /\ cancelled \in BOOLEAN
  /\ opened \in Nat
  /\ turn \in [Ids -> 0 .. opened]
  /\ \A id \in Ids :
       hooks[id] # None <=> turn[id] # 0 /\ requests[id] # None

Done(id) == publications[id] # None /\ publications[id].at = "done"

(* What was registered for a request. *)
OpeningOf(id) ==
  IF hooks[id] # None THEN hooks[id] ELSE publications[id].publication

(* The requests whose publications were registered for a session.          *)
Openings(s) == {id \in Ids : turn[id] # 0 /\ OpeningOf(id).session = s}

(* A publication runs its hook after its own successful response is out,   *)
(* and after every publication registered before it for the session.       *)
RunsInTurn(id) ==
  /\ handlers[id].at = "answered" /\ handlers[id].ok
  /\ publications[id].publication.hook = handlers[id].hook
  /\ \A earlier \in Openings(OpeningOf(id).session) :
       turn[earlier] < turn[id] => Done(earlier)

(* Successive publications of one session take turns in the order in which *)
(* they were registered, and each follows its own response, however the    *)
(* responses and the goroutines overtake each other, for as long as the    *)
(* connection is open (RegisterHook, publishOpening).                      *)
OpeningsTakeTurns ==
  ~cancelled => \A id \in Ids : Publishes(id) => RunsInTurn(id)

(* transport.go:369 promises it without that condition: "Successive        *)
(* publications for one session wait for their predecessors to finish."    *)
SuccessorsWait ==
  \A id \in Ids : Publishes(id) => RunsInTurn(id)

(* While the connection is open, AwaitSession admits a prompt only when no *)
(* publication of its session is left, those included that registered      *)
(* while it slept (AwaitSession).                                          *)
AdmittedBehindOpenings ==
  [][\A id \in Ids :
       (/\ ~cancelled
        /\ handlers[id].wait # "admitted" /\ handlers'[id].wait = "admitted")
       => \A opening \in Openings(sent[id].session) : Done(opening)]_vars

Alike(id, other) ==
  /\ sent[other] # None /\ sent[other].method = "prompt"
  /\ sent[other].session = sent[id].session
  /\ sent[other].value = sent[id].value

(* Concurrent prompts of a session do not swap their params: a prompt gets *)
(* its own, or those of a prompt that carries the same lifecycle value,    *)
(* and it finds none only when such a prompt took its own.  No record      *)
(* outlives its request (TakeRawPrompt, dropRaw).                          *)
PromptsKeepTheirParams ==
  /\ \A id \in Ids :
       sent[id] # None /\ sent[id].method = "prompt" /\ handlers[id].took # None =>
         \E other \in Ids :
           /\ Alike(id, other)
           /\ \/ handlers[id].took = other
              \/ handlers[id].took = 0 /\ other # id /\ handlers[other].took = id
  /\ \A key \in Keys : \A id \in raw[key] : requests[id] # None

(* Every call of AwaitSession returns: the publications before it come to  *)
(* an end, or the connection closes (AwaitSession, publishOpening, Close). *)
WaitersReturn ==
  \A id \in Ids :
    handlers[id].wait = "blocked" ~> handlers[id].wait \in {"admitted", "refused"}

=============================================================================
