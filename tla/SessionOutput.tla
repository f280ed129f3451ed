--------------------------- MODULE SessionOutput ---------------------------
(***************************************************************************)
(* What a session puts on the connection beside its lifecycle stream: the  *)
(* requests that announce an action (wire/actions.go), compactions         *)
(* (wire/compaction.go), raw events (wire/rawevents.go) and streamed text  *)
(* (wire/streamed_text.go); and the reservations that keep its             *)
(* establishing requests and operations apart (wire/sessions.go).          *)
(*                                                                         *)
(* These parts share nothing.  A behaviour follows one of them, which says *)
(* as much as their product and keeps it small.                            *)
(***************************************************************************)
EXTENDS Naturals, SequencesExt

CONSTANTS
  Nothing,
  Callers,    \* goroutines of CallAndAnnounce,
  ActionKey,  \* the key of the action that each of them asks about
  Embedded,   \* the callers that have no transport
  Attempts,   \* native keys of compactions
  MaxEvents,  \* bound on the native events of compactions, of raw events,
  MaxChunks,  \* and on the chunks of a streamed text
  Operations  \* goroutines that want the session for themselves

ASSUME SessionOutputAssumption ==
  /\ ActionKey \in [Callers -> STRING] /\ Embedded \subseteq Callers
  /\ Nothing \notin Callers \cup Attempts
  /\ MaxEvents \in Nat /\ MaxChunks \in Nat

VARIABLES
  part,        \* the part that is followed
  open,        \* Transport.ctx has not ended
  call, send,  \* each caller, and its goroutine that sends
  written,     \* Transport.written: whose channel waits for each key
  observed,      \* the callers whose channel was closed
  announced,   \* how often each of them announced
  events,      \* native events, of compactions or raw ones, so far
  attempts,    \* Compactions.attempts
  shown,       \* the notifications the host was given
  sequence,    \* RawEvents.sequence
  text,        \* what an item streamed: StreamedText's copy,
  dropped,     \* whether a chunk of it was not,
  full,        \* and how much of it there is
  finals,      \* how often its final text came
  pending,     \* SessionRequests.pending, and the session's gate
  holds        \* what each operation holds

calls == <<open, call, send, written, observed, announced>>
notices == <<events, attempts, shown, sequence>>
texts == <<text, dropped, full, finals>>
reservations == <<pending, holds>>
outputVars == <<part, calls, notices, texts, reservations>>

Locks == {"session", "gate"}
Parts == {"calls", "compactions", "raw", "text", "reservations"}

OutputInit ==
  /\ part \in Parts
  /\ open = TRUE
  /\ call = [c \in Callers |-> "idle"] /\ send = [c \in Callers |-> "none"]
  /\ written = [k \in {ActionKey[c] : c \in Callers} |-> Nothing]
  /\ observed = {} /\ announced = [c \in Callers |-> 0]
  /\ events = 0 /\ shown = <<>> /\ sequence = 0
  /\ attempts = [k \in Attempts |-> Nothing]
  /\ text = <<>> /\ dropped = FALSE /\ full = 0 /\ finals = 0
  /\ pending = {}
  /\ holds = [o \in Operations |-> [l \in Locks |-> "no"]]

-----------------------------------------------------------------------------
(* CallAndAnnounce *)

Others == <<part, notices, texts, reservations>>

(* Stream ids are unique on the connection, and so are the actions of a    *)
(* stream: two calls about one key follow each other.                      *)
Unused(c) ==
  \A d \in Callers \ {c} : ActionKey[d] = ActionKey[c] => call[d] \in {"idle", "returned"}

(* The waiter's release: the channel of a later call is not its own. *)
Released(c) ==
  IF written[ActionKey[c]] = c THEN [written EXCEPT ![ActionKey[c]] = Nothing] ELSE written

(* awaitRequestWrite, and the goroutine is started. *)
Begins(c) ==
  /\ part = "calls" /\ call[c] = "idle" /\ Unused(c)
  /\ send' = [send EXCEPT ![c] = "sending"]
  /\ IF c \in Embedded
     THEN call' = [call EXCEPT ![c] = "announcing"] /\ UNCHANGED written
     ELSE /\ call' = [call EXCEPT ![c] = "waiting"]
          /\ written' = [written EXCEPT ![ActionKey[c]] = c]
  /\ UNCHANGED <<open, observed, announced, Others>>

(* The request is refused or cannot be written. *)
SendFails(c) ==
  /\ send[c] = "sending"
  /\ send' = [send EXCEPT ![c] = "unsent"]
  /\ UNCHANGED <<open, call, written, observed, announced, Others>>

FrameIsOut(c) ==
  /\ send[c] = "sending"
  /\ send' = [send EXCEPT ![c] = "out"]
  /\ UNCHANGED <<open, call, written, observed, announced, Others>>

(* observeOutboundFrame: the writer's own goroutine, before the SDK waits  *)
(* for the answer.                                                         *)
FrameIsObserved(c) ==
  LET key == ActionKey[c]
  IN  /\ send[c] = "out"
      /\ send' = [send EXCEPT ![c] = "sent"]
      /\ IF c \in Embedded THEN UNCHANGED <<written, observed>>
         ELSE /\ observed' = observed \cup ({written[key]} \ {Nothing})
              /\ written' = [written EXCEPT ![key] = Nothing]
      /\ UNCHANGED <<open, call, announced, Others>>

ClientAnswers(c) ==
  /\ send[c] = "sent"
  /\ send' = [send EXCEPT ![c] = "answered"]
  /\ UNCHANGED <<open, call, written, observed, announced, Others>>

(* The caller's context ends. *)
CallIsCancelled(c) ==
  /\ send[c] \in {"sending", "sent"}
  /\ send' = [send EXCEPT ![c] = IF @ = "sent" THEN "answered" ELSE "unsent"]
  /\ UNCHANGED <<open, call, written, observed, announced, Others>>

TransportCloses ==
  /\ part = "calls" /\ open
  /\ open' = FALSE
  /\ UNCHANGED <<call, send, written, observed, announced, Others>>

(* Faulty variant: the call outlives its transport. *)
CancelledByCloseNever(c) == FALSE

(* context.AfterFunc(transport.ctx, cancel) *)
CancelledByClose(c) == ~open /\ c \notin Embedded

CloseCancels(c) ==
  /\ send[c] \in {"sending", "sent"} /\ CancelledByClose(c)
  /\ send' = [send EXCEPT ![c] = IF @ = "sent" THEN "answered" ELSE "unsent"]
  /\ UNCHANGED <<open, call, written, observed, announced, Others>>

HasAnswer(c) == send[c] \in {"answered", "unsent"}

(* Faulty variant: an answer ends the wait whatever was written. *)
AnswersFirstUnannounced(c) == "returned"

(* With the answer there, the write may have been observed as well. *)
AnswersFirst(c) == IF c \in observed THEN "announcing" ELSE "returned"

WaitsForWrite(c) ==
  /\ call[c] = "waiting"
  /\ \/ /\ c \in observed
        /\ call' = [call EXCEPT ![c] = "announcing"]
        /\ UNCHANGED written
     \/ /\ HasAnswer(c)
        /\ call' = [call EXCEPT ![c] = AnswersFirst(c)]
        /\ written' = IF AnswersFirst(c) = "returned" THEN Released(c) ELSE written
  /\ UNCHANGED <<open, send, observed, announced, Others>>

Announces(c) ==
  /\ call[c] = "announcing"
  /\ call' = [call EXCEPT ![c] = "answering"]
  /\ announced' = [announced EXCEPT ![c] = @ + 1]
  /\ UNCHANGED <<open, send, written, observed, Others>>

TakesAnswer(c) ==
  /\ call[c] = "answering" /\ HasAnswer(c)
  /\ call' = [call EXCEPT ![c] = "returned"]
  /\ written' = Released(c)
  /\ UNCHANGED <<open, send, observed, announced, Others>>
-----------------------------------------------------------------------------
(* Compactions *)

Statuses == {"in_progress", "completed", "failed", "cancelled"}
Triggers == {"auto", "manual"}

(* Empty keys report outcomes that belong to no attempt. *)
Uncorrelated == Nothing

(* trigger stands for each of the facts that are kept: the contexts, too.  *)
Compaction == [key : Attempts \cup {Nothing}, id : Nat, status : Statuses,
               trigger : Triggers \cup {Nothing}]

ASSUME NothingIsNoCompaction == Nothing \notin Compaction

Previous(key) == IF key = Uncorrelated THEN Nothing ELSE attempts[key]

(* Faulty variant: an outcome is published as often as it is reported. *)
AlreadyPublishedStart(key, status) ==
  Previous(key) # Nothing /\ status = "in_progress"

AlreadyPublished(key, status) ==
  /\ Previous(key) # Nothing
  /\ Previous(key).status # "in_progress" \/ status = "in_progress"

(* A transition keeps the id of its attempt and the facts it does not      *)
(* report itself.                                                          *)
Transition(key, status, trigger) ==
  LET previous == Previous(key)
  IN  [key |-> key,
       id |-> IF previous = Nothing THEN events ELSE previous.id,
       status |-> status,
       trigger |-> IF trigger = Nothing /\ previous # Nothing THEN previous.trigger ELSE trigger]

(* Publish, with the lock held until the client has answered.  A delivery  *)
(* that fails is not repeated.                                             *)
PublishesCompaction(key, status, trigger) ==
  /\ part = "compactions" /\ events < MaxEvents
  /\ ~(key = Uncorrelated /\ status = "in_progress")
  /\ events' = events + 1
  /\ IF AlreadyPublished(key, status) THEN UNCHANGED <<attempts, shown>>
     ELSE LET value == Transition(key, status, trigger)
          IN  /\ attempts' = IF key = Uncorrelated THEN attempts
                             ELSE [attempts EXCEPT ![key] = value]
              /\ shown' \in {shown, Append(shown, value)}
  /\ UNCHANGED <<sequence, part, calls, texts, reservations>>

-----------------------------------------------------------------------------
(* RawEvents *)

(* capRawEvent: an event that is too large or cannot be encoded is         *)
(* replaced, unless its identity alone is too large.                       *)
Payloads ==
  [number : {sequence + 1}, event : {"given", "truncated"}]

NextSequence(delivered) == IF delivered THEN sequence + 1 ELSE sequence

EmitsRaw ==
  /\ part = "raw" /\ events < MaxEvents
  /\ events' = events + 1
  /\ \E delivered \in BOOLEAN, payload \in Payloads :
       /\ sequence' = NextSequence(delivered)
       /\ shown' = IF delivered THEN Append(shown, payload) ELSE shown
  /\ UNCHANGED <<attempts, part, calls, texts, reservations>>

-----------------------------------------------------------------------------
(* StreamedText: an item's text is the sequence 1, 2, ... of its chunks. *)

Final == [i \in 1 .. full |-> i]

(* A delta is given to the host and added, or never streamed. *)
StreamsChunk ==
  /\ part = "text" /\ full < MaxChunks /\ finals = 0
  /\ full' = full + 1
  /\ \/ /\ text' = Append(text, full + 1) /\ shown' = text'
        /\ UNCHANGED dropped
     \/ dropped' = TRUE /\ UNCHANGED <<text, shown>>
  /\ UNCHANGED <<finals, events, attempts, sequence, part, calls, reservations>>

UnstreamedSuffix(streamed, final) ==
  IF IsPrefix(streamed, final) THEN SubSeq(final, Len(streamed) + 1, Len(final)) ELSE <<>>

(* The full message of the item, which may come again. *)
FinalComes ==
  /\ part = "text" /\ finals < 2
  /\ finals' = finals + 1
  /\ text' = text \o UnstreamedSuffix(text, Final)
  /\ shown' = shown \o UnstreamedSuffix(text, Final)
  /\ UNCHANGED <<dropped, full, events, attempts, sequence, part, calls, reservations>>

-----------------------------------------------------------------------------
(* SessionRequests, and the gate of the session *)

(* Acquire and AcquireSessionGate refuse when the lock is taken;           *)
(* HoldSessionGate would wait, for a session that nobody else has.         *)
Acquires(o, lock) ==
  /\ part = "reservations" /\ holds[o][lock] = "no" /\ lock \notin pending
  /\ pending' = pending \cup {lock}
  /\ holds' = [holds EXCEPT ![o][lock] = "held"]
  /\ UNCHANGED <<part, calls, notices, texts>>

(* Faulty variant: every call of the release function releases. *)
StillHeldAlways(o, lock) == holds[o][lock] # "no"

(* sync.OnceFunc *)
StillHeld(o, lock) == holds[o][lock] = "held"

Releases(o, lock) ==
  /\ holds[o][lock] # "no"
  /\ pending' = IF StillHeld(o, lock) THEN pending \ {lock} ELSE pending
  /\ holds' = [holds EXCEPT ![o][lock] = "released"]
  /\ UNCHANGED <<part, calls, notices, texts>>

-----------------------------------------------------------------------------
CallStep(c) ==
  \/ FrameIsOut(c) \/ SendFails(c) \/ FrameIsObserved(c) \/ CloseCancels(c)
  \/ WaitsForWrite(c) \/ Announces(c) \/ TakesAnswer(c)

OutputNext ==
  \/ \E c \in Callers : Begins(c) \/ CallStep(c) \/ ClientAnswers(c) \/ CallIsCancelled(c)
  \/ TransportCloses
  \/ \E key \in Attempts \cup {Uncorrelated}, status \in Statuses,
        trigger \in Triggers \cup {Nothing} : PublishesCompaction(key, status, trigger)
  \/ EmitsRaw
  \/ StreamsChunk \/ FinalComes
  \/ \E o \in Operations, lock \in Locks : Acquires(o, lock) \/ Releases(o, lock)

OutputSpec == OutputInit /\ [][OutputNext]_outputVars

(* The goroutines run on, and a write ends; a client need not answer. *)
OutputFairSpec == OutputSpec /\ \A c \in Callers : WF_outputVars(CallStep(c))

-----------------------------------------------------------------------------
(* Properties *)

(* An action is announced once, only behind the complete frame of its      *)
(* request, and always when that frame was observed, even if the answer    *)
(* or a cancellation is seen first; a request that was not written has no  *)
(* announcement, and no returned call leaves a waiter (CallAndAnnounce).   *)
AnnouncedWhenWritten ==
  \A c \in Callers :
    /\ announced[c] <= 1
    /\ announced[c] = 1 /\ c \notin Embedded => send[c] \in {"sent", "answered"}
    /\ call[c] = "returned" => /\ send[c] = "answered" => announced[c] = 1
                               /\ written[ActionKey[c]] # c

(* The end of the transport ends every call that uses it, announced or     *)
(* not, answered or not (the AfterFunc of CallAndAnnounce).                *)
CloseReleasesCalls ==
  \A c \in Callers \ Embedded : ~open /\ call[c] # "idle" ~> call[c] = "returned"

(* The host sees one attempt as at most one start and one outcome, in that *)
(* order, under one id of its own, and no fact that was reported is taken  *)
(* back (Publish).                                                         *)
AttemptsAreSeenOnce ==
  \A i, j \in DOMAIN shown :
    i < j => IF shown[i].key = shown[j].key /\ shown[i].key # Uncorrelated
             THEN /\ shown[i].status = "in_progress" /\ shown[j].status # "in_progress"
                  /\ shown[i].id = shown[j].id
                  /\ shown[i].trigger # Nothing => shown[j].trigger # Nothing
             ELSE shown[i].id # shown[j].id

(* The host can tell a lost raw event from none: what it was given is      *)
(* numbered without a gap, and the next number is one further (Emit).      *)
RawEventsAreContiguous ==
  /\ \A i \in DOMAIN shown : shown[i].number = i
  /\ sequence = Len(shown)

(* The host is never given a piece of text twice, nor out of its order,    *)
(* and has all of it after a final text unless a delta was lost (Suffix).  *)
TextIsAppendOnly ==
  /\ \A i, j \in DOMAIN shown : i < j => shown[i] < shown[j]
  /\ finals > 0 /\ ~dropped => shown = Final

(* Whatever deliveries fail and whatever the harness reports again, a host *)
(* that takes its notifications as they come sees each thing once          *)
(* (Compactions, RawEvents, StreamedText).                                 *)
HostSeesEachOnce ==
  /\ part = "compactions" => AttemptsAreSeenOnce
  /\ part = "raw" => RawEventsAreContiguous
  /\ part = "text" => TextIsAppendOnly

(* One operation at a time has the session, or its gate, also when a       *)
(* release function is called again after another operation has begun      *)
(* (Acquire, AcquireSessionGate).                                          *)
OneHolderAtATime ==
  \A lock \in Locks :
    LET holders == {o \in Operations : holds[o][lock] = "held"}
    IN  /\ \A o, other \in holders : o = other
        /\ lock \in pending <=> holders # {}

=============================================================================
