# acp-go-core in TLA+

A verification project for `acp-go-core`, the library that Go agents speaking the
Agent Client Protocol share: the lifecycle stream and its reducer, the publisher
that emits it, the session store and the mirror that keeps a native session log in
it, the JSON-RPC transport, child processes and seed files, usage readers. Paths
below are relative to `src/`.

- [The system](#the-system): components, their state, what is hard about them
- [The modules](#the-modules): what is modelled where, and how it maps to the code
- [The runs](#the-runs): what TLC checks, on which instances, and what it shows
- [The proofs](#the-proofs): what holds for every value of the constants, and why
- [Disagreements between contract and code](#disagreements-between-contract-and-code)
- [Not modelled](#not-modelled) and [the plan](#the-plan)

## The system

### Lifecycle reducer (`lifecycle/reducer.go`, `reducer_apply.go`, `state.go`, `event.go`)

A host's view of one session's lifecycle stream. State: the current incarnation and
the set of retired ones; the base sequence, the boundary reduced through and (on a
host) every retained frame; the projection, that is the foreground cycle, the turns,
the activity tree and the actions; which cycle each blocking action stopped
(`actionCycle`) and the one cycle that still owes its `requires_action` transition
(`blockedCycle`); two latches, `failed` and `closed`. Operations: `Reduce`,
`ReduceSessionUpdate` (decode and reduce), `Close`, readers.

Hard: frames may be retransmitted, lost, reordered or left over from an earlier
incarnation; a refusal must change nothing and latch; a handler that starts to apply
an event may find it illegal half way; the legality of a transition depends on long
histories of turns, cycles and blockers. Correct when: a frame is reduced once and in
order, retransmissions are suppressed however late they come, a superseded incarnation
stays fenced, a refusal leaves the projection as it stood, terminal records are final,
the foreground names an open turn, the activity tree ends bottom up, and a cycle that
a blocker stopped cannot go on without saying so.

### Lifecycle publisher (`lifecycle/publisher.go`, `emit.go`, `incarnation.go`)

The producer of one session's stream, shared by goroutines under one lock. State: the
stream (identity, sequence, a reducer of its own that judges each event before it is
sent), the counter that ids are minted from, the map from outstanding blocking actions
to the cycle they block. Operations: `Open`, `Accept`, `NewAgentCycle`,
`OpenAgentCycle`, `ActionPending`, `ActionResolved`, `Idle`, `Fence`. It calls a
`deliver` function supplied by the agent (in this library, a notification on the wire
transport), which may fail.

Hard: a `Cycle` is a value that callers keep, and may be used when it is over, when
another is current, or after the stream was reopened under another incarnation; a
method emits up to several events and may fail between two of them; the map of
blockers duplicates what the reducer knows. Correct when: no consumer ever has to refuse
a frame, the consumer's projection is the producer's, a fenced stream is silent, the
blocker map agrees with the projection, and no host is left with a question that its
foreground does not wait for.

### Session store and mirror (`store.go`, `sessionlog/mirror.go`, `jsonl.go`, `record.go`)

`SessionStore` holds one generation of rows per key and subpath: `Load`, `Replace`,
`Append` (to an expected number of rows) and `Delete` (for ever). `Mirror` keeps the
JSONL file an agent writes in the store: `Commit` reads what was appended since its
cursor and appends or republishes; `Hydrate` reconciles file and store when a session
is loaded, cutting a torn tail; `Reset` and `Adopt` replace its memory. The cursor
recognises a rewritten file by identity and by checksums of bounded windows.

Hard: crashes between reading, committing and recording; a store call that times out
although it took effect; a writer that bypasses the mirror; a file truncated, extended or
rewritten meanwhile; a delete racing a commit. Correct when: what a commit reports
durable is what the file held, a failed commit leaves the previous generation readable,
no row is stored twice or lost, and a deleted session never comes back.

### Wire transport (`wire/transport.go`, `actions.go`, `transport_failure.go`)

Wraps the two directions of a JSON-RPC connection and observes every frame. State: per
session the chain of publications, each waiting for the one before; hooks that run when
a response is written; waiters for outgoing requests and their announcements; raw
prompts kept for later; a latched failure. Hard: inbound and outbound observation run
concurrently; an answer may come before the write of its request returned; two calls
may share a key; the chain must not hold the connection up for ever. Correct when:
publications of a session keep their order and follow the response that opened it,
every waiter is released by a write or by the failure of the transport, and each hook
runs once.

### Session state on the wire (`wire/actions.go`, `compaction.go`, `rawevents.go`, `streamed_text.go`, `sessions.go`)

What a session puts on the connection beside its lifecycle stream. State: the calls that
announce an action and the channel each waits on for the write of its request; the last
state of each compaction; the number of the last raw event; the text each item has
streamed; the establishing requests in flight and the gate of each session. Hard: the
answer to a request, its cancellation and the end of the transport race the write of its
frame; a harness reports things twice, late or out of order; a delivery fails; a release
function is called twice. Correct when: an action is announced once, only behind the whole
frame of its request, and always when that frame was written; a host that takes its
notifications as they come sees each thing once; one operation at a time has a session.

### Processes and files (`process/launch.go`, `seed.go`, `scratch.go`, `filelock.go`)

A child process with one waiter, a copier of its stderr, a graceful shutdown with a grace
period and a kill, all callable from any goroutine; seed files written under a lock into a
directory an operator also writes, with a manifest of the files it owns. Hard: an exit
racing the shutdown, two closers, a descendant that outlives the child and holds its
stderr, a crash between the manifest and the files it names. Correct when: the child is
reaped once and every waiter hears the same of it, every call returns, the end of stderr is
whole, and a file that the operator created is never overwritten.

### Images (`image/input.go`, `handoff.go`, `limits.go`, `output.go`, `raster.go`)

Gates that a prompt and an artifact pass: base64, media type, size of each image and of the
prompt, files handed over by path with a digest, artifacts opened inside configured roots.
No state outlives a call, but the files do, and the host or the harness may rename, link,
truncate or rewrite them between the look at a path, the open, the look at the descriptor
and the read. Correct when: what is admitted is what was declared, what is refused as too
large broke the advertised envelope, and what is emitted is whole and lay inside a root.

### Usage readers, observer, shaping of wire values

`usage/verified.go` reads an identity before and after a reading. The rest
(`usage/*/`, `observer/`, `wire/errors.go`, `options.go`, `accountusage*.go`,
`catalog.go`, `session_meta.go`) converts or measures data and keeps no state that
anything else reads.

### How they interact

The agent (not part of this repository) owns one `Publisher` per session and hands it
a `deliver` that sends a notification over the transport; the transport orders
those after the response that opened the session. The host reduces the
notifications with a `Reducer`; the publisher holds another as its validator. The agent
calls `Mirror.Commit` after a native turn and `Mirror.Hydrate` before it launches
the native process on a session log; both go through a `SessionStore` the operator
supplies. Seed files are written before the process is launched. A transport that fails
asks the process why (`TransportFailure`). A prompt passes `ValidatePrompt` before it is
forwarded; what the harness answers passes `ReadFile` or `DecodeOutput`.

Every place of this code where one of the above can go wrong in a way a test would
hardly reach is in `PROJECT.json` under `hazards`, with its line and the properties
that would catch it.

## The modules

| module | models | role |
|---|---|---|
| `Lifecycle` | `vocabulary.go`, `event.go`, `state.go`, structural rules of `event.go` | vocabulary and record types |
| `Reduction` | `reducer.go`, `reducer_apply.go` | the reducer as operators on its state, `Reduce(r, d)` |
| `Reducer` | one session's reducer and any producer, any channel | state machine, properties |
| `Publisher` | `publisher.go`, `emit.go`, the host behind them | state machine composed of two reducers |
| `SessionStore` | `store.go` | one session of the store as operators |
| `Mirror` | `sessionlog/mirror.go`, `jsonl.go`, `record.go` with store, harness, host, crashes | state machine, properties |
| `FullMirror` | what a mirror promises | abstract specification that `Mirror` implements |
| `Transport` | `wire/transport.go` with the client, the SDK's handlers, the writer | state machine, properties |
| `SeedFiles` | `WriteSeedFiles` of `process/seed.go`, the lock, the operator of the home | state machine, properties |
| `SessionOutput` | `CallAndAnnounce` of `wire/actions.go`, `compaction.go`, `rawevents.go`, `streamed_text.go`, `sessions.go` | state machine of five parts, properties |
| `Process` | `process/launch.go`, `wire/transport_failure.go` with the child, its descendant and the kernel | state machine, properties |
| `Media` | `image/input.go`, `handoff.go`, `limits.go`, `output.go` with the files and who changes them | state machine, properties |
| `MCReducer`, `MCPublisher`, `MCMirror`, `MCTransport`, `MCSeedFiles`, `MCSessionOutput`, `MCProcess`, `MCMedia` | | event alphabets, requests, instances and symmetry for TLC |
| `ReductionProofs`, `ReducerProofs` | | lemmas about the handlers; theorems about `Reducer` |
| `PublisherProofs` | | theorems about `Publisher` |
| `MirrorProofs` | | theorems about `Mirror`, the refinement of `FullMirror` included |
| `WireProofs` | | theorems about `Transport` and about `SessionOutput` |
| `SeedFilesProofs` | | theorems about `SeedFiles` |
| `ProcessProofs` | | theorems about `Process` |
| `MediaProofs` | | theorems about `Media` |

### Lifecycle and Reduction

Every handler of the reducer is an operator of the same name: `ApplyPromptAccepted`,
`ApplyStateUpdate` with `ApplyLive` and `ApplyIdle`, `ApplyActivityUpdate` with its
first sight and its patch, `ApplyActionUpdate` likewise, `ApplySnapshot`; above them
`ReduceFirst`, `ReduceForeign`, `ReduceDuplicate` and `Reduce` in the order of the
code's early returns. Where a method returns the first refusal of a list of checks, an
operator `...Defect` is that list in the code's order, and `Unless(r, defect, next)`
refuses or goes on. `Fail` sets the latch and nothing else, and every later read of the
latch is explicit, so a handler that refuses after it has changed something would show
(`Commit` looks at the latch because the code returns the error first).

What was abstracted: identifiers are members of small sets and an omitted member is
`None`; the immutable members that nothing resolves are folded into one ("kind" of an
activity, "owner" of an action); submission ids and client nonces are left out,
nothing reads them back; a stop reason is stated or not. `activitySeen` is the set of
recorded activities and so has no variable of its own; `turnSeen` does, because a
snapshot introduces turns that it has no record of. A retained frame is the whole
event, compared for equality as the code compares canonical bytes. The order of the
projected slices is left out.

### Reducer

One variable, the reducer. `Deliver` is `Reduce` on any offered event, with any
stream identity, at any offered distance (before, at or beyond the reduced boundary), on
any carrier; `Undecoded` is `ReduceSessionUpdate` on a frame the decoder refused,
which may or may not bear a stream name; `SessionClosed` is `Close`. Lost, repeated,
reordered and stale frames are choices of the environment: it can deliver anything, so
nothing is assumed of the producer or of the channel.

### Publisher

`emitter` is the reducer that `newStream` creates, `host` the consumer's. The lock is
modelled by `todo`, the events that the running method has yet to emit: a method
begins when `todo` is empty and settles its events (`AskingSteps`, `AnsweringSteps`,
`EndingSteps` are the code's case distinctions), `Emit` performs them one by one, and
other methods wait. Each event has one of three outcomes: the emitter's own reducer
refuses it (`EmitRefused`), it is delivered, or its delivery fails, in which case the
host may or may not have it. The two failures fence the stream and end the method.
`Cycle` values accumulate in `held` and any may be used by any method at any time. The
variable `disciplined`, chosen at the start, says whether callers keep to one open cycle at
a time (`Permits`) or do as they please.

### SessionStore, Mirror and FullMirror

`SessionStore` has one operator per writing method: a generation is a function from the
live subpaths to their entries, so that `Replace` publishes exactly what it lists and
`Append` keeps what it does not list. A store keeps the contract of
`docs/03-sessions-and-store.md` (a failed write wrote nothing) in the behaviours in which
`orderly` is `TRUE`.

In `Mirror` the file is a sequence of complete lines and perhaps an unterminated one; a
row is a number, negative when it is no JSON object; a cursor holds an offset in lines,
the file it was read from and what the two checksums cover (`Window` lines at either
end); a digest is what was digested. `call` is the running method and what it does
next: `Commit` reads (`judge`), decides as `appendTail` or `commitFull` do
(`TailVerdict`, `FullVerdict`), appends or replaces; a failed append of a tail leads to
`reread`, one of a full history to `replace`. `Hydrate` goes through `cut`, `trim`,
`reconcile` and then `judge` or `write`. When the native log is as long as the store's
copy the code skips `commitFull`; the model lets `judge` find that there is nothing to
write, which has the same effect. Any `Source` may return the full history, so sources
that are no files are covered too.

Between any two of these steps the harness may write a whole line or half of one, cut
or rewrite its log, in place or by a new file; the host may delete the session; the
process may die, with the request under way reaching the store or not; then the native
log may be lost. One thing the harness may not do: rewrite in place only lines that no
checksum covers, unless it resets the mirror, which is the rule of `ReadJSONL`'s
documentation (`Noticed`). Where `orderly` is `FALSE` another writer may change the number of
stored rows at any time, and a write that reports a failure may have taken effect.

`FullMirror` is a mirror without memory: a call reads the whole history and publishes all
of it, or fails and leaves the previous generation, or writes nothing because the store
already holds it. `snap` in `Mirror`, what the running call read, serves this refinement
only; the mapping of the rest is the file's rows and the store's generation.

### Transport

`requests`, `raw`, `hooks`, `ready` and `cancelled` are the transport's fields of the
same names (`cancelled` is its context); `publications` are the goroutines running
`publishOpening` and `closed` the channels they closed. The channel of a publication is
named by the request that registered it, so `ready[s]` and `previous` hold request ids.

The SDK and the client are the environment. Each request gets a handler of its own
(`handlers`), which may take its raw params (`TakeRaw` stands for both `TakeRaw`, of
`initialize`, and `TakeRawPrompt`), register hooks for a session (`RegisterHook`), wait
for its session (`AwaitSession`, `AwaitClosed`, `AwaitCancelled`), and answer. What the
code does in one locked region is one step and everything between two of them is open to
the others: a response is written in one step (`Respond`) and observed in a later one
(`ObserveResponse`), because `Writer` observes a frame after it went out and outside any
lock; a wait that was woken looks at the map again in a step of its own; a publication
waits (`Waits`), runs its hook (`Publishes`) and finishes in three. A write may also fail
(`LoseResponse`), and then nothing is observed.

What was abstracted: a queue of raw params is the set of the requests they came with,
read in the order of ids, which is the order of arrival; the params of a prompt are
their lifecycle value, since the code compares nothing else; a hook is its number among those of
its handler; whether a response is an error matters to a publication only (`Outcomes`).
The client uses an id once. `session/load` and `session/resume` are one method,
`restore`. A prompt calls `AwaitSession` at most once and takes its params at most once.

### SeedFiles

One native home. `file` maps a name to what stands there and who created it, `manifest` is
`.seed-manifest.json`, `lock` the holder of the file lock, and `call[p]` the local variables
of launch `p` in `WriteSeedFiles`: the manifest as it was read (`known`), the targets
that were there (`exist`) and those that remain (`left`), in the order of sorting. A call
waits for the lock, reads the manifest with it (`Lock`), looks for each target (`Check`,
`CheckRefused`), writes the manifest (`Record`), and then compares each target with what it
should be (`Compare`, `CompareFails`) and publishes it (`Publish`). `Interrupted` is any
access that fails and the death of the process at any point; the operating system releases
its lock, and what was renamed stays.

Between any two of these steps the operator may create, edit, replace by a link or another
thing that is no regular file (`Link`), or remove any name. An edit does not change who
created a file. The files of a launch are written to a staging file and renamed, so the
model has no half-written file, and no staging file either. Names that leave the root, which
are refused in the same loop as `CheckRefused`, are left out, as are permissions. The manifest and the
lock file are the adapter's: the operator leaves them alone.

`touched`, the names the operator was at since the lock was taken, is a history variable:
what a call promises about a name, it promises unless the operator interfered with that name
during the call.

### SessionOutput

Five parts that share nothing; `part` picks one at the start and a behaviour follows it,
which says as much as their product. A notification of these parts is written by the SDK
before it returns, compactions under the lock of their table, raw events and texts by callers
that take turns (neither has a lock), so publishing is one step.

*Calls.* `call[c]` is the goroutine that runs `CallAndAnnounce`, `send[c]` the one it starts
to send the request; `written` maps the key of an action to the call whose channel waits for
it, `observed` are the calls whose channel was closed. The frame goes out (`FrameIsOut`) and is
observed (`FrameIsObserved`) in two steps, because `Writer` observes a frame after it went
out; both come before an answer is taken, because the SDK's sender waits for its own write.
`WaitsForWrite` is the `select` of line 97 with the second look behind it: with both
channels ready either branch may be taken. Cancellation of the call (`CallIsCancelled`) and
the `AfterFunc` of the transport (`CloseCancels`) end the sending goroutine at any moment.
Two calls about one key follow each other (`Unused`), as ids are unique.

*Compactions.* `attempts` is the table, with one fact (`trigger`) for all those that a
transition keeps; `shown` is what the host was given. A delivery may fail, and is then not
repeated, although the table has the new state.

*Raw events.* A number is used up by a delivery only. `event` is the capped payload.

*Text.* An item's text is 1, 2, ..., so that a suffix is recognised by its content. A chunk
may be streamed or lost, the final text may come twice. `Forget` and `Reset` are left to the
agents that call them, so one item is followed from its first chunk on.

*Reservations.* Operations acquire and release the session and its gate, and call a release
function again.

### Process

`start` is how far `Start` is, `ends` the pipe ends the parent holds; `root` is the child,
`kin` a descendant that shares its process group (`grouped`) or left it (`escaped`), and both
hold stderr. Each caller is at a place of the method it runs: a look at `done` and what
follows it are two steps, as are signal and wait, the result and the closing of `done`
(`Reaps`, `ClosesDone`). The copier reads any part of what was written. Signals are taken
later than they are sent; SIGTERM may be ignored. Lines of stderr are numbers; there is no
clock, so the grace period, the flush wait and the timers of `LaunchFailure` and
`TransportFailure` may end at any moment after they began, or the awaited thing may happen
first. `StderrTail` waits for the copier only when `done` is closed already (`LooksForTail`).
`TransportFailure` is the same walk as `LaunchFailure` with another answer to its timer.

Left out: that the kernel may give the group id of a reaped child to others, and that the
kernel itself fails (a signal that cannot be sent for another reason than that its group is
gone).

### Media

One call of `ValidatePrompt`, `ReadFile` or `DecodeOutput`. `Defect` is the list of checks
of a block in the code's order, `HandoffDefect`, `EmbeddedDefect` and `SizeDefect` its parts; a handoff is opened
(`OpensHandoff`), then read (`ReadsHandoff`); an artifact is resolved, opened, inspected and
read in four steps. `disk` maps a path to a file, a link or nothing, `content` a file to its
bytes; names and contents may change between any two accesses. A byte string is an id (which
stands for its SHA-256), a size and what the raster parsers find in it; `Reads(n)` is at most
n bytes of what the file holds, or of a mixture when it is written meanwhile. A path lies in
a directory that does not change, and a link leads to a path that is no link. Where the code looks at one
condition after the other, so do the operators (`IF` behind `ELSE`): the order decides which refusal is
given when several apply. `TotalStated` sums what the blocks of a prompt state.

## The runs

| run | instance | states | shows |
|---|---|---|---|
| `reducer_projection` | 2 turns, 2 cycles, 2 actions, 3 activities, 13 snapshots, 7 frames | 285,326 | foreground, blockers and debts, the tree ends bottom up, references resolve, total refusals, final terminals |
| `reducer_incarnations` | 3 incarnations, distance -2 to 2, 2 carriers, undecodable frames, close, 4 sequences | 10,851 | ordering, retransmission, fencing, latches |
| `publisher` | 2 incarnations, 7 ids, 2 actions, 9 events per stream, callers with and without discipline | 187,571 | hosts never refuse, host follows emitter, no self-inflicted fence, blocker map |
| `mirror` | 4 rows, 2 files, 2 configurations, windows of 1 line; with other writers 2 rows | 267,347 | refinement of `FullMirror`, memory, cursor, loads, liveness |
| `transport_open` | 3 requests, 2 sessions, 2 lifecycle values | 169,934 | turns of openings, admission of prompts, their params, every wait ends |
| `seed_files` | 2 launches, 2 names, 2 contents, 3 calls, 2 acts of the operator | 183,274 | what launches create is listed, what stood unlisted survives, success means written, every call ends |
| `process` | 2 goroutines, 2 lines, a tail of 1 line, one descendant | 132,871 | one end of the child for all, whole tail, every call returns, killed groups are reaped |
| `media` | 8 byte strings, 3 paths, 2 files and a pipe, 2 roots, prompts of up to 4 blocks, 2 changes | 1,435,939 | the envelope is exact, admitted as declared, emitted whole and from inside |
| `session_output` | 4 calls about 3 actions, 2 attempts, 3 reports, 4 chunks, 3 operations | 81,340 | announced when written, seen once, held by one, released by `Close` |
| `reducer_leaves_blocked` | the foreground part of `reducer_projection` | violation | first disagreement below |
| `transport_closing` | 3 requests that restore one session, `Close` | violation | second disagreement below |
| `seed_files_others` | 1 launch, 1 name, 2 calls, 1 act of the operator | violation | third disagreement below |

Deadlock is checked wherever the system never stops (a reducer can always be closed, a
publisher fenced, a file written). The transport runs do not check it: the client has three
requests, and once they are answered and the connection is closed nothing is left to do. Nor
do the runs of the seed files, where launches make a bounded number of calls and return; of
the process, whose `Start` may fail and which nobody has to use afterwards; of the media
gates, where one call is made; and of the session's output, whose parts are used up.

Why the bounds are enough:

- *Foreground.* The rules relate the cycle of the foreground to one other cycle, the
  turn of an event to one other turn, and a blocker to whether another is left. Two of
  each meet every combination; seven frames are enough for open, ask, wait, ask again,
  answer, answer, resume. Snapshots open the stream idle, waiting with a blocker,
  waiting without one (refused), running with one already pending, and with a blocker
  owned by an unknown turn.
- *Tree.* Three activities make a grandchild, which is what the direct-children check
  must get right; the snapshots include a child listed before its parent, an activity that
  is its own parent, and each refusal. Tree and foreground share one run and would multiply;
  `TreeOrForeground` follows a projection with activities while its foreground stays on its
  first cycle, unblocked. What the product of the two would add is covered by the theorems,
  which know no such constraint.
- *Incarnations.* Three identities are needed for a frame of an incarnation that was
  superseded twice; distances of two on either side reach regression, duplicate,
  next, gap of one and gap of two.
- *Publisher.* An incarnation takes one id and a cycle two, so seven ids allow one
  incarnation with three cycles or two incarnations that share two cycles, submitted or
  agent ones, used in either; two actions make a cycle that stays blocked after the first
  answer. Incarnation names and action ids are symmetric; the run has no liveness property.

- *Mirror.* Three committed rows with windows of one line are the least in which a
  rewritten row escapes both checksums, and a fourth row makes the rewrite. Two files
  are enough for a cursor that outlives its file. Where other writers are at work one row less
  of each kind is needed, as they bring rows of their own (`MaxBypassed`).
- *Transport.* Three requests make a chain of three publications, of which the middle one may
  fail, finish last or be answered first; a prompt that sleeps on one publication while
  another registers behind it; and two prompts of a session, alike or not, whose
  handlers run in either order. The second handler may register twice, which replaces the
  first hook. `Usual` says what the client may ask under which id, so that these cases
  occur and no others multiply the states.

- *Seed files.* Two launches contend for the lock, and the third call finds what the first two
  left behind, whole or interrupted. Two names are the least of which one is published when
  the launch dies and the other is not, or one refused when the other was checked; a second
  content makes a call replace what an earlier one wrote. Two acts of the operator let it
  remove a target and create another in its place within one call, or edit one and link the
  other. Every launch asks for one name or for both.

- *Process.* One goroutine makes the calls of a client of the harness (`Wait`, the two
  failures), the other those of an owner (`Shutdown`, `Kill`, `Close`), each again and again.
  `StderrTail` by itself is the second half of the two failures. Two lines and a tail of one
  make a line that falls out of the tail and one that is still in the pipe. One descendant is
  enough for a pipe that outlives the child, in the group or out of it.
- *Media.* Blocks of every kind and with each defect, alone and behind each kind that moves a
  gate; three handoffs against a bound of two; limits below, at and above the sizes that
  occur, and above the clamp; artifact paths inside one root, both and none, missing,
  irregular and linked. Two changes let a name be exchanged and the file it now names be
  rewritten between two accesses.
- *Session output.* Two calls about one action make a channel that a later call replaced; the
  third runs beside them, the fourth has no transport. Three reports are a start, an outcome
  and one too many; a second attempt and uncorrelated ones come between. Four chunks allow two
  streamed runs with a loss between. Three operations let a stale release meet a later holder.

`MaxBypassed`, `MaxEvents`, `MaxChunks`, `MaxLines`, `MaxChanges`, `MaxRow`, `MaxFile`, `MaxSequence`, `MaxSuppressed`, `MaxId`, `MaxCalls` and `MaxTouches` bound counters; `reducer_projection` delivers in order only because the ordering rules are
`reducer_incarnations`'.

Fairness: `transport_open` assumes weak fairness of what each goroutine does
next: a handler that is not waiting answers, a response that was written is observed,
a select with a ready channel is taken, a hook returns, and `Serve` ends a connection that
lost a frame (`ServeEnds`; `Serve` belongs to the agents that embed this library and runs
as long as the connection does, `docs/05-lifecycle.md`). No request has to be sent, no hook
registered, and `Close` is not assumed otherwise. `mirror` assumes weak fairness of `Continue`, the next step
of a running method: file operations return, and every store call runs under
`SessionStoreTimeout`. `seed_files` assumes weak fairness of `Proceed` for each launch: file
accesses return, and a lock that is free is taken by one of those that wait for it
(`FileLock` blocks in the operating system, which wakes a waiter when the holder closes or
dies). It is not assumed that a launch which waits gets the lock before another. That
`CallsEnd` holds all the same is due to `MaxCalls`: others may overtake a waiter only as
often as they are called. `process` assumes that the goroutines that can run do (copier,
reaper, each call, whose timers end), and that a SIGKILL is delivered; not that the child
exits, takes a SIGTERM or writes, nor that the context of a call ends, which is why `Wait`
is left out of `CallsReturn`. `session_output` assumes weak fairness of each caller's own
steps: goroutines run on and a write ends, which is what `Writer` and the connection give;
not that a client answers, so that only `Close` is claimed to release a call.

## The proofs

Each theorem below is proved by TLAPS: those of the reducer for every vocabulary, every
alphabet of events, every channel and every bound, those of the publisher for every number of
ids, actions and incarnations and every use of its methods, those of the mirror for every number of
rows and files, every checksum window and every other writer, those of the transport for every set of
requests and sessions and whatever the client asks, those of the seed files for every number of
launches and names and whatever the operator does, those of the process for every number of
callers and lines and every tail, those of the session's output for every number of calls,
attempts, events, chunks and operations, those of the images for every set of byte strings, prompts,
roots and limits and whatever is done to the files. They rest on the assumptions of the modules:
`NoneIsAnIdentityOfNothing` (the omitted member is no identity and no record),
`KindsAssumption` (the negotiated kinds are activity kinds), `BoundAssumption`,
`RetainFramesAssumption` and `EnvironmentAssumption` (the environment
delivers events of the vocabulary, and nothing else of it is assumed);
`PublisherAssumption` (ids are numbered as the counter mints them, and an opening has room);
`MirrorAssumption` (rows are the numbers up to a bound, a window covers a line, a log has a file),
`NoneIsNoRecord` of `Mirror` and `NoneIsNoGeneration` of `SessionStore` (no call, no snapshot and no
generation is `None`); `TransportAssumption` and `OffersAssumption` (ids are positive numbers, clients send
requests), `NoneIsNoRecord` of `Transport` and `InitializeIsNoSession` (the records of `initialize` have a key
of their own, as `rawKeyPrompt` gives them); `NamesAssumption` of `SeedFiles`, `RequestsAssumption` (a launch is asked to
write something), `BoundsAssumption` and `NoneIsNothing`; `ProcessAssumption`; `SessionOutputAssumption` and
`NothingIsNoCompaction`; `MediaAssumption`, `CallsAssumption` (calls have the fields that their kind has,
and a text resource has its text) and `NamesAssumption` of `Media` (what stands for nothing is no byte
string and no verdict).

| theorem | property | module |
|---|---|---|
| `TypeCorrect` | `TypeOK` | `ReducerProofs` |
| `SupersededStaysFenced` | `CurrentIncarnationIsNotRetired` | `ReducerProofs` |
| `Idempotence` | `RetransmissionIsNoOp` | `ReducerProofs` |
| `ForegroundTurnOpen` | `LiveForegroundNamesOpenTurn` | `ReducerProofs` |
| `TreeEnds` | `NoActivityOutlivesItsParent` | `ReducerProofs` |
| `ForegroundSound` | `ForegroundIsSound`, the first and the next two together | `ReducerProofs` |
| `TreeSound` | `TreeIsSound`, the second and the last together | `ReducerProofs` |
| `BlockersStopCycles` | `EveryBlockerStopsACycle` | `ReducerProofs` |
| `StoppedCycleDebt` | `StoppedCycleOwesItsTransition` | `ReducerProofs` |
| `ReferencesAreResolved` | `ReferencesResolve` | `ReducerProofs` |
| `RefusalIsTotal` | `RefusalKeepsProjection` | `ReducerProofs` |
| `Latched` | `RefusalAndCloseAreFinal` | `ReducerProofs` |
| `ReducedOnlyOnce` | `ReducedOnce` | `ReducerProofs` |
| `Contiguous` | `BoundaryIsContiguous` | `ReducerProofs` |
| `TerminalStands` | `TerminalIsFinal` | `ReducerProofs` |
| `PublisherTypes` | `TypeOK` | `PublisherProofs` |
| `HostFollows` | `HostFollowsEmitter` | `PublisherProofs` |
| `AgentTurnsStay` | `AgentTurnsStayInTheirIncarnation` | `PublisherProofs` |
| `DisciplinedNotRefused` | `DisciplinedCallersAreNotRefused` | `PublisherProofs` |
| `BlockersCounted` | `BlockersAgreeWithProjection` | `PublisherProofs` |
| `MirrorTypes` | `TypeOK` | `MirrorProofs` |
| `MemoryStaysSound` | `MemoryIsSound` | `MirrorProofs` |
| `MirrorImplementsFull` | `ImplementsFullMirror` | `MirrorProofs` |
| `LoadsKeepSoundRows` | `LoadKeepsSoundRows` | `MirrorProofs` |
| `TransportTypes` | `TypeOK` | `WireProofs` |
| `OpeningsInOrder` | `OpeningsTakeTurns` | `WireProofs` |
| `AdmittedLast` | `AdmittedBehindOpenings` | `WireProofs` |
| `ParamsKept` | `PromptsKeepTheirParams` | `WireProofs` |
| `SeedTypes` | `TypeOK` | `SeedFilesProofs` |
| `LeftoversAreListed` | `ManagedFilesOnly` | `SeedFilesProofs` |
| `SuccessIsWritten` | `SuccessMeansWritten` | `SeedFilesProofs` |
| `StandingFilesAreSafe` | `StandingFilesSurvive` | `SeedFilesProofs` |
| `ProcessTypes` | `TypeOK` | `ProcessProofs` |
| `CallersAgree` | `AnswersAgree` | `ProcessProofs` |
| `TailIsComplete` | `TailIsTheEnd` | `ProcessProofs` |
| `AnnouncedBehindWrite` | `AnnouncedWhenWritten` | `WireProofs` |
| `SeenOnce` | `HostSeesEachOnce` | `WireProofs` |
| `OneHolder` | `OneHolderAtATime` | `WireProofs` |
| `EnvelopeKept` | `EnvelopeIsExact` | `MediaProofs` |
| `AdmittedAreDeclared` | `AdmittedAsDeclared` | `MediaProofs` |
| `EmittedArtifactIsWhole` | `ArtifactIsWhole` | `MediaProofs` |

So every invariant and every action property that a passing run checks is also proved, and
the refinement of `FullMirror`. The argument:

- `ReductionProofs` has one typing lemma per operator: each handler maps reducer states
  to reducer states, given the defects it has ruled out. It also shows that handlers leave
  the ordering bookkeeping alone (`ApplyKeepsHeader`), and that every handler keeps `Sound`, which
  is `Coherent`
  (foreground, turns, tree, references and blockers agree) and the debt of a stopped cycle.
  They are apart because `checkBlockedCycle` settles the
  debt before the transition has been judged further: between the two the state is
  coherent but not sound, and it becomes sound again either by the foreground's move
  to `requires_action` or by the refusal. `Coherent` has two conjuncts that no
  property mentions: recorded turns were seen, and a stream that has not opened
  projects nothing, without which an opening snapshot could land on leftovers.
  `TreeEndsBottomUp` is inductive although the code looks at direct children only:
  a child cannot be added to, or revived under, an activity that is over.
- `ReducerProofs` proves `IncarnationInv` inductive. The invariant strengthens
  the two properties it implies by what they need of each other: a started stream has
  a name, its boundary is at or above its base, and with retention every sequence from
  base to boundary has its frame. None of that is visible in the properties. Then
  `ProjectionInv`, which is `IncarnationInv` and `Sound(reducer)`, and from the invariants
  the action properties, one lemma per handler.
- `PublisherProofs` proves `PublisherInv` and then `CyclesInv`. The host and the emitter are `Alike`:
  equal but for the incarnations left behind, which no handler reads, so that each handler
  takes alike reducers to alike reducers (`ApplyAlike`, `ReduceFirstAlike`). While a stream is
  active the next envelope lands exactly one past the boundary of both (`ReduceNext`), hence
  the host accepts what the emitter accepted; an opening meets a host that has not heard of
  the name, because names are new, and lands on a projection as blank as the emitter's
  (`HostReducesOpening`). What makes this inductive is that a method never has something left to
  emit on a stream that is not active, since every failure fences and ends the method.
  `CyclesInv` follows a `Cycle` value through the methods: ids are minted once, so a turn the
  host knows is one held cycle, and the map of blockers names only cycles of the incarnation that
  runs. The latter is not immediate: `ActionPending` and `ActionResolved` take any cycle, and
  do not compare its incarnation. It holds because the ask goes out before the cycle is
  entered in the map, and an ask whose turn the stream does not know is refused, a repeated
  one too, since it must state the owner recorded (`AskedTurnKnown`, which rests on `Sound`).
  `DisciplineInv` is about callers that keep to one open cycle: what a method has left to emit is
  in one of eight phases (`Phase`), each of which says what the emitter's reducer looks like.
  Between methods nothing is owed, a cycle with a question waits, and the map names exactly the
  questions, all of them of the current cycle (`Agrees`); within a method the map and the
  projection may differ by the step that is on its way. One lemma per phase shows that its next
  event is accepted and leaves the rest of a method (`OpeningGoesOn` to `EndingGoesOn`), and one
  per call that it begins a phase. Three facts carry it: a turn just minted is one no stream
  knows (`AcceptDisciplined`); a held cycle that is current has one turn, and that is open
  (`CurrentTurn`); the order in which `Idle` cancels names every blocker once, so that the last
  cancellation leaves none (`CancelsEachOnce`, `EndingStepsEnd`).
- `MirrorProofs` proves `Sound` (its own), a conjunction whose parts lean on one another.
  `Fresh`: no copy of the log, in the mirror, the running call or the store, holds a line
  that was not yet complete when it was read. A line the harness adds or rewrites is new, so
  rows that begin a log which has grown began it before (`PrefixBefore`): that is what lets a
  commit compare its rows with a history that moved on since. `CursorSound`: if a read goes
  on from a cursor then the committed rows begin the log. The cursor keeps only the length, the file
  and two windows; that this is enough is `Noticed`, the harness's side of the bargain, for a
  rewrite, and for a log that merely grew that its beginning is what it was. `ReadSound`: the
  committed rows and the tail make the history that was read, and what is about to be written was
  validated, all of it or past a committed prefix (`ValidPast`). `OrderlySound`: as long as nothing
  else writes, what the mirror remembers is what the store holds in the middle of a call too, and so
  is what a load was handed; the failed append that changed nothing and the reread after it keep
  it, and so does a deletion, since a deleted session takes no write (`DeletedEmpty`).
  `Undisturbed` is the same where others do write. There an append is guarded by a count only
  (`Store.Append`), and what saves it is that a stored generation which has as many rows as the
  committed ones that begin the history *is* the committed rows. `MemoryIsSound` and the typing follow;
  `MirrorImplementsFull` maps each step to one of `FullMirror`'s (a write to a publication of
  the whole history, a verdict of "nothing" to a call that found it published) or to a stutter;
  `LoadsKeepSoundRows` needs `LoadSound`, that a load writes the log only when the stored
  rows go on from it.
- `WireProofs` proves `OpeningInv` of the transport, of which the history variable `turn` is what makes
  "earlier" a statement about states. A publication knows only its predecessor, and
  `ready` only the last one, which is forgotten when it finishes; that nobody earlier is
  left must follow from that. `Covered` says it: whoever is earlier than a publication is
  over, or not later than the publication's predecessor. `LastIsReady` says the same of
  `ready`, which is why an opening registered when `ready` holds nothing needs no
  predecessor, and why a prompt that finds nothing there may be admitted. `StartedInTurn`
  closes the induction. The chain is claimed while the connection is open only; `Close`
  breaks it, as the third disagreement shows, and nothing restores it.
  `RecordInv` follows the params instead: a record belongs to an unanswered request
  (`RecordsOfUnanswered`), and the record of a prompt whose handler runs is in the queue or
  was taken by a prompt like it (`RecordsWait`), so that an empty-handed prompt has somebody
  to blame.
- `SeedFilesProofs` proves `SeedInv`: each holder of the lock has an `InOrder` manifest (it is
  as it was read until the holder extends it, and lists every target before one is
  written), its targets are `AsFound` unless the operator touched them, and those it is done
  with are `Written`. `AsFound` is what the code relies on when it remembers across the
  write of the manifest whether a target existed; that it speaks of untouched names only is
  the window of the third disagreement. One lemma covers all steps of a launch that writes
  (`WriterMoves`), one all ways to leave (`LeftBehind`), which is where a crash costs
  nothing: the manifest was extended first.

- `ProcessProofs` proves `ProcessInv`. That callers agree needs `Reaped`: once the reaper has
  stored something the child is reaped and what is stored is how it ended, and a caller reads
  it only behind `done`. The tail is `EndOf(copied)`, the last `TailLines` of what was copied;
  `TailGrows` shows that trimming what was kept and what was read gives that again, however
  much is read at once. That nothing is missing needs `Drained`: a copier that saw the end saw
  it with no writer left, and `Launched`, that the parent dropped its copy of the child's end
  and that nobody writes before the child is there.
- `WireProofs` proves `OutputInv` of the session's output, a conjunction of one invariant per part. For the
  calls it says where a call stands for each place its request may be at (`CallSound`), and
  that a channel is closed only by the write of the call it belongs to and by nobody's else
  (`ChannelSound`); without it an answer could be seen while the announcement of another
  call had taken the channel. For compactions `ShownFits` relates every notification ever
  shown to what the table holds now: the table is the latest state of the attempt, or newer.
  `TextInv` says that the copy kept for suffixes is what the host has.

- `MediaProofs` proves `MediaInv`, which follows the locals of the call. For a prompt (`Kept`):
  the blocks behind the loop fit the limits (`PassedFit`), what was charged for them is what they
  state (`Charged`), and the images taken are theirs, each as it declared, none lost
  and in order (`ImagesInOrder`, `NoneIsLost`). A handoff that is opened or read has passed all
  earlier gates (`Awaited`), so that a change of the file between the two accesses can fail the call and
  nothing else: the digest is of the bytes that were read. `Charged` speaks of `TotalStated`, a recursive
  function; that it exists and sums up is `SumsExist`, by the least position at which it would
  not, since the library's induction takes an operator. For an artifact the descriptor in hand
  lies in a root that stands, whatever its path names by then, and a
  read of one byte more than the limit that stays within it has the whole file (`ReadsData`).

Only model-checked: the liveness properties `WaitersReturn`, `CallsEnd`, `CallsReturn` (of `Mirror`
and of `Process`), `KilledGroupIsReaped` and `CloseReleasesCalls`, since fairness and ENABLED are
beyond the prover.

## Disagreements between contract and code

Statements of the documentation that the code does not keep. TLC refutes each of the first
three, in a run of its own; the fourth was met on the way and is a matter of which refusal a
host sees.

1. `docs/02-wire-contract.md:768-772`: a transition that leaves `requires_action` while a blocker is
   nonterminal is `inconsistent_foreground`. `checkBlockedCycle`
   (`lifecycle/reducer_apply.go:248`) judges the cycle the transition *names*: with
   cycle `c1` waiting for a blocker, a `running` transition that names `c2` is
   accepted and the foreground moves on (`LeavesRequiresActionUnblocked`). What
   does hold is `StoppedCycleOwesItsTransition`, proved: if the foreground returns to
   the stopped cycle, it must be in `requires_action`.
2. `wire/transport.go:369-370`: "Successive publications for one session wait for their
   predecessors to finish." After `Close` they do not (`SuccessorsWait`). The second of
   three publications gives up when the context ends, although the first is still running its
   hook, and closes its channel (line 495, then the deferred function); the third finds that
   channel closed, `select` may choose it, and its hook runs beside the first. The hook gets
   a context that is over, so what it can still write is limited. For the same reason
   `AwaitSession` may admit a prompt after `Close` before the first hook returned.
   `OpeningsTakeTurns` and `AdmittedBehindOpenings` state what holds, before `Close`.
3. `process/seed.go:73-75`: "the adapter never overwrites a file it did not create". A target
   is looked for once (line 123), before the manifest is written, and published by a rename
   that replaces whatever is there by then (line 287): a file that the operator created in
   between is overwritten (`NeverOverwritesOthers`). So is a file that the operator created
   under a name which the manifest lists because an earlier launch died before it wrote it,
   or because its file was removed. What does hold, and is proved, is
   `StandingFilesSurvive`: the sentence of `docs/01-public-api.md:174-176`, that an existing
   file not in the manifest is never overwritten, for every file the operator leaves alone
   during the call.
4. `docs/02-wire-contract.md:869`: a snapshot listing a terminal entity or a duplicate id is
   `malformed_envelope`, "Checked before ordering". The lists are checked in
   `applySnapshot` (`lifecycle/reducer_apply.go:62`), after ordering, so such a snapshot
   inside an open stream is refused as `stream_cycle`, `sequence_gap` or otherwise
   by its place. It is refused either way.

## Not modelled

- Decoding of JSON (`lifecycle/decode.go`, `value.go`, `negotiation.go`): data shaping.
  Its rules that the reducer consults are in `Lifecycle`, its refusals are an input.
- Shaping of wire values (`wire/errors.go`, `options.go`, `accountusage*.go`, `catalog.go`,
  `session_meta.go`), HTTP usage readers, the observer, scripts and fixtures: no state that
  survives a call or that anything reads back. `ReadVerified` reads an identity, a usage
  and the identity again within one call, over a service that may change in between; it
  returns an error then, which is what its tests cover.
- Of the session store: deleting one subpath, listing, timestamps, requests refused by
  validation; of the log: a read that another process overtakes half way, and the bytes
  of a line.
- A store that breaks its contract may keep a changed configuration record that the
  mirror does not know of, and a later commit with the remembered configuration does
  not repair it. For such a store `mirror` therefore claims the rows only.
- Of the transport: the bound on the length of a line and the latch `Start`; frames cut in
  the middle by the writer (a frame goes out whole or not at all); a client that reuses the
  id of a request whose response was written and not yet observed, which is the one hazard
  in the list without a property.
- Of the session's output: `Forget` and `Reset` of streamed texts, which the agents call;
  a session that did not ask for raw
  events (`enabled` never changes).
- Of processes: the merge of environments and the scratch directory (conversions and plain
  file access); process group ids that the kernel reuses.
- Of images: what the raster parsers do with bytes, and the texts of errors.
- Of the seed files: power failures. A launch that finds its names listed does not write, and so
  does not sync, the manifest (`process/seed.go:149`); renames are taken to be durable and ordered.

## The plan

1. *Done.* `Lifecycle`, `Reduction`, `Reducer` and their proofs.
2. *Done.* `Publisher`, with the theorems about what holds whatever callers do and about what
   holds for callers that keep to one open cycle.
3. `LifecycleChannel`: the emitter, a channel that loses, duplicates and reorders, and
   a retaining host, shown to implement an abstract specification in which the host
   holds a prefix of what was emitted, or has failed.
4. *Done.* `SessionStore`, `Mirror`, `FullMirror` and their proofs.
5. *Done.* `Transport` and `SessionOutput`, with their theorems.
6. *Done.* `SeedFiles`, `Process` and their proofs.
7. *Done.* `Media` and its proofs.

Theorems next: those of `LifecycleChannel`, its refinement first.
