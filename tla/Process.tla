------------------------------ MODULE Process ------------------------------
(***************************************************************************)
(* One harness process (process/launch.go) and the verdict of a transport  *)
(* about it (wire/transport_failure.go).  Start builds the pipes and the   *)
(* child; the methods of the Process are then called by any goroutine, and *)
(* meet in one reaper and one copier of stderr.                            *)
(*                                                                         *)
(* The child may leave a descendant, inside its process group or out of    *)
(* it, that holds stderr open.  A line of stderr is its number, and time   *)
(* is left out: a timer may fire at any moment after it was set.  That the *)
(* system gives the group id of a reaped child to others is left out too.  *)
(***************************************************************************)
EXTENDS Naturals, Sequences

CONSTANTS
  None,
  Callers,     \* goroutines that hold the Process
  Calls,       \* which methods each of them calls
  MaxLines,    \* bound on the lines that are written to stderr
  TailLines    \* stderrTailBytes, in lines

Ops == {"Wait", "Shutdown", "Kill", "StderrTail", "Close",
        "LaunchFailure", "TransportFailure"}

ASSUME ProcessAssumption ==
  /\ Calls \in [Callers -> SUBSET Ops]
  /\ MaxLines \in Nat /\ TailLines \in Nat
  /\ None \notin Ops

Streams == {"stdin", "stdout", "stderr"}
Ends == {"child", "parent"} \X Streams
Causes == {"exit", "TERM", "KILL"}

VARIABLES
  start,     \* how far Start is
  ends,      \* the pipe ends that the parent holds
  root,      \* the child,
  cause,     \* and what ended it
  kin,       \* its descendant
  pending,   \* signals sent to them and not yet taken
  written, copied, tail, copier,
  reaper, result,   \* beginWait's goroutine, and what it has stored
  call       \* each caller's call

streams == <<written, copied, tail, copier>>
group == <<root, cause, kin, pending>>
vars == <<start, ends, group, streams, reaper, result, call>>

(* said: what the last call reported of the child. *)
Call == [op : Ops \cup {None},
         at : {"idle", "entered", "waiting", "asking", "term", "grace",
               "killing", "killed", "tail", "flush", "closing",
               "stderr", "joining"},
         said : Causes \cup {"stopped", None}]

Idle(said) == [op |-> None, at |-> "idle", said |-> said]

(* The zero Result reads as an exit with status 0. *)
Init ==
  /\ start = "new" /\ ends = {}
  /\ root = "none" /\ cause = None /\ kin = "none"
  /\ pending = [member \in {"root", "kin"} |-> {}]
  /\ written = 0 /\ copied = 0 /\ tail = <<>> /\ copier = "none"
  /\ reaper = "none" /\ result = "exit"
  /\ call = [c \in Callers |-> Idle(None)]

-----------------------------------------------------------------------------
(* Start *)

Both(stream) == {"child", "parent"} \X {stream}

(* stdin, then stdout unless the request names a file for it, then stderr. *)
MakesPipe ==
  /\ \/ start = "new" /\ start' = "stdin" /\ ends' = Both("stdin")
     \/ /\ start = "stdin" /\ start' = "stdout"
        /\ ends' \in {ends, ends \cup Both("stdout")}
     \/ /\ start = "stdout" /\ start' = "piped"
        /\ ends' = ends \cup Both("stderr")
  /\ UNCHANGED <<group, streams, reaper, result, call>>

(* The context has ended, a pipe or the child cannot be made. *)
StartFails ==
  /\ start \in {"new", "stdin", "stdout", "piped"}
  /\ start' = "failed"
  /\ ends' = {}
  /\ UNCHANGED <<group, streams, reaper, result, call>>

ParentEnds == ends \ ({"child"} \X Streams)

Spawns ==
  /\ start = "piped"
  /\ start' = "started"
  /\ ends' = ParentEnds
  /\ root' = "running" /\ copier' = "copying"
  /\ UNCHANGED <<cause, kin, pending, written, copied, tail, reaper, result, call>>

-----------------------------------------------------------------------------
(* The child and its descendant *)

Writers ==
  {w \in {"child", "root", "kin"} :
     CASE w = "child" -> <<"child", "stderr">> \in ends
       [] w = "root"  -> root = "running"
       [] w = "kin"   -> kin \in {"grouped", "escaped"}}

WritesLine ==
  /\ Writers \cap {"root", "kin"} # {}
  /\ <<"parent", "stderr">> \in ends
  /\ written < MaxLines
  /\ written' = written + 1
  /\ UNCHANGED <<start, ends, group, copied, tail, copier, reaper, result, call>>

(* The kernel refuses to fork with a SIGKILL pending. *)
Forks ==
  /\ root = "running" /\ "KILL" \notin pending["root"] /\ kin = "none"
  /\ kin' \in {"grouped", "escaped"}
  /\ UNCHANGED <<start, ends, root, cause, pending, streams, reaper, result, call>>

RootEnds(why) ==
  /\ root = "running"
  /\ why = "exit" \/ why \in pending["root"]
  /\ root' = "zombie" /\ cause' = why
  /\ pending' = [pending EXCEPT !["root"] = {}]
  /\ UNCHANGED <<start, ends, kin, streams, reaper, result, call>>

KinEnds ==
  /\ kin \in {"grouped", "escaped"}
  /\ kin' = "gone"
  /\ pending' = [pending EXCEPT !["kin"] = {}]
  /\ UNCHANGED <<start, ends, root, cause, streams, reaper, result, call>>

(* Faulty variant: the signal goes to the root alone. *)
SignalledRoot(signal) ==
  IF root = "running"
  THEN [pending EXCEPT !["root"] = @ \cup {signal}] ELSE pending

(* A group without a member answers ESRCH, which is no error.  The         *)
(* descendant may end at any time, so that only SIGKILL makes a difference *)
(* to it.                                                                  *)
Signalled(signal) ==
  [member \in DOMAIN pending |->
     IF CASE member = "root" -> root = "running"
          [] member = "kin"  -> kin = "grouped" /\ signal = "KILL"
     THEN pending[member] \cup {signal} ELSE pending[member]]

-----------------------------------------------------------------------------
(* The copier of stderr *)

(* Faulty variant: the buffer is not trimmed. *)
AllOf(lines) == lines

LastOf(lines) ==
  SubSeq(lines, IF Len(lines) > TailLines THEN Len(lines) - TailLines + 1 ELSE 1,
         Len(lines))

(* Faulty variant: the copier stops with the child. *)
AtEndOfChild == root # "running"

(* Whether Read returns data, EOF or the error of a closed file. *)
Readable == copied < written /\ <<"parent", "stderr">> \in ends
AtEnd == Writers = {} /\ copied = written

CopierReads ==
  /\ copier = "copying" /\ Readable
  /\ \E n \in 1 .. (written - copied) :
       /\ copied' = copied + n
       /\ tail' = LastOf(tail \o [i \in 1 .. n |-> copied + i])
  /\ UNCHANGED <<start, ends, group, written, copier, reaper, result, call>>

CopierEnds ==
  /\ copier = "copying"
  /\ AtEnd \/ <<"parent", "stderr">> \notin ends
  /\ copier' = "done"
  /\ UNCHANGED <<start, ends, group, written, copied, tail, reaper, result, call>>

-----------------------------------------------------------------------------
(* The reaper *)

(* Faulty variant: the result is not stored before done is closed. *)
StoredNothing == result

StoredResult == cause

(* cmd.Wait returns, for it waits for the child alone, and the result is   *)
(* stored.                                                                 *)
Reaps ==
  /\ reaper = "waiting" /\ root = "zombie"
  /\ reaper' = "stored" /\ root' = "reaped"
  /\ result' = StoredResult
  /\ UNCHANGED <<start, ends, cause, kin, pending, streams, call>>

ClosesDone ==
  /\ reaper = "stored"
  /\ reaper' = "done"
  /\ UNCHANGED <<start, ends, group, streams, result, call>>

Done == reaper = "done"

-----------------------------------------------------------------------------
(* The methods *)

At(c, place) == call[c].at = place

Goes(c, place) == call' = [call EXCEPT ![c].at = place]

Returns(c, said) == call' = [call EXCEPT ![c] = Idle(said)]

Enter(c, op) ==
  /\ start = "started" /\ At(c, "idle")
  /\ call' = [call EXCEPT ![c] =
       [op |-> op, said |-> None,
        at |-> CASE op = "StderrTail" -> "tail"
                 [] op = "Close"      -> "closing"
                 [] OTHER             -> "entered"]]
  /\ UNCHANGED <<start, ends, group, streams, reaper, result>>

(* waitOnce: the first call starts the reaper. *)
Begun == IF reaper = "none" THEN "waiting" ELSE reaper

BeginWait(c) ==
  /\ At(c, "entered")
  /\ reaper' = Begun
  /\ Goes(c, CASE call[c].op = "Shutdown" -> "asking"
               [] call[c].op = "Kill"     -> "killing"
               [] OTHER                   -> "waiting")
  /\ UNCHANGED <<start, ends, group, streams, result>>

(* Wait, LaunchFailure and TransportFailure: the child was reaped, *)
SeesResult(c) ==
  /\ At(c, "waiting") /\ Done
  /\ IF call[c].op = "Wait" THEN Returns(c, result)
     ELSE call' = [call EXCEPT ![c].at = "tail", ![c].said = result]
  /\ UNCHANGED <<start, ends, group, streams, reaper, result>>

(* or the context of a Wait has ended, or the timer of the other two. *)
GivesUp(c) ==
  /\ At(c, "waiting")
  /\ IF call[c].op = "LaunchFailure" THEN Goes(c, "tail") ELSE Returns(c, None)
  /\ UNCHANGED <<start, ends, group, streams, reaper, result>>

(* Shutdown: the child has been reaped already, *)
IsStopped(c) ==
  /\ call[c].op = "Shutdown" /\ call[c].at \in {"asking", "grace", "killed"}
  /\ Done
  /\ Returns(c, "stopped")
  /\ UNCHANGED <<start, ends, group, streams, reaper, result>>

(* or not. *)
IsRunning(c) ==
  /\ At(c, "asking") /\ ~Done
  /\ Goes(c, "term")
  /\ UNCHANGED <<start, ends, group, streams, reaper, result>>

Terminates(c) ==
  /\ At(c, "term")
  /\ pending' = Signalled("TERM")
  /\ Goes(c, "grace")
  /\ UNCHANGED <<start, ends, root, cause, kin, streams, reaper, result>>

(* Faulty variant: a child that ignores SIGTERM is waited for. *)
AfterGraceWaiting == "killed"

AfterGrace == "killing"

GraceEnds(c) ==
  /\ At(c, "grace")
  /\ Goes(c, AfterGrace)
  /\ UNCHANGED <<start, ends, group, streams, reaper, result>>

(* The context of a Shutdown may end while it waits, or never. *)
Abandons(c) ==
  /\ call[c].at \in {"grace", "killed"}
  /\ Returns(c, None)
  /\ UNCHANGED <<start, ends, group, streams, reaper, result>>

(* Kill, and the end of a Shutdown. *)
Kills(c) ==
  /\ At(c, "killing")
  /\ pending' = Signalled("KILL")
  /\ IF call[c].op = "Kill" THEN Returns(c, None) ELSE Goes(c, "killed")
  /\ UNCHANGED <<start, ends, root, cause, kin, streams, reaper, result>>

(* StderrTail, by itself or for one of the two failures: the tail is read  *)
(* at once while the child is not known to have ended. *)
LooksForTail(c) ==
  /\ At(c, "tail")
  /\ IF Done THEN Goes(c, "flush") ELSE Returns(c, call[c].said)
  /\ UNCHANGED <<start, ends, group, streams, reaper, result>>

(* flushStderr: the copier has ended, or stderrFlushWait is over. *)
Flushed(c) ==
  /\ At(c, "flush")
  /\ IF call[c].op = "Close" THEN Goes(c, "stderr") ELSE Returns(c, call[c].said)
  /\ UNCHANGED <<start, ends, group, streams, reaper, result>>

(* Close *)
ClosesStreams(c) ==
  /\ At(c, "closing")
  /\ ends' = ends \ {<<"parent", "stdin">>, <<"parent", "stdout">>}
  /\ Goes(c, "flush")
  /\ UNCHANGED <<start, group, streams, reaper, result>>

EndsWithoutStderr == ends \ {<<"parent", "stderr">>}

ClosesStderr(c) ==
  /\ At(c, "stderr")
  /\ ends' = EndsWithoutStderr
  /\ Goes(c, "joining")
  /\ UNCHANGED <<start, group, streams, reaper, result>>

JoinsCopier(c) ==
  /\ At(c, "joining") /\ copier = "done"
  /\ Returns(c, None)
  /\ UNCHANGED <<start, ends, group, streams, reaper, result>>

CallStep(c) ==
  \/ BeginWait(c) \/ SeesResult(c) \/ GivesUp(c)
  \/ IsStopped(c) \/ IsRunning(c) \/ Terminates(c) \/ GraceEnds(c)
  \/ Kills(c)
  \/ LooksForTail(c) \/ Flushed(c)
  \/ ClosesStreams(c) \/ ClosesStderr(c) \/ JoinsCopier(c)

Next ==
  \/ MakesPipe \/ StartFails \/ Spawns
  \/ WritesLine \/ Forks \/ (\E why \in Causes : RootEnds(why)) \/ KinEnds
  \/ CopierReads \/ CopierEnds \/ Reaps \/ ClosesDone
  \/ \E c \in Callers :
       CallStep(c) \/ Abandons(c) \/ \E op \in Calls[c] : Enter(c, op)

Spec == Init /\ [][Next]_vars

(* A goroutine that can run does, and the kernel delivers a SIGKILL.       *)
(* Nothing is assumed of what the child does by itself, nor that the       *)
(* context of a call ever ends.                                            *)
Fairness ==
  /\ WF_vars(CopierReads \/ CopierEnds)
  /\ WF_vars(Reaps \/ ClosesDone)
  /\ WF_vars(RootEnds("KILL")) /\ WF_vars("KILL" \in pending["kin"] /\ KinEnds)
  /\ \A c \in Callers : WF_vars(CallStep(c))

FairSpec == Spec /\ Fairness

-----------------------------------------------------------------------------
(* Properties *)

(* The variables have their types, and the tail its bound (Process and     *)
(* stderrTailBytes, launch.go).                                            *)
TypeOK ==
  /\ start \in {"new", "stdin", "stdout", "piped", "started", "failed"}
  /\ ends \subseteq Ends
  /\ root \in {"none", "running", "zombie", "reaped"}
  /\ cause \in Causes \cup {None}
  /\ kin \in {"none", "grouped", "escaped", "gone"}
  /\ pending \in [{"root", "kin"} -> SUBSET {"TERM", "KILL"}]
  /\ written \in 0 .. MaxLines /\ copied \in 0 .. MaxLines
  /\ tail \in Seq(1 .. MaxLines) /\ Len(tail) <= TailLines
  /\ copier \in {"none", "copying", "done"}
  /\ reaper \in {"none", "waiting", "stored", "done"}
  /\ result \in Causes
  /\ call \in [Callers -> Call]

(* Whoever hears how the child ended hears how it did end, all callers the *)
(* same, and a Shutdown that reports success has seen it reaped: whatever  *)
(* signals and exits cross (Wait, Shutdown, LaunchFailure and              *)
(* TransportFailure).                                                      *)
AnswersAgree ==
  \A c \in Callers :
    call[c].said # None =>
      /\ root = "reaped"
      /\ call[c].said \in Causes => call[c].said = cause

(* The tail is the end of what was copied, and once the copier has ended   *)
(* with the pipe still open nothing that anybody wrote is missing          *)
(* (drainStderr).                                                          *)
TailIsTheEnd ==
  /\ tail = LET first == IF copied > TailLines THEN copied - TailLines ELSE 0
            IN  [i \in 1 .. (copied - first) |-> first + i]
  /\ (copier = "done" /\ <<"parent", "stderr">> \in ends) => copied = written

(* Every call but Wait returns, whatever the child does: a Shutdown kills  *)
(* in the end, and a Close is not held up by a descendant that keeps       *)
(* stderr open (Shutdown, Close, flushStderr).                             *)
CallsReturn ==
  \A c \in Callers :
    (call[c].op \notin {None, "Wait"}) ~> At(c, "idle")

(* A group that was sent SIGKILL dies with its descendants, and its root   *)
(* does not linger as a zombie (Kill, beginWait, signalGroup).             *)
KilledGroupIsReaped ==
  (\E c \in Callers : At(c, "killing"))
     ~> (root = "reaped" /\ kin # "grouped")

=============================================================================
