--------------------------- MODULE ProcessProofs ---------------------------
(***************************************************************************)
(* What the goroutines around one harness process agree on, for every      *)
(* number of callers, lines and tail bytes, whatever the child, its        *)
(* descendant and the signals do.                                          *)
(***************************************************************************)
EXTENDS Process, SequenceTheorems, TLAPS

First(n) == IF n > TailLines THEN n - TailLines ELSE 0
EndOf(n) == [i \in 1 .. (n - First(n)) |-> First(n) + i]

Tied == <<"parent", "stderr">> \in ends

(* Nothing is there before the child is, and the parent drops the child's  *)
(* ends of the pipes.                                                      *)
Launched ==
  /\ start # "started" => /\ root = "none" /\ kin = "none"
                          /\ copier = "none" /\ reaper = "none"
                          /\ \A c \in Callers : call[c].at = "idle" /\ call[c].said = None
  /\ start = "started" => <<"child", "stderr">> \notin ends

(* What the reaper has stored is how the child ended. *)
Reaped ==
  /\ root \in {"zombie", "reaped"} => cause \in Causes
  /\ reaper \in {"stored", "done"} => root = "reaped" /\ result = cause

(* Whoever could write is gone when the copier has seen the end. *)
Drained ==
  (copier = "done" /\ Tied) =>
    copied = written /\ root # "running" /\ kin \notin {"grouped", "escaped"}

ProcessInv ==
  /\ TypeOK
  /\ copied <= written /\ tail = EndOf(copied)
  /\ Launched
  /\ Reaped
  /\ AnswersAgree
  /\ Drained

-----------------------------------------------------------------------------
(* The tail *)

(* The end of the first n lines is a bounded sequence of them              *)
(* (stderrTailBytes).                                                      *)
LEMMA EndTyped ==
  ASSUME NEW n \in Nat, NEW m \in Nat, n <= m
  PROVE  /\ EndOf(n) \in Seq(1 .. m)
         /\ Len(EndOf(n)) = n - First(n)
         /\ First(n) \in Nat /\ n - First(n) \in 0 .. TailLines
<1> USE ProcessAssumption
<1>1. First(n) \in Nat /\ n - First(n) \in 0 .. TailLines
  BY DEF First
<1>2. EndOf(n) \in [1 .. (n - First(n)) -> 1 .. m]
  BY <1>1 DEF EndOf
<1>3. EndOf(n) \in Seq(1 .. m)
  BY <1>1, <1>2
<1> QED
  BY <1>1, <1>2, <1>3

(* Trimming what was kept and what was read leaves the end of both         *)
(* (drainStderr).                                                          *)
LEMMA TailGrows ==
  ASSUME NEW m \in Nat, NEW n \in Nat, NEW k \in Nat, k = m + n
  PROVE  LastOf(EndOf(m) \o [i \in 1 .. n |-> m + i]) = EndOf(k)
<1> USE ProcessAssumption
<1> DEFINE new == [i \in 1 .. n |-> m + i]
           all == EndOf(m) \o new
           len == Len(all)
           from == IF len > TailLines THEN len - TailLines + 1 ELSE 1
           S == 1 .. k
<1>1. /\ EndOf(m) \in Seq(S)
      /\ Len(EndOf(m)) = m - First(m)
      /\ First(m) \in Nat /\ m - First(m) \in 0 .. TailLines
  BY EndTyped
<1>2. new \in Seq(S) /\ Len(new) = n
  <2>1. new \in [1 .. n -> S]
    OBVIOUS
  <2> QED
    BY <2>1
<1>3. /\ all \in Seq(S)
      /\ len = m - First(m) + n
      /\ \A i \in 1 .. len : all[i] = First(m) + i
  <2> HIDE DEF new, S
  <2>1. /\ all \in Seq(S)
        /\ len = m - First(m) + n
        /\ \A i \in 1 .. len :
             all[i] = IF i <= m - First(m) THEN EndOf(m)[i] ELSE new[i - (m - First(m))]
    <3>1. /\ EndOf(m) \o new \in Seq(S)
          /\ Len(EndOf(m) \o new) = Len(EndOf(m)) + Len(new)
          /\ \A i \in 1 .. Len(EndOf(m)) + Len(new) :
               (EndOf(m) \o new)[i] =
                  IF i <= Len(EndOf(m)) THEN EndOf(m)[i] ELSE new[i - Len(EndOf(m))]
      BY <1>1, <1>2, ConcatProperties
    <3> QED
      BY <1>1, <1>2, <3>1
  <2>2. \A i \in 1 .. (m - First(m)) : EndOf(m)[i] = First(m) + i
    BY DEF EndOf
  <2>3. \A i \in 1 .. n : new[i] = m + i
    BY DEF new
  <2>4. ASSUME NEW i \in 1 .. len PROVE all[i] = First(m) + i
    <3>1. CASE i <= m - First(m)
      BY <1>1, <2>1, <2>2, <3>1
    <3>2. CASE ~(i <= m - First(m))
      <4>1. i - (m - First(m)) \in 1 .. n
        BY <1>1, <2>1, <3>2
      <4>2. new[i - (m - First(m))] = m + (i - (m - First(m)))
        BY <2>3, <4>1
      <4>3. all[i] = new[i - (m - First(m))]
        BY <2>1, <3>2
      <4>4. i \in Int
        BY <1>1, <2>1
      <4>5. m + (i - (m - First(m))) = First(m) + i
        BY <1>1, <4>4
      <4> QED
        BY <4>2, <4>3, <4>5
    <3> QED
      BY <3>1, <3>2
  <2> QED
    BY <2>1, <2>4
<1> HIDE DEF all, S
<1>4. /\ SubSeq(all, from, len) \in Seq(S)
      /\ Len(SubSeq(all, from, len)) = len - from + 1
      /\ \A i \in 1 .. len - from + 1 : SubSeq(all, from, len)[i] = all[from + i - 1]
  <2>1. from \in Int /\ len \in Int /\ from >= 1
    BY <1>1, <1>3
  <2>2. \A i \in from .. len : all[i] \in S
    <3> SUFFICES ASSUME NEW i \in from .. len PROVE all[i] \in S
      OBVIOUS
    <3>1. i \in 1 .. Len(all)
      BY <2>1
    <3> QED
      BY <1>3, <3>1, ElementOfSeq
  <2>3. from <= len + 1
    BY <1>1, <1>3
  <2> HIDE DEF from, len
  <2> QED
    BY <2>1, <2>2, <2>3, SubSeqProperties
<1>5. /\ EndOf(k) \in Seq(S)
      /\ Len(EndOf(k)) = k - First(k)
      /\ \A i \in 1 .. k - First(k) : EndOf(k)[i] = First(k) + i
  <2>1. \A i \in 1 .. k - First(k) : EndOf(k)[i] = First(k) + i
    BY DEF EndOf
  <2> QED
    BY <2>1, EndTyped DEF S
<1>6. len - from + 1 = k - First(k)
  BY <1>1, <1>3 DEF First
<1>7. \A i \in 1 .. len - from + 1 : First(m) + (from + i - 1) = First(k) + i
  BY <1>1, <1>3 DEF First
<1>8. \A i \in 1 .. len - from + 1 : from + i - 1 \in 1 .. len
  <2>1. len \in Nat /\ from \in Int /\ from >= 1
    BY <1>1, <1>3
  <2> HIDE DEF from, len
  <2> QED
    BY <2>1
<1>9. SubSeq(all, from, len) = EndOf(k)
  <2> HIDE DEF from, len
  <2>1. ASSUME NEW i \in 1 .. Len(EndOf(k))
        PROVE  SubSeq(all, from, len)[i] = EndOf(k)[i]
    <3>1. i \in 1 .. len - from + 1 /\ i \in 1 .. k - First(k)
      BY <1>5, <1>6
    <3>2. SubSeq(all, from, len)[i] = all[from + i - 1]
      BY <1>4, <3>1
    <3>3. all[from + i - 1] = First(m) + (from + i - 1)
      BY <1>3, <1>8, <3>1
    <3>4. EndOf(k)[i] = First(k) + i
      BY <1>5, <3>1
    <3> QED
      BY <1>7, <3>1, <3>2, <3>3, <3>4
  <2>2. Len(SubSeq(all, from, len)) = Len(EndOf(k))
    BY <1>4, <1>5, <1>6
  <2> QED
    BY <1>4, <1>5, <2>1, <2>2, SeqEqual
<1> QED
  BY <1>9 DEF LastOf, all

-----------------------------------------------------------------------------
(* One step *)

(* Nothing runs yet and nothing was said (Start).                          *)
LEMMA ProcessInit == Init => ProcessInv
<1> SUFFICES ASSUME Init PROVE ProcessInv
  OBVIOUS
<1> USE ProcessAssumption
<1>1. EndOf(0) = <<>>
  BY DEF EndOf, First
<1>2. Idle(None) \in Call
  BY DEF Idle, Call
<1>3. Len(<<>>) = 0 /\ <<>> \in Seq(1 .. MaxLines)
  OBVIOUS
<1>4. TypeOK
  BY <1>2, <1>3 DEF Init, TypeOK, Ends, Streams, Causes
<1> QED
  BY <1>1, <1>4 DEF Init, ProcessInv, Launched, Reaped, AnswersAgree, Drained, Idle

(* Start, with the child's ends closed behind the child (newPipes, Start). *)
LEMMA StartStep ==
  ASSUME ProcessInv, MakesPipe \/ StartFails \/ Spawns
  PROVE  ProcessInv'
<1> USE ProcessAssumption DEF group, streams
<1>1. Both("stdin") \subseteq Ends /\ Both("stdout") \subseteq Ends /\ Both("stderr") \subseteq Ends
  BY DEF Both, Ends, Streams
<1>2. TypeOK'
  <2>1. ends' \subseteq Ends
    BY <1>1 DEF ProcessInv, TypeOK, MakesPipe, StartFails, Spawns, ParentEnds
  <2> QED
    BY <2>1 DEF ProcessInv, TypeOK, MakesPipe, StartFails, Spawns
<1>3. Launched'
  <2>1. CASE MakesPipe \/ StartFails
    BY <2>1 DEF ProcessInv, Launched, MakesPipe, StartFails
  <2>2. CASE Spawns
    <3>1. <<"child", "stderr">> \notin ends'
      BY <2>2 DEF Spawns, ParentEnds, Streams
    <3> QED
      BY <2>2, <3>1 DEF Spawns, Launched
  <2> QED
    BY <2>1, <2>2
<1>4. Reaped' /\ AnswersAgree' /\ Drained'
  BY DEF ProcessInv, Launched, Reaped, AnswersAgree, Drained, MakesPipe, StartFails, Spawns
<1> QED
  BY <1>2, <1>3, <1>4 DEF ProcessInv, MakesPipe, StartFails, Spawns

(* The child, its descendant, the copier and the reaper (drainStderr,      *)
(* beginWait).                                                             *)
LEMMA ChildStep ==
  ASSUME ProcessInv,
         \/ WritesLine \/ Forks \/ KinEnds \/ CopierEnds \/ Reaps \/ ClosesDone
         \/ \E why \in Causes : RootEnds(why)
  PROVE  ProcessInv'
<1> USE ProcessAssumption DEF group, streams, ProcessInv
<1>1. CASE WritesLine
  <2>1. ~(copier = "done" /\ Tied)
    BY <1>1 DEF WritesLine, Writers, Drained
  <2> QED
    BY <1>1, <2>1 DEF WritesLine, TypeOK, Launched, Reaped, AnswersAgree, Drained, Tied
<1>2. CASE Forks
  BY <1>2 DEF Forks, TypeOK, Launched, Reaped, AnswersAgree, Drained, Tied
<1>3. CASE KinEnds
  BY <1>3 DEF KinEnds, TypeOK, Launched, Reaped, AnswersAgree, Drained, Tied
<1>4. CASE CopierEnds
  <2>1. start = "started"
    BY <1>4 DEF CopierEnds, Launched
  <2>2. AtEnd => copied = written /\ root # "running" /\ kin \notin {"grouped", "escaped"}
    BY DEF AtEnd, Writers
  <2> QED
    BY <1>4, <2>1, <2>2 DEF CopierEnds, TypeOK, Launched, Reaped, AnswersAgree, Drained, Tied
<1>5. CASE Reaps
  BY <1>5 DEF Reaps, StoredResult, TypeOK, Launched, Reaped, AnswersAgree, Drained, Tied
<1>6. CASE ClosesDone
  BY <1>6 DEF ClosesDone, TypeOK, Launched, Reaped, AnswersAgree, Drained, Tied
<1>7. ASSUME NEW why \in Causes, RootEnds(why) PROVE ProcessInv'
  <2>1. start = "started"
    BY <1>7 DEF RootEnds, Launched
  <2>2. ~(reaper \in {"stored", "done"}) /\ \A c \in Callers : call[c].said = None
    BY <1>7 DEF RootEnds, Reaped, AnswersAgree
  <2> QED
    BY <1>7, <2>1, <2>2 DEF RootEnds, TypeOK, Launched, Reaped, AnswersAgree, Drained, Tied, Causes
<1> QED
  BY <1>1, <1>2, <1>3, <1>4, <1>5, <1>6, <1>7

(* What the copier reads is put behind the tail (drainStderr).             *)
LEMMA CopierStep ==
  ASSUME ProcessInv, CopierReads
  PROVE  ProcessInv'
<1> USE ProcessAssumption DEF group, streams, ProcessInv
<1>1. PICK n \in 1 .. (written - copied) :
        /\ copied' = copied + n
        /\ tail' = LastOf(tail \o [i \in 1 .. n |-> copied + i])
  BY DEF CopierReads
<1>2. n \in Nat /\ written \in Nat /\ copied' \in Nat /\ copied \in Nat /\ copied' <= written /\ written <= MaxLines
  BY <1>1 DEF TypeOK
<1>3. tail' = EndOf(copied')
  BY <1>1, <1>2, TailGrows
<1>4. tail' \in Seq(1 .. MaxLines) /\ Len(tail') <= TailLines
  <2>1. EndOf(copied') \in Seq(1 .. MaxLines)
        /\ Len(EndOf(copied')) = copied' - First(copied')
        /\ copied' - First(copied') \in 0 .. TailLines
    <3>1. ASSUME NEW k \in Nat, k <= MaxLines
          PROVE  /\ EndOf(k) \in Seq(1 .. MaxLines)
                 /\ Len(EndOf(k)) = k - First(k)
                 /\ k - First(k) \in 0 .. TailLines
      BY <3>1, EndTyped
    <3>2. copied' <= MaxLines
      BY <1>2
    <3> QED
      BY <1>2, <3>1, <3>2
  <2> QED
    BY <1>2, <1>3, <2>1
<1>5. TypeOK'
  BY <1>2, <1>4 DEF CopierReads, TypeOK
<1> QED
  BY <1>2, <1>3, <1>5 DEF CopierReads, Launched, Reaped, AnswersAgree, Drained, Tied

(* A caller moves, and may begin the reaping, signal the group or close    *)
(* pipe ends: it may only say what is known of the child.                  *)
LEMMA CallerMoves ==
  ASSUME ProcessInv, NEW c \in Callers, NEW v \in Call,
         call' = [call EXCEPT ![c] = v],
         UNCHANGED <<start, root, cause, kin, streams, result>>,
         start = "started", ends' \subseteq ends,
         pending' \in [{"root", "kin"} -> SUBSET {"TERM", "KILL"}],
         reaper' = reaper \/ reaper' = Begun,
         v.said # None => /\ root = "reaped"
                          /\ v.said \in Causes => v.said = cause
  PROVE  ProcessInv'
<1> USE ProcessAssumption DEF streams, ProcessInv, Begun
<1>1. call' \in [Callers -> Call]
  BY DEF TypeOK
<1>2. TypeOK'
  BY <1>1 DEF TypeOK
<1>3. AnswersAgree'
  <2> SUFFICES ASSUME NEW d \in Callers, call'[d].said # None
               PROVE  root = "reaped" /\ (call'[d].said \in Causes => call'[d].said = cause)
    BY DEF AnswersAgree
  <2>1. CASE d = c
    <3>1. call'[d] = v
      BY <2>1 DEF TypeOK
    <3> QED
      BY <3>1
  <2>2. CASE d # c
    <3>1. call'[d] = call[d]
      BY <2>2 DEF TypeOK
    <3> QED
      BY <3>1 DEF AnswersAgree
  <2> QED
    BY <2>1, <2>2
<1> QED
  BY <1>2, <1>3 DEF Launched, Reaped, Drained, Tied

(* A caller that has nothing to do with the child yet is idle (Start).     *)
LEMMA CallersFollowStart ==
  ASSUME ProcessInv, NEW c \in Callers, call[c].at # "idle"
  PROVE  start = "started"
BY DEF ProcessInv, Launched

(* The methods begin, wait, signal, read the tail and close.               *)
LEMMA CallerStep ==
  ASSUME ProcessInv, NEW c \in Callers,
         CallStep(c) \/ Abandons(c) \/ \E op \in Calls[c] : Enter(c, op)
  PROVE  ProcessInv'
<1> USE ProcessAssumption DEF group, streams, At, Goes, Returns
<1> DEFINE r == call[c]
           Places == {"idle", "entered", "waiting", "asking", "term", "grace",
                      "killing", "killed", "tail", "flush", "closing", "stderr", "joining"}
<1>1. /\ r \in Call
      /\ r.op \in Ops \cup {None} /\ r.said \in Causes \cup {"stopped", None}
      /\ r.said # None => root = "reaped" /\ (r.said \in Causes => r.said = cause)
      /\ Done => root = "reaped" /\ result = cause /\ cause \in Causes
      /\ pending \in [{"root", "kin"} -> SUBSET {"TERM", "KILL"}]
      /\ call \in [Callers -> Call]
  BY DEF ProcessInv, TypeOK, Call, AnswersAgree, Reaped, Done
<1>2. ASSUME NEW said \in Causes \cup {"stopped", None} PROVE Idle(said) \in Call
  BY DEF Idle, Call
<1>3. ASSUME NEW place \in Places
      PROVE  /\ [r EXCEPT !.at = place] \in Call
             /\ [r EXCEPT !.at = place].said = r.said
             /\ [call EXCEPT ![c].at = place] = [call EXCEPT ![c] = [r EXCEPT !.at = place]]
  BY <1>1 DEF Call
<1>4. ASSUME NEW place \in Places, Goes(c, place), At(c, "idle") = FALSE, ends' \subseteq ends,
             pending' \in [{"root", "kin"} -> SUBSET {"TERM", "KILL"}],
             reaper' = reaper \/ reaper' = Begun,
             UNCHANGED <<start, root, cause, kin, streams, result>>
      PROVE  ProcessInv'
  <2>1. start = "started"
    BY <1>4, CallersFollowStart
  <2>2. call' = [call EXCEPT ![c] = [r EXCEPT !.at = place]]
    BY <1>3, <1>4
  <2> HIDE DEF r, Places
  <2> QED
    BY <1>1, <1>3, <1>4, <2>1, <2>2, CallerMoves DEF r
<1>5. ASSUME NEW said \in Causes \cup {"stopped", None}, Returns(c, said), At(c, "idle") = FALSE,
             said # None => root = "reaped" /\ (said \in Causes => said = cause),
             pending' \in [{"root", "kin"} -> SUBSET {"TERM", "KILL"}],
             UNCHANGED <<start, ends, root, cause, kin, streams, reaper, result>>
      PROVE  ProcessInv'
  <2>1. start = "started"
    BY <1>5, CallersFollowStart
  <2>2. Idle(said).said = said
    BY DEF Idle
  <2> QED
    BY <1>2, <1>5, <2>1, <2>2, CallerMoves
<1>6. CASE \E op \in Calls[c] : Enter(c, op)
  <2>1. PICK op \in Calls[c] : Enter(c, op)
    BY <1>6
  <2> DEFINE v == [op |-> op, said |-> None,
                   at |-> CASE op = "StderrTail" -> "tail"
                            [] op = "Close"      -> "closing"
                            [] OTHER             -> "entered"]
  <2>2. op \in Ops
    OBVIOUS
  <2>3. v \in Call /\ v.said = None
    BY <2>2 DEF Call
  <2>4. call' = [call EXCEPT ![c] = v]
    BY <2>1 DEF Enter
  <2> HIDE DEF v
  <2> QED
    BY <1>1, <2>1, <2>3, <2>4, CallerMoves DEF Enter
<1>7. CASE BeginWait(c)
  BY <1>1, <1>4, <1>7 DEF BeginWait
<1>8. CASE SeesResult(c)
  <2>1. CASE r.op = "Wait"
    BY <1>1, <1>5, <1>8, <2>1 DEF SeesResult
  <2>2. CASE r.op # "Wait"
    <3> DEFINE v == [r EXCEPT !.at = "tail", !.said = result]
    <3>1. v \in Call /\ v.said = result
      BY <1>1, <1>8 DEF Call, SeesResult
    <3>2. call' = [call EXCEPT ![c] = v]
      BY <1>1, <1>8, <2>2 DEF SeesResult
    <3>3. start = "started"
      BY <1>8, CallersFollowStart DEF SeesResult
    <3> HIDE DEF v
    <3> QED
      BY <1>1, <1>8, <3>1, <3>2, <3>3, CallerMoves DEF SeesResult
  <2> QED
    BY <2>1, <2>2
<1>9. CASE GivesUp(c)
  BY <1>1, <1>4, <1>5, <1>9 DEF GivesUp
<1>10. CASE IsStopped(c)
  BY <1>1, <1>5, <1>10 DEF IsStopped, Causes
<1>11. CASE IsRunning(c) \/ GraceEnds(c)
  BY <1>1, <1>4, <1>11 DEF IsRunning, GraceEnds, AfterGrace
<1>12. ASSUME NEW signal \in {"TERM", "KILL"}
       PROVE  Signalled(signal) \in [{"root", "kin"} -> SUBSET {"TERM", "KILL"}]
  BY <1>1 DEF Signalled
<1>13. CASE Terminates(c)
  <2>1. pending' \in [{"root", "kin"} -> SUBSET {"TERM", "KILL"}]
    BY <1>12, <1>13 DEF Terminates
  <2> QED
    BY <1>4, <1>13, <2>1 DEF Terminates
<1>14. CASE Kills(c)
  <2>1. pending' \in [{"root", "kin"} -> SUBSET {"TERM", "KILL"}]
    BY <1>12, <1>14 DEF Kills
  <2> QED
    BY <1>4, <1>5, <1>14, <2>1 DEF Kills
<1>15. CASE Abandons(c)
  BY <1>1, <1>5, <1>15 DEF Abandons
<1>16. CASE LooksForTail(c)
  BY <1>1, <1>4, <1>5, <1>16 DEF LooksForTail
<1>17. CASE Flushed(c)
  BY <1>1, <1>4, <1>5, <1>17 DEF Flushed
<1>18. CASE ClosesStreams(c) \/ ClosesStderr(c)
  BY <1>1, <1>4, <1>18 DEF ClosesStreams, ClosesStderr, EndsWithoutStderr
<1>19. CASE JoinsCopier(c)
  BY <1>1, <1>5, <1>19 DEF JoinsCopier
<1> QED
  BY <1>6, <1>7, <1>8, <1>9, <1>10, <1>11, <1>13, <1>14, <1>15, <1>16, <1>17, <1>18, <1>19
     DEF CallStep

-----------------------------------------------------------------------------
(* Whatever happens to the child and whoever calls (launch.go).            *)
LEMMA ProcessStep == ProcessInv /\ [Next]_vars => ProcessInv'
<1> SUFFICES ASSUME ProcessInv, [Next]_vars PROVE ProcessInv'
  OBVIOUS
<1>1. CASE UNCHANGED vars
  BY <1>1, ZenonT(30) DEF vars, group, streams, ProcessInv, TypeOK, Launched, Reaped, AnswersAgree,
              Drained, Tied, EndOf, First
<1>2. CASE Next
  BY <1>2, StartStep, ChildStep, CopierStep, CallerStep DEF Next
<1> QED
  BY <1>1, <1>2

(* The strengthening holds throughout: what was stored is how the child    *)
(* ended, and nobody can write behind a finished copier (beginWait,        *)
(* drainStderr).                                                           *)
THEOREM ProcessInvHolds == Spec => []ProcessInv
BY ProcessInit, ProcessStep, PTL DEF Spec

(* Type correctness, with the bound on the tail (stderrTailBytes).         *)
THEOREM ProcessTypes == Spec => []TypeOK
<1>1. ProcessInv => TypeOK
  BY DEF ProcessInv
<1> QED
  BY <1>1, ProcessInvHolds, PTL

(* All callers hear the same of the child, and what is true (Wait,         *)
(* Shutdown, LaunchFailure, TransportFailure).                             *)
THEOREM CallersAgree == Spec => []AnswersAgree
<1>1. ProcessInv => AnswersAgree
  BY DEF ProcessInv
<1> QED
  BY <1>1, ProcessInvHolds, PTL

(* The tail is the end of what was written, and complete once the copier   *)
(* is through (drainStderr, StderrTail).                                   *)
THEOREM TailIsComplete == Spec => []TailIsTheEnd
<1>1. ProcessInv => TailIsTheEnd
  BY DEF ProcessInv, TailIsTheEnd, Drained, Tied, EndOf, First
<1> QED
  BY <1>1, ProcessInvHolds, PTL

=============================================================================
