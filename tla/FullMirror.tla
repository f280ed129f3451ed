------------------------------ MODULE FullMirror ------------------------------
(***************************************************************************)
(* What a mirror promises: the session's generation is what a mirror       *)
(* without a memory would make it, that reads the whole native history and *)
(* publishes all of it with its configuration each time.                   *)
(***************************************************************************)
EXTENDS Sequences

CONSTANTS None, Row, Config

VARIABLES
  orderly,     \* the mirror is the only writer, and a failed write wrote nothing
  native,      \* the rows of the native log
  snap,        \* the history and configuration the running call has read
  generation,  \* what the store holds
  deleted,     \* the session was deleted
  outcome      \* how the last call ended; "none" while one runs

vars == <<orderly, native, snap, generation, deleted, outcome>>

Snap == [rows : Seq(Row), config : Config]

Init ==
  /\ native = <<>> /\ snap = None /\ generation = None
  /\ deleted = FALSE /\ outcome = "none"
  /\ orderly \in BOOLEAN

(* The harness, a crash or the cutting of a torn tail changes the log. *)
NativeChanges ==
  /\ native' \in Seq(Row)
  /\ UNCHANGED <<snap, generation, deleted, outcome>>

Begin ==
  /\ outcome' = "none" /\ snap' = None
  /\ UNCHANGED <<native, generation, deleted>>

(* A call reads the history as it stands; it may read it anew. *)
Read(c) ==
  /\ snap' = [rows |-> native, config |-> c]
  /\ outcome' = "none"
  /\ UNCHANGED <<native, generation, deleted>>

(* A call that succeeds by writing has published exactly what it read; the *)
(* configuration only when no write took effect behind the mirror's back.  *)
Publish ==
  /\ snap # None
  /\ generation' \in IF deleted THEN {generation}
                     ELSE [rows : {snap.rows},
                           config : IF orderly THEN {snap.config} ELSE Config]
  /\ snap' = None /\ outcome' = "ok"
  /\ UNCHANGED <<native, deleted>>

(* It may write nothing when the store already holds that. *)
AlreadyHeld ==
  /\ snap # None
  /\ orderly => (deleted \/ generation = snap)
  /\ snap' = None /\ outcome' = "ok"
  /\ UNCHANGED <<native, generation, deleted>>

(* A call that fails leaves the previous generation. *)
Fail ==
  /\ snap' = None /\ outcome' = "failed"
  /\ UNCHANGED <<native, generation, deleted>>

(* A load finds the log missing or short and restores it. *)
Restore ==
  /\ native' \in Seq(Row)
  /\ IF orderly /\ ~deleted THEN generation # None /\ native' = generation.rows ELSE TRUE
  /\ outcome' = "ok" /\ snap' = None
  /\ UNCHANGED <<generation, deleted>>

(* The process dies; a write that was under way took effect or did not. *)
Crash ==
  /\ generation' \in {generation} \cup (IF snap = None \/ deleted THEN {} ELSE {snap})
  /\ snap' = None /\ outcome' = "none"
  /\ UNCHANGED <<native, deleted>>

Delete ==
  /\ deleted' = TRUE /\ generation' = None
  /\ UNCHANGED <<native, snap, outcome>>

(* Somebody else writes, or a write that failed took effect after all. *)
Interfere ==
  /\ ~orderly /\ ~deleted
  /\ generation' \in Snap
  /\ UNCHANGED <<native, deleted>>
  /\ snap' \in {snap, None} /\ outcome' \in {outcome, "failed"}

Call ==
  \/ NativeChanges \/ Begin \/ (\E c \in Config : Read(c)) \/ Publish \/ AlreadyHeld
  \/ Fail \/ Restore \/ Crash \/ Delete \/ Interfere

Next == Call /\ UNCHANGED orderly

Spec == Init /\ [][Next]_vars

=============================================================================
