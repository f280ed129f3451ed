----------------------------- MODULE SessionStore -----------------------------
(***************************************************************************)
(* One session of the in-memory session store (store.go), as operators on  *)
(* its record: the live generation, a function from the live subpaths to   *)
(* their entries or None, and whether the main record was ever deleted.    *)
(*                                                                         *)
(* Requests that validation refuses, whatever the store holds, are left    *)
(* out: the mirror addresses one session, and a set of replacements is a   *)
(* function, which names no key twice.                                     *)
(***************************************************************************)
EXTENDS Integers, Sequences

CONSTANTS
  None,     \* nothing where a value may be
  Row,      \* entries of the main record
  Config    \* encoded configuration records

Main == ""
ConfigSubpath == "config"

Generation == [{Main, ConfigSubpath} -> Seq(Row \cup Config)]

Store == [generation : Generation \cup {None}, deleted : BOOLEAN]

ASSUME NoneIsNoGeneration == None \notin Generation /\ None \notin Config

NewStore == [generation |-> None, deleted |-> FALSE]

(* Replace publishes exactly the listed subpaths; a deleted session stays so. *)
StoreReplace(s, replacements) ==
  IF s.deleted THEN s ELSE [s EXCEPT !.generation = replacements]

(* The base is compared by count only. *)
AppendRefused(s, base) ==
  ~s.deleted /\ (s.generation = None \/ Len(s.generation[Main]) # base)

StoreAppend(s, rows, replacements) ==
  IF s.deleted THEN s
  ELSE [s EXCEPT !.generation =
          [p \in DOMAIN s.generation \cup DOMAIN replacements |->
             IF p \in DOMAIN replacements THEN replacements[p]
             ELSE IF p = Main THEN s.generation[Main] \o rows
             ELSE s.generation[p]]]

(* Delete of the main key. *)
StoreDelete(s) == [generation |-> None, deleted |-> TRUE]

=============================================================================
