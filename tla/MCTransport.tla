----------------------------- MODULE MCTransport -----------------------------
(* Instances of Transport for model checking. *)
EXTENDS Transport

Some(S) == CHOOSE x \in S : TRUE
New == [method |-> "new", session |-> None]
Restore(s) == [method |-> "restore", session |-> s]
Prompt(s, v) == [method |-> "prompt", session |-> s, value |-> v]

(* A client that establishes a session, establishes it again or prompts,   *)
(* and prompts or establishes one more session, new or not.                *)
Usual ==
  LET s == Some(Sessions)
      v == Some(Values)
  IN  <<{Restore(s)},
        {Restore(s), Prompt(s, v)},
        {New, Initialize} \cup {Prompt(s, w) : w \in Values}>>

(* A client that establishes sessions time and again. *)
Restoring == [id \in Ids |-> {Restore(s) : s \in Sessions}]

Once == [id \in Ids |-> 1]

(* The second handler may replace its hook. *)
SecondTwice == [id \in Ids |-> IF id = 2 THEN 2 ELSE 1]

=============================================================================
