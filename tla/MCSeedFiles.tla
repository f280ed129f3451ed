----------------------------- MODULE MCSeedFiles -----------------------------
(* Instances of SeedFiles for model checking. *)
EXTENDS SeedFiles

Some(S) == CHOOSE x \in S : TRUE

(* Any one name, or all of them, with one content; and the first name with *)
(* any content, to have it replaced.                                       *)
OneOrAll ==
  LET first == CHOOSE name \in Names : \A other \in Names : name <= other
  IN  {[name \in names |-> Some(Contents)] : names \in {{n} : n \in Names} \cup {Names}}
        \cup [{first} -> Contents]

=============================================================================
