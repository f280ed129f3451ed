----------------------------- MODULE MCPublisher -----------------------------
(* Instances of Publisher for model checking. *)
EXTENDS Publisher, TLC

Ids == 1 .. MaxId

(* Incarnation names and action ids are only compared. *)
Names == Permutations(Stream) \cup Permutations(Action)

=============================================================================
