------------------------------- MODULE MCMirror -------------------------------
(* Instances of Mirror for model checking. *)
EXTENDS Mirror

Rows == -MaxRow .. MaxRow

=============================================================================
