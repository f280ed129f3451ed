----------------------------- MODULE MCProcess -----------------------------
(* Instances of Process for model checking. *)
EXTENDS Process, TLC

CONSTANTS c1, c2

(* The client of the harness, and who stops it. *)
ClientAndOwner ==
  (c1 :> {"Wait", "LaunchFailure", "TransportFailure"})
    @@ (c2 :> {"Shutdown", "Kill", "Close"})

=============================================================================
