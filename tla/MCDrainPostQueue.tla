-------------------------- MODULE MCDrainPostQueue --------------------------
(* Two posts for each of two attachments. *)
EXTENDS DrainPostQueue, TLC

CONSTANTS x1, x2, x3, x4
MCAttachment == (x1 :> 1) @@ (x2 :> 1) @@ (x3 :> 2) @@ (x4 :> 2)
=============================================================================
