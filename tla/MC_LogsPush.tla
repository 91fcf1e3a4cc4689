---------------------------- MODULE MC_LogsPush ----------------------------
(* The instances are in the configurations. *)
EXTENDS LogsPush

=============================================================================
