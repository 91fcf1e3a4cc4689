--------------------------- MODULE MC_StoreSchema ---------------------------
(* Fresh installations and legacy ones. *)
EXTENDS StoreSchema

MCLegacySets == {{}, Legacy}

=============================================================================
