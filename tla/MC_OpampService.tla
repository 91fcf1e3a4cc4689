-------------------------- MODULE MC_OpampService --------------------------
(* TLC instances of OpampService: one good and one bad remote configuration. *)
EXTENDS OpampService

MCCallers == {"main", "ws", "watch"}
MCConfigs == {"init", "nop", "good", "bad", "garbage"}
MCGood == {"init", "nop", "good"}
MCRemote == {"good", "bad"}
MCBool == BOOLEAN
=============================================================================
