------------------------- MODULE MC_SchemaMigration -------------------------
(* One squashed and two regular sync migrations in the first database, and   *)
(* an async migration in the fourth; two migrators and a check.              *)
EXTENDS SchemaMigration

SyncOp == [kind |-> "sync"]
AsyncOp == [kind |-> "async"]

MCMigrations == {"base", "t1", "t2", "meta"}
MCOps == [base |-> <<SyncOp>>, t1 |-> <<SyncOp, SyncOp>>, t2 |-> <<SyncOp>>,
          meta |-> <<AsyncOp>>]
MCRegular == [d \in Dbs |-> CASE d = "traces" -> <<"t1", "t2">>
                              [] d = "metadata" -> <<"meta">>
                              [] OTHER -> <<>>]
MCSquashed == [d \in SquashedDbs |-> IF d = "traces" THEN <<"base">> ELSE <<>>]
=============================================================================
