------------------------- MODULE MC_MetadataExport -------------------------
(* Two pushes: of one resource with two values, of two resources, of a resource  *)
(* that both have and one that only the first has.                            *)
EXTENDS MetadataExport

CONSTANTS a, b

Rec(res, value) == [res |-> res, value |-> value]
Batches(ra, rb) == [p \in {a, b} |-> IF p = a THEN ra ELSE rb]
OneValue == Batches(<<Rec("r1", "v1")>>, <<Rec("r1", "v1")>>)
OneItem == Batches(<<Rec("r1", "v1")>>, <<Rec("r1", "v2")>>)
TwoItems == Batches(<<Rec("r1", "v1"), Rec("r1", "v2"), Rec("r1", "v3")>>,
                    <<Rec("r2", "v1")>>)
Overlap == Batches(<<Rec("r1", "v1"), Rec("r2", "v1")>>, <<Rec("r2", "v1")>>)

Same(l) == [s \in {"traces", "logs"} |-> l]
Ample == [resources |-> 9, attrs |-> 9, total |-> 9]
Tight == [resources |-> 1, attrs |-> 1, total |-> 2]
Cfg(pr, sig, lim, ba, busy, flt) == [provider |-> pr, signal |-> sig, limits |-> lim,
                                     batch |-> ba, busy |-> busy, faults |-> flt]
MCConfigs ==
    {Cfg("in_memory", "traces", Same(Ample), OneItem, FALSE, 1),
     Cfg("in_memory", "logs", [traces |-> Ample, logs |-> Tight], OneItem, FALSE, 0),
     Cfg("in_memory", "logs", [traces |-> Ample, logs |-> Tight], TwoItems, FALSE, 0),
     Cfg("redis", "logs", Same(Ample), OneItem, FALSE, 1),
     Cfg("redis", "logs", Same(Tight), Overlap, FALSE, 1),
     Cfg("redis", "logs", Same(Ample), OneValue, TRUE, 1)}

=============================================================================
