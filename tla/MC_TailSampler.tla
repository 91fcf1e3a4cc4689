--------------------------- MODULE MC_TailSampler ---------------------------
(* A trace of two spans and one of a single span, room for one trace, and a   *)
(* policy that rejects one of the traces.                                     *)
EXTENDS TailSampler

MCTraceIds == {"t1", "t2"}
MCSpans == {"a1", "a2", "b1"}
MCTraceOf == [a1 |-> "t1", a2 |-> "t1", b1 |-> "t2"]
MCPolicyCfgs == <<[priority |-> 2, verdict |-> [t1 |-> "Sampled", t2 |-> "Sampled"]],
                  [priority |-> 1, verdict |-> [t1 |-> "NoResult", t2 |-> "NotSampled"]]>>
=============================================================================
