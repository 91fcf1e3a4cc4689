CONSTANTS
    TraceIds <- MCTraceIds
    Spans <- MCSpans
    NoSpan = "none"
    TraceOf <- MCTraceOf
    PolicyCfgs <- MCPolicyCfgs
    Workers = {w1, w2}
    NumTraces = 1
    NumBatches = 1
    ChanSize = 1
    MaxObjects = 3
SPECIFICATION Spec
INVARIANT RejectedIsDropped
CHECK_DEADLOCK FALSE
