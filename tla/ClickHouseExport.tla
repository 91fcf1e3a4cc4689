-------------------------- MODULE ClickHouseExport --------------------------
(***************************************************************************)
(* The exporters of traces, logs, metrics and meter: pushes that write a    *)
(* batch to several tables in parallel, caches of rows written before, the  *)
(* usage collector, a poller, and the shutdown that ends them all before it *)
(* closes the connection.  "kind" is the exporter; two pushes carry batches  *)
(* of the same resource, keys and series, as successive batches do.          *)
(* ClickHouse, the caches' library, OpenCensus and the queue and retry of    *)
(* exporterhelper are external.                                              *)
(***************************************************************************)
EXTENDS MetricsBatch, FiniteSets

CONSTANTS
    Pushes,     \* the queue's consumers
    Kinds,      \* exporters of this instance
    Metrics,    \* the metrics of a batch
    Ruled,      \* flattened names that have a reduction rule, when rules are set
    MaxTries,   \* bound: calls of the pushes
    MaxFaults   \* bound: failing statements and inserts, expiries of the caches,
                \* polls that change the rules

ASSUME ExportAssumption ==
    /\ IsFiniteSet(Pushes)
    /\ Kinds \subseteq {"traces", "logs", "metrics", "meter"}
    /\ \A m \in Metrics : DOMAIN m.points = 1 .. Len(m.points) /\ Len(m.points) \in Nat
    /\ MaxTries \in Nat /\ MaxFaults \in Nat

VARIABLES
    kind,
    pc,         \* push -> "idle", "entered", "write", "resources", "ok", "dropped",
                \* "error", "hung"
    tries,      \* calls so far
    batch,      \* push -> the rules prepareBatch found
    st,         \* push -> table -> "todo", "appended", "sent", "failed"
    new,        \* push -> table -> rows in the statement
    cache,      \* rows of keysCache, rfCache or cache
    stored,     \* rows in ClickHouse
    lost,       \* ghost: cached rows whose statement was not sent
    rules,      \* reductionRules
    recorded, reported,     \* usage: in the view, and in the usage table
    flushed,    \* ghost: the last report was inserted
    poller,     \* the poller's loop runs, and may use the connection
    reducer,    \* the loop of the reduced usage reporter runs
    closed,     \* closeChan
    conn,       \* the connection is open
    down,       \* steps of Shutdown done, 0 before it
    faults

pushVars == <<pc, tries, batch, st, new>>
rowVars == <<cache, stored, lost>>
usageVars == <<recorded, reported, flushed>>
downVars == <<closed, conn, down>>
vars == <<kind, pushVars, rowVars, rules, usageVars, poller, reducer, downVars, faults>>

-----------------------------------------------------------------------------
(* The statements of each exporter *)

\* cached: rows found in a cache are left out, the others are put in the cache
\* before the statement is sent.  critical: an error fails the push.
Statement(cached, critical) == [cached |-> cached, critical |-> critical]

writeIndexBatchV3 == Statement(FALSE, TRUE)
writeErrorBatchV3 == Statement(FALSE, TRUE)
writeTagBatchV3 == Statement(FALSE, FALSE)
writeTagKeys == Statement(TRUE, FALSE)
WriteResourcesV3 == Statement(TRUE, TRUE)

insertLogsStmtV2 == Statement(FALSE, TRUE)
insertResourcesStmtV2 == Statement(TRUE, TRUE)
attributeKeysStmt == Statement(TRUE, TRUE)
tagStatementV2 == Statement(FALSE, TRUE)

writeTimeSeries == Statement(TRUE, TRUE)
writeSamples == Statement(FALSE, TRUE)
writeExpHist == Statement(FALSE, TRUE)
writeMetadata == Statement(FALSE, FALSE)

meterWriteBatch == Statement(FALSE, TRUE)

Statements ==
    [traces |->
       [index |-> writeIndexBatchV3, errors |-> writeErrorBatchV3,
        tags |-> writeTagBatchV3, keys |-> writeTagKeys, resources |-> WriteResourcesV3],
     logs |->
       [logs |-> insertLogsStmtV2, resources |-> insertResourcesStmtV2,
        keys |-> attributeKeysStmt, tags |-> tagStatementV2],
     metrics |->
       [series |-> writeTimeSeries, samples |-> writeSamples,
        exphist |-> writeExpHist, metadata |-> writeMetadata],
     meter |-> [samples |-> meterWriteBatch]]

Tables == DOMAIN Statements[kind]
Cached(t) == Statements[kind][t].cached
Critical(t) == Statements[kind][t].critical

\* WriteResourcesV3 comes after WriteBatchOfSpansV3.
Stage(l) ==
    IF kind = "traces"
    THEN IF l = "write" THEN Tables \ {"resources"} ELSE {"resources"}
    ELSE Tables

\* A failure to prepare t also fails: the whole push for logs, both statements
\* of writeTagBatchV3.
FailsWith(t) ==
    CASE kind = "logs" -> Tables
      [] kind = "traces" /\ t \in {"tags", "keys"} -> {"tags", "keys"}
      [] OTHER -> {t}

-----------------------------------------------------------------------------

NoRows == [t \in Tables |-> {}]

\* What prepareBatch makes of the metrics.
PreparedSeries(rs) == UNION {TimeSeries(m, rs) : m \in Metrics}
PreparedSamples(rs) == UNION {Samples(m, rs) : m \in Metrics}
RuledSeries == PreparedSeries(Ruled)
PlainSeries == PreparedSeries({})
RuledSamples == PreparedSamples(Ruled)
PlainSamples == PreparedSamples({})
SeriesOf(rs) == IF rs = {} THEN PlainSeries ELSE RuledSeries
SamplesOf(rs) == IF rs = {} THEN PlainSamples ELSE RuledSamples
ExpHistRows == UNION {ExpHist(m) : m \in Metrics}
MetadataRows == UNION {Metadata(m) : m \in Metrics}

\* Mutant: raw and reduced series share a key.
CacheKey_NoReduced(t, r) ==
    IF t = "series" THEN <<t, [r EXCEPT !.reduced = FALSE]>> ELSE <<t, r>>

\* makeCacheKey for a series: fingerprint and hour, and ":reduced".
CacheKey(t, r) == <<t, r>>

\* The rows of a push for a table.  Series, keys and resources are what all the
\* pushes have; of the other tables it is enough to know whose rows they are.
Rows(p, t) ==
    CASE t = "series" -> SeriesOf(batch[p])
      [] t = "samples" /\ kind = "metrics" /\ SamplesOf(batch[p]) = {} -> {}
      [] t = "exphist" /\ ExpHistRows = {} -> {}
      [] t = "metadata" /\ MetadataRows = {} -> {}
      [] OTHER -> IF Cached(t) THEN {"shared"} ELSE {p}

\* One of the MaxFaults things that may go wrong or change.
Fault == faults > 0 /\ faults' = faults - 1
NoFault == UNCHANGED faults
Goto(p, l) == pc' = [pc EXCEPT ![p] = l]

Init ==
    /\ kind \in Kinds
    /\ rules \in IF kind = "metrics" THEN {{}, Ruled} ELSE {{}}
    /\ pc = [p \in Pushes |-> "idle"]
    /\ tries = 0
    /\ batch = [p \in Pushes |-> rules]
    /\ st = [p \in Pushes |-> [t \in Tables |-> "todo"]]
    /\ new = [p \in Pushes |-> NoRows]
    /\ cache = {} /\ stored = {} /\ lost = {}
    /\ recorded = 0 /\ reported = 0 /\ flushed = FALSE
    /\ poller = (kind # "meter")
    /\ reducer = (kind = "metrics")
    /\ closed = FALSE /\ conn = TRUE /\ down = 0
    /\ faults = MaxFaults

-----------------------------------------------------------------------------
(* Pushes *)

\* wg.Add.  The queue's consumer calls the push, again after an error.
Enter(p) ==
    /\ pc[p] \in {"idle", "error"}
    /\ tries < MaxTries
    /\ tries' = tries + 1
    /\ Goto(p, "entered")
    /\ UNCHANGED <<kind, batch, st, new, rowVars, rules, usageVars, poller, reducer, downVars, faults>>

\* Mutant: closeChan is not looked at.
CheckOpen_Ignored(p) ==
    /\ pc[p] = "entered"
    /\ Goto(p, "write")
    /\ batch' = [batch EXCEPT ![p] = rules]
    /\ st' = [st EXCEPT ![p] = [t \in Tables |-> "todo"]]
    /\ UNCHANGED <<kind, tries, new, rowVars, rules, usageVars, poller, reducer, downVars, faults>>

\* The select on closeChan, and the rows of the batch.
CheckOpen(p) ==
    /\ pc[p] = "entered"
    /\ IF closed
       THEN Goto(p, "error") /\ UNCHANGED <<batch, st>>
       ELSE /\ Goto(p, "write")
            /\ batch' = [batch EXCEPT ![p] = rules]
            /\ st' = [st EXCEPT ![p] = [t \in Tables |-> "todo"]]
    /\ UNCHANGED <<kind, tries, new, rowVars, rules, usageVars, poller, reducer, downVars, faults>>

InStage(p, t) == pc[p] \in {"write", "resources"} /\ t \in Stage(pc[p])

\* The rows that are not cached are appended and put in the cache.
AppendCached(p, t) ==
    /\ InStage(p, t) /\ Cached(t)
    /\ st[p][t] = "todo"
    /\ kind = "logs" /\ t = "resources" => st[p]["keys"] = "appended"
    /\ LET rows == {r \in Rows(p, t) : CacheKey(t, r) \notin cache}
       IN  /\ new' = [new EXCEPT ![p][t] = rows]
           /\ cache' = cache \cup {CacheKey(t, r) : r \in rows}
    /\ st' = [st EXCEPT ![p][t] = "appended"]
    /\ UNCHANGED <<kind, pc, tries, batch, stored, lost, rules, usageVars, poller, reducer, downVars, faults>>

\* Statements of p are given up; what they had put in a cache stays there.
GiveUp(p, ts) ==
    /\ st' = [st EXCEPT ![p] = [t \in Tables |-> IF t \in ts THEN "failed" ELSE @[t]]]
    /\ lost' = lost \cup UNION {{t} \X new[p][t] : t \in ts}
    /\ new' = [new EXCEPT ![p] = [t \in Tables |-> IF t \in ts THEN {} ELSE @[t]]]

\* PrepareBatch or Append returns an error.
PrepareFails(p, t) ==
    /\ InStage(p, t) /\ Cached(t)
    /\ st[p][t] = "todo"
    /\ Fault
    /\ GiveUp(p, FailsWith(t))
    /\ UNCHANGED <<kind, pc, tries, batch, cache, stored, rules, usageVars, poller, reducer, downVars>>

\* The producers and the consumer of a logs push, up to group.Wait.  When the
\* consumer returns, after an error or because the context is done, a producer
\* may wait for ever for room in the record stream, and group.Wait for it (module
\* LogsPush); what the consumer had put in the cache stays there.
Hang(p) ==
    /\ kind = "logs" /\ pc[p] = "write"
    /\ st[p]["keys"] # "failed" /\ st[p]["resources"] = "todo"
    /\ Fault
    /\ Goto(p, "hung")
    /\ GiveUp(p, Tables)
    /\ UNCHANGED <<kind, tries, batch, cache, stored, rules, usageVars, poller, reducer, downVars>>

\* Logs sends when everything is appended; the tag keys are appended with the
\* tags and sent after them.
Appended(p) ==
    CASE kind = "logs" -> \A t \in Tables : Cached(t) => st[p][t] # "todo"
      [] kind = "traces" /\ pc[p] = "write" -> st[p]["keys"] # "todo"
      [] OTHER -> TRUE

SendCached(p, t) ==
    /\ InStage(p, t) /\ Cached(t)
    /\ st[p][t] = "appended" /\ Appended(p)
    /\ kind = "traces" /\ t = "keys" => st[p]["tags"] = "sent"
    /\ \/ /\ st' = [st EXCEPT ![p][t] = "sent"]
          /\ stored' = stored \cup ({t} \X new[p][t])
          /\ new' = [new EXCEPT ![p][t] = {}]
          /\ NoFault /\ UNCHANGED lost
       \/ new[p][t] # {} /\ Fault /\ GiveUp(p, {t}) /\ UNCHANGED stored
    /\ UNCHANGED <<kind, pc, tries, batch, cache, rules, usageVars, poller, reducer, downVars>>

\* The statements without a cache, which run in parallel and share nothing: one
\* step, in which some of them may fail.  writeSamples records the usage before
\* it sends; without the tags the tag keys are not sent.
SendOthers(p) ==
    LET others == {t \in Tables : InStage(p, t) /\ ~Cached(t) /\ st[p][t] = "todo"} IN
    /\ others # {} /\ Appended(p)
    /\ \E bad \in SUBSET others :
         /\ IF bad = {} THEN NoFault ELSE Fault
         /\ stored' = stored \cup UNION {{t} \X Rows(p, t) : t \in others \ bad}
         /\ LET given == bad \cup IF kind = "traces" /\ "tags" \in bad THEN {"keys"} ELSE {}
            IN  /\ st' = [st EXCEPT ![p] =
                           [t \in Tables |-> IF t \in given THEN "failed"
                                             ELSE IF t \in others THEN "sent" ELSE @[t]]]
                /\ lost' = lost \cup UNION {{t} \X new[p][t] : t \in given}
                /\ new' = [new EXCEPT ![p] = [t \in Tables |-> IF t \in given THEN {} ELSE @[t]]]
    /\ recorded' = IF kind = "metrics" /\ \E s \in SamplesOf(batch[p]) : CollectUsage(s, rules)
                   THEN recorded + 1 ELSE recorded
    /\ UNCHANGED <<kind, pc, tries, batch, cache, rules, reported, flushed, poller, reducer, downVars>>

StageDone(p) == \A t \in Stage(pc[p]) : st[p][t] \in {"sent", "failed"}

\* Mutant: only the main table's error is looked at.
StageFailed_MainTable(p) ==
    \E t \in Stage(pc[p]) : t \in {"index", "logs", "samples"} /\ st[p][t] = "failed"

StageFailed(p) == \E t \in Stage(pc[p]) : Critical(t) /\ st[p][t] = "failed"

\* WriteBatchOfSpansV3 records the usage whether or not the writes succeeded;
\* the logs exporter when all have.  "code: 252" drops the batch.
FinishWrite(p) ==
    /\ pc[p] = "write"
    /\ StageDone(p)
    /\ IF StageFailed(p)
       THEN \/ Goto(p, "error")
            \/ kind = "logs" /\ Goto(p, "dropped")
       ELSE Goto(p, IF kind = "traces" THEN "resources" ELSE "ok")
    /\ recorded' = IF kind = "traces" \/ (kind = "logs" /\ ~StageFailed(p))
                   THEN recorded + 1 ELSE recorded
    /\ UNCHANGED <<kind, tries, batch, st, new, rowVars, rules, reported, flushed, poller, reducer, downVars, faults>>

FinishResources(p) ==
    /\ pc[p] = "resources"
    /\ StageDone(p)
    /\ Goto(p, IF StageFailed(p) THEN "error" ELSE "ok")
    /\ UNCHANGED <<kind, tries, batch, st, new, rowVars, rules, usageVars, poller, reducer, downVars, faults>>

\* The caches forget a row when its time is over.
Expire ==
    /\ cache # {} /\ Fault
    /\ cache' = {}
    /\ UNCHANGED <<kind, pushVars, stored, lost, rules, usageVars, poller, reducer, downVars>>

-----------------------------------------------------------------------------
(* Background work *)

\* pollReductionRules: the rules there are, or on an error those there were.
\* What the pollers of traces and logs load decides only which rows of the tag
\* tables are written.
Poll ==
    /\ poller /\ kind = "metrics"
    /\ Fault
    /\ rules' \in {{}, Ruled} \ {rules}
    /\ UNCHANGED <<kind, pushVars, rowVars, usageVars, poller, reducer, downVars>>

\* Mutant: the poller ends when the connection is closed.
PollerEnds_OnClose ==
    /\ poller /\ ~conn
    /\ poller' = FALSE
    /\ UNCHANGED <<kind, pushVars, rowVars, rules, usageVars, reducer, downVars, faults>>

\* The traces pollers are ended by Close, the others by closeChan.
PollerEnds ==
    /\ poller
    /\ IF kind = "traces" THEN ~conn ELSE closed
    /\ poller' = FALSE
    /\ UNCHANGED <<kind, pushVars, rowVars, rules, usageVars, reducer, downVars, faults>>

\* Does wg count the poller?
PollerCounted == kind \in {"logs", "metrics"}

-----------------------------------------------------------------------------
(* Shutdown *)

StopUsage == <<"flush", "waitReducer">>

\* Mutant: the usage collector is stopped first.
TracesShutdown_UsageFirst == StopUsage \o <<"close", "wait", "conn">>

\* Shutdown of each exporter.
TracesShutdown == <<"close", "wait">> \o StopUsage \o <<"conn">>
LogsShutdown == <<"close", "wait">> \o StopUsage \o <<"conn">>
MetricsShutdown == StopUsage \o <<"close", "wait", "conn">>
MeterShutdown == <<"close", "wait", "conn">>

Steps ==
    CASE kind = "traces"  -> TracesShutdown
      [] kind = "logs"    -> LogsShutdown
      [] kind = "metrics" -> MetricsShutdown
      [] kind = "meter"   -> MeterShutdown

AtStep(s) ==
    /\ down < Len(Steps) /\ Steps[down + 1] = s
    /\ down' = down + 1

Done(s) == \E i \in 1 .. down : Steps[i] = s

\* Interval reader: ExportMetrics inserts the sums of the view.  Flush does so
\* once more when it is stopped.
Report ==
    /\ kind # "meter" /\ ~Done("flush") /\ recorded # reported
    /\ reported' = recorded
    /\ UNCHANGED <<kind, pushVars, rowVars, rules, recorded, flushed, poller, reducer, downVars, faults>>

Flush ==
    /\ AtStep("flush")
    /\ \/ reported' = recorded /\ flushed' = TRUE /\ NoFault
       \/ UNCHANGED <<reported, flushed>> /\ Fault
    /\ UNCHANGED <<kind, pushVars, rowVars, rules, recorded, poller, reducer, closed, conn>>

\* The report loop of reduced usage ends when Stop has closed the collector's
\* closeChan, which it does after the flush; reducedCancel cuts a query short.
ReducerEnds ==
    /\ reducer /\ Done("flush")
    /\ reducer' = FALSE
    /\ UNCHANGED <<kind, pushVars, rowVars, rules, usageVars, poller, downVars, faults>>

WaitReducer ==
    /\ AtStep("waitReducer")
    /\ ~reducer
    /\ UNCHANGED <<kind, pushVars, rowVars, rules, usageVars, poller, reducer, closed, conn, faults>>

CloseChan ==
    /\ AtStep("close")
    /\ closed' = TRUE
    /\ UNCHANGED <<kind, pushVars, rowVars, rules, usageVars, poller, reducer, conn, faults>>

InPush(p) == pc[p] \in {"entered", "write", "resources", "hung"}

\* wg.Wait.
WaitGroup ==
    /\ AtStep("wait")
    /\ \A p \in Pushes : ~InPush(p)
    /\ PollerCounted => ~poller
    /\ UNCHANGED <<kind, pushVars, rowVars, rules, usageVars, poller, reducer, closed, conn, faults>>

CloseConn ==
    /\ AtStep("conn")
    /\ conn' = FALSE
    /\ UNCHANGED <<kind, pushVars, rowVars, rules, usageVars, poller, reducer, closed, faults>>

-----------------------------------------------------------------------------

PushStep(p) ==
    \/ CheckOpen(p) \/ SendOthers(p) \/ FinishWrite(p) \/ FinishResources(p)
    \/ \E t \in Tables : AppendCached(p, t) \/ SendCached(p, t)

Shutdown ==
    Flush \/ WaitReducer \/ CloseChan \/ WaitGroup \/ CloseConn

Next ==
    \/ \E p \in Pushes : Enter(p) \/ PushStep(p) \/ Hang(p) \/ \E t \in Tables : PrepareFails(p, t)
    \/ Expire \/ Poll \/ PollerEnds \/ ReducerEnds \/ Report \/ Shutdown

\* Statements and queries come to an end, and with them a push, unless it hangs;
\* nobody need call Shutdown, but once it is called it goes on.
Fairness ==
    /\ \A p \in Pushes : WF_vars(PushStep(p))
    /\ WF_vars(PollerEnds) /\ WF_vars(ReducerEnds)
    /\ WF_vars(down > 0 /\ Shutdown)

Spec == Init /\ [][Next]_vars /\ Fairness

-----------------------------------------------------------------------------
(* Properties *)

InFlight(t, r) == \E p \in Pushes : r \in new[p][t]

\* A push that is acknowledged has its rows in every table whose errors count,
\* whatever other pushes, failures and retries did before: a row may be missing
\* only because the cache holds it for a statement that failed (lost) or that is
\* still to be sent.
AckedIsStored ==
    \A p \in Pushes : pc[p] = "ok" =>
        \A t \in Tables : Critical(t) =>
            \A r \in Rows(p, t) :
                \/ <<t, r>> \in stored
                \/ Cached(t) /\ (<<t, r>> \in lost \/ InFlight(t, r))

\* A sample is found through its series: of an acknowledged batch every sample has
\* a series row of its hour, and a reduced one a row of its reduced series also
\* when rule and labels make that the same fingerprint as the raw series.
Accounted(t, r) == <<t, r>> \in stored \/ <<t, r>> \in lost \/ InFlight(t, r)

HasReducedSeries(fp) ==
    \E r \in RuledSeries : r.fp = fp /\ r.reduced /\ Accounted("series", r)

SamplesHaveSeries ==
    kind = "metrics" =>
        \A p \in Pushes : pc[p] = "ok" =>
            \A s \in SamplesOf(batch[p]) :
                /\ Accounted("series", [fp |-> s.fp, hour |-> s.hour, reduced |-> FALSE])
                /\ s.reduced # NoFingerprint => HasReducedSeries(s.reduced)

\* Shutdown: the connection is closed after the last push, the reduced usage
\* reporter and the pollers wg counts have used it; a push that comes later does
\* not write.
ConnectionOutlivesUsers ==
    ~conn => /\ \A p \in Pushes : pc[p] \notin {"write", "resources"}
             /\ ~reducer
             /\ PollerCounted => ~poller

\* After a shutdown whose last insert succeeded, all usage of traces and logs is
\* in the usage table: nothing is recorded after the flush.  The logs exporter
\* counts a batch once, when it is acknowledged.
UsageReported ==
    /\ (~conn /\ flushed /\ kind \in {"traces", "logs"}) => reported = recorded
    /\ kind = "logs" => recorded = Cardinality({p \in Pushes : pc[p] = "ok"})

\* Shutdown comes to its end: it waits for nobody who waits for it.  A push of the
\* logs exporter that hangs is excepted: wg.Wait waits for it for ever.
ShutdownCompletes == (down > 0) ~> (~conn \/ \E p \in Pushes : pc[p] = "hung")

=============================================================================
