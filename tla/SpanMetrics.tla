---------------------------- MODULE SpanMetrics ----------------------------
(***************************************************************************)
(* The span metrics processor (processor/signozspanmetricsprocessor): the   *)
(* spans that pass are counted in five families of histograms, each with an *)
(* LRU cache of the labels of its series; on every tick of a timer one      *)
(* goroutine builds metrics of all histograms and gives them to the metrics *)
(* exporters.  The mutex covers aggregateMetrics and buildMetrics, not the  *)
(* delivery.                                                                *)
(*                                                                         *)
(* A histogram is the set of the spans counted in it: its count, sum and    *)
(* buckets are functions of that set.  A call of ConsumeTraces carries one  *)
(* span; a larger batch is a run of such calls with no tick in between.     *)
(***************************************************************************)
EXTENDS Integers, Sequences, FiniteSets, SequencesExt

CONSTANTS
    Arrivals,       \* the spans that may pass, as records
    Dimensions,     \* the configured dimensions, a sequence of names
    Defaults,       \* name -> default value of a dimension that has one
    ExcludePatterns,\* set of [key, value]: the values a pattern matches
    EnableExpHistogram,
    CacheSize,      \* dimensions_cache_size
    MaxServices,    \* max_services_to_track
    MaxOperations,  \* max_operations_to_track_per_service
    MaxSpans        \* bound: spans that pass

ASSUME SpanMetricsAssumption ==
    /\ EnableExpHistogram \in BOOLEAN
    /\ {CacheSize, MaxSpans} \subseteq Nat \ {0}
    /\ {MaxServices, MaxOperations} \subseteq Nat

VARIABLES
    temporality,    \* "delta" or "cumulative"
    life,           \* where the processor is between Start and Shutdown
    tickC,          \* the channel of the ticker holds a tick
    phase,          \* of the goroutine: "idle" or "send"
    agg,            \* what the mutex protects: operations seen, and the families
    buildErr,       \* the last buildMetrics returned an error
    counted,        \* per family: spans counted so far
    exported        \* per family: spans in some metrics that were built

vars == <<temporality, life, tickC, phase, agg, buildErr, counted, exported>>

Families == {"latency", "exp", "call", "external", "db"}

NoFn == <<>>                     \* a map without entries
EmptyFamily == [lru |-> <<>>, dims |-> NoFn, histo |-> NoFn, exemplars |-> {}]

Init ==
    /\ temporality \in {"delta", "cumulative"}
    /\ life = "new"
    /\ tickC = FALSE
    /\ phase = "idle"
    /\ agg = [ops |-> NoFn, fam |-> [f \in Families |-> EmptyFamily]]
    /\ buildErr = FALSE
    /\ counted = [f \in Families |-> {}]
    /\ exported = [f \in Families |-> {}]

-----------------------------------------------------------------------------
(* internal/cache: an LRU cache that keeps what it evicts.  dims holds the   *)
(* items, lru the keys that are still in the cache, oldest first; the items *)
(* of dims that are not in lru are the evictedItems.                        *)

Put(m, k, v) == [x \in DOMAIN m \cup {k} |-> IF x = k THEN v ELSE m[x]]
KeepOnly(m, S) == [x \in DOMAIN m \cap S |-> m[x]]

\* The key becomes the newest.
Used(lru, key) ==
    Append(IF key \in ToSet(lru)
           THEN RemoveAt(lru, CHOOSE i \in 1 .. Len(lru) : lru[i] = key) ELSE lru, key)

\* Mutant: an evicted item is forgotten at once.
CacheAdd_ForgetsEvicted(c, key, labels) ==
    LET used == Used(c.lru, key)
        lru  == IF Len(used) > CacheSize THEN Tail(used) ELSE used
    IN  [c EXCEPT !.lru = lru, !.dims = KeepOnly(Put(@, key, labels), ToSet(lru))]

CacheAdd(c, key, labels) ==
    LET used == Used(c.lru, key)
    IN  [c EXCEPT !.lru = IF Len(used) > CacheSize THEN Tail(used) ELSE used,
                  !.dims = Put(@, key, labels)]

Known(c, key) == key \in DOMAIN c.dims

\* A hit, in the cache or among the evicted items, makes the key the newest.
CacheGet(c, key) == CacheAdd(c, key, c.dims[key])

RemoveEvictedItems(c) == [c EXCEPT !.dims = KeepOnly(@, ToSet(c.lru))]

-----------------------------------------------------------------------------
(* Keys and labels *)

Has(m, name) == name \in DOMAIN m

\* getDimensionValueWithResource: the span's attribute, for the HTTP status
\* also under its stable name, then the resource's, then the default.
DimensionValue(d, s) ==
    IF Has(s.attrs, d) THEN <<s.attrs[d], Has(s.resource, d)>>
    ELSE IF d = "http.status_code" /\ Has(s.attrs, "http.response.status_code")
    THEN <<s.attrs["http.response.status_code"], FALSE>>
    ELSE IF Has(s.resource, d) THEN <<s.resource[d], TRUE>>
    ELSE IF Has(Defaults, d) THEN <<Defaults[d], FALSE>>
    ELSE <<>>

\* The dimensions of a family, in the order of the key.
DimensionsOf(f) ==
    CASE f \in {"latency", "exp"}     -> Dimensions
      [] f \in {"call", "external"}   -> <<"http.status_code">> \o Dimensions
      [] f = "db"                     -> <<"db.system", "db.name">> \o Dimensions

\* A value that is absent leaves no trace in the key.  Whether the resource has
\* the dimension shows in the keys of the two kinds of calls only.
ValuesOf(f, s) ==
    LET found == SelectSeq([i \in DOMAIN DimensionsOf(f) |->
                               DimensionValue(DimensionsOf(f)[i], s)],
                           LAMBDA v : v # <<>>)
    IN  IF f \in {"external", "db"} THEN found
        ELSE [i \in DOMAIN found |-> found[i][1]]

LabelsOf(f, s) ==
    {<<d, DimensionValue(d, s)>> : d \in {e \in ToSet(DimensionsOf(f)) :
                                             DimensionValue(e, s) # <<>>}}

\* Delta keys start with the bucket of the span's start time.
TimeBucket(s) == IF temporality = "delta" THEN <<s.bucket>> ELSE <<>>

\* Mutant: the limits are not looked at.
TrackedNames_Unlimited(ops, s) == <<s.service, s.name>>

\* Beyond the limits a service or an operation is known by a common name.
TrackedNames(ops, s) ==
    LET service == IF Cardinality(DOMAIN ops) > MaxServices
                   THEN "overflow_service" ELSE s.service
        seen    == IF Has(ops, service) THEN ops[service] ELSE {}
    IN  <<service, IF Cardinality(seen) > MaxOperations
                   THEN "overflow_operation" ELSE s.name>>

TrackOperation(ops, names) ==
    Put(ops, names[1],
        {names[2]} \cup IF Has(ops, names[1]) THEN ops[names[1]] ELSE {})

\* getRemoteAddress: the attributes that supply the address.  peer stands for
\* the five names of a peer's address; the test for a transport without one
\* never succeeds, and a URL that cannot be parsed is absent.
RemoteAddress(s) ==
    LET A    == DOMAIN s.attrs
        rpc  == A \cap {"rpc.service", "rpc.method"}
        rest == SelectSeq(<<"http.host", "peer", "http.url", "peer.service">>,
                          LAMBDA a : a \in A)
        from == IF "rpc.system" \in A
                THEN IF rpc # {} THEN rpc ELSE A \cap {"peer"}
                ELSE IF rest = <<>> THEN {} ELSE {Head(rest)}
    IN  {s.attrs[a] : a \in from}

-----------------------------------------------------------------------------
(* aggregateMetrics *)

\* The labels are looked up or stored, then the histogram is updated.
CountIn(a, f, key, labels, id) ==
    LET c == a.fam[f]
        cached == IF Known(c, key) THEN CacheGet(c, key)
                                   ELSE CacheAdd(c, key, labels)
        spans == {id} \cup IF Has(c.histo, key) THEN c.histo[key] ELSE {}
    IN  [a EXCEPT !.fam[f] = [cached EXCEPT
            !.histo = Put(@, key, spans),
            !.exemplars = IF f = "exp" THEN @ ELSE @ \cup {id}]]

\* buildMetricKey enters the names before the labels are built of them.
CountSpan(a, f, s, id) ==
    LET names == TrackedNames(a.ops, s)
        ops   == TrackOperation(a.ops, names)
        key   == TimeBucket(s) \o names \o <<s.kind, s.status>> \o ValuesOf(f, s)
        labels == [names |-> TrackedNames(ops, s),
                   rest |-> <<s.kind, s.status, LabelsOf(f, s)>>]
    IN  CountIn([a EXCEPT !.ops = ops], f, key, labels, id)

\* buildCustomMetricKey: no limits, and no operation.
CountCall(a, f, s, id) ==
    LET addr == IF f = "external" THEN RemoteAddress(s) ELSE {}
        key  == TimeBucket(s) \o <<s.service, s.status, addr>> \o ValuesOf(f, s)
    IN  CountIn(a, f, key,
                [names |-> <<s.service>>, rest |-> <<s.status, addr, LabelsOf(f, s)>>], id)

\* The families a span belongs to.
FamiliesOf(s) ==
    {f \in Families :
        CASE f = "exp"      -> EnableExpHistogram
          [] f = "external" -> s.kind = "client" /\ RemoteAddress(s) # {}
          [] f = "db"       -> s.kind # "server" /\ Has(s.attrs, "db.system")
          [] OTHER          -> TRUE}

ShouldSkip(s) ==
    \E p \in ExcludePatterns :
        \/ p.key = "service.name" /\ s.service = p.value
        \/ p.key = "operation" /\ s.name = p.value
        \/ p.key = "span.kind" /\ s.kind = p.value
        \/ p.key = "status.code" /\ s.status = p.value
        \/ \E m \in {s.attrs, s.resource} : Has(m, p.key) /\ m[p.key] = p.value

\* A span without a service, too old a span and an excluded one are passed over.
Counts(s) == s.service # "" /\ ~s.stale /\ ~ShouldSkip(s)

AggregateMetric(a, f, s, id) ==
    IF f \notin FamiliesOf(s) THEN a
    ELSE IF f \in {"external", "db"} THEN CountCall(a, f, s, id) ELSE CountSpan(a, f, s, id)

\* Family after family: each may enter names that the next one looks at.
AggregateMetrics(a, s, id) ==
    LET latency  == AggregateMetric(a, "latency", s, id)
        exp      == AggregateMetric(latency, "exp", s, id)
        call     == AggregateMetric(exp, "call", s, id)
        external == AggregateMetric(call, "external", s, id)
    IN  AggregateMetric(external, "db", s, id)

Passed == Cardinality(UNION {counted[f] : f \in Families})

\* ConsumeTraces, under the mutex; the spans then go on unchanged.
ConsumeTraces(s) ==
    /\ life = "running"
    /\ Passed < MaxSpans
    /\ IF Counts(s)
       THEN /\ agg' = AggregateMetrics(agg, s, Passed + 1)
            /\ counted' = [f \in Families |->
                  counted[f] \cup IF f \in FamiliesOf(s) THEN {Passed + 1} ELSE {}]
       ELSE UNCHANGED <<agg, counted>>
    /\ UNCHANGED <<temporality, life, tickC, phase, buildErr, exported>>

-----------------------------------------------------------------------------
(* exportMetrics *)

\* Start finds the named exporters, or fails.
Start ==
    /\ life = "new"
    /\ life' \in {"running", "failed"}
    /\ UNCHANGED <<temporality, tickC, phase, agg, buildErr, counted, exported>>

\* Mutant: a timer that fires once instead of a ticker.
TickerFires_Once ==
    /\ life = "running" /\ ~tickC /\ \A f \in Families : exported[f] = {}
    /\ tickC' = TRUE
    /\ UNCHANGED <<temporality, life, phase, agg, buildErr, counted, exported>>

\* The channel holds one tick; a further one is dropped.
TickerFires ==
    /\ life = "running" /\ ~tickC
    /\ tickC' = TRUE
    /\ UNCHANGED <<temporality, life, phase, agg, buildErr, counted, exported>>

\* Mutant: delta metrics are treated as cumulative ones.
Forget_KeepsDelta(c) ==
    [RemoveEvictedItems(c) EXCEPT !.histo = KeepOnly(@, ToSet(c.lru)),
                                  !.exemplars = {}]

\* After all families: what was evicted is forgotten with its histogram, delta
\* metrics are reset, exemplars always.
Forget(c) ==
    IF temporality = "delta" THEN EmptyFamily
    ELSE [RemoveEvictedItems(c) EXCEPT !.histo = KeepOnly(@, ToSet(c.lru)),
                                       !.exemplars = {}]

Accumulated(f) == UNION {agg.fam[f].histo[k] : k \in DOMAIN agg.fam[f].histo}

\* What collecting a family leaves in its cache: every key is looked up, in the
\* order of Go's map iteration, which is any.
LookUp(c, order) ==
    LET looked[i \in 0 .. Len(order)] ==
            IF i = 0 THEN c ELSE CacheGet(looked[i - 1], order[i])
    IN  looked[Len(order)]

Collected(f) == {LookUp(agg.fam[f], order) : order \in SetToSeqs(DOMAIN agg.fam[f].histo)}

LabelsKnown ==
    \A f \in Families : \A k \in DOMAIN agg.fam[f].histo : Known(agg.fam[f], k)

BuildMetrics ==
    /\ \E latency \in Collected("latency"), exp \in Collected("exp"),
          call \in Collected("call"), external \in Collected("external"),
          db \in Collected("db") :
          agg' = [agg EXCEPT !.fam = [f \in Families |-> Forget(
                     CASE f = "latency" -> latency [] f = "exp" -> exp [] f = "call" -> call
                       [] f = "external" -> external [] f = "db" -> db)]]
    /\ exported' = [f \in Families |-> exported[f] \cup Accumulated(f)]
    /\ UNCHANGED buildErr

\* exportMetrics takes the mutex for the build; a key without labels ends it
\* with an error, and an empty Metrics is delivered.  Once done is closed, select
\* may still prefer a tick that is left.
ExportMetrics ==
    /\ life \in {"running", "stopping"} /\ tickC /\ phase = "idle"
    /\ tickC' = FALSE
    /\ phase' = "send"
    /\ IF LabelsKnown
       THEN BuildMetrics
       ELSE /\ buildErr' = TRUE
            /\ agg' = [agg EXCEPT !.fam = [f \in Families |-> [@[f] EXCEPT !.exemplars = {}]]]
            /\ UNCHANGED exported
    /\ UNCHANGED <<temporality, life, counted>>

\* The mutex is free; each exporter receives the metrics, and an error of one
\* is only logged.
Deliver ==
    /\ phase = "send"
    /\ phase' = "idle"
    /\ UNCHANGED <<temporality, life, tickC, agg, buildErr, counted, exported>>

\* Shutdown stops the ticker, closes done and waits for the goroutine; it does
\* not build once more.
Shutdown ==
    /\ life \in {"running", "failed"}
    /\ life' = IF life = "running" THEN "stopping" ELSE "stopped"
    /\ UNCHANGED <<temporality, tickC, phase, agg, buildErr, counted, exported>>

GoroutineEnds ==
    /\ life = "stopping" /\ phase = "idle"
    /\ life' = "stopped"
    /\ UNCHANGED <<temporality, tickC, phase, agg, buildErr, counted, exported>>

Next ==
    \/ \E s \in Arrivals : ConsumeTraces(s)
    \/ Start \/ TickerFires \/ ExportMetrics \/ Deliver
    \/ Shutdown \/ GoroutineEnds

\* The ticker fires as long as it is not stopped, and the goroutine and the
\* exporters it calls get on.
Fairness ==
    WF_vars(TickerFires) /\ WF_vars(ExportMetrics) /\ WF_vars(Deliver)

Spec == Init /\ [][Next]_vars /\ Fairness

-----------------------------------------------------------------------------
(* Properties *)

\* The labels of every histogram are found when metrics are built, although the
\* cache evicts keys while spans are counted and while other keys are looked
\* up.  exportMetrics hands on what buildMetrics returned even after an error.
MetricsAreBuilt == ~buildErr

\* A span that is counted is in a histogram or has been in metrics that were
\* built: an eviction loses none.  With delta temporality it is never in both,
\* so that no span is reported twice; an exemplar is reported once in any case.
ReportedOnce ==
    \A f \in Families :
        /\ counted[f] = exported[f] \cup Accumulated(f)
        /\ temporality = "delta" => exported[f] \cap Accumulated(f) = {}
        /\ agg.fam[f].exemplars \cap exported[f] = {}

\* The number of series is bounded.  A family keeps no more of the series it has
\* reported than its cache holds; the labels name at most MaxServices services
\* beside the common name, and one more is tracked (the limit is tested with
\* >, before a service is entered for the key and after it for the labels).
SeriesAreBounded ==
    /\ \A f \in Families :
          Cardinality({k \in DOMAIN agg.fam[f].histo :
                          agg.fam[f].histo[k] \cap exported[f] # {}}) <= CacheSize
    /\ \A f \in {"latency", "exp", "call"} :
          Cardinality({agg.fam[f].dims[k].names[1] : k \in DOMAIN agg.fam[f].dims}
                      \ {"overflow_service"}) <= MaxServices
    /\ Cardinality(DOMAIN agg.ops) <= MaxServices + 2

\* While the processor runs, what it has counted is built into metrics.
CountedIsReported ==
    (life = "running" /\ counted # exported) ~> (life # "running" \/ counted = exported)

=============================================================================
