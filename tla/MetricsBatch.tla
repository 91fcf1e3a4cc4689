---------------------------- MODULE MetricsBatch ----------------------------
(***************************************************************************)
(* signozclickhousemetrics: the rows prepareBatch makes of a metric.  A      *)
(* metric is [typ, name, points]; a data point is [labels, hour, nan, has]:  *)
(* its labels, the hour of its timestamp, whether one of its values is NaN,  *)
(* and which of sum, min and max it has.  A metric is flattened: each suffix *)
(* is a metric of its own, with its own rule.  A fingerprint is what it is   *)
(* the hash of: flattened name, labels, and the label le or quantile.        *)
(* Values, units, temporality and descriptions are left out.                 *)
(***************************************************************************)
EXTENDS Naturals, Sequences

CONSTANTS
    Dropped,        \* labels a reduction rule drops
    EffectiveFrom   \* hour from which a rule applies

NoFingerprint == <<>>   \* fingerprintOrZero of nil

Fingerprint(m, labels, flat) == <<m.name, flat.suffix, labels, flat.extra>>

\* drop of a rule.  The labels le and quantile are protected: they stay in
\* "extra" in either mode of a rule.
Drop(labels) == labels \ Dropped

-----------------------------------------------------------------------------
(* The flattened samples of one data point *)

Plain(suffix) == [suffix |-> suffix, extra |-> "-"]

GaugeSamples(pt) == {Plain("")}

SumSamples(pt) == {Plain("")}

\* addBucketSample: every bound and +Inf.
BucketSamples(pt) == {[suffix |-> "bucket", extra |-> le] : le \in {"1", "+Inf"}}

\* addSample for count, and for sum, min and max if the point has them.
HistogramSamples(pt) ==
    {Plain("count")} \cup {Plain(s) : s \in pt.has} \cup BucketSamples(pt)

\* addQuantileSample: every quantile.
QuantileSamples(pt) == {[suffix |-> "quantile", extra |-> "0.5"]}

\* A summary has no optional fields.
SummarySamples(pt) == {Plain("count"), Plain("sum")} \cup QuantileSamples(pt)

\* The sketch is a row of the histogram table, with a series of its own.
ExpHistSamples(pt) == {Plain("count")} \cup {Plain(s) : s \in pt.has}
Sketch == Plain("")

FlatSamples(m, pt) ==
    CASE m.typ = "gauge"     -> GaugeSamples(pt)
      [] m.typ = "sum"       -> SumSamples(pt)
      [] m.typ = "histogram" -> HistogramSamples(pt)
      [] m.typ = "summary"   -> SummarySamples(pt)
      [] m.typ = "exphist"   -> ExpHistSamples(pt)

\* A point with a NaN is skipped whole.
Points(m) == {i \in DOMAIN m.points : ~m.points[i].nan}

-----------------------------------------------------------------------------
(* Reduction *)

\* newReducerFor: rules are keyed by the flattened name; exponential histograms
\* have no reducer.  reduce: nothing before the hour of the rule.
IsReduced(m, pt, flat, rules) ==
    /\ m.typ # "exphist"
    /\ flat.suffix \in rules
    /\ pt.hour >= EffectiveFrom

Reduced(m, pt, flat, rules) ==
    IF IsReduced(m, pt, flat, rules)
    THEN Fingerprint(m, Drop(pt.labels), flat)
    ELSE NoFingerprint

-----------------------------------------------------------------------------
(* The rows of a batch *)

Samples(m, rules) ==
    {[fp |-> Fingerprint(m, m.points[q[1]].labels, q[2]),
      reduced |-> Reduced(m, m.points[q[1]], q[2], rules),
      hour |-> m.points[q[1]].hour,
      suffix |-> q[2].suffix] :
        q \in UNION {{i} \X FlatSamples(m, m.points[i]) : i \in Points(m)}}

ExpHist(m) ==
    IF m.typ # "exphist" THEN {}
    ELSE {[fp |-> Fingerprint(m, m.points[i].labels, Sketch), hour |-> m.points[i].hour] :
            i \in Points(m)}

\* One row for each series and hour.
RawSeries(m, rules) ==
    {[fp |-> s.fp, hour |-> s.hour, reduced |-> FALSE] : s \in Samples(m, rules)}
      \cup {[fp |-> e.fp, hour |-> e.hour, reduced |-> FALSE] : e \in ExpHist(m)}

\* firstSeen: one row for each reduced series of the batch, with the time of
\* the first point that has a sample in it.
ReducedSeries(m, rules) ==
    {[fp |-> Reduced(m, m.points[q[1]], q[2], rules),
      hour |-> m.points[q[1]].hour,
      reduced |-> TRUE] :
        q \in {r \in UNION {{i} \X FlatSamples(m, m.points[i]) : i \in Points(m)} :
                 /\ IsReduced(m, m.points[r[1]], r[2], rules)
                 /\ \A j \in Points(m) : j < r[1] /\ r[2] \in FlatSamples(m, m.points[j]) =>
                      Reduced(m, m.points[j], r[2], rules)
                        # Reduced(m, m.points[r[1]], r[2], rules)}}

TimeSeries(m, rules) == RawSeries(m, rules) \cup ReducedSeries(m, rules)

\* addMetadata: the labels of the points, and of resource and scope even when no
\* point is left.
Metadata(m) ==
    {"resource", "scope"} \cup UNION {m.points[i].labels : i \in Points(m)}

\* collectUsageForSample, with the rules there are when it is called.
CollectUsage(s, rules) == s.reduced = NoFingerprint /\ s.suffix \notin rules

=============================================================================
