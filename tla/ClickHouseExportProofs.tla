---------------------- MODULE ClickHouseExportProofs ----------------------
(***************************************************************************)
(* Proofs about ClickHouseExport, for any number of pushes, any batch of    *)
(* metrics and rules, and any number of failures: an acknowledged push has  *)
(* its rows, its samples have their series, the connection outlives its     *)
(* users and the usage is reported.                                         *)
(***************************************************************************)
EXTENDS ClickHouseExport, FiniteSetTheorems, WellFoundedInduction, TLAPS

-----------------------------------------------------------------------------
(* The inductive invariant *)

Pcs == {"idle", "entered", "write", "resources", "ok", "dropped", "error", "hung"}
RowsFor(t) == IF t = "series" THEN RuledSeries \cup PlainSeries ELSE {"shared"} \cup Pushes

ExportTypeOK ==
    /\ kind \in Kinds
    /\ pc \in [Pushes -> Pcs]
    /\ batch \in [Pushes -> {{}, Ruled}]
    /\ rules \in {{}, Ruled}
    /\ st \in [Pushes -> [Tables -> {"todo", "appended", "sent", "failed"}]]
    /\ new = [p \in Pushes |-> [t \in Tables |-> new[p][t]]]
    /\ recorded \in Nat /\ reported \in Nat
    /\ flushed \in BOOLEAN /\ poller \in BOOLEAN /\ reducer \in BOOLEAN
    /\ closed \in BOOLEAN /\ conn \in BOOLEAN
    /\ down \in 0 .. Len(Steps)

\* A statement that holds rows is of a cached table, and being worked on.
NewInv(p) ==
    \A t \in Tables :
        /\ new[p][t] # {} => st[p][t] = "appended"
        /\ st[p][t] = "appended" => InStage(p, t) /\ Cached(t)

\* A row that is in its table, or that the cache holds for a statement that
\* failed or is still to be sent.
Kept(t, r) ==
    \/ <<t, r>> \in stored
    \/ Cached(t) /\ (<<t, r>> \in lost \/ InFlight(t, r))

\* A cached row is kept: that is what lets a push leave it out.
CacheInv ==
    \A t \in Tables : \A r \in RowsFor(t) :
        Cached(t) /\ CacheKey(t, r) \in cache => Kept(t, r)

\* What a push has appended or sent is kept.
RowsInv(p) ==
    pc[p] \in {"write", "resources", "ok"} =>
        \A t \in Tables : st[p][t] \in {"appended", "sent"} =>
            \A r \in Rows(p, t) : Kept(t, r)

\* What a push has behind it was sent where an error counts.
StageInv(p) ==
    /\ pc[p] = "resources" =>
          kind = "traces" /\ \A t \in Tables \ {"resources"} : Critical(t) => st[p][t] = "sent"
    /\ pc[p] = "ok" => \A t \in Tables : Critical(t) => st[p][t] = "sent"

PushInv(p) == NewInv(p) /\ RowsInv(p) /\ StageInv(p)

Writing(p) == pc[p] \in {"write", "resources"}

\* What each step of Shutdown has brought about, and what stays so after it.
DownInv ==
    /\ closed <=> Done("close")
    /\ ~conn <=> Done("conn")
    /\ Done("wait") => /\ closed /\ (PollerCounted => ~poller)
                       /\ \A p \in Pushes : ~Writing(p)
    /\ reducer => kind = "metrics" /\ ~Done("waitReducer")

\* The usage after the last report, and the batches of logs it counts.
UsageInv ==
    /\ flushed => Done("flush") /\ (kind \in {"traces", "logs"} => reported = recorded)
    /\ kind = "logs" => recorded = Cardinality({p \in Pushes : pc[p] = "ok"})

ExportInv ==
    /\ ExportTypeOK
    /\ CacheInv
    /\ \A p \in Pushes : PushInv(p)
    /\ DownInv
    /\ UsageInv

-----------------------------------------------------------------------------
(* The tables of each exporter, and the steps of its shutdown *)

\* Which tables each exporter writes, which of them it caches, and where an error
\* makes the push fail.
LEMMA TableFacts ==
    /\ kind = "traces" =>
          /\ Tables = {"index", "errors", "tags", "keys", "resources"}
          /\ \A t \in Tables : /\ Cached(t) <=> t \in {"keys", "resources"}
                               /\ Critical(t) <=> t \in {"index", "errors", "resources"}
    /\ kind = "logs" =>
          /\ Tables = {"logs", "resources", "keys", "tags"}
          /\ \A t \in Tables : (Cached(t) <=> t \in {"keys", "resources"}) /\ Critical(t)
    /\ kind = "metrics" =>
          /\ Tables = {"series", "samples", "exphist", "metadata"}
          /\ \A t \in Tables : /\ Cached(t) <=> t = "series"
                               /\ Critical(t) <=> t # "metadata"
    /\ kind = "meter" =>
          /\ Tables = {"samples"}
          /\ \A t \in Tables : ~Cached(t) /\ Critical(t)
<1> USE DEF Tables, Cached, Critical, Statements, Statement
<1>1. ASSUME kind = "traces"
      PROVE  /\ Tables = {"index", "errors", "tags", "keys", "resources"}
             /\ \A t \in Tables : /\ Cached(t) <=> t \in {"keys", "resources"}
                                  /\ Critical(t) <=> t \in {"index", "errors", "resources"}
  BY <1>1 DEF writeIndexBatchV3, writeErrorBatchV3, writeTagBatchV3, writeTagKeys, WriteResourcesV3
<1>2. ASSUME kind = "logs"
      PROVE  /\ Tables = {"logs", "resources", "keys", "tags"}
             /\ \A t \in Tables : (Cached(t) <=> t \in {"keys", "resources"}) /\ Critical(t)
  BY <1>2 DEF insertLogsStmtV2, insertResourcesStmtV2, attributeKeysStmt, tagStatementV2
<1>3. ASSUME kind = "metrics"
      PROVE  /\ Tables = {"series", "samples", "exphist", "metadata"}
             /\ \A t \in Tables : /\ Cached(t) <=> t = "series"
                                  /\ Critical(t) <=> t # "metadata"
  BY <1>3 DEF writeTimeSeries, writeSamples, writeExpHist, writeMetadata
<1>4. ASSUME kind = "meter"
      PROVE  /\ Tables = {"samples"}
             /\ \A t \in Tables : ~Cached(t) /\ Critical(t)
  BY <1>4 DEF meterWriteBatch
<1> QED
  BY <1>1, <1>2, <1>3, <1>4

Labels == {"close", "wait", "flush", "waitReducer", "conn"}

\* Length and elements of two sequences of labels put together.
LEMMA Concat ==
    ASSUME NEW s \in Seq(Labels), NEW u \in Seq(Labels)
    PROVE  /\ s \o u \in Seq(Labels)
           /\ Len(s \o u) = Len(s) + Len(u)
           /\ \A i \in 1 .. Len(s) : (s \o u)[i] = s[i]
           /\ \A i \in 1 .. Len(u) : (s \o u)[Len(s) + i] = u[i]
OBVIOUS

\* The steps of Shutdown of each exporter, in order.
LEMMA StepFacts ==
    /\ kind \in {"traces", "logs"} =>
          /\ Len(Steps) = 5 /\ Steps[1] = "close" /\ Steps[2] = "wait" /\ Steps[3] = "flush"
          /\ Steps[4] = "waitReducer" /\ Steps[5] = "conn"
    /\ kind = "metrics" =>
          /\ Len(Steps) = 5 /\ Steps[1] = "flush" /\ Steps[2] = "waitReducer"
          /\ Steps[3] = "close" /\ Steps[4] = "wait" /\ Steps[5] = "conn"
    /\ kind = "meter" =>
          Len(Steps) = 3 /\ Steps[1] = "close" /\ Steps[2] = "wait" /\ Steps[3] = "conn"
<1> DEFINE cw == <<"close", "wait">>  us == <<"flush", "waitReducer">>  co == <<"conn">>
           cwc == <<"close", "wait", "conn">>
<1>1. /\ cw \in Seq(Labels) /\ us \in Seq(Labels)
      /\ co \in Seq(Labels) /\ cwc \in Seq(Labels)
  BY DEF Labels
<1>2. /\ Len(cw) = 2 /\ cw[1] = "close" /\ cw[2] = "wait"
      /\ Len(us) = 2 /\ us[1] = "flush" /\ us[2] = "waitReducer"
      /\ Len(co) = 1 /\ co[1] = "conn"
      /\ Len(cwc) = 3 /\ cwc[1] = "close" /\ cwc[2] = "wait" /\ cwc[3] = "conn"
  OBVIOUS
<1>3. /\ kind \in {"traces", "logs"} => Steps = (cw \o us) \o co
      /\ kind = "metrics" => Steps = us \o cwc
      /\ kind = "meter" => Steps = cwc
  BY DEF Steps, TracesShutdown, LogsShutdown, MetricsShutdown, MeterShutdown, StopUsage
<1> HIDE DEF cw, us, co, cwc
<1> DEFINE cu == cw \o us
<1>4. /\ cu \in Seq(Labels) /\ Len(cu) = 4 /\ cu[1] = "close" /\ cu[2] = "wait"
      /\ cu[Len(cw) + 1] = "flush" /\ cu[Len(cw) + 2] = "waitReducer"
  BY <1>1, <1>2, Concat
<1>5. cu[3] = "flush" /\ cu[4] = "waitReducer"
  BY <1>2, <1>4
<1> HIDE DEF cu
<1>6. ASSUME kind \in {"traces", "logs"}
      PROVE  /\ Len(Steps) = 5 /\ Steps[1] = "close" /\ Steps[2] = "wait"
             /\ Steps[3] = "flush" /\ Steps[4] = "waitReducer" /\ Steps[5] = "conn"
  <2>1. Steps = cu \o co
    BY <1>3, <1>6 DEF cu
  <2>2. /\ Len(Steps) = Len(cu) + Len(co)
        /\ \A i \in 1 .. Len(cu) : Steps[i] = cu[i]
        /\ \A i \in 1 .. Len(co) : Steps[Len(cu) + i] = co[i]
    <3>1. cu \in Seq(Labels) /\ co \in Seq(Labels)
      BY <1>1, <1>4
    <3> QED
      BY <2>1, <3>1, Concat
  <2>3. Steps[4 + 1] = "conn"
    BY <1>2, <1>4, <2>2
  <2> QED
    BY <1>2, <1>4, <1>5, <2>2, <2>3
<1>7. ASSUME kind = "metrics"
      PROVE  /\ Len(Steps) = 5 /\ Steps[1] = "flush" /\ Steps[2] = "waitReducer"
             /\ Steps[3] = "close" /\ Steps[4] = "wait" /\ Steps[5] = "conn"
  <2>1. /\ Len(Steps) = Len(us) + Len(cwc)
        /\ \A i \in 1 .. Len(us) : Steps[i] = us[i]
        /\ \A i \in 1 .. Len(cwc) : Steps[Len(us) + i] = cwc[i]
    BY <1>1, <1>3, <1>7, Concat
  <2>2. Steps[2 + 1] = "close" /\ Steps[2 + 2] = "wait" /\ Steps[2 + 3] = "conn"
    BY <1>2, <2>1
  <2> QED
    BY <1>2, <2>1, <2>2
<1> QED
  BY <1>2, <1>3, <1>6, <1>7

\* The order of the steps: the channel is closed before the wait for its
\* readers, everybody is waited for before the connection is closed, and for
\* traces and logs the pushes are waited for before the last report.
LEMMA StepOrder ==
    ASSUME kind \in Kinds, down \in 0 .. Len(Steps)
    PROVE  /\ Len(Steps) \in Nat
           /\ AtStep("wait") => Done("close")
           /\ Done("conn") => Done("wait") /\ (kind = "metrics" => Done("waitReducer"))
           /\ kind \in {"traces", "logs"} /\ (Done("flush") \/ AtStep("flush")) => Done("wait")
<1>1. kind \in {"traces", "logs", "metrics", "meter"}
  BY ExportAssumption
<1>2. CASE kind \in {"traces", "logs"}
  BY <1>2, StepFacts DEF AtStep, Done
<1>3. CASE kind = "metrics"
  BY <1>3, StepFacts DEF AtStep, Done
<1>4. CASE kind = "meter"
  BY <1>4, StepFacts DEF AtStep, Done
<1> QED
  BY <1>1, <1>2, <1>3, <1>4

\* Steps is a function of kind, which never changes.
LEMMA AtStepDone ==
    ASSUME kind \in Kinds, down \in 0 .. Len(Steps), NEW s, AtStep(s), UNCHANGED kind
    PROVE  /\ down' \in 0 .. Len(Steps)'
           /\ \A x : Done(x)' <=> Done(x) \/ x = s
<1>1. Steps' = Steps /\ Len(Steps) \in Nat
  BY StepOrder DEF Steps
<1>2. down < Len(Steps) /\ Steps[down + 1] = s /\ down' = down + 1
  BY DEF AtStep
<1>3. down' \in 0 .. Len(Steps)'
  BY <1>1, <1>2
<1>4. ASSUME NEW x
      PROVE  Done(x)' <=> Done(x) \/ x = s
  <2>1. Done(x)' <=> \E i \in 1 .. down + 1 : Steps[i] = x
    BY <1>1, <1>2 DEF Done
  <2>2. 1 .. down + 1 = 1 .. down \cup {down + 1}
    BY <1>1
  <2> QED
    BY <1>2, <2>1, <2>2 DEF Done
<1> QED
  BY <1>3, <1>4

-----------------------------------------------------------------------------
(* What is kept stays kept *)

KeptGrows == \A t \in Tables : \A r : Kept(t, r) => Kept(t, r)'

\* A push gives up statements: their rows count as lost from then on.
LEMMA GiveUpKeeps ==
    ASSUME ExportTypeOK, UNCHANGED kind, NEW p \in Pushes, NEW ts \in SUBSET Tables,
           stored \subseteq stored',
           lost' = lost \cup UNION {{t} \X new[p][t] : t \in ts},
           new' = [new EXCEPT ![p] = [t \in Tables |-> IF t \in ts THEN {} ELSE @[t]]]
    PROVE  KeptGrows
<1> SUFFICES ASSUME NEW t \in Tables, NEW r, Kept(t, r)
             PROVE  Kept(t, r)'
  BY DEF KeptGrows
<1>1. Tables' = Tables /\ Cached(t)' = Cached(t)
  BY DEF Tables, Cached
<1>2. CASE <<t, r>> \in stored \/ <<t, r>> \in lost
  BY <1>1, <1>2 DEF Kept
<1>3. CASE Cached(t) /\ InFlight(t, r)
  <2>1. PICK q \in Pushes : r \in new[q][t]
    BY <1>3 DEF InFlight
  <2>2. CASE q = p /\ t \in ts
    <3>1. <<t, r>> \in {t} \X new[p][t]
      BY <2>1, <2>2
    <3>2. <<t, r>> \in lost'
      BY <2>2, <3>1
    <3> QED
      BY <1>1, <1>3, <3>2 DEF Kept
  <2>3. CASE ~(q = p /\ t \in ts)
    <3>1. new'[q][t] = new[q][t]
      BY <2>3 DEF ExportTypeOK
    <3> QED
      BY <1>1, <1>3, <2>1, <3>1 DEF Kept, InFlight
  <2> QED
    BY <2>2, <2>3
<1> QED
  BY <1>2, <1>3 DEF Kept

\* Nothing that Kept looks at is taken away.
LEMMA MoreKeeps ==
    ASSUME UNCHANGED kind, stored \subseteq stored', lost \subseteq lost',
           \A q \in Pushes : \A t \in Tables : new[q][t] \subseteq new'[q][t]
    PROVE  KeptGrows
<1> SUFFICES ASSUME NEW t \in Tables, NEW r, Kept(t, r)
             PROVE  Kept(t, r)'
  BY DEF KeptGrows
<1>1. Cached(t)' = Cached(t)
  BY DEF Cached
<1>2. InFlight(t, r) => InFlight(t, r)'
  BY DEF InFlight
<1> QED
  BY <1>1, <1>2 DEF Kept

\* Rows may leave the cache as long as those that are kept stay kept.
LEMMA CacheKeeps ==
    ASSUME UNCHANGED kind, CacheInv, KeptGrows, cache' \subseteq cache
    PROVE  CacheInv'
<1>1. Tables' = Tables /\ \A t : Cached(t)' = Cached(t)
  BY DEF Tables, Cached
<1> QED
  BY <1>1 DEF CacheInv, KeptGrows, CacheKey, RowsFor

\* The rows a push makes for a table are rows of that table.
LEMMA RowsTyped ==
    ASSUME ExportTypeOK, NEW p \in Pushes, NEW t \in Tables
    PROVE  Rows(p, t) \subseteq RowsFor(t)
<1>1. batch[p] \in {{}, Ruled}
  BY DEF ExportTypeOK
<1>2. CASE t = "series"
  BY <1>1, <1>2 DEF Rows, RowsFor, SeriesOf
<1>3. CASE t # "series"
  <2>1. Rows(p, t) \in {{}, {"shared"}, {p}}
    BY <1>3 DEF Rows
  <2> QED
    BY <1>3, <2>1 DEF RowsFor
<1> QED
  BY <1>2, <1>3

\* The part of the invariant about a push of which nothing changes.
SamePush(q) ==
    pc'[q] = pc[q] /\ st'[q] = st[q] /\ new'[q] = new[q] /\ batch'[q] = batch[q]

\* A push that a step leaves alone keeps its invariant.
LEMMA SamePushKeeps ==
    ASSUME UNCHANGED kind, KeptGrows, NEW q \in Pushes, PushInv(q), SamePush(q)
    PROVE  PushInv(q)'
<1> USE DEF SamePush
<1>1. /\ Tables' = Tables /\ \A t : Cached(t)' = Cached(t) /\ Critical(t)' = Critical(t)
  BY DEF Tables, Cached, Critical
<1>2. \A t \in Tables : InStage(q, t)' = InStage(q, t)
  BY <1>1 DEF InStage, Stage
<1>3. NewInv(q)'
  BY <1>1, <1>2 DEF PushInv, NewInv
<1>4. \A t \in Tables : Rows(q, t)' = Rows(q, t)
  BY <1>1 DEF Rows
<1>5. RowsInv(q)'
  BY <1>1, <1>4 DEF PushInv, RowsInv, KeptGrows
<1>6. StageInv(q)'
  BY <1>1 DEF PushInv, StageInv
<1> QED
  BY <1>3, <1>5, <1>6 DEF PushInv

-----------------------------------------------------------------------------
(* The steps of a push *)

\* What depends on the kind of exporter alone does not change.
LEMMA SameKind ==
    ASSUME UNCHANGED kind
    PROVE  /\ Tables' = Tables /\ Steps' = Steps /\ PollerCounted' = PollerCounted
           /\ \A t : Cached(t)' = Cached(t) /\ Critical(t)' = Critical(t)
           /\ \A l : Stage(l)' = Stage(l)
BY DEF Tables, Steps, PollerCounted, Cached, Critical, Stage

\* Shutdown takes no step; pushes begin to write only while the channel is open.
LEMMA SameDown ==
    ASSUME UNCHANGED <<kind, closed, conn, down>>, DownInv, ExportTypeOK, ExportTypeOK',
           poller' => poller, reducer' => reducer,
           \A p \in Pushes : Writing(p)' => Writing(p) \/ ~closed
    PROVE  DownInv'
<1>1. \A s : Done(s)' = Done(s)
  BY SameKind DEF Done
<1>2. PollerCounted' = PollerCounted
  BY SameKind
<1>3. (closed <=> Done("close"))' /\ (~conn <=> Done("conn"))'
  BY <1>1 DEF DownInv
<1>4. (reducer => kind = "metrics" /\ ~Done("waitReducer"))'
  BY <1>1 DEF DownInv
<1>5. ASSUME Done("wait")'
      PROVE  closed' /\ (PollerCounted' => ~poller') /\ \A p \in Pushes : ~Writing(p)'
  BY <1>1, <1>2, <1>5 DEF DownInv
<1> QED
  BY <1>3, <1>4, <1>5 DEF DownInv

\* Nothing is recorded or reported, and no push is acknowledged.
LEMMA SameUsage ==
    ASSUME UNCHANGED <<kind, recorded, reported, flushed, down>>, UsageInv,
           \A p \in Pushes : pc'[p] = "ok" <=> pc[p] = "ok"
    PROVE  UsageInv'
<1>1. \A s : Done(s)' = Done(s)
  BY SameKind DEF Done
<1>2. {p \in Pushes : pc'[p] = "ok"} = {p \in Pushes : pc[p] = "ok"}
  OBVIOUS
<1> QED
  BY <1>1, <1>2 DEF UsageInv

\* The statements of a push that writes nothing hold no rows.
LEMMA NoStatement ==
    ASSUME NEW p \in Pushes, ~Writing(p), NewInv(p)
    PROVE  \A t \in Tables : new[p][t] = {} /\ st[p][t] # "appended"
BY DEF NewInv, InStage, Writing

\* A call of a push begins, the first or a repeated one.
LEMMA EnterKeeps ==
    ASSUME ExportInv, NEW p \in Pushes, Enter(p)
    PROVE  ExportInv'
<1> USE DEF Enter, Goto, rowVars, usageVars, downVars
<1>1. ExportTypeOK'
  BY SameKind DEF ExportInv, ExportTypeOK, Pcs
<1>2. pc' = [pc EXCEPT ![p] = "entered"] /\ pc \in [Pushes -> Pcs] /\ ~Writing(p)
  BY DEF ExportInv, ExportTypeOK, Writing
<1>3. KeptGrows
  BY MoreKeeps
<1>4. CacheInv'
  BY <1>3, CacheKeeps DEF ExportInv
<1>5. ASSUME NEW q \in Pushes
      PROVE  PushInv(q)'
  <2>1. CASE q # p
    BY <1>2, <1>3, <2>1, SamePushKeeps DEF ExportInv, SamePush
  <2>2. CASE q = p
    <3>1. \A t \in Tables : new[p][t] = {} /\ st[p][t] # "appended"
      BY <1>2, NoStatement DEF ExportInv, PushInv
    <3>2. NewInv(p)'
      BY <3>1, SameKind DEF NewInv
    <3> QED
      BY <1>2, <2>2, <3>2 DEF PushInv, RowsInv, StageInv
  <2> QED
    BY <2>1, <2>2
<1>6. DownInv'
  BY <1>1, <1>2, SameDown DEF ExportInv, Writing
<1>7. UsageInv'
  BY <1>2, SameUsage DEF ExportInv
<1> QED
  BY <1>1, <1>4, <1>5, <1>6, <1>7 DEF ExportInv

\* A push goes on only if Shutdown has not closed the exporter.
LEMMA CheckOpenKeeps ==
    ASSUME ExportInv, NEW p \in Pushes, CheckOpen(p)
    PROVE  ExportInv'
<1> USE DEF CheckOpen, Goto, rowVars, usageVars, downVars
<1>1. ExportTypeOK'
  <2>1. st' \in [Pushes -> [Tables -> {"todo", "appended", "sent", "failed"}]]
    BY DEF ExportInv, ExportTypeOK
  <2>2. batch' \in [Pushes -> {{}, Ruled}] /\ pc' \in [Pushes -> Pcs]
    BY DEF ExportInv, ExportTypeOK, Pcs
  <2> QED
    BY <2>1, <2>2, SameKind DEF ExportInv, ExportTypeOK
<1>2. /\ pc \in [Pushes -> Pcs] /\ pc[p] = "entered" /\ ~Writing(p)
      /\ closed => pc' = [pc EXCEPT ![p] = "error"] /\ UNCHANGED <<batch, st>>
      /\ ~closed => /\ pc' = [pc EXCEPT ![p] = "write"]
                    /\ batch' = [batch EXCEPT ![p] = rules]
                    /\ st' = [st EXCEPT ![p] = [t \in Tables |-> "todo"]]
      /\ closed \in BOOLEAN
  BY DEF ExportInv, ExportTypeOK, Writing
<1>3. KeptGrows
  BY MoreKeeps
<1>4. CacheInv'
  BY <1>3, CacheKeeps DEF ExportInv
<1>5. ASSUME NEW q \in Pushes
      PROVE  PushInv(q)'
  <2>1. CASE q # p
    <3>1. SamePush(q)
      BY <1>2, <2>1 DEF ExportInv, ExportTypeOK, SamePush
    <3> QED
      BY <1>3, <3>1, SamePushKeeps DEF ExportInv
  <2>2. CASE q = p
    <3>1. \A t \in Tables : new[p][t] = {} /\ st[p][t] # "appended"
      BY <1>2, NoStatement DEF ExportInv, PushInv
    <3>2. \A t \in Tables : new'[p][t] = {} /\ st'[p][t] # "appended"
                            /\ (~closed => st'[p][t] = "todo")
      BY <1>2, <3>1 DEF ExportInv, ExportTypeOK
    <3>3. NewInv(p)'
      BY <3>2, SameKind DEF NewInv
    <3>4. RowsInv(p)'
      BY <1>2, <3>2, SameKind DEF RowsInv
    <3> QED
      BY <1>2, <2>2, <3>3, <3>4 DEF PushInv, StageInv
  <2> QED
    BY <2>1, <2>2
<1>6. DownInv'
  BY <1>1, <1>2, SameDown DEF ExportInv, Writing
<1>7. UsageInv'
  BY <1>2, SameUsage DEF ExportInv
<1> QED
  BY <1>1, <1>4, <1>5, <1>6, <1>7 DEF ExportInv

\* Rows that are not in the cache enter the statement and the cache.
LEMMA AppendCachedKeeps ==
    ASSUME ExportInv, NEW p \in Pushes, NEW t \in Tables, AppendCached(p, t)
    PROVE  ExportInv'
<1> USE DEF usageVars, downVars
<1> DEFINE rows == {r \in Rows(p, t) : CacheKey(t, r) \notin cache}
<1>1. /\ UNCHANGED <<kind, pc, tries, batch, stored, lost, rules, poller, reducer, faults>>
      /\ UNCHANGED <<recorded, reported, flushed, closed, conn, down>>
      /\ InStage(p, t) /\ Cached(t) /\ st[p][t] = "todo"
      /\ new' = [new EXCEPT ![p][t] = rows]
      /\ cache' = cache \cup {CacheKey(t, r) : r \in rows}
      /\ st' = [st EXCEPT ![p][t] = "appended"]
  BY DEF AppendCached
<1>2. /\ st \in [Pushes -> [Tables -> {"todo", "appended", "sent", "failed"}]]
      /\ new = [q \in Pushes |-> [u \in Tables |-> new[q][u]]]
  BY DEF ExportInv, ExportTypeOK
<1> HIDE DEF rows
<1>3. /\ st'[p][t] = "appended" /\ new'[p][t] = rows
      /\ \A u \in Tables \ {t} : st'[p][u] = st[p][u] /\ new'[p][u] = new[p][u]
      /\ \A q \in Pushes \ {p} : st'[q] = st[q] /\ new'[q] = new[q]
  BY <1>1, <1>2
<1>4. ExportTypeOK'
  <2>1. st' \in [Pushes -> [Tables -> {"todo", "appended", "sent", "failed"}]]
    BY <1>1, <1>2
  <2>2. new' = [q \in Pushes |-> [u \in Tables |-> new'[q][u]]]
    BY <1>1, <1>2
  <2> QED
    BY <1>1, <2>1, <2>2, SameKind DEF ExportInv, ExportTypeOK
<1>5. NewInv(p) /\ RowsInv(p) /\ StageInv(p) /\ CacheInv
  BY DEF ExportInv, PushInv
<1>6. new[p][t] = {}
  BY <1>1, <1>5 DEF NewInv
<1>7. KeptGrows
  BY <1>1, <1>3, <1>6, MoreKeeps
<1>8. \A r \in rows : Kept(t, r)'
  BY <1>1, <1>3, SameKind DEF Kept, InFlight
<1>9. CacheInv'
  <2> SUFFICES ASSUME NEW u \in Tables, NEW r \in RowsFor(u), Cached(u),
                      CacheKey(u, r) \in cache'
               PROVE  Kept(u, r)'
    BY <1>1, SameKind DEF CacheInv, RowsFor, CacheKey
  <2>1. CASE CacheKey(u, r) \in cache
    BY <1>5, <1>7, <2>1 DEF CacheInv, KeptGrows
  <2>2. CASE CacheKey(u, r) \notin cache
    <3>1. u = t /\ r \in rows
      BY <1>1, <2>2 DEF CacheKey
    <3> QED
      BY <1>8, <3>1
  <2> QED
    BY <2>1, <2>2
<1>10. \A r \in Rows(p, t) : Kept(t, r)'
  <2> SUFFICES ASSUME NEW r \in Rows(p, t)
               PROVE  Kept(t, r)'
    OBVIOUS
  <2>1. CASE r \in rows
    BY <1>8, <2>1
  <2>2. CASE r \notin rows
    <3>1. CacheKey(t, r) \in cache /\ r \in RowsFor(t)
      BY <2>2, RowsTyped DEF rows, ExportInv
    <3> QED
      BY <1>1, <1>5, <1>7, <3>1 DEF CacheInv, KeptGrows
  <2> QED
    BY <2>1, <2>2
<1>11. ASSUME NEW q \in Pushes
       PROVE  PushInv(q)'
  <2>1. CASE q # p
    <3>1. SamePush(q)
      BY <1>1, <1>3, <2>1 DEF SamePush
    <3> QED
      BY <1>1, <1>7, <3>1, SamePushKeeps DEF ExportInv
  <2>2. CASE q = p
    <3>1. \A u \in Tables : InStage(p, u)' = InStage(p, u) /\ Rows(p, u)' = Rows(p, u)
      BY <1>1, SameKind DEF InStage, Rows
    <3>2. NewInv(p)'
      BY <1>1, <1>3, <1>5, <3>1, SameKind DEF NewInv
    <3>3. RowsInv(p)'
      BY <1>1, <1>3, <1>5, <1>7, <1>10, <3>1, SameKind DEF RowsInv, KeptGrows
    <3>4. StageInv(p)'
      <4>1. pc[p] = "resources" => kind = "traces" /\ t = "resources"
        BY <1>1, <1>5 DEF InStage, Stage, StageInv
      <4>2. pc[p] # "ok"
        BY <1>1 DEF InStage
      <4> QED
        BY <1>1, <1>3, <1>5, <4>1, <4>2, SameKind DEF StageInv
    <3> QED
      BY <2>2, <3>2, <3>3, <3>4 DEF PushInv
  <2> QED
    BY <2>1, <2>2
<1>12. DownInv'
  BY <1>1, <1>4, SameDown DEF ExportInv, Writing
<1>13. UsageInv'
  BY <1>1, SameUsage DEF ExportInv
<1> QED
  BY <1>4, <1>9, <1>11, <1>12, <1>13 DEF ExportInv

\* The parts of the invariant that a step of a push leaves alone while it is
\* between CheckOpen and FinishWrite.
LEMMA MidPushKeeps ==
    ASSUME ExportInv, UNCHANGED <<kind, pc, batch, cache, rules, poller, reducer>>,
           UNCHANGED <<closed, conn, down, reported, flushed>>,
           recorded' \in Nat, kind # "metrics" => recorded' = recorded,
           st' \in [Pushes -> [Tables -> {"todo", "appended", "sent", "failed"}]],
           new' = [q \in Pushes |-> [u \in Tables |-> new'[q][u]]],
           KeptGrows, NEW p \in Pushes,
           \A q \in Pushes \ {p} : st'[q] = st[q] /\ new'[q] = new[q],
           PushInv(p)'
    PROVE  ExportInv'
<1>1. ExportTypeOK'
  BY SameKind DEF ExportInv, ExportTypeOK
<1>2. CacheInv'
  BY CacheKeeps DEF ExportInv
<1>3. ASSUME NEW q \in Pushes
      PROVE  PushInv(q)'
  <2>1. CASE q # p
    BY <2>1, SamePushKeeps DEF SamePush, ExportInv
  <2> QED
    BY <2>1
<1>4. DownInv'
  BY <1>1, SameDown DEF ExportInv, Writing
<1>5. UsageInv'
  <2>1. CASE kind = "metrics"
    <3>1. \A s : Done(s)' = Done(s)
      BY SameKind DEF Done
    <3> QED
      BY <2>1, <3>1 DEF ExportInv, UsageInv
  <2>2. CASE kind # "metrics"
    BY <2>2, SameUsage DEF ExportInv
  <2> QED
    BY <2>1, <2>2
<1> QED
  BY <1>1, <1>2, <1>3, <1>4, <1>5 DEF ExportInv

\* A push gives up statements: what the cache holds for them becomes lost.
LEMMA GiveUpPush ==
    ASSUME ExportInv, NEW p \in Pushes, NEW ts \in SUBSET Tables, GiveUp(p, ts),
           UNCHANGED <<kind, pc, tries, batch, cache, stored, rules, poller, reducer>>,
           UNCHANGED <<recorded, reported, flushed, closed, conn, down>>,
           Writing(p), pc[p] = "resources" => ts = {"resources"}
    PROVE  ExportInv'
<1>1. /\ st \in [Pushes -> [Tables -> {"todo", "appended", "sent", "failed"}]]
      /\ new = [q \in Pushes |-> [u \in Tables |-> new[q][u]]]
      /\ recorded \in Nat
  BY DEF ExportInv, ExportTypeOK
<1>2. /\ st' = [st EXCEPT ![p] = [t \in Tables |-> IF t \in ts THEN "failed" ELSE @[t]]]
      /\ lost' = lost \cup UNION {{t} \X new[p][t] : t \in ts}
      /\ new' = [new EXCEPT ![p] = [t \in Tables |-> IF t \in ts THEN {} ELSE @[t]]]
  BY DEF GiveUp
<1>3. KeptGrows
  BY <1>2, GiveUpKeeps DEF ExportInv
<1>4. /\ st' \in [Pushes -> [Tables -> {"todo", "appended", "sent", "failed"}]]
      /\ new' = [q \in Pushes |-> [u \in Tables |-> new'[q][u]]]
      /\ \A q \in Pushes \ {p} : st'[q] = st[q] /\ new'[q] = new[q]
      /\ \A u \in ts : st'[p][u] = "failed" /\ new'[p][u] = {}
      /\ \A u \in Tables \ ts : st'[p][u] = st[p][u] /\ new'[p][u] = new[p][u]
  BY <1>1, <1>2
<1>5. NewInv(p) /\ RowsInv(p) /\ StageInv(p)
  BY DEF ExportInv, PushInv
<1>6. \A u \in Tables : InStage(p, u)' = InStage(p, u) /\ Rows(p, u)' = Rows(p, u)
  BY SameKind DEF InStage, Rows
<1>7. NewInv(p)'
  BY <1>4, <1>5, <1>6, SameKind DEF NewInv
<1>8. RowsInv(p)'
  BY <1>3, <1>4, <1>5, <1>6, SameKind DEF RowsInv, KeptGrows
<1>9. StageInv(p)'
  BY <1>4, <1>5, SameKind DEF StageInv, Writing
<1> QED
  BY <1>1, <1>3, <1>4, <1>7, <1>8, <1>9, MidPushKeeps DEF PushInv

\* ClickHouse refuses to prepare a statement.
LEMMA PrepareFailsKeeps ==
    ASSUME ExportInv, NEW p \in Pushes, NEW t \in Tables, PrepareFails(p, t)
    PROVE  ExportInv'
<1>1. /\ InStage(p, t) /\ GiveUp(p, FailsWith(t))
      /\ UNCHANGED <<kind, pc, tries, batch, cache, stored, rules, poller, reducer>>
      /\ UNCHANGED <<recorded, reported, flushed, closed, conn, down>>
  BY DEF PrepareFails, usageVars, downVars
<1>2. FailsWith(t) \in SUBSET Tables
  BY TableFacts DEF FailsWith
<1>3. pc[p] = "resources" => FailsWith(t) = {"resources"}
  <2> SUFFICES ASSUME pc[p] = "resources"
               PROVE  FailsWith(t) = {"resources"}
    OBVIOUS
  <2>1. kind = "traces"
    BY DEF ExportInv, PushInv, StageInv
  <2> QED
    BY <1>1, <2>1 DEF FailsWith, InStage, Stage
<1>4. Writing(p)
  BY <1>1 DEF InStage, Writing
<1> QED
  BY <1>1, <1>2, <1>3, <1>4, GiveUpPush

\* Rows that were in flight are now in the table.
LEMMA SentKeeps ==
    ASSUME ExportTypeOK, UNCHANGED <<kind, lost>>, NEW p \in Pushes, NEW t \in Tables,
           stored' = stored \cup ({t} \X new[p][t]),
           new' = [new EXCEPT ![p][t] = {}]
    PROVE  KeptGrows
<1> SUFFICES ASSUME NEW u \in Tables, NEW r, Kept(u, r)
             PROVE  Kept(u, r)'
  BY DEF KeptGrows
<1>1. Cached(u)' = Cached(u)
  BY SameKind
<1>2. CASE Cached(u) /\ InFlight(u, r)
  <2>1. PICK q \in Pushes : r \in new[q][u]
    BY <1>2 DEF InFlight
  <2>2. CASE q = p /\ u = t
    <3>1. <<u, r>> \in {t} \X new[p][t]
      BY <2>1, <2>2
    <3> QED
      BY <3>1 DEF Kept
  <2>3. CASE ~(q = p /\ u = t)
    <3>1. new'[q][u] = new[q][u]
      BY <2>3 DEF ExportTypeOK
    <3> QED
      BY <1>1, <1>2, <2>1, <3>1 DEF Kept, InFlight
  <2> QED
    BY <2>2, <2>3
<1> QED
  BY <1>1, <1>2 DEF Kept

\* The statement of a cached table is sent, or fails.
LEMMA SendCachedKeeps ==
    ASSUME ExportInv, NEW p \in Pushes, NEW t \in Tables, SendCached(p, t)
    PROVE  ExportInv'
<1>1. /\ InStage(p, t) /\ Cached(t) /\ st[p][t] = "appended"
      /\ UNCHANGED <<kind, pc, tries, batch, cache, rules, poller, reducer>>
      /\ UNCHANGED <<recorded, reported, flushed, closed, conn, down>>
      /\ recorded \in Nat
  BY DEF SendCached, usageVars, downVars, ExportInv, ExportTypeOK
<1>2. NewInv(p) /\ RowsInv(p) /\ StageInv(p)
  BY DEF ExportInv, PushInv
<1>3. Writing(p) /\ (pc[p] = "resources" => t = "resources")
  BY <1>1, <1>2 DEF InStage, Stage, Writing, StageInv
<1>4. CASE GiveUp(p, {t}) /\ UNCHANGED stored
  BY <1>1, <1>3, <1>4, GiveUpPush
<1>5. CASE /\ st' = [st EXCEPT ![p][t] = "sent"]
           /\ stored' = stored \cup ({t} \X new[p][t])
           /\ new' = [new EXCEPT ![p][t] = {}]
           /\ UNCHANGED lost
  <2>1. /\ st \in [Pushes -> [Tables -> {"todo", "appended", "sent", "failed"}]]
        /\ new = [q \in Pushes |-> [u \in Tables |-> new[q][u]]]
    BY DEF ExportInv, ExportTypeOK
  <2>2. KeptGrows
    BY <1>1, <1>5, SentKeeps DEF ExportInv
  <2>3. /\ st' \in [Pushes -> [Tables -> {"todo", "appended", "sent", "failed"}]]
        /\ new' = [q \in Pushes |-> [u \in Tables |-> new'[q][u]]]
        /\ \A q \in Pushes \ {p} : st'[q] = st[q] /\ new'[q] = new[q]
        /\ st'[p][t] = "sent" /\ new'[p][t] = {}
        /\ \A u \in Tables \ {t} : st'[p][u] = st[p][u] /\ new'[p][u] = new[p][u]
    BY <1>5, <2>1
  <2>4. \A u \in Tables : InStage(p, u)' = InStage(p, u) /\ Rows(p, u)' = Rows(p, u)
    BY <1>1, SameKind DEF InStage, Rows
  <2>5. NewInv(p)'
    BY <1>1, <1>2, <2>3, <2>4, SameKind DEF NewInv
  <2>6. RowsInv(p)'
    BY <1>1, <1>2, <2>2, <2>3, <2>4, SameKind DEF RowsInv, KeptGrows
  <2>7. StageInv(p)'
    BY <1>1, <1>2, <1>3, <2>3, SameKind DEF StageInv, Writing
  <2> QED
    BY <1>1, <2>2, <2>3, <2>5, <2>6, <2>7, MidPushKeeps DEF PushInv
<1> QED
  BY <1>4, <1>5 DEF SendCached

\* The statements of the tables without a cache are sent, or fail.
LEMMA SendOthersKeeps ==
    ASSUME ExportInv, NEW p \in Pushes, SendOthers(p)
    PROVE  ExportInv'
<1> DEFINE others == {t \in Tables : InStage(p, t) /\ ~Cached(t) /\ st[p][t] = "todo"}
<1>1. /\ others # {}
      /\ UNCHANGED <<kind, pc, tries, batch, cache, rules, poller, reducer>>
      /\ UNCHANGED <<reported, flushed, closed, conn, down>>
      /\ recorded' \in {recorded, recorded + 1} /\ (kind # "metrics" => recorded' = recorded)
  BY DEF SendOthers, downVars
<1>2. PICK bad \in SUBSET others :
        /\ stored' = stored \cup UNION {{t} \X Rows(p, t) : t \in others \ bad}
        /\ LET given == bad \cup IF kind = "traces" /\ "tags" \in bad THEN {"keys"} ELSE {}
           IN  /\ st' = [st EXCEPT ![p] =
                          [t \in Tables |-> IF t \in given THEN "failed"
                                            ELSE IF t \in others THEN "sent" ELSE @[t]]]
               /\ lost' = lost \cup UNION {{t} \X new[p][t] : t \in given}
               /\ new' = [new EXCEPT ![p] = [t \in Tables |-> IF t \in given THEN {} ELSE @[t]]]
  BY DEF SendOthers
<1> DEFINE given == bad \cup IF kind = "traces" /\ "tags" \in bad THEN {"keys"} ELSE {}
<1>3. /\ st' = [st EXCEPT ![p] =
                  [t \in Tables |-> IF t \in given THEN "failed"
                                    ELSE IF t \in others THEN "sent" ELSE @[t]]]
      /\ lost' = lost \cup UNION {{t} \X new[p][t] : t \in given}
      /\ new' = [new EXCEPT ![p] = [t \in Tables |-> IF t \in given THEN {} ELSE @[t]]]
  BY <1>2
<1>4. /\ st \in [Pushes -> [Tables -> {"todo", "appended", "sent", "failed"}]]
      /\ new = [q \in Pushes |-> [u \in Tables |-> new[q][u]]]
      /\ recorded \in Nat
  BY DEF ExportInv, ExportTypeOK
<1>5. NewInv(p) /\ RowsInv(p) /\ StageInv(p)
  BY DEF ExportInv, PushInv
<1>6. others \subseteq Tables /\ given \in SUBSET Tables /\ others \ given \subseteq others \ bad
  BY TableFacts
<1>7. \A t \in others : st[p][t] = "todo" /\ ~Cached(t) /\ InStage(p, t)
  OBVIOUS
\* The resources of a trace have a cache.
<1>8. pc[p] = "write"
  <2>1. PICK t \in Tables : InStage(p, t) /\ ~Cached(t)
    BY <1>1
  <2>2. CASE pc[p] = "resources"
    <3>1. kind = "traces" /\ t = "resources"
      BY <1>5, <2>1, <2>2 DEF StageInv, InStage, Stage
    <3> QED
      BY <2>1, <3>1, TableFacts
  <2> QED
    BY <2>1, <2>2 DEF InStage
<1> HIDE DEF others, given
<1>9. /\ st' \in [Pushes -> [Tables -> {"todo", "appended", "sent", "failed"}]]
      /\ new' = [q \in Pushes |-> [u \in Tables |-> new'[q][u]]]
      /\ \A q \in Pushes \ {p} : st'[q] = st[q] /\ new'[q] = new[q]
      /\ \A u \in given : st'[p][u] = "failed" /\ new'[p][u] = {}
      /\ \A u \in Tables \ given : /\ st'[p][u] = IF u \in others THEN "sent" ELSE st[p][u]
                                   /\ new'[p][u] = new[p][u]
  BY <1>3, <1>4, <1>6
<1>10. KeptGrows
  BY <1>1, <1>2, <1>3, <1>6, GiveUpKeeps DEF ExportInv
<1>11. \A u \in Tables : InStage(p, u)' = InStage(p, u) /\ Rows(p, u)' = Rows(p, u)
  BY <1>1, SameKind DEF InStage, Rows
<1>12. NewInv(p)'
  BY <1>1, <1>5, <1>7, <1>9, <1>11, SameKind DEF NewInv
<1>13. ASSUME NEW u \in Tables, st'[p][u] \in {"appended", "sent"}, NEW r \in Rows(p, u)
       PROVE  Kept(u, r)'
  <2>1. u \notin given
    BY <1>9, <1>13
  <2>2. CASE u \in others
    <3>1. <<u, r>> \in {u} \X Rows(p, u)
      BY <1>13
    <3>2. <<u, r>> \in stored'
      BY <1>2, <1>6, <2>1, <2>2, <3>1
    <3> QED
      BY <3>2 DEF Kept
  <2>3. CASE u \notin others
    <3>1. st[p][u] \in {"appended", "sent"}
      BY <1>9, <1>13, <2>1, <2>3
    <3> QED
      BY <1>5, <1>8, <1>10, <1>13, <3>1 DEF RowsInv, KeptGrows
  <2> QED
    BY <2>2, <2>3
<1>14. RowsInv(p)'
  BY <1>1, <1>11, <1>13, SameKind DEF RowsInv
<1>15. StageInv(p)'
  BY <1>1, <1>8 DEF StageInv
<1> QED
  BY <1>1, <1>4, <1>9, <1>10, <1>12, <1>14, <1>15, MidPushKeeps DEF PushInv

\* A push ends a stage: nothing of it is in flight any more.
LEMMA StageEnds ==
    ASSUME ExportInv, NEW p \in Pushes, Writing(p), StageDone(p), NEW l \in Pcs,
           pc' = [pc EXCEPT ![p] = l],
           UNCHANGED <<kind, batch, st, new, cache, stored, lost, rules>>,
           UNCHANGED <<poller, reducer, closed, conn, down>>,
           recorded' \in {recorded, recorded + 1}, UNCHANGED <<reported, flushed>>,
           l \in {"error", "dropped", "ok"} \/ (pc[p] = "write" /\ l = "resources"),
           StageInv(p)', UsageInv'
    PROVE  ExportInv'
<1>1. ExportTypeOK'
  BY SameKind DEF ExportInv, ExportTypeOK
<1>2. pc'[p] = l /\ \A q \in Pushes \ {p} : pc'[q] = pc[q]
  BY DEF ExportInv, ExportTypeOK
<1>3. KeptGrows
  BY MoreKeeps
<1>4. CacheInv'
  BY <1>3, CacheKeeps DEF ExportInv
<1>5. ASSUME NEW q \in Pushes
      PROVE  PushInv(q)'
  <2>1. CASE q # p
    BY <1>2, <1>3, <2>1, SamePushKeeps DEF ExportInv, SamePush
  <2>2. CASE q = p
    <3>1. NewInv(p) /\ RowsInv(p)
      BY DEF ExportInv, PushInv
    <3>2. \A t \in Tables : st[p][t] # "appended" /\ new[p][t] = {}
      BY <3>1 DEF NewInv, InStage, StageDone
    <3>3. NewInv(p)'
      BY <3>2, SameKind DEF NewInv
    <3>4. \A t \in Tables : Rows(p, t)' = Rows(p, t)
      BY SameKind DEF Rows
    <3>5. RowsInv(p)'
      BY <1>3, <3>1, <3>4, SameKind DEF RowsInv, KeptGrows, Writing
    <3> QED
      BY <2>2, <3>3, <3>5 DEF PushInv
  <2> QED
    BY <2>1, <2>2
<1>6. DownInv'
  BY <1>1, <1>2, SameDown DEF ExportInv, Writing
<1> QED
  BY <1>1, <1>4, <1>5, <1>6 DEF ExportInv

\* After the last report of traces and logs no push writes.
LEMMA FlushIsLast ==
    ASSUME ExportInv, NEW p \in Pushes, Writing(p), kind \in {"traces", "logs"}
    PROVE  ~flushed
BY StepOrder DEF ExportInv, ExportTypeOK, UsageInv, DownInv

\* The first stage of a push ends: acknowledged, refused, dropped, or on to the
\* resources.
LEMMA FinishWriteKeeps ==
    ASSUME ExportInv, NEW p \in Pushes, FinishWrite(p)
    PROVE  ExportInv'
<1>1. /\ pc[p] = "write" /\ StageDone(p) /\ Writing(p)
      /\ UNCHANGED <<kind, batch, st, new, cache, stored, lost, rules>>
      /\ UNCHANGED <<poller, reducer, closed, conn, down, reported, flushed>>
      /\ recorded' = IF kind = "traces" \/ (kind = "logs" /\ ~StageFailed(p))
                     THEN recorded + 1 ELSE recorded
  BY DEF FinishWrite, Writing, rowVars, downVars
<1>2. PICK l \in Pcs :
        /\ pc' = [pc EXCEPT ![p] = l]
        /\ StageFailed(p) => l \in {"error", "dropped"}
        /\ ~StageFailed(p) => l = IF kind = "traces" THEN "resources" ELSE "ok"
  BY DEF FinishWrite, Goto, Pcs
<1>3. pc'[p] = l /\ \A q \in Pushes \ {p} : pc'[q] = pc[q]
  BY <1>2 DEF ExportInv, ExportTypeOK
<1>4. StageInv(p)'
  BY <1>1, <1>2, <1>3, SameKind DEF StageInv, StageFailed, StageDone, Stage
<1>5. \A s : Done(s)' = Done(s)
  BY <1>1, SameKind DEF Done
<1>6. (flushed => Done("flush") /\ (kind \in {"traces", "logs"} => reported = recorded))'
  BY <1>1, <1>5, FlushIsLast DEF ExportInv, UsageInv
<1>7. ASSUME kind = "logs"
      PROVE  recorded' = Cardinality({q \in Pushes : pc'[q] = "ok"})
  <2> DEFINE oks == {q \in Pushes : pc[q] = "ok"}
  <2>1. recorded = Cardinality(oks) /\ p \notin oks
    BY <1>1, <1>7 DEF ExportInv, UsageInv
  <2>2. IsFiniteSet(oks)
    BY ExportAssumption, FS_Subset
  <2>3. CASE StageFailed(p)
    <3>1. {q \in Pushes : pc'[q] = "ok"} = oks
      BY <1>1, <1>2, <1>3, <2>3
    <3> QED
      BY <1>1, <1>7, <2>1, <2>3, <3>1
  <2>4. CASE ~StageFailed(p)
    <3>1. {q \in Pushes : pc'[q] = "ok"} = oks \cup {p}
      BY <1>1, <1>2, <1>3, <1>7, <2>4
    <3>2. Cardinality(oks \cup {p}) = Cardinality(oks) + 1
      BY <2>1, <2>2, FS_AddElement
    <3> QED
      BY <1>1, <1>7, <2>1, <2>4, <3>1, <3>2
  <2> QED
    BY <2>3, <2>4
<1>8. UsageInv'
  BY <1>1, <1>6, <1>7 DEF UsageInv
<1>9. /\ recorded' \in {recorded, recorded + 1}
      /\ l \in {"error", "dropped", "ok"} \/ (pc[p] = "write" /\ l = "resources")
  BY <1>1, <1>2
<1> QED
  BY <1>1, <1>2, <1>4, <1>8, <1>9, StageEnds

\* The traces exporter's second stage ends.
LEMMA FinishResourcesKeeps ==
    ASSUME ExportInv, NEW p \in Pushes, FinishResources(p)
    PROVE  ExportInv'
<1>1. /\ pc[p] = "resources" /\ StageDone(p) /\ Writing(p)
      /\ UNCHANGED <<kind, batch, st, new, cache, stored, lost, rules>>
      /\ UNCHANGED <<poller, reducer, closed, conn, down, reported, flushed, recorded>>
  BY DEF FinishResources, Writing, rowVars, downVars, usageVars
<1>2. PICK l \in Pcs :
        /\ pc' = [pc EXCEPT ![p] = l] /\ l \in {"error", "ok"}
        /\ StageFailed(p) => l = "error"
  BY DEF FinishResources, Goto, Pcs
<1>3. pc'[p] = l /\ \A q \in Pushes \ {p} : pc'[q] = pc[q]
  BY <1>2 DEF ExportInv, ExportTypeOK
<1>4. StageInv(p) /\ kind = "traces"
  BY <1>1 DEF ExportInv, PushInv, StageInv
<1>5. StageInv(p)'
  BY <1>1, <1>2, <1>3, <1>4, SameKind DEF StageInv, StageFailed, StageDone, Stage
<1>6. UsageInv'
  <2>1. \A s : Done(s)' = Done(s)
    BY <1>1, SameKind DEF Done
  <2> QED
    BY <1>1, <1>4, <2>1 DEF ExportInv, UsageInv
<1>7. /\ recorded' \in {recorded, recorded + 1}
      /\ l \in {"error", "dropped", "ok"} \/ (pc[p] = "write" /\ l = "resources")
  BY <1>1, <1>2
<1> QED
  BY <1>1, <1>2, <1>5, <1>6, <1>7, StageEnds

\* A push of the logs exporter hangs: its statements are never sent.
LEMMA HangKeeps ==
    ASSUME ExportInv, NEW p \in Pushes, Hang(p)
    PROVE  ExportInv'
<1>1. /\ pc[p] = "write" /\ pc' = [pc EXCEPT ![p] = "hung"] /\ GiveUp(p, Tables)
      /\ UNCHANGED <<kind, batch, cache, stored, rules, poller, reducer>>
      /\ UNCHANGED <<recorded, reported, flushed, closed, conn, down>>
  BY DEF Hang, Goto, usageVars, downVars
<1>2. /\ pc \in [Pushes -> Pcs]
      /\ st \in [Pushes -> [Tables -> {"todo", "appended", "sent", "failed"}]]
      /\ new = [q \in Pushes |-> [u \in Tables |-> new[q][u]]]
  BY DEF ExportInv, ExportTypeOK
<1>3. /\ st' = [st EXCEPT ![p] = [t \in Tables |-> IF t \in Tables THEN "failed" ELSE @[t]]]
      /\ lost' = lost \cup UNION {{t} \X new[p][t] : t \in Tables}
      /\ new' = [new EXCEPT ![p] = [t \in Tables |-> IF t \in Tables THEN {} ELSE @[t]]]
  BY <1>1 DEF GiveUp
<1>4. KeptGrows
  BY <1>1, <1>3, GiveUpKeeps DEF ExportInv
<1>5. /\ pc' \in [Pushes -> Pcs] /\ pc'[p] = "hung"
      /\ \A q \in Pushes \ {p} : pc'[q] = pc[q]
  BY <1>1, <1>2 DEF Pcs
<1>6. /\ st' \in [Pushes -> [Tables -> {"todo", "appended", "sent", "failed"}]]
      /\ new' = [q \in Pushes |-> [u \in Tables |-> new'[q][u]]]
      /\ \A q \in Pushes \ {p} : st'[q] = st[q] /\ new'[q] = new[q]
      /\ \A u \in Tables : st'[p][u] = "failed" /\ new'[p][u] = {}
  BY <1>2, <1>3
<1>7. ExportTypeOK'
  BY <1>1, <1>5, <1>6, SameKind DEF ExportInv, ExportTypeOK
<1>8. CacheInv'
  BY <1>1, <1>4, CacheKeeps DEF ExportInv
<1>9. ASSUME NEW q \in Pushes
      PROVE  PushInv(q)'
  <2>1. CASE q # p
    BY <1>1, <1>4, <1>5, <1>6, <2>1, SamePushKeeps DEF ExportInv, SamePush
  <2>2. CASE q = p
    BY <1>1, <1>5, <1>6, <2>2, SameKind DEF PushInv, NewInv, RowsInv, StageInv
  <2> QED
    BY <2>1, <2>2
<1>10. DownInv'
  BY <1>1, <1>5, <1>7, SameDown DEF ExportInv, Writing
<1>11. UsageInv'
  <2>1. {q \in Pushes : pc'[q] = "ok"} = {q \in Pushes : pc[q] = "ok"}
    BY <1>1, <1>5
  <2>2. \A s : Done(s)' = Done(s)
    BY <1>1, SameKind DEF Done
  <2> QED
    BY <1>1, <2>1, <2>2 DEF ExportInv, UsageInv
<1> QED
  BY <1>7, <1>8, <1>9, <1>10, <1>11 DEF ExportInv

-----------------------------------------------------------------------------
(* The background work and Shutdown *)

\* A step of neither a push nor a statement.
LEMMA PushesKept ==
    ASSUME ExportInv, UNCHANGED <<kind, pc, batch, st, new, stored, lost>>, cache' \subseteq cache
    PROVE  CacheInv' /\ \A q \in Pushes : PushInv(q)'
<1>1. KeptGrows
  BY MoreKeeps
<1>2. CacheInv'
  BY <1>1, CacheKeeps DEF ExportInv
<1> QED
  BY <1>1, <1>2, SamePushKeeps DEF ExportInv, SamePush

\* The cache forgets its rows.
LEMMA ExpireKeeps ==
    ASSUME ExportInv, Expire
    PROVE  ExportInv'
<1> USE DEF Expire, pushVars, usageVars, downVars
<1>1. ExportTypeOK'
  BY SameKind DEF ExportInv, ExportTypeOK
<1>2. DownInv'
  BY <1>1, SameDown DEF ExportInv, Writing
<1>3. UsageInv'
  BY SameUsage DEF ExportInv
<1> QED
  BY <1>1, <1>2, <1>3, PushesKept DEF ExportInv

\* The pollers and the reduced usage reporter.
LEMMA BackgroundKeeps ==
    ASSUME ExportInv, Poll \/ PollerEnds \/ ReducerEnds
    PROVE  ExportInv'
<1>1. /\ UNCHANGED <<kind, pc, batch, st, new, cache, stored, lost>>
      /\ UNCHANGED <<recorded, reported, flushed, closed, conn, down>>
      /\ rules' \in {{}, Ruled} /\ poller' \in {poller, FALSE} /\ reducer' \in {reducer, FALSE}
  BY DEF Poll, PollerEnds, ReducerEnds, pushVars, rowVars, usageVars, downVars,
         ExportInv, ExportTypeOK
<1>2. ExportTypeOK'
  BY <1>1, SameKind DEF ExportInv, ExportTypeOK
<1>3. DownInv'
  <2>1. (poller' => poller) /\ (reducer' => reducer)
    BY DEF Poll, PollerEnds, ReducerEnds
  <2> QED
    BY <1>1, <1>2, <2>1, SameDown DEF ExportInv, Writing
<1>4. UsageInv'
  BY <1>1, SameUsage DEF ExportInv
<1> QED
  BY <1>1, <1>2, <1>3, <1>4, PushesKept DEF ExportInv

\* The usage collector reports what was recorded.
LEMMA ReportKeeps ==
    ASSUME ExportInv, Report
    PROVE  ExportInv'
<1>1. /\ UNCHANGED <<kind, pc, batch, st, new, cache, stored, lost, rules, poller, reducer>>
      /\ UNCHANGED <<recorded, flushed, closed, conn, down>>
      /\ reported' = recorded /\ ~Done("flush")
  BY DEF Report, pushVars, rowVars, downVars
<1>2. ExportTypeOK'
  BY <1>1, SameKind DEF ExportInv, ExportTypeOK
<1>3. DownInv'
  BY <1>1, <1>2, SameDown DEF ExportInv, Writing
<1>4. UsageInv'
  BY <1>1 DEF ExportInv, UsageInv
<1> QED
  BY <1>1, <1>2, <1>3, <1>4, PushesKept DEF ExportInv

\* Shutdown's last report of the usage.
LEMMA FlushKeeps ==
    ASSUME ExportInv, Flush
    PROVE  ExportInv'
<1>1. /\ UNCHANGED <<kind, pc, batch, st, new, cache, stored, lost, rules, poller, reducer>>
      /\ UNCHANGED <<recorded, closed, conn>> /\ AtStep("flush")
      /\ \/ reported' = recorded /\ flushed' = TRUE
         \/ UNCHANGED <<reported, flushed>>
  BY DEF Flush, pushVars, rowVars
<1>2. /\ down' \in 0 .. Len(Steps)'
      /\ \A x : Done(x)' <=> Done(x) \/ x = "flush"
  BY <1>1, AtStepDone DEF ExportInv, ExportTypeOK
<1>3. ExportTypeOK'
  BY <1>1, <1>2, SameKind DEF ExportInv, ExportTypeOK
<1>4. DownInv'
  BY <1>1, <1>2, SameKind DEF ExportInv, DownInv, Writing
<1>5. UsageInv'
  BY <1>1, <1>2 DEF ExportInv, UsageInv
<1> QED
  BY <1>1, <1>3, <1>4, <1>5, PushesKept DEF ExportInv

\* The steps of Shutdown that only wait or close.
LEMMA ShutdownKeeps ==
    ASSUME ExportInv, WaitReducer \/ CloseChan \/ WaitGroup \/ CloseConn
    PROVE  ExportInv'
<1>1. /\ UNCHANGED <<kind, pc, batch, st, new, cache, stored, lost, rules, poller, reducer>>
      /\ UNCHANGED <<recorded, reported, flushed>>
      /\ closed' \in BOOLEAN /\ conn' \in BOOLEAN
  BY DEF WaitReducer, CloseChan, WaitGroup, CloseConn, pushVars, rowVars, usageVars,
         ExportInv, ExportTypeOK
<1>2. PICK s \in Labels \ {"flush"} : AtStep(s)
  BY DEF WaitReducer, CloseChan, WaitGroup, CloseConn, Labels
<1>3. /\ down' \in 0 .. Len(Steps)'
      /\ \A x : Done(x)' <=> Done(x) \/ x = s
  BY <1>1, <1>2, AtStepDone DEF ExportInv, ExportTypeOK
<1>4. ExportTypeOK'
  BY <1>1, <1>3, SameKind DEF ExportInv, ExportTypeOK
<1>5. UsageInv'
  BY <1>1, <1>3 DEF ExportInv, UsageInv
<1>6. DownInv'
  <2> DEFINE D(x) == AtStep(x) => \A y : Done(y)' <=> Done(y) \/ y = x
  <2>1. D("waitReducer") /\ D("close") /\ D("wait") /\ D("conn")
    BY <1>1, AtStepDone DEF ExportInv, ExportTypeOK
  <2>2. CASE WaitReducer
    BY <1>1, <2>1, <2>2, SameKind DEF WaitReducer, ExportInv, DownInv, Writing
  <2>3. CASE CloseChan
    BY <1>1, <2>1, <2>3, SameKind DEF CloseChan, ExportInv, DownInv, Writing
  <2>4. CASE WaitGroup
    <3>1. closed
      BY <2>4, StepOrder DEF WaitGroup, ExportInv, ExportTypeOK, DownInv
    <3> QED
      BY <1>1, <2>1, <2>4, <3>1, SameKind DEF WaitGroup, ExportInv, DownInv, Writing, InPush
  <2>5. CASE CloseConn
    BY <1>1, <2>1, <2>5, SameKind DEF CloseConn, ExportInv, DownInv, Writing
  <2> QED
    BY <2>2, <2>3, <2>4, <2>5
<1> QED
  BY <1>1, <1>4, <1>5, <1>6, PushesKept DEF ExportInv

-----------------------------------------------------------------------------
(* The invariant *)

\* The invariant holds initially.
LEMMA ExportInit == Init => ExportInv
<1> SUFFICES ASSUME Init
             PROVE  ExportInv
  OBVIOUS
<1> USE DEF Init, NoRows
<1>1. Len(Steps) \in Nat /\ \A s : ~Done(s)
  <2>1. Len(Steps) \in Nat
    BY StepFacts, ExportAssumption
  <2> QED
    BY <2>1 DEF Done
<1>2. ExportTypeOK
  <2>1. rules \in {{}, Ruled}
    OBVIOUS
  <2>2. /\ pc \in [Pushes -> Pcs] /\ batch \in [Pushes -> {{}, Ruled}]
        /\ st \in [Pushes -> [Tables -> {"todo", "appended", "sent", "failed"}]]
    BY <2>1 DEF Pcs
  <2>3. new = [p \in Pushes |-> [t \in Tables |-> new[p][t]]]
    OBVIOUS
  <2>4. poller \in BOOLEAN /\ reducer \in BOOLEAN
    OBVIOUS
  <2>5. kind \in Kinds /\ flushed \in BOOLEAN /\ closed \in BOOLEAN /\ conn \in BOOLEAN
    OBVIOUS
  <2>6. recorded \in Nat /\ reported \in Nat
    OBVIOUS
  <2>7. down \in 0 .. Len(Steps)
    BY <1>1
  <2> QED
    BY <2>1, <2>2, <2>3, <2>4, <2>5, <2>6, <2>7 DEF ExportTypeOK
<1>3. CacheInv
  BY DEF CacheInv
<1>4. \A p \in Pushes : PushInv(p)
  BY DEF PushInv, NewInv, RowsInv, StageInv
<1>5. DownInv
  BY <1>1 DEF DownInv, Writing
<1>6. UsageInv
  <2>1. {p \in Pushes : pc[p] = "ok"} = {}
    OBVIOUS
  <2> QED
    BY <2>1, FS_EmptySet DEF UsageInv
<1> QED
  BY <1>2, <1>3, <1>4, <1>5, <1>6 DEF ExportInv

\* Every step keeps the invariant.
LEMMA ExportNext == ExportInv /\ [Next]_vars => ExportInv'
<1> SUFFICES ASSUME ExportInv, [Next]_vars
             PROVE  ExportInv'
  OBVIOUS
<1>1. ASSUME NEW p \in Pushes,
             Enter(p) \/ PushStep(p) \/ Hang(p) \/ \E t \in Tables : PrepareFails(p, t)
      PROVE  ExportInv'
  <2>1. CASE Enter(p)
    BY <2>1, EnterKeeps
  <2>2. CASE CheckOpen(p)
    BY <2>2, CheckOpenKeeps
  <2>3. CASE SendOthers(p)
    BY <2>3, SendOthersKeeps
  <2>4. CASE FinishWrite(p)
    BY <2>4, FinishWriteKeeps
  <2>5. CASE FinishResources(p)
    BY <2>5, FinishResourcesKeeps
  <2>6. ASSUME NEW t \in Tables, AppendCached(p, t) \/ SendCached(p, t) \/ PrepareFails(p, t)
        PROVE  ExportInv'
    BY <2>6, AppendCachedKeeps, SendCachedKeeps, PrepareFailsKeeps
  <2>7. CASE Hang(p)
    BY <2>7, HangKeeps
  <2> QED
    BY <1>1, <2>1, <2>2, <2>3, <2>4, <2>5, <2>6, <2>7 DEF PushStep
<1>2. CASE Expire
  BY <1>2, ExpireKeeps
<1>3. CASE Poll \/ PollerEnds \/ ReducerEnds
  BY <1>3, BackgroundKeeps
<1>4. CASE Report
  BY <1>4, ReportKeeps
<1>5. CASE Shutdown
  BY <1>5, FlushKeeps, ShutdownKeeps DEF Shutdown
<1>6. CASE UNCHANGED vars
  <2> USE <1>6 DEF vars, pushVars, rowVars, usageVars, downVars
  <2>1. ExportTypeOK'
    BY SameKind DEF ExportInv, ExportTypeOK
  <2>2. DownInv'
    BY <2>1, SameDown DEF ExportInv, Writing
  <2>3. UsageInv'
    BY SameUsage DEF ExportInv
  <2> QED
    BY <2>1, <2>2, <2>3, PushesKept DEF ExportInv
<1> QED
  BY <1>1, <1>2, <1>3, <1>4, <1>5, <1>6 DEF Next

\* The inductive invariant holds in every state of the exporters.
THEOREM ExportInvariant == Spec => []ExportInv
<1> QED
  BY ExportInit, ExportNext, PTL DEF Spec

\* A push is acknowledged only with its rows in every table whose errors count,
\* or held by the cache for another statement, however many pushes share the
\* caches and whatever fails: pushTraceDataV3, pushLogsData, writeBatch.
THEOREM AckedIsStoredTheorem == Spec => []AckedIsStored
<1>1. ExportInv => AckedIsStored
  BY DEF ExportInv, PushInv, StageInv, RowsInv, Kept, AckedIsStored
<1> QED
  BY <1>1, ExportInvariant, PTL

\* The connection is closed after the last push, the reduced usage reporter and
\* the pollers wg counts: the order of the steps in each Shutdown, and the look
\* at closeChan before a push writes.
THEOREM ConnectionOutlivesUsersTheorem == Spec => []ConnectionOutlivesUsers
<1>1. ExportInv => ConnectionOutlivesUsers
  BY StepOrder DEF ExportInv, ExportTypeOK, DownInv, ConnectionOutlivesUsers, Writing
<1> QED
  BY <1>1, ExportInvariant, PTL

\* The usage of traces and logs is complete after a shutdown whose last insert
\* succeeded, and logs counts a batch once: Stop comes after wg.Wait.
THEOREM UsageReportedTheorem == Spec => []UsageReported
<1>1. ExportInv => UsageReported
  BY DEF ExportInv, UsageInv, UsageReported
<1> QED
  BY <1>1, ExportInvariant, PTL

-----------------------------------------------------------------------------
(* The series of a batch *)

\* A set of natural numbers that is not empty has a least element.
LEMMA Least ==
    ASSUME NEW T, T \subseteq Nat, T # {}
    PROVE  \E x \in T : \A y \in T : x <= y
<1>1. PICK x \in T : \A y \in T : <<y, x>> \notin OpToRel(<, Nat)
  BY NatLessThanWellFounded, WFMin
<1>2. \A y \in T : ~(y < x)
  BY <1>1 DEF OpToRel
<1> QED
  BY <1>2

\* Every sample of a metric has its series in the same batch: firstSeen writes
\* the row of a reduced series with the first point that has it.
LEMMA SampleHasSeries ==
    ASSUME NEW m \in Metrics, NEW rs, NEW s \in Samples(m, rs)
    PROVE  /\ [fp |-> s.fp, hour |-> s.hour, reduced |-> FALSE] \in TimeSeries(m, rs)
           /\ s.reduced # NoFingerprint =>
                rs # {} /\ \E r \in TimeSeries(m, rs) : r.fp = s.reduced /\ r.reduced
<1>1. [fp |-> s.fp, hour |-> s.hour, reduced |-> FALSE] \in TimeSeries(m, rs)
  BY DEF TimeSeries, RawSeries
<1>2. ASSUME s.reduced # NoFingerprint
      PROVE  rs # {} /\ \E r \in TimeSeries(m, rs) : r.fp = s.reduced /\ r.reduced
  <2> DEFINE flats == UNION {{i} \X FlatSamples(m, m.points[i]) : i \in Points(m)}
  <2>1. PICK q \in flats : s.reduced = Reduced(m, m.points[q[1]], q[2], rs)
    BY DEF Samples
  <2>2. PICK i \in Points(m) : q \in {i} \X FlatSamples(m, m.points[i])
    BY <2>1
  <2>3. PICK f \in FlatSamples(m, m.points[i]) : q = <<i, f>>
    BY <2>2
  <2> DEFINE J == {j \in Points(m) : /\ f \in FlatSamples(m, m.points[j])
                                     /\ Reduced(m, m.points[j], f, rs) = s.reduced}
  <2>4. J \subseteq Nat /\ i \in J
    BY <2>1, <2>3, ExportAssumption DEF Points
  <2>5. PICK j \in J : \A k \in J : j <= k
    BY <2>4, Least
  <2>6. j \in Points(m) /\ f \in FlatSamples(m, m.points[j])
        /\ Reduced(m, m.points[j], f, rs) = s.reduced
    BY <2>5
  <2>7. IsReduced(m, m.points[j], f, rs)
    BY <1>2, <2>6 DEF Reduced
  <2>8. \A k \in Points(m) : k < j /\ f \in FlatSamples(m, m.points[k]) =>
            Reduced(m, m.points[k], f, rs) # Reduced(m, m.points[j], f, rs)
    BY <2>4, <2>5, <2>6
  <2> DEFINE r == [fp |-> Reduced(m, m.points[j], f, rs), hour |-> m.points[j].hour,
                   reduced |-> TRUE]
  <2>9. r \in ReducedSeries(m, rs)
    <3> DEFINE w == <<j, f>>
    <3>1. w \in flats /\ w[1] = j /\ w[2] = f
      BY <2>6
    <3> QED
      BY <2>7, <2>8, <3>1 DEF ReducedSeries
  <2>10. rs # {}
    BY <2>7 DEF IsReduced
  <2>11. r.fp = s.reduced /\ r.reduced
    BY <2>6
  <2> QED
    BY <2>9, <2>10, <2>11 DEF TimeSeries
<1> QED
  BY <1>1, <1>2

\* An acknowledged batch has the series of every sample, and of every reduced
\* sample the reduced series, for any metrics, labels, hours and rules: what
\* prepareBatch makes of a batch and what writeTimeSeries leaves out.
THEOREM SamplesHaveSeriesTheorem == Spec => []SamplesHaveSeries
<1>1. ASSUME ExportInv
      PROVE  SamplesHaveSeries
  <2> SUFFICES ASSUME kind = "metrics", NEW p \in Pushes, pc[p] = "ok",
                      NEW s \in SamplesOf(batch[p])
               PROVE  /\ Accounted("series", [fp |-> s.fp, hour |-> s.hour, reduced |-> FALSE])
                      /\ s.reduced # NoFingerprint => HasReducedSeries(s.reduced)
    BY DEF SamplesHaveSeries
  <2> DEFINE rs == batch[p]
  <2>1. rs \in {{}, Ruled}
    BY <1>1 DEF ExportInv, ExportTypeOK
  <2>2. SamplesOf(rs) = PreparedSamples(rs) /\ SeriesOf(rs) = PreparedSeries(rs)
    BY <2>1 DEF SamplesOf, SeriesOf, PlainSamples, RuledSamples, PlainSeries, RuledSeries
  <2>3. PICK m \in Metrics : s \in Samples(m, rs)
    BY <2>2 DEF PreparedSamples
  <2>4. TimeSeries(m, rs) \subseteq SeriesOf(rs)
    BY <2>2 DEF PreparedSeries
  <2>5. "series" \in Tables /\ Critical("series") /\ Rows(p, "series") = SeriesOf(rs)
    BY TableFacts DEF Rows
  <2>6. \A r \in SeriesOf(rs) : Accounted("series", r)
    BY <1>1, <2>5 DEF ExportInv, PushInv, StageInv, RowsInv, Kept, Accounted
  <2>7. ASSUME s.reduced # NoFingerprint
        PROVE  HasReducedSeries(s.reduced)
    <3>1. PICK r \in TimeSeries(m, rs) : rs # {} /\ r.fp = s.reduced /\ r.reduced
      BY <2>3, <2>7, SampleHasSeries
    <3>2. r \in RuledSeries
      BY <2>4, <3>1 DEF SeriesOf
    <3> QED
      BY <2>4, <2>6, <3>1, <3>2 DEF HasReducedSeries
  <2> QED
    BY <2>3, <2>4, <2>6, <2>7, SampleHasSeries
<1> QED
  BY <1>1, ExportInvariant, PTL

=============================================================================
