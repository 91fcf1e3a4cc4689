--------------------------- MODULE MetadataExport ---------------------------
(***************************************************************************)
(* The metadata exporter (exporter/metadataexporter): a push turns spans,   *)
(* data points or log records into rows, a resource with a set of           *)
(* attributes in a window of six hours, and writes those rows whose         *)
(* resource and attributes the key cache does not know.  Pushes run         *)
(* concurrently; the cache is in memory (a TTL cache of sets, one lock per  *)
(* set) or in Redis (one command at a time).                                *)
(*                                                                         *)
(* One attribute stands for the attributes of a record, so that a record    *)
(* makes a pair of a resource with a value, or with NoValue when the        *)
(* attribute was left out.  Time is relative: the window of a row is how    *)
(* many windows it lies in the past.  The three kinds of signals have       *)
(* caches of their own; signal is the one that is pushed.  Every push of a  *)
(* goroutine carries the same records, with time stamps of its window.      *)
(***************************************************************************)
EXTENDS Integers, Sequences, FiniteSets, SequencesExt

CONSTANTS
    Pushes,         \* goroutines of the exporter's queue
    Configs,        \* set of [provider, signal, limits, batch, busy, faults]:
                    \* limits holds for each signal a record [resources, attrs,
                    \* total], batch for each goroutine a sequence of records
                    \* [res, value]; busy says whether the attribute has many
                    \* values elsewhere and pauses long enough for the value
                    \* tracker; faults bounds the commands that fail
    NoValue,
    Nil,            \* no item, no set, no resource
    Attached,       \* the item that the cache holds
    MaxDistinct     \* max_string_distinct_values

Records == UNION {ToSet(c.batch[p]) : c \in Configs, p \in Pushes}
Resources == {r.res : r \in Records}
Values == {r.value : r \in Records} \cup {NoValue}
Pairs == Resources \X Values
SetIds == 1 .. Cardinality(Resources) + 3 * Cardinality(Pushes)

ASSUME MetadataAssumption ==
    /\ IsFiniteSet(Pushes) /\ Pushes # {}
    /\ IsFiniteSet(Resources) /\ IsFiniteSet(Values)
    /\ \A c \in Configs :
          /\ c.provider \in {"in_memory", "redis"} /\ c.busy \in BOOLEAN /\ c.faults \in Nat
          /\ c.limits[c.signal].attrs \in Nat /\ c.limits[c.signal].resources \in Nat
          /\ \A p \in Pushes : c.batch[p] \in Seq(Records)
    /\ MaxDistinct \in Nat \ {0}
    /\ Nil \notin SetIds /\ Nil \notin Resources
    /\ Attached \notin SetIds /\ Attached # Nil

VARIABLES
    cfg,            \* the configuration
    cache,          \* resource -> the set in its item, or Nil
    age,            \* resource -> windows since the item was set
    heap,           \* the sets: their values, and who holds their lock
    tracker,        \* values seen of the attribute, least recently used first
    skipFromDB,     \* the last query found more distinct values than the limit
    push,           \* where each push is
    stored,         \* pairs that have a row in the table
    lost,           \* pair -> window of the newest row of it in a statement that
                    \* failed and was not followed by the same row, or one of a
                    \* later window; Earlier stands for all but the current one
    faults

vars == <<cfg, cache, age, heap, tracker, skipFromDB, push, stored, lost, faults>>

provider == cfg.provider
signal == cfg.signal
limits == cfg.limits
BatchOf(p) == cfg.batch[p]

Current == 0
Earlier == 1
Never == 2

EmptySet == [attrs |-> {}, writer |-> FALSE, readers |-> 0]

Idle == [at |-> "idle", age |-> Current, rows |-> {}, todo |-> {}, keys |-> {}, sum |-> 0,
         res |-> Nil, left |-> {}, new |-> {}, entry |-> Nil, lock |-> Nil,
         unlock |-> Nil, batch |-> {}]

Init ==
    /\ cfg \in Configs
    /\ cache = [r \in Resources |-> Nil] /\ age = [r \in Resources |-> Current]
    /\ heap = [i \in SetIds |-> EmptySet]
    /\ tracker = <<>> /\ skipFromDB = FALSE
    /\ push = [p \in Pushes |-> Idle]
    /\ stored = {} /\ lost = [x \in Pairs |-> Never]
    /\ faults = 0

-----------------------------------------------------------------------------
(* The cache *)

Cached == {r \in Resources : cache[r] # Nil}
AttrsOf(r) == IF cache[r] = Nil THEN {} ELSE heap[cache[r]].attrs

\* entry.Value(): the set that the item of the push holds now.  Setting a key
\* again replaces the set in the item of the key.
Value(p) == IF push[p].entry = Attached THEN cache[push[p].res] ELSE push[p].entry

InUse(i) == \/ \E r \in Resources : cache[r] = i
            \/ \E p \in Pushes : i \in {push[p].entry, push[p].lock, push[p].unlock}

\* Sets that nobody refers to any more are collected.
Swept(h) == [i \in SetIds |-> IF InUse(i)' THEN h[i] ELSE EmptySet]
Fresh(i) == ~InUse(i) /\ \A j \in SetIds : j < i => InUse(j)

\* The cache in memory compares with the limits of traces, whatever the signal;
\* only AddAttrsToResource takes those of the signal.
LimitSignal == IF provider = "redis" THEN signal ELSE "traces"

ResourcesLimitExceeded == Cardinality(Cached) >= limits[LimitSignal].resources

CardinalityLimitExceeded(r) ==
    Cardinality(AttrsOf(r)) >= limits[LimitSignal].attrs

Alive == \A p \in Pushes : push[p].at # "dead"

\* Pushes that hold the item keep it, with the set it had.
ExpireItem(r) ==
    /\ cache' = [cache EXCEPT ![r] = Nil] /\ age' = [age EXCEPT ![r] = Current]
    /\ push' = [p \in Pushes |-> IF push[p].res = r /\ push[p].entry = Attached
                                 THEN [push[p] EXCEPT !.entry = cache[r]] ELSE push[p]]
    /\ heap' = Swept(heap)
    /\ UNCHANGED <<cfg, tracker, skipFromDB, stored, lost, faults>>

\* Mutant: every access prolongs the TTL, and pushes keep accessing.
Expire_TouchOnHit(r) ==
    /\ Alive /\ provider = "in_memory" /\ age[r] = Earlier
    /\ \A p \in Pushes : \A i \in DOMAIN BatchOf(p) : BatchOf(p)[i].res # r
    /\ ExpireItem(r)

\* An item in memory reaches its TTL, which no access prolongs: six hours after
\* it was set, so in the window after that one.
Expire(r) ==
    /\ Alive /\ provider = "in_memory" /\ age[r] = Earlier
    /\ ExpireItem(r)

\* The next window of six hours begins: what was of the current window is of the
\* one before.  In Redis the names of all keys change; an addition under way
\* goes to the old ones.  A push takes less than a window.
WindowTurns ==
    /\ Alive
    /\ \A r \in Resources : age[r] = Current
    /\ \A p \in Pushes : push[p].age = Current
    /\ IF provider = "redis"
       THEN cache' = [r \in Resources |-> Nil] /\ UNCHANGED age
       ELSE /\ age' = [r \in Resources |-> IF cache[r] = Nil THEN Current ELSE Earlier]
            /\ UNCHANGED cache
    /\ push' = [p \in Pushes |->
                  IF push[p].at = "idle" THEN push[p]
                  ELSE [push[p] EXCEPT !.age = Earlier,
                           !.entry = IF provider = "redis" THEN Nil ELSE @]]
    /\ lost' = [x \in Pairs |-> IF lost[x] = Current THEN Earlier ELSE lost[x]]
    /\ heap' = Swept(heap)
    /\ UNCHANGED <<cfg, tracker, skipFromDB, stored, faults>>

-----------------------------------------------------------------------------
(* filterAttrs and the skip lists *)

\* ValueTracker.AddValue: an LRU cache of max_string_distinct_values entries.
AddValue(t, v) ==
    LET used == Append(Remove(t, v), v)
    IN  IF Len(used) > MaxDistinct THEN Tail(used) ELSE used

\* shouldSkipAttributeUVT
SkipByTracker(t) == Len(t) > MaxDistinct

\* One record after the other: seen[i] is the tracker after i records.
FilterAttrs(records) ==
    LET skips(t) == skipFromDB \/ SkipByTracker(t)
        seen[i \in 0 .. Len(records)] ==
            IF i = 0 THEN tracker
            ELSE IF skips(seen[i - 1]) THEN seen[i - 1]
            ELSE AddValue(seen[i - 1], records[i].value)
    IN  [tracker |-> seen[Len(records)],
         rows |-> {<<records[i].res,
                     IF skips(seen[i - 1]) THEN NoValue ELSE records[i].value>> :
                   i \in 1 .. Len(records)}]

\* updateTagValueCountFromDB, on its ticker, and the comparison with the limit in
\* shouldSkipAttributeFromDB.  The counts are those of the tag_attributes tables,
\* which the exporters of logs and traces fill; a failed query leaves them.
UpdateTagValueCount ==
    /\ Alive /\ cfg.busy
    /\ skipFromDB' \in BOOLEAN
    /\ UNCHANGED <<cfg, cache, age, heap, tracker, push, stored, lost, faults>>

TrackerEntryExpires ==
    /\ Alive /\ cfg.busy /\ tracker # <<>>
    /\ tracker' = <<>>
    /\ UNCHANGED <<cfg, cache, age, heap, skipFromDB, push, stored, lost, faults>>

-----------------------------------------------------------------------------
(* PushTraces, PushMetrics, PushLogs and writeToStatementBatch *)

Set(p, s) == push' = [push EXCEPT ![p] = s]
At(p, at) == push[p].at = at
ValuesOf(p, r) == {x[2] : x \in {y \in push[p].rows : y[1] = r}}

Fault == faults < cfg.faults /\ faults' = faults + 1

\* The process ends, and with it the pushes under way and what it has in memory.
Crash ==
    /\ push' = [q \in Pushes |-> [Idle EXCEPT !.at = "dead"]]
    /\ cache' = [r \in Resources |-> Nil] /\ age' = [r \in Resources |-> Current]
    /\ heap' = [i \in SetIds |-> EmptySet]
    /\ tracker' = <<>> /\ skipFromDB' = FALSE
    /\ UNCHANGED <<cfg, stored, lost, faults>>

\* The statement is prepared, or the push is given up with a message; then the
\* rows are made, of the current window, and duplicates removed.
Begin(p) ==
    /\ At(p, "idle")
    /\ LET filtered == FilterAttrs(BatchOf(p)) IN
       /\ tracker' = filtered.tracker
       /\ Set(p, [Idle EXCEPT !.at = "limits", !.rows = filtered.rows])
    /\ UNCHANGED <<cfg, cache, age, heap, skipFromDB, stored, lost, faults>>

PrepareFails(p) ==
    /\ At(p, "idle") /\ Fault
    /\ UNCHANGED <<cfg, cache, age, heap, tracker, skipFromDB, push, stored, lost>>

\* A push beyond the limit on resources is dropped.  The in-memory total is
\* that of the traces cache, which a push of another signal leaves empty.
CheckResources(p) ==
    /\ At(p, "limits")
    /\ IF ResourcesLimitExceeded
       THEN Set(p, Idle)
       ELSE Set(p, [push[p] EXCEPT !.at = "total",
                       !.keys = IF provider = "in_memory" /\ signal = "traces"
                                THEN Cached ELSE {}])
    /\ UNCHANGED <<cfg, cache, age, heap, tracker, skipFromDB, stored, lost, faults>>

\* TotalCardinalityLimitExceeded in memory adds up the sets of the keys that it
\* has listed, one by one; in Redis it counts the values of the window.
Total(p) == IF provider = "redis"
            THEN Cardinality(UNION {AttrsOf(r) : r \in Resources})
            ELSE push[p].sum
TotalLimit == IF provider = "redis" THEN limits[signal].total
              ELSE limits["traces"].attrs

AddUpEntry(p) ==
    /\ At(p, "total")
    /\ \E r \in push[p].keys :
          /\ cache[r] # Nil
          /\ Set(p, [push[p] EXCEPT !.keys = @ \ {r},
                                    !.sum = @ + Cardinality(AttrsOf(r))])
    /\ UNCHANGED <<cfg, cache, age, heap, tracker, skipFromDB, stored, lost, faults>>

\* A key that has expired since has no item: the nil pointer ends the process.
Panic(p) ==
    /\ At(p, "total")
    /\ \E r \in push[p].keys : cache[r] = Nil
    /\ Crash

CheckTotal(p) ==
    /\ At(p, "total") /\ push[p].keys = {}
    /\ IF Total(p) >= TotalLimit
       THEN Set(p, Idle)
       ELSE Set(p, [push[p] EXCEPT !.at = "groups", !.sum = 0, !.todo =
                       {r \in {row[1] : row \in push[p].rows} :
                           ~CardinalityLimitExceeded(r)}])
    /\ UNCHANGED <<cfg, cache, age, heap, tracker, skipFromDB, stored, lost, faults>>

NextGroup(p) == [push[p] EXCEPT !.at = "groups", !.res = Nil, !.left = {}, !.new = {},
                                !.entry = Nil, !.lock = Nil, !.unlock = Nil]

\* What is new is appended to the statement, and then added to the cache.
AppendNew(p, r, new) ==
    IF new = {} THEN NextGroup(p)
    ELSE [NextGroup(p) EXCEPT !.at = "add", !.res = r, !.new = new,
                              !.batch = @ \cup ({r} \X new)]

\* AttrsExistForResource, for one resource after the other in the order of a
\* map.  In memory the item is fetched and its lock asked for; in Redis one
\* command answers.
FindNew(p) ==
    /\ At(p, "groups")
    /\ \E r \in push[p].todo :
          LET rest == push[p].todo \ {r} IN
          Set(p, IF provider = "redis" \/ cache[r] = Nil
                 THEN [AppendNew(p, r, ValuesOf(p, r) \ AttrsOf(r)) EXCEPT !.todo = rest]
                 ELSE [push[p] EXCEPT !.at = "rlock", !.todo = rest, !.res = r,
                          !.left = ValuesOf(p, r), !.entry = Attached, !.lock = cache[r]])
    /\ UNCHANGED <<cfg, cache, age, heap, tracker, skipFromDB, stored, lost, faults>>

\* Redis cannot be asked: the resource is passed over.
FindNewFails(p) ==
    /\ At(p, "groups") /\ provider = "redis" /\ Fault
    /\ \E r \in push[p].todo : Set(p, [push[p] EXCEPT !.todo = @ \ {r}])
    /\ UNCHANGED <<cfg, cache, age, heap, tracker, skipFromDB, stored, lost>>

\* A writer that waits goes before the readers that come.  The deferred unlock
\* is of the set that the item holds once the lock is taken.
RLock(p) ==
    /\ At(p, "rlock")
    /\ ~heap[push[p].lock].writer
    /\ \A q \in Pushes : At(q, "wait") => push[q].lock # push[p].lock
    /\ UNCHANGED <<cfg, cache, age, tracker, skipFromDB, stored, lost, faults>>
    /\ Set(p, [push[p] EXCEPT !.at = "read", !.lock = Nil, !.unlock = Value(p)])
    /\ heap' = Swept([heap EXCEPT ![push[p].lock].readers = @ + 1])

\* The values are looked up one by one; the lock is released with the last.
Lookup(p) ==
    /\ At(p, "read")
    /\ UNCHANGED <<cfg, cache, age, tracker, skipFromDB, stored, lost, faults>>
    /\ \E v \in push[p].left :
          LET rest == push[p].left \ {v}
              new == IF v \in heap[Value(p)].attrs THEN push[p].new ELSE push[p].new \cup {v}
          IN
          IF rest # {}
          THEN Set(p, [push[p] EXCEPT !.left = rest, !.new = new]) /\ UNCHANGED heap
          ELSE /\ heap[push[p].unlock].readers > 0
               /\ Set(p, AppendNew(p, push[p].res, new))
               /\ heap' = Swept([heap EXCEPT ![push[p].unlock].readers = @ - 1])

\* AddAttrsToResource in memory.  An item is looked up, then made if there is
\* room for one: two pushes may both make it.
FindEntry(p) ==
    /\ At(p, "add") /\ provider = "in_memory"
    /\ LET set == cache[push[p].res] IN
       Set(p, IF set # Nil
              THEN [push[p] EXCEPT !.at = "wait", !.entry = Attached, !.lock = set]
              ELSE IF Cardinality(Cached) >= limits[signal].resources
              THEN NextGroup(p)
              ELSE [push[p] EXCEPT !.at = "make"])
    /\ UNCHANGED <<cfg, cache, age, heap, tracker, skipFromDB, stored, lost, faults>>

\* The set is put into the item of the key, if it has one by now, and pushes that
\* hold that item work on the new set from here on.  So do those that hold an
\* expired item that was not removed yet.
MakeEntry(p) ==
    /\ At(p, "make")
    /\ \E i \in SetIds, removed \in BOOLEAN :
          LET r == push[p].res
              held(q) == push[q].res = r /\ push[q].entry # Nil /\ ~removed
          IN
          /\ Fresh(i)
          /\ cache' = [cache EXCEPT ![r] = i] /\ age' = [age EXCEPT ![r] = Current]
          /\ push' = [q \in Pushes |->
                        IF q = p THEN [push[p] EXCEPT !.at = "lock", !.entry = Attached]
                        ELSE IF held(q) THEN [push[q] EXCEPT !.entry = Attached]
                        ELSE push[q]]
          /\ heap' = Swept([heap EXCEPT ![i] = EmptySet])
    /\ UNCHANGED <<cfg, tracker, skipFromDB, stored, lost, faults>>

AskLock(p) ==
    /\ At(p, "lock")
    /\ Set(p, [push[p] EXCEPT !.at = "wait", !.lock = Value(p)])
    /\ UNCHANGED <<cfg, cache, age, heap, tracker, skipFromDB, stored, lost, faults>>

Lock(p) ==
    /\ At(p, "wait")
    /\ ~heap[push[p].lock].writer /\ heap[push[p].lock].readers = 0
    /\ UNCHANGED <<cfg, cache, age, tracker, skipFromDB, stored, lost, faults>>
    /\ Set(p, [push[p] EXCEPT !.at = "test", !.lock = Nil, !.unlock = Value(p)])
    /\ heap' = Swept([heap EXCEPT ![push[p].lock].writer = TRUE])

\* Mutant: the limit of the set is not tested.
Test_Unlimited(p) ==
    /\ At(p, "test")
    /\ Set(p, [push[p] EXCEPT !.at = "fill", !.left = push[p].new])
    /\ UNCHANGED <<cfg, cache, age, heap, tracker, skipFromDB, stored, lost, faults>>

\* Under the lock; an error is only logged.
Test(p) ==
    /\ At(p, "test")
    /\ UNCHANGED <<cfg, cache, age, tracker, skipFromDB, stored, lost, faults>>
    /\ IF Cardinality(heap[Value(p)].attrs) + Cardinality(push[p].new) > limits[signal].attrs
       THEN /\ heap[push[p].unlock].writer
            /\ Set(p, NextGroup(p))
            /\ heap' = Swept([heap EXCEPT ![push[p].unlock].writer = FALSE])
       ELSE Set(p, [push[p] EXCEPT !.at = "fill", !.left = push[p].new]) /\ UNCHANGED heap

\* Each value goes to the set that the item holds at that moment; the lock is
\* released with the last.
Fill(p) ==
    /\ At(p, "fill")
    /\ UNCHANGED <<cfg, cache, age, tracker, skipFromDB, stored, lost, faults>>
    /\ \E v \in push[p].left :
          LET rest == push[p].left \ {v}
              filled == [heap EXCEPT ![Value(p)].attrs = @ \cup {v}]
          IN
          IF rest # {}
          THEN Set(p, [push[p] EXCEPT !.left = rest]) /\ heap' = filled
          ELSE /\ heap[push[p].unlock].writer
               /\ Set(p, NextGroup(p))
               /\ heap' = Swept([filled EXCEPT ![push[p].unlock].writer = FALSE])

\* The set was replaced between the lock and the deferred unlock: what is
\* unlocked is not locked, which ends the process.
UnlockOfUnlocked(p) ==
    /\ \/ At(p, "read") /\ heap[push[p].unlock].readers = 0
       \/ push[p].at \in {"test", "fill"} /\ ~heap[push[p].unlock].writer
    /\ Crash

\* Or two pushes are at the map of one set, and the runtime finds out.
ConcurrentMapAccess(p) ==
    /\ At(p, "fill")
    /\ \E q \in Pushes \ {p} : push[q].at \in {"read", "fill"} /\ Value(q) = Value(p)
    /\ Crash

\* AddAttrsToResource with Redis: the names of the keys are made and the limits
\* read, even if the resource is known; then the pipeline of the additions is
\* executed.
RedisCheck(p) ==
    /\ At(p, "add") /\ provider = "redis"
    /\ Set(p, IF \/ Cardinality(Cached) >= limits[signal].resources
                 \/ Cardinality(AttrsOf(push[p].res)) + Cardinality(push[p].new)
                        > limits[signal].attrs
              THEN NextGroup(p)
              ELSE [push[p] EXCEPT !.at = "pipe", !.entry = Attached])
    /\ UNCHANGED <<cfg, cache, age, heap, tracker, skipFromDB, stored, lost, faults>>

RedisAdd(p) ==
    /\ At(p, "pipe")
    /\ IF push[p].entry = Nil
       THEN UNCHANGED <<cache, heap>>      \* to the keys of the window before
       ELSE \E i \in SetIds :
               LET r == push[p].res IN
               /\ IF cache[r] = Nil THEN Fresh(i) ELSE i = cache[r]
               /\ cache' = [cache EXCEPT ![r] = i]
               /\ heap' = [heap EXCEPT ![i] =
                              [EmptySet EXCEPT !.attrs = AttrsOf(r) \cup push[p].new]]
    /\ Set(p, NextGroup(p))
    /\ UNCHANGED <<cfg, age, tracker, skipFromDB, stored, lost, faults>>

RedisAddFails(p) ==
    /\ At(p, "pipe") /\ Fault
    /\ Set(p, NextGroup(p))
    /\ UNCHANGED <<cfg, cache, age, heap, tracker, skipFromDB, stored, lost>>

\* Mutant: an empty statement is sent instead of the one with the rows.
Send_Empty(p) ==
    /\ At(p, "groups") /\ push[p].todo = {}
    /\ Set(p, Idle)
    /\ UNCHANGED <<cfg, cache, age, heap, tracker, skipFromDB, stored, lost, faults>>

\* The statement is sent last, after the cache has been told of its rows, each
\* of which has the window of the push.
Send(p) ==
    /\ At(p, "groups") /\ push[p].todo = {}
    /\ stored' = stored \cup push[p].batch
    /\ lost' = [x \in Pairs |-> IF x \in push[p].batch /\ push[p].age <= lost[x]
                                THEN Never ELSE lost[x]]
    /\ Set(p, Idle)
    /\ UNCHANGED <<cfg, cache, age, heap, tracker, skipFromDB, faults>>

\* An error is logged; the push returns nil, so that nothing is tried again.
SendFails(p) ==
    /\ At(p, "groups") /\ push[p].todo = {} /\ Fault
    /\ lost' = [x \in Pairs |-> IF x \in push[p].batch /\ push[p].age < lost[x]
                                THEN push[p].age ELSE lost[x]]
    /\ Set(p, Idle)
    /\ UNCHANGED <<cfg, cache, age, heap, tracker, skipFromDB, stored>>

Step(p) ==
    \/ Begin(p) \/ CheckResources(p) \/ AddUpEntry(p) \/ CheckTotal(p)
    \/ Panic(p) \/ FindNew(p) \/ RLock(p) \/ Lookup(p)
    \/ FindEntry(p) \/ MakeEntry(p) \/ AskLock(p) \/ Lock(p) \/ Test(p)
    \/ Fill(p) \/ UnlockOfUnlocked(p)
    \/ RedisCheck(p) \/ RedisAdd(p) \/ Send(p)

Next ==
    \/ \E p \in Pushes :
          \/ Step(p) \/ PrepareFails(p) \/ FindNewFails(p)
          \/ RedisAddFails(p) \/ SendFails(p) \/ ConcurrentMapAccess(p)
    \/ \E r \in Resources : Expire(r)
    \/ WindowTurns \/ UpdateTagValueCount \/ TrackerEntryExpires

\* Telemetry with the same attributes keeps arriving, pushes get on, items
\* reach their TTL and time passes.
Fairness ==
    /\ \A p \in Pushes : WF_vars(Step(p))
    /\ \A r \in Resources : WF_vars(Expire(r))
    /\ WF_vars(WindowTurns)

Spec == Init /\ [][Next]_vars /\ Fairness

-----------------------------------------------------------------------------
(* Properties *)

Lost == {x \in Pairs : lost[x] # Never}

\* A pair that the cache knows, and that is therefore not written again, has a
\* row in the table, in the statement of a push under way, or in a statement
\* that failed.  Whatever the order of look-ups, additions, items that expire or
\* are set again, and windows that end while a push is under way.
KnownIsWritten ==
    \A r \in Resources : \A v \in AttrsOf(r) :
        <<r, v>> \in stored \cup Lost \cup UNION {push[p].batch : p \in Pushes}

\* The cache in memory is bounded, though not by its limits: pushes that set an
\* item at the same time may each have tested another set than the one they add
\* to, so that a set holds up to its limit for each of them; and the number of
\* resources exceeds theirs by at most one for every other push that has passed
\* the test.
CacheIsBounded ==
    provider = "in_memory" =>
        /\ \A r \in Resources :
              Cardinality(AttrsOf(r)) <= limits[signal].attrs * Cardinality(Pushes)
        /\ Cardinality(Cached) <= limits[signal].resources + Cardinality(Pushes) - 1

\* A pair whose row was in a statement that failed stays unwritten as long as
\* the cache knows it, but not for ever: pushes that find the pair do not prolong
\* the TTL of its item.  What is written in the end is in general a row of a
\* later window; the window of the statement that failed may keep its hole.  Only
\* if no limit is reached, the attribute is not left out and the process lives.
LostIsWritten ==
    (\E x \in Lost : x[2] # NoValue) ~>
        \/ \A x \in Lost : x[2] = NoValue
        \/ skipFromDB
        \/ ~Alive
        \/ \E s \in {signal, "traces"} :
              \/ limits[s].resources <= Cardinality(Resources)
              \/ limits[s].attrs <= Cardinality(Records)
=============================================================================
