------------------------ MODULE MetadataExportProofs ------------------------
(***************************************************************************)
(* Proofs about MetadataExport, for any number of pushes, records, limits   *)
(* and faults: what the cache knows is written, and the cache in memory is  *)
(* bounded.                                                                 *)
(***************************************************************************)
EXTENDS MetadataExport, FiniteSetTheorems, TLAPS

-----------------------------------------------------------------------------
(* The invariant *)

\* Where a push holds an item, and where it adds to the cache.
Holding == {"rlock", "read", "lock", "wait", "test", "fill"}
Adding == {"add", "make", "lock", "wait", "test", "fill", "pipe"}
Ats == {"idle", "limits", "total", "groups", "dead"} \cup Holding \cup Adding

SetRecord == [attrs : SUBSET Values, writer : BOOLEAN, readers : Nat]
PushState == [at : Ats, age : {Current, Earlier}, rows : SUBSET Pairs,
              todo : SUBSET Resources, keys : SUBSET Resources, sum : Nat,
              res : Resources \cup {Nil}, left : SUBSET Values, new : SUBSET Values,
              entry : SetIds \cup {Nil, Attached}, lock : SetIds \cup {Nil},
              unlock : SetIds \cup {Nil}, batch : SUBSET Pairs]

CfgOK == cfg \in Configs
CacheOK == cache \in [Resources -> SetIds \cup {Nil}]
HeapOK == heap \in [SetIds -> SetRecord]
PushOK == push \in [Pushes -> PushState]
LostOK == lost \in [Pairs -> {Current, Earlier, Never}]

\* No two resources share a set.
OneOwner ==
    \A r, q \in Resources : cache[r] = cache[q] /\ cache[r] # Nil => r = q

\* The state s of a push: what it adds to the cache is in its statement, which is
\* empty at first; it has passed the test of the limit when it adds.
StateInv(s) ==
    /\ s.at \in Adding => s.res \in Resources /\ \A v \in s.new : <<s.res, v>> \in s.batch
    /\ s.at \in Holding \cup {"make"} => provider = "in_memory" /\ s.res \in Resources
    /\ s.at \in Holding => s.entry \in SetIds \cup {Attached}
    /\ s.at \notin Holding \cup {"pipe"} => s.entry = Nil
    /\ s.at = "pipe" => provider = "redis" /\ s.entry \in {Nil, Attached}
    /\ s.at \in {"rlock", "wait"} => s.lock \in SetIds
    /\ s.at \in {"read", "test", "fill"} => s.unlock \in SetIds
    /\ s.at = "fill" => s.left \subseteq s.new /\ Cardinality(s.left) <= limits[signal].attrs
    /\ s.at \in {"idle", "limits", "total", "dead"} => s.batch = {}

\* The item it holds is that of the cache, or an expired one, whose set the
\* cache does not have any more.
ItemInv(s) ==
    /\ s.entry = Attached /\ provider = "in_memory" => cache[s.res] # Nil
    /\ s.entry \in SetIds => \A r \in Resources : cache[r] # s.entry

TypesInv ==
    /\ CfgOK /\ CacheOK /\ HeapOK /\ PushOK /\ LostOK /\ OneOwner
    /\ \A p \in Pushes : StateInv(push[p]) /\ ItemInv(push[p])

\* Pushes that have passed the test of the number of resources.
Makers == {p \in Pushes : push[p].at = "make"}

\* What pushes that have passed the test of a set will still add to the item of
\* r, be it the set that they have tested or not.
Filling(s, r) == s.at = "fill" /\ s.entry = Attached /\ s.res = r
PendingOf(P, r) == {x \in Pushes \X Values : Filling(P[x[1]], r) /\ x[2] \in P[x[1]].left}
Pending(r) == PendingOf(push, r)

AttrsBounded ==
    provider = "in_memory" =>
        \A r \in Resources : Cardinality(AttrsOf(r)) + Cardinality(Pending(r))
                                 <= limits[signal].attrs * Cardinality(Pushes)
ResourcesBounded ==
    provider = "in_memory" =>
        Cardinality(Cached) + Cardinality(Makers)
            <= limits[signal].resources + Cardinality(Pushes) - 1

MetadataInv == TypesInv /\ KnownIsWritten /\ AttrsBounded /\ ResourcesBounded

-----------------------------------------------------------------------------
(* Lemmas *)

\* The rows that FilterAttrs makes of a batch.
LEMMA FilterFacts ==
    ASSUME CfgOK, NEW p \in Pushes
    PROVE  LET rows == FilterAttrs(BatchOf(p)).rows
           IN  rows \subseteq Pairs
<1> DEFINE records == cfg.batch[p]
           skips(t) == skipFromDB \/ SkipByTracker(t)
           seen == CHOOSE f : f = [i \in 0 .. Len(records) |->
                       IF i = 0 THEN tracker
                       ELSE IF skips(f[i - 1]) THEN f[i - 1]
                       ELSE AddValue(f[i - 1], records[i].value)]
           row(i) == <<records[i].res, IF skips(seen[i - 1]) THEN NoValue ELSE records[i].value>>
           rows == {row(i) : i \in 1 .. Len(records)}
<1>1. records \in Seq(Records) /\ Len(records) \in Nat
  BY MetadataAssumption DEF CfgOK
<1>2. FilterAttrs(BatchOf(p)).rows = rows
  BY DEF FilterAttrs, BatchOf
<1>3. ASSUME NEW i \in 1 .. Len(records) PROVE row(i) \in Pairs
  <2>1. records[i] \in Records
    BY <1>1
  <2>2. records[i].res \in Resources /\ records[i].value \in Values
    BY <2>1 DEF Resources, Values
  <2> HIDE DEF seen
  <2> QED BY <2>2 DEF Pairs, Values
<1> QED BY <1>2, <1>3

\* If each of the pushes Q has at most n values, together they have at most n
\* for each of them.
LEMMA SumBound ==
    ASSUME NEW Q \in SUBSET Pushes, NEW f \in [Pushes -> SUBSET Values], NEW n \in Nat,
           \A q \in Q : Cardinality(f[q]) <= n
    PROVE  LET S == {x \in Q \X Values : x[2] \in f[x[1]]}
           IN  IsFiniteSet(S) /\ Cardinality(S) <= Cardinality(Q) * n
<1> DEFINE S == {x \in Q \X Values : x[2] \in f[x[1]]}
           B(q) == Bijection(f[q], 1 .. Cardinality(f[q]))
           g == [q \in Q |-> CHOOSE b \in B(q) : TRUE]
           h == [x \in S |-> <<x[1], g[x[1]][x[2]]>>]
<1>1. ASSUME NEW q \in Q
      PROVE  IsFiniteSet(f[q]) /\ Cardinality(f[q]) \in Nat /\ g[q] \in B(q)
  <2>1. f[q] \in SUBSET Values /\ IsFiniteSet(Values)
    BY MetadataAssumption
  <2>2. IsFiniteSet(f[q]) /\ Cardinality(f[q]) \in Nat
    BY <2>1, FS_Subset, FS_CardinalityType
  <2>3. IsFiniteSet(1 .. Cardinality(f[q])) /\ Cardinality(1 .. Cardinality(f[q])) = Cardinality(f[q])
    <3> DEFINE m == Cardinality(f[q])
    <3>1. m \in Nat /\ m \in Int /\ 1 \in Int
      BY <2>2
    <3> HIDE DEF m
    <3>2. IsFiniteSet(1 .. m) /\ Cardinality(1 .. m) = IF 1 > m THEN 0 ELSE m - 1 + 1
      BY <3>1, FS_Interval
    <3>3. Cardinality(1 .. m) = m
      BY <3>1, <3>2
    <3> QED BY <3>2, <3>3 DEF m
  <2>4. ExistsBijection(f[q], 1 .. Cardinality(f[q]))
    BY <2>2, <2>3, FS_SameCardinalityBij
  <2>5. B(q) # {}
    BY <2>4 DEF ExistsBijection
  <2> HIDE DEF B
  <2>6. g[q] \in B(q)
    BY <2>5
  <2> QED BY <2>2, <2>6
<1>2. ASSUME NEW x \in S
      PROVE  /\ x[1] \in Q /\ x = <<x[1], x[2]>> /\ x[2] \in f[x[1]]
             /\ g[x[1]][x[2]] \in 1 .. n
             /\ \A v \in f[x[1]] : g[x[1]][v] = g[x[1]][x[2]] => v = x[2]
  <2>1. x[1] \in Q /\ x = <<x[1], x[2]>> /\ x[2] \in f[x[1]]
    OBVIOUS
  <2>2. /\ g[x[1]] \in B(x[1]) /\ Cardinality(f[x[1]]) \in Nat /\ Cardinality(f[x[1]]) <= n
    BY <1>1, <2>1
  <2> DEFINE b == g[x[1]]
  <2>3. /\ b \in [f[x[1]] -> 1 .. Cardinality(f[x[1]])]
        /\ \A v, w \in f[x[1]] : b[v] = b[w] => v = w
    <3> HIDE DEF g
    <3> QED BY <2>2 DEF Bijection, Injection, IsInjective
  <2> HIDE DEF b
  <2>4. b[x[2]] \in 1 .. n /\ \A v \in f[x[1]] : b[v] = b[x[2]] => v = x[2]
    BY <2>1, <2>2, <2>3
  <2> QED BY <2>1, <2>4 DEF b
<1> HIDE DEF g, S
<1>3. h \in Injection(S, Q \X (1 .. n))
  <2>1. h \in [S -> Q \X (1 .. n)]
    BY <1>2
  <2>2. ASSUME NEW x \in S, NEW y \in S, h[x] = h[y] PROVE x = y
    <3>1. x[1] = y[1] /\ g[x[1]][x[2]] = g[y[1]][y[2]]
      BY <2>2
    <3>2. x[2] = y[2]
      BY <1>2, <3>1
    <3> QED BY <1>2, <3>1, <3>2
  <2> QED BY <2>1, <2>2 DEF Injection, IsInjective
<1>4. /\ IsFiniteSet(Q) /\ IsFiniteSet(1 .. n) /\ Cardinality(1 .. n) = n
  <2>1. IsFiniteSet(Q)
    BY FS_Subset, MetadataAssumption
  <2>2. 1 \in Int /\ n \in Int
    OBVIOUS
  <2>3. IsFiniteSet(1 .. n) /\ Cardinality(1 .. n) = IF 1 > n THEN 0 ELSE n - 1 + 1
    BY <2>2, FS_Interval
  <2> QED BY <2>1, <2>3
<1>5. IsFiniteSet(Q \X (1 .. n)) /\ Cardinality(Q \X (1 .. n)) = Cardinality(Q) * n
  BY <1>4, FS_Product
<1> HIDE DEF h
<1>6. IsFiniteSet(S) /\ Cardinality(S) <= Cardinality(Q) * n
  BY <1>3, <1>5, FS_Injection
<1> QED BY <1>6 DEF S

\* What the pushes of a set Q will still add to the item of r.
LEMMA PendingBound ==
    ASSUME NEW P \in [Pushes -> PushState], NEW n \in Nat,
           \A q \in Pushes : P[q].at = "fill" => Cardinality(P[q].left) <= n,
           NEW r, NEW Q \in SUBSET Pushes
    PROVE  LET S == {x \in PendingOf(P, r) : x[1] \in Q}
           IN  IsFiniteSet(S) /\ Cardinality(S) <= Cardinality(Q) * n
<1> DEFINE f == [q \in Pushes |-> IF Filling(P[q], r) THEN P[q].left ELSE {}]
<1>1. f \in [Pushes -> SUBSET Values]
  BY DEF PushState
<1>2. \A q \in Q : Cardinality(f[q]) <= n
  BY FS_EmptySet DEF Filling
<1>3. {x \in PendingOf(P, r) : x[1] \in Q} = {x \in Q \X Values : x[2] \in f[x[1]]}
  BY DEF PendingOf
<1> HIDE DEF f
<1> QED BY <1>1, <1>2, <1>3, SumBound

\* The limits are numbers.
LEMMA NumberFacts ==
    ASSUME CfgOK
    PROVE  /\ limits[signal].attrs \in Nat /\ limits[signal].resources \in Nat
           /\ Cardinality(Pushes) \in Nat \ {0}
           /\ limits[signal].attrs * Cardinality(Pushes) \in Nat
           /\ provider \in {"in_memory", "redis"}
<1>1. /\ limits[signal].attrs \in Nat /\ limits[signal].resources \in Nat
      /\ provider \in {"in_memory", "redis"}
  BY MetadataAssumption DEF CfgOK, limits, signal, provider
<1>2. Cardinality(Pushes) \in Nat \ {0}
  BY FS_CardinalityType, FS_EmptySet, MetadataAssumption
<1> QED BY <1>1, <1>2

\* The sets of values are finite.
LEMMA FiniteFacts ==
    ASSUME CacheOK, HeapOK, NEW r \in Resources
    PROVE  /\ AttrsOf(r) \in SUBSET Values /\ IsFiniteSet(AttrsOf(r))
           /\ Cardinality(AttrsOf(r)) \in Nat
           /\ IsFiniteSet(Pending(r)) /\ Cardinality(Pending(r)) \in Nat
<1>1. AttrsOf(r) \in SUBSET Values
  BY DEF AttrsOf, CacheOK, HeapOK, SetRecord
<1>2. IsFiniteSet(Pushes \X Values) /\ IsFiniteSet(Values)
  BY FS_Product, MetadataAssumption
<1>3. Pending(r) \in SUBSET (Pushes \X Values)
  BY DEF Pending, PendingOf
<1> QED BY <1>1, <1>2, <1>3, FS_Subset, FS_CardinalityType

\* A push's state is replaced.
LEMMA SetFacts ==
    ASSUME PushOK, NEW p \in Pushes, NEW s \in PushState, Set(p, s)
    PROVE  /\ PushOK' /\ push'[p] = s
           /\ \A q \in Pushes : q # p => push'[q] = push[q]
BY DEF PushOK, Set

\* Sets in use are not collected.
LEMMA HeapFacts ==
    ASSUME CacheOK', NEW h \in [SetIds -> SetRecord], heap' = h \/ heap' = Swept(h)
    PROVE  /\ HeapOK'
           /\ \A r \in Resources : cache'[r] # Nil => heap'[cache'[r]] = h[cache'[r]]
<1>1. EmptySet \in SetRecord
  BY DEF EmptySet, SetRecord
<1>2. CASE heap' = h
  BY <1>2 DEF HeapOK
<1>3. CASE heap' = Swept(h)
  <2>1. HeapOK'
    BY <1>1, <1>3 DEF HeapOK, Swept
  <2>2. ASSUME NEW r \in Resources, cache'[r] # Nil PROVE heap'[cache'[r]] = h[cache'[r]]
    <3>1. cache'[r] \in SetIds
      BY <2>2 DEF CacheOK
    <3>2. ASSUME NEW i \in SetIds, cache'[r] = i PROVE heap'[i] = h[i]
      BY <1>3, <3>2 DEF Swept, InUse
    <3> QED BY <3>1, <3>2
  <2> QED BY <2>1, <2>2
<1> QED BY <1>2, <1>3

\* Locks change, or sets are collected.
LEMMA SameAttrs ==
    ASSUME CacheOK, cache' = cache, NEW h \in [SetIds -> SetRecord],
           \A i \in SetIds : h[i].attrs = heap[i].attrs, heap' = h \/ heap' = Swept(h)
    PROVE  HeapOK' /\ \A r \in Resources : AttrsOf(r)' = AttrsOf(r)
<1>1. CacheOK'
  BY DEF CacheOK
<1>2. /\ HeapOK'
      /\ \A r \in Resources : cache'[r] # Nil => heap'[cache'[r]] = h[cache'[r]]
  BY <1>1, HeapFacts
<1>3. ASSUME NEW r \in Resources PROVE AttrsOf(r)' = AttrsOf(r)
  <2>1. CASE cache[r] = Nil
    BY <2>1 DEF AttrsOf
  <2>2. CASE cache[r] # Nil
    <3>1. cache[r] \in SetIds /\ heap'[cache[r]].attrs = heap[cache[r]].attrs
      BY <1>2, <2>2 DEF CacheOK
    <3> QED BY <2>2, <3>1 DEF AttrsOf
  <2> QED BY <2>1, <2>2
<1> QED BY <1>2, <1>3

\* A step that changes one push and not what items the cache has.
LEMMA TypesSet ==
    ASSUME TypesInv, NEW p \in Pushes, NEW s \in PushState, Set(p, s), StateInv(s), ItemInv(s),
           UNCHANGED <<cfg, cache>>, HeapOK', LostOK'
    PROVE  TypesInv'
<1>1. /\ PushOK' /\ push'[p] = s
      /\ \A q \in Pushes : q # p => push'[q] = push[q]
  BY SetFacts DEF TypesInv
<1>3. \A q \in Pushes : StateInv(push[q])' /\ ItemInv(push[q])'
  <2> SUFFICES ASSUME NEW q \in Pushes PROVE StateInv(push[q])' /\ ItemInv(push[q])'
    OBVIOUS
  <2>1. StateInv(push'[q]) /\ ItemInv(push'[q])
    BY <1>1 DEF TypesInv
  <2> QED BY <2>1 DEF StateInv, ItemInv, provider, limits, signal
<1>4. CfgOK' /\ CacheOK' /\ OneOwner'
  BY DEF TypesInv, CfgOK, CacheOK, OneOwner
<1> QED BY <1>1, <1>3, <1>4 DEF TypesInv

Written == stored \cup Lost \cup UNION {push[p].batch : p \in Pushes}

\* Nothing is taken out of a statement.
LEMMA WrittenKept ==
    ASSUME UNCHANGED <<stored, lost>>, \A q \in Pushes : push[q].batch \subseteq push'[q].batch
    PROVE  Written \subseteq Written'
BY DEF Written, Lost

\* What is known stays known to be written if nothing is added to the cache.
LEMMA KnownKept ==
    ASSUME KnownIsWritten, Written \subseteq Written',
           \A r \in Resources : AttrsOf(r)' \subseteq AttrsOf(r)
    PROVE  KnownIsWritten'
BY DEF KnownIsWritten, Written

\* The bound on values holds if nothing is added to the cache and no push passes
\* the test.
LEMMA AttrsKept ==
    ASSUME TypesInv, AttrsBounded, cfg' = cfg,
           \A r \in Resources : /\ AttrsOf(r)' \subseteq AttrsOf(r)
                                /\ Pending(r)' \subseteq Pending(r)
    PROVE  AttrsBounded'
<1>1. provider' = provider /\ limits' = limits /\ signal' = signal
  BY DEF provider, limits, signal
<1>2. limits[signal].attrs * Cardinality(Pushes) \in Nat
  BY NumberFacts DEF TypesInv
<1> SUFFICES ASSUME provider = "in_memory", NEW r \in Resources
             PROVE  Cardinality(AttrsOf(r)') + Cardinality(Pending(r)')
                        <= limits[signal].attrs * Cardinality(Pushes)
  BY <1>1 DEF AttrsBounded
<1>3. /\ IsFiniteSet(AttrsOf(r)) /\ Cardinality(AttrsOf(r)) \in Nat
      /\ IsFiniteSet(Pending(r)) /\ Cardinality(Pending(r)) \in Nat
  BY FiniteFacts DEF TypesInv
<1>4. /\ IsFiniteSet(AttrsOf(r)') /\ Cardinality(AttrsOf(r)') <= Cardinality(AttrsOf(r))
      /\ IsFiniteSet(Pending(r)') /\ Cardinality(Pending(r)') <= Cardinality(Pending(r))
  BY <1>3, FS_Subset
<1>5. Cardinality(AttrsOf(r)') \in Nat /\ Cardinality(Pending(r)') \in Nat
  BY <1>4, FS_CardinalityType
<1>6. Cardinality(AttrsOf(r)) + Cardinality(Pending(r)) <= limits[signal].attrs * Cardinality(Pushes)
  BY DEF AttrsBounded
<1> QED BY <1>2, <1>3, <1>4, <1>5, <1>6

\* The number of resources may only shrink, unless a new push passes the test.
LEMMA ResourcesKept ==
    ASSUME TypesInv, ResourcesBounded, cfg' = cfg, Cached' \subseteq Cached,
           Makers' \subseteq Makers
    PROVE  ResourcesBounded'
<1>1. IsFiniteSet(Cached) /\ IsFiniteSet(Makers)
  BY FS_Subset, MetadataAssumption DEF Cached, Makers
<1>2. /\ Cardinality(Cached') <= Cardinality(Cached) /\ Cardinality(Makers') <= Cardinality(Makers)
      /\ IsFiniteSet(Cached') /\ IsFiniteSet(Makers')
  BY <1>1, FS_Subset
<1>3. /\ Cardinality(Cached) \in Nat /\ Cardinality(Makers) \in Nat
      /\ Cardinality(Cached') \in Nat /\ Cardinality(Makers') \in Nat
  BY <1>1, <1>2, FS_CardinalityType
<1>4. limits[signal].resources \in Nat /\ Cardinality(Pushes) \in Nat
  BY NumberFacts DEF TypesInv
<1>5. provider' = provider /\ limits' = limits /\ signal' = signal
  BY DEF provider, limits, signal
<1> QED BY <1>2, <1>3, <1>4, <1>5 DEF ResourcesBounded

\* A step of one push that adds nothing to the cache or the tables, and after
\* which it has not passed a test that it had not passed before.
LEMMA InvSet ==
    ASSUME MetadataInv, NEW p \in Pushes, NEW s \in PushState, Set(p, s), StateInv(s), ItemInv(s),
           s.at # "make", push[p].batch \subseteq s.batch,
           s.at = "fill" => /\ push[p].at = "fill" /\ s.entry = push[p].entry
                            /\ s.res = push[p].res /\ s.left \subseteq push[p].left,
           UNCHANGED <<cfg, cache, stored, lost>>,
           HeapOK', \A r \in Resources : AttrsOf(r)' = AttrsOf(r)
    PROVE  MetadataInv'
<1>0. TypesInv /\ PushOK
  BY DEF MetadataInv, TypesInv
<1>1. TypesInv'
  <2>1. LostOK'
    BY <1>0 DEF TypesInv, LostOK
  <2> QED BY <1>0, <2>1, TypesSet
<1>2. push'[p] = s /\ \A q \in Pushes : q # p => push'[q] = push[q]
  BY <1>0, SetFacts
<1>3. KnownIsWritten'
  <2>1. \A q \in Pushes : push[q].batch \subseteq push'[q].batch
    BY <1>2
  <2>2. Written \subseteq Written'
    BY <2>1, WrittenKept
  <2> QED BY <2>2, KnownKept DEF MetadataInv
<1>4. AttrsBounded'
  <2>1. ASSUME NEW r \in Resources PROVE Pending(r)' \subseteq Pending(r)
    BY <1>2 DEF Pending, PendingOf, Filling
  <2> QED BY <1>0, <2>1, AttrsKept DEF MetadataInv
<1>5. ResourcesBounded'
  <2>1. Cached' = Cached /\ Makers' \subseteq Makers
    BY <1>2 DEF Cached, Makers
  <2> QED BY <1>0, <2>1, ResourcesKept DEF MetadataInv
<1> QED BY <1>1, <1>3, <1>4, <1>5 DEF MetadataInv

-----------------------------------------------------------------------------
(* The steps *)

\* The states that pushes go to: at rest, and at the next resource.
LEMMA RestFacts ==
    ASSUME TypesInv
    PROVE  /\ Idle \in PushState /\ StateInv(Idle) /\ ItemInv(Idle)
           /\ Idle.at = "idle" /\ Idle.batch = {}
           /\ \A p \in Pushes :
                 /\ NextGroup(p) \in PushState /\ StateInv(NextGroup(p)) /\ ItemInv(NextGroup(p))
                 /\ NextGroup(p).at = "groups" /\ NextGroup(p).batch = push[p].batch
                 /\ NextGroup(p).entry = Nil
<1>1. Idle \in PushState /\ Idle.at = "idle" /\ Idle.batch = {} /\ Idle.entry = Nil
  BY DEF Idle, PushState, Ats
<1>2. StateInv(Idle) /\ ItemInv(Idle)
  BY <1>1, MetadataAssumption DEF StateInv, ItemInv, Adding, Holding
<1>3. ASSUME NEW p \in Pushes
      PROVE  /\ NextGroup(p) \in PushState /\ StateInv(NextGroup(p)) /\ ItemInv(NextGroup(p))
             /\ NextGroup(p).at = "groups" /\ NextGroup(p).batch = push[p].batch
             /\ NextGroup(p).entry = Nil
  <2>1. push[p] \in PushState
    BY DEF TypesInv, PushOK
  <2>2. NextGroup(p) \in PushState
    BY <2>1 DEF NextGroup, PushState, Ats
  <2>3. /\ NextGroup(p).at = "groups" /\ NextGroup(p).batch = push[p].batch
        /\ NextGroup(p).entry = Nil
    BY <2>1 DEF NextGroup, PushState
  <2>4. StateInv(NextGroup(p)) /\ ItemInv(NextGroup(p))
    BY <2>3, MetadataAssumption DEF StateInv, ItemInv, Adding, Holding
  <2> QED BY <2>2, <2>3, <2>4
<1> QED BY <1>1, <1>2, <1>3

\* With what is new in its statement.
LEMMA AppendFacts ==
    ASSUME TypesInv, NEW p \in Pushes, NEW r \in Resources, NEW new \in SUBSET Values
    PROVE  LET s == AppendNew(p, r, new)
           IN  /\ s \in PushState /\ StateInv(s) /\ ItemInv(s)
               /\ s.at \in {"groups", "add"} /\ push[p].batch \subseteq s.batch
<1>1. /\ NextGroup(p) \in PushState /\ StateInv(NextGroup(p)) /\ ItemInv(NextGroup(p))
      /\ NextGroup(p).at = "groups" /\ NextGroup(p).batch = push[p].batch
      /\ NextGroup(p).entry = Nil
  BY RestFacts
<1>2. CASE new = {}
  BY <1>1, <1>2 DEF AppendNew
<1>3. CASE new # {}
  <2> DEFINE n == NextGroup(p)
             s == [n EXCEPT !.at = "add", !.res = r, !.new = new, !.batch = @ \cup ({r} \X new)]
  <2> HIDE DEF n
  <2>1. n \in PushState /\ n.entry = Nil /\ n.batch = push[p].batch
    BY <1>1 DEF n
  <2>2. {r} \X new \subseteq Pairs
    BY DEF Pairs
  <2>3. s \in PushState
    BY <2>1, <2>2 DEF PushState, Ats, Adding
  <2>4. /\ s.at = "add" /\ s.res = r /\ s.new = new /\ s.entry = Nil
        /\ s.batch = push[p].batch \cup ({r} \X new)
    BY <2>1 DEF PushState
  <2> HIDE DEF s
  <2>5. StateInv(s) /\ ItemInv(s)
    BY <2>4, MetadataAssumption DEF StateInv, ItemInv, Adding, Holding
  <2>6. AppendNew(p, r, new) = s
    BY <1>3 DEF AppendNew, s, n
  <2> QED BY <2>3, <2>4, <2>5, <2>6
<1> QED BY <1>2, <1>3

\* The rows are made and the limits are tested.
LEMMA InvLimits ==
    ASSUME MetadataInv, NEW p \in Pushes,
           Begin(p) \/ CheckResources(p) \/ AddUpEntry(p) \/ CheckTotal(p)
    PROVE  MetadataInv'
<1>0. /\ TypesInv /\ push[p] \in PushState /\ StateInv(push[p]) /\ HeapOK /\ CacheOK
      /\ UNCHANGED <<cfg, cache, stored, lost>> /\ heap' = heap
      /\ push[p].at \in {"idle", "limits", "total"}
  BY DEF MetadataInv, TypesInv, PushOK, Begin, CheckResources, AddUpEntry, CheckTotal, At
<1>1. push[p].batch = {} /\ push[p].entry = Nil
  BY <1>0 DEF StateInv, Holding
<1>2. HeapOK' /\ \A r \in Resources : AttrsOf(r)' = AttrsOf(r)
  BY <1>0 DEF HeapOK, AttrsOf
<1>3. ASSUME NEW s \in PushState, Set(p, s), s.at \in {"limits", "total", "groups"},
             s.entry = Nil, s.batch = {}
      PROVE  MetadataInv'
  <2>1. StateInv(s) /\ ItemInv(s)
    BY <1>3, MetadataAssumption DEF StateInv, ItemInv, Adding, Holding
  <2> QED BY <1>0, <1>1, <1>2, <1>3, <2>1, InvSet
<1>4. CASE Begin(p)
  <2> DEFINE rows == FilterAttrs(BatchOf(p)).rows
             s == [Idle EXCEPT !.at = "limits", !.rows = rows]
  <2>1. rows \subseteq Pairs
    BY <1>0, FilterFacts DEF TypesInv
  <2>2. Set(p, s)
    BY <1>4 DEF Begin
  <2> HIDE DEF rows
  <2>3. s \in PushState /\ s.at = "limits" /\ s.entry = Nil /\ s.batch = {}
    BY <2>1 DEF Idle, PushState, Ats
  <2> QED BY <1>3, <2>2, <2>3
<1>5. CASE Set(p, Idle)
  BY <1>0, <1>1, <1>2, <1>5, RestFacts, InvSet
<1>6. CASE CheckResources(p) /\ ~ Set(p, Idle)
  <2> DEFINE keys == IF provider = "in_memory" /\ signal = "traces" THEN Cached ELSE {}
             s == [push[p] EXCEPT !.at = "total", !.keys = keys]
  <2>1. Set(p, s) /\ keys \subseteq Resources
    BY <1>6 DEF CheckResources, Cached
  <2> HIDE DEF keys
  <2>2. s \in PushState /\ s.at = "total" /\ s.entry = Nil /\ s.batch = {}
    BY <1>0, <1>1, <2>1 DEF PushState, Ats
  <2> QED BY <1>3, <2>1, <2>2
<1>7. CASE CheckTotal(p) /\ ~ Set(p, Idle)
  <2> DEFINE todo == {r \in {row[1] : row \in push[p].rows} : ~CardinalityLimitExceeded(r)}
             s == [push[p] EXCEPT !.at = "groups", !.sum = 0, !.todo = todo]
  <2>1. Set(p, s)
    BY <1>7 DEF CheckTotal
  <2>2. todo \subseteq Resources
    BY <1>0 DEF PushState, Pairs
  <2> HIDE DEF todo
  <2>3. s \in PushState /\ s.at = "groups" /\ s.entry = Nil /\ s.batch = {}
    BY <1>0, <1>1, <2>2 DEF PushState, Ats
  <2> QED BY <1>3, <2>1, <2>3
<1>8. CASE AddUpEntry(p)
  <2>1. PICK r \in push[p].keys :
            Set(p, [push[p] EXCEPT !.keys = @ \ {r}, !.sum = @ + Cardinality(AttrsOf(r))])
    BY <1>8 DEF AddUpEntry
  <2> DEFINE n == push[p].sum + Cardinality(AttrsOf(r))
             s == [push[p] EXCEPT !.keys = @ \ {r}, !.sum = n]
  <2>2. n \in Nat
    <3>1. r \in Resources /\ push[p].sum \in Nat
      BY <1>0 DEF PushState
    <3>2. Cardinality(AttrsOf(r)) \in Nat
      BY <1>0, <3>1, FiniteFacts
    <3> QED BY <3>1, <3>2
  <2>3. Set(p, s) /\ push[p].at = "total"
    BY <1>8, <2>1 DEF AddUpEntry, At
  <2> HIDE DEF n
  <2>4. s \in PushState /\ s.at = "total" /\ s.entry = Nil /\ s.batch = {}
    BY <1>0, <1>1, <2>2, <2>3 DEF PushState
  <2> QED BY <1>3, <2>3, <2>4
<1> QED BY <1>4, <1>5, <1>6, <1>7, <1>8 DEF CheckResources, CheckTotal

\* The set that a push works on.
LEMMA ValueFacts ==
    ASSUME TypesInv, NEW p \in Pushes, push[p].at \in Holding
    PROVE  /\ Value(p) \in SetIds /\ push[p].res \in Resources /\ provider = "in_memory"
           /\ push[p].entry = Attached => Value(p) = cache[push[p].res]
           /\ push[p].entry # Attached => \A r \in Resources : cache[r] # Value(p)
<1>1. push[p] \in PushState /\ StateInv(push[p]) /\ ItemInv(push[p]) /\ CacheOK
  BY DEF TypesInv, PushOK
<1>2. /\ push[p].res \in Resources /\ provider = "in_memory"
      /\ push[p].entry \in SetIds \cup {Attached}
  BY <1>1 DEF StateInv
<1>3. CASE push[p].entry = Attached
  BY <1>1, <1>2, <1>3 DEF Value, ItemInv, CacheOK
<1>4. CASE push[p].entry # Attached
  BY <1>1, <1>2, <1>4 DEF Value, ItemInv
<1> QED BY <1>2, <1>3, <1>4

\* The cache is asked.
LEMMA InvFindNew ==
    ASSUME MetadataInv, NEW p \in Pushes, FindNew(p) \/ FindNewFails(p)
    PROVE  MetadataInv'
<1>0. /\ TypesInv /\ push[p] \in PushState /\ StateInv(push[p]) /\ HeapOK /\ CacheOK
      /\ UNCHANGED <<cfg, cache, stored, lost>> /\ heap' = heap /\ push[p].at = "groups"
  BY DEF MetadataInv, TypesInv, PushOK, FindNew, FindNewFails, At
<1>1. HeapOK' /\ \A r \in Resources : AttrsOf(r)' = AttrsOf(r)
  BY <1>0 DEF HeapOK, AttrsOf
<1>2. CASE FindNew(p)
  <2>1. PICK r \in push[p].todo :
          LET rest == push[p].todo \ {r} IN
          Set(p, IF provider = "redis" \/ cache[r] = Nil
                 THEN [AppendNew(p, r, ValuesOf(p, r) \ AttrsOf(r)) EXCEPT !.todo = rest]
                 ELSE [push[p] EXCEPT !.at = "rlock", !.todo = rest, !.res = r,
                          !.left = ValuesOf(p, r), !.entry = Attached, !.lock = cache[r]])
    BY <1>2 DEF FindNew
  <2>2. r \in Resources /\ ValuesOf(p, r) \subseteq Values
    BY <1>0 DEF PushState, ValuesOf, Pairs
  <2> DEFINE rest == push[p].todo \ {r}
  <2>3. rest \subseteq Resources
    BY <1>0 DEF PushState
  <2>4. CASE provider = "redis" \/ cache[r] = Nil
    <3> DEFINE new == ValuesOf(p, r) \ AttrsOf(r)
               t == AppendNew(p, r, new)
               s == [t EXCEPT !.todo = rest]
    <3>1. Set(p, s)
      BY <2>1, <2>4
    <3>2. new \in SUBSET Values
      BY <2>2
    <3> HIDE DEF new, rest
    <3>3. /\ t \in PushState /\ StateInv(t) /\ ItemInv(t)
          /\ t.at \in {"groups", "add"} /\ push[p].batch \subseteq t.batch
      BY <1>0, <2>2, <3>2, AppendFacts
    <3> HIDE DEF t
    <3>4. /\ s \in PushState /\ s.at = t.at /\ s.batch = t.batch /\ s.entry = t.entry
          /\ s.res = t.res /\ s.new = t.new /\ s.left = t.left /\ s.lock = t.lock
          /\ s.unlock = t.unlock
      BY <2>3, <3>3 DEF PushState
    <3> HIDE DEF s
    <3>5. StateInv(s) /\ ItemInv(s)
      BY <3>3, <3>4 DEF StateInv, ItemInv
    <3> QED BY <1>0, <1>1, <3>1, <3>3, <3>4, <3>5, InvSet
  <2>5. CASE ~(provider = "redis" \/ cache[r] = Nil)
    <3> DEFINE s == [push[p] EXCEPT !.at = "rlock", !.todo = rest, !.res = r,
                          !.left = ValuesOf(p, r), !.entry = Attached, !.lock = cache[r]]
    <3>1. Set(p, s)
      BY <2>1, <2>5
    <3>2. cache[r] \in SetIds /\ provider = "in_memory"
      BY <1>0, <2>2, <2>5, NumberFacts DEF CacheOK, TypesInv
    <3> HIDE DEF rest
    <3>3. /\ s \in PushState /\ s.at = "rlock" /\ s.res = r /\ s.entry = Attached
          /\ s.lock = cache[r] /\ s.batch = push[p].batch
      BY <1>0, <2>2, <2>3, <3>2 DEF PushState, Ats, Holding
    <3> HIDE DEF s
    <3>4. StateInv(s) /\ ItemInv(s)
      BY <2>2, <2>5, <3>2, <3>3, MetadataAssumption DEF StateInv, ItemInv, Adding, Holding
    <3> QED BY <1>0, <1>1, <3>1, <3>3, <3>4, InvSet
  <2> QED BY <2>4, <2>5
<1>3. CASE FindNewFails(p)
  <2>1. PICK r \in push[p].todo : Set(p, [push[p] EXCEPT !.todo = @ \ {r}])
    BY <1>3 DEF FindNewFails
  <2> DEFINE s == [push[p] EXCEPT !.todo = @ \ {r}]
  <2>2. /\ s \in PushState /\ s.at = "groups" /\ s.batch = push[p].batch
        /\ s.entry = push[p].entry
    BY <1>0 DEF PushState
  <2>3. s.entry = Nil
    BY <1>0, <2>2 DEF StateInv, Holding
  <2>4. StateInv(s) /\ ItemInv(s)
    BY <2>2, <2>3, MetadataAssumption DEF StateInv, ItemInv, Adding, Holding
  <2> QED BY <1>0, <1>1, <2>1, <2>2, <2>4, InvSet
<1> QED BY <1>2, <1>3

\* A push goes on with the item that it holds.
LEMMA HeldFacts ==
    ASSUME TypesInv, NEW p \in Pushes, push[p].at \in Holding, NEW s \in PushState,
           s.at \in {"read", "wait", "test"}, s.res = push[p].res, s.entry = push[p].entry,
           s.new = push[p].new \/ s.at = "read", s.batch = push[p].batch,
           s.at \in {"wait", "test"} => push[p].at \in {"lock", "wait", "test"},
           s.at = "wait" => s.lock \in SetIds, s.at \in {"read", "test"} => s.unlock \in SetIds
    PROVE  StateInv(s) /\ ItemInv(s)
<1>1. StateInv(push[p]) /\ ItemInv(push[p])
  BY DEF TypesInv
<1>2. ItemInv(s)
  BY <1>1 DEF ItemInv
<1>3. s.res \in Resources /\ provider = "in_memory" /\ s.entry \in SetIds \cup {Attached}
  BY <1>1 DEF StateInv
<1>4. s.at \in {"wait", "test"} => \A v \in s.new : <<s.res, v>> \in s.batch
  BY <1>1 DEF StateInv, Adding
<1> QED BY <1>2, <1>3, <1>4 DEF StateInv, Adding, Holding

\* The values are looked up under the lock for readers.
LEMMA InvRead ==
    ASSUME MetadataInv, NEW p \in Pushes, RLock(p) \/ Lookup(p)
    PROVE  MetadataInv'
<1>0. /\ TypesInv /\ push[p] \in PushState /\ StateInv(push[p]) /\ HeapOK /\ CacheOK
      /\ UNCHANGED <<cfg, cache, stored, lost>> /\ push[p].at \in Holding
  BY DEF MetadataInv, TypesInv, PushOK, RLock, Lookup, At, Holding
<1>1. Value(p) \in SetIds /\ push[p].res \in Resources
  BY <1>0, ValueFacts
<1>2. CASE RLock(p)
  <2> DEFINE s == [push[p] EXCEPT !.at = "read", !.lock = Nil, !.unlock = Value(p)]
             h == [heap EXCEPT ![push[p].lock].readers = @ + 1]
  <2>1. Set(p, s) /\ heap' = Swept(h) /\ push[p].at = "rlock"
    BY <1>2 DEF RLock, At
  <2>2. push[p].lock \in SetIds
    BY <1>0, <2>1 DEF StateInv
  <2>3. h \in [SetIds -> SetRecord] /\ \A i \in SetIds : h[i].attrs = heap[i].attrs
    BY <1>0, <2>2 DEF HeapOK, SetRecord
  <2>4. /\ s \in PushState /\ s.at = "read" /\ s.res = push[p].res /\ s.entry = push[p].entry
        /\ s.unlock = Value(p) /\ s.batch = push[p].batch
    BY <1>0, <1>1 DEF PushState, Ats, Holding
  <2> HIDE DEF s, h
  <2>5. StateInv(s) /\ ItemInv(s)
    BY <1>0, <1>1, <2>4, HeldFacts
  <2>6. HeapOK' /\ \A r \in Resources : AttrsOf(r)' = AttrsOf(r)
    BY <1>0, <2>1, <2>3, SameAttrs
  <2> QED BY <1>0, <2>1, <2>4, <2>5, <2>6, InvSet
<1>3. CASE Lookup(p)
  <2>0. push[p].at = "read" /\ push[p].unlock \in SetIds
    BY <1>0, <1>3 DEF Lookup, At, StateInv
  <2>1. PICK v \in push[p].left :
          LET rest == push[p].left \ {v}
              new == IF v \in heap[Value(p)].attrs THEN push[p].new ELSE push[p].new \cup {v}
          IN
          IF rest # {}
          THEN Set(p, [push[p] EXCEPT !.left = rest, !.new = new]) /\ UNCHANGED heap
          ELSE /\ heap[push[p].unlock].readers > 0
               /\ Set(p, AppendNew(p, push[p].res, new))
               /\ heap' = Swept([heap EXCEPT ![push[p].unlock].readers = @ - 1])
    BY <1>3 DEF Lookup
  <2> DEFINE rest == push[p].left \ {v}
             new == IF v \in heap[Value(p)].attrs THEN push[p].new ELSE push[p].new \cup {v}
  <2>2. rest \subseteq Values /\ new \in SUBSET Values
    BY <1>0 DEF PushState
  <2>3. CASE rest # {}
    <3> DEFINE s == [push[p] EXCEPT !.left = rest, !.new = new]
    <3>1. Set(p, s) /\ heap' = heap
      BY <2>1, <2>3
    <3> HIDE DEF rest, new
    <3>2. /\ s \in PushState /\ s.at = "read" /\ s.res = push[p].res /\ s.entry = push[p].entry
          /\ s.unlock = push[p].unlock /\ s.batch = push[p].batch
      BY <1>0, <2>0, <2>2 DEF PushState
    <3> HIDE DEF s
    <3>3. StateInv(s) /\ ItemInv(s)
      BY <1>0, <2>0, <3>2, HeldFacts
    <3>4. HeapOK' /\ \A r \in Resources : AttrsOf(r)' = AttrsOf(r)
      BY <1>0, <3>1 DEF HeapOK, AttrsOf
    <3> QED BY <1>0, <3>1, <3>2, <3>3, <3>4, InvSet
  <2>4. CASE rest = {}
    <3> DEFINE s == AppendNew(p, push[p].res, new)
               h == [heap EXCEPT ![push[p].unlock].readers = @ - 1]
    <3>1. Set(p, s) /\ heap' = Swept(h) /\ heap[push[p].unlock].readers > 0
      BY <2>1, <2>4
    <3> HIDE DEF rest, new
    <3>2. /\ s \in PushState /\ StateInv(s) /\ ItemInv(s)
          /\ s.at \in {"groups", "add"} /\ push[p].batch \subseteq s.batch
      BY <1>0, <1>1, <2>2, AppendFacts
    <3>3. h \in [SetIds -> SetRecord] /\ \A i \in SetIds : h[i].attrs = heap[i].attrs
      BY <1>0, <2>0, <3>1 DEF HeapOK, SetRecord
    <3> HIDE DEF s, h
    <3>4. HeapOK' /\ \A r \in Resources : AttrsOf(r)' = AttrsOf(r)
      BY <1>0, <3>1, <3>3, SameAttrs
    <3> QED BY <1>0, <3>1, <3>2, <3>4, InvSet
  <2> QED BY <2>3, <2>4
<1> QED BY <1>2, <1>3

\* The item of a resource is looked up, to add to it.
LEMMA InvFindEntry ==
    ASSUME MetadataInv, NEW p \in Pushes, FindEntry(p)
    PROVE  MetadataInv'
<1> DEFINE r == push[p].res
<1>0. /\ TypesInv /\ push[p] \in PushState /\ StateInv(push[p]) /\ HeapOK /\ CacheOK
      /\ UNCHANGED <<cfg, cache, stored, lost>> /\ heap' = heap
      /\ push[p].at = "add" /\ provider = "in_memory"
  BY DEF MetadataInv, TypesInv, PushOK, FindEntry, At
<1>1. r \in Resources /\ push[p].entry = Nil /\ \A v \in push[p].new : <<r, v>> \in push[p].batch
  BY <1>0 DEF StateInv, Adding, Holding
<1>2. HeapOK' /\ \A q \in Resources : AttrsOf(q)' = AttrsOf(q)
  BY <1>0 DEF HeapOK, AttrsOf
<1>3. CASE cache[r] # Nil
  <2> DEFINE s == [push[p] EXCEPT !.at = "wait", !.entry = Attached, !.lock = cache[r]]
  <2>1. Set(p, s)
    BY <1>3 DEF FindEntry
  <2>2. cache[r] \in SetIds
    BY <1>0, <1>1, <1>3 DEF CacheOK
  <2>3. /\ s \in PushState /\ s.at = "wait" /\ s.res = r /\ s.entry = Attached
        /\ s.lock = cache[r] /\ s.new = push[p].new /\ s.batch = push[p].batch
    BY <1>0, <2>2 DEF PushState, Ats, Holding
  <2> HIDE DEF s
  <2>4. StateInv(s) /\ ItemInv(s)
    BY <1>0, <1>1, <1>3, <2>2, <2>3, MetadataAssumption DEF StateInv, ItemInv, Adding, Holding
  <2> QED BY <1>0, <1>2, <2>1, <2>3, <2>4, InvSet
<1>4. CASE cache[r] = Nil /\ Cardinality(Cached) >= limits[signal].resources
  <2>1. Set(p, NextGroup(p))
    BY <1>4 DEF FindEntry
  <2> QED BY <1>0, <1>2, <2>1, RestFacts, InvSet
<1>5. CASE cache[r] = Nil /\ ~(Cardinality(Cached) >= limits[signal].resources)
  <2> DEFINE s == [push[p] EXCEPT !.at = "make"]
  <2>1. Set(p, s)
    BY <1>5 DEF FindEntry
  <2>2. /\ s \in PushState /\ s.at = "make" /\ s.res = r /\ s.entry = Nil
        /\ s.new = push[p].new /\ s.batch = push[p].batch
    BY <1>0, <1>1 DEF PushState, Ats, Adding
  <2> HIDE DEF s
  <2>3. StateInv(s) /\ ItemInv(s)
    BY <1>0, <1>1, <2>2, MetadataAssumption DEF StateInv, ItemInv, Adding, Holding
  <2>4. push'[p] = s /\ \A q \in Pushes : q # p => push'[q] = push[q]
    BY <1>0, <2>1, <2>2, SetFacts DEF TypesInv
  <2>5. TypesInv'
    <3>1. LostOK'
      BY <1>0 DEF TypesInv, LostOK
    <3> QED BY <1>0, <1>2, <2>1, <2>2, <2>3, <3>1, TypesSet
  <2>6. KnownIsWritten'
    <3>1. \A q \in Pushes : push[q].batch \subseteq push'[q].batch
      BY <2>2, <2>4
    <3>2. Written \subseteq Written'
      BY <1>0, <3>1, WrittenKept
    <3> QED BY <1>2, <3>2, KnownKept DEF MetadataInv
  <2>7. AttrsBounded'
    <3>1. ASSUME NEW q \in Resources PROVE Pending(q)' \subseteq Pending(q)
      BY <2>2, <2>4 DEF Pending, PendingOf, Filling
    <3> QED BY <1>0, <1>2, <3>1, AttrsKept DEF MetadataInv
  <2>8. ResourcesBounded'
    <3>1. Cached' = Cached
      BY <1>0 DEF Cached
    <3>2. IsFiniteSet(Cached) /\ Cardinality(Cached) \in Nat
      BY FS_Subset, FS_CardinalityType, MetadataAssumption DEF Cached
    <3>3. IsFiniteSet(Makers') /\ Cardinality(Makers') <= Cardinality(Pushes) /\ Cardinality(Makers') \in Nat
      <4>1. Makers' \in SUBSET Pushes
        BY DEF Makers
      <4> QED BY <4>1, FS_Subset, FS_CardinalityType, MetadataAssumption
    <3>4. limits[signal].resources \in Nat /\ Cardinality(Pushes) \in Nat
      BY <1>0, NumberFacts DEF TypesInv
    <3>5. Cardinality(Cached) <= limits[signal].resources - 1
      BY <1>5, <3>2, <3>4
    <3>6. provider' = provider /\ limits' = limits /\ signal' = signal
      BY <1>0 DEF provider, limits, signal
    <3>7. Cardinality(Cached') + Cardinality(Makers')
              <= limits[signal].resources + Cardinality(Pushes) - 1
      BY <3>1, <3>2, <3>3, <3>4, <3>5
    <3> QED BY <3>6, <3>7 DEF ResourcesBounded
  <2> QED BY <2>5, <2>6, <2>7, <2>8 DEF MetadataInv
<1> QED BY <1>3, <1>4, <1>5

\* The lock of a set is asked for and taken.
LEMMA InvLock ==
    ASSUME MetadataInv, NEW p \in Pushes, AskLock(p) \/ Lock(p)
    PROVE  MetadataInv'
<1>0. /\ TypesInv /\ push[p] \in PushState /\ StateInv(push[p]) /\ HeapOK /\ CacheOK
      /\ UNCHANGED <<cfg, cache, stored, lost>> /\ push[p].at \in Holding
      /\ push[p].at \in {"lock", "wait"}
  BY DEF MetadataInv, TypesInv, PushOK, AskLock, Lock, At, Holding
<1>1. Value(p) \in SetIds /\ push[p].res \in Resources
  BY <1>0, ValueFacts
<1>2. CASE AskLock(p)
  <2> DEFINE s == [push[p] EXCEPT !.at = "wait", !.lock = Value(p)]
  <2>1. Set(p, s) /\ heap' = heap
    BY <1>2 DEF AskLock
  <2>2. /\ s \in PushState /\ s.at = "wait" /\ s.res = push[p].res /\ s.entry = push[p].entry
        /\ s.lock = Value(p) /\ s.new = push[p].new /\ s.batch = push[p].batch
    BY <1>0, <1>1 DEF PushState, Ats, Holding
  <2> HIDE DEF s
  <2>3. StateInv(s) /\ ItemInv(s)
    BY <1>0, <1>1, <2>2, HeldFacts
  <2>4. HeapOK' /\ \A r \in Resources : AttrsOf(r)' = AttrsOf(r)
    BY <1>0, <2>1 DEF HeapOK, AttrsOf
  <2> QED BY <1>0, <2>1, <2>2, <2>3, <2>4, InvSet
<1>3. CASE Lock(p)
  <2> DEFINE s == [push[p] EXCEPT !.at = "test", !.lock = Nil, !.unlock = Value(p)]
             h == [heap EXCEPT ![push[p].lock].writer = TRUE]
  <2>1. Set(p, s) /\ heap' = Swept(h) /\ push[p].at = "wait"
    BY <1>3 DEF Lock, At
  <2>2. push[p].lock \in SetIds
    BY <1>0, <2>1 DEF StateInv
  <2>3. h \in [SetIds -> SetRecord] /\ \A i \in SetIds : h[i].attrs = heap[i].attrs
    BY <1>0, <2>2 DEF HeapOK, SetRecord
  <2>4. /\ s \in PushState /\ s.at = "test" /\ s.res = push[p].res /\ s.entry = push[p].entry
        /\ s.unlock = Value(p) /\ s.new = push[p].new /\ s.batch = push[p].batch
    BY <1>0, <1>1 DEF PushState, Ats, Holding
  <2> HIDE DEF s, h
  <2>5. StateInv(s) /\ ItemInv(s)
    BY <1>0, <1>1, <2>4, HeldFacts
  <2>6. HeapOK' /\ \A r \in Resources : AttrsOf(r)' = AttrsOf(r)
    BY <1>0, <2>1, <2>3, SameAttrs
  <2> QED BY <1>0, <2>1, <2>4, <2>5, <2>6, InvSet
<1> QED BY <1>2, <1>3

\* The limit of a set is tested, under the lock.
LEMMA InvTest ==
    ASSUME MetadataInv, NEW p \in Pushes, Test(p)
    PROVE  MetadataInv'
<1> DEFINE new == push[p].new
           L == limits[signal].attrs
<1>0. /\ TypesInv /\ push[p] \in PushState /\ StateInv(push[p]) /\ ItemInv(push[p])
      /\ HeapOK /\ CacheOK /\ PushOK
      /\ UNCHANGED <<cfg, cache, stored, lost>> /\ push[p].at = "test" /\ push[p].at \in Holding
  BY DEF MetadataInv, TypesInv, PushOK, Test, At, Holding
<1>a. PICK r0 \in Resources : r0 = push[p].res
  BY <1>0, ValueFacts
<1>1. /\ Value(p) \in SetIds /\ r0 \in Resources /\ provider = "in_memory"
      /\ push[p].entry = Attached => Value(p) = cache[r0]
  BY <1>0, <1>a, ValueFacts
<1>2. /\ push[p].unlock \in SetIds /\ push[p].entry \in SetIds \cup {Attached}
      /\ \A v \in new : <<r0, v>> \in push[p].batch
  BY <1>0, <1>a DEF StateInv, Adding, Holding
<1>3. CASE Cardinality(heap[Value(p)].attrs) + Cardinality(new) > L
  <2> DEFINE h == [heap EXCEPT ![push[p].unlock].writer = FALSE]
  <2>1. Set(p, NextGroup(p)) /\ heap' = Swept(h)
    BY <1>3 DEF Test
  <2>2. h \in [SetIds -> SetRecord] /\ \A i \in SetIds : h[i].attrs = heap[i].attrs
    BY <1>0, <1>2 DEF HeapOK, SetRecord
  <2> HIDE DEF h
  <2>3. HeapOK' /\ \A r \in Resources : AttrsOf(r)' = AttrsOf(r)
    BY <1>0, <2>1, <2>2, SameAttrs
  <2> QED BY <1>0, <2>1, <2>3, RestFacts, InvSet
<1>4. CASE ~(Cardinality(heap[Value(p)].attrs) + Cardinality(new) > L)
  <2> DEFINE s == [push[p] EXCEPT !.at = "fill", !.left = new]
             m == Cardinality(heap[Value(p)].attrs)
             n == Cardinality(new)
             k == Cardinality(Pushes)
  <2>1. Set(p, s) /\ heap' = heap
    BY <1>4 DEF Test
  <2>2. /\ s \in PushState /\ s.at = "fill" /\ s.res = r0 /\ s.entry = push[p].entry
        /\ s.unlock = push[p].unlock /\ s.left = new /\ s.new = new /\ s.batch = push[p].batch
    BY <1>0, <1>a DEF PushState, Ats, Holding
  <2>3. /\ L \in Nat /\ k \in Nat \ {0} /\ m \in Nat /\ n \in Nat
        /\ IsFiniteSet(new) /\ m + n <= L
    <3>1. heap[Value(p)].attrs \in SUBSET Values /\ new \in SUBSET Values
      BY <1>0, <1>1 DEF HeapOK, SetRecord, PushState
    <3>2. IsFiniteSet(heap[Value(p)].attrs) /\ IsFiniteSet(new) /\ m \in Nat /\ n \in Nat
      BY <3>1, FS_Subset, FS_CardinalityType, MetadataAssumption
    <3>3. L \in Nat /\ k \in Nat \ {0}
      BY <1>0, NumberFacts DEF TypesInv
    <3>4. ~(m + n > L)
      BY <1>4
    <3> HIDE DEF m, n, k, L
    <3> QED BY <3>2, <3>3, <3>4
  <2> HIDE DEF s
  <2>4. StateInv(s) /\ ItemInv(s)
    <3>1. Cardinality(s.left) <= L
      BY <2>2, <2>3
    <3>2. ItemInv(s)
      BY <1>0, <1>a, <2>2 DEF ItemInv
    <3>3. StateInv(s)
      BY <1>1, <1>2, <2>2, <3>1 DEF StateInv, Adding, Holding
    <3> QED BY <3>2, <3>3
  <2>5. push'[p] = s /\ \A q \in Pushes : q # p => push'[q] = push[q]
    BY <1>0, <2>1, <2>2, SetFacts
  <2>6. HeapOK' /\ \A r \in Resources : AttrsOf(r)' = AttrsOf(r)
    BY <1>0, <2>1 DEF HeapOK, AttrsOf
  <2>7. TypesInv'
    <3>1. LostOK'
      BY <1>0 DEF TypesInv, LostOK
    <3> QED BY <1>0, <2>1, <2>2, <2>4, <2>6, <3>1, TypesSet
  <2>8. KnownIsWritten'
    <3>1. \A q \in Pushes : push[q].batch \subseteq push'[q].batch
      BY <2>2, <2>5
    <3>2. Written \subseteq Written'
      BY <1>0, <3>1, WrittenKept
    <3> QED BY <2>6, <3>2, KnownKept DEF MetadataInv
  <2>9. ResourcesBounded'
    <3>1. Cached' = Cached /\ Makers' \subseteq Makers
      BY <1>0, <2>2, <2>5 DEF Cached, Makers
    <3> QED BY <1>0, <3>1, ResourcesKept DEF MetadataInv
  <2>10. provider' = provider /\ limits' = limits /\ signal' = signal
    BY <1>0 DEF provider, limits, signal
  <2>11. CASE push[p].entry # Attached
    <3>1. ASSUME NEW q \in Resources PROVE Pending(q)' \subseteq Pending(q)
      BY <2>2, <2>5, <2>11 DEF Pending, PendingOf, Filling
    <3>2. AttrsBounded'
      BY <1>0, <2>6, <3>1, AttrsKept DEF MetadataInv
    <3> QED BY <2>7, <2>8, <2>9, <3>2 DEF MetadataInv
  <2>12. CASE push[p].entry = Attached
    <3>1. ASSUME NEW r \in Resources, r # r0 PROVE Pending(r)' \subseteq Pending(r)
      BY <2>2, <2>5, <3>1 DEF Pending, PendingOf, Filling
    <3> DEFINE A == {x \in PendingOf(push', r0) : x[1] \in Pushes \ {p}}
               B == {p} \X new
    <3>2. Pending(r0)' \subseteq A \cup B
      BY <2>2, <2>5 DEF Pending, PendingOf
    <3>3. IsFiniteSet(A) /\ Cardinality(A) <= (k - 1) * L
      <4>1. push' \in [Pushes -> PushState] /\ Pushes \ {p} \in SUBSET Pushes
        BY <2>7 DEF TypesInv, PushOK
      <4>2. \A q \in Pushes : push'[q].at = "fill" => Cardinality(push'[q].left) <= L
        BY <2>7, <2>10 DEF TypesInv, StateInv
      <4>3. Cardinality(Pushes \ {p}) = k - 1
        BY FS_RemoveElement, MetadataAssumption
      <4>4. IsFiniteSet(A) /\ Cardinality(A) <= Cardinality(Pushes \ {p}) * L
        BY <2>3, <4>1, <4>2, PendingBound
      <4> QED BY <4>3, <4>4
    <3>4. IsFiniteSet(B) /\ Cardinality(B) = n
      <4>1. IsFiniteSet({p}) /\ Cardinality({p}) = 1
        BY FS_Singleton
      <4>2. IsFiniteSet({p} \X new) /\ Cardinality({p} \X new) = Cardinality({p}) * Cardinality(new)
        BY <2>3, <4>1, FS_Product
      <4> HIDE DEF n
      <4>3. 1 * n = n
        BY <2>3
      <4> QED BY <4>1, <4>2, <4>3 DEF n
    <3> HIDE DEF A, B
    <3>5. /\ IsFiniteSet(Pending(r0)') /\ Cardinality(Pending(r0)') \in Nat
          /\ Cardinality(Pending(r0)') <= Cardinality(A) + Cardinality(B)
          /\ Cardinality(A) \in Nat
      <4>1. IsFiniteSet(A \cup B) /\ Cardinality(A \cup B) \in Nat
        BY <3>3, <3>4, FS_Union, FS_CardinalityType
      <4>2. /\ IsFiniteSet(Pending(r0)') /\ Cardinality(Pending(r0)') <= Cardinality(A \cup B)
            /\ Cardinality(Pending(r0)') \in Nat
        BY <3>2, <4>1, FS_Subset, FS_CardinalityType
      <4>3. IsFiniteSet(A \cap B) /\ Cardinality(A \cap B) \in Nat
            /\ Cardinality(A \cup B) = Cardinality(A) + Cardinality(B) - Cardinality(A \cap B)
        <5>1. IsFiniteSet(A \cap B)
          BY <3>3, FS_Subset
        <5> QED BY <3>3, <3>4, <5>1, FS_Union, FS_CardinalityType
      <4>4. Cardinality(A) \in Nat /\ Cardinality(B) \in Nat
        BY <3>3, <3>4, FS_CardinalityType
      <4> QED BY <4>1, <4>2, <4>3, <4>4
    <3>6. AttrsOf(r0) = heap[Value(p)].attrs
      BY <1>0, <1>a, <1>1, <2>12 DEF AttrsOf, ItemInv
    <3>7. Cardinality(AttrsOf(r0)') + Cardinality(Pending(r0)') <= L * k
      <4>1. Cardinality(AttrsOf(r0)') = m
        BY <1>1, <2>6, <3>6
      <4> DEFINE a == Cardinality(A)
                 c == Cardinality(Pending(r0)')
      <4>2. a \in Nat /\ c \in Nat /\ a <= (k - 1) * L /\ c <= a + n
        BY <3>3, <3>4, <3>5
      <4> HIDE DEF a, c, m, n, k, L
      <4>3. (k - 1) * L = L * k - L
        BY <2>3
      <4>4. m + c <= L * k
        <5> DEFINE lk == L * k
        <5>1. lk \in Nat /\ a <= lk - L
          BY <2>3, <4>2, <4>3
        <5> HIDE DEF lk
        <5>2. m + c <= lk
          BY <2>3, <4>2, <5>1
        <5> QED BY <5>2 DEF lk
      <4> QED BY <4>1, <4>4 DEF c
    <3>8. ASSUME NEW r \in Resources, r # r0
          PROVE  Cardinality(AttrsOf(r)') + Cardinality(Pending(r)') <= L * k
      <4>1. /\ IsFiniteSet(Pending(r)) /\ Cardinality(Pending(r)) \in Nat
            /\ Cardinality(AttrsOf(r)) \in Nat
        BY <1>0, FiniteFacts
      <4>2. IsFiniteSet(Pending(r)') /\ Cardinality(Pending(r)') <= Cardinality(Pending(r))
        BY <3>1, <3>8, <4>1, FS_Subset
      <4>3. Cardinality(Pending(r)') \in Nat /\ L * k \in Nat
        BY <1>0, <4>2, FS_CardinalityType, NumberFacts DEF TypesInv
      <4>4. AttrsOf(r)' = AttrsOf(r)
        BY <2>6
      <4>5. Cardinality(AttrsOf(r)) + Cardinality(Pending(r)) <= L * k
        BY <1>1 DEF MetadataInv, AttrsBounded
      <4> HIDE DEF L, k
      <4> QED BY <4>1, <4>2, <4>3, <4>4, <4>5
    <3>9. AttrsBounded'
      BY <2>10, <3>7, <3>8 DEF AttrsBounded
    <3> QED BY <2>7, <2>8, <2>9, <3>9 DEF MetadataInv
  <2> QED BY <2>11, <2>12
<1> QED BY <1>3, <1>4

\* A value is added to the set that the item holds.
LEMMA InvFill ==
    ASSUME MetadataInv, NEW p \in Pushes, Fill(p)
    PROVE  MetadataInv'
<1> DEFINE L == limits[signal].attrs
           k == Cardinality(Pushes)
<1>0. /\ TypesInv /\ push[p] \in PushState /\ StateInv(push[p]) /\ ItemInv(push[p])
      /\ HeapOK /\ CacheOK /\ PushOK /\ OneOwner
      /\ UNCHANGED <<cfg, cache, stored, lost>> /\ push[p].at = "fill" /\ push[p].at \in Holding
  BY DEF MetadataInv, TypesInv, PushOK, Fill, At, Holding
<1>a. PICK r0 \in Resources : r0 = push[p].res
  BY <1>0, ValueFacts
<1>1. /\ Value(p) \in SetIds /\ provider = "in_memory"
      /\ push[p].entry = Attached => Value(p) = cache[r0]
      /\ push[p].entry # Attached => \A r \in Resources : cache[r] # Value(p)
  BY <1>0, <1>a, ValueFacts
<1>2. /\ push[p].unlock \in SetIds /\ push[p].left \subseteq push[p].new
      /\ \A v \in push[p].new : <<r0, v>> \in push[p].batch
      /\ Cardinality(push[p].left) <= L /\ push[p].left \subseteq Values
  BY <1>0, <1>a DEF StateInv, Adding, Holding, PushState
<1>3. PICK v \in push[p].left :
          LET rest == push[p].left \ {v}
              filled == [heap EXCEPT ![Value(p)].attrs = @ \cup {v}]
          IN
          IF rest # {}
          THEN Set(p, [push[p] EXCEPT !.left = rest]) /\ heap' = filled
          ELSE /\ heap[push[p].unlock].writer
               /\ Set(p, NextGroup(p))
               /\ heap' = Swept([filled EXCEPT ![push[p].unlock].writer = FALSE])
  BY DEF Fill
<1> DEFINE rest == push[p].left \ {v}
           filled == [heap EXCEPT ![Value(p)].attrs = @ \cup {v}]
<1>4. v \in Values /\ <<r0, v>> \in push[p].batch
  BY <1>2
<1>5. PICK s \in PushState :
          /\ Set(p, s) /\ StateInv(s) /\ ItemInv(s) /\ s.batch = push[p].batch
          /\ s.at \in {"fill", "groups"}
          /\ s.at = "fill" => /\ s.entry = push[p].entry /\ s.res = push[p].res
                              /\ s.left = push[p].left \ {v}
  <2>1. CASE rest # {}
    <3> DEFINE s == [push[p] EXCEPT !.left = rest]
    <3>1. Set(p, s)
      BY <1>3, <2>1
    <3>2. /\ s \in PushState /\ s.at = "fill" /\ s.entry = push[p].entry /\ s.res = push[p].res
          /\ s.left = push[p].left \ {v} /\ s.new = push[p].new /\ s.batch = push[p].batch
          /\ s.unlock = push[p].unlock
      BY <1>0 DEF PushState
    <3>3. Cardinality(s.left) <= L
      <4>1. IsFiniteSet(push[p].left) /\ Cardinality(push[p].left) \in Nat
        BY <1>2, FS_Subset, FS_CardinalityType, MetadataAssumption
      <4>2. /\ Cardinality(push[p].left \ {v}) <= Cardinality(push[p].left)
            /\ Cardinality(push[p].left \ {v}) \in Nat
        BY <4>1, FS_Subset, FS_CardinalityType
      <4>3. L \in Nat
        BY <1>0, NumberFacts DEF TypesInv
      <4> HIDE DEF L
      <4> QED BY <1>2, <3>2, <4>1, <4>2, <4>3
    <3> HIDE DEF s
    <3>4. StateInv(s) /\ ItemInv(s)
      <4>1. ItemInv(s)
        BY <1>0, <3>2 DEF ItemInv
      <4>2. s.entry \in SetIds \cup {Attached}
        BY <1>0, <3>2 DEF StateInv
      <4>3. StateInv(s)
        BY <1>a, <1>1, <1>2, <3>2, <3>3, <4>2 DEF StateInv, Adding, Holding
      <4> QED BY <4>1, <4>3
    <3> QED BY <3>1, <3>2, <3>4
  <2>2. CASE rest = {}
    <3>1. Set(p, NextGroup(p))
      BY <1>3, <2>2
    <3> QED BY <1>0, <3>1, RestFacts
  <2> QED BY <2>1, <2>2
<1>6. PICK h \in [SetIds -> SetRecord] :
          /\ heap' = h \/ heap' = Swept(h)
          /\ \A i \in SetIds : h[i].attrs = IF i = Value(p) THEN heap[i].attrs \cup {v}
                                            ELSE heap[i].attrs
  <2>1. /\ filled \in [SetIds -> SetRecord]
        /\ \A i \in SetIds : filled[i].attrs = IF i = Value(p) THEN heap[i].attrs \cup {v}
                                               ELSE heap[i].attrs
    BY <1>0, <1>1, <1>4 DEF HeapOK, SetRecord
  <2>2. CASE rest # {}
    <3>1. heap' = filled
      BY <1>3, <2>2
    <3> QED BY <2>1, <3>1
  <2>3. CASE rest = {}
    <3> HIDE DEF filled
    <3> DEFINE h == [filled EXCEPT ![push[p].unlock].writer = FALSE]
    <3>1. heap' = Swept(h)
      BY <1>3, <2>3 DEF filled
    <3>2. h \in [SetIds -> SetRecord] /\ \A i \in SetIds : h[i].attrs = filled[i].attrs
      BY <1>2, <2>1 DEF SetRecord
    <3> QED BY <2>1, <3>1, <3>2
  <2> QED BY <2>2, <2>3
<1> HIDE DEF rest, filled
<1>7. push'[p] = s /\ \A q \in Pushes : q # p => push'[q] = push[q]
  BY <1>0, <1>5, SetFacts
<1>8. /\ HeapOK'
      /\ \A r \in Resources : cache[r] # Nil => heap'[cache[r]] = h[cache[r]]
  <2>1. CacheOK'
    BY <1>0 DEF CacheOK
  <2> QED BY <1>0, <1>6, <2>1, HeapFacts
<1>9. ASSUME NEW r \in Resources
      PROVE  AttrsOf(r)' = IF push[p].entry = Attached /\ r = r0 THEN AttrsOf(r) \cup {v}
                           ELSE AttrsOf(r)
  <2>1. CASE cache[r] = Nil
    <3>1. ~(push[p].entry = Attached /\ r = r0)
      BY <1>1, <2>1, MetadataAssumption
    <3> QED BY <1>0, <2>1, <3>1 DEF AttrsOf
  <2>2. CASE cache[r] # Nil
    <3>1. cache[r] \in SetIds /\ heap'[cache[r]].attrs = h[cache[r]].attrs
      BY <1>0, <1>8, <2>2 DEF CacheOK
    <3>2. cache[r] = Value(p) <=> push[p].entry = Attached /\ r = r0
      BY <1>0, <1>1, <2>2 DEF OneOwner
    <3> QED BY <1>0, <1>6, <2>2, <3>1, <3>2 DEF AttrsOf
  <2> QED BY <2>1, <2>2
<1>10. TypesInv'
  <2>1. LostOK'
    BY <1>0 DEF TypesInv, LostOK
  <2> QED BY <1>0, <1>5, <1>8, <2>1, TypesSet
<1>11. Written \subseteq Written' /\ <<r0, v>> \in Written'
  <2>1. \A q \in Pushes : push[q].batch \subseteq push'[q].batch
    BY <1>5, <1>7
  <2>2. <<r0, v>> \in Written
    BY <1>4 DEF Written
  <2> QED BY <1>0, <2>1, <2>2, WrittenKept
<1>12. KnownIsWritten'
  <2>1. ASSUME NEW r \in Resources, NEW w \in AttrsOf(r)' PROVE <<r, w>> \in Written'
    <3>1. CASE w \in AttrsOf(r)
      BY <1>11, <3>1 DEF MetadataInv, KnownIsWritten, Written
    <3>2. CASE w \notin AttrsOf(r)
      BY <1>9, <1>11, <2>1, <3>2
    <3> QED BY <3>1, <3>2
  <2> QED BY <2>1 DEF KnownIsWritten, Written
<1>13. ResourcesBounded'
  <2>1. Cached' = Cached /\ Makers' \subseteq Makers
    BY <1>0, <1>5, <1>7 DEF Cached, Makers
  <2> QED BY <1>0, <2>1, ResourcesKept DEF MetadataInv
<1>14. \A r \in Resources : Pending(r)' \subseteq Pending(r)
  BY <1>0, <1>5, <1>7 DEF Pending, PendingOf, Filling
<1>15. AttrsBounded'
  <2>1. CASE push[p].entry # Attached
    BY <1>0, <1>9, <1>14, <2>1, AttrsKept DEF MetadataInv
  <2>2. CASE push[p].entry = Attached
    <3>1. <<p, v>> \in Pending(r0)
      BY <1>0, <1>a, <1>4, <2>2 DEF Pending, PendingOf, Filling
    <3>2. <<p, v>> \notin Pending(r0)'
      BY <1>5, <1>7 DEF Pending, PendingOf, Filling
    <3>3. ASSUME NEW r \in Resources
          PROVE  Cardinality(AttrsOf(r)') + Cardinality(Pending(r)') <= L * k
      <4>1. /\ IsFiniteSet(AttrsOf(r)) /\ Cardinality(AttrsOf(r)) \in Nat
            /\ IsFiniteSet(Pending(r)) /\ Cardinality(Pending(r)) \in Nat
        BY <1>0, FiniteFacts
      <4>2. L * k \in Nat
        BY <1>0, NumberFacts DEF TypesInv
      <4>3. Cardinality(AttrsOf(r)) + Cardinality(Pending(r)) <= L * k
        BY <1>1 DEF MetadataInv, AttrsBounded
      <4>4. CASE r # r0
        <5>1. AttrsOf(r)' = AttrsOf(r)
          BY <1>9, <4>4
        <5>2. IsFiniteSet(Pending(r)') /\ Cardinality(Pending(r)') <= Cardinality(Pending(r))
          BY <1>14, <4>1, FS_Subset
        <5>3. Cardinality(Pending(r)') \in Nat
          BY <5>2, FS_CardinalityType
        <5> HIDE DEF L, k
        <5> QED BY <4>1, <4>2, <4>3, <5>1, <5>2, <5>3
      <4>5. CASE r = r0
        <5>1. AttrsOf(r)' = AttrsOf(r) \cup {v}
          BY <1>9, <2>2, <4>5
        <5>2. /\ Cardinality(AttrsOf(r)') \in Nat
              /\ Cardinality(AttrsOf(r)') <= Cardinality(AttrsOf(r)) + 1
          <6>1. /\ IsFiniteSet(AttrsOf(r)')
                /\ Cardinality(AttrsOf(r)') = IF v \in AttrsOf(r) THEN Cardinality(AttrsOf(r))
                                              ELSE Cardinality(AttrsOf(r)) + 1
            BY <4>1, <5>1, FS_AddElement
          <6> QED BY <4>1, <6>1
        <5>3. Pending(r)' \subseteq Pending(r) \ {<<p, v>>}
          BY <1>14, <3>2, <4>5
        <5>4. /\ IsFiniteSet(Pending(r) \ {<<p, v>>})
              /\ Cardinality(Pending(r) \ {<<p, v>>}) = Cardinality(Pending(r)) - 1
          BY <3>1, <4>1, <4>5, FS_RemoveElement
        <5>5. IsFiniteSet(Pending(r)') /\ Cardinality(Pending(r)') <= Cardinality(Pending(r)) - 1
          BY <5>3, <5>4, FS_Subset
        <5>6. Cardinality(Pending(r)') \in Nat
          BY <5>5, FS_CardinalityType
        <5> HIDE DEF L, k
        <5> QED BY <4>1, <4>2, <4>3, <5>2, <5>5, <5>6
      <4> QED BY <4>4, <4>5
    <3>4. provider' = provider /\ limits' = limits /\ signal' = signal
      BY <1>0 DEF provider, limits, signal
    <3> QED BY <3>3, <3>4 DEF AttrsBounded
  <2> QED BY <2>1, <2>2
<1> QED BY <1>10, <1>12, <1>13, <1>15 DEF MetadataInv

\* A new set is put into the item of a resource, which other pushes may hold.
LEMMA InvMakeEntry ==
    ASSUME MetadataInv, NEW p \in Pushes, MakeEntry(p)
    PROVE  MetadataInv'
<1> DEFINE L == limits[signal].attrs
           k == Cardinality(Pushes)
<1>0. /\ TypesInv /\ push[p] \in PushState /\ StateInv(push[p])
      /\ HeapOK /\ CacheOK /\ PushOK /\ OneOwner
      /\ UNCHANGED <<cfg, stored, lost>> /\ push[p].at = "make"
  BY DEF MetadataInv, TypesInv, PushOK, MakeEntry, At
<1>1. /\ push[p].res \in Resources /\ provider = "in_memory"
      /\ \A v \in push[p].new : <<push[p].res, v>> \in push[p].batch
  BY <1>0 DEF StateInv, Adding
<1>2. PICK r0 \in Resources : r0 = push[p].res
  BY <1>1
<1>3. PICK i \in SetIds, removed \in BOOLEAN :
          /\ Fresh(i) /\ cache' = [cache EXCEPT ![r0] = i]
          /\ push' = [q \in Pushes |->
                        IF q = p THEN [push[p] EXCEPT !.at = "lock", !.entry = Attached]
                        ELSE IF push[q].res = r0 /\ push[q].entry # Nil /\ ~removed
                        THEN [push[q] EXCEPT !.entry = Attached]
                        ELSE push[q]]
          /\ heap' = Swept([heap EXCEPT ![i] = EmptySet])
  BY <1>2 DEF MakeEntry
<1>4. /\ \A r \in Resources : cache[r] # i
      /\ \A q \in Pushes : push[q].entry # i
  BY <1>3 DEF Fresh, InUse
<1>5. provider' = provider /\ limits' = limits /\ signal' = signal
  BY <1>0 DEF provider, limits, signal
<1>6. /\ CacheOK' /\ OneOwner' /\ cache'[r0] = i
      /\ \A r \in Resources : r # r0 => cache'[r] = cache[r]
  BY <1>0, <1>3, <1>4 DEF CacheOK, OneOwner
<1>7. ASSUME NEW q \in Pushes
      PROVE  /\ push'[q] \in PushState
             /\ push'[q].at = IF q = p THEN "lock" ELSE push[q].at
             /\ push'[q].res = push[q].res /\ push'[q].left = push[q].left
             /\ push'[q].new = push[q].new /\ push'[q].batch = push[q].batch
             /\ push'[q].lock = push[q].lock /\ push'[q].unlock = push[q].unlock
             /\ \/ push'[q].entry = push[q].entry /\ q # p
                \/ /\ push'[q].entry = Attached /\ push[q].res = r0
                   /\ q = p \/ push[q].entry # Nil
  <2>1. push[q] \in PushState
    BY <1>0 DEF PushOK
  <2>2. CASE q = p
    <3>1. push'[q] = [push[q] EXCEPT !.at = "lock", !.entry = Attached]
      BY <1>3, <2>2
    <3> QED BY <1>2, <2>1, <2>2, <3>1 DEF PushState, Ats, Holding
  <2>3. CASE q # p /\ push[q].res = r0 /\ push[q].entry # Nil /\ ~removed
    <3>1. push'[q] = [push[q] EXCEPT !.entry = Attached]
      BY <1>3, <2>3
    <3> QED BY <2>1, <2>3, <3>1 DEF PushState
  <2>4. CASE q # p /\ ~(push[q].res = r0 /\ push[q].entry # Nil /\ ~removed)
    <3>1. push'[q] = push[q]
      BY <1>3, <2>4
    <3> QED BY <2>1, <2>4, <3>1
  <2> QED BY <2>2, <2>3, <2>4
<1>8. PushOK'
  <2>1. push' = [q \in Pushes |-> push'[q]]
    BY <1>3
  <2> QED BY <1>7, <2>1 DEF PushOK
<1>9. ASSUME NEW q \in Pushes PROVE StateInv(push'[q])
  <2>1. StateInv(push[q])
    BY <1>0 DEF TypesInv
  <2>2. CASE q = p
    <3>1. push'[p].at = "lock" /\ push'[p].res = push[p].res /\ push'[p].entry = Attached
      BY <1>7
    <3>2. push'[p].new = push[p].new /\ push'[p].batch = push[p].batch
      BY <1>7
    <3> QED BY <1>1, <2>2, <3>1, <3>2 DEF StateInv, Adding, Holding
  <2>3. CASE q # p /\ push'[q].entry = push[q].entry
    BY <1>7, <2>1, <2>3 DEF StateInv
  <2>4. CASE q # p /\ push'[q].entry # push[q].entry
    <3>1. push'[q].entry = Attached /\ push[q].entry # Nil
      BY <1>7, <2>4
    <3>2. push[q].at \in Holding
      BY <1>1, <2>1, <3>1 DEF StateInv
    <3>3. push'[q].at = push[q].at
      BY <1>7, <2>4
    <3> QED BY <1>7, <2>1, <3>1, <3>2, <3>3 DEF StateInv, Holding
  <2> QED BY <2>2, <2>3, <2>4
<1>10. ASSUME NEW q \in Pushes PROVE ItemInv(push[q])'
  <2>1. StateInv(push[q]) /\ ItemInv(push[q])
    BY <1>0 DEF TypesInv
  <2>2. CASE push'[q].entry = Attached
    <3>1. CASE push[q].res = r0
      BY <1>3, <1>6, <1>7, <2>2, <3>1, MetadataAssumption DEF ItemInv
    <3>2. CASE push[q].res # r0
      <4>1. push[q].entry = Attached
        BY <1>7, <2>2, <3>2
      <4>2. push[q].res \in Resources /\ cache[push[q].res] # Nil
        BY <1>1, <2>1, <4>1, MetadataAssumption DEF StateInv, ItemInv
      <4> QED BY <1>6, <1>7, <2>2, <3>2, <4>2, MetadataAssumption DEF ItemInv
    <3> QED BY <3>1, <3>2
  <2>3. CASE push'[q].entry # Attached
    <3>1. push'[q].entry = push[q].entry
      BY <1>7, <2>3
    <3> QED BY <1>4, <1>6, <2>1, <2>3, <3>1 DEF ItemInv
  <2> QED BY <2>2, <2>3
<1> DEFINE h == [heap EXCEPT ![i] = EmptySet]
<1>11. /\ HeapOK' /\ h \in [SetIds -> SetRecord]
       /\ \A r \in Resources : cache'[r] # Nil => heap'[cache'[r]] = h[cache'[r]]
  <2>1. h \in [SetIds -> SetRecord]
    BY <1>0 DEF HeapOK, SetRecord, EmptySet
  <2>2. heap' = Swept(h)
    BY <1>3
  <2> HIDE DEF h
  <2> QED BY <1>6, <2>1, <2>2, HeapFacts
<1>12. ASSUME NEW r \in Resources
       PROVE  AttrsOf(r)' = IF r = r0 THEN {} ELSE AttrsOf(r)
  <2>1. CASE r = r0
    <3>1. heap'[i] = EmptySet
      BY <1>0, <1>6, <1>11, MetadataAssumption DEF HeapOK
    <3> QED BY <1>6, <2>1, <3>1, MetadataAssumption DEF AttrsOf, EmptySet
  <2>2. CASE r # r0 /\ cache[r] = Nil
    BY <1>6, <2>2 DEF AttrsOf
  <2>3. CASE r # r0 /\ cache[r] # Nil
    <3>1. cache[r] \in SetIds /\ cache[r] # i
      BY <1>0, <1>4, <2>3 DEF CacheOK
    <3>2. heap'[cache[r]] = h[cache[r]]
      BY <1>6, <1>11, <2>3
    <3>3. heap'[cache[r]] = heap[cache[r]]
      BY <1>0, <3>1, <3>2 DEF HeapOK
    <3> QED BY <1>6, <2>3, <3>3 DEF AttrsOf
  <2> QED BY <2>1, <2>2, <2>3
<1> HIDE DEF h
<1>13. TypesInv'
  <2>1. CfgOK' /\ LostOK'
    BY <1>0 DEF TypesInv, CfgOK, LostOK
  <2>2. \A q \in Pushes : StateInv(push[q])'
    BY <1>5, <1>9 DEF StateInv
  <2> QED BY <1>6, <1>8, <1>10, <1>11, <2>1, <2>2 DEF TypesInv
<1>14. KnownIsWritten'
  <2>1. \A q \in Pushes : push[q].batch \subseteq push'[q].batch
    BY <1>7
  <2>2. Written \subseteq Written'
    BY <1>0, <2>1, WrittenKept
  <2>3. \A r \in Resources : AttrsOf(r)' \subseteq AttrsOf(r)
    BY <1>12
  <2> QED BY <2>2, <2>3, KnownKept DEF MetadataInv
<1>15. AttrsBounded'
  <2>1. L \in Nat /\ L * k \in Nat /\ k \in Nat
    BY <1>0, NumberFacts DEF TypesInv
  <2>2. Cardinality(AttrsOf(r0)') + Cardinality(Pending(r0)') <= L * k
    <3>1. \A q \in Pushes : push'[q].at = "fill" => Cardinality(push'[q].left) <= L
      BY <1>9 DEF StateInv
    <3>2. push' \in [Pushes -> PushState] /\ Pushes \in SUBSET Pushes
      BY <1>8 DEF PushOK
    <3> DEFINE S == {x \in PendingOf(push', r0) : x[1] \in Pushes}
    <3>3. IsFiniteSet(S) /\ Cardinality(S) <= k * L
      BY <2>1, <3>1, <3>2, PendingBound
    <3>4. Pending(r0)' = S
      BY DEF Pending, PendingOf
    <3>5. Cardinality(AttrsOf(r0)') = 0
      BY <1>12, FS_EmptySet
    <3>6. Cardinality(Pending(r0)') \in Nat
      BY <3>3, <3>4, FS_CardinalityType
    <3> HIDE DEF L, k, S
    <3>7. k * L = L * k
      BY <2>1
    <3> QED BY <2>1, <3>3, <3>4, <3>5, <3>6, <3>7
  <2>3. ASSUME NEW r \in Resources, r # r0
        PROVE  Cardinality(AttrsOf(r)') + Cardinality(Pending(r)') <= L * k
    <3>1. /\ IsFiniteSet(Pending(r)) /\ Cardinality(Pending(r)) \in Nat
          /\ Cardinality(AttrsOf(r)) \in Nat
      BY <1>0, FiniteFacts
    <3>2. Pending(r)' \subseteq Pending(r)
      BY <1>7, <2>3, <1>0 DEF Pending, PendingOf, Filling
    <3>3. IsFiniteSet(Pending(r)') /\ Cardinality(Pending(r)') <= Cardinality(Pending(r))
      BY <3>1, <3>2, FS_Subset
    <3>4. Cardinality(Pending(r)') \in Nat
      BY <3>3, FS_CardinalityType
    <3>5. AttrsOf(r)' = AttrsOf(r)
      BY <1>12, <2>3
    <3>6. Cardinality(AttrsOf(r)) + Cardinality(Pending(r)) <= L * k
      BY <1>1 DEF MetadataInv, AttrsBounded
    <3> HIDE DEF L, k
    <3> QED BY <2>1, <3>1, <3>3, <3>4, <3>5, <3>6
  <2> QED BY <1>5, <2>2, <2>3 DEF AttrsBounded
<1>16. ResourcesBounded'
  <2>1. Cached' = Cached \cup {r0} /\ Makers' = Makers \ {p} /\ p \in Makers
    <3>1. Cached' = Cached \cup {r0}
      BY <1>6, MetadataAssumption DEF Cached
    <3>2. Makers' = Makers \ {p} /\ p \in Makers
      BY <1>0, <1>7 DEF Makers
    <3> QED BY <3>1, <3>2
  <2>2. IsFiniteSet(Cached) /\ IsFiniteSet(Makers)
    BY FS_Subset, MetadataAssumption DEF Cached, Makers
  <2>3. Cardinality(Cached) \in Nat /\ Cardinality(Makers) \in Nat
    BY <2>2, FS_CardinalityType
  <2>4. Cardinality(Cached') = Cardinality(Cached) \/ Cardinality(Cached') = Cardinality(Cached) + 1
    BY <2>1, <2>2, FS_AddElement
  <2>5. Cardinality(Makers') = Cardinality(Makers) - 1
    BY <2>1, <2>2, FS_RemoveElement
  <2>6. limits[signal].resources \in Nat /\ Cardinality(Pushes) \in Nat
    BY <1>0, NumberFacts DEF TypesInv
  <2> QED BY <1>1, <1>5, <2>3, <2>4, <2>5, <2>6 DEF MetadataInv, ResourcesBounded
<1> QED BY <1>13, <1>14, <1>15, <1>16 DEF MetadataInv

\* Redis is asked for the limits, and told of what is new.
LEMMA InvRedis ==
    ASSUME MetadataInv, NEW p \in Pushes, RedisCheck(p) \/ RedisAddFails(p) \/ RedisAdd(p)
    PROVE  MetadataInv'
<1>0. /\ TypesInv /\ push[p] \in PushState /\ StateInv(push[p])
      /\ HeapOK /\ CacheOK /\ PushOK /\ OneOwner
      /\ UNCHANGED <<cfg, stored, lost>> /\ push[p].at \in {"add", "pipe"}
      /\ push[p].at = "add" => provider = "redis"
  BY DEF MetadataInv, TypesInv, PushOK, RedisCheck, RedisAdd, RedisAddFails, At
<1>1. /\ provider = "redis" /\ push[p].res \in Resources
      /\ \A v \in push[p].new : <<push[p].res, v>> \in push[p].batch
  BY <1>0 DEF StateInv, Adding
<1>2. ASSUME cache' = cache, heap' = heap, NEW s \in PushState, Set(p, s), StateInv(s),
             ItemInv(s), s.at \in {"groups", "pipe"}, s.batch = push[p].batch
      PROVE  MetadataInv'
  <2>1. HeapOK' /\ \A r \in Resources : AttrsOf(r)' = AttrsOf(r)
    BY <1>0, <1>2 DEF HeapOK, AttrsOf
  <2> QED BY <1>0, <1>2, <2>1, InvSet
<1>3. ASSUME cache' = cache, heap' = heap, Set(p, NextGroup(p)) PROVE MetadataInv'
  BY <1>0, <1>2, <1>3, RestFacts
<1>4. CASE RedisCheck(p)
  <2> DEFINE s == [push[p] EXCEPT !.at = "pipe", !.entry = Attached]
  <2>1. cache' = cache /\ heap' = heap /\ (Set(p, NextGroup(p)) \/ Set(p, s))
    BY <1>4 DEF RedisCheck
  <2>2. /\ s \in PushState /\ s.at = "pipe" /\ s.res = push[p].res /\ s.entry = Attached
        /\ s.new = push[p].new /\ s.batch = push[p].batch
    BY <1>0 DEF PushState, Ats, Adding
  <2> HIDE DEF s
  <2>3. StateInv(s) /\ ItemInv(s)
    BY <1>1, <2>2, MetadataAssumption DEF StateInv, ItemInv, Adding, Holding
  <2> QED BY <1>2, <1>3, <2>1, <2>2, <2>3
<1>5. CASE RedisAddFails(p) \/ (RedisAdd(p) /\ push[p].entry = Nil)
  <2>1. cache' = cache /\ heap' = heap /\ Set(p, NextGroup(p))
    BY <1>5 DEF RedisAddFails, RedisAdd
  <2> QED BY <1>3, <2>1
<1>6. CASE RedisAdd(p) /\ push[p].entry # Nil
  <2>1. PICK r0 \in Resources : r0 = push[p].res
    BY <1>1
  <2>2. PICK i \in SetIds :
          /\ IF cache[r0] = Nil THEN Fresh(i) ELSE i = cache[r0]
          /\ cache' = [cache EXCEPT ![r0] = i]
          /\ heap' = [heap EXCEPT ![i] =
                         [EmptySet EXCEPT !.attrs = AttrsOf(r0) \cup push[p].new]]
    BY <1>6, <2>1 DEF RedisAdd
  <2>3. Set(p, NextGroup(p))
    BY <1>6 DEF RedisAdd
  <2>4. /\ NextGroup(p) \in PushState /\ StateInv(NextGroup(p))
        /\ NextGroup(p).entry = Nil /\ NextGroup(p).batch = push[p].batch
    BY <1>0, RestFacts
  <2>5. /\ PushOK' /\ push'[p] = NextGroup(p)
        /\ \A q \in Pushes : q # p => push'[q] = push[q]
    BY <1>0, <2>3, <2>4, SetFacts
  <2>6. \A r \in Resources : r # r0 => cache[r] # i
    BY <1>0, <2>2 DEF Fresh, InUse, OneOwner
  <2>7. CacheOK' /\ OneOwner' /\ cache'[r0] = i /\ \A r \in Resources : r # r0 => cache'[r] = cache[r]
    BY <1>0, <2>2, <2>6 DEF CacheOK, OneOwner
  <2>8. HeapOK' /\ heap'[i].attrs = AttrsOf(r0) \cup push[p].new
    <3>1. AttrsOf(r0) \cup push[p].new \in SUBSET Values
      BY <1>0, FiniteFacts DEF PushState
    <3> DEFINE e == [EmptySet EXCEPT !.attrs = AttrsOf(r0) \cup push[p].new]
    <3>2. e \in SetRecord /\ e.attrs = AttrsOf(r0) \cup push[p].new
      BY <3>1 DEF SetRecord, EmptySet
    <3>3. heap' = [heap EXCEPT ![i] = e]
      BY <2>2
    <3> HIDE DEF e
    <3> QED BY <1>0, <3>2, <3>3 DEF HeapOK
  <2>9. ASSUME NEW r \in Resources
        PROVE  AttrsOf(r)' = IF r = r0 THEN AttrsOf(r) \cup push[p].new ELSE AttrsOf(r)
    <3>1. CASE r = r0
      BY <2>7, <2>8, <3>1, MetadataAssumption DEF AttrsOf
    <3>2. CASE r # r0
      <4>1. cache[r] # Nil => cache[r] \in SetIds /\ heap'[cache[r]] = heap[cache[r]]
        BY <1>0, <2>2, <2>6, <3>2 DEF CacheOK, HeapOK
      <4> QED BY <2>7, <3>2, <4>1 DEF AttrsOf
    <3> QED BY <3>1, <3>2
  <2>10. provider' = "redis" /\ limits' = limits /\ signal' = signal /\ provider' = provider
    BY <1>0, <1>1 DEF provider, limits, signal
  <2>11. ASSUME NEW q \in Pushes PROVE StateInv(push[q])' /\ ItemInv(push[q])'
    <3>1. StateInv(push'[q])
      BY <1>0, <2>4, <2>5 DEF TypesInv
    <3>2. push'[q].entry \notin SetIds
      <4>1. push'[q].at \notin Holding
        BY <1>1, <3>1 DEF StateInv
      <4> QED BY <3>1, <4>1, MetadataAssumption DEF StateInv
    <3> QED BY <2>10, <3>1, <3>2 DEF StateInv, ItemInv
  <2>12. TypesInv'
    <3>1. CfgOK' /\ LostOK'
      BY <1>0 DEF TypesInv, CfgOK, LostOK
    <3> QED BY <2>5, <2>7, <2>8, <2>11, <3>1 DEF TypesInv
  <2>13. KnownIsWritten'
    <3>1. \A q \in Pushes : push[q].batch \subseteq push'[q].batch
      BY <2>4, <2>5
    <3>2. Written \subseteq Written'
      BY <1>0, <3>1, WrittenKept
    <3>3. ASSUME NEW r \in Resources, NEW v \in AttrsOf(r)' PROVE <<r, v>> \in Written
      <4>1. CASE v \in AttrsOf(r)
        BY <4>1 DEF MetadataInv, KnownIsWritten, Written
      <4>2. CASE v \notin AttrsOf(r)
        <5>1. r = r0 /\ v \in push[p].new
          BY <2>9, <3>3, <4>2
        <5> QED BY <1>1, <2>1, <5>1 DEF Written
      <4> QED BY <4>1, <4>2
    <3> QED BY <3>2, <3>3 DEF KnownIsWritten, Written
  <2>14. AttrsBounded' /\ ResourcesBounded'
    BY <2>10 DEF AttrsBounded, ResourcesBounded
  <2> QED BY <2>12, <2>13, <2>14 DEF MetadataInv
<1> QED BY <1>4, <1>5, <1>6

\* The statement is sent, or fails.
LEMMA InvSend ==
    ASSUME MetadataInv, NEW p \in Pushes, Send(p) \/ SendFails(p)
    PROVE  MetadataInv'
<1>0. /\ TypesInv /\ push[p] \in PushState /\ HeapOK /\ CacheOK /\ PushOK /\ LostOK
      /\ UNCHANGED <<cfg, cache>> /\ heap' = heap /\ Set(p, Idle)
  BY DEF MetadataInv, TypesInv, PushOK, Send, SendFails
<1>1. /\ Idle \in PushState /\ StateInv(Idle) /\ ItemInv(Idle)
      /\ Idle.at = "idle" /\ Idle.batch = {}
  BY <1>0, RestFacts
<1>2. HeapOK' /\ \A r \in Resources : AttrsOf(r)' = AttrsOf(r)
  BY <1>0 DEF HeapOK, AttrsOf
<1>3. push'[p] = Idle /\ \A q \in Pushes : q # p => push'[q] = push[q]
  BY <1>0, <1>1, SetFacts
<1>4. push[p].batch \subseteq Pairs /\ push[p].age \in {Current, Earlier}
  BY <1>0 DEF PushState
<1>5. LostOK' /\ stored \cup Lost \cup push[p].batch \subseteq stored' \cup Lost'
  <2>1. CASE Send(p)
    <3>1. /\ stored' = stored \cup push[p].batch
          /\ lost' = [x \in Pairs |-> IF x \in push[p].batch /\ push[p].age <= lost[x]
                                      THEN Never ELSE lost[x]]
      BY <2>1 DEF Send
    <3>2. LostOK'
      BY <1>0, <3>1 DEF LostOK
    <3> QED BY <3>1, <3>2 DEF Lost
  <2>2. CASE SendFails(p)
    <3>1. /\ stored' = stored
          /\ lost' = [x \in Pairs |-> IF x \in push[p].batch /\ push[p].age < lost[x]
                                      THEN push[p].age ELSE lost[x]]
      BY <2>2 DEF SendFails
    <3>2. LostOK'
      BY <1>0, <1>4, <3>1 DEF LostOK
    <3>3. ASSUME NEW x \in Pairs, x \in push[p].batch \/ lost[x] # Never PROVE lost'[x] # Never
      <4>1. lost[x] \in {Current, Earlier, Never}
        BY <1>0 DEF LostOK
      <4> QED BY <1>4, <3>1, <3>3, <4>1 DEF Current, Earlier, Never
    <3> QED BY <1>4, <3>1, <3>2, <3>3 DEF Lost
  <2> QED BY <2>1, <2>2
<1>6. TypesInv'
  BY <1>0, <1>1, <1>2, <1>5, TypesSet
<1>7. KnownIsWritten'
  <2>1. ASSUME NEW x \in Written PROVE x \in Written'
    <3>1. CASE x \in stored \cup Lost \cup push[p].batch
      BY <1>5, <3>1 DEF Written
    <3>2. CASE \E q \in Pushes : q # p /\ x \in push[q].batch
      BY <1>3, <3>2 DEF Written
    <3> QED BY <3>1, <3>2 DEF Written
  <2> QED BY <1>2, <2>1, KnownKept DEF MetadataInv
<1>8. AttrsBounded'
  <2>1. ASSUME NEW r \in Resources PROVE Pending(r)' \subseteq Pending(r)
    BY <1>1, <1>3 DEF Pending, PendingOf, Filling
  <2> QED BY <1>0, <1>2, <2>1, AttrsKept DEF MetadataInv
<1>9. ResourcesBounded'
  <2>1. Cached' = Cached /\ Makers' \subseteq Makers
    BY <1>0, <1>1, <1>3 DEF Cached, Makers
  <2> QED BY <1>0, <2>1, ResourcesKept DEF MetadataInv
<1> QED BY <1>6, <1>7, <1>8, <1>9 DEF MetadataInv

\* An item reaches its TTL; pushes that hold it keep its set.
LEMMA InvExpire ==
    ASSUME MetadataInv, NEW r0 \in Resources, Expire(r0)
    PROVE  MetadataInv'
<1>0. /\ TypesInv /\ HeapOK /\ CacheOK /\ PushOK /\ OneOwner /\ provider = "in_memory"
      /\ UNCHANGED <<cfg, stored, lost>> /\ cache' = [cache EXCEPT ![r0] = Nil]
      /\ push' = [p \in Pushes |-> IF push[p].res = r0 /\ push[p].entry = Attached
                                   THEN [push[p] EXCEPT !.entry = cache[r0]] ELSE push[p]]
      /\ heap' = Swept(heap)
  BY DEF MetadataInv, TypesInv, Expire, ExpireItem
<1>1. provider' = provider /\ limits' = limits /\ signal' = signal
  BY <1>0 DEF provider, limits, signal
<1>2. /\ CacheOK' /\ OneOwner' /\ cache'[r0] = Nil
      /\ \A r \in Resources : r # r0 => cache'[r] = cache[r]
  BY <1>0 DEF CacheOK, OneOwner
<1>3. ASSUME NEW q \in Pushes
      PROVE  /\ push'[q] \in PushState
             /\ push'[q].at = push[q].at /\ push'[q].batch = push[q].batch
             /\ push'[q] = push[q] \/ push'[q].entry # Attached
             /\ StateInv(push'[q]) /\ ItemInv(push[q])'
  <2>1. push[q] \in PushState /\ StateInv(push[q]) /\ ItemInv(push[q])
    BY <1>0 DEF TypesInv, PushOK
  <2>2. CASE push[q].res = r0 /\ push[q].entry = Attached
    <3>1. push'[q] = [push[q] EXCEPT !.entry = cache[r0]]
      BY <1>0, <2>2
    <3>2. cache[r0] \in SetIds
      BY <1>0, <2>1, <2>2 DEF ItemInv, CacheOK
    <3>3. /\ push'[q] \in PushState /\ push'[q].entry = cache[r0] /\ push'[q].at = push[q].at
          /\ push'[q].res = push[q].res /\ push'[q].left = push[q].left
          /\ push'[q].new = push[q].new /\ push'[q].batch = push[q].batch
          /\ push'[q].lock = push[q].lock /\ push'[q].unlock = push[q].unlock
      BY <2>1, <3>1, <3>2 DEF PushState
    <3>4. push[q].at \in Holding
      BY <1>0, <2>1, <2>2, MetadataAssumption DEF StateInv
    <3>5. StateInv(push'[q])
      BY <2>1, <3>2, <3>3, <3>4 DEF StateInv, Holding
    <3>6. \A r \in Resources : cache'[r] # cache[r0]
      BY <1>0, <1>2, <3>2, MetadataAssumption DEF OneOwner
    <3>7. ItemInv(push[q])'
      BY <3>2, <3>3, <3>6, MetadataAssumption DEF ItemInv
    <3> QED BY <3>2, <3>3, <3>5, <3>7, MetadataAssumption
  <2>3. CASE ~(push[q].res = r0 /\ push[q].entry = Attached)
    <3>1. push'[q] = push[q]
      BY <1>0, <2>3
    <3>2. ItemInv(push[q])'
      <4>1. CASE push[q].entry = Attached
        <5>1. push[q].res \in Resources /\ cache[push[q].res] # Nil
          BY <1>0, <2>1, <4>1, MetadataAssumption DEF StateInv, ItemInv
        <5> QED BY <1>2, <2>3, <3>1, <4>1, <5>1, MetadataAssumption DEF ItemInv
      <4>2. CASE push[q].entry # Attached
        BY <1>2, <2>1, <3>1, <4>2, MetadataAssumption DEF ItemInv
      <4> QED BY <4>1, <4>2
    <3> QED BY <2>1, <3>1, <3>2
  <2> QED BY <2>2, <2>3
<1>4. /\ HeapOK'
      /\ \A r \in Resources : cache'[r] # Nil => heap'[cache'[r]] = heap[cache'[r]]
  BY <1>0, <1>2, HeapFacts DEF HeapOK
<1>5. \A r \in Resources : AttrsOf(r)' \subseteq AttrsOf(r)
  BY <1>2, <1>4 DEF AttrsOf
<1>6. TypesInv'
  <2>1. CfgOK' /\ LostOK'
    BY <1>0 DEF TypesInv, CfgOK, LostOK
  <2>2. PushOK'
    <3>1. push' = [q \in Pushes |-> push'[q]]
      BY <1>0
    <3> QED BY <1>3, <3>1 DEF PushOK
  <2>3. \A q \in Pushes : StateInv(push[q])'
    BY <1>1, <1>3 DEF StateInv
  <2> QED BY <1>2, <1>3, <1>4, <2>1, <2>2, <2>3 DEF TypesInv
<1>7. KnownIsWritten'
  <2>1. Written \subseteq Written'
    BY <1>0, <1>3, WrittenKept
  <2> QED BY <1>5, <2>1, KnownKept DEF MetadataInv
<1>8. AttrsBounded'
  <2>1. ASSUME NEW r \in Resources PROVE Pending(r)' \subseteq Pending(r)
    BY <1>3 DEF Pending, PendingOf, Filling
  <2> QED BY <1>0, <1>5, <2>1, AttrsKept DEF MetadataInv
<1>9. ResourcesBounded'
  <2>1. Cached' \subseteq Cached /\ Makers' \subseteq Makers
    BY <1>2, <1>3 DEF Cached, Makers
  <2> QED BY <1>0, <2>1, ResourcesKept DEF MetadataInv
<1> QED BY <1>6, <1>7, <1>8, <1>9 DEF MetadataInv

\* A window ends; with Redis the cache is another one.
LEMMA InvWindow ==
    ASSUME MetadataInv, WindowTurns
    PROVE  MetadataInv'
<1>0. /\ TypesInv /\ HeapOK /\ CacheOK /\ PushOK /\ OneOwner /\ LostOK
      /\ UNCHANGED <<cfg, stored>>
      /\ IF provider = "redis" THEN cache' = [r \in Resources |-> Nil] ELSE cache' = cache
      /\ push' = [p \in Pushes |->
                    IF push[p].at = "idle" THEN push[p]
                    ELSE [push[p] EXCEPT !.age = Earlier,
                             !.entry = IF provider = "redis" THEN Nil ELSE @]]
      /\ lost' = [x \in Pairs |-> IF lost[x] = Current THEN Earlier ELSE lost[x]]
      /\ heap' = Swept(heap)
  BY DEF MetadataInv, TypesInv, WindowTurns
<1>1. /\ provider' = provider /\ limits' = limits /\ signal' = signal
      /\ provider \in {"in_memory", "redis"}
  BY <1>0, NumberFacts DEF provider, limits, signal, TypesInv
<1>2. CacheOK' /\ OneOwner' /\ \A r \in Resources : cache'[r] \in {Nil, cache[r]}
  BY <1>0 DEF CacheOK, OneOwner
<1>3. ASSUME NEW q \in Pushes
      PROVE  /\ push'[q] \in PushState
             /\ push'[q].at = push[q].at /\ push'[q].batch = push[q].batch
             /\ push'[q].res = push[q].res /\ push'[q].left = push[q].left
             /\ push'[q].new = push[q].new
             /\ push'[q].lock = push[q].lock /\ push'[q].unlock = push[q].unlock
             /\ push'[q].entry = push[q].entry \/ (push'[q].entry = Nil /\ provider = "redis")
  <2>1. push[q] \in PushState
    BY <1>0 DEF PushOK
  <2>2. push'[q] = push[q] \/ push'[q] = [push[q] EXCEPT !.age = Earlier,
                                 !.entry = IF provider = "redis" THEN Nil ELSE @]
    BY <1>0
  <2> QED BY <2>1, <2>2 DEF PushState
<1>4. ASSUME NEW q \in Pushes PROVE StateInv(push'[q]) /\ ItemInv(push[q])'
  <2>1. StateInv(push[q]) /\ ItemInv(push[q])
    BY <1>0 DEF TypesInv
  <2>2. CASE push'[q].entry = push[q].entry
    <3>1. StateInv(push'[q])
      BY <1>3, <2>1, <2>2 DEF StateInv
    <3>2. ItemInv(push[q])'
      BY <1>0, <1>1, <1>2, <1>3, <2>1, <2>2, MetadataAssumption DEF ItemInv
    <3> QED BY <3>1, <3>2
  <2>3. CASE push'[q].entry = Nil /\ provider = "redis"
    <3>1. push[q].at \notin Holding
      BY <2>1, <2>3 DEF StateInv
    <3>2. StateInv(push'[q])
      BY <1>3, <2>1, <2>3, <3>1 DEF StateInv, Holding
    <3> QED BY <2>3, <3>2, MetadataAssumption DEF ItemInv
  <2> QED BY <1>3, <2>2, <2>3
<1>5. /\ HeapOK'
      /\ \A r \in Resources : cache'[r] # Nil => heap'[cache'[r]] = heap[cache'[r]]
  BY <1>0, <1>2, HeapFacts DEF HeapOK
<1>6. \A r \in Resources : AttrsOf(r)' \subseteq AttrsOf(r)
  BY <1>2, <1>5 DEF AttrsOf
<1>7. LostOK' /\ Lost' = Lost
  <2>1. ASSUME NEW x \in Pairs
        PROVE  lost'[x] \in {Current, Earlier, Never} /\ (lost'[x] # Never <=> lost[x] # Never)
    <3>1. lost[x] \in {Current, Earlier, Never}
      BY <1>0 DEF LostOK
    <3>2. lost'[x] = IF lost[x] = Current THEN Earlier ELSE lost[x]
      BY <1>0
    <3> QED BY <3>1, <3>2 DEF Current, Earlier, Never
  <2>2. lost' = [x \in Pairs |-> lost'[x]]
    BY <1>0
  <2>3. LostOK'
    BY <2>1, <2>2 DEF LostOK
  <2> QED BY <2>1, <2>3 DEF Lost
<1>8. TypesInv'
  <2>1. CfgOK'
    BY <1>0 DEF TypesInv, CfgOK
  <2>2. PushOK'
    <3>1. push' = [q \in Pushes |-> push'[q]]
      BY <1>0
    <3> QED BY <1>3, <3>1 DEF PushOK
  <2>3. \A q \in Pushes : StateInv(push[q])'
    BY <1>1, <1>4 DEF StateInv
  <2> QED BY <1>2, <1>4, <1>5, <1>7, <2>1, <2>2, <2>3 DEF TypesInv
<1>9. KnownIsWritten'
  <2>1. \A q \in Pushes : push'[q].batch = push[q].batch
    BY <1>3
  <2>2. Written \subseteq Written'
    BY <1>0, <1>7, <2>1 DEF Written
  <2> QED BY <1>6, <2>2, KnownKept DEF MetadataInv
<1>10. AttrsBounded'
  <2>1. ASSUME NEW r \in Resources PROVE Pending(r)' \subseteq Pending(r)
    BY <1>3, MetadataAssumption DEF Pending, PendingOf, Filling
  <2> QED BY <1>0, <1>6, <2>1, AttrsKept DEF MetadataInv
<1>11. ResourcesBounded'
  <2>1. Cached' \subseteq Cached /\ Makers' \subseteq Makers
    BY <1>2, <1>3 DEF Cached, Makers
  <2> QED BY <1>0, <2>1, ResourcesKept DEF MetadataInv
<1> QED BY <1>8, <1>9, <1>10, <1>11 DEF MetadataInv

\* Nothing is cached and nothing under way: at the start, and after a crash.
Emptied ==
    /\ CfgOK /\ HeapOK /\ LostOK /\ cache = [r \in Resources |-> Nil]
    /\ \/ push = [p \in Pushes |-> Idle]
       \/ push = [p \in Pushes |-> [Idle EXCEPT !.at = "dead"]]

\* It satisfies the invariant.
LEMMA InvEmptied == Emptied => MetadataInv
<1> SUFFICES ASSUME Emptied PROVE MetadataInv
  OBVIOUS
<1> USE DEF Emptied
<1>1. ASSUME NEW p \in Pushes
      PROVE  /\ push[p] \in PushState /\ push[p].at \in {"idle", "dead"}
             /\ push[p].entry = Nil /\ push[p].batch = {}
  BY DEF Idle, PushState, Ats
<1>2. PushOK
  <2>1. push = [p \in Pushes |-> push[p]]
    OBVIOUS
  <2> QED BY <1>1, <2>1 DEF PushOK
<1>3. \A p \in Pushes : StateInv(push[p]) /\ ItemInv(push[p])
  BY <1>1, MetadataAssumption DEF StateInv, ItemInv, Adding, Holding
<1>4. CacheOK /\ OneOwner
  BY DEF CacheOK, OneOwner
<1>5. TypesInv
  BY <1>2, <1>3, <1>4 DEF TypesInv
<1>6. \A r \in Resources : AttrsOf(r) = {} /\ Pending(r) = {}
  BY <1>1 DEF AttrsOf, Pending, PendingOf, Filling
<1>7. Cached = {} /\ Makers = {} /\ Cardinality({}) = 0
  BY <1>1, FS_EmptySet DEF Cached, Makers
<1>8. KnownIsWritten
  BY <1>6 DEF KnownIsWritten
<1>9. AttrsBounded /\ ResourcesBounded
  <2>1. /\ limits[signal].attrs * Cardinality(Pushes) \in Nat
        /\ limits[signal].resources \in Nat /\ Cardinality(Pushes) \in Nat \ {0}
    BY NumberFacts
  <2>2. AttrsBounded
    <3>1. ASSUME NEW r \in Resources
          PROVE  Cardinality(AttrsOf(r)) = 0 /\ Cardinality(Pending(r)) = 0
      BY <1>6, <1>7
    <3> QED BY <2>1, <3>1 DEF AttrsBounded
  <2>3. ResourcesBounded
    <3>1. Cardinality(Cached) = 0 /\ Cardinality(Makers) = 0
      BY <1>7
    <3> QED BY <2>1, <3>1 DEF ResourcesBounded
  <2> QED BY <2>2, <2>3
<1> QED BY <1>5, <1>8, <1>9 DEF MetadataInv

\* The process ends.
LEMMA InvCrash ==
    ASSUME MetadataInv, NEW p \in Pushes,
           Panic(p) \/ UnlockOfUnlocked(p) \/ ConcurrentMapAccess(p)
    PROVE  MetadataInv'
<1>1. Crash
  BY DEF Panic, UnlockOfUnlocked, ConcurrentMapAccess
<1>2. CfgOK' /\ HeapOK' /\ LostOK'
  BY <1>1 DEF Crash, MetadataInv, TypesInv, CfgOK, HeapOK, LostOK, EmptySet, SetRecord
<1>3. /\ cache' = [r \in Resources |-> Nil]
      /\ push' = [q \in Pushes |-> [Idle EXCEPT !.at = "dead"]]
  BY <1>1 DEF Crash
<1>4. Emptied'
  BY <1>2, <1>3 DEF Emptied
<1> QED BY <1>4, InvEmptied, PTL

-----------------------------------------------------------------------------
(* Theorems *)

\* The inductive invariant of the metadata exporter, for any number of concurrent
\* pushes, limits, batches and faults and for either cache: no two items share a
\* set, a push that adds has what it adds in its statement (writeToStatementBatch),
\* what the cache knows is written, and both bounds hold, counting what the pushes
\* that have passed a test will still add.
THEOREM MetadataInvariant == Spec => []MetadataInv
<1>1. Init => MetadataInv
  <2> SUFFICES ASSUME Init PROVE MetadataInv
    OBVIOUS
  <2>1. CfgOK /\ HeapOK /\ LostOK
    BY DEF Init, CfgOK, HeapOK, LostOK, EmptySet, SetRecord
  <2>2. cache = [r \in Resources |-> Nil] /\ push = [p \in Pushes |-> Idle]
    BY DEF Init
  <2> QED BY <2>1, <2>2, InvEmptied DEF Emptied
<1>2. MetadataInv /\ [Next]_vars => MetadataInv'
  <2> SUFFICES ASSUME MetadataInv, [Next]_vars PROVE MetadataInv'
    OBVIOUS
  <2>1. ASSUME NEW p \in Pushes, Step(p) PROVE MetadataInv'
    BY <2>1, InvLimits, InvFindNew, InvRead, InvFindEntry, InvMakeEntry, InvLock, InvTest,
       InvFill, InvRedis, InvSend, InvCrash DEF Step
  <2>2. ASSUME NEW p \in Pushes,
               \/ FindNewFails(p) \/ RedisAddFails(p) \/ SendFails(p) \/ ConcurrentMapAccess(p)
        PROVE  MetadataInv'
    BY <2>2, InvFindNew, InvRedis, InvSend, InvCrash
  <2>3. ASSUME NEW r \in Resources, Expire(r) PROVE MetadataInv'
    BY <2>3, InvExpire
  <2>4. CASE WindowTurns
    BY <2>4, InvWindow
  <2>5. CASE \/ UpdateTagValueCount \/ TrackerEntryExpires \/ UNCHANGED vars
             \/ \E p \in Pushes : PrepareFails(p)
    <3>1. UNCHANGED <<cfg, cache, heap, push, stored, lost>>
      BY <2>5 DEF UpdateTagValueCount, TrackerEntryExpires, vars, PrepareFails
    <3>2. \A r \in Resources : AttrsOf(r)' = AttrsOf(r) /\ Pending(r)' = Pending(r)
      BY <3>1 DEF AttrsOf, Pending, PendingOf
    <3>3. TypesInv'
      BY <3>1 DEF MetadataInv, TypesInv, CfgOK, CacheOK, HeapOK, PushOK, LostOK, OneOwner,
                  StateInv, ItemInv, provider, limits, signal
    <3>4. KnownIsWritten' /\ AttrsBounded'
      BY <3>1, <3>2 DEF MetadataInv, KnownIsWritten, AttrsBounded, Lost, provider, limits, signal
    <3>5. Cached' = Cached /\ Makers' = Makers
      BY <3>1 DEF Cached, Makers
    <3>6. ResourcesBounded'
      BY <3>1, <3>5, ResourcesKept DEF MetadataInv
    <3> QED BY <3>3, <3>4, <3>6 DEF MetadataInv
  <2> QED BY <2>1, <2>2, <2>3, <2>4, <2>5 DEF Next
<1> QED BY <1>1, <1>2, PTL DEF Spec

\* For any number of concurrent pushes and either cache, what the cache knows
\* is in the table, in a statement under way, or in one that failed
\* (AttrsExistForResource, AddAttrsToResource, writeToStatementBatch).
THEOREM KnownIsWrittenTheorem == Spec => []KnownIsWritten
<1>1. MetadataInv => KnownIsWritten
  BY DEF MetadataInv
<1> QED BY <1>1, MetadataInvariant, PTL

\* For any limits and number of pushes, a set in memory holds at most its limit
\* for each push, although a set may be replaced under the pushes that use it, and
\* the number of resources exceeds its limit by less than the number of pushes
\* (cache/inmemory.go, AddAttrsToResource).
THEOREM CacheIsBoundedTheorem == Spec => []CacheIsBounded
<1>1. MetadataInv => CacheIsBounded
  <2> SUFFICES ASSUME MetadataInv, provider = "in_memory"
               PROVE  /\ \A r \in Resources :
                            Cardinality(AttrsOf(r)) <= limits[signal].attrs * Cardinality(Pushes)
                      /\ Cardinality(Cached) <= limits[signal].resources + Cardinality(Pushes) - 1
    BY DEF CacheIsBounded
  <2>1. Cardinality(Cached) \in Nat /\ Cardinality(Makers) \in Nat
    <3>1. IsFiniteSet(Cached) /\ IsFiniteSet(Makers)
      BY FS_Subset, MetadataAssumption DEF Cached, Makers
    <3> QED BY <3>1, FS_CardinalityType
  <2>2. /\ limits[signal].resources \in Nat /\ Cardinality(Pushes) \in Nat
        /\ limits[signal].attrs * Cardinality(Pushes) \in Nat
    BY NumberFacts DEF MetadataInv, TypesInv
  <2>3. \A r \in Resources : Cardinality(AttrsOf(r)) \in Nat /\ Cardinality(Pending(r)) \in Nat
    BY FiniteFacts DEF MetadataInv, TypesInv
  <2> QED BY <2>1, <2>2, <2>3 DEF MetadataInv, AttrsBounded, ResourcesBounded
<1> QED BY <1>1, MetadataInvariant, PTL

=============================================================================
