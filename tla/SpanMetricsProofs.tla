-------------------------- MODULE SpanMetricsProofs --------------------------
(***************************************************************************)
(* Proofs about SpanMetrics, for any spans, dimensions, patterns, limits    *)
(* and size of the caches: metrics are always built, a span that is counted *)
(* is reported, with delta temporality once, and the series are bounded.    *)
(***************************************************************************)
EXTENDS SpanMetrics, FiniteSetTheorems, WellFoundedInduction, TLAPS

-----------------------------------------------------------------------------
(* The inductive invariant *)

\* The spans counted in a family, and the services its labels name.
SpansIn(c) == UNION {c.histo[k] : k \in DOMAIN c.histo}
Overflow == "overflow_service"
Named(c) == {c.dims[k].names[1] : k \in DOMAIN c.dims} \ {Overflow}
Limited == {"latency", "exp", "call"}

\* The state of a family, and what the mutex protects, as records.
IsFamily(c) ==
    c = [lru |-> c.lru, dims |-> c.dims, histo |-> c.histo, exemplars |-> c.exemplars]
IsAgg(a) == a = [ops |-> a.ops, fam |-> [f \in Families |-> a.fam[f]]]

\* Every histogram has its labels, in the cache or among the evicted items.
FamilyInv(c) ==
    /\ IsFamily(c)
    /\ IsFiniteSet(DOMAIN c.dims)
    /\ DOMAIN c.histo = DOMAIN c.dims
    /\ c.lru \in Seq(DOMAIN c.dims)
    /\ Len(c.lru) <= CacheSize

\* The services seen; one in the labels was among them before they became too
\* many.
NamesInv(a) ==
    /\ IsFiniteSet(DOMAIN a.ops)
    /\ Cardinality(DOMAIN a.ops \ {Overflow}) <= MaxServices + 1
    /\ \A f \in Limited :
          /\ Named(a.fam[f]) \subseteq DOMAIN a.ops
          /\ Cardinality(Named(a.fam[f])) <= MaxServices

AggInv(a) == IsAgg(a) /\ NamesInv(a) /\ \A f \in Families : FamilyInv(a.fam[f])

\* The series of a family that were reported.
Reported(c, e) == {k \in DOMAIN c.histo : c.histo[k] \cap e # {}}

\* The spans are numbered, and all of them are in the first family.
CountedInv ==
    /\ Passed \in Nat
    /\ counted \in [Families -> SUBSET (1 .. Passed)]
    /\ counted["latency"] = 1 .. Passed

FamilySpans(f) ==
    /\ counted[f] = exported[f] \cup SpansIn(agg.fam[f])
    /\ temporality = "delta" => exported[f] \cap SpansIn(agg.fam[f]) = {}
    /\ agg.fam[f].exemplars \cap exported[f] = {}
    /\ Cardinality(Reported(agg.fam[f], exported[f])) <= CacheSize

SpanMetricsInv ==
    /\ AggInv(agg)
    /\ CountedInv
    /\ exported \in [Families -> SUBSET Nat]
    /\ \A f \in Families : FamilySpans(f)
    /\ ~buildErr

-----------------------------------------------------------------------------
(* The cache *)

\* A set of natural numbers that is not empty has a least element.
LEMMA Least ==
    ASSUME NEW T, T \subseteq Nat, T # {}
    PROVE  \E x \in T : \A y \in T : x <= y
<1>1. PICK x \in T : \A y \in T : <<y, x>> \notin OpToRel(<, Nat)
  BY NatLessThanWellFounded, WFMin
<1>2. \A y \in T : ~(y < x)
  BY <1>1 DEF OpToRel
<1> QED
  BY <1>2

\* Removing an element of a sequence makes it shorter by one.
LEMMA RemoveFacts ==
    ASSUME NEW S, NEW q \in Seq(S), NEW i \in 1 .. Len(q)
    PROVE  RemoveAt(q, i) \in Seq(S) /\ Len(RemoveAt(q, i)) = Len(q) - 1
<1> DEFINE before == SubSeq(q, 1, i - 1)
           after == SubSeq(q, i + 1, Len(q))
<1>1. /\ before \in Seq(S) /\ Len(before) = i - 1
      /\ after \in Seq(S) /\ Len(after) = Len(q) - i
  OBVIOUS
<1>2. RemoveAt(q, i) = before \o after
  BY DEF RemoveAt
<1> HIDE DEF before, after
<1>3. before \o after \in Seq(S) /\ Len(before \o after) = Len(before) + Len(after)
  BY <1>1
<1> QED
  BY <1>1, <1>2, <1>3

\* What is used becomes the newest, and the sequence grows by at most one.
LEMMA UsedFacts ==
    ASSUME NEW S, NEW q \in Seq(S), NEW k \in S
    PROVE  /\ Used(q, k) \in Seq(S) /\ Used(q, k) # <<>>
           /\ Len(Used(q, k)) \in 1 .. Len(q) + 1
<1> DEFINE at == CHOOSE i \in 1 .. Len(q) : q[i] = k
           r == IF k \in ToSet(q) THEN RemoveAt(q, at) ELSE q
<1>1. r \in Seq(S) /\ Len(r) \in 0 .. Len(q)
  <2>1. CASE k \in ToSet(q)
    <3>1. \E i \in 1 .. Len(q) : q[i] = k
      BY <2>1 DEF ToSet
    <3>2. at \in 1 .. Len(q)
      BY <3>1
    <3> HIDE DEF at
    <3>3. RemoveAt(q, at) \in Seq(S) /\ Len(RemoveAt(q, at)) = Len(q) - 1
      BY <3>2, RemoveFacts
    <3> QED
      BY <2>1, <3>2, <3>3
  <2>2. CASE k \notin ToSet(q)
    BY <2>2
  <2> QED
    BY <2>1, <2>2
<1>2. Used(q, k) = Append(r, k)
  BY DEF Used
<1> HIDE DEF r
<1> QED
  BY <1>1, <1>2

\* The sequence of keys stays within the size of the cache.
LEMMA LruFacts ==
    ASSUME NEW S, NEW q \in Seq(S), Len(q) <= CacheSize, NEW k \in S
    PROVE  LET used == Used(q, k)
               lru == IF Len(used) > CacheSize THEN Tail(used) ELSE used
           IN  lru \in Seq(S) /\ Len(lru) <= CacheSize
<1> DEFINE used == Used(q, k)
<1>1. used \in Seq(S) /\ used # <<>> /\ Len(used) \in 1 .. Len(q) + 1
  BY UsedFacts
<1>2. CacheSize \in Nat
  BY SpanMetricsAssumption
<1> HIDE DEF used
<1>3. Tail(used) \in Seq(S) /\ Len(Tail(used)) = Len(used) - 1
  BY <1>1
<1> QED
  BY <1>1, <1>2, <1>3 DEF used

\* Adding a key: its labels are stored, and nothing else changes.
LEMMA AddFacts ==
    ASSUME NEW c, NEW k, NEW labels, IsFamily(c), IsFiniteSet(DOMAIN c.dims),
           c.lru \in Seq(DOMAIN c.dims), Len(c.lru) <= CacheSize
    PROVE  LET d == CacheAdd(c, k, labels)
           IN  /\ IsFamily(d)
               /\ d.dims = Put(c.dims, k, labels)
               /\ DOMAIN d.dims = DOMAIN c.dims \cup {k} /\ IsFiniteSet(DOMAIN d.dims)
               /\ d.lru \in Seq(DOMAIN d.dims) /\ Len(d.lru) <= CacheSize
               /\ d.histo = c.histo /\ d.exemplars = c.exemplars
<1> DEFINE used == Used(c.lru, k)
           lru == IF Len(used) > CacheSize THEN Tail(used) ELSE used
           dims == Put(c.dims, k, labels)
           d == CacheAdd(c, k, labels)
<1>1. DOMAIN dims = DOMAIN c.dims \cup {k}
  BY DEF Put
<1>2. IsFiniteSet(DOMAIN dims)
  BY <1>1, FS_AddElement
<1>3. c.lru \in Seq(DOMAIN dims) /\ k \in DOMAIN dims
  BY <1>1
<1> HIDE DEF dims
<1>4. lru \in Seq(DOMAIN dims) /\ Len(lru) <= CacheSize
  BY <1>3, LruFacts
<1>5. d = [c EXCEPT !.lru = lru, !.dims = dims]
  BY DEF CacheAdd, dims
<1> HIDE DEF lru, d
<1>6. d = [lru |-> lru, dims |-> dims, histo |-> c.histo, exemplars |-> c.exemplars]
  BY <1>5 DEF IsFamily
<1>7. /\ d.lru = lru /\ d.dims = dims /\ d.histo = c.histo /\ d.exemplars = c.exemplars
      /\ IsFamily(d)
  BY <1>6 DEF IsFamily
<1> QED
  BY <1>1, <1>2, <1>4, <1>7 DEF dims, d

\* A look-up changes the order of the keys only.
Same(c, d) ==
    /\ d.histo = c.histo /\ d.exemplars = c.exemplars
    /\ DOMAIN d.dims = DOMAIN c.dims
    /\ \A k \in DOMAIN c.dims : d.dims[k] = c.dims[k]

\* That is what Cache.Get does to a key that is known.
LEMMA GetFacts ==
    ASSUME NEW c, FamilyInv(c), NEW k \in DOMAIN c.dims
    PROVE  FamilyInv(CacheGet(c, k)) /\ Same(c, CacheGet(c, k))
<1> DEFINE d == CacheAdd(c, k, c.dims[k])
<1>1. /\ IsFamily(d) /\ d.dims = Put(c.dims, k, c.dims[k])
      /\ DOMAIN d.dims = DOMAIN c.dims \cup {k} /\ IsFiniteSet(DOMAIN d.dims)
      /\ d.lru \in Seq(DOMAIN d.dims) /\ Len(d.lru) <= CacheSize
      /\ d.histo = c.histo /\ d.exemplars = c.exemplars
  BY AddFacts DEF FamilyInv
<1> HIDE DEF d
<1>2. DOMAIN d.dims = DOMAIN c.dims
  BY <1>1
<1>3. \A x \in DOMAIN c.dims : d.dims[x] = c.dims[x]
  BY <1>1 DEF Put
<1>4. FamilyInv(d)
  BY <1>1, <1>2 DEF FamilyInv
<1> QED
  BY <1>1, <1>2, <1>3, <1>4 DEF CacheGet, d, Same

\* The states of the cache while the keys of order are looked up: there is such
\* a function, by induction on the number of keys.
IsLookUp(g, c, order, n) ==
    g = [i \in 0 .. n |-> IF i = 0 THEN c ELSE CacheGet(g[i - 1], order[i])]

\* The recursive function of LookUp exists, for any number of keys.
LEMMA LookUpExists ==
    ASSUME NEW c, NEW order, NEW n \in Nat
    PROVE  \E g : IsLookUp(g, c, order, n)
<1> DEFINE T == {m \in Nat : ~ \E g : IsLookUp(g, c, order, m)}
<1>1. ASSUME T # {}
      PROVE  FALSE
  <2>1. PICK m \in T : \A y \in T : m <= y
    BY <1>1, Least
  <2>2. m # 0
    <3> DEFINE g == [i \in 0 .. 0 |-> c]
    <3>1. IsLookUp(g, c, order, 0)
      BY DEF IsLookUp
    <3> QED
      BY <2>1, <3>1
  <2>3. m - 1 \in Nat /\ m - 1 \notin T
    BY <2>1, <2>2
  <2>4. PICK g : IsLookUp(g, c, order, m - 1)
    BY <2>3
  <2> DEFINE h == [i \in 0 .. m |-> IF i = m THEN CacheGet(g[m - 1], order[m]) ELSE g[i]]
  <2>5. ASSUME NEW i \in 0 .. m
        PROVE  h[i] = IF i = 0 THEN c ELSE CacheGet(h[i - 1], order[i])
    <3>1. CASE i = m
      <4>1. h[i] = CacheGet(g[m - 1], order[m])
        BY <3>1
      <4>2. h[m - 1] = g[m - 1]
        BY <2>3
      <4> QED
        BY <2>2, <3>1, <4>1, <4>2
    <3>2. CASE i # m /\ i # 0
      <4>1. i \in 0 .. m - 1 /\ i - 1 \in 0 .. m - 1 /\ i - 1 # m /\ i - 1 \in 0 .. m
        BY <2>1, <3>2
      <4>2. h[i] = g[i] /\ h[i - 1] = g[i - 1]
        BY <3>2, <4>1
      <4>3. g[i] = CacheGet(g[i - 1], order[i])
        BY <2>4, <3>2, <4>1 DEF IsLookUp
      <4> QED
        BY <3>2, <4>2, <4>3
    <3>3. CASE i # m /\ i = 0
      <4>1. h[i] = g[i] /\ i \in 0 .. m - 1
        BY <2>1, <3>3
      <4> QED
        BY <2>4, <3>3, <4>1 DEF IsLookUp
    <3> QED
      BY <3>1, <3>2, <3>3
  <2>6. h = [i \in 0 .. m |-> IF i = 0 THEN c ELSE CacheGet(h[i - 1], order[i])]
    <3> HIDE DEF h
    <3>1. h = [i \in 0 .. m |-> h[i]]
      BY DEF h
    <3> QED
      BY <2>5, <3>1
  <2>7. IsLookUp(h, c, order, m)
    BY <2>6 DEF IsLookUp
  <2> QED
    BY <2>1, <2>7
<1> QED
  BY <1>1

\* Looking up keys that are known, however many, changes their order only.
LEMMA LookUpFacts ==
    ASSUME NEW c, FamilyInv(c), NEW order \in Seq(DOMAIN c.dims)
    PROVE  FamilyInv(LookUp(c, order)) /\ Same(c, LookUp(c, order))
<1> DEFINE n == Len(order)
           looked == CHOOSE g : IsLookUp(g, c, order, n)
           Bad == {i \in 0 .. n : ~(FamilyInv(looked[i]) /\ Same(c, looked[i]))}
<1>0. n \in Nat
  OBVIOUS
<1>1. IsLookUp(looked, c, order, n)
  BY <1>0, LookUpExists
<1>2. LookUp(c, order) = looked[n]
  BY DEF LookUp, IsLookUp
<1> HIDE DEF looked, n
<1>3. /\ looked[0] = c
      /\ \A i \in 1 .. n : looked[i] = CacheGet(looked[i - 1], order[i])
  BY <1>0, <1>1 DEF IsLookUp
<1>4. ASSUME Bad # {}
      PROVE  FALSE
  <2>1. Bad \subseteq Nat
    BY <1>0
  <2>2. PICK i \in Bad : \A j \in Bad : i <= j
    BY <1>4, <2>1, Least
  <2>3. i # 0
    BY <1>3, <2>2 DEF Same
  <2>4. i \in 1 .. n /\ i - 1 \in 0 .. n /\ i - 1 \notin Bad
    BY <1>0, <2>2, <2>3
  <2>5. FamilyInv(looked[i - 1]) /\ Same(c, looked[i - 1])
    BY <2>4
  <2>6. order[i] \in DOMAIN looked[i - 1].dims
    BY <2>4, <2>5 DEF Same, n
  <2>7. FamilyInv(looked[i]) /\ Same(looked[i - 1], looked[i])
    BY <1>3, <2>4, <2>5, <2>6, GetFacts
  <2>8. Same(c, looked[i])
    BY <2>5, <2>7 DEF Same
  <2> QED
    BY <2>2, <2>7, <2>8
<1>5. n \in 0 .. n
  BY <1>0
<1> QED
  BY <1>2, <1>4, <1>5

\* What collecting a family leaves of it.
LEMMA CollectedFacts ==
    ASSUME NEW f \in Families, FamilyInv(agg.fam[f]), NEW d \in Collected(f)
    PROVE  FamilyInv(d) /\ Same(agg.fam[f], d)
<1> DEFINE c == agg.fam[f]
           S == DOMAIN c.histo
<1>1. PICK order \in SetToSeqs(S) : d = LookUp(c, order)
  BY DEF Collected
<1>2. S = DOMAIN c.dims /\ IsFiniteSet(S)
  BY DEF FamilyInv
<1>3. Cardinality(S) \in Nat
  BY <1>2, FS_CardinalityType
<1>4. order \in [1 .. Cardinality(S) -> S]
  BY <1>1 DEF SetToSeqs
<1> HIDE DEF S
<1>5. order \in Seq(S)
  BY <1>3, <1>4
<1> QED
  BY <1>1, <1>2, <1>5, LookUpFacts

-----------------------------------------------------------------------------
(* Counting a span *)

\* The family d is c with the span id counted in one series, whose labels are
\* labels if it is new.
Counts1(c, d, key, labels, id) ==
    /\ DOMAIN d.dims = DOMAIN c.dims \cup {key}
    /\ \A k \in DOMAIN c.dims : d.dims[k] = c.dims[k]
    /\ key \notin DOMAIN c.dims => d.dims[key] = labels
    /\ DOMAIN d.histo = DOMAIN c.histo \cup {key}
    /\ \A k \in DOMAIN c.histo : k # key => d.histo[k] = c.histo[k]
    /\ d.histo[key] = {id} \cup IF key \in DOMAIN c.histo THEN c.histo[key] ELSE {}
    /\ d.exemplars \subseteq c.exemplars \cup {id}

\* Histograms and exemplars are updated.
LEMMA UpdateFacts ==
    ASSUME NEW c, IsFamily(c), NEW h, NEW e
    PROVE  [c EXCEPT !.histo = h, !.exemplars = e]
               = [lru |-> c.lru, dims |-> c.dims, histo |-> h, exemplars |-> e]
<1> DEFINE d == [c EXCEPT !.histo = h, !.exemplars = e]
<1>1. d = [c EXCEPT !.histo = h, !.exemplars = e]
  OBVIOUS
<1> HIDE DEF d
<1>2. d = [lru |-> c.lru, dims |-> c.dims, histo |-> h, exemplars |-> e]
  BY <1>1 DEF IsFamily
<1> QED
  BY <1>2 DEF d

\* The operations seen are updated.
LEMMA OpsFacts ==
    ASSUME NEW a, IsAgg(a), NEW ops
    PROVE  [a EXCEPT !.ops = ops] = [ops |-> ops, fam |-> a.fam]
<1> DEFINE b == [a EXCEPT !.ops = ops]
<1>1. b = [a EXCEPT !.ops = ops]
  OBVIOUS
<1> HIDE DEF b
<1>2. b = [ops |-> ops, fam |-> a.fam]
  BY <1>1 DEF IsAgg
<1> QED
  BY <1>2 DEF b

\* A span is counted in one family.
LEMMA CountInFacts ==
    ASSUME NEW a, IsAgg(a), NEW f \in Families, NEW key, NEW labels, NEW id,
           FamilyInv(a.fam[f])
    PROVE  LET b == CountIn(a, f, key, labels, id)
           IN  /\ IsAgg(b) /\ b.ops = a.ops
               /\ \A g \in Families : g # f => b.fam[g] = a.fam[g]
               /\ FamilyInv(b.fam[f])
               /\ Counts1(a.fam[f], b.fam[f], key, labels, id)
<1> DEFINE c == a.fam[f]
           cached == IF Known(c, key) THEN CacheGet(c, key) ELSE CacheAdd(c, key, labels)
           spans == {id} \cup IF Has(c.histo, key) THEN c.histo[key] ELSE {}
           histo == Put(cached.histo, key, spans)
           exemplars == IF f = "exp" THEN cached.exemplars ELSE cached.exemplars \cup {id}
           d == [lru |-> cached.lru, dims |-> cached.dims, histo |-> histo, exemplars |-> exemplars]
           b == CountIn(a, f, key, labels, id)
<1>1. /\ IsFamily(cached)
      /\ DOMAIN cached.dims = DOMAIN c.dims \cup {key} /\ IsFiniteSet(DOMAIN cached.dims)
      /\ \A k \in DOMAIN c.dims : cached.dims[k] = c.dims[k]
      /\ key \notin DOMAIN c.dims => cached.dims[key] = labels
      /\ cached.lru \in Seq(DOMAIN cached.dims) /\ Len(cached.lru) <= CacheSize
      /\ cached.histo = c.histo /\ cached.exemplars = c.exemplars
  <2>1. CASE Known(c, key)
    <3>1. key \in DOMAIN c.dims
      BY <2>1 DEF Known
    <3>2. FamilyInv(cached) /\ Same(c, cached)
      BY <2>1, <3>1, GetFacts
    <3> HIDE DEF cached, c
    <3> QED
      BY <3>1, <3>2 DEF FamilyInv, Same
  <2>2. CASE ~Known(c, key)
    <3> DEFINE e == CacheAdd(c, key, labels)
    <3>1. key \notin DOMAIN c.dims
      BY <2>2 DEF Known
    <3>2. /\ IsFamily(e) /\ e.dims = Put(c.dims, key, labels)
          /\ DOMAIN e.dims = DOMAIN c.dims \cup {key} /\ IsFiniteSet(DOMAIN e.dims)
          /\ e.lru \in Seq(DOMAIN e.dims) /\ Len(e.lru) <= CacheSize
          /\ e.histo = c.histo /\ e.exemplars = c.exemplars
      BY AddFacts DEF FamilyInv
    <3>3. cached = e
      BY <2>2
    <3> HIDE DEF cached, c, e
    <3>4. e.dims[key] = labels /\ \A k \in DOMAIN c.dims : e.dims[k] = c.dims[k]
      BY <3>1, <3>2 DEF Put
    <3> QED
      BY <3>2, <3>3, <3>4
  <2> QED
    BY <2>1, <2>2
<1>2. b = [a EXCEPT !.fam[f] = [cached EXCEPT !.histo = histo, !.exemplars = exemplars]]
  BY DEF CountIn
<1> HIDE DEF cached
<1>3. [cached EXCEPT !.histo = histo, !.exemplars = exemplars] = d
  BY <1>1, UpdateFacts
<1>4. DOMAIN histo = DOMAIN c.histo \cup {key} /\ histo[key] = spans
      /\ \A k \in DOMAIN c.histo : k # key => histo[k] = c.histo[k]
  BY <1>1 DEF Put
<1>5. exemplars \subseteq c.exemplars \cup {id}
  BY <1>1
<1>6. DOMAIN c.histo = DOMAIN c.dims
  BY DEF FamilyInv
<1> HIDE DEF histo, exemplars, spans, b
<1>7. IsFamily(d) /\ d.lru = cached.lru /\ d.dims = cached.dims /\ d.histo = histo
      /\ d.exemplars = exemplars
  BY DEF IsFamily
<1> HIDE DEF d
<1>8. b = [a EXCEPT !.fam[f] = d]
  BY <1>2, <1>3
<1>9. b = [ops |-> a.ops, fam |-> [g \in Families |-> IF g = f THEN d ELSE a.fam[g]]]
  BY <1>8 DEF IsAgg
<1>10. /\ IsAgg(b) /\ b.ops = a.ops /\ b.fam[f] = d
       /\ \A g \in Families : g # f => b.fam[g] = a.fam[g]
  BY <1>9 DEF IsAgg
<1>11. FamilyInv(d)
  BY <1>1, <1>4, <1>6, <1>7 DEF FamilyInv
<1>12. Counts1(c, d, key, labels, id)
  BY <1>1, <1>4, <1>5, <1>7 DEF Counts1, spans, Has
<1> QED
  BY <1>10, <1>11, <1>12 DEF b

\* The names that enter the key, and those that enter the labels afterwards.
LEMMA NamesFacts ==
    ASSUME NEW ops, NEW s, IsFiniteSet(DOMAIN ops),
           Cardinality(DOMAIN ops \ {Overflow}) <= MaxServices + 1
    PROVE  LET new == TrackOperation(ops, TrackedNames(ops, s))
               name == TrackedNames(new, s)[1]
           IN  /\ IsFiniteSet(DOMAIN new) /\ DOMAIN ops \subseteq DOMAIN new
               /\ Cardinality(DOMAIN new \ {Overflow}) <= MaxServices + 1
               /\ name # Overflow => name \in DOMAIN new /\ Cardinality(DOMAIN new) <= MaxServices
<1> DEFINE first == TrackedNames(ops, s)[1]
           new == TrackOperation(ops, TrackedNames(ops, s))
           name == TrackedNames(new, s)[1]
<1>1. first = IF Cardinality(DOMAIN ops) > MaxServices THEN Overflow ELSE s.service
  BY DEF TrackedNames, Overflow
<1>2. DOMAIN new = DOMAIN ops \cup {first}
  BY DEF TrackOperation, Put
<1> HIDE DEF first, new
<1>3. name = IF Cardinality(DOMAIN new) > MaxServices THEN Overflow ELSE s.service
  BY DEF TrackedNames, Overflow
<1> HIDE DEF name
<1>4. /\ IsFiniteSet(DOMAIN new) /\ Cardinality(DOMAIN ops) \in Nat
      /\ Cardinality(DOMAIN new) \in Nat
      /\ Cardinality(DOMAIN new) <= Cardinality(DOMAIN ops) + 1
      /\ Cardinality(DOMAIN ops) <= Cardinality(DOMAIN new)
  <2>1. /\ IsFiniteSet(DOMAIN new)
        /\ Cardinality(DOMAIN new) = IF first \in DOMAIN ops THEN Cardinality(DOMAIN ops)
                                                           ELSE Cardinality(DOMAIN ops) + 1
    BY <1>2, FS_AddElement
  <2>2. Cardinality(DOMAIN ops) \in Nat
    BY FS_CardinalityType
  <2> QED
    BY <2>1, <2>2
<1>5. MaxServices \in Nat
  BY SpanMetricsAssumption
<1>6. Cardinality(DOMAIN new \ {Overflow}) <= MaxServices + 1
  <2>1. CASE Cardinality(DOMAIN ops) > MaxServices
    <3>1. DOMAIN new \ {Overflow} = DOMAIN ops \ {Overflow}
      BY <1>1, <1>2, <2>1
    <3> QED
      BY <3>1
  <2>2. CASE Cardinality(DOMAIN ops) <= MaxServices
    <3>1. /\ IsFiniteSet(DOMAIN new \ {Overflow})
          /\ Cardinality(DOMAIN new \ {Overflow}) <= Cardinality(DOMAIN new)
      BY <1>4, FS_Subset
    <3>2. Cardinality(DOMAIN new \ {Overflow}) \in Nat
      BY <3>1, FS_CardinalityType
    <3> QED
      BY <1>4, <1>5, <2>2, <3>1, <3>2
  <2> QED
    BY <1>4, <1>5, <2>1, <2>2
<1>7. ASSUME name # Overflow
      PROVE  name \in DOMAIN new /\ Cardinality(DOMAIN new) <= MaxServices
  <2>1. Cardinality(DOMAIN new) <= MaxServices /\ name = s.service
    BY <1>3, <1>4, <1>5, <1>7
  <2>2. first = s.service
    BY <1>1, <1>4, <1>5, <2>1
  <2> QED
    BY <1>2, <2>1, <2>2
<1> QED
  BY <1>2, <1>4, <1>6, <1>7 DEF new, name

\* The services that the labels of a family name, after a span was counted.
LEMMA NamedFacts ==
    ASSUME NEW c, NEW d, NEW key, NEW labels, NEW id, Counts1(c, d, key, labels, id)
    PROVE  Named(d) \subseteq Named(c) \cup ({labels.names[1]} \ {Overflow})
BY DEF Named, Counts1

\* A span is counted in a family with limits.
LEMMA CountSpanFacts ==
    ASSUME NEW a, AggInv(a), NEW f \in Limited, NEW s, NEW id
    PROVE  LET b == CountSpan(a, f, s, id)
           IN  /\ AggInv(b)
               /\ \A g \in Families : g # f => b.fam[g] = a.fam[g]
               /\ \E key, labels : Counts1(a.fam[f], b.fam[f], key, labels, id)
<1> DEFINE names == TrackedNames(a.ops, s)
           ops == TrackOperation(a.ops, names)
           key == TimeBucket(s) \o names \o <<s.kind, s.status>> \o ValuesOf(f, s)
           labels == [names |-> TrackedNames(ops, s),
                      rest |-> <<s.kind, s.status, LabelsOf(f, s)>>]
           e == [ops |-> ops, fam |-> a.fam]
           b == CountSpan(a, f, s, id)
<1>1. /\ IsFiniteSet(DOMAIN ops) /\ DOMAIN a.ops \subseteq DOMAIN ops
      /\ Cardinality(DOMAIN ops \ {Overflow}) <= MaxServices + 1
      /\ LET name == TrackedNames(ops, s)[1] IN
         name # Overflow => name \in DOMAIN ops /\ Cardinality(DOMAIN ops) <= MaxServices
  BY NamesFacts DEF AggInv, NamesInv
<1>2. labels.names = TrackedNames(ops, s)
  OBVIOUS
<1>3. b = CountIn([a EXCEPT !.ops = ops], f, key, labels, id)
  BY DEF CountSpan
<1> HIDE DEF ops, key, labels, b
<1>4. [a EXCEPT !.ops = ops] = e
  <2>1. IsAgg(a)
    BY DEF AggInv
  <2> QED
    BY <2>1, OpsFacts
<1>5. e.ops = ops /\ e.fam = a.fam /\ IsAgg(e)
  BY DEF AggInv, IsAgg
<1>6. f \in Families /\ FamilyInv(a.fam[f])
  BY DEF AggInv, Limited, Families
<1> HIDE DEF e
<1>7. /\ IsAgg(b) /\ b.ops = ops
      /\ \A g \in Families : g # f => b.fam[g] = a.fam[g]
      /\ FamilyInv(b.fam[f])
      /\ Counts1(a.fam[f], b.fam[f], key, labels, id)
  BY <1>3, <1>4, <1>5, <1>6, CountInFacts
<1>8. ASSUME NEW g \in Limited
      PROVE  Named(b.fam[g]) \subseteq DOMAIN ops /\ Cardinality(Named(b.fam[g])) <= MaxServices
  <2>0. /\ Named(a.fam[g]) \subseteq DOMAIN ops
        /\ Cardinality(Named(a.fam[g])) <= MaxServices
    BY <1>1 DEF AggInv, NamesInv
  <2>1. CASE g # f
    BY <1>7, <2>0, <2>1 DEF Limited, Families
  <2>2. CASE g = f /\ labels.names[1] = Overflow
    <3>1. Named(b.fam[g]) \subseteq Named(a.fam[g])
      BY <1>7, <2>2, NamedFacts
    <3>2. IsFiniteSet(Named(a.fam[g]))
      BY <1>1, <2>0, FS_Subset
    <3>3. Cardinality(Named(b.fam[g])) <= Cardinality(Named(a.fam[g]))
      BY <3>1, <3>2, FS_Subset
    <3>4. Cardinality(Named(b.fam[g])) \in Nat /\ Cardinality(Named(a.fam[g])) \in Nat
      BY <3>1, <3>2, FS_Subset, FS_CardinalityType
    <3> QED
      BY <2>0, <3>1, <3>3, <3>4, SpanMetricsAssumption
  <2>3. CASE g = f /\ labels.names[1] # Overflow
    <3>1. labels.names[1] \in DOMAIN ops /\ Cardinality(DOMAIN ops) <= MaxServices
      BY <1>1, <1>2, <2>3
    <3>2. Named(b.fam[g]) \subseteq DOMAIN ops
      <4>1. Named(b.fam[g]) \subseteq Named(a.fam[g]) \cup {labels.names[1]}
        BY <1>7, <2>3, NamedFacts
      <4> QED
        BY <2>0, <3>1, <4>1
    <3>3. Cardinality(Named(b.fam[g])) <= Cardinality(DOMAIN ops)
      BY <1>1, <3>2, FS_Subset
    <3>4. Cardinality(Named(b.fam[g])) \in Nat /\ Cardinality(DOMAIN ops) \in Nat
      BY <1>1, <3>2, FS_Subset, FS_CardinalityType
    <3> QED
      BY <3>1, <3>2, <3>3, <3>4, SpanMetricsAssumption
  <2> QED
    BY <2>1, <2>2, <2>3
<1>9. NamesInv(b)
  BY <1>1, <1>7, <1>8 DEF NamesInv
<1>10. \A g \in Families : FamilyInv(b.fam[g])
  BY <1>7 DEF AggInv
<1> QED
  BY <1>7, <1>9, <1>10 DEF AggInv, b

\* A call is counted in a family without limits.
LEMMA CountCallFacts ==
    ASSUME NEW a, AggInv(a), NEW f \in Families \ Limited, NEW s, NEW id
    PROVE  LET b == CountCall(a, f, s, id)
           IN  /\ AggInv(b)
               /\ \A g \in Families : g # f => b.fam[g] = a.fam[g]
               /\ \E key, labels : Counts1(a.fam[f], b.fam[f], key, labels, id)
<1> DEFINE addr == IF f = "external" THEN RemoteAddress(s) ELSE {}
           key == TimeBucket(s) \o <<s.service, s.status, addr>> \o ValuesOf(f, s)
           labels == [names |-> <<s.service>>, rest |-> <<s.status, addr, LabelsOf(f, s)>>]
           b == CountCall(a, f, s, id)
<1>1. b = CountIn(a, f, key, labels, id)
  BY DEF CountCall
<1> HIDE DEF key, labels, b
<1>2. IsAgg(a) /\ FamilyInv(a.fam[f])
  BY DEF AggInv
<1>3. /\ IsAgg(b) /\ b.ops = a.ops
      /\ \A g \in Families : g # f => b.fam[g] = a.fam[g]
      /\ FamilyInv(b.fam[f])
      /\ Counts1(a.fam[f], b.fam[f], key, labels, id)
  BY <1>1, <1>2, CountInFacts
<1>4. \A g \in Limited : b.fam[g] = a.fam[g]
  BY <1>3 DEF Limited, Families
<1>5. NamesInv(b)
  BY <1>3, <1>4 DEF AggInv, NamesInv
<1>6. \A g \in Families : FamilyInv(b.fam[g])
  BY <1>3 DEF AggInv
<1> QED
  BY <1>3, <1>5, <1>6 DEF AggInv, b

\* A span is counted in one family if it belongs to it.
LEMMA MetricFacts ==
    ASSUME NEW a, AggInv(a), NEW f \in Families, NEW s, NEW id
    PROVE  LET b == AggregateMetric(a, f, s, id)
           IN  /\ AggInv(b)
               /\ \A g \in Families : g # f => b.fam[g] = a.fam[g]
               /\ f \notin FamiliesOf(s) => b.fam[f] = a.fam[f]
               /\ f \in FamiliesOf(s) =>
                     \E key, labels : Counts1(a.fam[f], b.fam[f], key, labels, id)
<1>1. CASE f \notin FamiliesOf(s)
  BY <1>1 DEF AggregateMetric
<1>2. CASE f \in FamiliesOf(s) /\ f \in Limited
  <2>1. AggregateMetric(a, f, s, id) = CountSpan(a, f, s, id)
    BY <1>2 DEF AggregateMetric, Limited
  <2> QED
    BY <1>2, <2>1, CountSpanFacts
<1>3. CASE f \in FamiliesOf(s) /\ f \notin Limited
  <2>1. AggregateMetric(a, f, s, id) = CountCall(a, f, s, id)
    BY <1>3 DEF AggregateMetric, Limited, Families
  <2> QED
    BY <1>3, <2>1, CountCallFacts
<1> QED
  BY <1>1, <1>2, <1>3

\* A span is counted once in each family it belongs to.
LEMMA AggregateFacts ==
    ASSUME NEW a, AggInv(a), NEW s, NEW id
    PROVE  LET b == AggregateMetrics(a, s, id)
           IN  /\ AggInv(b)
               /\ \A f \in Families :
                     /\ f \notin FamiliesOf(s) => b.fam[f] = a.fam[f]
                     /\ f \in FamiliesOf(s) =>
                           \E key, labels : Counts1(a.fam[f], b.fam[f], key, labels, id)
<1> DEFINE a1 == AggregateMetric(a, "latency", s, id)
           a2 == AggregateMetric(a1, "exp", s, id)
           a3 == AggregateMetric(a2, "call", s, id)
           a4 == AggregateMetric(a3, "external", s, id)
           a5 == AggregateMetric(a4, "db", s, id)
           Step(c, d, f) ==
               /\ AggInv(d)
               /\ \A g \in Families : g # f => d.fam[g] = c.fam[g]
               /\ f \notin FamiliesOf(s) => d.fam[f] = c.fam[f]
               /\ f \in FamiliesOf(s) =>
                     \E key, labels : Counts1(c.fam[f], d.fam[f], key, labels, id)
<1>0. AggregateMetrics(a, s, id) = a5
  BY DEF AggregateMetrics
<1>f. "latency" \in Families /\ "exp" \in Families /\ "call" \in Families
      /\ "external" \in Families /\ "db" \in Families
  BY DEF Families
<1>1. Step(a, a1, "latency")
  BY <1>f, MetricFacts
<1> HIDE DEF a1
<1>2. Step(a1, a2, "exp")
  BY <1>f, <1>1, MetricFacts
<1> HIDE DEF a2
<1>3. Step(a2, a3, "call")
  BY <1>f, <1>2, MetricFacts
<1> HIDE DEF a3
<1>4. Step(a3, a4, "external")
  BY <1>f, <1>3, MetricFacts
<1> HIDE DEF a4
<1>5. Step(a4, a5, "db")
  BY <1>f, <1>4, MetricFacts
<1> HIDE DEF a5
<1>6. /\ a5.fam["latency"] = a1.fam["latency"]
      /\ a1.fam["exp"] = a.fam["exp"] /\ a5.fam["exp"] = a2.fam["exp"]
      /\ a2.fam["call"] = a.fam["call"] /\ a5.fam["call"] = a3.fam["call"]
      /\ a3.fam["external"] = a.fam["external"] /\ a5.fam["external"] = a4.fam["external"]
      /\ a4.fam["db"] = a.fam["db"]
  BY <1>f, <1>1, <1>2, <1>3, <1>4, <1>5
<1>7. ASSUME NEW f \in Families
      PROVE  /\ f \notin FamiliesOf(s) => a5.fam[f] = a.fam[f]
             /\ f \in FamiliesOf(s) =>
                   \E key, labels : Counts1(a.fam[f], a5.fam[f], key, labels, id)
  <2>1. CASE f = "latency"
    BY <1>1, <1>6, <2>1
  <2>2. CASE f = "exp"
    BY <1>2, <1>6, <2>2
  <2>3. CASE f = "call"
    BY <1>3, <1>6, <2>3
  <2>4. CASE f = "external"
    BY <1>4, <1>6, <2>4
  <2>5. CASE f = "db"
    BY <1>5, <1>6, <2>5
  <2> QED
    BY <2>1, <2>2, <2>3, <2>4, <2>5 DEF Families
<1> QED
  BY <1>0, <1>5, <1>7

\* Counting a span that is in no histogram yet adds it to those of its family,
\* and makes no series a reported one.
LEMMA Counts1Facts ==
    ASSUME NEW c, NEW d, NEW key, NEW labels, NEW id, NEW e,
           Counts1(c, d, key, labels, id), id \notin e
    PROVE  /\ SpansIn(d) = SpansIn(c) \cup {id}
           /\ Reported(d, e) = Reported(c, e)
           /\ c.exemplars \cap e = {} => d.exemplars \cap e = {}
<1>1. /\ DOMAIN d.histo = DOMAIN c.histo \cup {key}
      /\ \A k \in DOMAIN c.histo : k # key => d.histo[k] = c.histo[k]
      /\ d.histo[key] = {id} \cup IF key \in DOMAIN c.histo THEN c.histo[key] ELSE {}
      /\ d.exemplars \subseteq c.exemplars \cup {id}
  BY DEF Counts1
<1>2. ASSUME NEW x
      PROVE  x \in SpansIn(d) <=> x \in SpansIn(c) \cup {id}
  <2>1. x \in SpansIn(d) <=> \E k \in DOMAIN d.histo : x \in d.histo[k]
    BY DEF SpansIn
  <2>2. x \in SpansIn(c) <=> \E k \in DOMAIN c.histo : x \in c.histo[k]
    BY DEF SpansIn
  <2> QED
    BY <1>1, <2>1, <2>2
<1>3. SpansIn(d) = SpansIn(c) \cup {id}
  BY <1>2
<1>4. ASSUME NEW k
      PROVE  k \in Reported(d, e) <=> k \in Reported(c, e)
  <2>1. CASE k # key
    BY <1>1, <2>1 DEF Reported
  <2>2. CASE k = key
    BY <1>1, <2>2 DEF Reported
  <2> QED
    BY <2>1, <2>2
<1>5. Reported(d, e) = Reported(c, e)
  <2>1. Reported(d, e) \subseteq Reported(c, e)
    BY <1>4
  <2>2. Reported(c, e) \subseteq Reported(d, e)
    BY <1>4
  <2> QED
    BY <2>1, <2>2
<1> QED
  BY <1>1, <1>3, <1>5

-----------------------------------------------------------------------------
(* ConsumeTraces *)

\* One more span passes: its number is new, and the numbers have no gap.
LEMMA PassedFacts ==
    ASSUME NEW s, CountedInv,
           counted' = [f \in Families |->
               counted[f] \cup IF f \in FamiliesOf(s) THEN {Passed + 1} ELSE {}]
    PROVE  CountedInv'
<1> DEFINE n == Passed
           new == [f \in Families |->
                      counted[f] \cup IF f \in FamiliesOf(s) THEN {n + 1} ELSE {}]
<1>1. n \in Nat /\ counted \in [Families -> SUBSET (1 .. n)] /\ counted["latency"] = 1 .. n
  BY DEF CountedInv
<1>2. "latency" \in FamiliesOf(s) /\ "latency" \in Families
  BY DEF FamiliesOf, Families
<1>3. counted' = new
  OBVIOUS
<1> HIDE DEF n
<1>4. 1 .. (n + 1) = (1 .. n) \cup {n + 1}
  BY <1>1
<1>5. new \in [Families -> SUBSET (1 .. (n + 1))] /\ new["latency"] = 1 .. (n + 1)
  BY <1>1, <1>2, <1>4
<1> HIDE DEF new
<1>6. UNION {new[f] : f \in Families} = 1 .. (n + 1)
  BY <1>2, <1>5
<1>7. Cardinality(1 .. (n + 1)) = n + 1
  BY <1>1, FS_Interval
<1>8. Passed' = n + 1
  BY <1>3, <1>6, <1>7 DEF Passed
<1>9. n + 1 \in Nat
  BY <1>1
<1> QED
  BY <1>3, <1>5, <1>8, <1>9 DEF CountedInv

\* What is true of a family stays true when a span passes.
LEMMA ConsumeFamilyFacts ==
    ASSUME SpanMetricsInv, NEW s, Counts(s), ConsumeTraces(s), NEW f \in Families
    PROVE  FamilySpans(f)'
<1> DEFINE id == Passed + 1
           b == AggregateMetrics(agg, s, id)
           c == agg.fam[f]
           d == b.fam[f]
           e == exported[f]
<1>1. /\ agg' = b /\ exported' = exported /\ temporality' = temporality
      /\ counted' = [g \in Families |->
            counted[g] \cup IF g \in FamiliesOf(s) THEN {id} ELSE {}]
  BY DEF ConsumeTraces
<1>2. /\ f \notin FamiliesOf(s) => d = c
      /\ f \in FamiliesOf(s) => \E key, labels : Counts1(c, d, key, labels, id)
  BY AggregateFacts DEF SpanMetricsInv
<1>3. /\ counted[f] = e \cup SpansIn(c)
      /\ temporality = "delta" => e \cap SpansIn(c) = {}
      /\ c.exemplars \cap e = {}
      /\ Cardinality(Reported(c, e)) <= CacheSize
  BY DEF SpanMetricsInv, FamilySpans
<1>4. Passed \in Nat /\ counted[f] \subseteq 1 .. Passed
  BY DEF SpanMetricsInv, CountedInv
<1>5. id \notin e
  BY <1>3, <1>4
<1> HIDE DEF b, id
<1>6. /\ SpansIn(d) = SpansIn(c) \cup IF f \in FamiliesOf(s) THEN {id} ELSE {}
      /\ Reported(d, e) = Reported(c, e)
      /\ d.exemplars \cap e = {}
  <2>1. CASE f \notin FamiliesOf(s)
    <3>1. d = c
      BY <1>2, <2>1
    <3> QED
      BY <1>3, <2>1, <3>1
  <2>2. CASE f \in FamiliesOf(s)
    <3>1. PICK key, labels : Counts1(c, d, key, labels, id)
      BY <1>2, <2>2
    <3> HIDE DEF c, d, e
    <3>2. /\ SpansIn(d) = SpansIn(c) \cup {id} /\ Reported(d, e) = Reported(c, e)
          /\ c.exemplars \cap e = {} => d.exemplars \cap e = {}
      BY <1>5, <3>1, Counts1Facts
    <3> QED
      BY <1>3, <2>2, <3>2
  <2> QED
    BY <2>1, <2>2
<1>7. /\ agg'.fam[f] = d /\ exported'[f] = e
      /\ counted'[f] = counted[f] \cup IF f \in FamiliesOf(s) THEN {id} ELSE {}
  BY <1>1
<1>8. FamilySpans(f)' <=>
         /\ counted'[f] = exported'[f] \cup SpansIn(agg'.fam[f])
         /\ temporality' = "delta" => exported'[f] \cap SpansIn(agg'.fam[f]) = {}
         /\ agg'.fam[f].exemplars \cap exported'[f] = {}
         /\ Cardinality(Reported(agg'.fam[f], exported'[f])) <= CacheSize
  BY DEF FamilySpans, SpansIn, Reported
<1> HIDE DEF c, d, e
<1>9. counted'[f] = e \cup SpansIn(d)
  BY <1>3, <1>6, <1>7
<1>10. temporality' = "delta" => e \cap SpansIn(d) = {}
  BY <1>1, <1>3, <1>5, <1>6
<1> QED
  BY <1>3, <1>6, <1>7, <1>8, <1>9, <1>10

\* A span passes.
LEMMA ConsumeFacts ==
    ASSUME SpanMetricsInv, NEW s, ConsumeTraces(s)
    PROVE  SpanMetricsInv'
<1>1. CASE Counts(s)
  <2>1. agg' = AggregateMetrics(agg, s, Passed + 1) /\ exported' = exported
        /\ buildErr' = buildErr
    BY <1>1 DEF ConsumeTraces
  <2>2. AggInv(agg)'
    <3>1. AggInv(AggregateMetrics(agg, s, Passed + 1))
      BY AggregateFacts DEF SpanMetricsInv
    <3>2. AggInv(agg')
      BY <2>1, <3>1
    <3> QED
      BY <3>2 DEF AggInv, IsAgg, NamesInv, FamilyInv, IsFamily, Named
  <2>3. CountedInv'
    BY <1>1, PassedFacts DEF ConsumeTraces, SpanMetricsInv
  <2>4. \A f \in Families : FamilySpans(f)'
    BY <1>1, ConsumeFamilyFacts
  <2> QED
    BY <2>1, <2>2, <2>3, <2>4 DEF SpanMetricsInv
<1>2. CASE ~Counts(s)
  <2>1. UNCHANGED <<temporality, agg, buildErr, counted, exported>>
    BY <1>2 DEF ConsumeTraces
  <2> QED
    BY <2>1 DEF SpanMetricsInv, AggInv, CountedInv, Passed, FamilySpans
<1> QED
  BY <1>1, <1>2

-----------------------------------------------------------------------------
(* ExportMetrics *)

\* No more keys are in the cache than it has places.
LEMMA KeysFacts ==
    ASSUME NEW S, NEW q \in Seq(S), Len(q) <= CacheSize
    PROVE  IsFiniteSet(ToSet(q)) /\ Cardinality(ToSet(q)) <= CacheSize
<1>1. Len(q) \in Nat /\ IsFiniteSet(1 .. Len(q)) /\ Cardinality(1 .. Len(q)) = Len(q)
  BY FS_Interval
<1>2. ToSet(q) = {q[i] : i \in 1 .. Len(q)}
  BY DEF ToSet
<1>3. q \in Surjection(1 .. Len(q), ToSet(q))
  BY <1>2 DEF Surjection
<1>4. IsFiniteSet(ToSet(q)) /\ Cardinality(ToSet(q)) <= Len(q)
  BY <1>1, <1>3, FS_Surjection
<1>5. Cardinality(ToSet(q)) \in Nat
  BY <1>4, FS_CardinalityType
<1> QED
  BY <1>1, <1>4, <1>5, SpanMetricsAssumption

\* What is left of a family after it was reported: with delta temporality
\* nothing, otherwise the series whose keys are in the cache.
LEMMA ForgetFacts ==
    ASSUME NEW c, FamilyInv(c)
    PROVE  /\ FamilyInv(Forget(c))
           /\ Forget(c).exemplars = {}
           /\ DOMAIN Forget(c).histo \subseteq DOMAIN c.histo
           /\ \A k \in DOMAIN Forget(c).histo : Forget(c).histo[k] = c.histo[k]
           /\ DOMAIN Forget(c).dims \subseteq DOMAIN c.dims
           /\ \A k \in DOMAIN Forget(c).dims : Forget(c).dims[k] = c.dims[k]
           /\ temporality = "delta" => DOMAIN Forget(c).histo = {}
           /\ IsFiniteSet(DOMAIN Forget(c).histo)
           /\ Cardinality(DOMAIN Forget(c).histo) <= CacheSize
<1> DEFINE d == Forget(c)
           K == ToSet(c.lru)
           dims == KeepOnly(c.dims, K)
           histo == KeepOnly(c.histo, K)
<1>0. CacheSize \in Nat
  BY SpanMetricsAssumption
<1>1. CASE temporality = "delta"
  <2>1. d = [lru |-> <<>>, dims |-> <<>>, histo |-> <<>>, exemplars |-> {}]
    BY <1>1 DEF Forget, EmptyFamily, NoFn
  <2> HIDE DEF d
  <2>2. d.lru = <<>> /\ d.dims = <<>> /\ d.histo = <<>> /\ d.exemplars = {} /\ IsFamily(d)
    BY <2>1 DEF IsFamily
  <2>3. DOMAIN d.dims = {} /\ DOMAIN d.histo = {}
    BY <2>2
  <2>4. d.lru \in Seq(DOMAIN d.dims) /\ Len(d.lru) = 0
    BY <2>2
  <2>5. IsFiniteSet(DOMAIN d.histo) /\ Cardinality(DOMAIN d.histo) = 0
    BY <2>3, FS_EmptySet
  <2>6. FamilyInv(d)
    BY <1>0, <2>2, <2>3, <2>4, <2>5 DEF FamilyInv
  <2> QED
    BY <1>0, <2>2, <2>3, <2>5, <2>6 DEF d
<1>2. CASE temporality # "delta"
  <2>1. d = [[c EXCEPT !.dims = dims] EXCEPT !.histo = histo, !.exemplars = {}]
    <3> DEFINE r == [c EXCEPT !.dims = dims]
    <3>1. r.histo = c.histo
      BY DEF FamilyInv, IsFamily
    <3> QED
      BY <1>2, <3>1 DEF Forget, RemoveEvictedItems
  <2>2. IsFamily(c)
    BY DEF FamilyInv
  <2>3. K \subseteq DOMAIN c.dims /\ DOMAIN c.histo = DOMAIN c.dims
    BY DEF FamilyInv, ToSet
  <2>4. /\ DOMAIN dims = K /\ \A k \in K : dims[k] = c.dims[k]
        /\ DOMAIN histo = K /\ \A k \in K : histo[k] = c.histo[k]
    BY <2>3 DEF KeepOnly
  <2> HIDE DEF d, dims, histo
  <2>5. d = [lru |-> c.lru, dims |-> dims, histo |-> histo, exemplars |-> {}]
    BY <2>1, <2>2 DEF IsFamily
  <2>6. d.lru = c.lru /\ d.dims = dims /\ d.histo = histo /\ d.exemplars = {} /\ IsFamily(d)
    BY <2>5 DEF IsFamily
  <2>7. c.lru \in Seq(DOMAIN c.dims) /\ Len(c.lru) <= CacheSize
    BY DEF FamilyInv
  <2>8. IsFiniteSet(K) /\ Cardinality(K) <= CacheSize
    BY <2>7, KeysFacts
  <2>9. c.lru \in Seq(K)
    BY <2>7 DEF ToSet
  <2>10. FamilyInv(d)
    BY <2>4, <2>6, <2>7, <2>8, <2>9 DEF FamilyInv
  <2> QED
    BY <1>2, <2>3, <2>4, <2>6, <2>8, <2>10 DEF d
<1> QED
  BY <1>1, <1>2

\* The labels of every histogram are known.
LEMMA LabelsFacts ==
    ASSUME SpanMetricsInv
    PROVE  LabelsKnown
BY DEF SpanMetricsInv, AggInv, FamilyInv, LabelsKnown, Known

\* A family before and after metrics were built: a part of the series is left,
\* with their labels.
Left(c, d) ==
    /\ FamilyInv(d)
    /\ d.exemplars = {}
    /\ DOMAIN d.histo \subseteq DOMAIN c.histo
    /\ \A k \in DOMAIN d.histo : d.histo[k] = c.histo[k]
    /\ Named(d) \subseteq Named(c)
    /\ temporality = "delta" => DOMAIN d.histo = {}
    /\ IsFiniteSet(DOMAIN d.histo) /\ Cardinality(DOMAIN d.histo) <= CacheSize

\* That is what collecting and forgetting leave of a family.
LEMMA LeftFacts ==
    ASSUME SpanMetricsInv, NEW f \in Families, NEW d \in Collected(f)
    PROVE  Left(agg.fam[f], Forget(d))
<1> DEFINE c == agg.fam[f]
           r == Forget(d)
<1>1. FamilyInv(c)
  BY DEF SpanMetricsInv, AggInv
<1>2. FamilyInv(d) /\ Same(c, d)
  BY <1>1, CollectedFacts
<1>3. /\ FamilyInv(r) /\ r.exemplars = {}
      /\ DOMAIN r.histo \subseteq DOMAIN d.histo
      /\ \A k \in DOMAIN r.histo : r.histo[k] = d.histo[k]
      /\ DOMAIN r.dims \subseteq DOMAIN d.dims
      /\ \A k \in DOMAIN r.dims : r.dims[k] = d.dims[k]
      /\ temporality = "delta" => DOMAIN r.histo = {}
      /\ IsFiniteSet(DOMAIN r.histo) /\ Cardinality(DOMAIN r.histo) <= CacheSize
  BY <1>2, ForgetFacts
<1> HIDE DEF c, r
<1>4. DOMAIN r.dims \subseteq DOMAIN c.dims /\ \A k \in DOMAIN r.dims : r.dims[k] = c.dims[k]
  BY <1>2, <1>3 DEF Same
<1>5. Named(r) \subseteq Named(c)
  BY <1>4 DEF Named
<1>6. /\ DOMAIN r.histo \subseteq DOMAIN c.histo
      /\ \A k \in DOMAIN r.histo : r.histo[k] = c.histo[k]
  BY <1>2, <1>3 DEF Same
<1> QED
  BY <1>3, <1>5, <1>6 DEF Left, c, r

\* What building metrics does to the families.
LEMMA BuildFacts ==
    ASSUME SpanMetricsInv, BuildMetrics
    PROVE  /\ IsAgg(agg') /\ agg'.ops = agg.ops
           /\ \A f \in Families : Left(agg.fam[f], agg'.fam[f])
<1>1. PICK latency \in Collected("latency"), exp \in Collected("exp"),
           call \in Collected("call"), external \in Collected("external"),
           db \in Collected("db") :
          agg' = [agg EXCEPT !.fam = [f \in Families |-> Forget(
                     CASE f = "latency" -> latency [] f = "exp" -> exp [] f = "call" -> call
                       [] f = "external" -> external [] f = "db" -> db)]]
  BY DEF BuildMetrics
<1> DEFINE Kept(f) == Forget(
               CASE f = "latency" -> latency [] f = "exp" -> exp [] f = "call" -> call
                 [] f = "external" -> external [] f = "db" -> db)
           new == [f \in Families |-> Kept(f)]
<1>2. /\ new["latency"] = Forget(latency) /\ new["exp"] = Forget(exp)
      /\ new["call"] = Forget(call) /\ new["external"] = Forget(external)
      /\ new["db"] = Forget(db)
  BY DEF Families
<1>3. agg' = [agg EXCEPT !.fam = new]
  BY <1>1
<1> HIDE DEF Kept
<1>4. new = [f \in Families |-> new[f]]
  OBVIOUS
<1> HIDE DEF new
<1>5. agg' = [ops |-> agg.ops, fam |-> new]
  BY <1>3 DEF SpanMetricsInv, AggInv, IsAgg
<1>6. IsAgg(agg') /\ agg'.ops = agg.ops /\ agg'.fam = new
  BY <1>4, <1>5 DEF IsAgg
<1>7. ASSUME NEW f \in Families
      PROVE  Left(agg.fam[f], new[f])
  <2>f. "latency" \in Families /\ "exp" \in Families /\ "call" \in Families
        /\ "external" \in Families /\ "db" \in Families
    BY DEF Families
  <2>1. CASE f = "latency"
    BY <1>2, <2>f, <2>1, LeftFacts
  <2>2. CASE f = "exp"
    BY <1>2, <2>f, <2>2, LeftFacts
  <2>3. CASE f = "call"
    BY <1>2, <2>f, <2>3, LeftFacts
  <2>4. CASE f = "external"
    BY <1>2, <2>f, <2>4, LeftFacts
  <2>5. CASE f = "db"
    BY <1>2, <2>f, <2>5, LeftFacts
  <2> QED
    BY <2>1, <2>2, <2>3, <2>4, <2>5 DEF Families
<1> QED
  BY <1>6, <1>7

\* What is true of the names and of each family stays true.
LEMMA BuildAggFacts ==
    ASSUME SpanMetricsInv, BuildMetrics
    PROVE  AggInv(agg')
<1>1. /\ IsAgg(agg') /\ agg'.ops = agg.ops
      /\ \A f \in Families : Left(agg.fam[f], agg'.fam[f])
  BY BuildFacts
<1>2. ASSUME NEW f \in Limited
      PROVE  /\ Named(agg'.fam[f]) \subseteq DOMAIN agg.ops
             /\ Cardinality(Named(agg'.fam[f])) <= MaxServices
  <2> DEFINE N == Named(agg.fam[f])
             M == Named(agg'.fam[f])
  <2>1. IsFiniteSet(DOMAIN agg.ops) /\ N \subseteq DOMAIN agg.ops /\ Cardinality(N) <= MaxServices
    BY DEF SpanMetricsInv, AggInv, NamesInv
  <2>2. M \subseteq N
    BY <1>1 DEF Left, Limited, Families
  <2> HIDE DEF N, M
  <2>3. IsFiniteSet(N)
    BY <2>1, FS_Subset
  <2>4. IsFiniteSet(M) /\ Cardinality(M) <= Cardinality(N)
    BY <2>2, <2>3, FS_Subset
  <2>5. Cardinality(M) \in Nat /\ Cardinality(N) \in Nat
    BY <2>3, <2>4, FS_CardinalityType
  <2>6. Cardinality(M) <= MaxServices
    BY <2>1, <2>4, <2>5, SpanMetricsAssumption
  <2> QED
    BY <2>1, <2>2, <2>6 DEF M
<1>3. NamesInv(agg')
  BY <1>1, <1>2 DEF NamesInv, SpanMetricsInv, AggInv
<1> QED
  BY <1>1, <1>3 DEF AggInv, Left

\* All spans in the histograms of a family become exported ones.
LEMMA BuildFamilyFacts ==
    ASSUME SpanMetricsInv, BuildMetrics, UNCHANGED <<counted, temporality>>, NEW f \in Families
    PROVE  FamilySpans(f)' /\ exported'[f] = exported[f] \cup SpansIn(agg.fam[f])
<1> DEFINE c == agg.fam[f]
           d == agg'.fam[f]
           e == exported[f]
           x == exported'[f]
<1>1. Left(c, d)
  BY BuildFacts
<1>2. x = e \cup SpansIn(c)
  BY DEF BuildMetrics, Accumulated, SpansIn
<1>3. counted[f] = e \cup SpansIn(c)
  BY DEF SpanMetricsInv, FamilySpans
<1>4. FamilySpans(f)' <=>
         /\ counted'[f] = x \cup SpansIn(d)
         /\ temporality' = "delta" => x \cap SpansIn(d) = {}
         /\ d.exemplars \cap x = {}
         /\ Cardinality(Reported(d, x)) <= CacheSize
  BY DEF FamilySpans, SpansIn, Reported
<1> HIDE DEF c, d, e, x
<1>5. SpansIn(d) \subseteq SpansIn(c)
  BY <1>1 DEF Left, SpansIn
<1>6. temporality = "delta" => SpansIn(d) = {}
  BY <1>1 DEF Left, SpansIn
<1>7. Cardinality(Reported(d, x)) <= CacheSize
  <2>1. Reported(d, x) \subseteq DOMAIN d.histo
    BY DEF Reported
  <2>2. IsFiniteSet(DOMAIN d.histo) /\ Cardinality(DOMAIN d.histo) <= CacheSize
    BY <1>1 DEF Left
  <2>3. /\ IsFiniteSet(Reported(d, x))
        /\ Cardinality(Reported(d, x)) <= Cardinality(DOMAIN d.histo)
    BY <2>1, <2>2, FS_Subset
  <2>4. Cardinality(Reported(d, x)) \in Nat /\ Cardinality(DOMAIN d.histo) \in Nat
    BY <2>2, <2>3, FS_CardinalityType
  <2> QED
    BY <2>2, <2>3, <2>4, SpanMetricsAssumption
<1>8. d.exemplars = {}
  BY <1>1 DEF Left
<1>9. counted'[f] = x \cup SpansIn(d)
  BY <1>2, <1>3, <1>5
<1>10. temporality' = "delta" => x \cap SpansIn(d) = {}
  BY <1>6
<1> QED
  BY <1>2, <1>4, <1>7, <1>8, <1>9, <1>10 DEF c, e, x

\* Metrics are built.
LEMMA ExportFacts ==
    ASSUME SpanMetricsInv, ExportMetrics
    PROVE  SpanMetricsInv'
<1>1. BuildMetrics /\ UNCHANGED <<counted, temporality>>
  BY LabelsFacts DEF ExportMetrics
<1>2. buildErr' = buildErr
  BY <1>1 DEF BuildMetrics
<1>3. AggInv(agg)'
  <2>1. AggInv(agg')
    BY <1>1, BuildAggFacts
  <2> QED
    BY <2>1 DEF AggInv, IsAgg, NamesInv, FamilyInv, IsFamily, Named
<1>4. CountedInv'
  BY <1>1 DEF SpanMetricsInv, CountedInv, Passed
<1>5. \A f \in Families : FamilySpans(f)'
  BY <1>1, BuildFamilyFacts
<1>6. exported' \in [Families -> SUBSET Nat]
  <2>1. exported' = [f \in Families |-> exported[f] \cup Accumulated(f)]
    BY <1>1 DEF BuildMetrics
  <2>2. ASSUME NEW f \in Families
        PROVE  exported[f] \cup Accumulated(f) \subseteq Nat
    <3>1. exported[f] \cup Accumulated(f) = counted[f]
      BY DEF SpanMetricsInv, FamilySpans, SpansIn, Accumulated
    <3>2. counted[f] \subseteq Nat
      BY DEF SpanMetricsInv, CountedInv
    <3> QED
      BY <3>1, <3>2
  <2> QED
    BY <2>1, <2>2
<1> QED
  BY <1>2, <1>3, <1>4, <1>5, <1>6 DEF SpanMetricsInv

-----------------------------------------------------------------------------
(* Theorems *)

\* Initially nothing is counted.
LEMMA InitFacts == Init => SpanMetricsInv
<1> SUFFICES ASSUME Init PROVE SpanMetricsInv
  OBVIOUS
<1>0. CacheSize \in Nat /\ MaxServices \in Nat
  BY SpanMetricsAssumption
<1>e. IsFiniteSet({}) /\ Cardinality({}) = 0
  BY FS_EmptySet
<1>1. /\ agg = [ops |-> <<>>, fam |-> [f \in Families |-> EmptyFamily]]
      /\ counted = [f \in Families |-> {}] /\ exported = [f \in Families |-> {}]
      /\ buildErr = FALSE
  BY DEF Init, NoFn
<1>2. /\ IsAgg(agg) /\ DOMAIN agg.ops = {}
      /\ \A f \in Families :
            /\ IsFamily(agg.fam[f]) /\ agg.fam[f].lru = <<>> /\ agg.fam[f].exemplars = {}
            /\ DOMAIN agg.fam[f].dims = {} /\ DOMAIN agg.fam[f].histo = {}
  <2>1. agg.ops = <<>> /\ agg.fam = [f \in Families |-> EmptyFamily]
    BY <1>1
  <2>2. IsAgg(agg)
    BY <1>1, <2>1 DEF IsAgg
  <2> DEFINE c == EmptyFamily
  <2>3. c = [lru |-> <<>>, dims |-> <<>>, histo |-> <<>>, exemplars |-> {}]
    BY DEF EmptyFamily, NoFn
  <2> HIDE DEF c
  <2>4. IsFamily(c) /\ c.lru = <<>> /\ c.exemplars = {} /\ c.dims = <<>> /\ c.histo = <<>>
    BY <2>3 DEF IsFamily
  <2>5. DOMAIN <<>> = {}
    OBVIOUS
  <2>6. \A f \in Families : agg.fam[f] = c
    BY <2>1 DEF c
  <2> QED
    BY <2>1, <2>2, <2>4, <2>5, <2>6
<1>3. ASSUME NEW f \in Families
      PROVE  /\ FamilyInv(agg.fam[f])
             /\ Named(agg.fam[f]) = {} /\ SpansIn(agg.fam[f]) = {}
             /\ \A e : Reported(agg.fam[f], e) = {}
  <2> DEFINE c == agg.fam[f]
  <2>1. IsFamily(c) /\ c.lru = <<>> /\ DOMAIN c.dims = {} /\ DOMAIN c.histo = {}
    BY <1>2
  <2> HIDE DEF c
  <2>2. c.lru \in Seq(DOMAIN c.dims) /\ Len(c.lru) = 0
    BY <2>1
  <2>3. IsFiniteSet(DOMAIN c.dims)
    BY <1>e, <2>1
  <2>4. FamilyInv(agg.fam[f])
    BY <1>0, <2>1, <2>2, <2>3 DEF FamilyInv, c
  <2> QED
    BY <1>2, <2>4 DEF Named, SpansIn, Reported
<1>4. NamesInv(agg)
  <2>1. DOMAIN agg.ops \ {Overflow} = {}
    BY <1>2
  <2>2. \A f \in Limited : Named(agg.fam[f]) = {}
    BY <1>3 DEF Limited, Families
  <2>3. IsFiniteSet(DOMAIN agg.ops) /\ Cardinality(DOMAIN agg.ops \ {Overflow}) = 0
    BY <1>2, <1>e, <2>1
  <2>4. \A f \in Limited : Cardinality(Named(agg.fam[f])) = 0
    BY <1>e, <2>2
  <2> QED
    BY <1>0, <2>2, <2>3, <2>4 DEF NamesInv
<1>5. CountedInv
  <2>1. UNION {counted[f] : f \in Families} = {}
    BY <1>1
  <2>2. Passed = 0
    BY <1>e, <2>1 DEF Passed
  <2>3. 1 .. 0 = {}
    OBVIOUS
  <2> QED
    BY <1>1, <2>2, <2>3 DEF CountedInv, Families
<1>6. ASSUME NEW f \in Families
      PROVE  FamilySpans(f)
  <2>1. counted[f] = {} /\ exported[f] = {}
    BY <1>1
  <2>2. SpansIn(agg.fam[f]) = {} /\ agg.fam[f].exemplars = {}
    BY <1>2, <1>3
  <2>3. Cardinality(Reported(agg.fam[f], exported[f])) = 0
    BY <1>3, <1>e
  <2> QED
    BY <1>0, <2>1, <2>2, <2>3 DEF FamilySpans
<1> QED
  BY <1>1, <1>2, <1>3, <1>4, <1>5, <1>6 DEF SpanMetricsInv, AggInv

\* Every step keeps the invariant.
LEMMA NextFacts == SpanMetricsInv /\ [Next]_vars => SpanMetricsInv'
<1> SUFFICES ASSUME SpanMetricsInv, [Next]_vars PROVE SpanMetricsInv'
  OBVIOUS
<1>1. CASE \E s \in Arrivals : ConsumeTraces(s)
  BY <1>1, ConsumeFacts
<1>2. CASE ExportMetrics
  BY <1>2, ExportFacts
<1>3. CASE Start \/ TickerFires \/ Deliver \/ Shutdown \/ GoroutineEnds \/ UNCHANGED vars
  <2>1. UNCHANGED <<temporality, agg, buildErr, counted, exported>>
    BY <1>3 DEF Start, TickerFires, Deliver, Shutdown, GoroutineEnds, vars
  <2> QED
    BY <2>1 DEF SpanMetricsInv, AggInv, CountedInv, Passed, FamilySpans
<1> QED
  BY <1>1, <1>2, <1>3 DEF Next

\* What the processor counts, reports and keeps, for any number of spans.
THEOREM SpanMetricsInvariant == Spec => []SpanMetricsInv
BY InitFacts, NextFacts, PTL DEF Spec

\* buildMetrics finds the labels of every histogram, whatever was evicted from
\* the caches and in whichever order it looks the keys up.
THEOREM MetricsAreBuiltTheorem == Spec => []MetricsAreBuilt
<1>1. SpanMetricsInv => MetricsAreBuilt
  BY DEF SpanMetricsInv, MetricsAreBuilt
<1> QED
  BY <1>1, SpanMetricsInvariant, PTL

\* A span that aggregateMetrics counted is in a histogram or was in metrics that
\* were built, with delta temporality not in both; an exemplar is in one build.
THEOREM ReportedOnceTheorem == Spec => []ReportedOnce
<1>1. SpanMetricsInv => ReportedOnce
  BY DEF SpanMetricsInv, FamilySpans, ReportedOnce, SpansIn, Accumulated
<1> QED
  BY <1>1, SpanMetricsInvariant, PTL

\* The series that a family has reported and keeps, the services its labels
\* name and those that are tracked are bounded by the configured limits.
THEOREM SeriesAreBoundedTheorem == Spec => []SeriesAreBounded
<1>1. SpanMetricsInv => SeriesAreBounded
  <2> SUFFICES ASSUME SpanMetricsInv PROVE SeriesAreBounded
    OBVIOUS
  <2>1. \A f \in Families :
           Cardinality({k \in DOMAIN agg.fam[f].histo :
                           agg.fam[f].histo[k] \cap exported[f] # {}}) <= CacheSize
    BY DEF SpanMetricsInv, FamilySpans, Reported
  <2>2. \A f \in {"latency", "exp", "call"} :
           Cardinality({agg.fam[f].dims[k].names[1] : k \in DOMAIN agg.fam[f].dims}
                       \ {"overflow_service"}) <= MaxServices
    BY DEF SpanMetricsInv, AggInv, NamesInv, Named, Limited, Overflow
  <2>3. Cardinality(DOMAIN agg.ops) <= MaxServices + 2
    <3> DEFINE D == DOMAIN agg.ops
    <3>1. IsFiniteSet(D) /\ Cardinality(D \ {Overflow}) <= MaxServices + 1
      BY DEF SpanMetricsInv, AggInv, NamesInv
    <3> HIDE DEF D
    <3>2. Cardinality(D \ {Overflow})
             = IF Overflow \in D THEN Cardinality(D) - 1 ELSE Cardinality(D)
      BY <3>1, FS_RemoveElement
    <3>3. Cardinality(D) \in Nat
      BY <3>1, FS_CardinalityType
    <3>4. MaxServices \in Nat
      BY SpanMetricsAssumption
    <3>5. Cardinality(D) <= MaxServices + 2
      BY <3>1, <3>2, <3>3, <3>4
    <3> QED
      BY <3>5 DEF D
  <2> QED
    BY <2>1, <2>2, <2>3 DEF SeriesAreBounded
<1> QED
  BY <1>1, SpanMetricsInvariant, PTL

-----------------------------------------------------------------------------
(* What a step may do to a series *)

\* The step leaves the series k of family f with all its spans, or drops it when
\* all of them have been reported.
KeepsSeries(f, k) ==
    LET old == agg.fam[f].histo[k]
    IN  IF k \in DOMAIN agg'.fam[f].histo THEN old \subseteq agg'.fam[f].histo[k]
                                         ELSE old \subseteq exported'[f]

\* A series never loses a span, so that the values of a cumulative one never
\* decrease while it exists; it disappears, by the reset of a delta series or
\* because its key was evicted, only when everything in it was reported.
SeriesOnlyGrow ==
    [][\A f \in Families : \A k \in DOMAIN agg.fam[f].histo : KeepsSeries(f, k)]_vars

\* No step of the processor takes a span out of a series.
THEOREM SeriesOnlyGrowTheorem == Spec => SeriesOnlyGrow
<1>1. ASSUME SpanMetricsInv, Next, NEW f \in Families, NEW k \in DOMAIN agg.fam[f].histo
      PROVE  KeepsSeries(f, k)
  <2>1. ASSUME NEW s \in Arrivals, ConsumeTraces(s), Counts(s)
        PROVE  KeepsSeries(f, k)
    <3> DEFINE b == AggregateMetrics(agg, s, Passed + 1)
    <3>1. agg' = b
      BY <2>1 DEF ConsumeTraces
    <3>2. /\ f \notin FamiliesOf(s) => b.fam[f] = agg.fam[f]
          /\ f \in FamiliesOf(s) =>
                \E key, labels : Counts1(agg.fam[f], b.fam[f], key, labels, Passed + 1)
      BY <1>1, AggregateFacts DEF SpanMetricsInv
    <3> HIDE DEF b
    <3>3. CASE f \notin FamiliesOf(s)
      BY <1>1, <3>1, <3>2, <3>3 DEF KeepsSeries
    <3>4. CASE f \in FamiliesOf(s)
      <4>1. PICK key, labels : Counts1(agg.fam[f], b.fam[f], key, labels, Passed + 1)
        BY <3>2, <3>4
      <4>2. k \in DOMAIN b.fam[f].histo /\ agg.fam[f].histo[k] \subseteq b.fam[f].histo[k]
        BY <1>1, <4>1 DEF Counts1
      <4> QED
        BY <3>1, <4>2 DEF KeepsSeries
    <3> QED
      BY <3>3, <3>4
  <2>2. ASSUME NEW s \in Arrivals, ConsumeTraces(s), ~Counts(s)
        PROVE  agg' = agg
    BY <2>2 DEF ConsumeTraces
  <2>3. CASE ExportMetrics
    <3>1. BuildMetrics /\ UNCHANGED <<counted, temporality>>
      BY <1>1, <2>3, LabelsFacts DEF ExportMetrics
    <3>2. Left(agg.fam[f], agg'.fam[f])
      BY <1>1, <3>1, BuildFacts
    <3>3. exported'[f] = exported[f] \cup SpansIn(agg.fam[f])
      BY <1>1, <3>1, BuildFamilyFacts
    <3>4. agg.fam[f].histo[k] \subseteq SpansIn(agg.fam[f])
      BY <1>1 DEF SpansIn
    <3> QED
      BY <3>2, <3>3, <3>4 DEF Left, KeepsSeries
  <2>4. agg' = agg => KeepsSeries(f, k)
    BY <1>1 DEF KeepsSeries
  <2>5. (Start \/ TickerFires \/ Deliver \/ Shutdown \/ GoroutineEnds) => agg' = agg
    BY DEF Start, TickerFires, Deliver, Shutdown, GoroutineEnds
  <2> QED
    BY <1>1, <2>1, <2>2, <2>3, <2>4, <2>5 DEF Next
<1>2. SpanMetricsInv /\ [Next]_vars =>
         [\A f \in Families : \A k \in DOMAIN agg.fam[f].histo : KeepsSeries(f, k)]_vars
  BY <1>1
<1> QED
  BY <1>2, SpanMetricsInvariant, PTL DEF Spec, SeriesOnlyGrow
=============================================================================
