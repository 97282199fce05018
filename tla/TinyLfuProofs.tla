--------------------------- MODULE TinyLfuProofs ---------------------------
(***************************************************************************)
(* The filter cannot disturb the structures it filters for: a shard of     *)
(* TinyLfuCache keeps the invariants of an LRU shard, whatever the sketch  *)
(* estimates.  And what the sketch estimates is close to the truth.        *)
(***************************************************************************)
EXTENDS TinyLfuCache, LruProofs

\* The invariant is about the arena, the map and the order alone.
LEMMA SameIInv == IInv /\ UNCHANGED << arena, map, order >> => IInv'
  BY DEF IInv, TypeOK, ListInOrder, MapMatchesArena, SlotsAccounted, CapacityInvariant

\* A call of TinyLfuCache is a call of LruCache, or one that leaves arena, map
\* and order alone.
LEMMA TinyStep == TinyNext => Next \/ UNCHANGED << arena, map, order >>
  BY DEF TinyNext, TinyGet, TinyReplace, TinyAdd, TinyReject, TinyRemove,
         TinyContainsKey, TinySize, TinyClear, Next

\* In every state of every run of a TinyLfuCache shard, for all keys, hash
\* functions, window sizes and capacities, arena, map, recency list and free
\* stack agree with one another.
THEOREM TinyInvariance == TinySpec => []IInv
  <1>1. TinyInit => IInv
    BY InitIInv DEF TinyInit
  <1>2. IInv /\ [TinyNext]_tinyVars => IInv'
    <2>1. CASE TinyNext /\ Next
      BY <2>1, NextIInv
    <2>2. CASE UNCHANGED << arena, map, order >>
      BY <2>2, SameIInv
    <2>3. CASE UNCHANGED tinyVars
      BY <2>3, SameIInv DEF tinyVars
    <2>4. QED
      BY <2>1, <2>2, <2>3, TinyStep
  <1>3. QED
    BY <1>1, <1>2, PTL DEF TinySpec

\* Every key of the map leads to a node of that key and every node is found by
\* its key: the unreachable!() arms of tinylfu.rs are never reached, and an
\* admitted key always replaces exactly the entry it was compared with.
THEOREM TinyMapCorrect == TinySpec => []MapMatchesArena
  <1>1. IInv => MapMatchesArena
    BY DEF IInv
  <1>2. QED BY <1>1, TinyInvariance, PTL
-----------------------------------------------------------------------------
\* The operators of the instance are those of the shard.
LEMMA FilteredOps ==
  /\ \A S : Filtered!Cardinality(S) = Cardinality(S)
  /\ \A s, x : Filtered!Push(s, x) = Policy!Push(s, x)
  /\ \A s, x : Filtered!Without(s, x) = Policy!Without(s, x)
  /\ \A s, x : Filtered!ToFront(s, x) = Policy!ToFront(s, x)
  /\ Filtered!EmptyMap = Policy!EmptyMap
  <1>1. \A S : Filtered!Cardinality(S) = Cardinality(S)
    BY DEF Filtered!Cardinality, Cardinality
  <1>2. \A s, x : Filtered!Push(s, x) = Policy!Push(s, x)
    BY DEF Policy!Push, Filtered!Push
  <1>3. \A s, x : Filtered!Without(s, x) = Policy!Without(s, x)
    BY DEF Policy!Without, Filtered!Without, Policy!Position, Filtered!Position
  <1>4. \A s, x : Filtered!ToFront(s, x) = Policy!ToFront(s, x)
    BY <1>2, <1>3 DEF Policy!ToFront, Filtered!ToFront
  <1>5. Filtered!EmptyMap = Policy!EmptyMap
    BY DEF Policy!EmptyMap, Filtered!EmptyMap
  <1>6. QED BY <1>1, <1>2, <1>3, <1>4, <1>5

\* The filtered policy has all the calls of the LRU policy.
LEMMA LruCallsAllowed == Policy!Next => Filtered!Next
  <1> USE FilteredOps, PolicyOps
  <1>1. ASSUME NEW k, Policy!Get(k) PROVE Filtered!Get(k)
    BY <1>1 DEF Policy!Get, Filtered!Get
  <1>2. ASSUME NEW k, NEW v, Policy!Replace(k, v) PROVE Filtered!Replace(k, v)
    BY <1>2 DEF Policy!Replace, Filtered!Replace
  <1>3. ASSUME NEW k, NEW v, Policy!Add(k, v) PROVE Filtered!Add(k, v)
    <2>1. Policy!Kept = Filtered!Kept
      BY Zenon DEF Policy!Kept, Filtered!Kept
    <2>2. Policy!KeptOrder = Filtered!KeptOrder
      BY DEF Policy!KeptOrder, Filtered!KeptOrder
    <2>3. QED BY <1>3, <2>1, <2>2 DEF Policy!Add, Filtered!Add
  <1>4. ASSUME NEW k, Policy!Remove(k) PROVE Filtered!Remove(k)
    BY <1>4 DEF Policy!Remove, Filtered!Remove
  <1>5. ASSUME NEW k, Policy!ContainsKey(k) PROVE Filtered!ContainsKey(k)
    BY <1>5 DEF Policy!ContainsKey, Filtered!ContainsKey
  <1>6. ASSUME Policy!Size PROVE Filtered!Size
    BY <1>6 DEF Policy!Size, Filtered!Size
  <1>7. ASSUME Policy!Clear PROVE Filtered!Clear
    BY <1>7 DEF Policy!Clear, Filtered!Clear
  <1>8. QED
    BY <1>1, <1>2, <1>3, <1>4, <1>5, <1>6, <1>7 DEF Policy!Next, Filtered!Next

\* Every call of a TinyLfuCache shard is a call of the LRU policy or a rejection.
LEMMA TinyRefines ==
  IInv /\ [TinyNext]_tinyVars =>
    [Filtered!Next \/ \E k \in Key : Filtered!Reject(k)]_(Filtered!vars)
  <1> SUFFICES ASSUME IInv, [TinyNext]_tinyVars
               PROVE  [Filtered!Next \/ \E k \in Key : Filtered!Reject(k)]_(Filtered!vars)
    OBVIOUS
  <1>1. UNCHANGED Policy!vars <=> UNCHANGED Filtered!vars
    BY DEF Policy!vars, Filtered!vars
  <1>2. CASE Next
    <2>1. Policy!Next \/ UNCHANGED Policy!vars
      BY <1>2, NextRefines
    <2>2. QED BY <2>1, <1>1, LruCallsAllowed
  <1>3. CASE UNCHANGED tinyVars
    BY <1>3 DEF tinyVars, Filtered!vars
  <1>4. ASSUME NEW k \in Key, TinyReject(k) PROVE Filtered!Reject(k)
    <2>1. /\ k \notin DOMAIN map /\ Cardinality(DOMAIN map) >= Capacity
          /\ arena' = arena /\ map' = map /\ order' = order
          /\ reply' = << "insert", "none", k >> \/ reply' = << "insert", "panicked", k >>
      BY <1>4 DEF TinyReject, AtCapacity
    <2>2. DOMAIN [x \in DOMAIN map |-> arena.nodes[map[x]].item.value] = DOMAIN map
      OBVIOUS
    <2>3. QED BY <2>1, <2>2, FilteredOps DEF Filtered!Reject
  <1>5. QED
    BY <1>2, <1>3, <1>4
    DEF TinyNext, TinyGet, TinyReplace, TinyAdd, TinyRemove, TinyContainsKey,
        TinySize, TinyClear, Next

\* A shard of TinyLfuCache is, with every reply it gives, an LRU cache that may
\* turn a new key away when it is full: a rejection costs no entry, moves none,
\* and an admission evicts the least recently used entry only.
THEOREM TinyRefinement == TinySpec => ImplementsFiltered
  <1>1. TinyInit => Filtered!Init
    BY DEF TinyInit, Init, Filtered!Init, EmptyMap, Filtered!EmptyMap
  <1>2. IInv /\ [TinyNext]_tinyVars =>
          [Filtered!Next \/ \E k \in Key : Filtered!Reject(k)]_(Filtered!vars)
    BY TinyRefines
  <1>3. QED
    BY <1>1, <1>2, TinyInvariance, PTL DEF TinySpec, ImplementsFiltered, Filtered!FilteredSpec
-----------------------------------------------------------------------------
(***************************************************************************)
(* The sketch.  Each cell is compared with the exact counts of the keys it *)
(* is the cell of: an estimate is one of these cells, and the least.       *)
(***************************************************************************)
Columns == 0..(Width - 1)

\* The type of the sketch, and of the exact counts.
SketchType ==
  /\ sketch.samples \in 0..(SampleWindow - 1)
  /\ \A d \in Row : sketch.counters[d] \in [Columns -> 0..CounterMax]
  /\ hits \in [Key -> 0..CounterMax]

\* No cell of a key is lower than the exact count of the key.
NeverUnder ==
  \A k \in Key, d \in Row : hits[k] <= sketch.counters[d][Column[d][k]]

SketchInv == SketchType /\ NeverUnder

\* The cells of a key are cells of the sketch.
LEMMA ColumnType == \A d \in Row, k \in Key : Column[d][k] \in Columns
  BY ColumnAssumption, SketchAssumption DEF Columns

\* An estimate is the least of the cells of the key.
LEMMA EstimateFacts ==
  ASSUME NEW s, NEW k \in Key, \A d \in Row : s.counters[d] \in [Columns -> 0..CounterMax]
  PROVE  /\ \E d \in Row : estimate(s, k) = s.counters[d][Column[d][k]]
         /\ \A d \in Row : estimate(s, k) <= s.counters[d][Column[d][k]]
         /\ estimate(s, k) \in Nat
  <1> DEFINE observed == {s.counters[d][Column[d][k]] : d \in Row}
  <1>1. observed # {} /\ observed \subseteq Nat
    BY ColumnType, SketchAssumption
  <1>2. estimate(s, k) = CHOOSE m \in observed : \A n \in observed : m <= n
    BY DEF estimate
  <1>3. \E m \in observed : \A n \in observed : m <= n
    <2> HIDE DEF observed
    <2>1. QED BY <1>1, LeastNat
  <1>4. estimate(s, k) \in observed /\ \A n \in observed : estimate(s, k) <= n
    <2> HIDE DEF observed
    <2>1. QED BY <1>2, <1>3
  <1>5. QED BY <1>1, <1>4

\* What the cells and the exact counts are after k has been counted and before
\* they are halved, if they are.
Tallied(k) == [d \in Row |-> [sketch.counters[d] EXCEPT ![Column[d][k]] = SatInc(@)]]

HitsTallied(k) == [hits EXCEPT ![k] = SatInc(@)]

\* A saturating increment stays in the range of a counter, moves by at most one
\* and keeps the order.
LEMMA SatIncFacts ==
  ASSUME NEW n \in 0..CounterMax, NEW m \in 0..CounterMax
  PROVE  /\ SatInc(n) \in 0..CounterMax /\ n <= SatInc(n) /\ SatInc(n) <= n + 1
         /\ n <= m => SatInc(n) <= SatInc(m)
         /\ SatInc(n) = n + 1 \/ n = CounterMax
  BY SketchAssumption DEF SatInc

\* Counting an access, before any halving.
LEMMA TallyFacts ==
  ASSUME SketchInv, NEW k \in Key
  PROVE  /\ \A d \in Row : Tallied(k)[d] \in [Columns -> 0..CounterMax]
         /\ HitsTallied(k) \in [Key -> 0..CounterMax]
         /\ \A x \in Key, d \in Row : HitsTallied(k)[x] <= Tallied(k)[d][Column[d][x]]
         /\ \A x \in Key, d \in Row : Tallied(k)[d][Column[d][x]] =
              IF Column[d][x] = Column[d][k] THEN SatInc(sketch.counters[d][Column[d][x]])
              ELSE sketch.counters[d][Column[d][x]]
  <1> USE DEF SketchInv, SketchType
  <1>1. ASSUME NEW d \in Row PROVE Tallied(k)[d] \in [Columns -> 0..CounterMax]
    <2>1. Column[d][k] \in Columns /\ sketch.counters[d] \in [Columns -> 0..CounterMax]
      BY ColumnType
    <2>2. SatInc(sketch.counters[d][Column[d][k]]) \in 0..CounterMax
      BY <2>1, SatIncFacts
    <2>3. QED BY <2>1, <2>2 DEF Tallied
  <1>2. HitsTallied(k) \in [Key -> 0..CounterMax]
    <2>1. SatInc(hits[k]) \in 0..CounterMax
      BY SatIncFacts
    <2>2. QED BY <2>1 DEF HitsTallied
  <1>3. ASSUME NEW x \in Key, NEW d \in Row
        PROVE  Tallied(k)[d][Column[d][x]] =
                 IF Column[d][x] = Column[d][k] THEN SatInc(sketch.counters[d][Column[d][x]])
                 ELSE sketch.counters[d][Column[d][x]]
    BY ColumnType DEF Tallied
  <1>4. ASSUME NEW x \in Key, NEW d \in Row
        PROVE  HitsTallied(k)[x] <= Tallied(k)[d][Column[d][x]]
    <2> DEFINE c == sketch.counters[d][Column[d][x]]
    <2>1. /\ c \in 0..CounterMax /\ hits[x] \in 0..CounterMax /\ hits[x] <= c
      BY ColumnType DEF NeverUnder
    <2> HIDE DEF c
    <2>2. /\ SatInc(hits[x]) <= SatInc(c) /\ c <= SatInc(c)
          /\ SatInc(c) \in Nat /\ SatInc(hits[x]) \in Nat
      BY <2>1, SatIncFacts
    <2>3. HitsTallied(k)[x] = IF x = k THEN SatInc(hits[x]) ELSE hits[x]
      BY DEF HitsTallied
    <2>4. Tallied(k)[d][Column[d][x]] = IF Column[d][x] = Column[d][k] THEN SatInc(c) ELSE c
      BY <1>3 DEF c
    <2>5. QED BY <2>1, <2>2, <2>3, <2>4
  <1>5. QED BY <1>1, <1>2, <1>3, <1>4

\* A step that counts k halves everything or nothing.
LEMMA CountFacts ==
  ASSUME NEW k \in Key, Count(k)
  PROVE  \/ /\ Ages(sketch)
            /\ \A d \in Row : sketch'.counters[d] = [c \in Columns |-> Tallied(k)[d][c] \div 2]
            /\ sketch'.samples = 0
            /\ hits' = [x \in Key |-> HitsTallied(k)[x] \div 2]
         \/ /\ ~Ages(sketch)
            /\ \A d \in Row : sketch'.counters[d] = Tallied(k)[d]
            /\ sketch'.samples = sketch.samples + 1
            /\ hits' = HitsTallied(k)
  BY DEF Count, increment, age, Tallied, HitsTallied, Columns

\* Halving keeps the range of a counter and loses at most one half.
LEMMA HalfFacts ==
  ASSUME NEW n \in 0..CounterMax
  PROVE  n \div 2 \in 0..CounterMax /\ n <= 2 * (n \div 2) + 1
  BY SketchAssumption

\* Halving keeps the order of two counters.
LEMMA HalfMonotone ==
  ASSUME NEW n \in 0..CounterMax, NEW m \in 0..CounterMax, n <= m
  PROVE  n \div 2 <= m \div 2
  BY SketchAssumption

\* A counted access keeps the invariant of the sketch.
LEMMA CountKeeps ==
  ASSUME SketchInv, NEW k \in Key, Count(k)
  PROVE  SketchInv'
  <1> DEFINE t == Tallied(k)
             h == HitsTallied(k)
  <1>1. /\ \A d \in Row : t[d] \in [Columns -> 0..CounterMax]
        /\ h \in [Key -> 0..CounterMax]
        /\ \A x \in Key, d \in Row : h[x] <= t[d][Column[d][x]]
    BY TallyFacts
  <1> HIDE DEF t, h
  <1>2. CASE /\ \A d \in Row : sketch'.counters[d] = [c \in Columns |-> t[d][c] \div 2]
             /\ sketch'.samples = 0 /\ hits' = [x \in Key |-> h[x] \div 2]
    <2>1. \A d \in Row : sketch'.counters[d] \in [Columns -> 0..CounterMax]
      <3>1. ASSUME NEW d \in Row, NEW c \in Columns PROVE t[d][c] \div 2 \in 0..CounterMax
        <4>1. t[d][c] \in 0..CounterMax
          BY <1>1
        <4>2. QED BY <4>1, HalfFacts
      <3>2. QED BY <3>1, <1>2
    <2>2. hits' \in [Key -> 0..CounterMax]
      <3>1. ASSUME NEW x \in Key PROVE h[x] \div 2 \in 0..CounterMax
        <4>1. h[x] \in 0..CounterMax
          BY <1>1
        <4>2. QED BY <4>1, HalfFacts
      <3>2. QED BY <3>1, <1>2
    <2>3. sketch'.samples \in 0..(SampleWindow - 1)
      BY <1>2, SketchAssumption
    <2>4. ASSUME NEW x \in Key, NEW d \in Row
          PROVE  hits'[x] <= sketch'.counters[d][Column[d][x]]
      <3>1. Column[d][x] \in Columns
        BY ColumnType
      <3>2. h[x] \div 2 <= t[d][Column[d][x]] \div 2
        <4> DEFINE n == h[x]
                   m == t[d][Column[d][x]]
        <4>1. n \in 0..CounterMax /\ m \in 0..CounterMax /\ n <= m
          BY <3>1, <1>1
        <4> HIDE DEF n, m
        <4>2. n \div 2 <= m \div 2
          BY <4>1, HalfMonotone
        <4>3. QED BY <4>2 DEF n, m
      <3>3. hits'[x] = h[x] \div 2 /\ sketch'.counters[d][Column[d][x]] = t[d][Column[d][x]] \div 2
        BY <3>1, <1>2
      <3>4. QED BY <3>2, <3>3
    <2>5. QED BY <2>1, <2>2, <2>3, <2>4 DEF SketchInv, SketchType, NeverUnder, Columns
  <1>3. CASE /\ ~Ages(sketch) /\ \A d \in Row : sketch'.counters[d] = t[d]
             /\ sketch'.samples = sketch.samples + 1 /\ hits' = h
    <2>1. sketch'.samples \in 0..(SampleWindow - 1)
      BY <1>3, SketchAssumption DEF SketchInv, SketchType, Ages
    <2>2. QED BY <2>1, <1>1, <1>3 DEF SketchInv, SketchType, NeverUnder, Columns
  <1>4. QED BY <1>2, <1>3, CountFacts DEF t, h

\* A shard counts nothing until its first call; clear starts again from there.
LEMMA FreshSketch ==
  /\ \A d \in Row : EmptySketch.counters[d] = [c \in Columns |-> 0]
  /\ EmptySketch.samples = 0
  BY DEF EmptySketch, Columns

\* Every step counts one access, starts afresh, or leaves the sketch alone.
LEMMA TinySteps ==
  ASSUME [TinyNext]_tinyVars
  PROVE  \/ \E k \in Key : Count(k)
         \/ sketch' = EmptySketch /\ hits' = [k \in Key |-> 0]
         \/ sketch' = sketch /\ hits' = hits
  BY DEF TinyNext, TinyGet, TinyReplace, TinyAdd, TinyReject, TinyRemove,
         TinyContainsKey, TinySize, TinyClear, reset, tinyVars

\* A sketch that has counted nothing is in order.
LEMMA SketchInvInit ==
  ASSUME sketch = EmptySketch, hits = [k \in Key |-> 0]
  PROVE  SketchInv
  <1>1. 0 \in 0..CounterMax /\ 0 \in 0..(SampleWindow - 1)
    BY SketchAssumption
  <1>2. \A d \in Row : sketch.counters[d] = [c \in Columns |-> 0]
    BY FreshSketch
  <1>3. SketchType
    BY <1>1, <1>2, FreshSketch DEF SketchType
  <1>4. \A k \in Key, d \in Row : sketch.counters[d][Column[d][k]] = 0 /\ hits[k] = 0
    BY <1>2, ColumnType
  <1>5. NeverUnder
    BY <1>4 DEF NeverUnder
  <1>6. QED BY <1>3, <1>5 DEF SketchInv

\* Every step keeps it in order.
LEMMA SketchInvNext == SketchInv /\ [TinyNext]_tinyVars => SketchInv'
  <1> SUFFICES ASSUME SketchInv, [TinyNext]_tinyVars PROVE SketchInv'
    OBVIOUS
  <1>1. ASSUME NEW k \in Key, Count(k) PROVE SketchInv'
    BY <1>1, CountKeeps
  <1>2. CASE sketch' = EmptySketch /\ hits' = [k \in Key |-> 0]
    <2>1. 0 \in 0..CounterMax /\ 0 \in 0..(SampleWindow - 1)
      BY SketchAssumption
    <2>2. \A d \in Row : sketch'.counters[d] = [c \in Columns |-> 0]
      BY <1>2, FreshSketch
    <2>3. SketchType'
      BY <1>2, <2>1, <2>2, FreshSketch DEF SketchType, Columns
    <2>4. \A k \in Key, d \in Row : sketch'.counters[d][Column[d][k]] = 0 /\ hits'[k] = 0
      BY <1>2, <2>2, ColumnType
    <2>5. NeverUnder'
      BY <2>4 DEF NeverUnder
    <2>6. QED BY <2>3, <2>5 DEF SketchInv
  <1>3. CASE sketch' = sketch /\ hits' = hits
    BY <1>3 DEF SketchInv, SketchType, NeverUnder, Columns
  <1>4. QED BY <1>1, <1>2, <1>3, TinySteps

\* The sketch of a shard is in order all the time.
LEMMA SketchInvariance == TinySpec => []SketchInv
  <1>1. TinyInit => SketchInv
    BY SketchInvInit DEF TinyInit
  <1>2. QED BY <1>1, SketchInvNext, PTL DEF TinySpec

\* Arena, map and list keep their types, no counter of the sketch leaves the
\* range of a u8 and no sample window runs over.
THEOREM TinyTypeCorrect == TinySpec => []TinyTypeOK
  <1>1. IInv /\ SketchInv => TinyTypeOK
    BY DEF IInv, SketchInv, SketchType, TinyTypeOK, Columns
  <1>2. QED BY <1>1, TinyInvariance, SketchInvariance, PTL

\* At capacity the list has a tail, so that there is a victim to compare with.
LEMMA FullHasTail ==
  ASSUME IInv, AtCapacity
  PROVE  /\ arena.tail # None /\ arena.tail \in Occupied(arena)
         /\ VictimKey \in DOMAIN map /\ map[VictimKey] = arena.tail /\ VictimKey \in Key
  <1>1. Sound(arena, map, order)
    BY IInvIsSound
  <1>2. Cardinality(DOMAIN map) \in Nat /\ Cardinality(DOMAIN map) >= Capacity
    BY <1>1, CountSlots DEF AtCapacity
  <1>3. DOMAIN map # {}
    BY <1>2, FS_EmptySet, CapacityAssumption
  <1>4. arena.tail # None /\ arena.tail \in Occupied(arena)
    BY <1>1, <1>3, TailIsOccupied DEF Sound
  <1>5. QED BY <1>1, <1>4 DEF Sound, VictimKey

\* What the filter may do, for every step.
Keeps ==
  reply'[1] = "insert" =>
    /\ \A k \in DOMAIN map \ DOMAIN map' : hits'[k] < estimate(sketch', reply'[3])
    /\ reply'[2] = "none" /\ reply'[3] \notin DOMAIN map' =>
         estimate(sketch', reply'[3]) <= estimate(sketch', VictimKey)

\* Every call of a shard in order does what the filter may.
LEMMA FilterStep ==
  ASSUME IInv, SketchInv, SketchInv', TinyNext
  PROVE  Keeps
  <1>1. ASSUME NEW k \in Key
        PROVE  estimate(sketch', k) \in Nat /\ hits'[k] \in Nat /\ hits'[k] <= estimate(sketch', k)
    <2>1. /\ \A d \in Row : sketch'.counters[d] \in [Columns -> 0..CounterMax]
          /\ hits'[k] \in Nat
      BY DEF SketchInv, SketchType, Columns
    <2>2. /\ estimate(sketch', k) \in Nat
          /\ \E d \in Row : estimate(sketch', k) = sketch'.counters[d][Column[d][k]]
      BY <2>1, EstimateFacts
    <2>3. \A d \in Row : hits'[k] <= sketch'.counters[d][Column[d][k]]
      BY DEF SketchInv, NeverUnder
    <2>4. QED BY <2>1, <2>2, <2>3
  <1>2. ASSUME NEW k \in Key, NEW v \in Value, TinyAdd(k, v) PROVE Keeps
    <2>1. /\ Add(k, v)
          /\ AtCapacity => Admitted(k)
          /\ reply'[1] = "insert" /\ reply'[3] = k /\ reply'[2] \in {"none", "panicked"}
          /\ reply'[2] = "none" => k \in DOMAIN map'
          /\ DOMAIN RoomyMap \subseteq DOMAIN map'
      BY <1>2 DEF TinyAdd, Add
    <2>2. ASSUME NEW x \in DOMAIN map \ DOMAIN map' PROVE hits'[x] < estimate(sketch', k)
      <3>1. Full /\ x = VictimKey
        <4>1. x \notin DOMAIN RoomyMap
          BY <2>1
        <4>2. QED BY <4>1 DEF RoomyMap, VictimKey
      <3>2. AtCapacity
        BY <3>1 DEF Full, AtCapacity
      <3>3. estimate(sketch', k) > estimate(sketch', VictimKey) /\ VictimKey \in Key
        BY <2>1, <3>2, FullHasTail DEF Admitted
      <3>4. QED BY <1>1, <3>1, <3>3
    <2>3. QED BY <2>1, <2>2 DEF Keeps
  <1>3. ASSUME NEW k \in Key, TinyReject(k) PROVE Keeps
    <2>1. /\ AtCapacity /\ map' = map /\ reply'[3] = k
          /\ reply'[2] = "none" => ~Admitted(k)
      BY <1>3 DEF TinyReject
    <2>2. reply'[2] = "none" => estimate(sketch', k) <= estimate(sketch', VictimKey)
      BY <2>1, <1>1, FullHasTail DEF Admitted
    <2>3. QED BY <2>1, <2>2 DEF Keeps
  <1>4. ASSUME NEW k \in Key, NEW v \in Value, TinyReplace(k, v) PROVE Keeps
    BY <1>4 DEF TinyReplace, Replace, Keeps
  <1>5. ASSUME NEW k \in Key, TinyGet(k) \/ TinyRemove(k) \/ TinyContainsKey(k) PROVE Keeps
    BY <1>5 DEF TinyGet, Get, TinyRemove, Remove, TinyContainsKey, ContainsKey, Keeps
  <1>6. ASSUME TinySize \/ TinyClear PROVE Keeps
    BY <1>6 DEF TinySize, Size, TinyClear, Clear, Keeps
  <1>7. QED BY <1>2, <1>3, <1>4, <1>5, <1>6 DEF TinyNext

\* An entry only gives way to a key whose estimate exceeds the number of times
\* the entry itself was accessed, and a key that is turned away was not estimated
\* higher than the tail: no popular entry is lost to a one-hit wonder.
THEOREM FilterCorrect == TinySpec => FilterKeepsPopular
  <1>1. IInv /\ SketchInv /\ SketchInv' /\ [TinyNext]_tinyVars => [Keeps]_tinyVars
    BY FilterStep
  <1>2. TinySpec => [][Keeps]_tinyVars
    BY <1>1, TinyInvariance, SketchInvariance, PTL DEF TinySpec
  <1>3. QED BY <1>2 DEF FilterKeepsPopular, Keeps
-----------------------------------------------------------------------------
\* No cell is higher than the exact counts of the keys that share it add up to,
\* but for the halves that aging rounds off.  With NeverUnder, what the estimates
\* rest on.
NeverFarOver ==
  \A k \in Key, d \in Row : sketch.counters[d][Column[d][k]] <=
    SumFunctionOnSet(hits, Sharing(d, k)) + Cardinality(Sharing(d, k)) - 1

\* The keys of a cell, of which k is one.
LEMMA SharingFacts ==
  ASSUME IsFiniteSet(Key), NEW k \in Key, NEW d \in Row
  PROVE  /\ Sharing(d, k) \subseteq Key /\ k \in Sharing(d, k) /\ IsFiniteSet(Sharing(d, k))
         /\ Cardinality(Sharing(d, k)) \in Nat /\ Cardinality(Sharing(d, k)) >= 1
  <1> DEFINE S == Sharing(d, k)
  <1>1. S \subseteq Key /\ k \in S
    BY DEF Sharing
  <1> HIDE DEF S
  <1>2. IsFiniteSet(S)
    BY <1>1, FS_Subset
  <1>3. Cardinality(S) \in Nat /\ Cardinality(S) # 0
    BY <1>1, <1>2, FS_CardinalityType, FS_EmptySet
  <1>4. QED BY <1>1, <1>2, <1>3 DEF S

\* Counting an access keeps the bound, before any halving.
LEMMA TallyClose ==
  ASSUME IsFiniteSet(Key), SketchInv, NeverFarOver, NEW k \in Key, NEW x \in Key, NEW d \in Row
  PROVE  Tallied(k)[d][Column[d][x]] <=
           SumFunctionOnSet(HitsTallied(k), Sharing(d, x)) + Cardinality(Sharing(d, x)) - 1
  <1> DEFINE S == Sharing(d, x)
             h == HitsTallied(k)
             c == sketch.counters[d][Column[d][x]]
             t == Tallied(k)[d][Column[d][x]]
             n == Cardinality(S)
  <1>1. S \subseteq Key /\ IsFiniteSet(S) /\ n \in Nat /\ n >= 1
    BY SharingFacts
  <1>2. /\ hits \in [Key -> 0..CounterMax] /\ h \in [Key -> 0..CounterMax]
        /\ c \in 0..CounterMax
    BY TallyFacts, ColumnType DEF SketchInv, SketchType
  <1>3. t = IF Column[d][x] = Column[d][k] THEN SatInc(c) ELSE c
    BY TallyFacts
  <1>4. k \in S <=> Column[d][x] = Column[d][k]
    BY DEF Sharing
  <1>5. c <= SumFunctionOnSet(hits, S) + n - 1
    BY DEF NeverFarOver
  <1>6. /\ \A y \in Key \ {k} : h[y] = hits[y]
        /\ h[k] = SatInc(hits[k])
    BY <1>2 DEF HitsTallied
  <1> HIDE DEF S, h, c, t, n
  <1>7. \A y \in S : hits[y] \in Nat /\ h[y] \in Nat
    BY <1>1, <1>2
  <1>8. SumFunctionOnSet(hits, S) \in Nat /\ SumFunctionOnSet(h, S) \in Nat
    BY <1>1, <1>7, SumNat
  <1>9. CASE k \notin S
    <2>1. \A y \in S : hits[y] = h[y]
      BY <1>1, <1>6, <1>9
    <2>2. SumFunctionOnSet(hits, S) = SumFunctionOnSet(h, S)
      BY <1>1, <2>1, SumSame
    <2>3. t = c
      BY <1>3, <1>4, <1>9
    <2>4. QED BY <2>2, <2>3, <1>5 DEF S, h, t, n
  <1>10. CASE k \in S
    <2>1. t = SatInc(c) /\ SatInc(c) \in 0..CounterMax /\ SatInc(c) <= c + 1
      BY <1>2, <1>3, <1>4, <1>10, SatIncFacts
    <2>2. hits[k] \in 0..CounterMax /\ h[k] \in 0..CounterMax
      BY <1>2
    <2>3. h[k] = hits[k] + 1 \/ h[k] = CounterMax
      BY <1>6, <2>2, SatIncFacts
    <2>4. CASE h[k] = hits[k] + 1
      <3>1. SumFunctionOnSet(h, S) + hits[k] = SumFunctionOnSet(hits, S) + h[k]
        <4>1. \A y \in S \ {k} : hits[y] = h[y]
          BY <1>1, <1>6
        <4>2. QED BY <4>1, <1>1, <1>7, <1>10, SumChange
      <3>2. SumFunctionOnSet(h, S) = SumFunctionOnSet(hits, S) + 1
        BY <3>1, <2>2, <2>4, <1>8
      <3>3. t <= SumFunctionOnSet(h, S) + n - 1
        BY <3>2, <2>1, <1>1, <1>2, <1>5, <1>8
      <3>4. QED BY <3>3 DEF S, h, t, n
    <2>5. CASE h[k] = CounterMax
      <3>1. h[k] <= SumFunctionOnSet(h, S)
        BY <1>1, <1>7, <1>10, SumAtLeast
      <3>2. t <= SumFunctionOnSet(h, S) + n - 1
        BY <3>1, <2>1, <2>5, <1>1, <1>8, SketchAssumption
      <3>3. QED BY <3>2 DEF S, h, t, n
    <2>6. QED BY <2>3, <2>4, <2>5
  <1>11. QED BY <1>9, <1>10

\* A counted access keeps the bound: what aging rounds off is no more than one
\* half for each key of the cell.
LEMMA CountClose ==
  ASSUME IsFiniteSet(Key), SketchInv, NeverFarOver, NEW k \in Key, Count(k)
  PROVE  NeverFarOver'
  <1>1. SUFFICES ASSUME NEW x \in Key, NEW d \in Row
                 PROVE  sketch'.counters[d][Column[d][x]] <=
                   SumFunctionOnSet(hits', Sharing(d, x)) + Cardinality(Sharing(d, x)) - 1
    BY DEF NeverFarOver, Sharing
  <1> DEFINE S == Sharing(d, x)
             h == HitsTallied(k)
             t == Tallied(k)[d][Column[d][x]]
             n == Cardinality(S)
  <1>2. t <= SumFunctionOnSet(h, S) + n - 1
    BY TallyClose
  <1>3. S \subseteq Key /\ IsFiniteSet(S) /\ n \in Nat /\ n >= 1
    BY SharingFacts
  <1>4. h \in [Key -> 0..CounterMax] /\ t \in 0..CounterMax /\ Column[d][x] \in Columns
    BY TallyFacts, ColumnType
  <1>5. \/ /\ sketch'.counters[d][Column[d][x]] = t \div 2
           /\ hits' = [y \in Key |-> h[y] \div 2]
        \/ sketch'.counters[d][Column[d][x]] = t /\ hits' = h
    <2>1. \/ /\ sketch'.counters[d] = [c \in Columns |-> Tallied(k)[d][c] \div 2]
             /\ hits' = [y \in Key |-> h[y] \div 2]
          \/ sketch'.counters[d] = Tallied(k)[d] /\ hits' = h
      BY CountFacts
    <2> HIDE DEF h
    <2>2. QED BY <1>4, <2>1
  <1> HIDE DEF S, h, t, n
  <1>6. CASE sketch'.counters[d][Column[d][x]] = t /\ hits' = h
    BY <1>2, <1>6 DEF S, n
  <1>7. CASE /\ sketch'.counters[d][Column[d][x]] = t \div 2
             /\ hits' = [y \in Key |-> h[y] \div 2]
    <2>1. ASSUME NEW y \in S
          PROVE  h[y] \in Nat /\ hits'[y] \in Nat /\ h[y] <= 2 * hits'[y] + 1
      <3>1. h[y] \in 0..CounterMax /\ hits'[y] = h[y] \div 2
        BY <1>3, <1>4, <1>7
      <3>2. QED BY <3>1, HalfFacts
    <2>2. SumFunctionOnSet(h, S) <= 2 * SumFunctionOnSet(hits', S) + n
      BY <2>1, <1>3, SumHalves DEF n
    <2>3. SumFunctionOnSet(h, S) \in Nat
      BY <2>1, <1>3, SumNat
    <2>4. SumFunctionOnSet(hits', S) \in Nat
      BY <2>1, <1>3, SumNat
    <2> DEFINE q == SumFunctionOnSet(hits', S)
    <2> HIDE DEF q
    <2>5. t \in Nat /\ q \in Nat /\ t <= 2 * q + n + n - 1
      BY <1>2, <1>3, <1>4, <2>2, <2>3, <2>4 DEF q
    <2>6. t \div 2 <= q + n - 1
      BY <2>5, <1>3
    <2>7. QED BY <2>6, <1>7 DEF q, S, n
  <1>8. QED BY <1>5, <1>6, <1>7

\* The sum of counts that are all zero.
LEMMA FreshClose ==
  ASSUME IsFiniteSet(Key), NEW k \in Key, NEW d \in Row, NEW h, h = [x \in Key |-> 0]
  PROVE  0 <= SumFunctionOnSet(h, Sharing(d, k)) + Cardinality(Sharing(d, k)) - 1
  <1> DEFINE S == Sharing(d, k)
  <1>1. S \subseteq Key /\ IsFiniteSet(S) /\ Cardinality(S) \in Nat /\ Cardinality(S) >= 1
    BY SharingFacts
  <1> HIDE DEF S
  <1>2. \A x \in S : h[x] \in Nat
    BY <1>1
  <1>3. SumFunctionOnSet(h, S) \in Nat
    BY <1>1, <1>2, SumNat
  <1>4. 0 <= SumFunctionOnSet(h, S) + Cardinality(S) - 1
    BY <1>1, <1>3
  <1>5. QED BY <1>4 DEF S

\* Whatever order accesses, agings and clears come in, the sketch of a shard
\* never underestimates a key, and overestimates it by no more than the accesses
\* of the keys that share one of its cells and the halves that aging rounds off.
\* Keys come from a finite set, as the values of a type that fits in memory do.
THEOREM EstimateCorrect ==
  ASSUME IsFiniteSet(Key)
  PROVE  TinySpec => []EstimateIsClose
  <1>1. TinyInit => NeverFarOver
    <2>1. SUFFICES ASSUME TinyInit, NEW k \in Key, NEW d \in Row
                   PROVE  sketch.counters[d][Column[d][k]] <=
                     SumFunctionOnSet(hits, Sharing(d, k)) + Cardinality(Sharing(d, k)) - 1
      BY DEF NeverFarOver
    <2>2. sketch.counters[d][Column[d][k]] = 0
      BY <2>1, FreshSketch, ColumnType DEF TinyInit
    <2>3. QED BY <2>1, <2>2, FreshClose DEF TinyInit
  <1>2. SketchInv /\ NeverFarOver /\ [TinyNext]_tinyVars => NeverFarOver'
    <2> SUFFICES ASSUME SketchInv, NeverFarOver, [TinyNext]_tinyVars PROVE NeverFarOver'
      OBVIOUS
    <2>1. ASSUME NEW k \in Key, Count(k) PROVE NeverFarOver'
      BY <2>1, CountClose
    <2>2. CASE sketch' = EmptySketch /\ hits' = [k \in Key |-> 0]
      <3>1. SUFFICES ASSUME NEW k \in Key, NEW d \in Row
                     PROVE  sketch'.counters[d][Column[d][k]] <=
                       SumFunctionOnSet(hits', Sharing(d, k)) + Cardinality(Sharing(d, k)) - 1
        BY DEF NeverFarOver, Sharing
      <3>2. sketch'.counters[d][Column[d][k]] = 0
        BY <2>2, FreshSketch, ColumnType
      <3>3. QED BY <2>2, <3>2, FreshClose
    <2>3. CASE sketch' = sketch /\ hits' = hits
      BY <2>3 DEF NeverFarOver, Sharing
    <2>4. QED BY <2>1, <2>2, <2>3, TinySteps
  <1>3. SketchInv /\ NeverFarOver => EstimateIsClose
    <2> SUFFICES ASSUME SketchInv, NeverFarOver, NEW k \in Key
                 PROVE  /\ hits[k] <= estimate(sketch, k)
                        /\ \A d \in Row : estimate(sketch, k) <=
                             SumFunctionOnSet(hits, Sharing(d, k)) + Cardinality(Sharing(d, k)) - 1
      BY DEF EstimateIsClose
    <2>1. /\ \E d \in Row : estimate(sketch, k) = sketch.counters[d][Column[d][k]]
          /\ \A d \in Row : estimate(sketch, k) <= sketch.counters[d][Column[d][k]]
          /\ estimate(sketch, k) \in Nat
      BY EstimateFacts DEF SketchInv, SketchType
    <2>2. hits[k] <= estimate(sketch, k)
      BY <2>1 DEF SketchInv, NeverUnder
    <2>3. ASSUME NEW d \in Row
          PROVE  estimate(sketch, k) <=
                   SumFunctionOnSet(hits, Sharing(d, k)) + Cardinality(Sharing(d, k)) - 1
      <3>1. sketch.counters[d][Column[d][k]] \in Nat
        BY ColumnType DEF SketchInv, SketchType
      <3>2. SumFunctionOnSet(hits, Sharing(d, k)) \in Nat /\ Cardinality(Sharing(d, k)) \in Nat
        <4>1. \A x \in Sharing(d, k) : hits[x] \in Nat
          BY SharingFacts DEF SketchInv, SketchType
        <4>2. QED BY <4>1, SharingFacts, SumNat
      <3>3. sketch.counters[d][Column[d][k]] <=
              SumFunctionOnSet(hits, Sharing(d, k)) + Cardinality(Sharing(d, k)) - 1
        BY DEF NeverFarOver
      <3>4. QED BY <2>1, <3>1, <3>2, <3>3
    <2>4. QED BY <2>2, <2>3
  <1>4. QED BY <1>1, <1>2, <1>3, SketchInvariance, PTL DEF TinySpec
=============================================================================
