----------------------------- MODULE LfuProofs -----------------------------
(***************************************************************************)
(* LfuCache, for every set of keys and values, every capacity, every       *)
(* ceiling of the counters and every length of a run between two clears.   *)
(* The index by_priority and the map describe the same entries, and what   *)
(* the index puts first is what the LFU policy evicts.                     *)
(***************************************************************************)
EXTENDS LfuCache, ArenaProofs

Entry(c) == [value : Value, count : 1..CountMax, age : 1..c]

\* Sorted by age, s runs from the youngest to the oldest entry.
Descending(m, s) == \A p, q \in 1..Len(s) : p < q => m[s[p]].age > m[s[q]].age

Indexed(m, b) ==
  /\ \A k \in DOMAIN m : Priority(m[k]) \in DOMAIN b /\ b[Priority(m[k])] = k
  /\ \A p \in DOMAIN b : b[p] \in DOMAIN m /\ Priority(m[b[p]]) = p

\* A map, an index, a clock and an order that belong together.
Sound(m, b, c, s) ==
  /\ c \in Nat
  /\ DOMAIN m \subseteq Key /\ IsFiniteSet(DOMAIN m)
  /\ \A k \in DOMAIN m : m[k] \in Entry(c)
  /\ Indexed(m, b)
  /\ s \in Seq(Key) /\ Injective(s) /\ Elements(s) = DOMAIN m
  /\ Descending(m, s)

\* The components of an entry and of its place in the index.
LEMMA EntryFacts ==
  ASSUME NEW c \in Nat, NEW e \in Entry(c)
  PROVE  /\ e.value \in Value /\ e.count \in 1..CountMax /\ e.age \in 1..c
         /\ Priority(e) = << e.count, e.age >>
         /\ Priority(e)[1] = e.count /\ Priority(e)[2] = e.age
  BY DEF Entry, Priority

\* Taking an element out of a sequence keeps the rest in order.
LEMMA DescendingWithout ==
  ASSUME NEW m, NEW s \in Seq(Key), Injective(s), NEW x \in Elements(s), Descending(m, s),
         \A k \in Elements(s) : m[k].age \in Nat
  PROVE  Descending(m, Without(s, x))
  <1> DEFINE t == Without(s, x)
             n == Len(s)
  <1>1. PICK i \in 1..n : s[i] = x
    BY DEF Elements
  <1>2. t = [p \in 1..(n - 1) |-> IF p < i THEN s[p] ELSE s[p + 1]] /\ n \in Nat
    <2>1. Without(s, s[i]) = [p \in 1..(n - 1) |-> IF p < i THEN s[p] ELSE s[p + 1]]
      BY WithoutAt
    <2>2. QED BY <1>1, <2>1
  <1>3. Len(t) = n - 1
    BY <1>1, <1>2
  <1> HIDE DEF t
  <1>4. ASSUME NEW p \in 1..(n - 1), NEW q \in 1..(n - 1), p < q
        PROVE  m[t[p]].age > m[t[q]].age
    <2> DEFINE pp == IF p < i THEN p ELSE p + 1
               qq == IF q < i THEN q ELSE q + 1
    <2>1. pp \in 1..n /\ qq \in 1..n /\ pp < qq
      BY <1>1, <1>2, <1>4
    <2>2. t[p] = s[pp] /\ t[q] = s[qq]
      BY <1>2
    <2> HIDE DEF pp, qq
    <2>3. QED BY <2>1, <2>2 DEF Descending
  <1>5. QED BY <1>3, <1>4 DEF Descending, t

\* An element younger than all others belongs in front.
LEMMA DescendingPush ==
  ASSUME NEW m, NEW s \in Seq(Key), NEW x \in Key, Descending(m, s),
         \A k \in Elements(s) : m[x].age > m[k].age
  PROVE  Descending(m, Push(s, x))
  <1> DEFINE t == Push(s, x)
             n == Len(s)
  <1>0. n \in Nat
    OBVIOUS
  <1>1. /\ Len(t) = n + 1 /\ t[1] = x
        /\ \A p \in 1..n : t[p + 1] = s[p]
    BY PushFacts
  <1>3. \A j \in 1..n : s[j] \in Elements(s)
    BY DEF Elements
  <1>4. \A i, j \in 1..n : i < j => m[s[i]].age > m[s[j]].age
    BY DEF Descending
  <1> HIDE DEF t, n
  <1>2. ASSUME NEW p \in 1..(n + 1), NEW q \in 1..(n + 1), p < q
        PROVE  m[t[p]].age > m[t[q]].age
    <2>1. PICK j \in 1..n : q = j + 1
      <3>1. q - 1 \in 1..n /\ q = (q - 1) + 1
        BY <1>0, <1>2
      <3>2. QED BY <3>1
    <2>2. t[q] = s[j] /\ s[j] \in Elements(s)
      BY <1>1, <1>3, <2>1
    <2>3. CASE p = 1
      BY <1>1, <2>2, <2>3
    <2>4. CASE p # 1
      <3>1. PICK i \in 1..n : p = i + 1
        BY <1>0, <2>4
      <3>2. i < j /\ t[p] = s[i]
        BY <1>0, <1>1, <1>2, <2>1, <3>1
      <3>3. QED BY <1>4, <2>2, <3>2
    <2>5. QED BY <2>3, <2>4
  <1>5. QED BY <1>0, <1>1, <1>2 DEF Descending, t

\* An entry goes with its place in the index and in the order.
LEMMA TakeSound ==
  ASSUME NEW m, NEW b, NEW c, NEW s, Sound(m, b, c, s), NEW k \in DOMAIN m
  PROVE  Sound(Less(m, k), Less(b, Priority(m[k])), c, Without(s, k))
  <1> DEFINE n == Less(m, k)
             d == Less(b, Priority(m[k]))
             t == Without(s, k)
  <1>1. /\ DOMAIN n = DOMAIN m \ {k}
        /\ \A x \in DOMAIN n : n[x] = m[x]
        /\ DOMAIN d = DOMAIN b \ {Priority(m[k])}
        /\ \A p \in DOMAIN d : d[p] = b[p]
    BY DEF Less
  <1>2. /\ s \in Seq(Key) /\ Injective(s) /\ k \in Elements(s) /\ Elements(s) = DOMAIN m
        /\ Descending(m, s) /\ c \in Nat
    BY DEF Sound
  <1>3. t \in Seq(Key) /\ Injective(t) /\ Elements(t) = DOMAIN n
    <2>1. PICK i \in 1..Len(s) : s[i] = k
      BY <1>2 DEF Elements
    <2>2. /\ Without(s, s[i]) \in Seq(Key) /\ Injective(Without(s, s[i]))
          /\ Elements(Without(s, s[i])) = Elements(s) \ {s[i]}
      BY <1>2, WithoutFacts
    <2>3. QED BY <1>1, <1>2, <2>1, <2>2
  <1>4. Descending(m, t)
    <2>1. \A x \in Elements(s) : m[x].age \in Nat
      BY <1>2, EntryFacts DEF Sound
    <2>2. QED BY <1>2, <2>1, DescendingWithout
  <1> HIDE DEF n, d, t
  <1>5. Descending(n, t)
    <2>1. \A p \in 1..Len(t) : n[t[p]] = m[t[p]]
      BY <1>1, <1>3 DEF Elements
    <2>2. QED BY <1>4, <2>1 DEF Descending
  <1>6. Indexed(n, d)
    BY <1>1 DEF Sound, Indexed
  <1>7. IsFiniteSet(DOMAIN n)
    BY <1>1, FS_RemoveElement DEF Sound
  <1>8. \A x \in DOMAIN n : n[x] \in Entry(c)
    BY <1>1 DEF Sound
  <1>9. QED BY <1>1, <1>2, <1>3, <1>5, <1>6, <1>7, <1>8 DEF Sound, n, d, t

\* A new entry that is younger than all others gets a place of its own.
LEMMA PutSound ==
  ASSUME NEW m, NEW b, NEW c, NEW s, Sound(m, b, c, s), NEW k \in Key, k \notin DOMAIN m,
         NEW e \in Entry(c + 1), e.age = c + 1
  PROVE  Sound(With(m, k, e), With(b, Priority(e), k), c + 1, Push(s, k))
  <1> DEFINE n == With(m, k, e)
             d == With(b, Priority(e), k)
             t == Push(s, k)
  <1>1. /\ DOMAIN n = DOMAIN m \cup {k} /\ n[k] = e
        /\ \A x \in DOMAIN m : n[x] = m[x]
        /\ DOMAIN d = DOMAIN b \cup {Priority(e)} /\ d[Priority(e)] = k
        /\ \A p \in DOMAIN b : p # Priority(e) => d[p] = b[p]
    BY DEF With
  <1>2. c \in Nat /\ c + 1 \in Nat /\ \A x \in DOMAIN m : m[x] \in Entry(c)
    BY DEF Sound
  <1>3. \A x \in DOMAIN m : m[x].age \in 1..c /\ Priority(m[x]) # Priority(e)
    <2>1. Priority(e)[2] = c + 1
      BY <1>2, EntryFacts
    <2>2. \A x \in DOMAIN m : m[x].age \in 1..c /\ Priority(m[x])[2] = m[x].age
      BY <1>2, EntryFacts
    <2>3. QED BY <1>2, <2>1, <2>2
  <1>4. \A p \in DOMAIN b : p # Priority(e)
    BY <1>3 DEF Sound, Indexed
  <1>5. /\ s \in Seq(Key) /\ Injective(s) /\ Elements(s) = DOMAIN m /\ Descending(m, s)
    BY DEF Sound
  <1>6. t \in Seq(Key) /\ Injective(t) /\ Elements(t) = DOMAIN n
    <2>0. s \in Seq(Key)
      BY <1>5
    <2>1. t \in Seq(Key)
      BY <2>0, PushFacts
    <2>3. Elements(t) = Elements(s) \cup {k}
      BY <2>0, PushFacts
    <2>2. Injective(t)
      BY <1>5, PushFacts
    <2>4. QED BY <1>1, <1>5, <2>1, <2>2, <2>3
  <1> HIDE DEF n, d
  <1>7. Descending(n, t)
    <2>1. \A p \in 1..Len(s) : n[s[p]] = m[s[p]]
      BY <1>1, <1>5 DEF Elements
    <2>2. Descending(n, s)
      BY <1>5, <2>1 DEF Descending
    <2>3. \A x \in Elements(s) : n[k].age > n[x].age
      BY <1>1, <1>2, <1>3, <1>5
    <2>4. QED BY <1>5, <2>2, <2>3, DescendingPush
  <1> HIDE DEF t
  <1>8. Indexed(n, d)
    <2>1. Indexed(m, b)
      BY DEF Sound
    <2>2. \A x \in DOMAIN n : Priority(n[x]) \in DOMAIN d /\ d[Priority(n[x])] = x
      BY <1>1, <1>3, <2>1 DEF Indexed
    <2>3. \A p \in DOMAIN d : d[p] \in DOMAIN n /\ Priority(n[d[p]]) = p
      BY <1>1, <1>4, <2>1 DEF Indexed
    <2>4. QED BY <2>2, <2>3 DEF Indexed
  <1>9. IsFiniteSet(DOMAIN n) /\ DOMAIN n \subseteq Key
    BY <1>1, FS_AddElement DEF Sound
  <1>10. \A x \in DOMAIN n : n[x] \in Entry(c + 1)
    <2>1. ASSUME NEW x \in DOMAIN m PROVE m[x] \in Entry(c + 1)
      BY <1>2 DEF Entry
    <2>2. QED BY <1>1, <2>1
  <1>11. QED BY <1>2, <1>6, <1>7, <1>8, <1>9, <1>10 DEF Sound, n, d, t

\* Time may pass without an entry.
LEMMA LaterSound ==
  ASSUME NEW m, NEW b, NEW c, NEW s, Sound(m, b, c, s)
  PROVE  Sound(m, b, c + 1, s)
  <1>1. c \in Nat /\ c + 1 \in Nat
    BY DEF Sound
  <1>2. ASSUME NEW x \in DOMAIN m PROVE m[x] \in Entry(c + 1)
    BY <1>1 DEF Sound, Entry
  <1>3. QED BY <1>1, <1>2 DEF Sound

\* A shard with nothing in it.
LEMMA EmptySound == Sound(EmptyMap, EmptyMap, 0, << >>)
  <1>1. DOMAIN EmptyMap = {}
    BY DEF EmptyMap
  <1>2. << >> \in Seq(Key) /\ Injective(<< >>) /\ Elements(<< >>) = {} /\ Descending(EmptyMap, << >>)
    BY DEF Injective, Elements, Descending
  <1>3. Indexed(EmptyMap, EmptyMap)
    BY <1>1 DEF Indexed
  <1>4. IsFiniteSet({})
    BY FS_EmptySet
  <1>5. QED BY <1>1, <1>2, <1>3, <1>4 DEF Sound
-----------------------------------------------------------------------------
\* The first place of a lexicographic order on pairs of numbers: there is one in
\* every set of them that is not empty.
LEMMA LeastPair ==
  ASSUME NEW D, D # {}, \A p \in D : p = << p[1], p[2] >> /\ p[1] \in Nat /\ p[2] \in Nat
  PROVE  \E p \in D : \A q \in D : p = q \/ Before(p, q)
  <1> DEFINE Ones == {p[1] : p \in D}
  <1>1. Ones \subseteq Nat /\ Ones # {}
    OBVIOUS
  <1>2. PICK x \in Ones : \A y \in Ones : x <= y
    <2> HIDE DEF Ones
    <2>1. QED BY <1>1, LeastNat
  <1> DEFINE Twos == {p[2] : p \in {q \in D : q[1] = x}}
  <1>3. Twos \subseteq Nat /\ Twos # {}
    BY <1>2
  <1>4. PICK z \in Twos : \A y \in Twos : z <= y
    <2> HIDE DEF Twos
    <2>1. QED BY <1>3, LeastNat
  <1>5. PICK p \in D : p[1] = x /\ p[2] = z
    BY <1>4
  <1>6. ASSUME NEW q \in D PROVE p = q \/ Before(p, q)
    <2>1. x <= q[1] /\ x \in Nat /\ q[1] \in Nat
      BY <1>1, <1>2
    <2>2. q[1] = x => z <= q[2]
      BY <1>4
    <2>3. z \in Nat /\ q[2] \in Nat /\ p = << x, z >> /\ q = << q[1], q[2] >>
      BY <1>3, <1>5
    <2>4. CASE q[1] = x /\ q[2] = z
      BY <2>3, <2>4
    <2>5. CASE ~(q[1] = x /\ q[2] = z)
      <3>1. x < q[1] \/ (x = q[1] /\ z < q[2])
        BY <2>1, <2>2, <2>3, <2>5
      <3>2. QED BY <1>5, <3>1 DEF Before
    <2>6. QED BY <2>4, <2>5
  <1>7. QED BY <1>6

\* What the first place of the index leads to: a cached key whose count is the
\* lowest and, among the keys with that count, whose age is.
LEMMA FirstFacts ==
  ASSUME Sound(map, by_priority, clock, order), DOMAIN map # {}
  PROVE  LET v == by_priority[First] IN
         /\ First \in DOMAIN by_priority /\ v \in DOMAIN map /\ First = Priority(map[v])
         /\ \A k \in DOMAIN map :
              k = v \/ Before(Priority(map[v]), Priority(map[k]))
  <1>1. Indexed(map, by_priority) /\ clock \in Nat /\ \A k \in DOMAIN map : map[k] \in Entry(clock)
    BY DEF Sound
  <1>2. DOMAIN by_priority # {}
    BY <1>1 DEF Indexed
  <1>3. ASSUME NEW p \in DOMAIN by_priority
        PROVE  p = << p[1], p[2] >> /\ p[1] \in Nat /\ p[2] \in Nat
    <2>1. by_priority[p] \in DOMAIN map /\ p = Priority(map[by_priority[p]])
      BY <1>1 DEF Indexed
    <2> DEFINE e == map[by_priority[p]]
    <2>2. e \in Entry(clock)
      BY <1>1, <2>1
    <2> HIDE DEF e
    <2>3. e.count \in 1..CountMax /\ e.age \in 1..clock /\ Priority(e) = << e.count, e.age >>
      BY <1>1, <2>2, EntryFacts
    <2>4. p = << e.count, e.age >>
      BY <2>1, <2>3 DEF e
    <2>5. QED BY <2>3, <2>4, LfuAssumption, <1>1
  <1>4. \E p \in DOMAIN by_priority : \A q \in DOMAIN by_priority : p = q \/ Before(p, q)
    BY <1>2, <1>3, LeastPair
  <1>5. First \in DOMAIN by_priority /\ \A q \in DOMAIN by_priority : First = q \/ Before(First, q)
    BY <1>4 DEF First
  <1>6. by_priority[First] \in DOMAIN map /\ First = Priority(map[by_priority[First]])
    BY <1>1, <1>5 DEF Indexed
  <1>7. ASSUME NEW k \in DOMAIN map
        PROVE  k = by_priority[First] \/ Before(First, Priority(map[k]))
    BY <1>1, <1>5 DEF Indexed
  <1>8. QED BY <1>5, <1>6, <1>7

IInv ==
  /\ Sound(map, by_priority, clock, order) /\ clock <= MaxClock
  /\ Cardinality(DOMAIN map) <= Capacity

\* The shard is full exactly when as many keys are cached as it may hold: the
\* index is empty only when the map is.
LEMMA FullFacts ==
  ASSUME Sound(map, by_priority, clock, order)
  PROVE  /\ Cardinality(DOMAIN map) \in Nat
         /\ Full <=> Cardinality(DOMAIN map) >= Capacity
         /\ Full => DOMAIN map # {}
  <1>1. IsFiniteSet(DOMAIN map) /\ Indexed(map, by_priority)
    BY DEF Sound
  <1>2. Cardinality(DOMAIN map) \in Nat /\ (Cardinality(DOMAIN map) = 0 <=> DOMAIN map = {})
    BY <1>1, FS_CardinalityType, FS_EmptySet
  <1>3. Cardinality(DOMAIN map) >= Capacity => DOMAIN map # {}
    BY <1>2, LfuAssumption
  <1>4. DOMAIN map # {} => by_priority # EmptyMap
    BY <1>1 DEF Indexed, EmptyMap
  <1>5. QED BY <1>2, <1>3, <1>4 DEF Full

\* What is left when room has been made is sound and has room.
LEMMA RoomFacts ==
  ASSUME IInv
  PROVE  /\ Sound(RoomyMap, RoomyIndex, clock, RoomyOrder)
         /\ Cardinality(DOMAIN RoomyMap) < Capacity
         /\ DOMAIN RoomyMap \subseteq DOMAIN map
  <1>0. Sound(map, by_priority, clock, order)
    BY DEF IInv
  <1>1. CASE Full
    <2> DEFINE v == by_priority[First]
    <2>1. v \in DOMAIN map /\ First = Priority(map[v])
      BY <1>0, <1>1, FullFacts, FirstFacts
    <2>2. /\ RoomyMap = Less(map, v) /\ RoomyIndex = Less(by_priority, Priority(map[v]))
          /\ RoomyOrder = Without(order, v)
      BY <1>1, <2>1 DEF RoomyMap, RoomyIndex, RoomyOrder
    <2> HIDE DEF v
    <2>3. Sound(RoomyMap, RoomyIndex, clock, RoomyOrder)
      BY <1>0, <2>1, <2>2, TakeSound
    <2>4. DOMAIN RoomyMap = DOMAIN map \ {v}
      BY <2>2 DEF Less
    <2>5. Cardinality(DOMAIN map \ {v}) = Cardinality(DOMAIN map) - 1
      BY <1>0, <2>1, FS_RemoveElement DEF Sound
    <2>6. Cardinality(DOMAIN map) \in Nat /\ Cardinality(DOMAIN map) <= Capacity
      BY <1>0, FullFacts DEF IInv
    <2>7. QED BY <2>3, <2>4, <2>5, <2>6, LfuAssumption
  <1>2. CASE ~Full
    <2>1. RoomyMap = map /\ RoomyIndex = by_priority /\ RoomyOrder = order
      BY <1>2 DEF RoomyMap, RoomyIndex, RoomyOrder
    <2>2. Cardinality(DOMAIN map) \in Nat /\ ~(Cardinality(DOMAIN map) >= Capacity)
      BY <1>0, <1>2, FullFacts
    <2>3. QED BY <1>0, <2>1, <2>2, LfuAssumption
  <1>3. QED BY <1>1, <1>2

\* An access keeps the shard sound and caches the same keys.
LEMMA TouchFacts ==
  ASSUME IInv, NEW k \in DOMAIN map, NEW v \in Value, Touch(k, v), clock' = tick
  PROVE  Sound(map', by_priority', clock', order') /\ DOMAIN map' = DOMAIN map
  <1> DEFINE old == map[k]
             new == Touched(old, v)
  <1>0. Sound(map, by_priority, clock, order)
    BY DEF IInv
  <1>1. old \in Entry(clock) /\ clock \in Nat /\ k \in Key
    BY <1>0 DEF Sound
  <1>2. clock' = clock + 1
    BY DEF tick
  <1>3. new \in Entry(clock + 1) /\ new.age = clock + 1
    <2>1. old.count \in 1..CountMax
      BY <1>1, EntryFacts
    <2>2. (IF old.count < CountMax THEN old.count + 1 ELSE old.count) \in 1..CountMax
      BY <2>1, LfuAssumption
    <2>3. new = [value |-> v, count |-> IF old.count < CountMax THEN old.count + 1 ELSE old.count,
                 age |-> clock + 1]
      BY DEF Touched, tick
    <2>4. clock + 1 \in 1..(clock + 1)
      BY <1>1
    <2> HIDE DEF new
    <2>5. QED BY <2>2, <2>3, <2>4 DEF Entry
  <1>4. /\ map' = With(map, k, new)
        /\ by_priority' = With(Less(by_priority, Priority(old)), Priority(new), k)
        /\ order' = Push(Without(order, k), k)
    BY DEF Touch, ToFront
  <1>5. With(map, k, new) = With(Less(map, k), k, new) /\ k \notin DOMAIN Less(map, k)
    BY DEF With, Less
  <1>6. Sound(Less(map, k), Less(by_priority, Priority(old)), clock, Without(order, k))
    BY <1>0, TakeSound
  <1> HIDE DEF new, old
  <1>7. Sound(With(Less(map, k), k, new), With(Less(by_priority, Priority(old)), Priority(new), k),
              clock + 1, Push(Without(order, k), k))
    BY <1>1, <1>3, <1>5, <1>6, PutSound
  <1>8. DOMAIN With(map, k, new) = DOMAIN map
    BY DEF With
  <1>9. QED BY <1>2, <1>4, <1>5, <1>7, <1>8

\* A new key joins what has been kept.
LEMMA AddFacts ==
  ASSUME IInv, NEW k \in Key, NEW v \in Value, Add(k, v)
  PROVE  Sound(map', by_priority', clock', order') /\ Cardinality(DOMAIN map') <= Capacity
  <1> DEFINE entry == [value |-> v, count |-> 1, age |-> clock + 1]
  <1>1. /\ map' = With(RoomyMap, k, entry) /\ by_priority' = With(RoomyIndex, Priority(entry), k)
        /\ clock' = clock + 1 /\ order' = Push(RoomyOrder, k) /\ k \notin DOMAIN map
    BY DEF Add, tick
  <1>2. clock \in Nat
    BY DEF IInv, Sound
  <1>3. entry \in Entry(clock + 1) /\ entry.age = clock + 1
    BY <1>2, LfuAssumption DEF Entry
  <1>4. Sound(RoomyMap, RoomyIndex, clock, RoomyOrder) /\ k \notin DOMAIN RoomyMap
    BY <1>1, RoomFacts
  <1> HIDE DEF entry
  <1>5. Sound(map', by_priority', clock', order')
    BY <1>1, <1>3, <1>4, PutSound
  <1>6. DOMAIN map' = DOMAIN RoomyMap \cup {k}
    BY <1>1 DEF With
  <1>7. Cardinality(DOMAIN RoomyMap \cup {k}) = Cardinality(DOMAIN RoomyMap) + 1
    BY <1>4, FS_AddElement DEF Sound
  <1>8. Cardinality(DOMAIN RoomyMap) \in Nat /\ Cardinality(DOMAIN RoomyMap) < Capacity
    BY <1>4, RoomFacts, FS_CardinalityType DEF Sound
  <1>9. QED BY <1>5, <1>6, <1>7, <1>8, LfuAssumption

\* The invariant holds of a new shard.
LEMMA InitIInv == Init => IInv
  <1> SUFFICES ASSUME Init PROVE IInv
    OBVIOUS
  <1>1. Sound(map, by_priority, clock, order) /\ clock = 0 /\ DOMAIN map = {}
    BY EmptySound DEF Init, EmptyMap
  <1>2. Cardinality({}) = 0
    BY FS_EmptySet
  <1>3. QED BY <1>1, <1>2, LfuAssumption DEF IInv

\* Every operation keeps the invariant.
LEMMA NextIInv == IInv /\ [Next]_vars => IInv'
  <1> SUFFICES ASSUME IInv, [Next]_vars PROVE IInv'
    OBVIOUS
  <1>0. /\ Sound(map, by_priority, clock, order) /\ clock \in Nat /\ clock <= MaxClock
        /\ Cardinality(DOMAIN map) \in Nat /\ Cardinality(DOMAIN map) <= Capacity
    BY FullFacts DEF IInv, Sound
  <1>1. CASE UNCHANGED << map, by_priority, clock, order >>
    BY <1>0, <1>1 DEF IInv
  <1>2. ASSUME NEW k \in DOMAIN map, NEW v \in Value, Touch(k, v), clock' = tick, clock < MaxClock
        PROVE  IInv'
    <2>1. Sound(map', by_priority', clock', order') /\ DOMAIN map' = DOMAIN map
      BY <1>2, TouchFacts
    <2>2. clock' <= MaxClock
      BY <1>0, <1>2, LfuAssumption DEF tick
    <2>3. QED BY <1>0, <2>1, <2>2 DEF IInv
  <1>3. ASSUME NEW k \in Key, Get(k) PROVE IInv'
    <2>1. CASE k \in DOMAIN map
      <3>1. map[k].value \in Value
        BY <1>0, <2>1, EntryFacts DEF Sound
      <3>2. QED BY <1>2, <1>3, <2>1, <3>1 DEF Get
    <2>2. CASE k \notin DOMAIN map
      <3>1. UNCHANGED << map, by_priority, order >> /\ clock' = clock + 1 /\ clock < MaxClock
        BY <1>3, <2>2 DEF Get, tick
      <3>2. Sound(map', by_priority', clock', order')
        BY <1>0, <3>1, LaterSound
      <3>3. QED BY <1>0, <3>1, <3>2, LfuAssumption DEF IInv
    <2>3. QED BY <2>1, <2>2
  <1>4. ASSUME NEW k \in Key, NEW v \in Value, Replace(k, v) PROVE IInv'
    BY <1>2, <1>4 DEF Replace
  <1>5. ASSUME NEW k \in Key, NEW v \in Value, Add(k, v) PROVE IInv'
    <2>1. clock' <= MaxClock
      BY <1>0, <1>5, LfuAssumption DEF Add, tick
    <2>2. QED BY <1>5, <2>1, AddFacts DEF IInv
  <1>6. ASSUME NEW k \in Key, Remove(k) PROVE IInv'
    <2>1. CASE k \in DOMAIN map
      <3>1. /\ map' = Less(map, k) /\ by_priority' = Less(by_priority, Priority(map[k]))
            /\ order' = Without(order, k) /\ clock' = clock
        BY <1>6, <2>1 DEF Remove
      <3>2. Sound(map', by_priority', clock', order')
        BY <1>0, <2>1, <3>1, TakeSound
      <3>3. DOMAIN map' = DOMAIN map \ {k}
        BY <3>1 DEF Less
      <3>4. Cardinality(DOMAIN map \ {k}) = Cardinality(DOMAIN map) - 1
        BY <1>0, <2>1, FS_RemoveElement DEF Sound
      <3>5. QED BY <1>0, <3>1, <3>2, <3>3, <3>4, LfuAssumption DEF IInv
    <2>2. CASE k \notin DOMAIN map
      BY <1>1, <1>6, <2>2 DEF Remove
    <2>3. QED BY <2>1, <2>2
  <1>7. ASSUME Clear PROVE IInv'
    <2>1. Sound(map', by_priority', clock', order') /\ clock' = 0 /\ DOMAIN map' = {}
      BY <1>7, EmptySound DEF Clear, EmptyMap
    <2>2. Cardinality({}) = 0
      BY FS_EmptySet
    <2>3. QED BY <2>1, <2>2, LfuAssumption DEF IInv
  <1>8. CASE UNCHANGED vars \/ Size \/ \E k \in Key : ContainsKey(k)
    BY <1>1, <1>8 DEF vars, Size, ContainsKey
  <1>9. QED BY <1>3, <1>4, <1>5, <1>6, <1>7, <1>8 DEF Next

\* The invariant holds in every reachable state.
LEMMA Invariance == Spec => []IInv
  BY InitIInv, NextIInv, PTL DEF Spec

\* Counts stay within u64 and ages within the clock; the index has places of
\* that kind only.
THEOREM TypeCorrect == Spec => []TypeOK
  <1>1. IInv => TypeOK
    <2> SUFFICES ASSUME IInv PROVE TypeOK
      OBVIOUS
    <2>1. Sound(map, by_priority, clock, order) /\ clock \in 0..MaxClock
      BY LfuAssumption DEF IInv, Sound
    <2>2. ASSUME NEW p \in DOMAIN by_priority
          PROVE  p \in (1..CountMax) \X (1..clock) /\ by_priority[p] \in Key
      <3> DEFINE e == map[by_priority[p]]
      <3>1. /\ by_priority[p] \in DOMAIN map /\ Priority(e) = p /\ e \in Entry(clock)
            /\ clock \in Nat /\ by_priority[p] \in Key
        BY <2>1 DEF Sound, Indexed
      <3> HIDE DEF e
      <3>2. e.count \in 1..CountMax /\ e.age \in 1..clock /\ p = << e.count, e.age >>
        BY <3>1, EntryFacts
      <3>3. QED BY <3>1, <3>2
    <2>3. QED BY <2>1, <2>2 DEF Sound, Entry, TypeOK
  <1>2. QED BY <1>1, Invariance, PTL

\* Map and index describe the same entries after every operation.
THEOREM IndexCorrect == Spec => []IndexMatches
  <1>1. IInv => IndexMatches
    BY DEF IInv, Sound, Indexed, IndexMatches
  <1>2. QED BY <1>1, Invariance, PTL

\* The ages put the cached keys in the order of their last access.
THEOREM AgesCorrect == Spec => []AgesAreRecency
  <1>1. IInv => AgesAreRecency
    BY DEF IInv, Sound, Descending, AgesAreRecency
  <1>2. QED BY <1>1, Invariance, PTL

\* No operation leaves more entries than the capacity.
THEOREM CapacityCorrect == Spec => []CapacityInvariant
  <1>1. IInv => CapacityInvariant
    BY DEF IInv, CapacityInvariant
  <1>2. QED BY <1>1, Invariance, PTL
-----------------------------------------------------------------------------
\* What the policy sees of a map.
ValuesOf(m) == [k \in DOMAIN m |-> m[k].value]

CountsOf(m) == [k \in DOMAIN m |-> m[k].count]

\* The operators of the instance are those of the shard.
LEMMA PolicyOps ==
  /\ \A S : Policy!Cardinality(S) = Cardinality(S)
  /\ \A s, x : Policy!Push(s, x) = Push(s, x)
  /\ \A s, x : Policy!Position(s, x) = Position(s, x)
  /\ \A s, x : Policy!Without(s, x) = Without(s, x)
  /\ \A s, x : Policy!ToFront(s, x) = ToFront(s, x)
  /\ Policy!EmptyMap = EmptyMap
  <1>1. \A S : Policy!Cardinality(S) = Cardinality(S)
    BY DEF Policy!Cardinality, Cardinality
  <1>2. \A s, x : Policy!Push(s, x) = Push(s, x)
    BY DEF Policy!Push, Push
  <1>3. \A s, x : Policy!Position(s, x) = Position(s, x)
    BY DEF Policy!Position, Position
  <1>4. \A s, x : Policy!Without(s, x) = Without(s, x)
    BY DEF Policy!Without, Without, Policy!Position, Position
  <1>5. \A s, x : Policy!ToFront(s, x) = ToFront(s, x)
    BY <1>2, <1>4 DEF Policy!ToFront, ToFront
  <1>6. Policy!EmptyMap = EmptyMap
    BY DEF Policy!EmptyMap, EmptyMap
  <1>7. QED BY <1>1, <1>2, <1>3, <1>4, <1>5, <1>6

\* In a sequence without repetition every element has one place.
LEMMA PlaceFacts ==
  ASSUME NEW s, Injective(s), NEW x \in Elements(s)
  PROVE  Position(s, x) \in 1..Len(s) /\ s[Position(s, x)] = x
  BY DEF Injective, Elements, Position

\* The first key of the index is the one the policy evicts: no count is lower,
\* and of the keys with that count none was accessed longer ago.
LEMMA VictimIsFirst ==
  ASSUME IInv, DOMAIN map # {}
  PROVE  Policy!Victim = by_priority[First]
  <1> DEFINE v == by_priority[First]
             Coldest == {k \in DOMAIN map : \A l \in DOMAIN map : map[k].count <= map[l].count}
             Oldest(x) == \A l \in Coldest : Position(order, l) <= Position(order, x)
  <1>0. Sound(map, by_priority, clock, order)
    BY DEF IInv
  <1>1. /\ clock \in Nat /\ order \in Seq(Key) /\ Injective(order) /\ Elements(order) = DOMAIN map
        /\ Descending(map, order)
    BY <1>0 DEF Sound
  <1>2. \A k \in DOMAIN map : /\ map[k].count \in 1..CountMax /\ map[k].age \in 1..clock
                              /\ Priority(map[k])[1] = map[k].count
                              /\ Priority(map[k])[2] = map[k].age
    BY <1>0, <1>1, EntryFacts DEF Sound
  <1>3. v \in DOMAIN map /\ \A k \in DOMAIN map : k = v \/ Before(Priority(map[v]), Priority(map[k]))
    BY <1>0, FirstFacts
  <1>4. \A k \in DOMAIN map : /\ Position(order, k) \in 1..Len(order)
                              /\ order[Position(order, k)] = k
    BY <1>1, PlaceFacts
  <1>5. Policy!Victim = CHOOSE k \in Coldest : Oldest(k)
    BY PolicyOps DEF Policy!Victim, Policy!Coldest
  <1> HIDE DEF v
  <1>6. \A k \in DOMAIN map : /\ map[v].count <= map[k].count
                              /\ map[v].count = map[k].count => k = v \/ map[v].age < map[k].age
    <2> SUFFICES ASSUME NEW k \in DOMAIN map
                 PROVE  /\ map[v].count <= map[k].count
                        /\ map[v].count = map[k].count => k = v \/ map[v].age < map[k].age
      OBVIOUS
    <2>1. CASE k = v
      BY <1>2, <1>3, <2>1
    <2>2. CASE Before(Priority(map[v]), Priority(map[k]))
      BY <1>2, <1>3, <2>2 DEF Before
    <2>3. QED BY <1>3, <2>1, <2>2
  <1>7. v \in Coldest
    BY <1>3, <1>6
  <1>8. Oldest(v)
    <2> SUFFICES ASSUME NEW l \in Coldest PROVE Position(order, l) <= Position(order, v)
      OBVIOUS
    <2> DEFINE p == Position(order, v)
               q == Position(order, l)
    <2>1. map[l].count = map[v].count /\ l \in DOMAIN map
      BY <1>2, <1>3, <1>6
    <2>2. l = v \/ map[v].age < map[l].age
      BY <1>6, <2>1
    <2>3. p \in 1..Len(order) /\ q \in 1..Len(order) /\ order[p] = v /\ order[q] = l
      BY <1>3, <1>4, <2>1
    <2>4. p < q => map[v].age > map[l].age
      BY <1>1, <2>3 DEF Descending
    <2>5. map[v].age \in Nat /\ map[l].age \in Nat /\ p \in Nat /\ q \in Nat
      BY <1>1, <1>2, <1>3, <2>1, <2>3
    <2> HIDE DEF p, q
    <2>6. l = v => p = q
      BY DEF p, q
    <2>7. q <= p
      BY <2>2, <2>4, <2>5, <2>6
    <2>8. QED BY <2>7 DEF p, q
  <1>9. ASSUME NEW k \in Coldest, Oldest(k) PROVE k = v
    <2>1. k \in DOMAIN map
      OBVIOUS
    <2>2. Position(order, v) <= Position(order, k) /\ Position(order, k) <= Position(order, v)
      BY <1>7, <1>8, <1>9
    <2>3. Position(order, v) = Position(order, k)
      BY <1>3, <1>4, <2>1, <2>2
    <2>4. QED BY <1>3, <1>4, <2>1, <2>3
  <1> HIDE DEF Coldest, Oldest
  <1>10. (CHOOSE k \in Coldest : Oldest(k)) = v
    BY <1>7, <1>8, <1>9
  <1>11. QED BY <1>5, <1>10 DEF v

\* Every operation of the shard is, with its reply, one of the policy.
LEMMA NextRefines == IInv /\ [Next]_vars => [Policy!Next]_(Policy!vars)
  <1> SUFFICES ASSUME IInv, [Next]_vars PROVE [Policy!Next]_(Policy!vars)
    OBVIOUS
  <1> DEFINE e == ValuesOf(map)
             c == CountsOf(map)
             f == ValuesOf(map')
             g == CountsOf(map')
  <1>0. /\ Sound(map, by_priority, clock, order) /\ DOMAIN e = DOMAIN map /\ DOMAIN c = DOMAIN map
        /\ \A k \in DOMAIN map : e[k] = map[k].value /\ c[k] = map[k].count
    BY DEF IInv, ValuesOf, CountsOf
  <1>s. ASSUME map' = map PROVE f = e /\ g = c
    BY <1>s
  <1>t. ASSUME NEW k \in DOMAIN map, NEW v \in Value, Touch(k, v)
        PROVE  /\ f = [e EXCEPT ![k] = v]
               /\ g = [c EXCEPT ![k] = IF @ < CountMax THEN @ + 1 ELSE @]
               /\ order' = ToFront(order, k)
    <2> DEFINE n == Touched(map[k], v)
    <2>1. map' = With(map, k, n) /\ order' = ToFront(order, k)
      BY <1>t DEF Touch
    <2>2. /\ n.value = v
          /\ n.count = IF map[k].count < CountMax THEN map[k].count + 1 ELSE map[k].count
      BY DEF Touched
    <2> HIDE DEF n
    <2>3. /\ DOMAIN map' = DOMAIN map /\ map'[k] = n
          /\ \A x \in DOMAIN map : x # k => map'[x] = map[x]
      BY <2>1 DEF With
    <2>4. f = [e EXCEPT ![k] = v]
      BY <2>2, <2>3 DEF ValuesOf
    <2>5. g = [c EXCEPT ![k] = IF @ < CountMax THEN @ + 1 ELSE @]
      BY <2>2, <2>3 DEF CountsOf
    <2>6. QED BY <2>1, <2>4, <2>5
  <1>1. ASSUME NEW k \in Key, Get(k) PROVE Policy!Get(k)
    <2>1. CASE k \notin DOMAIN map
      <3>1. f = e /\ g = c /\ order' = order /\ reply' = << "get", "none", k >>
        BY <1>1, <1>s, <2>1 DEF Get
      <3>2. QED BY <2>1, <3>1 DEF Policy!Get, ValuesOf, CountsOf
    <2>2. CASE k \in DOMAIN map
      <3>1. Touch(k, map[k].value) /\ reply' = << "get", "some", k, e[k] >> /\ map[k].value \in Value
        BY <1>0, <1>1, <2>2, EntryFacts DEF Get, Sound
      <3>2. /\ f = [e EXCEPT ![k] = e[k]]
            /\ g = [c EXCEPT ![k] = IF @ < CountMax THEN @ + 1 ELSE @]
            /\ order' = ToFront(order, k)
        BY <1>0, <1>t, <2>2, <3>1
      <3>3. f = e
        BY <3>2 DEF ValuesOf
      <3>4. QED BY <2>2, <3>1, <3>2, <3>3, PolicyOps
                   DEF Policy!Get, Policy!Access, ValuesOf, CountsOf
    <2>3. QED BY <2>1, <2>2
  <1>2. ASSUME NEW k \in Key, NEW v \in Value, Replace(k, v) PROVE Policy!Replace(k, v)
    <2>1. k \in DOMAIN map /\ Touch(k, v) /\ reply' = << "insert", "some", k, e[k] >>
      BY <1>0, <1>2 DEF Replace
    <2>2. /\ f = [e EXCEPT ![k] = v]
          /\ g = [c EXCEPT ![k] = IF @ < CountMax THEN @ + 1 ELSE @]
          /\ order' = ToFront(order, k)
      BY <1>t, <2>1
    <2>3. QED BY <2>1, <2>2, PolicyOps DEF Policy!Replace, Policy!Access, ValuesOf, CountsOf
  <1>3. ASSUME NEW k \in Key, NEW v \in Value, Add(k, v) PROVE Policy!Add(k, v)
    <2> DEFINE full == Cardinality(DOMAIN map) >= Capacity
               w == by_priority[First]
               kept == IF full THEN DOMAIN map \ {w} ELSE DOMAIN map
               left == IF full THEN Without(order, w) ELSE order
               n == [value |-> v, count |-> 1, age |-> tick]
    <2>1. /\ map' = With(RoomyMap, k, n) /\ order' = Push(RoomyOrder, k)
          /\ k \notin DOMAIN map /\ reply' = << "insert", "none", k >>
      BY <1>3 DEF Add
    <2>2. (Full <=> full) /\ (full => DOMAIN map # {})
      BY <1>0, FullFacts
    <2>3. full => w \in DOMAIN map /\ Policy!Victim = w
      BY <1>0, <2>2, FirstFacts, VictimIsFirst
    <2>4. DOMAIN RoomyMap = kept /\ \A x \in kept : RoomyMap[x] = map[x]
      BY <2>2 DEF RoomyMap, Less
    <2>5. RoomyOrder = left
      BY <2>2, <2>3 DEF RoomyOrder
    <2>6. n.value = v /\ n.count = 1
      OBVIOUS
    <2> HIDE DEF n
    <2>7. DOMAIN map' = kept \cup {k} /\ \A x \in kept \cup {k} : map'[x] = IF x = k THEN n ELSE map[x]
      BY <2>1, <2>4 DEF With
    <2>8. kept \subseteq DOMAIN map
      OBVIOUS
    <2> HIDE DEF kept
    <2>9. f = [x \in kept \cup {k} |-> IF x = k THEN v ELSE e[x]]
      BY <2>6, <2>7, <2>8 DEF ValuesOf
    <2>10. g = [x \in kept \cup {k} |-> IF x = k THEN 1 ELSE c[x]]
      BY <2>6, <2>7, <2>8 DEF CountsOf
    <2> DEFINE pkept == IF Policy!Cardinality(DOMAIN e) >= Capacity
                        THEN DOMAIN e \ {Policy!Victim} ELSE DOMAIN e
               pleft == IF Policy!Cardinality(DOMAIN e) >= Capacity
                        THEN Policy!Without(order, Policy!Victim) ELSE order
    <2>11. Policy!Cardinality(DOMAIN e) = Cardinality(DOMAIN map)
      BY <1>0, PolicyOps
    <2>12. pkept = kept
      BY <1>0, <2>3, <2>11 DEF kept
    <2>13. pleft = left
      BY <2>3, <2>11, PolicyOps
    <2>14. Policy!Push(pleft, k) = order'
      BY <2>1, <2>5, <2>13, PolicyOps
    <2>15. /\ f = [x \in pkept \cup {k} |-> IF x = k THEN v ELSE e[x]]
           /\ g = [x \in pkept \cup {k} |-> IF x = k THEN 1 ELSE c[x]]
      BY <2>9, <2>10, <2>12
    <2>16. k \notin DOMAIN e
      BY <1>0, <2>1
    <2>17. QED BY <2>1, <2>14, <2>15, <2>16 DEF Policy!Add, ValuesOf, CountsOf
  <1>4. ASSUME NEW k \in Key, Remove(k) PROVE Policy!Remove(k)
    <2>1. CASE k \notin DOMAIN map
      <3>1. f = e /\ g = c /\ order' = order /\ reply' = << "remove", "none", k >>
        BY <1>4, <1>s, <2>1 DEF Remove
      <3>2. QED BY <2>1, <3>1 DEF Policy!Remove, ValuesOf, CountsOf
    <2>2. CASE k \in DOMAIN map
      <3>1. /\ map' = Less(map, k) /\ order' = Without(order, k)
            /\ reply' = << "remove", "some", k, e[k] >>
        BY <1>0, <1>4, <2>2 DEF Remove
      <3>2. f = [x \in DOMAIN e \ {k} |-> e[x]] /\ g = [x \in DOMAIN e \ {k} |-> c[x]]
        BY <3>1 DEF Less, ValuesOf, CountsOf
      <3>3. QED BY <2>2, <3>1, <3>2, PolicyOps DEF Policy!Remove, ValuesOf, CountsOf
    <2>3. QED BY <2>1, <2>2
  <1>5. ASSUME NEW k \in Key, ContainsKey(k) PROVE Policy!ContainsKey(k)
    <2>1. f = e /\ g = c /\ order' = order
      BY <1>5, <1>s DEF ContainsKey
    <2>2. reply' = << "contains_key", IF k \in DOMAIN e THEN "true" ELSE "false", k >>
      BY <1>0, <1>5 DEF ContainsKey
    <2>3. QED BY <2>1, <2>2 DEF Policy!ContainsKey, ValuesOf, CountsOf
  <1>6. ASSUME Size PROVE Policy!Size
    <2>1. f = e /\ g = c /\ order' = order
      BY <1>6, <1>s DEF Size
    <2>2. reply' = << "len", "ok", Cardinality(DOMAIN e) >>
      BY <1>0, <1>6 DEF Size
    <2>3. QED BY <2>1, <2>2, PolicyOps DEF Policy!Size, ValuesOf, CountsOf
  <1>7. ASSUME Clear PROVE Policy!Clear
    <2>1. map' = EmptyMap /\ order' = << >> /\ reply' = << "clear", "ok" >>
      BY <1>7 DEF Clear
    <2>2. f = EmptyMap /\ g = EmptyMap
      BY <2>1 DEF ValuesOf, CountsOf, EmptyMap
    <2>3. QED BY <2>1, <2>2, PolicyOps DEF Policy!Clear, ValuesOf, CountsOf
  <1>8. ASSUME UNCHANGED vars PROVE UNCHANGED Policy!vars
    BY <1>8 DEF vars, Policy!vars
  <1>9. QED
    BY <1>1, <1>2, <1>3, <1>4, <1>5, <1>6, <1>7, <1>8 DEF Next, Policy!Next

\* A shard of LfuCache behaves as LfuPolicy says with every reply it gives: what
\* insert evicts is the least often used entry, and among those the one whose
\* last access is the oldest, also where counters have saturated.
THEOREM Refinement == Spec => ImplementsPolicy
  <1>1. Init => Policy!Init
    BY DEF Init, Policy!Init, EmptyMap, Policy!EmptyMap
  <1>2. QED
    BY <1>1, NextRefines, Invariance, PTL DEF Spec, ImplementsPolicy, Policy!Spec
=============================================================================
