----------------------------- MODULE LruProofs -----------------------------
(***************************************************************************)
(* The invariants of one LRU shard, for every set of keys and values and   *)
(* every capacity.                                                         *)
(***************************************************************************)
EXTENDS LruCache, ArenaProofs

(***************************************************************************)
(* The invariants hold each other up: the list is needed to know that the  *)
(* tail insert evicts is a node, the map to know that its key is mapped,   *)
(* the free stack to know that the slot alloc returns is vacant, and the   *)
(* one-to-one match of map and arena to count slots with len.              *)
(***************************************************************************)
IInv == TypeOK /\ ListInOrder /\ MapMatchesArena /\ SlotsAccounted /\ CapacityInvariant

\* The same, of any arena, map and order: insert passes through a state between
\* its eviction and its allocation that no variable ever holds.
Sound(a, m, s) ==
  /\ ArenaType(a, Item) /\ DOMAIN m \subseteq Key /\ s \in Seq(Slot)
  /\ InOrder(a, s)
  /\ \A k \in DOMAIN m : m[k] \in Occupied(a) /\ a.nodes[m[k]].item.key = k
  /\ \A i \in Occupied(a) : /\ a.nodes[i].item.key \in DOMAIN m
                            /\ m[a.nodes[i].item.key] = i
  /\ FreeExact(a) /\ a.slots <= Capacity
  /\ Cardinality(DOMAIN m) <= Capacity

\* The inductive invariant is soundness of the three variables.
LEMMA IInvIsSound == IInv <=> Sound(arena, map, order)
  <1>1. ASSUME Sound(arena, map, order) PROVE \A k \in DOMAIN map : map[k] \in Slot
    BY <1>1 DEF Sound, ArenaType
  <1>2. QED
    BY <1>1 DEF IInv, Sound, TypeOK, ListInOrder, MapMatchesArena, SlotsAccounted,
                CapacityInvariant

\* The map is finite, and when every slot is occupied len is the number of
\* slots: so a Vec that has to grow has as many slots as there are entries.
LEMMA CountSlots ==
  ASSUME NEW a, NEW m, NEW s, Sound(a, m, s)
  PROVE  /\ IsFiniteSet(DOMAIN m)
         /\ Cardinality(DOMAIN m) \in Nat
         /\ Occupied(a) = 1..a.slots => Cardinality(DOMAIN m) = a.slots
  <1> DEFINE f == [k \in DOMAIN m |-> m[k]]
             S == DOMAIN m
             T == 1..a.slots
  <1>1. a.slots \in Nat
    BY DEF Sound, ArenaType
  <1>2. IsFiniteSet(T) /\ Cardinality(T) = a.slots
    <2>1. /\ IsFiniteSet(1..a.slots)
          /\ Cardinality(1..a.slots) = IF 1 > a.slots THEN 0 ELSE a.slots - 1 + 1
      BY <1>1, FS_Interval
    <2>2. QED BY <2>1, <1>1
  <1>3. f \in Injection(S, T)
    <2>1. f \in [S -> T]
      BY DEF Sound, FreeExact
    <2>2. \A k, l \in S : f[k] = f[l] => k = l
      BY DEF Sound
    <2>3. QED BY <2>1, <2>2 DEF Injection, IsInjective
  <1>4. /\ IsFiniteSet(S)
        /\ Cardinality(S) = Cardinality(T) <=> f \in Surjection(S, T)
    <2> HIDE DEF f, S, T
    <2>1. QED BY <1>2, <1>3, FS_Injection
  <1>5. Occupied(a) = T => f \in Surjection(S, T)
    <2>1. SUFFICES ASSUME Occupied(a) = T
                   PROVE  \A i \in T : \E k \in S : f[k] = i
      BY <1>3 DEF Injection, Surjection
    <2>2. QED BY <2>1 DEF Sound
  <1>6. Cardinality(S) \in Nat
    BY <1>4, FS_CardinalityType
  <1>7. QED BY <1>2, <1>4, <1>5, <1>6

\* A new shard is sound, and so is one that clear has emptied.
LEMMA EmptyIsSound == Sound(EmptyArena, EmptyMap, << >>)
  <1> DEFINE a == EmptyArena
             m == EmptyMap
  <1>1. /\ Occupied(a) = {} /\ a.slots = 0 /\ a.free = << >>
        /\ a.head = None /\ a.tail = None /\ DOMAIN m = {}
    BY DEF EmptyArena, Occupied, EmptyMap
  <1> HIDE DEF a, m
  <1>2. ArenaType(a, Item)
    BY <1>1 DEF ArenaType, None
  <1>3. InOrder(a, << >>)
    BY <1>1 DEF InOrder, Linked, Injective, Elements
  <1>4. FreeExact(a) /\ a.slots <= Capacity
    BY <1>1, CapacityAssumption DEF FreeExact, Injective, Elements
  <1>5. Cardinality(DOMAIN m) <= Capacity
    BY <1>1, FS_EmptySet, CapacityAssumption
  <1>6. QED
    BY <1>1, <1>2, <1>3, <1>4, <1>5 DEF Sound, a, m

\* A promotion, of get or of an overwrite, keeps a shard sound.
LEMMA PromoteSound ==
  ASSUME NEW a, NEW m, NEW s, Sound(a, m, s), NEW idx \in Occupied(a)
  PROVE  Sound(promote(a, idx), m, ToFront(s, idx))
  <1> DEFINE b == promote(a, idx)
             t == ToFront(s, idx)
  <1>1. /\ t \in Seq(Slot)
        /\ InOrder(b, t)
        /\ Occupied(b) = Occupied(a)
        /\ b.slots = a.slots /\ b.free = a.free
        /\ \A i \in Occupied(a) : b.nodes[i].item = a.nodes[i].item
    BY PromoteInOrder DEF Sound
  <1> HIDE DEF b, t
  <1>2. ArenaType(b, Item)
    <2>1. b.slots \in Nat /\ b.free \in Seq(Slot)
      BY <1>1 DEF Sound, ArenaType
    <2>2. \A i \in Occupied(b) : b.nodes[i].item \in Item
      BY <1>1 DEF Sound, ArenaType
    <2>3. QED BY <2>1, <2>2, <1>1, InOrderType
  <1>3. FreeExact(b) /\ b.slots <= Capacity
    BY <1>1 DEF Sound, FreeExact
  <1>4. QED
    BY <1>1, <1>2, <1>3 DEF Sound, b, t

\* An overwrite that keeps the key of the node keeps a shard sound.
LEMMA ReplaceSound ==
  ASSUME NEW a, NEW m, NEW s, Sound(a, m, s), NEW idx \in Occupied(a),
         NEW item \in Item, item.key = a.nodes[idx].item.key
  PROVE  Sound(replace(a, idx, item), m, s)
  <1> DEFINE b == replace(a, idx, item)
  <1>1. /\ InOrder(b, s)
        /\ Occupied(b) = Occupied(a)
        /\ b.slots = a.slots /\ b.free = a.free
        /\ \A i \in Occupied(a) :
             b.nodes[i].item = IF i = idx THEN item ELSE a.nodes[i].item
    BY ReplaceInOrder DEF Sound
  <1> HIDE DEF b
  <1>2. ArenaType(b, Item)
    <2>1. b.slots \in Nat /\ b.free \in Seq(Slot)
      BY <1>1 DEF Sound, ArenaType
    <2>2. \A i \in Occupied(b) : b.nodes[i].item \in Item
      BY <1>1 DEF Sound, ArenaType
    <2>3. s \in Seq(Slot)
      BY DEF Sound
    <2>4. QED BY <2>1, <2>2, <2>3, <1>1, InOrderType
  <1>3. FreeExact(b) /\ b.slots <= Capacity
    BY <1>1 DEF Sound, FreeExact
  <1>4. \A i \in Occupied(a) : b.nodes[i].item.key = a.nodes[i].item.key
    BY <1>1
  <1>5. QED
    BY <1>1, <1>2, <1>3, <1>4 DEF Sound, b

\* Releasing a node and its key keeps a shard sound, makes it smaller by one
\* and leaves a slot for the next alloc.
LEMMA ReleaseSound ==
  ASSUME NEW a, NEW m, NEW s, Sound(a, m, s), NEW idx \in Occupied(a)
  PROVE  LET n == [x \in DOMAIN m \ {a.nodes[idx].item.key} |-> m[x]]
             b == dealloc(unlink(a, idx), idx)
         IN  /\ Sound(b, n, Without(s, idx))
             /\ Cardinality(DOMAIN n) = Cardinality(DOMAIN m) - 1
             /\ b.free # << >>
  <1> DEFINE key == a.nodes[idx].item.key
             n == [x \in DOMAIN m \ {key} |-> m[x]]
             b == dealloc(unlink(a, idx), idx)
             t == Without(s, idx)
  <1>1. /\ t \in Seq(Slot)
        /\ InOrder(b, t)
        /\ Occupied(b) = Occupied(a) \ {idx}
        /\ b.slots = a.slots
        /\ b.free \in Seq(Slot) /\ b.free # << >>
        /\ FreeExact(b)
        /\ \A i \in Occupied(b) : b.nodes[i].item = a.nodes[i].item
    <2>1. s \in Seq(Slot) /\ InOrder(a, s) /\ FreeExact(a) /\ a.free \in Seq(Slot)
      BY DEF Sound, ArenaType
    <2>2. QED BY <2>1, ReleaseInOrder
  <1>2. key \in DOMAIN m /\ m[key] = idx
    BY DEF Sound
  <1>3. DOMAIN n = DOMAIN m \ {key} /\ \A x \in DOMAIN n : n[x] = m[x]
    OBVIOUS
  <1> HIDE DEF b, t, n
  <1>4. ArenaType(b, Item)
    <2>1. b.slots \in Nat
      BY <1>1 DEF Sound, ArenaType
    <2>2. \A i \in Occupied(b) : b.nodes[i].item \in Item
      BY <1>1 DEF Sound, ArenaType
    <2>3. QED BY <2>1, <2>2, <1>1, InOrderType
  <1>5. IsFiniteSet(DOMAIN m) /\ Cardinality(DOMAIN m) \in Nat
    BY CountSlots
  <1>6. Cardinality(DOMAIN n) = Cardinality(DOMAIN m) - 1
    BY <1>2, <1>3, <1>5, FS_RemoveElement
  <1>7. Cardinality(DOMAIN n) <= Capacity
    BY <1>5, <1>6, CapacityAssumption DEF Sound
  <1>8. ASSUME NEW k \in DOMAIN n
        PROVE  n[k] \in Occupied(b) /\ b.nodes[n[k]].item.key = k
    <2>1. n[k] = m[k] /\ m[k] \in Occupied(a) /\ a.nodes[m[k]].item.key = k /\ k # key
      BY <1>3 DEF Sound
    <2>2. m[k] # idx
      BY <2>1
    <2>3. QED BY <2>1, <2>2, <1>1
  <1>9. ASSUME NEW i \in Occupied(b)
        PROVE  b.nodes[i].item.key \in DOMAIN n /\ n[b.nodes[i].item.key] = i
    <2>1. /\ i # idx /\ b.nodes[i].item.key = a.nodes[i].item.key
          /\ a.nodes[i].item.key \in DOMAIN m /\ m[a.nodes[i].item.key] = i
      BY <1>1 DEF Sound
    <2>2. a.nodes[i].item.key # key
      BY <2>1, <1>2
    <2>3. QED BY <2>1, <2>2, <1>3
  <1>10. b.slots <= Capacity /\ DOMAIN n \subseteq Key
    BY <1>1, <1>3 DEF Sound
  <1>11. Sound(b, n, t)
    BY <1>1, <1>4, <1>7, <1>8, <1>9, <1>10 DEF Sound
  <1>12. QED
    BY <1>1, <1>6, <1>11 DEF b, n, t

\* Adding a new key below capacity keeps a shard sound: if the Vec has to grow,
\* every slot is occupied and there are fewer of them than Capacity.
LEMMA InsertSound ==
  ASSUME NEW a, NEW m, NEW s, Sound(a, m, s), NEW k \in Key, NEW v \in Value,
         k \notin DOMAIN m, Cardinality(DOMAIN m) < Capacity
  PROVE  LET idx == AllocIdx(a)
             b == push_front(alloc(a, [key |-> k, value |-> v]), idx)
             n == [x \in DOMAIN m \cup {k} |-> IF x = k THEN idx ELSE m[x]]
         IN  Sound(b, n, Push(s, idx))
  <1> DEFINE item == [key |-> k, value |-> v]
             idx == AllocIdx(a)
             b == push_front(alloc(a, item), idx)
             n == [x \in DOMAIN m \cup {k} |-> IF x = k THEN idx ELSE m[x]]
             t == Push(s, idx)
  <1>1. item \in Item /\ item.key = k
    BY DEF Item
  <1> HIDE DEF item
  <1>2. s \in Seq(Slot) /\ InOrder(a, s) /\ FreeExact(a) /\ a.free \in Seq(Slot) /\ a.slots \in Nat
    BY DEF Sound, ArenaType
  <1>3. /\ idx \in Slot /\ idx \notin Occupied(a)
        /\ t \in Seq(Slot)
        /\ InOrder(b, t)
        /\ Occupied(b) = Occupied(a) \cup {idx}
        /\ b.slots = IF a.free = << >> THEN a.slots + 1 ELSE a.slots
        /\ b.free \in Seq(Slot)
        /\ FreeExact(b)
        /\ b.nodes[idx].item = item
        /\ \A i \in Occupied(a) : b.nodes[i].item = a.nodes[i].item
    BY <1>2, InsertInOrder
  <1> HIDE DEF b, t, idx
  <1>4. /\ DOMAIN n = DOMAIN m \cup {k} /\ n[k] = idx
        /\ \A x \in DOMAIN m : n[x] = m[x]
    OBVIOUS
  <1> HIDE DEF n
  <1>5. /\ IsFiniteSet(DOMAIN m) /\ Cardinality(DOMAIN m) \in Nat
        /\ Occupied(a) = 1..a.slots => Cardinality(DOMAIN m) = a.slots
    BY CountSlots
  <1>6. b.slots <= Capacity
    <2>1. CASE a.free = << >>
      <3>1. Elements(a.free) = {}
        BY <2>1 DEF Elements
      <3>2. Occupied(a) = 1..a.slots
        BY <3>1, <1>2 DEF FreeExact
      <3>3. QED BY <3>2, <2>1, <1>2, <1>3, <1>5, CapacityAssumption
    <2>2. CASE a.free # << >>
      BY <2>2, <1>3 DEF Sound
    <2>3. QED BY <2>1, <2>2
  <1>7. Cardinality(DOMAIN n) <= Capacity
    <2>1. Cardinality(DOMAIN n) = Cardinality(DOMAIN m) + 1
      BY <1>4, <1>5, FS_AddElement
    <2>2. QED BY <2>1, <1>5, CapacityAssumption
  <1>8. ArenaType(b, Item)
    <2>1. b.slots \in Nat
      BY <1>2, <1>3
    <2>2. \A i \in Occupied(b) : b.nodes[i].item \in Item
      BY <1>1, <1>3 DEF Sound, ArenaType
    <2>3. QED BY <2>1, <2>2, <1>3, InOrderType
  <1>9. ASSUME NEW x \in DOMAIN n
        PROVE  n[x] \in Occupied(b) /\ b.nodes[n[x]].item.key = x
    <2>1. CASE x = k
      BY <2>1, <1>1, <1>3, <1>4
    <2>2. CASE x # k
      BY <2>2, <1>3, <1>4 DEF Sound
    <2>3. QED BY <2>1, <2>2
  <1>10. ASSUME NEW i \in Occupied(b)
         PROVE  b.nodes[i].item.key \in DOMAIN n /\ n[b.nodes[i].item.key] = i
    <2>1. CASE i = idx
      BY <2>1, <1>1, <1>3, <1>4
    <2>2. CASE i # idx
      BY <2>2, <1>3, <1>4 DEF Sound
    <2>3. QED BY <2>1, <2>2
  <1>11. DOMAIN n \subseteq Key
    BY <1>4 DEF Sound
  <1>12. Sound(b, n, t)
    BY <1>3, <1>6, <1>7, <1>8, <1>9, <1>10, <1>11 DEF Sound
  <1>13. QED
    BY <1>12 DEF item, idx, b, n, t

\* What insert leaves after its eviction, if it evicts, is sound and has room
\* for one entry.
LEMMA RoomSound ==
  ASSUME Sound(arena, map, order)
  PROVE  /\ Sound(RoomyArena, RoomyMap, RoomyOrder)
         /\ Cardinality(DOMAIN RoomyMap) < Capacity
         /\ DOMAIN RoomyMap \subseteq DOMAIN map
  <1>1. IsFiniteSet(DOMAIN map) /\ Cardinality(DOMAIN map) \in Nat
    BY CountSlots
  <1>2. /\ arena.tail # None => arena.tail \in Occupied(arena)
        /\ arena.tail = None => Occupied(arena) = {}
    BY TailIsOccupied DEF Sound
  <1>3. CASE Full
    <2>1. arena.tail \in Occupied(arena)
      BY <1>2, <1>3 DEF Full
    <2>2. /\ Sound(RoomyArena, RoomyMap, RoomyOrder)
          /\ Cardinality(DOMAIN RoomyMap) = Cardinality(DOMAIN map) - 1
      BY <2>1, <1>3, ReleaseSound DEF RoomyArena, RoomyMap, RoomyOrder
    <2>3. Cardinality(DOMAIN map) <= Capacity
      BY DEF Sound
    <2>4. DOMAIN RoomyMap \subseteq DOMAIN map
      BY <1>3 DEF RoomyMap
    <2>5. QED BY <2>2, <2>3, <2>4, <1>1, CapacityAssumption
  <1>4. CASE ~Full
    <2>1. RoomyArena = arena /\ RoomyMap = map /\ RoomyOrder = order
      BY <1>4 DEF RoomyArena, RoomyMap, RoomyOrder
    <2>2. CASE arena.tail = None
      <3>1. DOMAIN map = {}
        BY <2>2, <1>2 DEF Sound
      <3>2. Cardinality(DOMAIN map) = 0
        BY <3>1, FS_EmptySet
      <3>3. QED BY <3>2, <2>1, CapacityAssumption
    <2>3. CASE arena.tail # None
      BY <2>1, <2>3, <1>1, <1>4, CapacityAssumption DEF Full
    <2>4. QED BY <2>2, <2>3
  <1>5. QED BY <1>3, <1>4

\* The first of the two facts of the induction.
LEMMA InitIInv == Init => IInv
  BY EmptyIsSound, IInvIsSound DEF Init

\* The second: every call, whatever it returns and wherever it panics, keeps
\* the invariant.
LEMMA NextIInv == IInv /\ [Next]_vars => IInv'
  <1> SUFFICES ASSUME IInv, [Next]_vars
               PROVE  Sound(arena', map', order')
    <2>1. IInv' <=> Sound(arena', map', order')
      <3>1. ASSUME Sound(arena', map', order') PROVE \A k \in DOMAIN map' : map'[k] \in Slot
        BY <3>1 DEF Sound, ArenaType
      <3>2. QED
        BY <3>1 DEF IInv, Sound, TypeOK, ListInOrder, MapMatchesArena, SlotsAccounted,
                    CapacityInvariant
    <2>2. QED BY <2>1
  <1>0. Sound(arena, map, order)
    BY IInvIsSound
  <1>1. ASSUME NEW k \in Key, Get(k) PROVE Sound(arena', map', order')
    <2>1. CASE k \notin DOMAIN map
      BY <2>1, <1>0, <1>1 DEF Get
    <2>2. CASE k \in DOMAIN map
      <3>1. arena' = promote(arena, map[k]) /\ order' = ToFront(order, map[k]) /\ map' = map
        BY <2>2, <1>1 DEF Get
      <3>2. map[k] \in Occupied(arena)
        BY <2>2, <1>0 DEF Sound
      <3>3. QED BY <3>1, <3>2, <1>0, PromoteSound
    <2>3. QED BY <2>1, <2>2
  <1>2. ASSUME NEW k \in Key, NEW v \in Value, Replace(k, v)
        PROVE  Sound(arena', map', order')
    <2> DEFINE idx == map[k]
               item == [key |-> arena.nodes[idx].item.key, value |-> v]
               b == replace(arena, idx, item)
    <2>1. arena' = promote(b, idx) /\ order' = ToFront(order, idx) /\ map' = map
      BY <1>2 DEF Replace
    <2>2. idx \in Occupied(arena) /\ arena.nodes[idx].item \in Item
      BY <1>0, <1>2 DEF Replace, Sound, ArenaType
    <2>3. item \in Item /\ item.key = arena.nodes[idx].item.key
      BY <2>2 DEF Item
    <2>4. Sound(b, map, order)
      <3> HIDE DEF item, idx
      <3>1. QED BY <2>2, <2>3, <1>0, ReplaceSound
    <2>5. idx \in Occupied(b)
      BY <2>2 DEF replace, Occupied
    <2> HIDE DEF b, idx
    <2>6. Sound(promote(b, idx), map, ToFront(order, idx))
      BY <2>4, <2>5, PromoteSound
    <2>7. QED BY <2>1, <2>6
  <1>3. ASSUME NEW k \in Key, NEW v \in Value, Add(k, v)
        PROVE  Sound(arena', map', order')
    <2>1. /\ Sound(RoomyArena, RoomyMap, RoomyOrder)
          /\ Cardinality(DOMAIN RoomyMap) < Capacity
          /\ k \notin DOMAIN RoomyMap
      BY <1>0, <1>3, RoomSound DEF Add
    <2> DEFINE idx == AllocIdx(RoomyArena)
    <2>2. CASE /\ arena' = push_front(alloc(RoomyArena, [key |-> k, value |-> v]), idx)
               /\ map' = [x \in DOMAIN RoomyMap \cup {k} |->
                            IF x = k THEN idx ELSE RoomyMap[x]]
               /\ order' = Push(RoomyOrder, idx)
      BY <2>1, <2>2, InsertSound
    <2>3. CASE arena' = RoomyArena /\ map' = RoomyMap /\ order' = RoomyOrder
      BY <2>1, <2>3
    <2>4. QED BY <2>2, <2>3, <1>3 DEF Add
  <1>4. ASSUME NEW k \in Key, Remove(k) PROVE Sound(arena', map', order')
    <2>1. CASE k \notin DOMAIN map
      BY <2>1, <1>0, <1>4 DEF Remove
    <2>2. CASE k \in DOMAIN map
      <3>1. map[k] \in Occupied(arena) /\ arena.nodes[map[k]].item.key = k
        BY <2>2, <1>0 DEF Sound
      <3>2. /\ map' = [x \in DOMAIN map \ {arena.nodes[map[k]].item.key} |-> map[x]]
            /\ arena' = dealloc(unlink(arena, map[k]), map[k])
            /\ order' = Without(order, map[k])
        BY <3>1, <2>2, <1>4 DEF Remove
      <3>3. QED BY <3>1, <3>2, <1>0, ReleaseSound
    <2>3. QED BY <2>1, <2>2
  <1>5. ASSUME NEW k \in Key, ContainsKey(k) PROVE Sound(arena', map', order')
    BY <1>0, <1>5 DEF ContainsKey
  <1>6. CASE Size
    BY <1>0, <1>6 DEF Size
  <1>7. CASE Clear
    BY <1>7, EmptyIsSound DEF Clear
  <1>8. CASE UNCHANGED vars
    BY <1>0, <1>8 DEF vars
  <1>9. QED
    BY <1>1, <1>2, <1>3, <1>4, <1>5, <1>6, <1>7, <1>8 DEF Next

\* In every state of every run of an LRU shard, for all keys, values and
\* capacities, the arena, the map, the recency list and the free stack of
\* Inner agree with one another.
THEOREM Invariance == Spec => []IInv
  <1>1. Init => IInv
    BY InitIInv
  <1>2. IInv /\ [Next]_vars => IInv'
    BY NextIInv
  <1>3. QED BY <1>1, <1>2, PTL DEF Spec

\* Slots, links, map entries and items keep their types: no link of a node ever
\* leads outside the Vec.
THEOREM TypeCorrect == Spec => []TypeOK
  <1>1. IInv => TypeOK
    BY DEF IInv
  <1>2. QED BY <1>1, Invariance, PTL

\* The in-place pointer updates of unlink, push_front and promote always leave
\* one list, the same in both directions, of the occupied slots in order of
\* their last access.
THEOREM ListCorrect == Spec => []ListInOrder
  <1>1. IInv => ListInOrder
    BY DEF IInv
  <1>2. QED BY <1>1, Invariance, PTL

\* Every key of the map leads to a node of that key and every node is found by
\* its key, so the unreachable!() arms of lru.rs are never reached.
THEOREM MapCorrect == Spec => []MapMatchesArena
  <1>1. IInv => MapMatchesArena
    BY DEF IInv
  <1>2. QED BY <1>1, Invariance, PTL

\* No slot is lost or freed twice, and the Vec never outgrows the capacity it
\* was allocated with.
THEOREM SlotsCorrect == Spec => []SlotsAccounted
  <1>1. IInv => SlotsAccounted
    BY DEF IInv
  <1>2. QED BY <1>1, Invariance, PTL

\* The shard never holds more entries than its capacity.
THEOREM CapacityCorrect == Spec => []CapacityInvariant
  <1>1. IInv => CapacityInvariant
    BY DEF IInv
  <1>2. QED BY <1>1, Invariance, PTL
-----------------------------------------------------------------------------
(***************************************************************************)
(* The refinement of LruPolicy.  Each operation of the arena is shown to   *)
(* make the move of the policy on the values and the keys it stands for.   *)
(***************************************************************************)
\* What the policy sees of an arena, a map and an order.
KeyOf(a) == [i \in Occupied(a) |-> a.nodes[i].item.key]

ValuesOf(a, m) == [k \in DOMAIN m |-> a.nodes[m[k]].item.value]

KeysOf(a, s) == [p \in 1..Len(s) |-> a.nodes[s[p]].item.key]

\* The recency order of keys is the order of slots, each slot read as its key.
LEMMA KeysOfFacts ==
  ASSUME NEW a, NEW m, NEW s, Sound(a, m, s)
  PROVE  /\ KeysOf(a, s) = Relabel(s, KeyOf(a))
         /\ s \in Seq(Slot) /\ Injective(s) /\ Elements(s) = Occupied(a)
         /\ \A i \in Occupied(a) : KeyOf(a)[i] = a.nodes[i].item.key
         /\ \A i, j \in Elements(s) : KeyOf(a)[i] = KeyOf(a)[j] => i = j
         /\ \A k \in DOMAIN m : m[k] \in Elements(s) /\ KeyOf(a)[m[k]] = k
  <1>1. s \in Seq(Slot) /\ Injective(s) /\ Elements(s) = Occupied(a)
    BY DEF Sound, InOrder
  <1>2. \A p \in 1..Len(s) : s[p] \in Occupied(a)
    BY <1>1 DEF Elements
  <1>3. \A i \in Occupied(a) : KeyOf(a)[i] = a.nodes[i].item.key
    BY DEF KeyOf
  <1>4. KeysOf(a, s) = Relabel(s, KeyOf(a))
    BY <1>2, <1>3 DEF KeysOf, Relabel
  <1>5. /\ \A i, j \in Elements(s) : KeyOf(a)[i] = KeyOf(a)[j] => i = j
        /\ \A k \in DOMAIN m : m[k] \in Elements(s) /\ KeyOf(a)[m[k]] = k
    BY <1>1, <1>3 DEF Sound
  <1>6. QED BY <1>1, <1>3, <1>4, <1>5

\* A promotion is an access of the policy.
LEMMA PromoteRefines ==
  ASSUME NEW a, NEW m, NEW s, Sound(a, m, s), NEW k \in DOMAIN m
  PROVE  LET b == promote(a, m[k]) IN
         /\ ValuesOf(b, m) = ValuesOf(a, m)
         /\ KeysOf(b, ToFront(s, m[k])) = ToFront(KeysOf(a, s), k)
  <1> DEFINE i == m[k]
             b == promote(a, i)
             t == ToFront(s, i)
  <1>1. i \in Occupied(a)
    BY DEF Sound
  <1>2. /\ Occupied(b) = Occupied(a)
        /\ \A j \in Occupied(a) : b.nodes[j].item = a.nodes[j].item
    BY <1>1, PromoteInOrder DEF Sound
  <1>3. Sound(b, m, t)
    BY <1>1, PromoteSound
  <1>4. ValuesOf(b, m) = ValuesOf(a, m)
    BY <1>2 DEF ValuesOf, Sound
  <1>5. KeyOf(b) = KeyOf(a)
    BY <1>2 DEF KeyOf
  <1>6. KeysOf(b, t) = Relabel(t, KeyOf(a))
    BY <1>3, <1>5, KeysOfFacts
  <1> HIDE DEF b
  <1>7. Relabel(t, KeyOf(a)) = ToFront(Relabel(s, KeyOf(a)), KeyOf(a)[i])
    <2>1. /\ s \in Seq(Slot) /\ Injective(s) /\ i \in Elements(s)
          /\ \A y, z \in Elements(s) : KeyOf(a)[y] = KeyOf(a)[z] => y = z
      BY KeysOfFacts
    <2>2. QED BY <2>1, RelabelToFront
  <1>8. KeysOf(a, s) = Relabel(s, KeyOf(a)) /\ KeyOf(a)[i] = k
    BY KeysOfFacts
  <1>9. QED BY <1>4, <1>6, <1>7, <1>8 DEF b

\* Overwriting the item of a key changes its value and nothing else.
LEMMA ReplaceRefines ==
  ASSUME NEW a, NEW m, NEW s, Sound(a, m, s), NEW k \in DOMAIN m, NEW item, item.key = k
  PROVE  LET b == replace(a, m[k], item) IN
         /\ ValuesOf(b, m) = [ValuesOf(a, m) EXCEPT ![k] = item.value]
         /\ KeysOf(b, s) = KeysOf(a, s)
  <1> DEFINE b == replace(a, m[k], item)
  <1>1. m[k] \in Occupied(a) /\ a.nodes[m[k]].item.key = k
    BY DEF Sound
  <1>2. \A j \in Occupied(a) : b.nodes[j].item = IF j = m[k] THEN item ELSE a.nodes[j].item
    BY <1>1, ReplaceInOrder DEF Sound
  <1>3. \A x \in DOMAIN m : m[x] \in Occupied(a) /\ (m[x] = m[k] => x = k)
    BY DEF Sound
  <1>4. \A p \in 1..Len(s) : s[p] \in Occupied(a)
    BY DEF Sound, InOrder, Elements
  <1> HIDE DEF b
  <1>5. ValuesOf(b, m) = [ValuesOf(a, m) EXCEPT ![k] = item.value]
    BY <1>2, <1>3 DEF ValuesOf
  <1>6. KeysOf(b, s) = KeysOf(a, s)
    BY <1>1, <1>2, <1>4 DEF KeysOf
  <1>7. QED BY <1>5, <1>6 DEF b

\* Releasing the node of a key removes the key.
LEMMA ReleaseRefines ==
  ASSUME NEW a, NEW m, NEW s, Sound(a, m, s), NEW k \in DOMAIN m
  PROVE  LET b == dealloc(unlink(a, m[k]), m[k])
             n == [x \in DOMAIN m \ {k} |-> m[x]]
         IN /\ ValuesOf(b, n) = [x \in DOMAIN m \ {k} |-> ValuesOf(a, m)[x]]
            /\ KeysOf(b, Without(s, m[k])) = Without(KeysOf(a, s), k)
  <1> DEFINE i == m[k]
             b == dealloc(unlink(a, i), i)
             n == [x \in DOMAIN m \ {k} |-> m[x]]
             t == Without(s, i)
  <1>1. i \in Occupied(a) /\ a.nodes[i].item.key = k
    BY DEF Sound
  <1>2. /\ Occupied(b) = Occupied(a) \ {i}
        /\ \A j \in Occupied(b) : b.nodes[j].item = a.nodes[j].item
    BY <1>1, ReleaseInOrder DEF Sound, ArenaType
  <1>3. Sound(b, n, t)
    BY <1>1, ReleaseSound
  <1>4. ValuesOf(b, n) = [x \in DOMAIN m \ {k} |-> ValuesOf(a, m)[x]]
    <2>1. \A x \in DOMAIN m \ {k} : m[x] \in Occupied(b)
      BY <1>2 DEF Sound
    <2> HIDE DEF b
    <2>2. QED BY <1>2, <2>1 DEF ValuesOf
  <1> HIDE DEF b, n
  <1>5. /\ KeysOf(b, t) = Relabel(t, KeyOf(b)) /\ t \in Seq(Slot) /\ Elements(t) = Occupied(b)
        /\ \A j \in Occupied(b) : KeyOf(b)[j] = b.nodes[j].item.key
    BY <1>3, KeysOfFacts
  <1>6. /\ KeysOf(a, s) = Relabel(s, KeyOf(a)) /\ KeyOf(a)[i] = k
        /\ s \in Seq(Slot) /\ Injective(s) /\ i \in Elements(s)
        /\ \A y, z \in Elements(s) : KeyOf(a)[y] = KeyOf(a)[z] => y = z
        /\ \A j \in Occupied(a) : KeyOf(a)[j] = a.nodes[j].item.key
    BY KeysOfFacts
  <1>7. Relabel(t, KeyOf(b)) = Relabel(t, KeyOf(a))
    <2>1. \A j \in Elements(t) : KeyOf(b)[j] = KeyOf(a)[j]
      BY <1>2, <1>5, <1>6
    <2> HIDE DEF t
    <2>2. QED BY <2>1, <1>5, RelabelSame
  <1>8. Relabel(t, KeyOf(a)) = Without(Relabel(s, KeyOf(a)), KeyOf(a)[i])
    BY <1>6, RelabelWithout
  <1>9. QED BY <1>4, <1>5, <1>6, <1>7, <1>8 DEF b, n

\* Linking a fresh node in front adds its key as the most recent one.
LEMMA InsertRefines ==
  ASSUME NEW a, NEW m, NEW s, Sound(a, m, s), Cardinality(DOMAIN m) < Capacity,
         NEW k \in Key, k \notin DOMAIN m, NEW v \in Value
  PROVE  LET idx == AllocIdx(a)
             b == push_front(alloc(a, [key |-> k, value |-> v]), idx)
             n == [x \in DOMAIN m \cup {k} |-> IF x = k THEN idx ELSE m[x]]
         IN  /\ ValuesOf(b, n) = [x \in DOMAIN m \cup {k} |-> IF x = k THEN v ELSE ValuesOf(a, m)[x]]
             /\ KeysOf(b, Push(s, idx)) = Push(KeysOf(a, s), k)
  <1> DEFINE item == [key |-> k, value |-> v]
             idx == AllocIdx(a)
             b == push_front(alloc(a, item), idx)
             n == [x \in DOMAIN m \cup {k} |-> IF x = k THEN idx ELSE m[x]]
             t == Push(s, idx)
  <1>1. Sound(b, n, t)
    BY InsertSound
  <1>2. /\ idx \in Slot /\ idx \notin Occupied(a) /\ Occupied(b) = Occupied(a) \cup {idx}
        /\ b.nodes[idx].item = item
        /\ \A i \in Occupied(a) : b.nodes[i].item = a.nodes[i].item
    <2> HIDE DEF item
    <2>1. QED BY InsertInOrder DEF Sound, ArenaType
  <1>3. ValuesOf(b, n) = [x \in DOMAIN m \cup {k} |-> IF x = k THEN v ELSE ValuesOf(a, m)[x]]
    <2> HIDE DEF b, idx
    <2>1. \A x \in DOMAIN m : m[x] \in Occupied(a)
      BY DEF Sound
    <2>2. QED BY <1>2, <2>1 DEF ValuesOf
  <1> HIDE DEF b, n, idx
  <1>4. /\ KeysOf(b, t) = Relabel(t, KeyOf(b))
        /\ \A j \in Occupied(b) : KeyOf(b)[j] = b.nodes[j].item.key
    BY <1>1, KeysOfFacts
  <1>5. /\ KeysOf(a, s) = Relabel(s, KeyOf(a)) /\ s \in Seq(Slot) /\ Elements(s) = Occupied(a)
        /\ \A j \in Occupied(a) : KeyOf(a)[j] = a.nodes[j].item.key
    BY KeysOfFacts
  <1>6. Relabel(t, KeyOf(b)) = Push(Relabel(s, KeyOf(a)), KeyOf(b)[idx])
    <2>1. \A j \in Elements(s) : KeyOf(a)[j] = KeyOf(b)[j]
      BY <1>2, <1>4, <1>5
    <2>2. QED BY <2>1, <1>2, <1>5, RelabelPush
  <1>7. KeyOf(b)[idx] = k
    BY <1>2, <1>4
  <1>8. QED BY <1>3, <1>4, <1>5, <1>6, <1>7 DEF b, n, idx

\* The operators of the instance are those of the shard.
LEMMA PolicyOps ==
  /\ \A S : Policy!Cardinality(S) = Cardinality(S)
  /\ \A s, x : Policy!Push(s, x) = Push(s, x)
  /\ \A s, x : Policy!Without(s, x) = Without(s, x)
  /\ \A s, x : Policy!ToFront(s, x) = ToFront(s, x)
  /\ Policy!EmptyMap = EmptyMap
  <1>1. \A S : Policy!Cardinality(S) = Cardinality(S)
    BY DEF Policy!Cardinality, Cardinality
  <1>2. \A s, x : Policy!Push(s, x) = Push(s, x)
    BY DEF Policy!Push, Push
  <1>3. \A s, x : Policy!Without(s, x) = Without(s, x)
    BY DEF Policy!Without, Without, Policy!Position, Position
  <1>4. \A s, x : Policy!ToFront(s, x) = ToFront(s, x)
    BY <1>2, <1>3 DEF Policy!ToFront, ToFront
  <1>5. Policy!EmptyMap = EmptyMap
    BY DEF Policy!EmptyMap, EmptyMap
  <1>6. QED BY <1>1, <1>2, <1>3, <1>4, <1>5

\* insert makes room exactly when the policy does, and evicts the same key.
LEMMA RoomRefines ==
  ASSUME Sound(arena, map, order)
  PROVE  LET e == ValuesOf(arena, map)
             r == KeysOf(arena, order)
             kept == IF Cardinality(DOMAIN e) < Capacity THEN DOMAIN e
                     ELSE DOMAIN e \ {r[Len(r)]}
         IN /\ ValuesOf(RoomyArena, RoomyMap) = [x \in kept |-> e[x]]
            /\ DOMAIN RoomyMap = kept
            /\ KeysOf(RoomyArena, RoomyOrder) = IF Cardinality(DOMAIN e) < Capacity THEN r
                                                ELSE Without(r, r[Len(r)])
  <1> DEFINE e == ValuesOf(arena, map)
             r == KeysOf(arena, order)
             tail == arena.tail
             k == arena.nodes[tail].item.key
  <1>1. DOMAIN e = DOMAIN map /\ Cardinality(DOMAIN map) \in Nat
    BY CountSlots DEF ValuesOf
  <1>2. CASE Full
    <2>1. tail \in Occupied(arena)
      BY <1>2, TailIsOccupied DEF Full, Sound
    <2>2. k \in DOMAIN map /\ map[k] = tail
      BY <2>1 DEF Sound
    <2>3. r[Len(r)] = k
      <3>1. order \in Seq(Slot) /\ tail = IF Len(order) = 0 THEN None ELSE order[Len(order)]
        BY DEF Sound, InOrder, Linked
      <3>2. Len(order) \in 1..Len(order) /\ tail = order[Len(order)]
        BY <3>1, <1>2 DEF Full
      <3>3. Len(r) = Len(order)
        BY <3>1 DEF KeysOf
      <3>4. QED BY <3>2, <3>3 DEF KeysOf
    <2>4. ~(Cardinality(DOMAIN e) < Capacity)
      BY <1>1, <1>2, CapacityAssumption DEF Full
    <2>5. /\ RoomyArena = dealloc(unlink(arena, map[k]), map[k])
          /\ RoomyMap = [x \in DOMAIN map \ {k} |-> map[x]]
          /\ RoomyOrder = Without(order, map[k])
      BY <1>2, <2>2 DEF RoomyArena, RoomyMap, RoomyOrder
    <2> HIDE DEF k
    <2>6. /\ ValuesOf(RoomyArena, RoomyMap) = [x \in DOMAIN map \ {k} |-> e[x]]
          /\ KeysOf(RoomyArena, RoomyOrder) = Without(r, k)
      BY <2>2, <2>5, ReleaseRefines
    <2>7. DOMAIN RoomyMap = DOMAIN map \ {k}
      BY <2>5
    <2> HIDE DEF e, r
    <2>8. QED BY <1>1, <2>3, <2>4, <2>6, <2>7 DEF e, r
  <1>3. CASE ~Full
    <2>1. RoomyArena = arena /\ RoomyMap = map /\ RoomyOrder = order
      BY <1>3 DEF RoomyArena, RoomyMap, RoomyOrder
    <2>2. Cardinality(DOMAIN map) < Capacity
      BY <2>1, RoomSound
    <2>3. e = [x \in DOMAIN e |-> e[x]]
      BY DEF ValuesOf
    <2> HIDE DEF e, r
    <2>4. QED BY <1>1, <2>1, <2>2, <2>3 DEF e, r
  <1>4. QED BY <1>2, <1>3

\* Every call of the shard is, with its reply, a call of the policy.
LEMMA NextRefines == IInv /\ [Next]_vars => [Policy!Next]_(Policy!vars)
  <1> SUFFICES ASSUME IInv, [Next]_vars
               PROVE  [Policy!Next]_(Policy!vars)
    OBVIOUS
  <1> DEFINE e == ValuesOf(arena, map)
             r == KeysOf(arena, order)
             f == ValuesOf(arena', map')
             q == KeysOf(arena', order')
  <1>0. Sound(arena, map, order) /\ DOMAIN e = DOMAIN map
    BY IInvIsSound DEF ValuesOf
  <1>a. \A k \in DOMAIN map : e[k] = arena.nodes[map[k]].item.value
    BY DEF ValuesOf
  <1>s. ASSUME arena' = arena, map' = map, order' = order PROVE f = e /\ q = r
    BY <1>s
  <1>1. ASSUME NEW k \in Key, Get(k) PROVE Policy!Get(k)
    <2>1. CASE k \notin DOMAIN map
      <3>1. f = e /\ q = r /\ reply' = << "get", "none", k >>
        BY <2>1, <1>1, <1>s DEF Get
      <3>2. QED BY <3>1, <2>1 DEF Policy!Get, ValuesOf, KeysOf
    <2>2. CASE k \in DOMAIN map
      <3>1. arena' = promote(arena, map[k]) /\ order' = ToFront(order, map[k]) /\ map' = map
        BY <2>2, <1>1 DEF Get
      <3>2. f = e /\ q = ToFront(r, k)
        BY <3>1, <2>2, <1>0, PromoteRefines
      <3>3. \/ reply' = << "get", "some", k, e[k] >>
            \/ reply' = << "get", "panicked", k >>
        BY <2>2, <1>1, <1>a DEF Get
      <3>4. QED BY <3>2, <3>3, <2>2, PolicyOps DEF Policy!Get, ValuesOf, KeysOf
    <2>3. QED BY <2>1, <2>2
  <1>2. ASSUME NEW k \in Key, NEW v \in Value, Replace(k, v) PROVE Policy!Replace(k, v)
    <2> DEFINE idx == map[k]
               item == [key |-> arena.nodes[idx].item.key, value |-> v]
               b == replace(arena, idx, item)
    <2>1. /\ k \in DOMAIN map /\ map' = map
          /\ arena' = promote(b, idx) /\ order' = ToFront(order, idx)
          /\ reply' = << "insert", "some", k, e[k] >>
      BY <1>2, <1>a DEF Replace
    <2>2. idx \in Occupied(arena) /\ arena.nodes[idx].item \in Item /\ arena.nodes[idx].item.key = k
      BY <2>1, <1>0 DEF Sound, ArenaType
    <2>3. item \in Item /\ item.key = k /\ item.value = v
      BY <2>2 DEF Item
    <2> HIDE DEF item
    <2>4. Sound(b, map, order)
      BY <2>2, <2>3, <1>0, ReplaceSound
    <2>5. /\ ValuesOf(b, map) = [e EXCEPT ![k] = v]
          /\ KeysOf(b, order) = r
      BY <2>1, <2>3, <1>0, ReplaceRefines
    <2> HIDE DEF b
    <2>6. /\ ValuesOf(promote(b, idx), map) = ValuesOf(b, map)
          /\ KeysOf(promote(b, idx), ToFront(order, idx)) = ToFront(KeysOf(b, order), k)
      BY <2>1, <2>4, PromoteRefines
    <2>7. f = [e EXCEPT ![k] = v] /\ q = ToFront(r, k)
      BY <2>1, <2>5, <2>6
    <2>8. QED BY <2>1, <2>7, PolicyOps DEF Policy!Replace, ValuesOf, KeysOf
  <1>3. ASSUME NEW k \in Key, NEW v \in Value, Add(k, v) PROVE Policy!Add(k, v)
    <2> DEFINE kept == IF Cardinality(DOMAIN e) < Capacity THEN DOMAIN e
                       ELSE DOMAIN e \ {r[Len(r)]}
               left == IF Cardinality(DOMAIN e) < Capacity THEN r ELSE Without(r, r[Len(r)])
               idx == AllocIdx(RoomyArena)
    <2>1. /\ Sound(RoomyArena, RoomyMap, RoomyOrder)
          /\ Cardinality(DOMAIN RoomyMap) < Capacity
          /\ k \notin DOMAIN RoomyMap /\ k \notin DOMAIN map
      BY <1>0, <1>3, RoomSound DEF Add
    <2>2. /\ ValuesOf(RoomyArena, RoomyMap) = [x \in kept |-> e[x]]
          /\ DOMAIN RoomyMap = kept
          /\ KeysOf(RoomyArena, RoomyOrder) = left
      BY <1>0, RoomRefines
    <2>3. Policy!Kept = kept /\ Policy!KeptOrder = left
      <3>1. Policy!Cardinality(DOMAIN e) = Cardinality(DOMAIN e)
        BY PolicyOps
      <3>2. Policy!Kept = kept
        BY <3>1, Zenon DEF Policy!Kept, ValuesOf, KeysOf
      <3>3. Policy!Without(r, r[Len(r)]) = Without(r, r[Len(r)])
        BY PolicyOps
      <3>4. Policy!KeptOrder = IF Policy!Cardinality(DOMAIN e) < Capacity THEN r
                               ELSE Policy!Without(r, r[Len(r)])
        BY DEF Policy!KeptOrder, ValuesOf, KeysOf
      <3> HIDE DEF e, r
      <3>5. QED BY <3>1, <3>2, <3>3, <3>4
    <2> HIDE DEF kept, left
    <2>4. CASE /\ arena' = push_front(alloc(RoomyArena, [key |-> k, value |-> v]), idx)
               /\ map' = [x \in DOMAIN RoomyMap \cup {k} |->
                            IF x = k THEN idx ELSE RoomyMap[x]]
               /\ order' = Push(RoomyOrder, idx)
               /\ reply' = << "insert", "none", k >>
      <3>1. /\ f = [x \in DOMAIN RoomyMap \cup {k} |->
                      IF x = k THEN v ELSE ValuesOf(RoomyArena, RoomyMap)[x]]
            /\ q = Push(KeysOf(RoomyArena, RoomyOrder), k)
        BY <2>1, <2>4, InsertRefines
      <3>2. f = [x \in kept \cup {k} |-> IF x = k THEN v ELSE e[x]] /\ q = Push(left, k)
        BY <3>1, <2>2
      <3>3. QED BY <3>2, <2>1, <2>3, <2>4, PolicyOps DEF Policy!Add, ValuesOf, KeysOf
    <2>5. CASE /\ arena' = RoomyArena /\ map' = RoomyMap /\ order' = RoomyOrder
               /\ reply' = << "insert", "panicked", k >>
      <3>1. f = [x \in kept |-> e[x]] /\ q = left
        BY <2>2, <2>5
      <3>2. QED BY <3>1, <2>1, <2>3, <2>5 DEF Policy!Add, ValuesOf, KeysOf
    <2>6. QED BY <2>4, <2>5, <1>3 DEF Add
  <1>4. ASSUME NEW k \in Key, Remove(k) PROVE Policy!Remove(k)
    <2>1. CASE k \notin DOMAIN map
      <3>1. f = e /\ q = r /\ reply' = << "remove", "none", k >>
        BY <2>1, <1>4, <1>s DEF Remove
      <3>2. QED BY <3>1, <2>1 DEF Policy!Remove, ValuesOf, KeysOf
    <2>2. CASE k \in DOMAIN map
      <3>1. /\ map' = [x \in DOMAIN map \ {k} |-> map[x]]
            /\ arena' = dealloc(unlink(arena, map[k]), map[k])
            /\ order' = Without(order, map[k])
            /\ reply' = << "remove", "some", k, e[k] >>
        BY <2>2, <1>4, <1>a DEF Remove
      <3>2. f = [x \in DOMAIN e \ {k} |-> e[x]] /\ q = Without(r, k)
        BY <3>1, <2>2, <1>0, ReleaseRefines
      <3>3. QED BY <3>1, <3>2, <2>2, PolicyOps DEF Policy!Remove, ValuesOf, KeysOf
    <2>3. QED BY <2>1, <2>2
  <1>5. ASSUME NEW k \in Key, ContainsKey(k) PROVE Policy!ContainsKey(k)
    <2>1. f = e /\ q = r
      BY <1>5, <1>s DEF ContainsKey
    <2>2. reply' = << "contains_key", IF k \in DOMAIN e THEN "true" ELSE "false", k >>
      BY <1>5, <1>0 DEF ContainsKey
    <2>3. QED BY <2>1, <2>2 DEF Policy!ContainsKey, ValuesOf, KeysOf
  <1>6. ASSUME Size PROVE Policy!Size
    <2>1. f = e /\ q = r
      BY <1>6, <1>s DEF Size
    <2>2. reply' = << "len", "ok", Cardinality(DOMAIN e) >>
      BY <1>6, <1>0 DEF Size
    <2>3. QED BY <2>1, <2>2, PolicyOps DEF Policy!Size, ValuesOf, KeysOf
  <1>7. ASSUME Clear PROVE Policy!Clear
    <2>1. arena' = EmptyArena /\ map' = EmptyMap /\ order' = << >> /\ reply' = << "clear", "ok" >>
      BY <1>7 DEF Clear
    <2>2. f = EmptyMap /\ q = << >>
      BY <2>1 DEF ValuesOf, KeysOf, EmptyMap
    <2>3. QED BY <2>1, <2>2, PolicyOps DEF Policy!Clear, ValuesOf, KeysOf
  <1>8. ASSUME UNCHANGED vars PROVE UNCHANGED Policy!vars
    BY <1>8 DEF vars, Policy!vars
  <1>9. QED
    BY <1>1, <1>2, <1>3, <1>4, <1>5, <1>6, <1>7, <1>8 DEF Next, Policy!Next

\* An empty shard is an empty cache.
LEMMA InitRefines == Init => Policy!Init
  BY DEF Init, Policy!Init, EmptyMap, Policy!EmptyMap

\* An LRU shard, for all keys, values and capacities, behaves as LruPolicy says
\* with every reply it gives: insert evicts the least recently accessed entry,
\* reads and overwrites are accesses, and a panicking Clone loses nothing else.
THEOREM Refinement == Spec => ImplementsPolicy
  <1>1. IInv /\ [Next]_vars => [Policy!Next]_(Policy!vars)
    BY NextRefines
  <1>2. QED
    BY <1>1, InitRefines, Invariance, PTL DEF Spec, ImplementsPolicy, Policy!Spec
=============================================================================
