---------------------------- MODULE SizedProofs ----------------------------
(***************************************************************************)
(* SizedCache, for every set of keys and values, every weigher and every   *)
(* max_weight.  The list, the free stack and what insert stores stay in    *)
(* order even though the loop after an update leaves stale keys in the     *)
(* map; the weights add up as long as no sum of two of them saturates.     *)
(***************************************************************************)
EXTENDS SizedCache, ArenaProofs

\* An arena and an order that belong together, where every node carries the
\* weight of its value.
Sound(a, s) ==
  /\ ArenaType(a, Item) /\ s \in Seq(Slot)
  /\ InOrder(a, s) /\ FreeExact(a)
  /\ \A i \in Occupied(a) : a.nodes[i].item.weight = Weight[a.nodes[i].item.value]

WeightsOf(a) == [i \in Occupied(a) |-> a.nodes[i].item.weight]

\* What the nodes of an arena weigh together.
Heft(a) == SumFunctionOnSet(WeightsOf(a), Occupied(a))

\* StoredWeight is that sum.
LEMMA StoredIsHeft == StoredWeight = Heft(arena)
  BY DEF StoredWeight, Heft, WeightsOf, SumFunction

\* Finitely many slots are occupied, by nodes whose weights are numbers.
LEMMA HeftFacts ==
  ASSUME NEW a, NEW s, Sound(a, s)
  PROVE  /\ IsFiniteSet(Occupied(a)) /\ Heft(a) \in Nat
         /\ \A i \in Occupied(a) : WeightsOf(a)[i] = a.nodes[i].item.weight
         /\ \A i \in Occupied(a) : WeightsOf(a)[i] \in Nat
         /\ \A i \in Occupied(a) : WeightsOf(a)[i] <= Heft(a)
  <1>1. IsFiniteSet(Occupied(a))
    <2>1. a.slots \in Nat /\ Occupied(a) \subseteq 1..a.slots
      BY DEF Sound, ArenaType, FreeExact
    <2>2. IsFiniteSet(1..a.slots)
      BY <2>1, FS_Interval
    <2>3. QED BY <2>1, <2>2, FS_Subset
  <1>2. \A i \in Occupied(a) : /\ WeightsOf(a)[i] = a.nodes[i].item.weight
                               /\ WeightsOf(a)[i] \in Nat
    BY WeightAssumption DEF WeightsOf, Sound, ArenaType, Item
  <1>3. Heft(a) \in Nat
    BY <1>1, <1>2, SumNat DEF Heft
  <1>4. \A i \in Occupied(a) : WeightsOf(a)[i] <= Heft(a)
    BY <1>1, <1>2, SumAtLeast DEF Heft
  <1>5. QED BY <1>1, <1>2, <1>3, <1>4

\* A new cache is sound and weighs nothing, and so is one that was cleared.
LEMMA EmptyFacts == Sound(EmptyArena, << >>) /\ Heft(EmptyArena) = 0 /\ Occupied(EmptyArena) = {}
  <1> DEFINE a == EmptyArena
  <1>1. /\ Occupied(a) = {} /\ a.slots = 0 /\ a.free = << >>
        /\ a.head = None /\ a.tail = None
    BY DEF EmptyArena, Occupied, EmptyMap
  <1>2. << >> \in Seq(Slot) /\ Elements(<< >>) = {} /\ Injective(<< >>)
    BY DEF Elements, Injective
  <1>3. InOrder(a, << >>)
    BY <1>1, <1>2 DEF InOrder, Linked
  <1>4. FreeExact(a)
    BY <1>1, <1>2 DEF FreeExact
  <1>5. ArenaType(a, Item)
    BY <1>1, <1>2 DEF ArenaType, None
  <1>6. Heft(a) = 0
    BY <1>1, SumStep, FS_EmptySet DEF Heft
  <1>7. QED BY <1>1, <1>2, <1>3, <1>4, <1>5, <1>6 DEF Sound

\* A promotion weighs nothing.
LEMMA PromoteFacts ==
  ASSUME NEW a, NEW s, Sound(a, s), NEW idx \in Occupied(a)
  PROVE  LET b == promote(a, idx) IN
         /\ Sound(b, ToFront(s, idx)) /\ Heft(b) = Heft(a)
         /\ Occupied(b) = Occupied(a) /\ b.head = idx
         /\ \A i \in Occupied(a) : b.nodes[i].item = a.nodes[i].item
  <1> DEFINE b == promote(a, idx)
             t == ToFront(s, idx)
  <1>1. /\ t \in Seq(Slot) /\ InOrder(b, t)
        /\ Occupied(b) = Occupied(a) /\ b.slots = a.slots /\ b.free = a.free
        /\ \A i \in Occupied(a) : b.nodes[i].item = a.nodes[i].item
    BY PromoteInOrder DEF Sound
  <1>2. b.head = idx
    BY DEF promote, push_front
  <1> HIDE DEF b, t
  <1>3. ArenaType(b, Item)
    <2>1. b.slots \in Nat /\ b.free \in Seq(Slot) /\ \A i \in Occupied(b) : b.nodes[i].item \in Item
      BY <1>1 DEF Sound, ArenaType
    <2>2. QED BY <1>1, <2>1, InOrderType
  <1>4. FreeExact(b)
    BY <1>1 DEF Sound, FreeExact
  <1>5. Sound(b, t)
    BY <1>1, <1>3, <1>4 DEF Sound
  <1>6. WeightsOf(b) = WeightsOf(a)
    BY <1>1 DEF WeightsOf
  <1>7. Heft(b) = Heft(a)
    BY <1>1, <1>6 DEF Heft
  <1>8. QED BY <1>1, <1>2, <1>5, <1>7 DEF b, t

\* An item that is overwritten gives its weight for that of the new one.
LEMMA ReplaceFacts ==
  ASSUME NEW a, NEW s, Sound(a, s), NEW idx \in Occupied(a),
         NEW item \in Item, item.weight = Weight[item.value]
  PROVE  LET b == replace(a, idx, item) IN
         /\ Sound(b, s) /\ Heft(b) + a.nodes[idx].item.weight = Heft(a) + item.weight
         /\ Occupied(b) = Occupied(a)
         /\ \A i \in Occupied(a) :
              b.nodes[i].item = IF i = idx THEN item ELSE a.nodes[i].item
  <1> DEFINE b == replace(a, idx, item)
  <1>1. /\ InOrder(b, s)
        /\ Occupied(b) = Occupied(a) /\ b.slots = a.slots /\ b.free = a.free
        /\ \A i \in Occupied(a) :
              b.nodes[i].item = IF i = idx THEN item ELSE a.nodes[i].item
    BY ReplaceInOrder DEF Sound
  <1> HIDE DEF b
  <1>2. ArenaType(b, Item)
    <2>1. /\ s \in Seq(Slot) /\ b.slots \in Nat /\ b.free \in Seq(Slot)
          /\ \A i \in Occupied(b) : b.nodes[i].item \in Item
      BY <1>1 DEF Sound, ArenaType
    <2>2. QED BY <1>1, <2>1, InOrderType
  <1>3. FreeExact(b)
    BY <1>1 DEF Sound, FreeExact
  <1>4. Sound(b, s)
    BY <1>1, <1>2, <1>3 DEF Sound
  <1>5. Heft(b) + a.nodes[idx].item.weight = Heft(a) + item.weight
    <2> DEFINE f == WeightsOf(a)
               g == WeightsOf(b)
               S == Occupied(a)
    <2>1. IsFiniteSet(S) /\ \A i \in S : f[i] \in Nat /\ g[i] \in Nat
      BY <1>1, <1>4, HeftFacts
    <2>2. \A i \in S \ {idx} : f[i] = g[i]
      BY <1>1 DEF WeightsOf
    <2>3. f[idx] = a.nodes[idx].item.weight /\ g[idx] = item.weight
      BY <1>1 DEF WeightsOf
    <2>4. Heft(a) = SumFunctionOnSet(f, S) /\ Heft(b) = SumFunctionOnSet(g, S)
      BY <1>1 DEF Heft
    <2> HIDE DEF f, g, S
    <2>5. SumFunctionOnSet(g, S) + f[idx] = SumFunctionOnSet(f, S) + g[idx]
      <3>1. idx \in S
        BY DEF S
      <3>2. QED BY <2>1, <2>2, <3>1, SumChange
    <2>6. QED BY <2>3, <2>4, <2>5
  <1>6. QED BY <1>1, <1>4, <1>5 DEF b

\* A released node takes its weight along.
LEMMA ReleaseFacts ==
  ASSUME NEW a, NEW s, Sound(a, s), NEW idx \in Occupied(a)
  PROVE  LET b == dealloc(unlink(a, idx), idx) IN
         /\ Sound(b, Without(s, idx)) /\ Heft(a) = Heft(b) + a.nodes[idx].item.weight
         /\ Occupied(b) = Occupied(a) \ {idx}
         /\ \A i \in Occupied(b) : b.nodes[i].item = a.nodes[i].item
  <1> DEFINE b == dealloc(unlink(a, idx), idx)
             t == Without(s, idx)
  <1>1. /\ t \in Seq(Slot) /\ InOrder(b, t) /\ Occupied(b) = Occupied(a) \ {idx}
        /\ b.slots = a.slots /\ b.free \in Seq(Slot) /\ FreeExact(b)
        /\ \A i \in Occupied(b) : b.nodes[i].item = a.nodes[i].item
    BY ReleaseInOrder DEF Sound, ArenaType
  <1> HIDE DEF b, t
  <1>2. ArenaType(b, Item)
    <2>1. b.slots \in Nat /\ \A i \in Occupied(b) : b.nodes[i].item \in Item
      BY <1>1 DEF Sound, ArenaType
    <2>2. QED BY <1>1, <2>1, InOrderType
  <1>3. Sound(b, t)
    BY <1>1, <1>2 DEF Sound
  <1>4. Heft(a) = Heft(b) + a.nodes[idx].item.weight
    <2> DEFINE f == WeightsOf(a)
               g == WeightsOf(b)
               S == Occupied(a)
               T == S \ {idx}
    <2>1. IsFiniteSet(S) /\ \A i \in S : f[i] \in Nat
      BY HeftFacts
    <2>2. \A i \in T : f[i] = g[i]
      BY <1>1 DEF WeightsOf
    <2>3. f[idx] = a.nodes[idx].item.weight
      BY DEF WeightsOf
    <2>4. Heft(a) = SumFunctionOnSet(f, S) /\ Heft(b) = SumFunctionOnSet(g, T)
      BY <1>1 DEF Heft
    <2>5. IsFiniteSet(T)
      BY <2>1, FS_RemoveElement
    <2> HIDE DEF f, g
    <2>6. SumFunctionOnSet(f, S) = f[idx] + SumFunctionOnSet(f, T)
      BY <2>1, SumRemove
    <2> HIDE DEF T
    <2>7. SumFunctionOnSet(f, T) = SumFunctionOnSet(g, T)
      BY <2>2, <2>5, SumSame
    <2>8. Heft(b) \in Nat /\ f[idx] \in Nat
      BY <1>3, <2>1, HeftFacts
    <2>9. QED BY <2>3, <2>4, <2>6, <2>7, <2>8
  <1>5. QED BY <1>1, <1>3, <1>4 DEF b, t

\* A new node adds its weight.
LEMMA InsertFacts ==
  ASSUME NEW a, NEW s, Sound(a, s), NEW item \in Item, item.weight = Weight[item.value]
  PROVE  LET idx == AllocIdx(a)
             b == push_front(alloc(a, item), idx)
         IN  /\ Sound(b, Push(s, idx)) /\ Heft(b) = Heft(a) + item.weight
             /\ idx \in Slot /\ idx \notin Occupied(a) /\ b.head = idx
             /\ Occupied(b) = Occupied(a) \cup {idx} /\ b.nodes[idx].item = item
             /\ \A i \in Occupied(a) : b.nodes[i].item = a.nodes[i].item
  <1> DEFINE idx == AllocIdx(a)
             b == push_front(alloc(a, item), idx)
             t == Push(s, idx)
  <1>1. /\ idx \in Slot /\ idx \notin Occupied(a)
        /\ t \in Seq(Slot) /\ InOrder(b, t) /\ Occupied(b) = Occupied(a) \cup {idx}
        /\ b.slots = IF a.free = << >> THEN a.slots + 1 ELSE a.slots
        /\ b.free \in Seq(Slot) /\ FreeExact(b)
        /\ b.nodes[idx].item = item
        /\ \A i \in Occupied(a) : b.nodes[i].item = a.nodes[i].item
    BY InsertInOrder DEF Sound, ArenaType
  <1>0. b.head = idx
    BY DEF push_front
  <1> HIDE DEF b, t, idx
  <1>2. ArenaType(b, Item)
    <2>1. b.slots \in Nat /\ \A i \in Occupied(b) : b.nodes[i].item \in Item
      BY <1>1 DEF Sound, ArenaType
    <2>2. QED BY <1>1, <2>1, InOrderType
  <1>3. Sound(b, t)
    BY <1>1, <1>2 DEF Sound
  <1>4. Heft(b) = Heft(a) + item.weight
    <2> DEFINE f == WeightsOf(a)
               g == WeightsOf(b)
               S == Occupied(a)
               T == Occupied(b)
    <2>1. IsFiniteSet(S) /\ IsFiniteSet(T) /\ \A i \in T : g[i] \in Nat
      BY <1>3, HeftFacts
    <2>2. \A i \in S : f[i] = g[i]
      BY <1>1 DEF WeightsOf
    <2>3. g[idx] = item.weight /\ T \ {idx} = S /\ idx \in T
      BY <1>1 DEF WeightsOf
    <2>4. Heft(a) = SumFunctionOnSet(f, S) /\ Heft(b) = SumFunctionOnSet(g, T)
      BY DEF Heft
    <2> HIDE DEF f, g, S, T
    <2>5. SumFunctionOnSet(g, T) = g[idx] + SumFunctionOnSet(g, S)
      <3> DEFINE U == T \ {idx}
      <3>1. SumFunctionOnSet(g, T) = g[idx] + SumFunctionOnSet(g, U)
        BY <2>1, <2>3, SumRemove
      <3>2. U = S
        BY <2>3
      <3> HIDE DEF U
      <3>3. QED BY <3>1, <3>2
    <2>6. SumFunctionOnSet(f, S) = SumFunctionOnSet(g, S)
      BY <2>1, <2>2, SumSame
    <2>7. Heft(a) \in Nat /\ g[idx] \in Nat
      BY <2>1, <2>3, HeftFacts
    <2>8. QED BY <2>3, <2>4, <2>5, <2>6, <2>7
  <1>5. QED BY <1>0, <1>1, <1>3, <1>4 DEF b, t, idx

\* The two ends of a list that is not empty.
LEMMA EndsFacts ==
  ASSUME NEW a, NEW s, Sound(a, s)
  PROVE  /\ a.tail # None => /\ Len(s) # 0 /\ a.tail \in Occupied(a) /\ a.head \in Occupied(a)
                             /\ a.head = s[1] /\ a.tail = s[Len(s)]
         /\ a.tail = None => Occupied(a) = {}
         /\ a.head # None <=> a.tail # None
         /\ \A i \in Occupied(a) : a.head = a.tail => i = a.head
  <1>1. /\ s \in Seq(Slot) /\ Injective(s) /\ Elements(s) = Occupied(a) /\ Len(s) \in Nat
        /\ a.head = IF Len(s) = 0 THEN None ELSE s[1]
        /\ a.tail = IF Len(s) = 0 THEN None ELSE s[Len(s)]
    BY DEF Sound, InOrder, Linked
  <1>2. \A p \in 1..Len(s) : s[p] \in Occupied(a) /\ s[p] # None
    BY <1>1 DEF Elements, Slot, None
  <1>3. CASE Len(s) = 0
    BY <1>1, <1>3 DEF Elements
  <1>4. CASE Len(s) # 0
    <2>1. 1 \in 1..Len(s) /\ Len(s) \in 1..Len(s)
      BY <1>1, <1>4
    <2>2. ASSUME NEW i \in Occupied(a), a.head = a.tail PROVE i = a.head
      <3>1. PICK p \in 1..Len(s) : s[p] = i
        BY <1>1 DEF Elements
      <3>2. Len(s) = 1
        BY <1>1, <1>4, <2>1, <2>2 DEF Injective
      <3>3. QED BY <3>1, <3>2, <1>1, <1>4
    <2>3. QED BY <1>1, <1>2, <1>4, <2>1, <2>2
  <1>5. QED BY <1>3, <1>4

\* Evicting the tail drops the end of the order and leaves the head where it is,
\* unless it is the tail.
LEMMA TailFacts ==
  ASSUME NEW a, NEW s, Sound(a, s), a.tail # None
  PROVE  LET b == dealloc(unlink(a, a.tail), a.tail) IN
         /\ Without(s, a.tail) = SubSeq(s, 1, Len(s) - 1)
         /\ a.head # a.tail => b.head = a.head
  <1> DEFINE b == dealloc(unlink(a, a.tail), a.tail)
             n == Len(s)
             t == Without(s, a.tail)
  <1>1. /\ n # 0 /\ n \in Nat /\ a.head = s[1] /\ a.tail = s[n] /\ a.tail \in Occupied(a)
        /\ s \in Seq(Slot) /\ Injective(s)
    BY EndsFacts DEF Sound, InOrder
  <1>2. n \in 1..n
    BY <1>1
  <1>3. t = [p \in 1..(n - 1) |-> IF p < n THEN s[p] ELSE s[p + 1]]
    BY <1>1, <1>2, WithoutAt
  <1>4. t = [p \in 1..(n - 1) |-> s[p]]
    BY <1>1, <1>3
  <1>5. SubSeq(s, 1, n - 1) = [p \in 1..(n - 1) |-> s[p]]
    BY <1>1
  <1>6. ASSUME a.head # a.tail PROVE b.head = a.head
    <2>1. Sound(b, t)
      BY <1>1, ReleaseFacts
    <2>2. n > 1
      BY <1>1, <1>6
    <2>3. Len(t) = n - 1 /\ t[1] = s[1]
      BY <1>1, <1>4, <2>2
    <2>4. b.head = IF Len(t) = 0 THEN None ELSE t[1]
      BY <2>1 DEF Sound, InOrder, Linked
    <2>5. QED BY <1>1, <2>2, <2>3, <2>4
  <1>7. QED BY <1>4, <1>5, <1>6
-----------------------------------------------------------------------------
\* The key leads to the head of the list, and the head holds the value.
AtHead(k, v) ==
  /\ k \in DOMAIN map /\ map[k] = arena.head /\ arena.head \in Occupied(arena)
  /\ arena.nodes[arena.head].item.value = v

\* What an insert under way has established.
CallInv ==
  \/ call = Idle
  \/ /\ call.op = "new" /\ call.key \in Key \ DOMAIN map
     /\ call.value \in Value /\ Fits(call.value)
  \/ /\ call.op = "update" /\ call.key \in Key /\ AtHead(call.key, call.value)
     /\ call.value \in Value /\ Fits(call.value)

(***************************************************************************)
(* total is at most the weight of the linked nodes: a sum that saturates   *)
(* only makes it too low.  That is what keeps the loop after an update     *)
(* from evicting the entry it has just stored: when nothing else is left,  *)
(* total is no more than the weight of that entry, which fits.             *)
(***************************************************************************)
TotalInv == total \in 0..UsizeMax /\ total <= Heft(arena)

MapType == DOMAIN map \subseteq Key /\ \A k \in DOMAIN map : map[k] \in Slot

IInv ==
  /\ Sound(arena, order) /\ MapType /\ NodesMapped
  /\ CallInv /\ TotalInv /\ StoredSurvives

\* Idle is no insert under way.
LEMMA IdleOp == Idle.op = "idle"
  BY DEF Idle

\* A saturating sum or difference is a usize and no more than the exact one.
LEMMA SatFacts ==
  ASSUME NEW x \in 0..UsizeMax, NEW y \in 0..UsizeMax
  PROVE  /\ SatAdd(x, y) \in 0..UsizeMax /\ SatAdd(x, y) <= x + y
         /\ SatSub(x, y) \in 0..UsizeMax /\ SatSub(x, y) = IF y > x THEN 0 ELSE x - y
         /\ x + y <= UsizeMax => SatAdd(x, y) = x + y
  BY WeightAssumption DEF SatAdd, SatSub

\* A total that is at most what is stored stays so when a weight comes off, and
\* when one weight replaces another.
LEMMA SatBounds ==
  ASSUME NEW x \in 0..UsizeMax, NEW y \in 0..UsizeMax, NEW z \in 0..UsizeMax,
         NEW h \in Nat, NEW g \in Nat, x <= h
  PROVE  /\ h = g + z => SatSub(x, z) <= g
         /\ g + z = h + y => SatSub(SatAdd(x, y), z) <= g
  <1>1. h = g + z => SatSub(x, z) <= g
    BY WeightAssumption DEF SatSub
  <1>2. g + z = h + y => SatSub(SatAdd(x, y), z) <= g
    BY WeightAssumption DEF SatSub, SatAdd
  <1>3. QED BY <1>1, <1>2

\* The invariant holds of a new cache.
LEMMA InitIInv == Init => IInv
  <1> SUFFICES ASSUME Init PROVE IInv
    OBVIOUS
  <1>1. Sound(arena, order) /\ Heft(arena) = 0 /\ Occupied(arena) = {}
    BY EmptyFacts DEF Init
  <1>2. MapType /\ NodesMapped
    BY <1>1 DEF Init, MapType, NodesMapped, EmptyMap
  <1>3. CallInv /\ StoredSurvives
    BY DEF Init, CallInv, StoredSurvives
  <1>4. TotalInv
    BY <1>1, WeightAssumption DEF Init, TotalInv
  <1>5. QED BY <1>1, <1>2, <1>3, <1>4 DEF IInv

\* The weight of an occupied slot is a usize.
LEMMA NodeWeight ==
  ASSUME NEW a, NEW s, Sound(a, s), NEW i \in Occupied(a)
  PROVE  /\ a.nodes[i].item \in Item /\ a.nodes[i].item.weight \in 0..UsizeMax
         /\ a.nodes[i].item.weight <= Heft(a) /\ Heft(a) \in Nat
  <1>1. a.nodes[i].item \in Item
    BY DEF Sound, ArenaType
  <1>2. WeightsOf(a)[i] = a.nodes[i].item.weight /\ WeightsOf(a)[i] <= Heft(a) /\ Heft(a) \in Nat
    BY HeftFacts
  <1>3. QED BY <1>1, <1>2 DEF Item

\* A node that goes, with or without the key that led to it, leaves a list in
\* order whose total is still no more than it weighs.
LEMMA EvictFacts ==
  ASSUME IInv, NEW i \in Occupied(arena), Evict(i)
  PROVE  /\ Sound(arena', order') /\ TotalInv'
         /\ Occupied(arena') = Occupied(arena) \ {i}
         /\ \A j \in Occupied(arena') : arena'.nodes[j].item = arena.nodes[j].item
         /\ Heft(arena) = Heft(arena') + arena.nodes[i].item.weight
         /\ total' = SatSub(total, arena.nodes[i].item.weight)
  <1> DEFINE w == arena.nodes[i].item.weight
  <1>1. /\ arena' = dealloc(unlink(arena, i), i) /\ order' = Without(order, i)
        /\ total' = SatSub(total, w)
    BY DEF Evict, Detached, Lightened
  <1>2. /\ Sound(arena', order') /\ Heft(arena) = Heft(arena') + w
        /\ Occupied(arena') = Occupied(arena) \ {i}
        /\ \A j \in Occupied(arena') : arena'.nodes[j].item = arena.nodes[j].item
    BY <1>1, ReleaseFacts DEF IInv
  <1>3. w \in 0..UsizeMax /\ Heft(arena) \in Nat /\ Heft(arena') \in Nat
    BY <1>2, NodeWeight, HeftFacts DEF IInv
  <1>4. total \in 0..UsizeMax /\ total <= Heft(arena)
    BY DEF IInv, TotalInv
  <1> HIDE DEF w
  <1>5. total' \in 0..UsizeMax /\ total' <= Heft(arena')
    <2>1. total' \in 0..UsizeMax
      BY <1>1, <1>3, <1>4, SatFacts
    <2>2. SatSub(total, w) <= Heft(arena')
      BY <1>2, <1>3, <1>4, SatBounds
    <2>3. QED BY <1>1, <2>1, <2>2
  <1>6. TotalInv'
    BY <1>5 DEF TotalInv
  <1>7. QED BY <1>1, <1>2, <1>6 DEF w

\* What a step leaves alone of the invariant when it only answers.
LEMMA Unmoved ==
  ASSUME IInv, UNCHANGED << arena, map, total, order >>
  PROVE  Sound(arena', order') /\ MapType' /\ NodesMapped' /\ TotalInv'
  <1>1. Sound(arena', order')
    BY DEF IInv
  <1>2. MapType' /\ NodesMapped'
    BY DEF IInv, MapType, NodesMapped
  <1>3. Heft(arena') = Heft(arena)
    OBVIOUS
  <1>4. TotalInv'
    BY <1>3 DEF IInv, TotalInv
  <1>5. QED BY <1>1, <1>2, <1>4

\* A promotion leaves every key where it was.
LEMMA PromoteStep ==
  ASSUME IInv, NEW i \in Occupied(arena), arena' = promote(arena, i),
         order' = ToFront(order, i), UNCHANGED << map, total >>
  PROVE  Sound(arena', order') /\ MapType' /\ NodesMapped' /\ TotalInv'
  <1>1. /\ Sound(arena', order') /\ Heft(arena') = Heft(arena)
        /\ Occupied(arena') = Occupied(arena)
        /\ \A j \in Occupied(arena) : arena'.nodes[j].item = arena.nodes[j].item
    BY PromoteFacts DEF IInv
  <1>2. MapType' /\ NodesMapped'
    BY <1>1 DEF IInv, MapType, NodesMapped
  <1>3. TotalInv'
    BY <1>1 DEF IInv, TotalInv
  <1>4. QED BY <1>1, <1>2, <1>3

\* get promotes whatever node the key leads to, its own or, when the key is
\* stale, that of another key.
LEMMA GetInv ==
  ASSUME IInv, NEW k \in Key, Get(k)
  PROVE  IInv'
  <1>1. CallInv' /\ StoredSurvives'
    BY DEF Get, CallInv, StoredSurvives
  <1>2. CASE UNCHANGED << arena, order >>
    BY <1>1, <1>2, Unmoved DEF Get, IInv
  <1>3. CASE /\ k \in DOMAIN map /\ map[k] \in Occupied(arena)
             /\ arena' = promote(arena, map[k])
             /\ order' = ToFront(order, map[k])
    <2>1. UNCHANGED << map, total >>
      BY DEF Get
    <2>2. Sound(arena', order') /\ MapType' /\ NodesMapped' /\ TotalInv'
      BY <1>3, <2>1, PromoteStep
    <2>3. QED BY <1>1, <2>2 DEF IInv
  <1>4. QED BY <1>2, <1>3 DEF Get

\* What an update does to the list: the node comes to the front, keeps its key
\* and changes its value and its weight.
LEMMA UpdateFacts ==
  ASSUME NEW a, NEW s, Sound(a, s), NEW i \in Occupied(a), NEW v \in Value
  PROVE  LET old == a.nodes[i].item
             b == promote(replace(a, i, [key |-> old.key, value |-> v,
                                         weight |-> Weight[v]]), i)
         IN  /\ Sound(b, ToFront(s, i)) /\ Heft(b) + old.weight = Heft(a) + Weight[v]
             /\ Occupied(b) = Occupied(a) /\ b.head = i /\ b.nodes[i].item.value = v
             /\ \A j \in Occupied(a) : b.nodes[j].item.key = a.nodes[j].item.key
  <1> DEFINE old == a.nodes[i].item
             item == [key |-> old.key, value |-> v, weight |-> Weight[v]]
             mid == replace(a, i, item)
             b == promote(mid, i)
  <1>1. old \in Item /\ Weight[v] \in 0..UsizeMax
    BY NodeWeight, WeightAssumption
  <1>2. /\ item \in Item /\ item.weight = Weight[item.value] /\ item.weight = Weight[v]
        /\ item.key = old.key /\ item.value = v
    BY <1>1 DEF Item
  <1> HIDE DEF item
  <1>3. /\ Sound(mid, s) /\ Heft(mid) + old.weight = Heft(a) + item.weight
        /\ Occupied(mid) = Occupied(a)
        /\ \A j \in Occupied(a) : mid.nodes[j].item = IF j = i THEN item ELSE a.nodes[j].item
    BY <1>2, ReplaceFacts
  <1> HIDE DEF mid
  <1>4. /\ Sound(b, ToFront(s, i)) /\ Heft(b) = Heft(mid)
        /\ Occupied(b) = Occupied(a) /\ b.head = i
        /\ \A j \in Occupied(a) : b.nodes[j].item = mid.nodes[j].item
    BY <1>3, PromoteFacts
  <1> HIDE DEF b
  <1>5. Heft(b) + old.weight = Heft(a) + Weight[v]
    BY <1>2, <1>3, <1>4
  <1>6. b.nodes[i].item.value = v
    BY <1>2, <1>3, <1>4
  <1>7. \A j \in Occupied(a) : b.nodes[j].item.key = a.nodes[j].item.key
    BY <1>2, <1>3, <1>4
  <1>8. QED BY <1>4, <1>5, <1>6, <1>7 DEF b, mid, item

\* An update puts the node in front with its new value and weight.
LEMMA UpdateInv ==
  ASSUME IInv, NEW k \in Key, NEW v \in Value, Update(k, v)
  PROVE  IInv'
  <1>1. CASE /\ map[k] \notin Occupied(arena)
             /\ reply' = << "insert", "unreachable", k >>
             /\ UNCHANGED << arena, total, call, order >>
    <2>1. UNCHANGED map /\ call = Idle
      BY DEF Update
    <2>2. CallInv' /\ StoredSurvives'
      BY <1>1, <2>1 DEF CallInv, StoredSurvives
    <2>3. QED BY <1>1, <2>1, <2>2, Unmoved DEF IInv
  <1>2. CASE map[k] \in Occupied(arena)
    <2> DEFINE idx == map[k]
               old == arena.nodes[idx].item
               b == promote(replace(arena, idx, [key |-> old.key, value |-> v,
                                                 weight |-> Weight[v]]), idx)
    <2>1. /\ arena' = b /\ order' = ToFront(order, idx)
          /\ total' = SatSub(SatAdd(total, Weight[v]), old.weight)
          /\ call' = [op |-> "update", key |-> k, value |-> v, old |-> old.value]
          /\ map' = map /\ k \in DOMAIN map /\ Fits(v)
      BY <1>2 DEF Update
    <2>2. idx \in Occupied(arena) /\ Sound(arena, order)
      BY <1>2 DEF IInv
    <2>3. old.weight \in 0..UsizeMax /\ Heft(arena) \in Nat /\ Weight[v] \in 0..UsizeMax
      BY <2>2, NodeWeight, WeightAssumption
    <2> HIDE DEF idx
    <2>4. /\ Sound(b, ToFront(order, idx)) /\ Heft(b) + old.weight = Heft(arena) + Weight[v]
          /\ Occupied(b) = Occupied(arena) /\ b.head = idx /\ b.nodes[idx].item.value = v
          /\ \A j \in Occupied(arena) : b.nodes[j].item.key = arena.nodes[j].item.key
      BY <2>2, UpdateFacts
    <2> HIDE DEF b
    <2>7. Sound(arena', order')
      BY <2>1, <2>4
    <2>8. MapType'
      BY <2>1 DEF IInv, MapType
    <2>9. NodesMapped'
      BY <2>1, <2>4 DEF IInv, NodesMapped
    <2>10. TotalInv'
      <3>0. total \in 0..UsizeMax /\ total <= Heft(arena)
        BY DEF IInv, TotalInv
      <3> DEFINE w == Weight[v]
                 z == old.weight
                 h == Heft(arena)
                 g == Heft(arena')
      <3>1. z \in 0..UsizeMax /\ w \in 0..UsizeMax /\ h \in Nat
        BY <2>3
      <3>2. g \in Nat
        BY <2>7, HeftFacts
      <3>3. g + z = h + w /\ total <= h /\ total' = SatSub(SatAdd(total, w), z)
        BY <2>1, <2>4, <3>0
      <3> HIDE DEF w, z, h, g
      <3>4. SatSub(SatAdd(total, w), z) <= g
        BY <3>0, <3>1, <3>2, <3>3, SatBounds
      <3>5. SatAdd(total, w) \in 0..UsizeMax
        BY <3>0, <3>1, SatFacts
      <3>6. SatSub(SatAdd(total, w), z) \in 0..UsizeMax
        BY <3>1, <3>5, SatFacts
      <3>7. total' \in 0..UsizeMax /\ total' <= g
        BY <3>3, <3>4, <3>6
      <3>8. QED BY <3>7 DEF TotalInv, g
    <2>11. CallInv'
      <3>1. AtHead(k, v)'
        BY <2>1, <2>2, <2>4 DEF AtHead, idx
      <3>2. call'.op = "update" /\ call'.key = k /\ call'.value = v
        BY <2>1
      <3>3. Fits(v)
        BY <2>1
      <3>4. AtHead(call.key, call.value)'
        BY <3>1, <3>2 DEF AtHead
      <3>5. QED BY <3>2, <3>3, <3>4 DEF CallInv, Fits
    <2>12. StoredSurvives'
      <3>1. call'.op = "update"
        BY <2>1
      <3>2. call' # Idle
        BY <3>1, IdleOp
      <3>3. QED BY <3>2 DEF StoredSurvives, Idle
    <2>13. QED BY <2>7, <2>8, <2>9, <2>10, <2>11, <2>12 DEF IInv
  <1>3. QED BY <1>1, <1>2 DEF Update

\* An arena without nodes weighs nothing.
LEMMA NothingWeighs ==
  ASSUME NEW a, Occupied(a) = {}
  PROVE  Heft(a) = 0
  BY SumStep, FS_EmptySet DEF Heft

\* The loop after an update never reaches the entry just stored: were it the
\* only one left, it would fit.
LEMMA HeadIsSafe ==
  ASSUME IInv, call.op = "update", total > MaxWeight, arena.tail # None
  PROVE  arena.head # arena.tail
  <1> SUFFICES ASSUME arena.head = arena.tail PROVE FALSE
    OBVIOUS
  <1> DEFINE i == arena.head
             b == dealloc(unlink(arena, i), i)
  <1>1. Sound(arena, order) /\ AtHead(call.key, call.value) /\ Fits(call.value) /\ call.value \in Value
    BY IdleOp DEF IInv, CallInv
  <1>2. i \in Occupied(arena) /\ \A j \in Occupied(arena) : j = i
    BY <1>1, EndsFacts
  <1>3. Occupied(b) = Occupied(arena) \ {i} /\ Heft(arena) = Heft(b) + arena.nodes[i].item.weight
    BY <1>1, <1>2, ReleaseFacts
  <1>4. arena.nodes[i].item.weight = Weight[call.value]
    BY <1>1, <1>2 DEF Sound, AtHead
  <1> HIDE DEF b, i
  <1>5. Heft(b) = 0
    BY <1>2, <1>3, NothingWeighs
  <1>6. Weight[call.value] \in Nat /\ Weight[call.value] <= MaxWeight
    BY <1>1, WeightAssumption DEF Fits
  <1>7. Heft(arena) <= MaxWeight /\ Heft(arena) \in Nat
    BY <1>3, <1>4, <1>5, <1>6
  <1>8. total \in 0..UsizeMax /\ total <= Heft(arena)
    BY DEF IInv, TotalInv
  <1>9. QED BY <1>7, <1>8, WeightAssumption

\* A turn of the loop after an update: the key of the evicted node stays mapped,
\* the one just stored keeps the head.
LEMMA UpdateEvictInv ==
  ASSUME IInv, UpdateEvict
  PROVE  IInv'
  <1> DEFINE t == arena.tail
  <1>1. t # None /\ Evict(t) /\ map' = map /\ call' = call /\ reply' = reply
    BY DEF UpdateEvict, evict_tail, Evict
  <1>2. Sound(arena, order) /\ call.op = "update" /\ total > MaxWeight
    BY DEF IInv, UpdateEvict
  <1>3. t \in Occupied(arena) /\ arena.head \in Occupied(arena)
    BY <1>1, <1>2, EndsFacts
  <1>4. arena.head # t
    BY <1>1, <1>2, HeadIsSafe
  <1>5. /\ Sound(arena', order') /\ TotalInv' /\ Occupied(arena') = Occupied(arena) \ {t}
        /\ \A j \in Occupied(arena') : arena'.nodes[j].item = arena.nodes[j].item
    BY <1>1, <1>3, EvictFacts
  <1>6. arena'.head = arena.head
    <2>1. arena' = dealloc(unlink(arena, t), t)
      BY <1>1 DEF Evict, Detached
    <2>2. QED BY <1>1, <1>2, <1>4, <2>1, TailFacts
  <1> HIDE DEF t
  <1>7. MapType' /\ NodesMapped'
    BY <1>1, <1>5 DEF IInv, MapType, NodesMapped
  <1>8. CallInv'
    <2>1. AtHead(call.key, call.value) /\ call.key \in Key /\ call.value \in Value /\ Fits(call.value)
      BY <1>2, IdleOp DEF IInv, CallInv
    <2>2. AtHead(call.key, call.value)'
      BY <1>1, <1>3, <1>4, <1>5, <1>6, <2>1 DEF AtHead
    <2>3. QED BY <1>1, <1>2, <2>1, <2>2 DEF CallInv, Fits
  <1>9. StoredSurvives'
    BY <1>1, <1>2, IdleOp DEF StoredSurvives, Idle
  <1>10. QED BY <1>5, <1>7, <1>8, <1>9 DEF IInv

\* A turn of the loop that makes room: the node goes with its key.
LEMMA NewEvictInv ==
  ASSUME IInv, NewEvict
  PROVE  IInv'
  <1> DEFINE t == arena.tail
  <1>1. /\ t # None /\ Evict(t) /\ call' = call
        /\ map' = [k \in DOMAIN map \ {arena.nodes[t].item.key} |-> map[k]]
    BY DEF NewEvict, evict_tail, Evict
  <1>2. Sound(arena, order) /\ call.op = "new"
    BY DEF IInv, NewEvict
  <1>3. t \in Occupied(arena)
    BY <1>1, <1>2, EndsFacts
  <1>4. /\ Sound(arena', order') /\ TotalInv' /\ Occupied(arena') = Occupied(arena) \ {t}
        /\ \A j \in Occupied(arena') : arena'.nodes[j].item = arena.nodes[j].item
    BY <1>1, <1>3, EvictFacts
  <1> HIDE DEF t
  <1>5. MapType'
    BY <1>1 DEF IInv, MapType
  <1>6. NodesMapped'
    BY <1>1, <1>3, <1>4 DEF IInv, NodesMapped
  <1>7. CallInv' /\ StoredSurvives'
    <2>1. call.key \in Key \ DOMAIN map /\ call.value \in Value /\ Fits(call.value)
      BY <1>2, IdleOp DEF IInv, CallInv
    <2>2. CallInv'
      BY <1>1, <1>2, <2>1 DEF CallInv, Fits
    <2>3. StoredSurvives'
      BY <1>1, <1>2, IdleOp DEF StoredSurvives, Idle
    <2>4. QED BY <2>2, <2>3
  <1>8. QED BY <1>4, <1>5, <1>6, <1>7 DEF IInv

\* An update returns with its entry at the head.
LEMMA UpdateReturnInv ==
  ASSUME IInv, UpdateReturn
  PROVE  IInv'
  <1>1. /\ call.op = "update" /\ call' = Idle /\ UNCHANGED << arena, map, total, order >>
        /\ reply' = << "insert", "some", call.key, call.value, call.old >>
    BY DEF UpdateReturn
  <1>2. AtHead(call.key, call.value)
    BY <1>1, IdleOp DEF IInv, CallInv
  <1>3. StoredSurvives'
    BY <1>1, <1>2 DEF StoredSurvives, AtHead
  <1>4. CallInv'
    BY <1>1 DEF CallInv, Idle
  <1>5. QED BY <1>1, <1>3, <1>4, Unmoved DEF IInv

\* An insert of a new key returns with a fresh node at the head, or leaves
\* everything as the loop left it.
LEMMA NewReturnInv ==
  ASSUME IInv, NewReturn
  PROVE  IInv'
  <1>1. CASE /\ reply' = << "insert", "panicked", call.key >>
             /\ UNCHANGED << arena, map, total, order >>
    <2>1. CallInv' /\ StoredSurvives'
      BY <1>1 DEF NewReturn, CallInv, StoredSurvives, Idle
    <2>2. QED BY <1>1, <2>1, Unmoved DEF IInv
  <1>2. CASE reply' # << "insert", "panicked", call.key >>
    <2> DEFINE idx == AllocIdx(arena)
               item == [key |-> call.key, value |-> call.value, weight |-> Weight[call.value]]
    <2>1. /\ arena' = push_front(alloc(arena, item), idx)
          /\ map' = [x \in DOMAIN map \cup {call.key} |-> IF x = call.key THEN idx ELSE map[x]]
          /\ total' = SatAdd(total, Weight[call.value]) /\ order' = Push(order, idx)
          /\ reply' = << "insert", "none", call.key, call.value >>
          /\ call' = Idle /\ call.op = "new"
      BY <1>2 DEF NewReturn
    <2>2. call.key \in Key \ DOMAIN map /\ call.value \in Value
      BY <2>1, IdleOp DEF IInv, CallInv
    <2>3. Weight[call.value] \in 0..UsizeMax /\ item \in Item
      BY <2>2, WeightAssumption DEF Item
    <2>4. /\ item.weight = Weight[item.value] /\ item.key = call.key /\ item.value = call.value
          /\ item.weight = Weight[call.value]
      OBVIOUS
    <2> HIDE DEF item, idx
    <2>5. /\ Sound(arena', order') /\ Heft(arena') = Heft(arena) + item.weight
          /\ idx \in Slot /\ idx \notin Occupied(arena) /\ arena'.head = idx
          /\ Occupied(arena') = Occupied(arena) \cup {idx} /\ arena'.nodes[idx].item = item
          /\ \A i \in Occupied(arena) : arena'.nodes[i].item = arena.nodes[i].item
      BY <2>1, <2>3, <2>4, InsertFacts DEF IInv, idx
    <2>6. MapType'
      BY <2>1, <2>2, <2>5 DEF IInv, MapType
    <2>7. NodesMapped'
      BY <2>1, <2>2, <2>4, <2>5 DEF IInv, NodesMapped
    <2>8. CallInv'
      BY <2>1 DEF CallInv, Idle
    <2>9. TotalInv'
      <3>1. /\ total \in 0..UsizeMax /\ total <= Heft(arena) /\ Heft(arena) \in Nat
        BY HeftFacts DEF IInv, TotalInv
      <3>2. total' \in 0..UsizeMax /\ total' <= total + Weight[call.value]
        BY <2>1, <2>3, <3>1, SatFacts
      <3>3. Heft(arena') = Heft(arena) + Weight[call.value]
        BY <2>4, <2>5
      <3>4. total' <= Heft(arena')
        BY <2>3, <3>1, <3>2, <3>3, WeightAssumption
      <3>5. QED BY <3>2, <3>4 DEF TotalInv
    <2>10. StoredSurvives'
      BY <2>1, <2>4, <2>5 DEF StoredSurvives
    <2>11. QED BY <2>5, <2>6, <2>7, <2>8, <2>9, <2>10 DEF IInv
  <1>3. QED BY <1>1, <1>2 DEF NewReturn

\* remove takes the map entry along, and the node it leads to, if there is one,
\* even when that node holds another key.
LEMMA RemoveInv ==
  ASSUME IInv, NEW k \in Key, Remove(k)
  PROVE  IInv'
  <1>1. CallInv' /\ StoredSurvives'
    BY DEF Remove, CallInv, StoredSurvives
  <1>2. map' = [x \in DOMAIN map \ {k} |-> map[x]]
    BY DEF Remove
  <1>3. MapType'
    BY <1>2 DEF IInv, MapType
  <1>4. CASE /\ k \notin DOMAIN map \/ map[k] \notin Occupied(arena)
             /\ UNCHANGED << arena, total, order >>
    <2>1. NodesMapped'
      BY <1>2, <1>4 DEF IInv, NodesMapped
    <2>2. Heft(arena') = Heft(arena)
      BY <1>4
    <2>3. TotalInv'
      BY <1>4, <2>2 DEF IInv, TotalInv
    <2>4. QED BY <1>1, <1>3, <1>4, <2>1, <2>3 DEF IInv
  <1>5. CASE k \in DOMAIN map /\ map[k] \in Occupied(arena) /\ Evict(map[k])
    <2> DEFINE i == map[k]
    <2>1. /\ Sound(arena', order') /\ TotalInv' /\ Occupied(arena') = Occupied(arena) \ {i}
          /\ \A j \in Occupied(arena') : arena'.nodes[j].item = arena.nodes[j].item
      BY <1>5, EvictFacts
    <2>2. NodesMapped'
      BY <1>2, <1>5, <2>1 DEF IInv, NodesMapped
    <2>3. QED BY <1>1, <1>3, <2>1, <2>2 DEF IInv
  <1>6. QED BY <1>4, <1>5 DEF Remove

\* Every step of the cache keeps the invariant.
LEMMA NextIInv == IInv /\ [Next]_vars => IInv'
  <1> SUFFICES ASSUME IInv, [Next]_vars PROVE IInv'
    OBVIOUS
  <1>1. CASE \E k \in Key : Get(k) \/ Remove(k) \/ ContainsKey(k)
    <2>1. PICK k \in Key : Get(k) \/ Remove(k) \/ ContainsKey(k)
      BY <1>1
    <2>2. CASE ContainsKey(k)
      BY <2>2, Unmoved DEF ContainsKey, IInv, CallInv, StoredSurvives
    <2>3. QED BY <2>1, <2>2, GetInv, RemoveInv
  <1>2. CASE \E k \in Key, v \in Value : Reject(k, v) \/ Update(k, v) \/ BeginNew(k, v)
    <2>1. PICK k \in Key, v \in Value : Reject(k, v) \/ Update(k, v) \/ BeginNew(k, v)
      BY <1>2
    <2>2. CASE Reject(k, v)
      BY <2>2, Unmoved DEF Reject, IInv, CallInv, StoredSurvives
    <2>3. CASE BeginNew(k, v)
      <3>1. /\ call' = [op |-> "new", key |-> k, value |-> v] /\ Fits(v) /\ k \notin DOMAIN map
            /\ UNCHANGED << arena, map, total, reply, order >>
        BY <2>3 DEF BeginNew
      <3>2. call'.op = "new" /\ call'.key = k /\ call'.value = v
        BY <3>1
      <3>3. CallInv'
        BY <3>1, <3>2 DEF CallInv, Fits
      <3>4. StoredSurvives'
        BY <3>2, IdleOp DEF StoredSurvives, Idle
      <3>5. QED BY <3>1, <3>3, <3>4, Unmoved DEF IInv
    <2>4. QED BY <2>1, <2>2, <2>3, UpdateInv
  <1>3. CASE Loop
    BY <1>3, UpdateEvictInv, UpdateReturnInv, NewEvictInv, NewReturnInv DEF Loop
  <1>4. CASE Size \/ TotalWeight
    BY <1>4, Unmoved DEF Size, TotalWeight, IInv, CallInv, StoredSurvives
  <1>5. CASE Clear
    <2>1. Sound(arena', order') /\ Heft(arena') = 0 /\ Occupied(arena') = {}
      BY <1>5, EmptyFacts DEF Clear
    <2>2. MapType' /\ NodesMapped'
      BY <1>5, <2>1 DEF Clear, MapType, NodesMapped, EmptyMap
    <2>3. CallInv' /\ StoredSurvives'
      BY <1>5 DEF Clear, CallInv, StoredSurvives
    <2>4. TotalInv'
      BY <1>5, <2>1, WeightAssumption DEF Clear, TotalInv
    <2>5. QED BY <2>1, <2>2, <2>3, <2>4 DEF IInv
  <1>6. CASE UNCHANGED vars
    <2>1. UNCHANGED << arena, map, total, call, reply, order >>
      BY <1>6 DEF vars
    <2>2. CallInv' /\ StoredSurvives'
      BY <2>1 DEF IInv, CallInv, AtHead, StoredSurvives
    <2>3. QED BY <2>1, <2>2, Unmoved DEF IInv
  <1>7. QED BY <1>1, <1>2, <1>3, <1>4, <1>5, <1>6 DEF Next

\* The invariant holds in every reachable state.
LEMMA Invariance == Spec => []IInv
  BY InitIInv, NextIInv, PTL DEF Spec

\* Slots, links, map entries, the insert under way and the total keep their
\* types, whatever the weigher says.
THEOREM TypeCorrect == Spec => []TypeOK
  <1>1. IInv => TypeOK
    BY IdleOp DEF IInv, Sound, MapType, CallInv, TotalInv, TypeOK
  <1>2. QED BY <1>1, Invariance, PTL

\* The links spell out one list in the order of the last access and the free
\* stack is exact, with stale keys in the map too.
THEOREM ListCorrect == Spec => []ListInOrder
  <1>1. IInv => ListInOrder
    BY DEF IInv, Sound, ListInOrder
  <1>2. QED BY <1>1, Invariance, PTL

\* No node is lost to the map: its key leads to its slot.
THEOREM NodesReachable == Spec => []NodesMapped
  <1>1. IInv => NodesMapped
    BY DEF IInv
  <1>2. QED BY <1>1, Invariance, PTL

\* What insert has stored is at the head when it returns, even where the sums
\* saturate.
THEOREM InsertSurvives == Spec => []StoredSurvives
  <1>1. IInv => StoredSurvives
    BY DEF IInv
  <1>2. QED BY <1>1, Invariance, PTL

\* The loops of insert evict the least recently accessed entry, and only while
\* the weight does not fit.
THEOREM EvictionOrder == Spec => EvictsOldest
  <1> DEFINE P == call # Idle /\ Len(order') < Len(order) =>
                    /\ order' = SubSeq(order, 1, Len(order) - 1)
                    /\ total + (IF call.op = "new" THEN Weight[call.value] ELSE 0) > MaxWeight
  <1>1. IInv /\ [Next]_vars => [P]_vars
    <2> SUFFICES ASSUME IInv, Next, call # Idle, Len(order') < Len(order) PROVE P
      OBVIOUS
    <2>0. Sound(arena, order) /\ order \in Seq(Slot) /\ total \in 0..UsizeMax
      BY DEF IInv, Sound, TotalInv
    <2>1. Loop
      BY DEF Next, Get, Remove, ContainsKey, Reject, Update, BeginNew, Size, TotalWeight, Clear
    <2>2. CASE UpdateEvict
      <3>1. /\ order' = Without(order, arena.tail) /\ arena.tail # None
            /\ call.op = "update" /\ total > MaxWeight
        BY <2>2 DEF UpdateEvict, evict_tail, Evict
      <3>2. order' = SubSeq(order, 1, Len(order) - 1)
        BY <2>0, <3>1, TailFacts
      <3>3. QED BY <2>0, <3>1, <3>2, WeightAssumption
    <2>3. CASE NewEvict
      <3>1. /\ order' = Without(order, arena.tail) /\ arena.tail # None
            /\ call.op = "new" /\ SatAdd(total, Weight[call.value]) > MaxWeight
        BY <2>3 DEF NewEvict, evict_tail, Evict, Overflows
      <3>2. order' = SubSeq(order, 1, Len(order) - 1)
        BY <2>0, <3>1, TailFacts
      <3>3. Weight[call.value] \in 0..UsizeMax
        BY <3>1, IdleOp, WeightAssumption DEF IInv, CallInv
      <3>4. total + Weight[call.value] > MaxWeight
        <4>1. SatAdd(total, Weight[call.value]) \in 0..UsizeMax
          BY <2>0, <3>3, SatFacts
        <4>2. SatAdd(total, Weight[call.value]) <= total + Weight[call.value]
          BY <2>0, <3>3, SatFacts
        <4>3. QED BY <2>0, <3>1, <3>3, <4>1, <4>2, WeightAssumption
      <3>5. QED BY <3>1, <3>2, <3>4
    <2>4. CASE UpdateReturn
      BY <2>0, <2>4 DEF UpdateReturn
    <2>5. CASE NewReturn
      <3>1. order' = order \/ order' = Push(order, AllocIdx(arena))
        BY <2>5 DEF NewReturn
      <3>2. Len(order') >= Len(order)
        BY <2>0, <3>1 DEF Push
      <3>3. QED BY <2>0, <3>1, <3>2 DEF Push
    <2>6. QED BY <2>1, <2>2, <2>3, <2>4, <2>5 DEF Loop
  <1>2. QED BY <1>1, Invariance, PTL DEF Spec, EvictsOldest
-----------------------------------------------------------------------------
(***************************************************************************)
(* Where no sum saturates.  max_weight may be anything up to usize::MAX,   *)
(* and beyond half of it total_weight drifts below what is stored (run     *)
(* sized_usize_limit), so the exact accounting takes a hypothesis: the     *)
(* total of an insert, at most twice max_weight, is a usize.               *)
(***************************************************************************)
Exact ==
  /\ total = Heft(arena) /\ total <= 2 * MaxWeight
  /\ call.op # "update" => total <= MaxWeight

\* Where nothing saturates, one weight for another leaves an exact total, and so
\* does taking a weight off.
LEMMA SatExact ==
  ASSUME 2 * MaxWeight <= UsizeMax, NEW h \in Nat, NEW g \in Nat,
         NEW y \in 0..UsizeMax, NEW z \in 0..UsizeMax, z <= h
  PROVE  /\ h = g + z => SatSub(h, z) = g
         /\ h <= MaxWeight /\ y <= MaxWeight =>
              /\ SatAdd(h, y) = h + y
              /\ g + z = h + y => SatSub(SatAdd(h, y), z) = g /\ g <= 2 * MaxWeight
  <1>1. h = g + z => SatSub(h, z) = g
    BY WeightAssumption DEF SatSub
  <1>2. ASSUME h <= MaxWeight, y <= MaxWeight
        PROVE  /\ SatAdd(h, y) = h + y
               /\ g + z = h + y => SatSub(SatAdd(h, y), z) = g /\ g <= 2 * MaxWeight
    <2>1. SatAdd(h, y) = h + y
      BY <1>2, WeightAssumption DEF SatAdd
    <2>2. QED BY <1>2, <2>1, WeightAssumption DEF SatSub
  <1>3. QED BY <1>1, <1>2

\* A node that goes leaves an exact total, no higher than before.
LEMMA EvictExact ==
  ASSUME 2 * MaxWeight <= UsizeMax, IInv, Exact, NEW i \in Occupied(arena), Evict(i)
  PROVE  total' = Heft(arena') /\ total' <= total
  <1> DEFINE w == arena.nodes[i].item.weight
             h == Heft(arena)
             g == Heft(arena')
  <1>1. h = g + w /\ total' = SatSub(total, w) /\ Sound(arena', order')
    BY EvictFacts
  <1>2. w \in 0..UsizeMax /\ w <= h /\ h \in Nat
    BY NodeWeight DEF IInv
  <1>3. g \in Nat /\ total = h
    BY <1>1, HeftFacts DEF Exact
  <1> HIDE DEF w, h, g
  <1>4. SatSub(h, w) = g
    BY <1>1, <1>2, <1>3, SatExact
  <1>5. total' = g /\ total' <= total
    BY <1>1, <1>2, <1>3, <1>4
  <1>6. QED BY <1>5 DEF g

\* Every step keeps the total exact.
LEMMA NextExact ==
  ASSUME 2 * MaxWeight <= UsizeMax, IInv, IInv', Exact, [Next]_vars
  PROVE  Exact'
  <1>0. MaxWeight \in Nat /\ total \in Nat /\ total <= 2 * MaxWeight
    BY WeightAssumption DEF IInv, TotalInv, Exact
  <1>1. CASE call' = call /\ arena' = arena /\ total' = total
    BY <1>1 DEF Exact
  <1>2. ASSUME NEW k \in Key, Get(k) PROVE Exact'
    <2>1. CASE arena' = arena
      BY <1>1, <1>2, <2>1 DEF Get
    <2>2. CASE /\ k \in DOMAIN map /\ map[k] \in Occupied(arena)
               /\ arena' = promote(arena, map[k])
      <3>1. Heft(arena') = Heft(arena)
        BY <2>2, PromoteFacts DEF IInv
      <3>2. call' = call /\ total' = total
        BY <1>2 DEF Get
      <3>3. QED BY <3>1, <3>2 DEF Exact
    <2>3. QED BY <1>2, <2>1, <2>2 DEF Get
  <1>3. ASSUME NEW k \in Key, Remove(k) PROVE Exact'
    <2>1. call' = call
      BY <1>3 DEF Remove
    <2>2. CASE UNCHANGED << arena, total >>
      BY <1>1, <2>1, <2>2
    <2>3. CASE k \in DOMAIN map /\ map[k] \in Occupied(arena) /\ Evict(map[k])
      <3>1. total' = Heft(arena') /\ total' <= total
        BY <2>3, EvictExact
      <3>2. total' \in Nat
        BY DEF IInv, TotalInv
      <3>3. QED BY <1>0, <2>1, <3>1, <3>2 DEF Exact
    <2>4. QED BY <1>3, <2>2, <2>3 DEF Remove
  <1>4. ASSUME NEW k \in Key, NEW v \in Value, Update(k, v) PROVE Exact'
    <2>1. CASE UNCHANGED << arena, total, call >>
      BY <1>1, <2>1
    <2>2. CASE ~UNCHANGED << arena, total, call >>
      <3> DEFINE idx == map[k]
                 old == arena.nodes[idx].item
                 b == promote(replace(arena, idx, [key |-> old.key, value |-> v,
                                                   weight |-> Weight[v]]), idx)
      <3>1. /\ arena' = b /\ idx \in Occupied(arena)
            /\ total' = SatSub(SatAdd(total, Weight[v]), old.weight)
            /\ call' = [op |-> "update", key |-> k, value |-> v, old |-> old.value]
            /\ Fits(v) /\ call = Idle
        BY <1>4, <2>2 DEF Update
      <3> HIDE DEF idx
      <3>2. Heft(b) + old.weight = Heft(arena) + Weight[v]
        BY <3>1, UpdateFacts DEF IInv
      <3>3. Sound(b, ToFront(order, idx))
        BY <3>1, UpdateFacts DEF IInv
      <3> HIDE DEF b
      <3> DEFINE w == Weight[v]
                 z == old.weight
                 h == Heft(arena)
                 g == Heft(arena')
      <3>7. z \in 0..UsizeMax /\ z <= h /\ w \in 0..UsizeMax /\ h \in Nat
        BY <3>1, NodeWeight, WeightAssumption DEF IInv
      <3>8. g \in Nat
        BY <3>1, <3>3, HeftFacts
      <3>9. call.op # "update"
        BY <3>1, IdleOp
      <3>10. /\ g + z = h + w /\ total = h /\ h <= MaxWeight /\ w <= MaxWeight
             /\ total' = SatSub(SatAdd(total, w), z)
        BY <3>1, <3>2, <3>9 DEF Exact, Fits
      <3>11. call'.op = "update"
        BY <3>1
      <3> HIDE DEF w, z, h, g
      <3>12. SatSub(SatAdd(h, w), z) = g /\ g <= 2 * MaxWeight
        BY <3>7, <3>8, <3>10, SatExact
      <3>13. total' = g /\ total' <= 2 * MaxWeight
        BY <3>10, <3>12
      <3>14. QED BY <3>11, <3>13 DEF Exact, g
    <2>3. QED BY <2>1, <2>2
  <1>5. CASE UpdateEvict \/ NewEvict
    <2>1. Evict(arena.tail) /\ arena.tail # None /\ call' = call
      BY <1>5 DEF UpdateEvict, NewEvict, evict_tail, Evict
    <2>2. arena.tail \in Occupied(arena)
      BY <2>1, EndsFacts DEF IInv
    <2>3. total' = Heft(arena') /\ total' <= total
      BY <2>1, <2>2, EvictExact
    <2>4. total' \in Nat
      BY DEF IInv, TotalInv
    <2>5. QED BY <1>0, <2>1, <2>3, <2>4 DEF Exact
  <1>6. CASE UpdateReturn
    <2>1. /\ call.op = "update" /\ call' = Idle /\ arena' = arena /\ total' = total
          /\ ~(total > MaxWeight /\ arena.tail # None)
      BY <1>6 DEF UpdateReturn
    <2>2. AtHead(call.key, call.value) /\ Sound(arena, order)
      BY <2>1, IdleOp DEF IInv, CallInv
    <2>3. arena.tail # None
      BY <2>2, EndsFacts DEF AtHead
    <2>4. total' <= MaxWeight
      BY <1>0, <2>1, <2>3
    <2>5. QED BY <2>1, <2>4 DEF Exact
  <1>7. CASE NewReturn
    <2>1. call.op = "new" /\ call' = Idle /\ ~(Overflows /\ arena.tail # None)
      BY <1>7 DEF NewReturn
    <2>2. Sound(arena, order) /\ call.key \in Key /\ call.value \in Value /\ Fits(call.value)
      BY <2>1, IdleOp DEF IInv, CallInv
    <2>3. CASE UNCHANGED << arena, total >>
      BY <2>1, <2>3 DEF Exact, Idle
    <2>4. CASE ~UNCHANGED << arena, total >>
      <3> DEFINE w == Weight[call.value]
                 item == [key |-> call.key, value |-> call.value, weight |-> w]
                 h == Heft(arena)
      <3>1. /\ arena' = push_front(alloc(arena, item), AllocIdx(arena))
            /\ total' = SatAdd(total, w)
        BY <1>7, <2>4 DEF NewReturn
      <3>2. w \in 0..UsizeMax /\ w <= MaxWeight /\ item \in Item /\ item.weight = Weight[item.value]
        BY <2>2, WeightAssumption DEF Item, Fits
      <3>3. item.weight = w
        OBVIOUS
      <3> HIDE DEF item
      <3>4. Heft(arena') = h + item.weight
        BY <2>2, <3>1, <3>2, InsertFacts
      <3>5. h \in Nat /\ total = h /\ h <= MaxWeight
        BY <2>1, <2>2, HeftFacts DEF Exact
      <3>6. Overflows <=> SatAdd(total, w) > MaxWeight
        BY DEF Overflows
      <3>7. arena.tail = None => h = 0
        BY <2>2, EndsFacts, NothingWeighs
      <3> HIDE DEF w, h
      <3>8. SatAdd(h, w) = h + w
        BY <3>2, <3>5, WeightAssumption DEF SatAdd
      <3>9. total' = h + w /\ h + w <= MaxWeight
        BY <1>0, <2>1, <3>1, <3>2, <3>5, <3>6, <3>7, <3>8
      <3>10. total' = Heft(arena') /\ total' <= MaxWeight
        BY <3>3, <3>4, <3>9
      <3>11. total' <= 2 * MaxWeight
        BY <1>0, <3>2, <3>5, <3>9
      <3>12. QED BY <3>10, <3>11 DEF Exact
    <2>5. QED BY <2>3, <2>4
  <1>8. CASE Clear
    <2>1. Heft(arena') = 0 /\ total' = 0
      BY <1>8, EmptyFacts DEF Clear
    <2>2. QED BY <1>0, <2>1 DEF Exact
  <1>9. ASSUME NEW k \in Key, NEW v \in Value, BeginNew(k, v) PROVE Exact'
    <2>1. call = Idle /\ arena' = arena /\ total' = total
      BY <1>9 DEF BeginNew
    <2>2. total <= MaxWeight
      BY <2>1, IdleOp DEF Exact
    <2>3. QED BY <2>1, <2>2 DEF Exact
  <1>10. CASE \/ \E k \in Key : ContainsKey(k)
              \/ \E k \in Key, v \in Value : Reject(k, v)
              \/ Size \/ TotalWeight \/ UNCHANGED vars
    BY <1>1, <1>10 DEF ContainsKey, Reject, Size, TotalWeight, vars
  <1>11. QED BY <1>2, <1>3, <1>4, <1>5, <1>6, <1>7, <1>8, <1>9, <1>10 DEF Next, Loop

\* Where no sum saturates, the total is exact in every reachable state.
LEMMA ExactInvariance ==
  ASSUME 2 * MaxWeight <= UsizeMax
  PROVE  Spec => []Exact
  <1>1. Init => Exact
    BY EmptyFacts, WeightAssumption DEF Init, Exact
  <1>2. IInv /\ IInv' /\ Exact /\ [Next]_vars => Exact'
    BY NextExact
  <1>3. QED BY <1>1, <1>2, Invariance, PTL DEF Spec

\* total_weight is the weight of the linked nodes, between the turns of a loop
\* too, as long as twice max_weight is a usize.
THEOREM AccountsExactly ==
  ASSUME 2 * MaxWeight <= UsizeMax
  PROVE  Spec => []WeightAccounted
  <1>1. IInv /\ Exact => WeightAccounted
    BY StoredIsHeft DEF IInv, Sound, Exact, WeightAccounted
  <1>2. QED BY <1>1, Invariance, ExactInvariance, PTL

\* Whenever the lock is free no more than max_weight is stored, as long as twice
\* max_weight is a usize.
THEOREM BudgetHolds ==
  ASSUME 2 * MaxWeight <= UsizeMax
  PROVE  Spec => []WithinBudget
  <1>1. Exact => WithinBudget
    BY StoredIsHeft, IdleOp DEF Exact, WithinBudget
  <1>2. QED BY <1>1, ExactInvariance, PTL
=============================================================================
