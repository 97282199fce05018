------------------------------ MODULE LfuCache ------------------------------
(***************************************************************************)
(* One shard of LfuCache, src/src/lfu.rs: a map of entries with a count    *)
(* and an age, and the index by_priority, a BTreeMap from (count, age) to  *)
(* keys, whose first key is the next to be evicted.  Each operation runs   *)
(* under the shard's Mutex and is one action; LfuPanics adds the calls     *)
(* that a panicking Clone cuts short.                                      *)
(*                                                                         *)
(* order is a history variable: the cached keys in the order of their last *)
(* access.  No action reads it.                                            *)
(***************************************************************************)
EXTENDS Recency, FiniteSets

CONSTANTS Key,        \* the keys clients use
          Value,      \* the values clients store
          Capacity,   \* Inner::capacity, the per-shard capacity
          CountMax,   \* u64::MAX of the counters
          MaxClock    \* bound of the model: ticks between two clears

ASSUME LfuAssumption ==
  /\ Capacity \in Nat \ {0}
  /\ CountMax \in Nat \ {0}
  /\ MaxClock \in Nat

VARIABLES map,          \* map: HashMap<K, Entry>, Entry = [value, count, age]
          by_priority,  \* by_priority: BTreeMap<(count, age), K>
          clock,        \* clock: u64
          order,        \* history: cached keys, most recently accessed first
          reply         \* what the last call returned

vars == << map, by_priority, clock, order, reply >>

Init ==
  /\ map = EmptyMap
  /\ by_priority = EmptyMap
  /\ clock = 0
  /\ order = << >>
  /\ reply = << "new", "ok" >>

\* A function with x added or overwritten, and with x taken away.
With(f, x, y) == [z \in DOMAIN f \cup {x} |-> IF z = x THEN y ELSE f[z]]

Less(f, x) == [z \in DOMAIN f \ {x} |-> f[z]]

\* Mutant: the clock stands still.
tick_frozen == clock

\* wrapping_add; MaxClock keeps the clock below the wrap at 2^64.
tick == clock + 1

\* Mutant: the age counts before the count.
Priority_swapped(e) == << e.age, e.count >>

Priority(e) == << e.count, e.age >>

\* Mutant: the counter overflows.
Touched_overflow(e, v) == [value |-> v, count |-> e.count + 1, age |-> tick]

\* An entry after one more access.
Touched(e, v) ==
  [value |-> v, count |-> IF e.count < CountMax THEN e.count + 1 ELSE e.count,
   age |-> tick]

\* The entry of k is counted up and aged; its place in the index moves along.
Touch(k, v) ==
  LET old == map[k]
      new == Touched(old, v)
  IN /\ map' = With(map, k, new)
     /\ by_priority' = With(Less(by_priority, Priority(old)), Priority(new), k)
     /\ order' = ToFront(order, k)

\* tick comes before the lookup: a miss ages the shard too.
Get(k) ==
  /\ clock < MaxClock
  /\ clock' = tick
  /\ \/ /\ k \notin DOMAIN map
        /\ reply' = << "get", "none", k >>
        /\ UNCHANGED << map, by_priority, order >>
     \/ /\ k \in DOMAIN map
        /\ Touch(k, map[k].value)
        /\ reply' = << "get", "some", k, map[k].value >>

Replace(k, v) ==
  /\ clock < MaxClock
  /\ k \in DOMAIN map
  /\ clock' = tick
  /\ Touch(k, v)
  /\ reply' = << "insert", "some", k, map[k].value >>

\* The order of the BTreeMap's keys.
Before(p, q) == p[1] < q[1] \/ (p[1] = q[1] /\ p[2] < q[2])

First == CHOOSE p \in DOMAIN by_priority :
           \A q \in DOMAIN by_priority : p = q \/ Before(p, q)

\* Mutant: eviction starts one entry late.
FullLate == Cardinality(DOMAIN map) > Capacity /\ by_priority # EmptyMap

Full == Cardinality(DOMAIN map) >= Capacity /\ by_priority # EmptyMap

\* What insert keeps of the shard when a new key arrives: pop_first, then
\* map.remove of the key it led to.
RoomyMap == IF Full THEN Less(map, by_priority[First]) ELSE map

RoomyIndex == IF Full THEN Less(by_priority, First) ELSE by_priority

RoomyOrder == IF Full /\ by_priority[First] \in DOMAIN map
              THEN Without(order, by_priority[First]) ELSE order

Add(k, v) ==
  /\ clock < MaxClock
  /\ k \notin DOMAIN map
  /\ clock' = tick
  /\ LET entry == [value |-> v, count |-> 1, age |-> tick] IN
       /\ map' = With(RoomyMap, k, entry)
       /\ by_priority' = With(RoomyIndex, Priority(entry), k)
  /\ order' = Push(RoomyOrder, k)
  /\ reply' = << "insert", "none", k >>

\* Mutant: the index entry outlives the key.
RemoveFromMap(k) ==
  /\ k \in DOMAIN map
  /\ map' = Less(map, k)
  /\ order' = Without(order, k)
  /\ reply' = << "remove", "some", k, map[k].value >>
  /\ UNCHANGED << by_priority, clock >>

Remove(k) ==
  \/ /\ k \notin DOMAIN map
     /\ reply' = << "remove", "none", k >>
     /\ UNCHANGED << map, by_priority, clock, order >>
  \/ /\ k \in DOMAIN map
     /\ map' = Less(map, k)
     /\ by_priority' = Less(by_priority, Priority(map[k]))
     /\ order' = Without(order, k)
     /\ reply' = << "remove", "some", k, map[k].value >>
     /\ UNCHANGED clock

ContainsKey(k) ==
  /\ reply' = << "contains_key", IF k \in DOMAIN map THEN "true" ELSE "false", k >>
  /\ UNCHANGED << map, by_priority, clock, order >>

Size ==
  /\ reply' = << "len", "ok", Cardinality(DOMAIN map) >>
  /\ UNCHANGED << map, by_priority, clock, order >>

Clear ==
  /\ map' = EmptyMap
  /\ by_priority' = EmptyMap
  /\ clock' = 0
  /\ order' = << >>
  /\ reply' = << "clear", "ok" >>

Next ==
  \/ \E k \in Key : Get(k) \/ Remove(k) \/ ContainsKey(k)
  \/ \E k \in Key, v \in Value : Replace(k, v) \/ Add(k, v)
  \/ Size \/ Clear

Spec == Init /\ [][Next]_vars
-----------------------------------------------------------------------------
\* Counts stay within u64, ages within the clock.
TypeOK ==
  /\ DOMAIN map \subseteq Key
  /\ \A k \in DOMAIN map : map[k] \in [value : Value, count : 1..CountMax, age : 1..clock]
  /\ DOMAIN by_priority \subseteq (1..CountMax) \X (1..clock)
  /\ \A p \in DOMAIN by_priority : by_priority[p] \in Key
  /\ clock \in 0..MaxClock
  /\ order \in Seq(Key)

\* map and by_priority describe the same entries: every cached key has exactly
\* one place in the index, the one its count and age give it, and no place
\* leads to a key that is gone.
IndexMatches ==
  /\ \A k \in DOMAIN map : /\ Priority(map[k]) \in DOMAIN by_priority
                           /\ by_priority[Priority(map[k])] = k
  /\ \A p \in DOMAIN by_priority : /\ by_priority[p] \in DOMAIN map
                                   /\ Priority(map[by_priority[p]]) = p

\* Ages tell accesses apart: sorted by age, the cached keys are in the order of
\* their last access, also after a clear has set the clock back.
AgesAreRecency ==
  /\ Elements(order) = DOMAIN map
  /\ \A p, q \in 1..Len(order) : p < q => map[order[p]].age > map[order[q]].age

\* len() <= capacity() after every operation (docs/API.md, Capacity contract).
CapacityInvariant == Cardinality(DOMAIN map) <= Capacity

Policy == INSTANCE LfuPolicy WITH
  entries <- [k \in DOMAIN map |-> map[k].value],
  count   <- [k \in DOMAIN map |-> map[k].count],
  recency <- order

\* Every operation, with what it returns, is one the LFU policy allows: the
\* first key of the index is the least often used, and of those the least
\* recently accessed, even where the counters have saturated.
ImplementsPolicy == Policy!Spec
=============================================================================
