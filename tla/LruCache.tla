------------------------------ MODULE LruCache ------------------------------
(***************************************************************************)
(* One shard of LruCache, src/src/lru.rs: the Inner struct and the Cache   *)
(* operations, each of which runs to its end under the shard's Mutex, so   *)
(* each is one action.  The map is a function from the cached keys to      *)
(* arena slots.                                                            *)
(*                                                                         *)
(* User code runs under the lock in two places, V::clone in get and        *)
(* K::clone in insert.  A Clone that panics ends the call there; the next  *)
(* caller recovers the poisoned guard (util.rs) and sees the state left    *)
(* behind.                                                                 *)
(*                                                                         *)
(* order is a history variable: the slots in the order the keys in them    *)
(* were last accessed.  No action reads it.                                *)
(***************************************************************************)
EXTENDS Arena, FiniteSets

CONSTANTS Key,       \* the keys clients use
          Value,     \* the values clients store
          Capacity   \* Inner::capacity, the per-shard capacity

ASSUME CapacityAssumption == Capacity \in Nat \ {0}

VARIABLES arena,     \* nodes, free, head, tail
          map,       \* map: HashMap<K, usize>
          order,     \* history: occupied slots, most recently accessed first
          reply      \* what the last call returned

vars == << arena, map, order, reply >>

Item == [key : Key, value : Value]

Init ==
  /\ arena = EmptyArena
  /\ map = EmptyMap
  /\ order = << >>
  /\ reply = << "new", "ok" >>

\* Mutant: a read does not count as an access.
GetInPlace(k) ==
  /\ reply' = IF k \notin DOMAIN map THEN << "get", "none", k >>
              ELSE << "get", "some", k, arena.nodes[map[k]].item.value >>
  /\ UNCHANGED << arena, map, order >>

Get(k) ==
  \/ /\ k \notin DOMAIN map
     /\ reply' = << "get", "none", k >>
     /\ UNCHANGED << arena, map, order >>
  \/ /\ k \in DOMAIN map
     /\ arena' = promote(arena, map[k])
     /\ order' = ToFront(order, map[k])
     /\ \/ reply' = << "get", "some", k, arena.nodes[map[k]].item.value >>
        \/ reply' = << "get", "panicked", k >>
     /\ UNCHANGED map

\* insert of a key that is mapped: the value is replaced, the node promoted.
Replace(k, v) ==
  /\ k \in DOMAIN map
  /\ LET idx == map[k] IN
       /\ arena' = promote(replace(arena, idx, [key |-> arena.nodes[idx].item.key,
                                                value |-> v]), idx)
       /\ order' = ToFront(order, idx)
       /\ reply' = << "insert", "some", k, arena.nodes[idx].item.value >>
  /\ UNCHANGED map

\* Mutant: eviction starts one entry late.
FullLate == Cardinality(DOMAIN map) > Capacity /\ arena.tail # None

Full == Cardinality(DOMAIN map) >= Capacity /\ arena.tail # None

\* What is left of each structure once insert has made room for a new key.
RoomyArena == IF Full THEN dealloc(unlink(arena, arena.tail), arena.tail)
              ELSE arena

\* Mutant: the evicted key stays mapped.
RoomyMapStale == map

RoomyMap == IF Full
            THEN [k \in DOMAIN map \ {arena.nodes[arena.tail].item.key} |-> map[k]]
            ELSE map

RoomyOrder == IF Full THEN Without(order, arena.tail) ELSE order

\* insert of a new key: evict the tail at capacity, then link a fresh node in
\* front.  K::clone runs between the two.
Add(k, v) ==
  /\ k \notin DOMAIN map
  /\ \/ LET idx == AllocIdx(RoomyArena) IN
          /\ arena' = push_front(alloc(RoomyArena, [key |-> k, value |-> v]), idx)
          /\ map' = [x \in DOMAIN RoomyMap \cup {k} |->
                       IF x = k THEN idx ELSE RoomyMap[x]]
          /\ order' = Push(RoomyOrder, idx)
          /\ reply' = << "insert", "none", k >>
     \/ /\ arena' = RoomyArena
        /\ map' = RoomyMap
        /\ order' = RoomyOrder
        /\ reply' = << "insert", "panicked", k >>

Remove(k) ==
  \/ /\ k \notin DOMAIN map
     /\ reply' = << "remove", "none", k >>
     /\ UNCHANGED << arena, map, order >>
  \/ /\ k \in DOMAIN map
     /\ map' = [x \in DOMAIN map \ {k} |-> map[x]]
     /\ arena' = dealloc(unlink(arena, map[k]), map[k])
     /\ order' = Without(order, map[k])
     /\ reply' = << "remove", "some", k, arena.nodes[map[k]].item.value >>

ContainsKey(k) ==
  /\ reply' = << "contains_key", IF k \in DOMAIN map THEN "true" ELSE "false", k >>
  /\ UNCHANGED << arena, map, order >>

Size ==
  /\ reply' = << "len", "ok", Cardinality(DOMAIN map) >>
  /\ UNCHANGED << arena, map, order >>

Clear ==
  /\ arena' = EmptyArena
  /\ map' = EmptyMap
  /\ order' = << >>
  /\ reply' = << "clear", "ok" >>

Next ==
  \/ \E k \in Key : Get(k) \/ Remove(k) \/ ContainsKey(k)
  \/ \E k \in Key, v \in Value : Replace(k, v) \/ Add(k, v)
  \/ Size \/ Clear

Spec == Init /\ [][Next]_vars
-----------------------------------------------------------------------------
\* Every component has its type: slots are positive, links are slots or None,
\* the map leads to slots and every node holds a key and a value.
TypeOK ==
  /\ ArenaType(arena, Item)
  /\ DOMAIN map \subseteq Key
  /\ \A k \in DOMAIN map : map[k] \in Slot
  /\ order \in Seq(Slot)

\* The prev/next pointers that unlink, push_front and promote rewrite in place
\* always spell out one list, in both directions, and that list holds the
\* occupied slots in the order of their last access.
ListInOrder == InOrder(arena, order)

\* map and arena name the same entries: each mapped slot holds a node with that
\* very key, and no node is unreachable from the map.  With ListInOrder this is
\* what the unreachable!() arms of insert, unlink and dealloc rely on.
MapMatchesArena ==
  /\ \A k \in DOMAIN map :
       map[k] \in Occupied(arena) /\ arena.nodes[map[k]].item.key = k
  /\ \A i \in Occupied(arena) :
       /\ arena.nodes[i].item.key \in DOMAIN map
       /\ map[arena.nodes[i].item.key] = i

\* Slots never leak: each is linked or exactly once on the free stack, and
\* since insert evicts before it allocates, the Vec never outgrows the capacity
\* it was created with.
SlotsAccounted == FreeExact(arena) /\ arena.slots <= Capacity

\* len() <= capacity() after every operation (docs/API.md, Capacity contract).
CapacityInvariant == Cardinality(DOMAIN map) <= Capacity
-----------------------------------------------------------------------------
(***************************************************************************)
(* The shard implements LruPolicy: the entries are the items of the nodes, *)
(* the recency order is the order of the list.                             *)
(***************************************************************************)
Policy == INSTANCE LruPolicy WITH
  entries <- [k \in DOMAIN map |-> arena.nodes[map[k]].item.value],
  recency <- [p \in 1..Len(order) |-> arena.nodes[order[p]].item.key]

\* Every operation, with what it returns, is one the LRU policy allows: the
\* evicted entry is the least recently accessed one, contains_key and remove
\* promote nothing, and a panicking Clone leaves a cache that still obeys it.
ImplementsPolicy == Policy!Spec
=============================================================================
