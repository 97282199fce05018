---------------------------- MODULE SizedCache ----------------------------
(***************************************************************************)
(* SizedCache, src/src/sized.rs: an arena-backed LRU list under one Mutex, *)
(* bounded by the total weight of its entries instead of their number.     *)
(*                                                                         *)
(* get, remove, contains_key, len and clear run to their end under the     *)
(* lock and are one action each.  insert has two loops that evict from the *)
(* tail until the weight fits; each turn of a loop is an action, call is   *)
(* where the insert that holds the lock stands, and no other call runs     *)
(* until it is Idle again.                                                 *)
(*                                                                         *)
(* The arms marked unreachable!() in the code are outcomes of the model:   *)
(* the call ends there with the reply "unreachable" and leaves behind what *)
(* it had done so far.  A panic of K::clone or V::clone ends a call with   *)
(* the reply "panicked".  In both cases the next caller recovers the lock. *)
(***************************************************************************)
EXTENDS Arena, FiniteSets, Functions

CONSTANTS Key,        \* the keys clients use
          Value,      \* the values clients store
          Weight,     \* weigher: fn(&V) -> usize
          MaxWeight,  \* max_weight
          UsizeMax    \* usize::MAX

ASSUME WeightAssumption ==
  /\ UsizeMax \in Nat
  /\ MaxWeight \in 1..UsizeMax
  /\ Weight \in [Value -> 0..UsizeMax]

VARIABLES arena,      \* nodes, free, head, tail
          map,        \* map: HashMap<K, usize>
          total,      \* total_weight
          call,       \* the insert under way, or Idle
          reply,      \* what the last call returned
          order       \* history: occupied slots, most recently accessed first

vars == << arena, map, total, call, reply, order >>

Idle == [op |-> "idle"]

Item == [key : Key, value : Value, weight : 0..UsizeMax]

\* usize::saturating_add and usize::saturating_sub
SatAdd(x, y) == IF x + y > UsizeMax THEN UsizeMax ELSE x + y

SatSub(x, y) == IF y > x THEN 0 ELSE x - y

Init ==
  /\ arena = EmptyArena
  /\ map = EmptyMap
  /\ total = 0
  /\ call = Idle
  /\ reply = << "new", "ok" >>
  /\ order = << >>

Get(k) ==
  /\ call = Idle
  /\ \/ /\ k \notin DOMAIN map
        /\ reply' = << "get", "none", k >>
        /\ UNCHANGED << arena, order >>
     \/ /\ k \in DOMAIN map /\ map[k] \notin Occupied(arena)
        /\ reply' = << "get", "unreachable", k >>
        /\ UNCHANGED << arena, order >>
     \/ /\ k \in DOMAIN map /\ map[k] \in Occupied(arena)
        /\ arena' = promote(arena, map[k])
        /\ order' = ToFront(order, map[k])
        /\ \/ reply' = << "get", "some", k, arena.nodes[map[k]].item.value >>
           \/ reply' = << "get", "panicked", k >>
  /\ UNCHANGED << map, total, call >>

\* insert weighs the value before it takes the lock.
Reject(k, v) ==
  /\ call = Idle
  /\ Weight[v] > MaxWeight
  /\ reply' = << "insert", "rejected", k >>
  /\ UNCHANGED << arena, map, total, call, order >>

Fits(v) == Weight[v] <= MaxWeight

\* insert of a key that is mapped: value and weight are replaced in place, the
\* node is promoted and the total corrected; the loop comes next.
Update(k, v) ==
  /\ call = Idle /\ Fits(v) /\ k \in DOMAIN map
  /\ \/ /\ map[k] \notin Occupied(arena)
        /\ reply' = << "insert", "unreachable", k >>
        /\ UNCHANGED << arena, total, call, order >>
     \/ /\ map[k] \in Occupied(arena)
        /\ LET idx == map[k]
               old == arena.nodes[idx].item
           IN /\ arena' = promote(replace(arena, idx, [key |-> old.key, value |-> v,
                                                       weight |-> Weight[v]]), idx)
              /\ total' = SatSub(SatAdd(total, Weight[v]), old.weight)
              /\ order' = ToFront(order, idx)
              /\ call' = [op |-> "update", key |-> k, value |-> v, old |-> old.value]
        /\ UNCHANGED reply
  /\ UNCHANGED map

\* The node of an occupied slot is unlinked and the slot freed.
Detached(idx) == dealloc(unlink(arena, idx), idx)

\* Mutant: the weight stays.
Lightened_nothing(idx) == total

\* total_weight without the weight of the node at idx.
Lightened(idx) == SatSub(total, arena.nodes[idx].item.weight)

Evict(idx) ==
  /\ idx # None
  /\ arena' = Detached(idx)
  /\ total' = Lightened(idx)
  /\ order' = Without(order, idx)

\* Mutants: the head goes; weightless entries are passed over.
evict_head == Evict(arena.head)

evict_tail_of_weight == Evict(arena.tail) /\ arena.nodes[arena.tail].item.weight > 0

\* evict_tail on a list that has a tail.
evict_tail == Evict(arena.tail)

\* One turn of the loop that follows an update.  The evicted key stays mapped.
UpdateEvict ==
  /\ call.op = "update"
  /\ total > MaxWeight
  /\ evict_tail
  /\ UNCHANGED << map, call, reply >>

UpdateReturn ==
  /\ call.op = "update"
  /\ ~(total > MaxWeight /\ arena.tail # None)
  /\ reply' = << "insert", "some", call.key, call.value, call.old >>
  /\ call' = Idle
  /\ UNCHANGED << arena, map, total, order >>

\* insert of a new key.
BeginNew(k, v) ==
  /\ call = Idle /\ Fits(v) /\ k \notin DOMAIN map
  /\ call' = [op |-> "new", key |-> k, value |-> v]
  /\ UNCHANGED << arena, map, total, reply, order >>

\* Mutant: the weight of the new entry is left out.
OverflowsAlready == total > MaxWeight

Overflows == SatAdd(total, Weight[call.value]) > MaxWeight

\* One turn of the loop that makes room for a new entry.
NewEvict ==
  /\ call.op = "new"
  /\ Overflows
  /\ evict_tail
  /\ map' = [k \in DOMAIN map \ {arena.nodes[arena.tail].item.key} |-> map[k]]
  /\ UNCHANGED << call, reply >>

\* Once there is room: link a fresh node in front and add its weight, unless
\* K::clone panics first.
NewReturn ==
  /\ call.op = "new"
  /\ ~(Overflows /\ arena.tail # None)
  /\ \/ LET idx == AllocIdx(arena)
            item == [key |-> call.key, value |-> call.value,
                     weight |-> Weight[call.value]]
        IN /\ arena' = push_front(alloc(arena, item), idx)
           /\ map' = [x \in DOMAIN map \cup {call.key} |->
                        IF x = call.key THEN idx ELSE map[x]]
           /\ total' = SatAdd(total, item.weight)
           /\ order' = Push(order, idx)
           /\ reply' = << "insert", "none", call.key, call.value >>
     \/ /\ reply' = << "insert", "panicked", call.key >>
        /\ UNCHANGED << arena, map, total, order >>
  /\ call' = Idle

\* The map entry goes first; the slot it led to is only looked at afterwards.
Remove(k) ==
  /\ call = Idle
  /\ \/ /\ k \notin DOMAIN map
        /\ reply' = << "remove", "none", k >>
        /\ UNCHANGED << arena, total, order >>
     \/ /\ k \in DOMAIN map /\ map[k] \notin Occupied(arena)
        /\ reply' = << "remove", "unreachable", k >>
        /\ UNCHANGED << arena, total, order >>
     \/ /\ k \in DOMAIN map /\ map[k] \in Occupied(arena)
        /\ reply' = << "remove", "some", k, arena.nodes[map[k]].item.value >>
        /\ Evict(map[k])
  /\ map' = [x \in DOMAIN map \ {k} |-> map[x]]
  /\ UNCHANGED call

ContainsKey(k) ==
  /\ call = Idle
  /\ reply' = << "contains_key", IF k \in DOMAIN map THEN "true" ELSE "false", k >>
  /\ UNCHANGED << arena, map, total, call, order >>

Size ==
  /\ call = Idle
  /\ reply' = << "len", "ok", Cardinality(DOMAIN map) >>
  /\ UNCHANGED << arena, map, total, call, order >>

TotalWeight ==
  /\ call = Idle
  /\ reply' = << "total_weight", "ok", total >>
  /\ UNCHANGED << arena, map, total, call, order >>

\* Mutant: the arena is not emptied with the map.
ClearMapOnly ==
  /\ call = Idle
  /\ map' = EmptyMap
  /\ reply' = << "clear", "ok" >>
  /\ UNCHANGED << arena, total, call, order >>

Clear ==
  /\ call = Idle
  /\ arena' = EmptyArena
  /\ map' = EmptyMap
  /\ total' = 0
  /\ order' = << >>
  /\ reply' = << "clear", "ok" >>
  /\ UNCHANGED call

Loop == UpdateEvict \/ UpdateReturn \/ NewEvict \/ NewReturn

Next ==
  \/ \E k \in Key : Get(k) \/ Remove(k) \/ ContainsKey(k)
  \/ \E k \in Key, v \in Value : Reject(k, v) \/ Update(k, v) \/ BeginNew(k, v)
  \/ Loop
  \/ Size \/ TotalWeight \/ Clear

\* A thread inside insert keeps running: nothing it does waits for another one.
Spec == Init /\ [][Next]_vars /\ WF_vars(Loop)
-----------------------------------------------------------------------------
\* Slots, links, map entries and the call under way have their types; the total
\* weight is a usize.
TypeOK ==
  /\ ArenaType(arena, Item)
  /\ DOMAIN map \subseteq Key
  /\ \A k \in DOMAIN map : map[k] \in Slot
  /\ total \in 0..UsizeMax
  /\ call.op \in {"idle", "update", "new"}
  /\ call.op # "idle" => call.key \in Key /\ call.value \in Value
  /\ order \in Seq(Slot)

\* However loops, updates, removals and failed calls follow one another, the
\* prev/next pointers spell out one list of the occupied slots in the order of
\* their last access, and every vacated slot is on the free stack exactly once.
ListInOrder == InOrder(arena, order) /\ FreeExact(arena)

\* Every node can be found: its key is mapped, and to this very slot.  A node
\* that no key leads to would hold its weight until the next clear.
NodesMapped ==
  \A i \in Occupied(arena) :
    /\ arena.nodes[i].item.key \in DOMAIN map
    /\ map[arena.nodes[i].item.key] = i

\* What the linked nodes weigh together.
StoredWeight == SumFunction([i \in Occupied(arena) |-> arena.nodes[i].item.weight])

\* total_weight is the sum of the weights of the linked nodes, in the middle of
\* an insert too, and each node carries the weight of the value it holds.
WeightAccounted ==
  /\ total = StoredWeight
  /\ \A i \in Occupied(arena) :
       arena.nodes[i].item.weight = Weight[arena.nodes[i].item.value]

\* Whenever the lock is free, what is stored weighs no more than max_weight.
WithinBudget == call = Idle => StoredWeight <= MaxWeight

\* When insert returns, the key leads to the value just stored and its node is
\* the head: the eviction loop never reaches the entry it makes room for (the
\* comment at src/src/sized.rs:268-270 relies on it).
StoredSurvives ==
  reply[1] = "insert" /\ reply[2] \in {"some", "none"} /\ call = Idle =>
    /\ reply[3] \in DOMAIN map
    /\ map[reply[3]] = arena.head
    /\ arena.nodes[arena.head].item.value = reply[4]

\* The loops evict exactly the least recently accessed entry, and only while
\* the weight does not fit.
EvictsOldest ==
  [][call # Idle /\ Len(order') < Len(order) =>
       /\ order' = SubSeq(order, 1, Len(order) - 1)
       /\ total + (IF call.op = "new" THEN Weight[call.value] ELSE 0) > MaxWeight]_vars

\* Every insert returns: entries of weight zero do not keep a loop turning.
InsertReturns == (call # Idle) ~> (call = Idle)
=============================================================================
