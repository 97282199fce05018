# cache-mod in TLA+

This directory is a verification project for the crate `cache-mod`: thread-safe
in-process caches with five eviction policies behind one `Cache` trait. It holds
TLA+ models of the code under `src/src/`, TLC configurations that check them on
small instances, and TLAPS proofs of what matters most for all sizes.
`PROJECT.json` ties every definition to the lines it models, every property to a
bug in the code that it would catch, and every hazard to the properties that
cover it.

Paths such as `src/src/lru.rs` are relative to the parent of this directory; the
crate's sources are in `src/src/`, its documents in `src/docs/`, its tests in
`src/tests/`.

## 1. Inventory

| Component | State | Operations | What makes it correct |
|---|---|---|---|
| Arena list (`lru.rs`, copied in `sized.rs`, `tinylfu.rs`) | `nodes: Vec<Option<Node>>`, `free: Vec<usize>`, `head`, `tail` | `alloc`, `dealloc`, `unlink`, `push_front`, `promote` | one list of the occupied slots, the same in both directions, in order of last access; each vacant slot on the free stack exactly once |
| `LruCache` (`lru.rs`) | arena and `map: HashMap<K, usize>` per shard | `get`, `insert`, `remove`, `contains_key`, `len`, `clear` | map and arena one to one; `len <= capacity`; the evicted entry is the least recently accessed |
| `SizedCache` (`sized.rs`) | one Mutex, arena, map, `total_weight` | the same, plus `total_weight` | `total_weight` is the sum of the stored weights and at most `max_weight`; the oldest entries go first; a stored entry survives its own insert |
| `LfuCache` (`lfu.rs`) | map of `(value, count, age)`, `by_priority: BTreeMap<(count, age), K>`, `clock` | the same | map and index describe the same entries; ages are unique and follow the accesses; least often used goes first, then least recently used |
| `TtlCache` (`ttl.rs`) | map of `(value, expires_at)`, default ttl | the same, plus `insert_with_ttl` | no value is served after its deadline; entries that are live go only when there is nothing else to evict |
| `TinyLfuCache` (`tinylfu.rs`) | LRU shard and a Count-Min sketch | the same | admission only if the estimate of the candidate exceeds that of the victim; estimates never fall below the (aged) number of accesses |
| Constructors (`new`, `with_capacity` of the five caches), `CacheError` (`error.rs`) | the chosen sizes | `new`, `with_capacity`, `CountMinSketch::new` | capacity zero is an error, every other one gives a cache; no size overflows |
| Sharding (`sharding.rs`) | `shards: Box<[Mutex<I>]>`, `shard_mask` | `shard_count`, `per_shard_capacity`, `shard_for`, `iter` | a power of two of shards, none too small, together not above the capacity; a key always in the same shard |
| Lock recovery (`util.rs`) | the Mutexes' poison flags | `lock_recover` | a panic in one call never blocks another |
| `Cache` trait (`cache.rs`) | none | the contract, `is_empty` | what the policies below state; `is_empty` is `len() == 0` and as weak as `len` |
| Crate root (`lib.rs`) | none | re-exports | not modelled |

**How they interact.** A cache is an array of shards, each an `Inner` struct in a
Mutex (`SizedCache` has exactly one). A call on a key hashes it, locks that shard,
works on `Inner` and drops the guard. `len`, `is_empty` and `clear` go through all shards
and lock one at a time. There are no background threads, messages or files; what runs
inside a critical section besides the crate's code is the client's `Clone`, `Hash`
and `Eq`, and in `SizedCache` its `weigher`, which runs before the lock is taken.

**What is hard.**

* The list is rewritten in place, in safe Rust, through indices: a wrong link shows
  many calls later.
* Slots are recycled, so an index that outlives its entry aliases another one.
* Two structures (map and arena, map and index) must change together, while user
  code that may panic runs in between. `lock_recover` then lets the next caller in.
* `len`, `is_empty` and `clear` are not atomic over shards.
* `SizedCache::insert` has two loops that must end and must stop in time.
* Counters and sums saturate, and a saturated sum from which something is subtracted
  is wrong.
* A cell index outside the sketch is not an error: it reads 0 and is never written.
* `TtlCache` reads the clock before it waits for the lock.

## 2. Plan

Done, in this order:

1. `Recency`, `Arena`: sequences ordered by recency; the arena and its operations.
2. `LruPolicy`, `LruCache`: the abstract LRU cache and the shard that implements it.
3. `ArenaProofs`, `LruProofs`: the invariants of the shard for every capacity.
4. `SizedCache`, `MCSizedCache`, `MCSizedReads`: the same arena bounded by weight.
5. `LfuPolicy`, `LfuCache`, `LfuPanics`: the indexed LFU shard and its panics.
6. `ShardSizing`, `ShardProofs`: how many shards and how large.
7. `ShardedCache`: threads, Mutexes, poison, `len` and `clear`.
8. `TtlPolicy`, `TtlCache`: a clock, threads that wait with a deadline in hand, lazy
   expiry.
9. `Sketch`, `TinyLfuPolicy`, `TinyLfuCache`, `TinyLfuProofs`: the LRU shard with a
   Count-Min sketch and an admission filter, and that no key is turned away for ever.
10. The constructors in `ShardSizing`, `SketchSizing`: the sketch a shard gets.
11. `MCEmptyReads` and `SizedUsizeLimit.cfg`: `is_empty` against concurrent writers,
    and `SizedCache` with a budget above half of `usize::MAX`.
12. `ArenaProofs`, `LruProofs`, `TinyLfuProofs` extended; `SizedProofs`, `LfuProofs`,
    `TtlProofs`, `ShardedProofs`, `ShardProofs` on `SketchSizing`: every invariant,
    action property and refinement of a passing run as a theorem (section 5).

Next: the bound of the whole cache as one statement, from `SplitIsAlwaysTight`,
`CapacityHolds` and the `CapacityCorrect` of each shard; what of `LfuCache` survives a
panicking `Clone`, and what of the map of `SizedCache` holds in spite of its dead
keys, as positive counterparts of findings 1 to 3.

## 3. The models

### Arena and Recency

`Arena` is a record `[nodes, slots, free, head, tail]`. `nodes` is a function on the
*occupied* slots, `slots` is the length of the Vec, slots are numbered from 1 and 0
is `None`. `unlink`, `push_front`, `promote`, `alloc` and `dealloc` are functions
from arenas to arenas, assignment by assignment. What a node carries (key and value,
or key, value and weight) is its `item`.

`InOrder(a, s)` says that `head`, `tail` and the links spell out the sequence `s` in
both directions and that `s` lists the occupied slots once each; `FreeExact(a)` that
the free stack lists the vacant slots once each. The sequence `s` comes from the
history variable `order` of the caches, which records accesses in the abstract and
which no action reads.

### LruCache

One action per operation, each a whole critical section. `reply` records what the
call returned. `insert` is `Replace` for a mapped key and `Add` otherwise; `Add`
passes through `RoomyArena`/`RoomyMap`, what the optional eviction leaves. A
panicking `V::clone` in `get` (after the promotion) and a panicking `K::clone` in
`insert` (after the eviction, before the allocation) are outcomes of their actions.
`LruPolicy` is the cache a client has in mind: entries and a recency order, with no
arena; `ImplementsPolicy` is refinement by `INSTANCE ... WITH`.

### SizedCache

`insert` is split where it loops: `Update` or `BeginNew`, then `UpdateEvict` or
`NewEvict` once per turn, then `UpdateReturn` or `NewReturn`. `call` is the insert
that holds the lock and no other action is enabled until it returns, as under the
Mutex. The `unreachable!()` arms are outcomes with the reply `"unreachable"`; what
the call had done up to there stays. `remove` of a key with a vacant slot, for
instance, has already taken the key out of the map.

### LfuCache and LfuPanics

`by_priority` is a function from `(count, age)` pairs to keys, `First` its least
pair. `CountMax` stands for `u64::MAX` and is small enough to saturate. `LfuPolicy`
has counts and a recency order instead of ages and an index. `LfuPanics` adds the
places where a `Clone` cuts a call short: two in `get` (`GetPanics`, with the index
untouched or half moved) and one in `insert`.

### TtlCache

Every call reads the clock under the lock and is one action, except the inserts:
`insert` and `insert_with_ttl` differ in the ttl, `Begin` computes the deadline,
`Overwrite` or `Add` stores it later, with ticks and other calls in between. Of several entries with the same least deadline
`min_by_key` returns the one the `HashMap` iterates first, so the victim is a choice.
`granted` is a history: the insert each entry comes from.

`TtlPolicy` keeps the live entries in `entries`; one that expires leaves them at that
moment. The mapping takes the live entries of the map. `get`, `insert`,
`contains_key` and `len` answer from the live entries alone, and one of them is
evicted only where all are live, although dead entries stay in the map and count
towards the capacity. Expired entries can be observed in two ways, and the policy
has them as exceptions:

* `remove` returns the value of an expired entry that no call has come across yet
  (`src/src/ttl.rs:206-209`). The policy's `expired` has these values, so `remove`
  answers with exactly that value or with none. A test of `insert` says what a user
  expects, "expired = gone", not "expired = silently returned"
  (`src/tests/smoke.rs:316-318`); `insert` does as it says and `remove` does not.
* An insert whose deadline has passed while it waited for the lock is stored as an
  expired entry, and still makes a shard full of live entries give up one.

### Sketch, TinyLfuCache

`Sketch` is the Count-Min sketch as a function of row and column; which cells a key
has is the constant `Column`. `TinyLfuCache` extends `LruCache`, whose arena code
`tinylfu.rs` repeats line for line: each operation is the one of the LRU shard plus
what it does to the sketch, and `TinyReject` is the insert that is turned away, or
that ends in a panic of the victim's `Clone`. `hits` is a history, the exact
count the sketch estimates, halved and saturated like it. `TinyLfuPolicy` is
`LruPolicy` with rejections. `EventuallyAdmitted` says what aging is for: a key that
some row tells from each other key (`ToldApart`), and that is the only one still
accessed, is in the cache again and again if it is inserted again and again. Without
that row the estimates of the key and of the tail can be equal for ever, and the code
lets such a key starve.

### ShardSizing and SketchSizing

A constructor called with a capacity from `0..UsizeMax`: `Invalid` is the error,
`WithCapacity` the early return of `shard_count` or the entry into its doubling loop,
then one turn a step, then `per_shard_capacity`. `SizedCache::new`, which has its own
check for zero and exactly one shard, is `Invalid` or `WithMaxWeight`. `SketchSizing` adds the sketch that
`CountMinSketch::new` builds for a shard of that capacity, and where `cell` puts a
column of a row, with the width of `usize`. Its powers of two are a recursive function,
`PowerOfTwo`, so that they can be reasoned about.

### ShardedCache

Threads begin a call, wait for the Mutex (`Lock`), and run one critical section per
shard. A shard is the set of keys it holds; which one an insert evicts, whether it
is admitted and whether an entry is found expired is left open, so the results hold
for all four sharded caches. That includes `LfuCache` after a panicking `Clone`,
which may then find no victim (finding 3): an insert into a full shard that is
poisoned may evict nothing. `Init` allows any poison flags and any finite contents
that an earlier use can have left; only a poisoned shard may be above its capacity.
`CapacityContract` promises the capacity for shards in which no call has panicked,
and for `LfuCache` no more than that is true; the other three keep theirs in spite of
panics.
`steady` and `seen` are histories: the keys cached throughout, and at some time
during, a `len`, `is_empty` or `clear`. `MCEmptyReads` adds the history `bare`, the
`is_empty` calls during which the cache was empty at some moment, and leaves out
expiry, so that its trace is one of an `LruCache`.

## 4. Runs

| Run | Bounds | Result |
|---|---|---|
| `lru_shard` | 4 keys, 2 values, capacity 3 | type, list, map, slots, capacity; refines `LruPolicy` |
| `sized_cache` | 3 keys; weights 0, 1, 3, 4; `max_weight` 3; `usize::MAX` 7 | list, nodes, weight, budget; the stored entry survives; the oldest goes; insert returns |
| `sized_unreachable` | the same | **violated**, finding 1 |
| `sized_last_write` | the same | **violated**, finding 2 |
| `sized_usize_limit` | the same, `max_weight` 6 | **violated**, finding 5 |
| `lfu_shard` | 4 keys, 2 values, capacity 3, counters up to 3, 7 ticks between clears; symmetry of keys and of values | map and index match, ages follow accesses, capacity; refines `LfuPolicy` |
| `lfu_clone_panics` | 3 keys, capacity 1 | **violated**, finding 3 |
| `ttl_shard` | 2 threads, 3 keys, 2 values, capacity 2; ttls 1 and beyond the last Instant; clock up to 2; symmetry of keys, values and threads | types, capacity, each entry lives for its ttl; refines `TtlPolicy`, with its two exceptions for expired entries |
| `tinylfu_shard` | 3 keys, 2 values, capacity 2; 2 rows of 2 counters up to 3, window 4; each row is shared by a different pair of keys | types, map, estimates close to the counts, popular entries stay, nobody is turned away for ever; refines `TinyLfuPolicy` |
| `shard_sizing` | every capacity of a 10-bit `usize`, sharded caches and `SizedCache` | error for zero only, tight, worthwhile, the sketch fits, terminates |
| `sharded_calls` | 2 threads, 2 calls each, 2 shards of capacity 1, 3 keys of which two collide | no deadlock, one guard each, capacity of shards without a panic, honest `len` and `is_empty`, thorough `clear`, calls return |
| `is_empty_true` | the same, entries only go by a call | **violated**, finding 4 |

**Why the bounds are enough.** Capacity 3 gives a list with a head, a middle and a
tail, so that every case of `unlink` and `promote` occurs, and a fourth key forces
eviction. The weights are zero (a loop turn that frees nothing), a third, all and
more than all of the budget, so that one insert can evict several entries and one
is rejected. LFU counters saturate at 3 within 7 ticks, and two entries reach the
maximum. The shard count changes for the last time at capacity 256; a 10-bit `usize` has
capacities on both sides of that, and 1023 entries in 16 shards of 63 are the
largest sketch such a machine can be asked for. With a 10-bit `usize` the largest shard
is as close to overflow as with 64 bits: 4 rows of twice the entries are half of
`usize`. A `max_weight` of 6 is more than half of a `usize::MAX` of 7.
Two time units let an entry expire while another thread waits
with an older deadline, and a far deadline against a near one decides who is evicted.
A window of 4 lets counters reach their maximum of 3 and be halved, repeatedly, with
every kind of collision: one shared row, the other one, none. Two threads suffice for a sweep and a writer on both sides of it, and for two sweeps
that meet; two colliding keys in a shard of capacity 1 make an insert evict while
another thread counts. Symmetry is only used where no liveness property is checked.

**Deadlock** is checked in every run. `Quiet` in `ShardedCache` and `Done` in
`ShardSizing` are the states in which nothing is left to do.

**Fairness.** `SizedCache` assumes `WF_vars(Loop)`: a thread inside `insert` waits for
nobody. `ShardSizing` the same for its loop. `ShardedCache` assumes weak fairness of
each thread's steps, the least a scheduler gives, and nothing about who gets a Mutex
next, because `std::sync::Mutex` promises nothing. `CallsReturn` therefore
relies on the number of calls being bounded: with endless competing calls a waiter
may starve, and the code has no protection against that. No fairness is assumed of
clients: that one key is inserted again and again is a premise of
`EventuallyAdmitted`, not part of `TinySpec`.

### Findings

1. **`SizedCache` overwrite leaves dead keys** (`src/src/sized.rs:264`). When an
   overwrite pushes the weight over the budget, the loop drops the key
   `evict_tail` returns instead of removing it from `map`. The next `get`, `insert`
   or `remove` of that key panics at an `unreachable!()`, against "every public
   method is panic-free given valid arguments" (`src/src/lib.rs:27-28`). The loop for
   new entries (lines 275-282) does remove the key.
2. **... and they come back as other keys.** Once the freed slot is reused, `get` of
   the evicted key returns the value of another key, against "every value stored
   matches the most recent `insert` for that key" (`src/tests/properties.rs:5-6`).
   The list, the free stack and the weight stay right all the same: `NodesMapped` and
   `WeightAccounted` hold in the presence of dead keys.
3. **A panicking `Clone` breaks `LfuCache` for good** (`src/src/lfu.rs:144`). `get`
   changes the entry, clones, then moves the index entry; a panic in between leaves
   the two apart, and a later insert exceeds the capacity, against "The cache's
   invariants are not weakened by a poisoned lock" (`src/src/util.rs:10-11`). `LruCache`
   does not have this problem: `lru_shard` includes its panics. `CapacityContract`
   therefore excepts poisoned shards.
4. **`is_empty` can be true of a cache that is never empty** (`src/src/cache.rs:84`).
   While `is_empty` is between two shards, an insert into the counted one and a remove
   from the other leave both counts at zero, although one of the two keys was cached
   at every moment. "Returns `true` when the cache holds no entries"
   (`src/src/cache.rs:82`) has no caveat; the one for `len` (lines 74-78) is not
   repeated. What does hold is `LenIsHonest`: a key cached throughout is counted.
5. **`SizedCache` can exceed a huge budget** (`src/src/sized.rs:257`). The overwrite
   adds the new weight, saturating, and then subtracts the old one, so that with
   `max_weight` above half of `usize::MAX` the total is too small by what was cut off:
   the entries weigh more than `max_weight`, "maximum total byte-weight across
   entries" (`src/docs/API.md:221`).
   `sized_cache` shows that the budget holds with a smaller `max_weight`, and
   `BudgetHolds` proves it for every `max_weight` up to half of `usize::MAX`.

## 5. Proofs

Every invariant, action property and refinement that a passing run checks is also a
theorem, for every value of the constants that the assumptions allow. The bounds that
only keep TLC finite (`MaxClock`, `MaxTime`, `MaxCalls`) are arbitrary numbers in the
proofs. Each component has one inductive invariant, `IInv`; its proof has one case
per action, and the theorems about the run's properties follow from it.

| Module | Theorems | Assumptions beyond the types of the constants |
|---|---|---|
| `LruProofs` | `TypeCorrect`, `ListCorrect`, `MapCorrect`, `SlotsCorrect`, `CapacityCorrect`, `Refinement` | none |
| `SizedProofs` | `TypeCorrect`, `ListCorrect`, `NodesReachable`, `InsertSurvives`, `EvictionOrder` | none |
| | `AccountsExactly`, `BudgetHolds` | `2 * MaxWeight <= UsizeMax`; finding 5 is why |
| `LfuProofs` | `TypeCorrect`, `IndexCorrect`, `AgesCorrect`, `CapacityCorrect`, `Refinement` | no `Clone` panics; finding 3 is why |
| `TtlProofs` | `TypeCorrect`, `CapacityCorrect`, `TtlHonoured`, `Refinement` | the clock stays `FAR_FUTURE` away from the last `Instant` |
| `TinyLfuProofs` | `TinyMapCorrect`, `TinyTypeCorrect`, `TinyRefinement`, `FilterCorrect` | none |
| | `EstimateCorrect` | finitely many keys |
| `ShardProofs` | `CountIsPowerOfTwo`, `SplitIsAlwaysTight`, `ShardsAreAlwaysWorthwhile` | `UsizeMax >= 32` |
| | `SketchAlwaysFits` | `UsizeMax` is 2^n - 1 and at least 511 |
| `ShardedProofs` | `TypeCorrect`, `OneGuard`, `CapacityHolds`, `HonestLen`, `ThoroughClear` | a shard count that `shard_count` returns |

**Arena.** `ArenaProofs` proves what the list operations do to any arena: promotion,
replacement, release (unlink and dealloc) and insertion (alloc and push_front) each
take an arena whose links spell out `s` to one whose links spell out `s` with the
slot moved, kept, taken out or put in front, and keep the free stack exact. The only
assumption is that the arena was in order before. The `Relabel` lemmas say that the
same operations on the slots are those operations on the keys the slots hold, which
is what the refinements need.

**Sums and powers.** The library's induction theorems take an operator as a
parameter, which the provers cannot instantiate. `LeastNat` and `LeastSubset` replace
them: a non-empty set of numbers has a least element, and a set of finite sets has
one from which nothing can be taken away. With the set of counterexamples for
argument, "there is no least counterexample" is induction, first-order. `SumNat`,
`SumRemove`, `SumSame`, `SumChange` and `SumHalves` follow, for
`SumFunctionOnSet` of the community modules, and `PowersExist`, that the recursion of
`PowerOfTwo` has a solution.

**LruCache.** The inductive invariant is the conjunction of the five properties,
because none is inductive alone:
that the evicted tail is a node needs the list; that its key is the one to unmap
needs the map; that `alloc` returns a vacant slot needs the free stack; that the Vec
does not outgrow the capacity needs the free stack (it only grows when every slot
is occupied) and the bijection between map and slots (so that it then has `len`
slots). `Sound(a, m, s)` states the same of any arena, map and order, because insert
goes through an intermediate state, between eviction and allocation, that no
variable holds. One lemma per list operation preserves `Sound`; `NextIInv` has one
case per action. `Refinement` maps the map to the values it leads to and the order of
slots to the order of their keys; one lemma per list operation says what it does to
the two (`PromoteRefines`, `ReplaceRefines`, `ReleaseRefines`, `InsertRefines`), and
`NextRefines` has again one case per action, panics included.

**SizedCache.** The list and node invariants do not need the map to be right: a dead
key only makes a call panic, and `Sound` says nothing of it. What keeps the loop after
an overwrite from evicting the very entry it stored is `TotalInv`: `total` never
*exceeds* what the nodes weigh, whatever saturates. So when that entry is the only
one left, `total` is at most its weight, which fits (`HeadIsSafe`). Hence
`InsertSurvives` and `EvictionOrder` hold for every `max_weight`. The other
inequality fails beyond half of `usize`, and `AccountsExactly` and `BudgetHolds` have
that hypothesis. Their invariant `Exact` adds that between calls `total <= MaxWeight`
and during the overwrite loop `total <= 2 * MaxWeight`, so that no sum saturates.

**LfuCache.** `Sound(m, b, c, s)` relates map, index, clock and order: each key has
exactly the place `(count, age)` in the index, ages are between 1 and the clock and
fall along the order. Uniqueness of ages is what keeps two entries with saturated
counters apart in the index, and that ages are at most the clock is what keeps the
next one unique. `TakeSound` and `PutSound` are the two halves every operation is made
of. For `Refinement`, `LeastPair` shows that the index, being finite, has a first
place, and `VictimIsFirst` that its key is the one the policy chooses: least count,
and then last in the order of accesses.

**TtlCache.** `LivesForItsTtl` is not inductive: it says nothing of the inserts that
wait for the lock. `IInv` adds that each of them carries the deadline that its time of
call and its ttl give (`CallsInv`). `Refinement` maps the live
entries to `entries` and the values of the dead ones (`Unseen`) to `expired`. A tick
is the policy's tick, which moves what expires from one to the other (`TickRefines`);
dropping a dead entry under a call only takes it from `expired`. An insert into a full
shard gives up at most a dead entry if there is any, because the least deadline is
then a dead one's, and otherwise evicts one of the entries that expire soonest
(`AddRefines`). That `remove` returns the expired entry's own value, and nothing else,
is what the second part of the mapping is for.

**TinyLfuCache.** Every step is a step of the LRU shard or leaves arena, map and order
alone, so `IInv` and with it `TinyMapCorrect` carry over (`TinyStep`, `SameIInv`);
`TinyRefinement` reuses `NextRefines`. `SketchInv` says that no cell of a key is below
the key's aged count; counting keeps it because every cell of the key goes up with
the count, aging because halving is monotone, and saturation because both saturate at
the same number. `FilterCorrect` follows with the fact that a full shard has a tail.
The upper bound of `EstimateCorrect` is inductive per cell (`NeverFarOver`): a count
adds one on both sides, and halving n counts one by one loses at most n of their
sum (`SumHalves`), which the slack of n - 1 absorbs when the cell itself is halved.

**ShardSizing and SketchSizing.** The invariant
covers both constructors from `new` on and adds that the shards made so far would hold
`MIN_PER_SHARD` entries each and that the loop only ends where another doubling is not
allowed. `SketchAlwaysFits` uses that a capacity from 256 on is split over 16 shards:
twice the entries of a shard are then at most an eighth of `usize`, the next power of
two is less than twice that, and four rows of it fit (`NextPowerFacts`, `SketchFacts`,
`CellFacts`).

**ShardedCache.** `LenIsHonest` and `ClearIsThorough` speak of the end of a call.
`CountInv` and `ClearInv` are what they come from: the same bounds for the shards
gone through so far. They are preserved because a key is only ever in its own shard
(`OwnKeys`), so what others do in the shards still to come cannot touch
the part already counted, and `steady` only shrinks and `seen` only grows.
`CapacityHolds` rests on `WithinCapacity`, for the shards whose Mutex is not poisoned,
and on `BoundInv`: while none is, a sweep has counted at most the room in the shards
it has gone through. Poison is never cleared, so a shard that loses the bound never
gets the promise back. None of the other theorems needs a capacity.
`Routed` says that a call on a key works on the shard of that key.

## 6. Only model-checked

Liveness: `InsertReturns`, `Terminates`, `CallsReturn` and `EventuallyAdmitted`.
Reasoning under fairness needs `ENABLED`, which is out of the prover's reach. The
absence of deadlock, for the same reason. The violated properties are
counterexamples and need no proof.

## 7. Not modelled

* The hash functions: they are the constants `Column` and `Hash`. `Sketch` takes the
  width and the window as constants; `SketchSizing` checks separately which ones
  `CountMinSketch::new` chooses.
* A clock within a hundred years of the last `Instant`, where the last resort of
  `compute_deadline` would apply; `TtlAssumption` excludes it.
* Panics of `Hash`, `Eq` and `Drop`, and inconsistent implementations of the first
  two. A panicking `Drop` is run by `HashMap::clear` or by an assignment in the middle
  of a call and leaves whatever std leaves. A `weigher` that panics does so before the
  lock is taken and changes nothing.
* Wrapping of the `u64` clock of `LfuCache`, 2^64 calls away.
* Memory and allocation failure. `with_capacity` reserves room for all entries at once
  and so panics for a capacity that memory cannot hold, although it is documented as
  infallible (`src/src/lru.rs:77`).
* `capacity` and `max_weight`, which return a field that never changes, and the crate
  root, which only exports.
* `HashMap` and `BTreeMap` themselves: they are taken as the finite functions they
  implement. Benchmarks and examples.
