---------------------------- MODULE ShardSizing ----------------------------
(***************************************************************************)
(* How a cache is constructed for a capacity chosen by the client: new of  *)
(* lru.rs, lfu.rs, ttl.rs and tinylfu.rs turns zero away, with_capacity    *)
(* splits the rest into shards, src/src/sharding.rs: the doubling loop of  *)
(* shard_count, then per_shard_capacity.  new of sized.rs turns zero away  *)
(* too and takes the rest for the one shard it has.                        *)
(***************************************************************************)
EXTENDS Integers

CONSTANT UsizeMax    \* usize::MAX, the largest capacity

ASSUME UsizeAssumption == UsizeMax \in Nat /\ UsizeMax >= 32

VARIABLES capacity,  \* the requested capacity or max_weight, a usize
          shards,    \* the local of shard_count, then the number of shards
          per_shard, \* the capacity of each shard, 0 until it is known
          pc         \* where the constructor is, or how it ended

vars == << capacity, shards, per_shard, pc >>

\* Mutant: half as many shards.
DEFAULT_SHARDS_half == 8

DEFAULT_SHARDS == 16

MIN_PER_SHARD == 16

\* usize::saturating_mul(2)
SatMul2(x) == IF 2 * x > UsizeMax THEN UsizeMax ELSE 2 * x

Init ==
  /\ capacity \in 0..UsizeMax
  /\ shards = 1
  /\ per_shard = 0
  /\ pc \in {"new", "new_sized"}

\* The one value of CacheError, and how the constructor ends with it.
InvalidCapacity == "error"

\* NonZeroUsize::new fails, or the check of SizedCache::new.
Invalid ==
  /\ pc \in {"new", "new_sized"} /\ capacity = 0
  /\ pc' = InvalidCapacity
  /\ UNCHANGED << capacity, shards, per_shard >>

\* SizedCache::new: one Mutex, the whole max_weight.
WithMaxWeight ==
  /\ pc = "new_sized" /\ capacity # 0
  /\ per_shard' = capacity
  /\ pc' = "sized"
  /\ UNCHANGED << capacity, shards >>

\* with_capacity enters shard_count, which returns at once for a small cache.
WithCapacity ==
  /\ pc = "new" /\ capacity # 0
  /\ pc' = IF capacity < SatMul2(MIN_PER_SHARD) THEN "split" ELSE "count"
  /\ UNCHANGED << capacity, shards, per_shard >>

\* Mutants: the caps are not looked at, or one step too late.
MayDouble_uncapped == SatMul2(shards) <= capacity \div MIN_PER_SHARD

MayDouble_late == shards <= capacity \div MIN_PER_SHARD /\ SatMul2(shards) <= DEFAULT_SHARDS

\* The condition of the while loop.
MayDouble ==
  SatMul2(shards) <= capacity \div MIN_PER_SHARD /\ SatMul2(shards) <= DEFAULT_SHARDS

\* Mutant: shards is not assigned.
Double_lost ==
  /\ pc = "count" /\ MayDouble
  /\ UNCHANGED vars

Double ==
  /\ pc = "count" /\ MayDouble
  /\ shards' = SatMul2(shards)
  /\ UNCHANGED << capacity, per_shard, pc >>

Counted ==
  /\ pc = "count" /\ ~MayDouble
  /\ pc' = "split"
  /\ UNCHANGED << capacity, shards, per_shard >>

\* Mutant: division rounds up.
SplitUp ==
  /\ pc = "split"
  /\ per_shard' = (capacity + shards - 1) \div shards
  /\ pc' = "done"
  /\ UNCHANGED << capacity, shards >>

\* per_shard_capacity
Split ==
  /\ pc = "split"
  /\ per_shard' = LET per == capacity \div shards IN IF per < 1 THEN 1 ELSE per
  /\ pc' = "done"
  /\ UNCHANGED << capacity, shards >>

\* The sizes never change once the shards exist.
Done == pc \in {"done", "sized", InvalidCapacity} /\ UNCHANGED vars

Construct == Invalid \/ WithMaxWeight \/ WithCapacity \/ Double \/ Counted \/ Split

Next == Construct \/ Done

Spec == Init /\ [][Next]_vars /\ WF_vars(Construct)
-----------------------------------------------------------------------------
\* shard_mask = shards - 1 selects every shard only if the count is a power of
\* two; here the ones up to DEFAULT_SHARDS.
TypeOK ==
  /\ capacity \in 0..UsizeMax
  /\ shards \in {1, 2, 4, 8, 16}
  /\ per_shard \in Nat
  /\ pc \in {"new", "new_sized", "count", "split", "done", "sized", InvalidCapacity}

\* All shards full, the cache holds at most the capacity asked for, and falls
\* short of it by at most shards - 1 entries (src/src/sharding.rs:53-56).
SplitIsTight ==
  pc \in {"done", "sized"} =>
    /\ per_shard >= 1
    /\ shards * per_shard <= capacity
    /\ capacity - shards * per_shard <= shards - 1

\* Sharding never leaves a shard with fewer than MIN_PER_SHARD entries, and it
\* stops short of DEFAULT_SHARDS only where one more doubling would.
ShardsAreWorthwhile ==
  pc = "done" => /\ shards > 1 => per_shard >= MIN_PER_SHARD
                 /\ shards < DEFAULT_SHARDS => capacity < 2 * shards * MIN_PER_SHARD

\* Every constructor returns, with a cache for every capacity but zero.
Terminates == <>(IF capacity = 0 THEN pc = InvalidCapacity ELSE pc \in {"done", "sized"})
=============================================================================
