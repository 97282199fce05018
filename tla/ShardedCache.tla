--------------------------- MODULE ShardedCache ---------------------------
(***************************************************************************)
(* Threads calling a sharded cache: Sharded of src/src/sharding.rs, the    *)
(* lock_recover of src/src/util.rs, and how the operations of lru.rs,      *)
(* lfu.rs, ttl.rs and tinylfu.rs use them.  A call on a key locks the one  *)
(* shard the key hashes to; len, is_empty (len() == 0, src/src/cache.rs)   *)
(* and clear lock every shard in turn, one at a time, and let go of each   *)
(* before the next.                                                        *)
(*                                                                         *)
(* A shard is the set of the keys it holds.  Which key an insert evicts,   *)
(* whether TinyLfuCache admits one at all, whether TtlCache finds an entry *)
(* expired and whether LfuCache still finds a victim after a panic is left *)
(* open: what is stated here holds for every policy.                       *)
(*                                                                         *)
(* Two history variables record, for each len, is_empty and clear, the     *)
(* keys that have been cached all the time since the call began and those  *)
(* that have been cached at any time since.  No action reads them.         *)
(***************************************************************************)
EXTENDS Naturals, FiniteSets

CONSTANTS Thread,     \* the client threads
          Key,        \* the keys clients use
          Hash,       \* the hash of each key
          NumShards,  \* shards.len()
          PerShard,   \* the capacity of a shard
          MaxCalls    \* bound of the model: calls per thread

ASSUME ShardAssumption ==
  /\ Hash \in [Key -> Nat]
  /\ NumShards \in {1, 2, 4, 8, 16}
  /\ PerShard \in Nat \ {0}
  /\ MaxCalls \in Nat

VARIABLES shard,      \* the keys each shard holds
          owner,      \* the thread that holds the guard of each Mutex, or Free
          poisoned,   \* the poison flag of each Mutex
          pc,         \* the call of each thread and how far it is
          calls,      \* calls begun by each thread
          steady,     \* history: keys cached throughout a len or clear
          seen        \* history: keys cached at some time during it

vars == << shard, owner, poisoned, pc, calls, steady, seen >>

Index == 0..(NumShards - 1)

Free == "free"

KeyOps == {"get", "insert", "remove", "contains_key"}

CountOps == {"len", "is_empty"}

SweepOps == CountOps \cup {"clear"}

\* Mutant: the shard a key goes to depends on what the shards hold.
shard_for_by_load(k) ==
  IF Cardinality(shard[Hash[k] % NumShards]) < PerShard THEN Hash[k] % NumShards
  ELSE (Hash[k] + 1) % NumShards

\* hash & shard_mask, where shard_mask + 1 = NumShards is a power of two.
shard_for(k) == Hash[k] % NumShards

Cached == UNION {shard[i] : i \in Index}

\* A call: what it is, whether it has returned, where it stands, what it counted.
Call(op, busy, k, at, sum) == [op |-> op, busy |-> busy, key |-> k, at |-> at, sum |-> sum]

NoKey == "none"

\* Any contents an earlier, finished use of the cache can have left; only a shard
\* in which a call has panicked can hold more than its capacity.
Init ==
  /\ shard \in [Index -> SUBSET Key]
  /\ poisoned \in [Index -> BOOLEAN]
  /\ \A i \in Index : /\ IsFiniteSet(shard[i])
                      /\ ~poisoned[i] => Cardinality(shard[i]) <= PerShard
                      /\ \A k \in shard[i] : shard_for(k) = i
  /\ owner = [i \in Index |-> Free]
  /\ pc = [t \in Thread |-> Call("new", FALSE, NoKey, 0, 0)]
  /\ calls = [t \in Thread |-> 0]
  /\ steady = [t \in Thread |-> {}]
  /\ seen = [t \in Thread |-> {}]

\* The caller starts; a sweep is watched from here on.
Begin(t, op, k, at) ==
  /\ ~pc[t].busy
  /\ calls[t] < MaxCalls
  /\ calls' = [calls EXCEPT ![t] = @ + 1]
  /\ pc' = [pc EXCEPT ![t] = Call(op, TRUE, k, at, 0)]
  /\ LET watched == IF op \in SweepOps THEN Cached ELSE {}
     IN steady' = [steady EXCEPT ![t] = watched] /\ seen' = [seen EXCEPT ![t] = watched]
  /\ UNCHANGED << shard, owner, poisoned >>

Holds(t) == pc[t].busy /\ owner[pc[t].at] = t

\* Mutant: a poisoned lock is not recovered.
Available_healthy(i) == owner[i] = Free /\ ~poisoned[i]

\* lock_recover waits for the guard, and takes it whether poisoned or not.
Available(i) == owner[i] = Free

Lock(t) ==
  /\ pc[t].busy
  /\ Available(pc[t].at)
  /\ owner' = [owner EXCEPT ![pc[t].at] = t]
  /\ UNCHANGED << shard, poisoned, pc, calls, steady, seen >>

\* The history after a step that leaves a shard with the keys ks.
Watch(i, ks) ==
  LET cached == ks \cup UNION {shard[j] : j \in Index \ {i}}
      sweeps == {t \in Thread : pc[t].busy /\ pc[t].op \in SweepOps}
  IN /\ steady' = [t \in Thread |-> IF t \in sweeps THEN steady[t] \cap cached ELSE steady[t]]
     /\ seen' = [t \in Thread |-> IF t \in sweeps THEN seen[t] \cup cached ELSE seen[t]]

\* Mutant: a sweep keeps the guard of a shard while it waits for the next.
Dropped_by_key_ops(i) ==
  IF pc[owner[i]].op \in KeyOps THEN [owner EXCEPT ![i] = Free] ELSE owner

\* The guard goes out of scope.
Dropped(i) == [owner EXCEPT ![i] = Free]

\* The critical section of the thread that holds shard i ends: the shard is left
\* with the keys ks and the guard is dropped.
Leave(i, ks) ==
  /\ shard' = [shard EXCEPT ![i] = ks]
  /\ owner' = Dropped(i)
  /\ Watch(i, ks)
  /\ UNCHANGED calls

Returned(t) == [pc EXCEPT ![t].busy = FALSE]

\* Mutant: an insert only makes room once the shard is over capacity.
RoomFor_late(i, k) ==
  IF k \in shard[i] \/ Cardinality(shard[i]) <= PerShard THEN {shard[i]}
  ELSE {shard[i] \ {v} : v \in shard[i]}

\* What an insert of k can leave of shard i, before k itself: an absent key at
\* capacity costs one entry.  After a panic the index of LfuCache may be empty, or
\* name a key that is gone (LfuPanics); then it costs none.
RoomFor(i, k) ==
  IF k \in shard[i] \/ Cardinality(shard[i]) < PerShard THEN {shard[i]}
  ELSE {shard[i] \ {v} : v \in shard[i]} \cup (IF poisoned[i] THEN {shard[i]} ELSE {})

\* get and contains_key; TtlCache drops an entry it finds expired.
Read(t) ==
  /\ Holds(t) /\ pc[t].op \in {"get", "contains_key"}
  /\ LET i == pc[t].at IN \E ks \in {shard[i], shard[i] \ {pc[t].key}} : Leave(i, ks)
  /\ pc' = Returned(t)
  /\ UNCHANGED poisoned

\* insert; TinyLfuCache may turn the new entry away.
Insert(t) ==
  /\ Holds(t) /\ pc[t].op = "insert"
  /\ LET i == pc[t].at
         k == pc[t].key
     IN \/ \E ks \in RoomFor(i, k) : Leave(i, ks \cup {k})
        \/ Cardinality(shard[i]) >= PerShard /\ Leave(i, shard[i])
  /\ pc' = Returned(t)
  /\ UNCHANGED poisoned

Remove(t) ==
  /\ Holds(t) /\ pc[t].op = "remove"
  /\ Leave(pc[t].at, shard[pc[t].at] \ {pc[t].key})
  /\ pc' = Returned(t)
  /\ UNCHANGED poisoned

\* A Clone panics under the lock: of the value or the key in get, of a key in
\* insert, before (TtlCache, TinyLfuCache) or after the eviction.  Dropping the
\* guard while unwinding poisons the Mutex, for good.
Panic(t) ==
  /\ Holds(t) /\ pc[t].op \in {"get", "insert"}
  /\ LET i == pc[t].at IN
       /\ \/ pc[t].op = "get" /\ Leave(i, shard[i])
          \/ pc[t].op = "insert" /\ \E ks \in RoomFor(i, pc[t].key) \cup {shard[i]} : Leave(i, ks)
       /\ poisoned' = [poisoned EXCEPT ![i] = TRUE]
  /\ pc' = Returned(t)

\* Mutant: the index runs one past the last shard.
Onward_past(t, n) ==
  [pc EXCEPT ![t].sum = @ + n, ![t].at = @ + 1, ![t].busy = pc[t].at + 1 \in Index]

\* A sweep goes on to the next shard, or returns after the last one.
Onward(t, n) ==
  [pc EXCEPT ![t].sum = @ + n,
             ![t].at = IF @ + 1 \in Index THEN @ + 1 ELSE @,
             ![t].busy = pc[t].at + 1 \in Index]

\* One turn of the loop of len; TtlCache purges expired entries before it counts.
Count(t) ==
  /\ Holds(t) /\ pc[t].op \in CountOps
  /\ \E ks \in SUBSET shard[pc[t].at] :
       /\ Leave(pc[t].at, ks)
       /\ pc' = Onward(t, Cardinality(ks))
  /\ UNCHANGED poisoned

\* Mutant: a poisoned shard is passed over.
Wiped_healthy(i) == IF poisoned[i] THEN shard[i] ELSE {}

\* What clear leaves of a shard.
Wiped(i) == {}

\* One turn of the loop of clear.
Wipe(t) ==
  /\ Holds(t) /\ pc[t].op = "clear"
  /\ Leave(pc[t].at, Wiped(pc[t].at))
  /\ pc' = Onward(t, 0)
  /\ UNCHANGED poisoned

\* Every thread has made its calls.
Quiet ==
  /\ \A t \in Thread : ~pc[t].busy /\ calls[t] = MaxCalls
  /\ UNCHANGED vars

Step(t) == Lock(t) \/ Read(t) \/ Insert(t) \/ Remove(t) \/ Panic(t) \/ Count(t) \/ Wipe(t)

Next ==
  \/ \E t \in Thread, op \in KeyOps, k \in Key : Begin(t, op, k, shard_for(k))
  \/ \E t \in Thread, op \in SweepOps : Begin(t, op, NoKey, 0)
  \/ \E t \in Thread : Step(t)
  \/ Quiet

\* The scheduler runs every thread that can run.  A Mutex promises no order
\* among its waiters, so nothing is assumed of who gets it next.
Spec == Init /\ [][Next]_vars /\ \A t \in Thread : WF_vars(Step(t))
-----------------------------------------------------------------------------
\* Shards, guards and calls have their types; a sweep stays within the shards.
TypeOK ==
  /\ shard \in [Index -> SUBSET Key]
  /\ owner \in [Index -> Thread \cup {Free}]
  /\ poisoned \in [Index -> BOOLEAN]
  /\ pc \in [Thread -> [op : KeyOps \cup SweepOps \cup {"new"}, busy : BOOLEAN,
                        key : Key \cup {NoKey}, at : Index, sum : Nat]]
  /\ calls \in [Thread -> 0..MaxCalls]
  /\ steady \in [Thread -> SUBSET Key] /\ seen \in [Thread -> SUBSET Key]

\* A thread never holds a guard other than the one of the shard it works on, so
\* no two threads can wait for each other; none is held after the call.
OneGuardEach ==
  \A i \in Index : owner[i] # Free => pc[owner[i]].busy /\ pc[owner[i]].at = i

\* A shard in which no call has panicked never exceeds its capacity, and as long
\* as that is so of all shards, len and is_empty never count more than all of them
\* have room for, although entries come and go between their turns (docs/API.md,
\* Capacity contract).  After a panic neither need hold of LfuCache.
CapacityContract ==
  /\ \A i \in Index : ~poisoned[i] => Cardinality(shard[i]) <= PerShard
  /\ (\A i \in Index : ~poisoned[i]) =>
       \A t \in Thread : pc[t].op \in CountOps => pc[t].sum <= NumShards * PerShard

\* len is not a snapshot, but it is honest: a key cached during the whole call
\* is counted, once, and nothing is counted that was not cached during it.  So
\* is_empty never answers true while some key stays cached all the time, nor
\* false when there was none.
LenIsHonest ==
  \A t \in Thread : pc[t].op \in CountOps /\ ~pc[t].busy =>
    /\ Cardinality(steady[t]) <= pc[t].sum
    /\ pc[t].sum <= Cardinality(seen[t])

\* When clear returns, no key is left that has been cached ever since it was
\* called: what remains was inserted meanwhile.
ClearIsThorough ==
  \A t \in Thread : pc[t].op = "clear" /\ ~pc[t].busy => steady[t] = {}

\* Every call returns, also after a panic of another call has poisoned a lock.
CallsReturn == \A t \in Thread : pc[t].busy ~> ~pc[t].busy
=============================================================================
