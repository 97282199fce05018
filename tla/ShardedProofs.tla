--------------------------- MODULE ShardedProofs ---------------------------
(***************************************************************************)
(* The shards, guards and sweeps of a sharded cache, for any number of     *)
(* threads and calls, every set of keys, hash function and number of       *)
(* shards.                                                                 *)
(***************************************************************************)
EXTENDS ShardedCache, FiniteSetTheorems, TLAPS

PcType == [op : KeyOps \cup SweepOps \cup {"new"}, busy : BOOLEAN,
           key : Key \cup {NoKey}, at : Index, sum : Nat]

\* A call on a key works on the shard of that key.
Routed ==
  \A t \in Thread : pc[t].busy /\ pc[t].op \in KeyOps =>
    pc[t].key \in Key /\ pc[t].at = shard_for(pc[t].key)

\* The shards a sweep has gone through.
Visited(t) == IF pc[t].busy THEN 0..(pc[t].at - 1) ELSE Index

\* The keys of ks that belong to one of the shards in I.
Among(ks, I) == {k \in ks : shard_for(k) \in I}

\* What a sweep has counted lies between what stayed and what was seen in the
\* shards it has gone through.
CountInv(t) ==
  pc[t].op \in CountOps =>
    /\ Cardinality(Among(steady[t], Visited(t))) <= pc[t].sum
    /\ pc[t].sum <= Cardinality(Among(seen[t], Visited(t)))

\* No call has ever panicked.
Healthy == \A i \in Index : ~poisoned[i]

\* Then a sweep has counted no more than the shards it has gone through can hold.
BoundInv(t) ==
  Healthy /\ pc[t].op \in CountOps =>
    pc[t].sum <= (IF pc[t].busy THEN pc[t].at ELSE NumShards) * PerShard

\* Nothing has stayed in the shards that clear has gone through.
ClearInv(t) == pc[t].op = "clear" => Among(steady[t], Visited(t)) = {} /\ pc[t].sum = 0

\* Every key is cached in the shard it hashes to.
OwnKeys == \A i \in Index : \A k \in shard[i] : shard_for(k) = i

\* A shard in which no call has panicked is within its capacity.
WithinCapacity == \A i \in Index : ~poisoned[i] => Cardinality(shard[i]) <= PerShard

Finite ==
  /\ \A i \in Index : IsFiniteSet(shard[i])
  /\ \A t \in Thread : IsFiniteSet(steady[t]) /\ IsFiniteSet(seen[t])

IInv ==
  /\ TypeOK /\ OneGuardEach /\ OwnKeys /\ WithinCapacity /\ Routed /\ Finite
  /\ \A t \in Thread : CountInv(t) /\ BoundInv(t) /\ ClearInv(t)

\* There is a shard for every key.
LEMMA ShardForType ==
  /\ NumShards \in Nat \ {0} /\ PerShard \in Nat \ {0} /\ MaxCalls \in Nat
  /\ 0 \in Index /\ Index \subseteq Nat
  /\ \A k \in Key : shard_for(k) \in Index
  <1>1. NumShards \in Nat \ {0} /\ PerShard \in Nat \ {0} /\ MaxCalls \in Nat
    BY ShardAssumption
  <1>2. ASSUME NEW k \in Key PROVE Hash[k] % NumShards \in 0..(NumShards - 1)
    <2>1. Hash[k] \in Nat
      BY ShardAssumption
    <2> DEFINE h == Hash[k]
    <2>2. CASE NumShards = 1 BY <2>1, <2>2
    <2>3. CASE NumShards = 2 BY <2>1, <2>3
    <2>4. CASE NumShards = 4 BY <2>1, <2>4
    <2>5. CASE NumShards = 8 BY <2>1, <2>5
    <2>6. CASE NumShards = 16 BY <2>1, <2>6
    <2>7. QED BY <2>2, <2>3, <2>4, <2>5, <2>6, ShardAssumption
  <1>3. QED BY <1>1, <1>2 DEF Index, shard_for

\* All shards together hold finitely many keys.
LEMMA CachedFinite ==
  ASSUME NEW f \in [Index -> SUBSET Key], \A i \in Index : IsFiniteSet(f[i])
  PROVE  IsFiniteSet(UNION {f[i] : i \in Index})
  <1> DEFINE T == {f[i] : i \in Index}
  <1>1. IsFiniteSet(Index)
    BY ShardForType, FS_Interval DEF Index
  <1>2. f \in Surjection(Index, T)
    BY DEF Surjection
  <1> HIDE DEF T
  <1>3. IsFiniteSet(T)
    BY <1>1, <1>2, FS_Surjection
  <1>4. \A s \in T : IsFiniteSet(s)
    BY DEF T
  <1>5. IsFiniteSet(UNION T)
    BY <1>3, <1>4, FS_UNION
  <1>6. QED BY <1>5 DEF T

\* The order of finite sets carries over to the keys of some shards.
LEMMA AmongMonotone ==
  ASSUME NEW S, NEW T, IsFiniteSet(T), S \subseteq T, NEW I
  PROVE  /\ IsFiniteSet(Among(S, I)) /\ IsFiniteSet(Among(T, I))
         /\ Cardinality(Among(S, I)) \in Nat
         /\ Cardinality(Among(T, I)) \in Nat
         /\ Cardinality(Among(S, I)) <= Cardinality(Among(T, I))
  <1>1. Among(T, I) \subseteq T /\ Among(S, I) \subseteq Among(T, I)
    BY DEF Among
  <1>2. IsFiniteSet(Among(T, I))
    BY <1>1, FS_Subset
  <1>3. IsFiniteSet(Among(S, I)) /\ Cardinality(Among(S, I)) <= Cardinality(Among(T, I))
    BY <1>1, <1>2, FS_Subset
  <1>4. QED BY <1>2, <1>3, FS_CardinalityType

\* The invariant holds of the cache as it is handed over.
LEMMA InitIInv == Init => IInv
  <1> SUFFICES ASSUME Init PROVE IInv
    OBVIOUS
  <1> USE ShardForType
  <1>1. TypeOK
    <2>1. pc \in [Thread -> PcType]
      BY DEF Init, Call, PcType
    <2>2. poisoned \in [Index -> BOOLEAN]
      BY DEF Init
    <2>3. /\ shard \in [Index -> SUBSET Key] /\ owner \in [Index -> Thread \cup {Free}]
          /\ calls \in [Thread -> 0..MaxCalls]
          /\ steady \in [Thread -> SUBSET Key] /\ seen \in [Thread -> SUBSET Key]
      BY DEF Init
    <2>4. QED BY <2>1, <2>2, <2>3, Zenon DEF TypeOK, PcType
  <1>2. OneGuardEach /\ Routed
    BY DEF Init, OneGuardEach, Routed, Call
  <1>3. OwnKeys /\ WithinCapacity
    BY DEF Init, OwnKeys, WithinCapacity
  <1>4. Finite
    BY FS_EmptySet DEF Init, Finite
  <1>5. ASSUME NEW t \in Thread PROVE CountInv(t) /\ BoundInv(t) /\ ClearInv(t)
    BY <1>5 DEF Init, Call, CountInv, BoundInv, ClearInv, CountOps
  <1>6. QED BY <1>1, <1>2, <1>3, <1>4, <1>5 DEF IInv

\* The history of a step that leaves shard i with the keys ks: for a sweep, what
\* stayed is cut down to what is still cached and what was seen grows by it.
LEMMA WatchFacts ==
  ASSUME TypeOK, Finite, NEW i \in Index, NEW ks \in SUBSET Key, IsFiniteSet(ks), Watch(i, ks)
  PROVE  LET cached == ks \cup UNION {shard[j] : j \in Index \ {i}} IN
         /\ steady' \in [Thread -> SUBSET Key] /\ seen' \in [Thread -> SUBSET Key]
         /\ \A u \in Thread :
              /\ IsFiniteSet(steady'[u]) /\ IsFiniteSet(seen'[u])
              /\ steady'[u] \subseteq steady[u] /\ seen[u] \subseteq seen'[u]
              /\ pc[u].busy /\ pc[u].op \in SweepOps =>
                   steady'[u] = steady[u] \cap cached /\ seen'[u] = seen[u] \cup cached
              /\ ~pc[u].busy => steady'[u] = steady[u] /\ seen'[u] = seen[u]
  <1> DEFINE f == [j \in Index |-> IF j = i THEN ks ELSE shard[j]]
             J == Index \ {i}
             cached == ks \cup UNION {shard[j] : j \in J}
  <1>1. /\ steady \in [Thread -> SUBSET Key] /\ seen \in [Thread -> SUBSET Key]
        /\ shard \in [Index -> SUBSET Key]
    BY DEF TypeOK
  <1>0. ASSUME NEW k PROVE k \in cached <=> k \in ks \/ \E j \in Index \ {i} : k \in shard[j]
    <2> HIDE DEF J
    <2>1. k \in cached <=> k \in ks \/ \E j \in J : k \in shard[j]
      OBVIOUS
    <2> HIDE DEF cached
    <2>2. QED BY <2>1 DEF J
  <1>2. cached \subseteq Key
    <2> HIDE DEF cached
    <2>1. QED BY <1>0, <1>1
  <1>3. IsFiniteSet(cached)
    <2>1. f \in [Index -> SUBSET Key] /\ \A j \in Index : IsFiniteSet(f[j])
      BY <1>1 DEF Finite
    <2>2. UNION {f[j] : j \in Index} = cached
      <3>1. ASSUME NEW k PROVE k \in UNION {f[j] : j \in Index} <=> \E j \in Index : k \in f[j]
        OBVIOUS
      <3>2. ASSUME NEW k PROVE (\E j \in Index : k \in f[j]) <=> k \in ks \/ \E j \in Index \ {i} : k \in shard[j]
        OBVIOUS
      <3> HIDE DEF f, cached
      <3>3. QED BY <1>0, <3>1, <3>2
    <2> HIDE DEF f, cached
    <2>3. QED BY <2>1, <2>2, CachedFinite
  <1>4. ASSUME NEW u \in Thread
        PROVE  /\ steady'[u] = IF pc[u].busy /\ pc[u].op \in SweepOps
                               THEN steady[u] \cap cached ELSE steady[u]
               /\ seen'[u] = IF pc[u].busy /\ pc[u].op \in SweepOps
                             THEN seen[u] \cup cached ELSE seen[u]
    BY <1>4 DEF Watch
  <1>5. DOMAIN steady' = Thread /\ DOMAIN seen' = Thread
    BY DEF Watch
  <1>6. steady' \in [Thread -> SUBSET Key] /\ seen' \in [Thread -> SUBSET Key]
    <2>1. /\ steady' = [u \in Thread |-> steady'[u]]
          /\ seen' = [u \in Thread |-> seen'[u]]
      BY DEF Watch
    <2> HIDE DEF cached
    <2>2. \A u \in Thread : steady'[u] \in SUBSET Key /\ seen'[u] \in SUBSET Key
      BY <1>1, <1>2, <1>4
    <2>3. QED BY <2>1, <2>2
  <1> HIDE DEF cached
  <1>7. ASSUME NEW u \in Thread PROVE IsFiniteSet(steady'[u]) /\ IsFiniteSet(seen'[u])
    <2>1. IsFiniteSet(steady[u]) /\ IsFiniteSet(seen[u])
      BY DEF Finite
    <2>2. IsFiniteSet(steady[u] \cap cached) /\ IsFiniteSet(seen[u] \cup cached)
      BY <2>1, <1>3, FS_Intersection, FS_Union
    <2>3. QED BY <2>1, <2>2, <1>4
  <1>8. QED BY <1>4, <1>6, <1>7 DEF cached

\* The end of a critical section keeps the invariant if it leaves the shard with
\* keys of its own and the call where the invariant of sweeps holds.
LEMMA LeaveIInv ==
  ASSUME IInv, NEW t \in Thread, Holds(t), NEW ks \in SUBSET Key, IsFiniteSet(ks),
         ~poisoned'[pc[t].at] => Cardinality(ks) <= PerShard,
         \A k \in ks : shard_for(k) = pc[t].at,
         Leave(pc[t].at, ks), poisoned' \in [Index -> BOOLEAN],
         \A j \in Index : ~poisoned'[j] => ~poisoned[j],
         pc' \in [Thread -> PcType], \A u \in Thread : u # t => pc'[u] = pc[u],
         pc'[t].busy => pc'[t].op \in SweepOps,
         CountInv(t)', BoundInv(t)', ClearInv(t)'
  PROVE  IInv'
  <1> DEFINE i == pc[t].at
  <1>1. TypeOK /\ Finite /\ OneGuardEach /\ Routed /\ OwnKeys /\ WithinCapacity
    BY DEF IInv
  <1>2. /\ shard \in [Index -> SUBSET Key] /\ owner \in [Index -> Thread \cup {Free}]
        /\ pc \in [Thread -> PcType] /\ calls \in [Thread -> 0..MaxCalls] /\ i \in Index
    BY <1>1 DEF TypeOK, PcType
  <1>3. /\ shard' = [shard EXCEPT ![i] = ks] /\ owner' = [owner EXCEPT ![i] = Free]
        /\ calls' = calls /\ Watch(i, ks)
    BY DEF Leave, Dropped
  <1>4. /\ steady' \in [Thread -> SUBSET Key] /\ seen' \in [Thread -> SUBSET Key]
        /\ \A u \in Thread :
              /\ IsFiniteSet(steady'[u]) /\ IsFiniteSet(seen'[u])
              /\ steady'[u] \subseteq steady[u] /\ seen[u] \subseteq seen'[u]
    BY <1>1, <1>2, <1>3, WatchFacts
  <1> HIDE DEF i
  <1>5. TypeOK'
    <2>1. shard' \in [Index -> SUBSET Key] /\ owner' \in [Index -> Thread \cup {Free}]
      BY <1>2, <1>3
    <2>2. QED BY <2>1, <1>2, <1>3, <1>4, Zenon DEF TypeOK, PcType
  <1>6. OneGuardEach'
    <2>1. SUFFICES ASSUME NEW j \in Index, owner'[j] # Free
                   PROVE  pc'[owner'[j]].busy /\ pc'[owner'[j]].at = j
      BY DEF OneGuardEach
    <2>2. j # i /\ owner'[j] = owner[j]
      BY <1>2, <1>3, <2>1
    <2>3. owner[j] \in Thread /\ pc[owner[j]].busy /\ pc[owner[j]].at = j
      BY <1>1, <1>2, <2>1, <2>2 DEF OneGuardEach
    <2>4. owner[j] # t
      BY <2>2, <2>3 DEF i
    <2>5. QED BY <2>2, <2>3, <2>4
  <1>7. OwnKeys' /\ WithinCapacity'
    <2>1. ASSUME NEW j \in Index
          PROVE  \A k \in shard'[j] : Hash[k] % NumShards = j
      BY <1>1, <1>2, <1>3 DEF OwnKeys, shard_for, i
    <2>2. ASSUME NEW j \in Index, ~poisoned'[j]
          PROVE  Cardinality(shard'[j]) <= PerShard
      <3>1. CASE j = i
        BY <2>2, <3>1, <1>2, <1>3 DEF i
      <3>2. CASE j # i
        <4>1. shard'[j] = shard[j]
          BY <3>2, <1>2, <1>3
        <4>2. ~poisoned[j]
          BY <2>2, Zenon
        <4>3. Cardinality(shard[j]) <= PerShard
          BY <4>2, <1>1, Zenon DEF WithinCapacity
        <4>4. QED BY <4>1, <4>3
      <3>3. QED BY <3>1, <3>2
    <2>3. QED BY <2>1, <2>2 DEF OwnKeys, WithinCapacity, shard_for
  <1>8. Routed'
    <2>1. KeyOps \cap SweepOps = {}
      BY DEF KeyOps, SweepOps, CountOps
    <2>2. QED BY <1>1, <2>1 DEF Routed, shard_for
  <1>9. Finite'
    BY <1>2, <1>3, <1>4, <1>1 DEF Finite
  <1>10. ASSUME NEW u \in Thread, u # t PROVE CountInv(u)' /\ BoundInv(u)' /\ ClearInv(u)'
    <2>1. pc'[u] = pc[u] /\ Visited(u)' = Visited(u)
      BY <1>10 DEF Visited
    <2>2. CountInv(u) /\ BoundInv(u) /\ ClearInv(u)
      BY DEF IInv
    <2> DEFINE I == Visited(u)
    <2>3. /\ Cardinality(Among(steady'[u], I)) \in Nat /\ Cardinality(Among(steady[u], I)) \in Nat
          /\ Cardinality(Among(steady'[u], I)) <= Cardinality(Among(steady[u], I))
      BY <1>4, <1>1, AmongMonotone DEF Finite
    <2>4. /\ Cardinality(Among(seen'[u], I)) \in Nat /\ Cardinality(Among(seen[u], I)) \in Nat
          /\ Cardinality(Among(seen[u], I)) <= Cardinality(Among(seen'[u], I))
      BY <1>4, <1>1, AmongMonotone DEF Finite
    <2>5. pc[u].sum \in Nat
      BY <1>2, ShardForType DEF PcType
    <2>6. /\ Among(steady[u], Visited(u))' = Among(steady'[u], I)
          /\ Among(seen[u], Visited(u))' = Among(seen'[u], I)
      BY <2>1 DEF Among, shard_for
    <2> HIDE DEF I
    <2>7. CountInv(u)'
      BY <2>1, <2>2, <2>3, <2>4, <2>5, <2>6 DEF CountInv, I
    <2>8. ClearInv(u)'
      <3>1. Among(steady'[u], I) \subseteq Among(steady[u], I)
        BY <1>4 DEF Among
      <3>2. QED BY <3>1, <2>1, <2>2, <2>6 DEF ClearInv, I
    <2>9. BoundInv(u)'
      <3>1. Healthy' => Healthy
        BY Zenon DEF Healthy
      <3>2. QED BY <3>1, <2>1, <2>2 DEF BoundInv
    <2>10. QED BY <2>7, <2>8, <2>9
  <1>11. QED
    BY <1>5, <1>6, <1>7, <1>8, <1>9, <1>10 DEF IInv

\* Whatever part of its keys a shard is left with, they are its own.
LEMMA PartOfShard ==
  ASSUME IInv, NEW i \in Index, NEW ks \in SUBSET shard[i]
  PROVE  /\ ks \in SUBSET Key /\ IsFiniteSet(ks)
         /\ Cardinality(ks) \in Nat /\ Cardinality(shard[i]) \in Nat
         /\ Cardinality(ks) <= Cardinality(shard[i])
         /\ ~poisoned[i] => Cardinality(shard[i]) <= PerShard
         /\ \A k \in ks : shard_for(k) = i
  <1>1. IsFiniteSet(shard[i]) /\ shard[i] \in SUBSET Key
    BY DEF IInv, TypeOK, Finite
  <1>2. ~poisoned[i] => Cardinality(shard[i]) <= PerShard
    BY Zenon DEF IInv, WithinCapacity
  <1>3. IsFiniteSet(ks) /\ Cardinality(ks) <= Cardinality(shard[i])
    BY <1>1, FS_Subset
  <1>4. Cardinality(ks) \in Nat /\ Cardinality(shard[i]) \in Nat
    BY <1>1, <1>3, FS_CardinalityType
  <1>5. \A k \in ks : shard_for(k) = i
    BY DEF IInv, OwnKeys
  <1>6. QED BY <1>2, <1>1, <1>3, <1>4, <1>5

\* A call on a key that returns with its shard in order keeps the invariant.
LEMMA ReturnIInv ==
  ASSUME IInv, NEW t \in Thread, Holds(t), pc[t].op \in KeyOps,
         NEW ks \in SUBSET Key, IsFiniteSet(ks),
         ~poisoned'[pc[t].at] => Cardinality(ks) <= PerShard,
         \A k \in ks : shard_for(k) = pc[t].at,
         Leave(pc[t].at, ks), poisoned' \in [Index -> BOOLEAN],
         \A j \in Index : ~poisoned'[j] => ~poisoned[j], pc' = Returned(t)
  PROVE  IInv'
  <1>1. pc \in [Thread -> PcType]
    BY DEF IInv, TypeOK, PcType
  <1>2. /\ pc' \in [Thread -> PcType] /\ \A u \in Thread : u # t => pc'[u] = pc[u]
        /\ pc'[t].busy = FALSE /\ pc'[t].op = pc[t].op
    BY <1>1 DEF Returned, PcType
  <1>3. CountInv(t)' /\ BoundInv(t)' /\ ClearInv(t)'
    BY <1>2 DEF CountInv, BoundInv, ClearInv, KeyOps, CountOps
  <1>4. QED BY <1>2, <1>3, LeaveIInv

\* In particular one that leaves the shard with part of its keys.
LEMMA PartReturnIInv ==
  ASSUME IInv, NEW t \in Thread, Holds(t), pc[t].op \in KeyOps, pc[t].at \in Index,
         NEW ks \in SUBSET shard[pc[t].at],
         Leave(pc[t].at, ks), poisoned' \in [Index -> BOOLEAN],
         \A j \in Index : ~poisoned'[j] => ~poisoned[j], pc' = Returned(t)
  PROVE  IInv'
  <1>1. /\ ks \in SUBSET Key /\ IsFiniteSet(ks)
        /\ Cardinality(ks) \in Nat /\ Cardinality(shard[pc[t].at]) \in Nat
        /\ Cardinality(ks) <= Cardinality(shard[pc[t].at])
        /\ ~poisoned[pc[t].at] => Cardinality(shard[pc[t].at]) <= PerShard
        /\ \A k \in ks : shard_for(k) = pc[t].at
    BY PartOfShard
  <1>2. ~poisoned'[pc[t].at] => Cardinality(ks) <= PerShard
    <2>1. SUFFICES ASSUME ~poisoned'[pc[t].at] PROVE Cardinality(ks) <= PerShard
      OBVIOUS
    <2>2. Cardinality(shard[pc[t].at]) <= PerShard
      BY <1>1, <2>1, Zenon
    <2>3. QED BY <1>1, <2>2, ShardForType
  <1>3. QED BY <1>1, <1>2, ReturnIInv

\* What an insert makes room in, with or without the new key.
LEMMA RoomForFacts ==
  ASSUME IInv, NEW t \in Thread, pc[t].busy, pc[t].op \in KeyOps,
         NEW ks \in RoomFor(pc[t].at, pc[t].key)
  PROVE  /\ ks \in SUBSET shard[pc[t].at]
         /\ ks \cup {pc[t].key} \in SUBSET Key /\ IsFiniteSet(ks \cup {pc[t].key})
         /\ ~poisoned[pc[t].at] => Cardinality(ks \cup {pc[t].key}) <= PerShard
         /\ \A k \in ks \cup {pc[t].key} : shard_for(k) = pc[t].at
  <1> DEFINE i == pc[t].at
             k == pc[t].key
             S == shard[i]
  <1>1. k \in Key /\ shard_for(k) = i /\ i \in Index
    BY DEF IInv, Routed, TypeOK
  <1> HIDE DEF i, k, S
  <1>2. ks \in RoomFor(i, k)
    BY DEF i, k
  <1>3. \/ ks = S /\ (k \in S \/ Cardinality(S) < PerShard)
        \/ \E v \in S : ks = S \ {v} /\ k \notin S
        \/ ks = S /\ poisoned[i]
    <2>1. CASE k \in S \/ Cardinality(S) < PerShard
      BY <1>2, <2>1 DEF RoomFor, S
    <2>2. CASE ~(k \in S \/ Cardinality(S) < PerShard)
      <3>1. ks \in {S \ {v} : v \in S} \cup (IF poisoned[i] THEN {S} ELSE {})
        BY <1>2, <2>2, Zenon DEF RoomFor, S
      <3>2. ks \in {S \ {v} : v \in S} \/ (poisoned[i] /\ ks = S)
        BY <3>1, Zenon
      <3>3. QED BY <2>2, <3>2, Zenon
    <2>3. QED BY <2>1, <2>2
  <1>4. /\ ks \in SUBSET S /\ IsFiniteSet(S) /\ Cardinality(S) \in Nat
        /\ ~poisoned[i] => Cardinality(S) <= PerShard
    <2>1. ks \in SUBSET S
      BY <1>3
    <2>2. QED BY <1>1, <2>1, PartOfShard DEF S
  <1>5. ks \in SUBSET Key /\ IsFiniteSet(ks) /\ \A x \in ks : shard_for(x) = i
    BY <1>1, <1>4, PartOfShard DEF S
  <1>6. /\ IsFiniteSet(ks \cup {k})
        /\ Cardinality(ks \cup {k}) = IF k \in ks THEN Cardinality(ks) ELSE Cardinality(ks) + 1
    BY <1>5, FS_AddElement
  <1>7. ASSUME ~poisoned[i] PROVE Cardinality(ks \cup {k}) <= PerShard
    <2>0. Cardinality(S) <= PerShard
      BY <1>4, <1>7, Zenon
    <2>1. CASE ks = S /\ (k \in S \/ Cardinality(S) < PerShard)
      BY <2>0, <2>1, <1>4, <1>6, ShardForType
    <2>2. CASE \E v \in S : ks = S \ {v} /\ k \notin S
      <3>1. PICK v \in S : ks = S \ {v} /\ k \notin S
        BY <2>2
      <3>2. Cardinality(ks) = Cardinality(S) - 1
        BY <3>1, <1>4, FS_RemoveElement
      <3>3. QED BY <2>0, <3>1, <3>2, <1>4, <1>6, ShardForType
    <2>3. QED BY <2>1, <2>2, <1>3, <1>7, Zenon
  <1>8. QED BY <1>1, <1>4, <1>5, <1>6, <1>7 DEF i, k, S

\* Where a sweep that has counted n goes from shard i.
LEMMA OnwardFacts ==
  ASSUME pc \in [Thread -> PcType], NEW t \in Thread, pc[t].busy, NEW n \in Nat,
         pc' = Onward(t, n)
  PROVE  /\ pc' \in [Thread -> PcType] /\ \A u \in Thread : u # t => pc'[u] = pc[u]
         /\ pc'[t].op = pc[t].op /\ pc'[t].sum = pc[t].sum + n
         /\ pc'[t].busy => pc'[t].at = pc[t].at + 1
         /\ Visited(t)' = 0..pc[t].at
         /\ ~pc'[t].busy => pc[t].at + 1 = NumShards
  <1> USE ShardForType
  <1> DEFINE at == pc[t].at
             next == IF at + 1 \in Index THEN at + 1 ELSE at
             p == [pc[t] EXCEPT !.sum = @ + n, !.at = next, !.busy = at + 1 \in Index]
  <1>1. pc' = [pc EXCEPT ![t] = p]
    BY DEF Onward, PcType
  <1>2. at \in 0..(NumShards - 1) /\ pc[t].sum \in Nat
    BY DEF PcType, Index
  <1>3. next \in Index /\ pc[t].sum + n \in Nat
    BY <1>2 DEF Index
  <1>4. /\ p \in PcType /\ p.op = pc[t].op /\ p.sum = pc[t].sum + n /\ p.at = next
        /\ p.busy <=> at + 1 \in Index
    <2> HIDE DEF next
    <2>1. p.op = pc[t].op /\ p.key = pc[t].key /\ p.sum = pc[t].sum + n /\ p.at = next
      BY DEF PcType
    <2>2. p.busy <=> at + 1 \in Index
      BY DEF PcType
    <2>3. p \in PcType
      <3> DEFINE b == at + 1 \in Index
                 m == pc[t].sum + n
      <3>1. b \in BOOLEAN
        OBVIOUS
      <3>2. m \in Nat /\ next \in Index /\ pc[t] \in PcType
        BY <1>3
      <3>3. p = [pc[t] EXCEPT !.sum = m, !.at = next, !.busy = b]
        OBVIOUS
      <3> HIDE DEF b, m, p
      <3>4. QED BY <3>1, <3>2, <3>3 DEF PcType
    <2>4. QED BY <2>1, <2>2, <2>3
  <1>5. at + 1 \notin Index => at + 1 = NumShards
    BY <1>2 DEF Index
  <1> HIDE DEF p, next
  <1>6. pc'[t] = p /\ pc' \in [Thread -> PcType] /\ \A u \in Thread : u # t => pc'[u] = pc[u]
    BY <1>1, <1>4
  <1>7. Visited(t)' = 0..at
    <2>1. Visited(t)' = IF pc'[t].busy THEN 0..(pc'[t].at - 1) ELSE Index
      BY DEF Visited, Index
    <2> HIDE DEF at
    <2>2. CASE at + 1 \in Index
      <3>1. pc'[t].busy /\ pc'[t].at = at + 1
        BY <2>2, <1>4, <1>6 DEF next
      <3>2. QED BY <2>1, <3>1, <1>2
    <2>3. CASE at + 1 \notin Index
      <3>1. ~pc'[t].busy /\ Index = 0..at
        BY <2>3, <1>2, <1>4, <1>5, <1>6 DEF Index
      <3>2. QED BY <2>1, <3>1
    <2>4. QED BY <2>2, <2>3
  <1>8. (pc'[t].busy <=> at + 1 \in Index) /\ pc'[t].at = next
    BY <1>4, <1>6
  <1>9. pc'[t].busy => pc'[t].at = at + 1
    BY <1>8 DEF next
  <1>10. ~pc'[t].busy => at + 1 = NumShards
    BY <1>5, <1>8
  <1>11. pc'[t].op = pc[t].op /\ pc'[t].sum = pc[t].sum + n
    BY <1>4, <1>6
  <1>12. QED BY <1>6, <1>7, <1>9, <1>10, <1>11

\* One turn of a sweep.  In the shard it leaves with the keys ks nothing has
\* stayed but these, and all of these were seen.
LEMMA SweepFacts ==
  ASSUME IInv, NEW t \in Thread, Holds(t), pc[t].op \in SweepOps,
         NEW ks \in SUBSET shard[pc[t].at], Leave(pc[t].at, ks)
  PROVE  LET i == pc[t].at IN
         /\ Among(steady'[t], 0..i) \subseteq Among(steady[t], 0..(i - 1)) \cup ks
         /\ Among(seen[t], 0..(i - 1)) \cup ks \subseteq Among(seen'[t], 0..i)
         /\ Among(seen[t], 0..(i - 1)) \cap ks = {}
  <1> DEFINE i == pc[t].at
             cached == ks \cup UNION {shard[j] : j \in Index \ {i}}
  <1>1. i \in Index /\ i \in Nat /\ TypeOK /\ Finite
    BY ShardForType DEF IInv, TypeOK
  <1>2. ks \in SUBSET Key /\ IsFiniteSet(ks) /\ \A k \in ks : shard_for(k) = i
    BY <1>1, PartOfShard
  <1>3. steady'[t] = steady[t] \cap cached /\ seen'[t] = seen[t] \cup cached
    <2>1. Watch(i, ks)
      BY DEF Leave
    <2>2. pc[t].busy /\ pc[t].op \in SweepOps
      BY DEF Holds
    <2>3. QED BY <1>1, <1>2, <2>1, <2>2, WatchFacts
  <1>4. \A k \in cached : shard_for(k) = i => k \in ks
    <2>1. SUFFICES ASSUME NEW j \in Index \ {i}, NEW k \in shard[j] PROVE shard_for(k) # i
      OBVIOUS
    <2>2. QED BY <2>1 DEF IInv, OwnKeys
  <1>5. ks \subseteq cached
    OBVIOUS
  <1>6. /\ i \in 0..i /\ 0..(i - 1) \subseteq 0..i /\ i \notin 0..(i - 1)
        /\ \A j \in 0..i : j = i \/ j \in 0..(i - 1)
    BY <1>1
  <1> HIDE DEF cached, i
  <1>7. Among(steady'[t], 0..i) \subseteq Among(steady[t], 0..(i - 1)) \cup ks
    BY <1>3, <1>4, <1>6 DEF Among
  <1>8. Among(seen[t], 0..(i - 1)) \cup ks \subseteq Among(seen'[t], 0..i)
    BY <1>2, <1>3, <1>5, <1>6 DEF Among
  <1>9. Among(seen[t], 0..(i - 1)) \cap ks = {}
    BY <1>2, <1>6 DEF Among
  <1>10. QED BY <1>7, <1>8, <1>9 DEF i

\* A thread that begins a call has counted nothing and gone through no shard.
LEMMA BeginIInv ==
  ASSUME IInv, NEW t \in Thread, NEW op \in KeyOps \cup SweepOps,
         NEW k \in Key \cup {NoKey}, NEW at \in Index, Begin(t, op, k, at),
         op \in KeyOps => k \in Key /\ at = shard_for(k), op \in SweepOps => at = 0
  PROVE  IInv'
  <1> DEFINE c == Call(op, TRUE, k, at, 0)
             watched == IF op \in SweepOps THEN Cached ELSE {}
  <1>1. /\ TypeOK /\ OneGuardEach /\ Routed /\ OwnKeys /\ WithinCapacity /\ Finite
        /\ pc \in [Thread -> PcType] /\ shard \in [Index -> SUBSET Key]
        /\ steady \in [Thread -> SUBSET Key] /\ seen \in [Thread -> SUBSET Key]
        /\ calls \in [Thread -> 0..MaxCalls]
    BY DEF IInv, TypeOK, PcType
  <1>2. /\ ~pc[t].busy /\ calls[t] < MaxCalls /\ calls' = [calls EXCEPT ![t] = @ + 1]
        /\ pc' = [pc EXCEPT ![t] = c]
        /\ steady' = [steady EXCEPT ![t] = watched] /\ seen' = [seen EXCEPT ![t] = watched]
        /\ shard' = shard /\ owner' = owner /\ poisoned' = poisoned
    BY DEF Begin
  <1>3. /\ c \in PcType /\ c.op = op /\ c.busy /\ c.key = k /\ c.at = at /\ c.sum = 0
    BY ShardForType DEF Call, PcType
  <1>4. IsFiniteSet(watched) /\ watched \in SUBSET Key
    <2>1. IsFiniteSet(Cached) /\ IsFiniteSet({})
      BY <1>1, CachedFinite, FS_EmptySet DEF Cached, Finite
    <2>2. QED BY <2>1, <1>1 DEF Cached
  <1> HIDE DEF c, watched
  <1>5. /\ pc' \in [Thread -> PcType] /\ pc'[t] = c /\ \A u \in Thread : u # t => pc'[u] = pc[u]
        /\ steady' \in [Thread -> SUBSET Key] /\ seen' \in [Thread -> SUBSET Key]
        /\ steady'[t] = watched /\ seen'[t] = watched
        /\ \A u \in Thread : u # t => steady'[u] = steady[u] /\ seen'[u] = seen[u]
    BY <1>1, <1>2, <1>3, <1>4
  <1>6. TypeOK'
    <2>1. calls' \in [Thread -> 0..MaxCalls]
      BY <1>1, <1>2, ShardForType
    <2>2. owner' \in [Index -> Thread \cup {Free}] /\ poisoned' \in [Index -> BOOLEAN]
      BY <1>1, <1>2, Zenon DEF TypeOK
    <2>3. QED BY <2>1, <2>2, <1>1, <1>2, <1>5, Zenon DEF TypeOK, PcType
  <1>7. OneGuardEach'
    <2>1. \A i \in Index : owner[i] # Free => owner[i] # t
      BY <1>1, <1>2 DEF OneGuardEach
    <2>2. owner \in [Index -> Thread \cup {Free}]
      BY <1>1 DEF TypeOK
    <2>3. QED BY <2>1, <2>2, <1>1, <1>2, <1>5 DEF OneGuardEach
  <1>8. OwnKeys' /\ WithinCapacity'
    BY <1>1, <1>2 DEF OwnKeys, WithinCapacity, shard_for
  <1>9. Routed'
    <2>1. ASSUME NEW u \in Thread, pc'[u].busy, pc'[u].op \in KeyOps
          PROVE  pc'[u].key \in Key /\ pc'[u].at = shard_for(pc'[u].key)
      <3>1. CASE u = t
        BY <3>1, <2>1, <1>3, <1>5
      <3>2. CASE u # t
        BY <3>2, <2>1, <1>1, <1>5 DEF Routed
      <3>3. QED BY <3>1, <3>2
    <2>2. QED BY <2>1 DEF Routed, shard_for
  <1>10. Finite'
    BY <1>1, <1>2, <1>4, <1>5 DEF Finite
  <1>11. ASSUME NEW u \in Thread PROVE CountInv(u)' /\ BoundInv(u)' /\ ClearInv(u)'
    <2>1. CASE u # t
      <3>1. pc'[u] = pc[u] /\ steady'[u] = steady[u] /\ seen'[u] = seen[u]
        BY <2>1, <1>5
      <3>2. /\ Among(steady[u], Visited(u))' = Among(steady[u], Visited(u))
            /\ Among(seen[u], Visited(u))' = Among(seen[u], Visited(u))
        BY <3>1 DEF Among, Visited, shard_for
      <3>3. CountInv(u) /\ BoundInv(u) /\ ClearInv(u)
        BY DEF IInv
      <3>4. Healthy' <=> Healthy
        BY <1>2 DEF Healthy
      <3>5. QED BY <3>1, <3>2, <3>3, <3>4 DEF CountInv, BoundInv, ClearInv
    <2>2. CASE u = t
      <3>1. pc'[t].op = op /\ pc'[t].busy /\ pc'[t].at = at /\ pc'[t].sum = 0
        BY <1>3, <1>5
      <3>2. op \in SweepOps => Visited(t)' = {}
        BY <3>1 DEF Visited
      <3>3. op \in SweepOps =>
              Among(steady[t], Visited(t))' = {} /\ Among(seen[t], Visited(t))' = {}
        BY <3>2 DEF Among
      <3>4. Cardinality({}) = 0 /\ CountOps \subseteq SweepOps /\ "clear" \in SweepOps
        BY FS_EmptySet DEF SweepOps
      <3>5. op \in SweepOps => 0 <= at * PerShard
        BY ShardForType
      <3>6. CountInv(t)' /\ BoundInv(t)'
        BY <3>1, <3>3, <3>4, <3>5 DEF CountInv, BoundInv
      <3>7. ClearInv(t)'
        BY <3>1, <3>3, <3>4 DEF ClearInv
      <3>8. QED BY <2>2, <3>6, <3>7
    <2>3. QED BY <2>1, <2>2
  <1>12. QED BY <1>6, <1>7, <1>8, <1>9, <1>10, <1>11 DEF IInv

\* Taking a guard touches nothing but its owner.
LEMMA LockIInv ==
  ASSUME IInv, NEW t \in Thread, Lock(t)
  PROVE  IInv'
  <1>1. /\ pc[t].busy /\ owner' = [owner EXCEPT ![pc[t].at] = t]
        /\ shard' = shard /\ poisoned' = poisoned /\ pc' = pc /\ calls' = calls
        /\ steady' = steady /\ seen' = seen
    BY DEF Lock
  <1>2. /\ owner \in [Index -> Thread \cup {Free}] /\ pc[t].at \in Index
    BY DEF IInv, TypeOK
  <1>3. owner' \in [Index -> Thread \cup {Free}]
    BY <1>1, <1>2
  <1>4. TypeOK'
    BY <1>1, <1>3, Zenon DEF IInv, TypeOK
  <1>5. OneGuardEach'
    <2>1. ASSUME NEW j \in Index, owner'[j] # Free
          PROVE  pc[owner'[j]].busy /\ pc[owner'[j]].at = j
      BY <2>1, <1>1, <1>2 DEF IInv, OneGuardEach
    <2>2. QED BY <2>1, <1>1 DEF OneGuardEach
  <1>6. OwnKeys' /\ WithinCapacity' /\ Routed' /\ Finite'
    BY <1>1 DEF IInv, OwnKeys, WithinCapacity, Routed, shard_for, Finite
  <1>7. \A u \in Thread : CountInv(u)' /\ BoundInv(u)' /\ ClearInv(u)'
    BY <1>1 DEF IInv, CountInv, BoundInv, Healthy, ClearInv, Visited, Among, shard_for
  <1>8. QED BY <1>4, <1>5, <1>6, <1>7 DEF IInv

\* One turn of len or is_empty counts what it leaves in the shard, which is all
\* that stayed there and part of what was seen.
LEMMA CountIInv ==
  ASSUME IInv, NEW t \in Thread, Count(t)
  PROVE  IInv'
  <1> DEFINE i == pc[t].at
             V == 0..(i - 1)
             W == 0..i
  <1> USE ShardForType
  <1>1. Holds(t) /\ pc[t].busy /\ pc[t].op \in CountOps /\ pc[t].op \in SweepOps
    BY DEF Count, Holds, SweepOps
  <1>2. PICK ks \in SUBSET shard[i] : Leave(i, ks) /\ pc' = Onward(t, Cardinality(ks))
    BY DEF Count
  <1>3. poisoned' \in [Index -> BOOLEAN]
    BY Zenon DEF Count, IInv, TypeOK
  <1>4. pc \in [Thread -> PcType] /\ i \in Index
    BY DEF IInv, TypeOK, PcType
  <1>5. /\ ks \in SUBSET Key /\ IsFiniteSet(ks) /\ Cardinality(ks) \in Nat
        /\ ~poisoned[i] => Cardinality(ks) <= PerShard
        /\ \A k \in ks : shard_for(k) = i
    <2> HIDE DEF i
    <2>1. /\ ks \in SUBSET Key /\ IsFiniteSet(ks)
          /\ Cardinality(ks) \in Nat /\ Cardinality(shard[i]) \in Nat
          /\ Cardinality(ks) <= Cardinality(shard[i])
          /\ ~poisoned[i] => Cardinality(shard[i]) <= PerShard
          /\ \A k \in ks : shard_for(k) = i
      BY <1>4, PartOfShard
    <2>2. ASSUME ~poisoned[i] PROVE Cardinality(ks) <= PerShard
      <3>1. Cardinality(shard[i]) <= PerShard
        BY <2>1, <2>2, Zenon
      <3>2. QED BY <2>1, <3>1
    <2>3. QED BY <2>1, <2>2
  <1>6. Finite /\ Visited(t) = V /\ CountInv(t) /\ pc[t].sum \in Nat
    BY <1>1, <1>4 DEF IInv, Visited, PcType
  <1>7. /\ Cardinality(Among(steady[t], V)) <= pc[t].sum
        /\ pc[t].sum <= Cardinality(Among(seen[t], V))
    BY <1>1, <1>6 DEF CountInv
  <1>8. /\ pc' \in [Thread -> PcType] /\ \A u \in Thread : u # t => pc'[u] = pc[u]
        /\ pc'[t].op = pc[t].op /\ pc'[t].sum = pc[t].sum + Cardinality(ks)
        /\ pc'[t].busy => pc'[t].at = i + 1
        /\ ~pc'[t].busy => i + 1 = NumShards
        /\ Visited(t)' = W
    BY <1>1, <1>2, <1>4, <1>5, OnwardFacts
  <1>9. /\ Among(steady'[t], W) \subseteq Among(steady[t], V) \cup ks
         /\ Among(seen[t], V) \cup ks \subseteq Among(seen'[t], W)
         /\ Among(seen[t], V) \cap ks = {}
    BY <1>1, <1>2, SweepFacts
  <1>10. /\ IsFiniteSet(Among(steady[t], V)) /\ IsFiniteSet(Among(seen[t], V))
         /\ Cardinality(Among(steady[t], V)) \in Nat /\ Cardinality(Among(seen[t], V)) \in Nat
    BY <1>6, AmongMonotone DEF Finite
  <1>11. IsFiniteSet(seen'[t])
    BY <1>2, <1>4, <1>5, <1>6, WatchFacts DEF Leave, IInv
  <1>12. IsFiniteSet(Among(seen'[t], W)) /\ Cardinality(Among(seen'[t], W)) \in Nat
    BY <1>11, AmongMonotone
  <1> HIDE DEF V, W, i
  <1>13. Cardinality(Among(steady'[t], W)) <= pc[t].sum + Cardinality(ks)
    <2> DEFINE A == Among(steady[t], V)
    <2>1. /\ IsFiniteSet(A \cup ks) /\ IsFiniteSet(A \cap ks)
          /\ Cardinality(A \cup ks) = Cardinality(A) + Cardinality(ks) - Cardinality(A \cap ks)
      BY <1>5, <1>10, FS_Union, FS_Intersection
    <2>2. Cardinality(A \cap ks) \in Nat /\ Cardinality(A \cup ks) \in Nat
      BY <2>1, FS_CardinalityType
    <2>3. /\ IsFiniteSet(Among(steady'[t], W))
          /\ Cardinality(Among(steady'[t], W)) <= Cardinality(A \cup ks)
      BY <1>9, <2>1, FS_Subset
    <2>4. Cardinality(Among(steady'[t], W)) \in Nat
      BY <2>3, FS_CardinalityType
    <2> HIDE DEF A
    <2>5. Cardinality(A) \in Nat /\ Cardinality(A) <= pc[t].sum
      BY <1>7, <1>10 DEF A
    <2>6. QED BY <2>1, <2>2, <2>3, <2>4, <2>5, <1>5, <1>6
  <1>14. pc[t].sum + Cardinality(ks) <= Cardinality(Among(seen'[t], W))
    <2> DEFINE B == Among(seen[t], V)
    <2>0. B \cap ks = {} /\ Cardinality({}) = 0 /\ IsFiniteSet(B) /\ Cardinality(B) \in Nat
      BY <1>9, <1>10, FS_EmptySet
    <2>1. /\ IsFiniteSet(B \cup ks)
          /\ Cardinality(B \cup ks) = Cardinality(B) + Cardinality(ks)
      <3> HIDE DEF B
      <3>1. /\ IsFiniteSet(B \cup ks)
            /\ Cardinality(B \cup ks) = Cardinality(B) + Cardinality(ks) - Cardinality(B \cap ks)
        BY <2>0, <1>5, FS_Union
      <3>2. Cardinality(ks) \in Nat
        BY <1>5
      <3>3. Cardinality(B \cap ks) = 0 /\ Cardinality(B) \in Nat
        BY <2>0
      <3>4. QED BY <3>1, <3>2, <3>3
    <2>2. Cardinality(B \cup ks) <= Cardinality(Among(seen'[t], W))
      BY <1>9, <1>12, FS_Subset
    <2> HIDE DEF B
    <2>3. Cardinality(B) \in Nat /\ pc[t].sum <= Cardinality(B)
      BY <1>7, <1>10 DEF B
    <2>4. QED BY <2>1, <2>2, <2>3, <1>5, <1>6, <1>12
  <1>15. poisoned' = poisoned
    BY DEF Count
  <1>16. CountInv(t)'
    <2>1. /\ Among(steady[t], Visited(t))' = Among(steady'[t], W)
          /\ Among(seen[t], Visited(t))' = Among(seen'[t], W)
      BY <1>8 DEF Among, shard_for
    <2>2. QED BY <2>1, <1>8, <1>13, <1>14 DEF CountInv
  <1>17. BoundInv(t)'
    <2>1. SUFFICES ASSUME Healthy
                   PROVE  pc'[t].sum <= (IF pc'[t].busy THEN pc'[t].at ELSE NumShards) * PerShard
      BY <1>15 DEF BoundInv, Healthy
    <2>2. ~poisoned[i]
      BY <1>4, <2>1, Zenon DEF Healthy, i
    <2>3. Cardinality(ks) <= PerShard
      BY <1>5, <2>2, Zenon
    <2>4. pc[t].sum <= i * PerShard
      BY <1>1, <2>1 DEF IInv, BoundInv, i
    <2>5. i \in Nat
      BY <1>4
    <2>6. (i + 1) * PerShard = i * PerShard + PerShard /\ i * PerShard \in Nat
      BY <2>5
    <2>7. pc'[t].sum <= (i + 1) * PerShard
      BY <2>3, <2>4, <2>6, <1>5, <1>6, <1>8
    <2>8. (IF pc'[t].busy THEN pc'[t].at ELSE NumShards) = i + 1
      BY <1>8
    <2>9. QED BY <2>7, <2>8
  <1>18. ClearInv(t)'
    BY <1>1, <1>8 DEF ClearInv, CountOps
  <1>19. pc'[t].busy => pc'[t].op \in SweepOps
    BY <1>1, <1>8
  <1>20. (~poisoned'[i] => Cardinality(ks) <= PerShard) /\ \A j \in Index : ~poisoned'[j] => ~poisoned[j]
    BY <1>5, <1>15
  <1>21. QED
    BY <1>1, <1>2, <1>3, <1>5, <1>17, <1>8, <1>16, <1>18, <1>19, <1>20, LeaveIInv DEF i

\* One turn of clear leaves nothing in the shard that could have stayed.
LEMMA WipeIInv ==
  ASSUME IInv, NEW t \in Thread, Wipe(t)
  PROVE  IInv'
  <1> DEFINE i == pc[t].at
             V == 0..(i - 1)
             W == 0..i
  <1> USE ShardForType
  <1>1. Holds(t) /\ pc[t].busy /\ pc[t].op = "clear" /\ pc[t].op \in SweepOps
    BY DEF Wipe, Holds, SweepOps
  <1>2. Leave(i, {}) /\ pc' = Onward(t, 0)
    BY DEF Wipe, Wiped
  <1>3. poisoned' \in [Index -> BOOLEAN]
    BY Zenon DEF Wipe, IInv, TypeOK
  <1>4. pc \in [Thread -> PcType] /\ i \in Index
    BY DEF IInv, TypeOK, PcType
  <1>5. {} \in SUBSET shard[i] /\ IsFiniteSet({}) /\ Cardinality({}) <= PerShard
    BY FS_EmptySet
  <1>6. Visited(t) = V /\ ClearInv(t)
    BY <1>1 DEF IInv, Visited
  <1>7. Among(steady[t], V) = {} /\ pc[t].sum = 0
    BY <1>1, <1>6 DEF ClearInv
  <1>8. /\ pc' \in [Thread -> PcType] /\ \A u \in Thread : u # t => pc'[u] = pc[u]
        /\ pc'[t].op = pc[t].op /\ pc'[t].sum = pc[t].sum + 0
        /\ Visited(t)' = W
    BY <1>1, <1>2, <1>4, OnwardFacts
  <1>9. Among(steady'[t], W) \subseteq Among(steady[t], V) \cup {}
    BY <1>1, <1>2, <1>5, SweepFacts
  <1>10. ClearInv(t)'
    <2>1. Among(steady[t], Visited(t))' = Among(steady'[t], W)
      BY <1>8 DEF Among, shard_for
    <2> HIDE DEF W, V
    <2>2. QED BY <2>1, <1>7, <1>8, <1>9 DEF ClearInv
  <1>11. CountInv(t)' /\ BoundInv(t)'
    BY <1>1, <1>8 DEF CountInv, BoundInv, CountOps
  <1>12. pc'[t].busy => pc'[t].op \in SweepOps
    BY <1>1, <1>8
  <1>13. \A k \in {} : shard_for(k) = pc[t].at
    OBVIOUS
  <1>14. {} \in SUBSET Key
    OBVIOUS
  <1>15. \A j \in Index : ~poisoned'[j] => ~poisoned[j]
    BY Zenon DEF Wipe
  <1>16. QED
    BY <1>1, <1>2, <1>3, <1>5, <1>15, <1>8, <1>10, <1>11, <1>12, <1>13, <1>14, LeaveIInv DEF i

\* Every step keeps the invariant.
LEMMA NextIInv == IInv /\ [Next]_vars => IInv'
  <1> SUFFICES ASSUME IInv, [Next]_vars PROVE IInv'
    OBVIOUS
  <1>1. ASSUME NEW t \in Thread, NEW op \in KeyOps, NEW k \in Key, Begin(t, op, k, shard_for(k))
        PROVE  IInv'
    <2>1. shard_for(k) \in Index /\ op \notin SweepOps
      BY ShardForType DEF KeyOps, SweepOps, CountOps
    <2>2. QED BY <1>1, <2>1, BeginIInv
  <1>2. ASSUME NEW t \in Thread, NEW op \in SweepOps, Begin(t, op, NoKey, 0)
        PROVE  IInv'
    <2>1. 0 \in Index /\ op \notin KeyOps
      BY ShardForType DEF KeyOps, SweepOps, CountOps
    <2>2. QED BY <1>2, <2>1, BeginIInv
  <1>3. ASSUME NEW t \in Thread, Lock(t) PROVE IInv'
    BY <1>3, LockIInv
  <1>4. ASSUME NEW t \in Thread, Read(t) PROVE IInv'
    <2>1. PICK ks \in {shard[pc[t].at], shard[pc[t].at] \ {pc[t].key}} : Leave(pc[t].at, ks)
      BY <1>4 DEF Read
    <2>2. /\ Holds(t) /\ pc[t].op \in KeyOps /\ pc' = Returned(t) /\ pc[t].at \in Index
          /\ ks \in SUBSET shard[pc[t].at]
      BY <1>4, <2>1 DEF Read, KeyOps, IInv, TypeOK
    <2>3. poisoned' = poisoned /\ poisoned' \in [Index -> BOOLEAN]
      BY <1>4, Zenon DEF Read, IInv, TypeOK
    <2>4. QED BY <2>1, <2>2, <2>3, PartReturnIInv
  <1>5. ASSUME NEW t \in Thread, Insert(t) PROVE IInv'
    <2>1. /\ Holds(t) /\ pc[t].busy /\ pc[t].op \in KeyOps /\ pc' = Returned(t)
          /\ pc[t].at \in Index
      BY <1>5 DEF Insert, Holds, KeyOps, IInv, TypeOK
    <2>2. poisoned' = poisoned /\ poisoned' \in [Index -> BOOLEAN]
      BY <1>5, Zenon DEF Insert, IInv, TypeOK
    <2>3. CASE \E ks \in RoomFor(pc[t].at, pc[t].key) : Leave(pc[t].at, ks \cup {pc[t].key})
      <3>1. PICK ks \in RoomFor(pc[t].at, pc[t].key) : Leave(pc[t].at, ks \cup {pc[t].key})
        BY <2>3
      <3> DEFINE ls == ks \cup {pc[t].key}
      <3>2. /\ ls \in SUBSET Key /\ IsFiniteSet(ls)
            /\ ~poisoned[pc[t].at] => Cardinality(ls) <= PerShard
            /\ \A k \in ls : shard_for(k) = pc[t].at
        BY <2>1, RoomForFacts
      <3>3. Leave(pc[t].at, ls)
        BY <3>1
      <3> HIDE DEF ls
      <3>4. QED BY <3>2, <3>3, <2>1, <2>2, ReturnIInv
    <2>4. CASE Leave(pc[t].at, shard[pc[t].at])
      BY <2>1, <2>2, <2>4, PartReturnIInv
    <2>5. QED BY <1>5, <2>3, <2>4 DEF Insert
  <1>6. ASSUME NEW t \in Thread, Remove(t) PROVE IInv'
    <2>1. /\ Holds(t) /\ pc[t].op \in KeyOps /\ pc' = Returned(t) /\ pc[t].at \in Index
          /\ Leave(pc[t].at, shard[pc[t].at] \ {pc[t].key})
      BY <1>6 DEF Remove, KeyOps, IInv, TypeOK
    <2>2. poisoned' = poisoned /\ poisoned' \in [Index -> BOOLEAN]
      BY <1>6, Zenon DEF Remove, IInv, TypeOK
    <2>3. shard[pc[t].at] \ {pc[t].key} \in SUBSET shard[pc[t].at]
      OBVIOUS
    <2>4. QED BY <2>1, <2>2, <2>3, PartReturnIInv
  <1>7. ASSUME NEW t \in Thread, Panic(t) PROVE IInv'
    <2>1. /\ Holds(t) /\ pc[t].busy /\ pc[t].op \in KeyOps /\ pc' = Returned(t)
          /\ pc[t].at \in Index
      BY <1>7 DEF Panic, Holds, KeyOps, IInv, TypeOK
    <2>2. poisoned' \in [Index -> BOOLEAN] /\ \A j \in Index : ~poisoned'[j] => ~poisoned[j]
      <3>1. poisoned \in [Index -> BOOLEAN] /\ poisoned' = [poisoned EXCEPT ![pc[t].at] = TRUE]
        BY <1>7, Zenon DEF Panic, IInv, TypeOK
      <3>2. QED BY <3>1
    <2>3. \E ks \in SUBSET shard[pc[t].at] : Leave(pc[t].at, ks)
      <3>1. CASE pc[t].op = "get" /\ Leave(pc[t].at, shard[pc[t].at])
        BY <3>1
      <3>2. CASE \E ks \in RoomFor(pc[t].at, pc[t].key) \cup {shard[pc[t].at]} :
                   Leave(pc[t].at, ks)
        BY <3>2, <2>1, RoomForFacts
      <3>3. QED BY <1>7, <3>1, <3>2 DEF Panic
    <2>4. PICK ks \in SUBSET shard[pc[t].at] : Leave(pc[t].at, ks)
      BY <2>3
    <2>5. QED BY <2>1, <2>2, <2>4, PartReturnIInv
  <1>8. ASSUME NEW t \in Thread, Count(t) PROVE IInv'
    BY <1>8, CountIInv
  <1>9. ASSUME NEW t \in Thread, Wipe(t) PROVE IInv'
    BY <1>9, WipeIInv
  <1>10. CASE UNCHANGED vars
    <2>1. /\ shard' = shard /\ owner' = owner /\ poisoned' = poisoned /\ pc' = pc
          /\ calls' = calls /\ steady' = steady /\ seen' = seen
      BY <1>10 DEF vars
    <2>2. TypeOK'
      BY <2>1, Zenon DEF IInv, TypeOK
    <2>3. OneGuardEach' /\ OwnKeys' /\ WithinCapacity' /\ Routed' /\ Finite'
      BY <2>1 DEF IInv, OneGuardEach, OwnKeys, WithinCapacity, Routed, shard_for, Finite
    <2>4. \A u \in Thread : CountInv(u)' /\ BoundInv(u)' /\ ClearInv(u)'
      BY <2>1 DEF IInv, CountInv, BoundInv, Healthy, ClearInv, Visited, Among, shard_for
    <2>5. QED BY <2>2, <2>3, <2>4 DEF IInv
  <1>11. QED
    BY <1>1, <1>2, <1>3, <1>4, <1>5, <1>6, <1>7, <1>8, <1>9, <1>10 DEF Next, Step, Quiet

\* Fewer shards have less room.
LEMMA ProductMonotone ==
  ASSUME NEW n \in Nat, n <= NumShards
  PROVE  n * PerShard <= NumShards * PerShard /\ n * PerShard \in Nat
  <1> USE ShardForType
  <1>1. CASE NumShards = 1 BY <1>1
  <1>2. CASE NumShards = 2 BY <1>2
  <1>3. CASE NumShards = 4 BY <1>3
  <1>4. CASE NumShards = 8 BY <1>4
  <1>5. CASE NumShards = 16 BY <1>5
  <1>6. QED BY <1>1, <1>2, <1>3, <1>4, <1>5, ShardAssumption

\* The invariant holds in every state of every run.
LEMMA Invariance == Spec => []IInv
  BY InitIInv, NextIInv, PTL DEF Spec

\* Shards, guards and calls keep their types; a sweep never leaves the shards
\* (Sharded of sharding.rs), and an operation works on a shard that exists.
THEOREM TypeCorrect == Spec => []TypeOK
  <1>1. IInv => TypeOK
    BY DEF IInv
  <1>2. QED BY <1>1, Invariance, PTL

\* No thread ever holds two guards, nor one after its call: len and clear let go
\* of each shard before they lock the next, so no cycle of waiting threads arises.
THEOREM OneGuard == Spec => []OneGuardEach
  <1>1. IInv => OneGuardEach
    BY DEF IInv
  <1>2. QED BY <1>1, Invariance, PTL

\* A shard in which no call has panicked is within its capacity, whatever the
\* threads do; and while no call has panicked at all, len and is_empty count no
\* more than the capacity of all shards, although entries come and go between
\* their turns.  A shard after a panic is excepted: LfuCache may evict nothing.
THEOREM CapacityHolds == Spec => []CapacityContract
  <1>1. IInv => CapacityContract
    <2> SUFFICES ASSUME IInv PROVE CapacityContract
      OBVIOUS
    <2>1. ASSUME Healthy, NEW t \in Thread, pc[t].op \in CountOps
          PROVE  pc[t].sum <= NumShards * PerShard
      <3> DEFINE n == IF pc[t].busy THEN pc[t].at ELSE NumShards
      <3>1. pc[t].sum \in Nat /\ pc[t].at \in Index
        BY DEF IInv, TypeOK
      <3>2. pc[t].sum <= n * PerShard
        BY <2>1 DEF IInv, BoundInv
      <3>3. n \in Nat /\ n <= NumShards
        BY <3>1, ShardForType DEF Index
      <3> HIDE DEF n
      <3>4. n * PerShard <= NumShards * PerShard /\ n * PerShard \in Nat
        BY <3>3, ProductMonotone, ShardForType
      <3>5. NumShards * PerShard \in Nat
        BY ShardForType
      <3>6. QED BY <3>1, <3>2, <3>4, <3>5
    <2>2. WithinCapacity
      BY DEF IInv
    <2>3. QED BY <2>1, <2>2, Zenon DEF CapacityContract, WithinCapacity, Healthy
  <1>2. QED BY <1>1, Invariance, PTL

\* A key of the cache is in some shard, so that nothing is left out once all
\* shards have been gone through.
LEMMA AllVisited ==
  ASSUME NEW S \in SUBSET Key
  PROVE  Among(S, Index) = S
  BY ShardForType DEF Among

\* len and is_empty answer with a number between the keys that were cached all
\* through the call and those cached at some time during it, whatever the other
\* threads do meanwhile.
THEOREM HonestLen == Spec => []LenIsHonest
  <1>1. IInv => LenIsHonest
    <2>1. SUFFICES ASSUME IInv, NEW t \in Thread, pc[t].op \in CountOps, ~pc[t].busy
                   PROVE  Cardinality(steady[t]) <= pc[t].sum /\ pc[t].sum <= Cardinality(seen[t])
      BY DEF LenIsHonest
    <2>2. steady[t] \in SUBSET Key /\ seen[t] \in SUBSET Key /\ CountInv(t)
      BY <2>1 DEF IInv, TypeOK
    <2>3. Visited(t) = Index
      BY <2>1 DEF Visited
    <2>4. QED BY <2>1, <2>2, <2>3, AllVisited DEF CountInv
  <1>2. QED BY <1>1, Invariance, PTL

\* When clear returns, nothing is left that has been cached ever since the call,
\* although it never holds more than one of the locks.
THEOREM ThoroughClear == Spec => []ClearIsThorough
  <1>1. IInv => ClearIsThorough
    <2>1. SUFFICES ASSUME IInv, NEW t \in Thread, pc[t].op = "clear", ~pc[t].busy
                   PROVE  steady[t] = {}
      BY DEF ClearIsThorough
    <2>2. steady[t] \in SUBSET Key /\ ClearInv(t)
      BY <2>1 DEF IInv, TypeOK
    <2>3. Visited(t) = Index
      BY <2>1 DEF Visited
    <2>4. QED BY <2>1, <2>2, <2>3, AllVisited DEF ClearInv
  <1>2. QED BY <1>1, Invariance, PTL
=============================================================================
