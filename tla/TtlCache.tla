------------------------------ MODULE TtlCache ------------------------------
(***************************************************************************)
(* One shard of TtlCache, src/src/ttl.rs, and the threads that call it: a  *)
(* map of entries with a deadline, from which expired entries are dropped  *)
(* only when a call comes across them.                                     *)
(*                                                                         *)
(* A call reads the clock once it holds the lock and is one action, except *)
(* for the inserts: they compute the deadline first and then wait for the  *)
(* lock, while time passes and other calls run.                            *)
(*                                                                         *)
(* granted is a history variable: the insert each cached entry comes from. *)
(* No action reads it.                                                     *)
(***************************************************************************)
EXTENDS Recency, FiniteSets

CONSTANTS Thread,      \* the client threads
          Key,         \* the keys clients use
          Value,       \* the values clients store
          Ttl,         \* the Durations clients pass
          DefaultTtl,  \* default_ttl
          Capacity,    \* Inner::capacity, the per-shard capacity
          FarFuture,   \* FAR_FUTURE
          InstantMax,  \* the last Instant
          MaxTime      \* bound of the model: how far the clock runs

\* The clock stays FAR_FUTURE away from the last Instant.
ASSUME TtlAssumption ==
  /\ Ttl \subseteq Nat /\ DefaultTtl \in Ttl
  /\ Capacity \in Nat \ {0}
  /\ FarFuture \in Nat \ {0} /\ MaxTime \in Nat /\ InstantMax \in Nat
  /\ MaxTime + FarFuture <= InstantMax

VARIABLES now,       \* the monotonic clock behind Instant::now
          map,       \* map: HashMap<K, Entry>, Entry = [value, expires_at]
          calls,     \* the insert each thread has begun, or Idle
          granted,   \* history: the insert that stored each cached entry
          reply      \* what the last call returned

vars == << now, map, calls, granted, reply >>

Idle == [op |-> "idle"]

Init ==
  /\ now = 0
  /\ map = EmptyMap
  /\ calls = [t \in Thread |-> Idle]
  /\ granted = EmptyMap
  /\ reply = << "new", "ok" >>

Tick ==
  /\ now < MaxTime
  /\ now' = now + 1
  /\ UNCHANGED << map, calls, granted, reply >>

Live(e) == e.expires_at > now

\* The map, and the history with it, cut down to the keys in ks.
Keep(ks) ==
  /\ map' = [k \in ks |-> map[k]]
  /\ granted' = [k \in ks |-> granted[k]]

\* Mutant: the sum is not checked.
compute_deadline_unchecked(ttl) == now + ttl

\* checked_add, then FAR_FUTURE, then now.
compute_deadline(ttl) ==
  IF now + ttl <= InstantMax THEN now + ttl
  ELSE IF now + FarFuture <= InstantMax THEN now + FarFuture ELSE now

\* What insert and insert_with_ttl do before they lock.
Begin(t, k, v, ttl) ==
  /\ calls[t] = Idle
  /\ calls' = [calls EXCEPT ![t] =
       [op |-> "insert", key |-> k, value |-> v, since |-> now, ttl |-> ttl,
        deadline |-> compute_deadline(ttl)]]
  /\ UNCHANGED << now, map, granted, reply >>

\* Mutant: an overwrite does not re-arm the timer.
NewEntry_keeping(c) ==
  [value |-> c.value,
   expires_at |-> IF c.key \in DOMAIN map THEN map[c.key].expires_at ELSE c.deadline]

NewEntry(c) == [value |-> c.value, expires_at |-> c.deadline]

insert_with_ttl(t, k, v, ttl) == Begin(t, k, v, ttl)

insert(t, k, v) == Begin(t, k, v, DefaultTtl)

\* The entry of the call c among those whose keys are in ks.
Stored(ks, c) ==
  /\ map' = [k \in ks \cup {c.key} |-> IF k = c.key THEN NewEntry(c) ELSE map[k]]
  /\ granted' = [k \in ks \cup {c.key} |->
                   IF k = c.key THEN [value |-> c.value, since |-> c.since, ttl |-> c.ttl]
                   ELSE granted[k]]

\* insert_inner of a key with a live entry.
Overwrite(t) ==
  /\ calls[t] # Idle
  /\ LET c == calls[t] IN
       /\ c.key \in DOMAIN map /\ Live(map[c.key])
       /\ Stored(DOMAIN map, c)
       /\ reply' = << "insert", "some", c.key, map[c.key].value >>
  /\ calls' = [calls EXCEPT ![t] = Idle]
  /\ UNCHANGED now

\* Mutant: the entry that expires last.
find_victim_last(ks) ==
  {k \in ks : \A l \in ks : map[k].expires_at >= map[l].expires_at}

\* The keys min_by_key can return: of several with the least deadline the one
\* the HashMap happens to iterate first.
find_victim(ks) ==
  {k \in ks : \A l \in ks : map[k].expires_at <= map[l].expires_at}

\* Mutant: one entry too many.
FullLate(ks) == Cardinality(ks) > Capacity

Full(ks) == Cardinality(ks) >= Capacity

\* insert_inner of a key without a live entry: the expired one goes, and if the
\* map is still full, a victim, whose key is cloned first.
Add(t) ==
  /\ calls[t] # Idle
  /\ LET c == calls[t]
         others == DOMAIN map \ {c.key}
     IN /\ c.key \in DOMAIN map => ~Live(map[c.key])
        /\ \/ /\ ~Full(others) /\ Stored(others, c)
              /\ reply' = << "insert", "none", c.key >>
           \/ /\ Full(others)
              /\ \E victim \in find_victim(others) : Stored(others \ {victim}, c)
              /\ reply' = << "insert", "none", c.key >>
           \/ /\ Full(others) /\ Keep(others)
              /\ reply' = << "insert", "panicked", c.key >>
  /\ calls' = [calls EXCEPT ![t] = Idle]
  /\ UNCHANGED now

Get(k) ==
  /\ \/ /\ k \notin DOMAIN map
        /\ reply' = << "get", "none", k >>
        /\ UNCHANGED << map, granted >>
     \/ /\ k \in DOMAIN map /\ ~Live(map[k])
        /\ Keep(DOMAIN map \ {k})
        /\ reply' = << "get", "none", k >>
     \/ /\ k \in DOMAIN map /\ Live(map[k])
        /\ \/ reply' = << "get", "some", k, map[k].value >>
           \/ reply' = << "get", "panicked", k >>
        /\ UNCHANGED << map, granted >>
  /\ UNCHANGED << now, calls >>

\* remove does not look at the deadline.
Remove(k) ==
  /\ reply' = IF k \in DOMAIN map THEN << "remove", "some", k, map[k].value >>
              ELSE << "remove", "none", k >>
  /\ Keep(DOMAIN map \ {k})
  /\ UNCHANGED << now, calls >>

ContainsKey(k) ==
  /\ \/ /\ k \in DOMAIN map /\ Live(map[k])
        /\ reply' = << "contains_key", "true", k >>
        /\ UNCHANGED << map, granted >>
     \/ /\ k \in DOMAIN map => ~Live(map[k])
        /\ reply' = << "contains_key", "false", k >>
        /\ Keep(DOMAIN map \ {k})
  /\ UNCHANGED << now, calls >>

purge_expired == {k \in DOMAIN map : Live(map[k])}

Size ==
  /\ Keep(purge_expired)
  /\ reply' = << "len", "ok", Cardinality(purge_expired) >>
  /\ UNCHANGED << now, calls >>

Clear ==
  /\ Keep({})
  /\ reply' = << "clear", "ok" >>
  /\ UNCHANGED << now, calls >>

Next ==
  \/ Tick
  \/ \E t \in Thread, k \in Key, v \in Value : \/ insert(t, k, v)
                                             \/ \E ttl \in Ttl : insert_with_ttl(t, k, v, ttl)
  \/ \E t \in Thread : Overwrite(t) \/ Add(t)
  \/ \E k \in Key : Get(k) \/ Remove(k) \/ ContainsKey(k)
  \/ Size \/ Clear

Spec == Init /\ [][Next]_vars
-----------------------------------------------------------------------------
\* Entries, deadlines and calls have their types: every deadline is an Instant,
\* whatever ttl a client passes.
TypeOK ==
  /\ now \in 0..MaxTime
  /\ DOMAIN map \subseteq Key /\ DOMAIN granted = DOMAIN map
  /\ \A k \in DOMAIN map : map[k] \in [value : Value, expires_at : 0..InstantMax]
  /\ \A t \in Thread : calls[t] # Idle =>
       /\ calls[t].key \in Key /\ calls[t].value \in Value /\ calls[t].ttl \in Ttl
       /\ calls[t].since \in 0..now /\ calls[t].deadline \in 0..InstantMax

\* The shard never holds more than its capacity, expired entries included.
CapacityInvariant == Cardinality(DOMAIN map) <= Capacity

\* An entry holds the value of the last insert of its key and is live for the
\* ttl of that insert, counted from the moment it was called: neither an
\* overwrite nor a thread that waits for the lock stretches or cuts it.
LivesForItsTtl ==
  \A k \in DOMAIN map :
    LET g == granted[k]
        span == IF g.since + g.ttl > InstantMax THEN FarFuture ELSE g.ttl
    IN /\ map[k].value = g.value
       /\ Live(map[k]) <=> now < g.since + span

\* The live entries, and what a remove can still return of the expired ones.
Policy == INSTANCE TtlPolicy WITH
  entries <- [k \in {l \in DOMAIN map : Live(map[l])} |-> map[k]],
  expired <- [k \in {l \in DOMAIN map : ~Live(map[l])} |-> map[k].value]

\* From the moment it expires an entry is not returned by get or insert, not
\* reported by contains_key and not counted by len, and a live entry is evicted
\* only if all entries are live and none expires sooner.  Two things are not
\* promised.  remove returns the value of an expired entry that no call has come
\* across (ttl.rs:206-209), its own and no other; and an insert whose deadline
\* passed while it waited for the lock still takes a live entry's room.
ImplementsPolicy == Policy!Spec
=============================================================================
