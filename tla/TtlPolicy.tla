----------------------------- MODULE TtlPolicy -----------------------------
(***************************************************************************)
(* What one shard of TtlCache promises (src/src/ttl.rs:17-26): an entry    *)
(* counts until the moment it expires, and when Capacity live entries      *)
(* leave no room, one that expires soonest is evicted.  A deadline counts  *)
(* from the start of the insert, not from the moment the entry is stored,  *)
(* which is later when the thread has to wait.                             *)
(*                                                                         *)
(* Expiry can be observed in two ways.  remove returns the value of an     *)
(* expired entry that no call has come across yet: expired records these   *)
(* values.  And an insert that has expired by the time it is stored still  *)
(* takes the room of a live entry.                                         *)
(***************************************************************************)
EXTENDS Recency, FiniteSets

CONSTANTS Thread, Key, Value, Ttl, Capacity, FarFuture, InstantMax

VARIABLES now,       \* the monotonic clock
          entries,   \* the live entries, from keys to [value, expires_at]
          expired,   \* the values of expired entries no call has come across
          calls,     \* the insert each thread has begun, or Idle
          reply      \* what the last call returned

vars == << now, entries, expired, calls, reply >>

Idle == [op |-> "idle"]

Dropping(m, ks) == [k \in DOMAIN m \ ks |-> m[k]]

Init == /\ now = 0 /\ entries = EmptyMap /\ expired = EmptyMap
        /\ calls = [t \in Thread |-> Idle] /\ reply = << "new", "ok" >>

\* Time passes: what expires no longer counts from that moment on.
Tick ==
  /\ now' = now + 1
  /\ LET due == {k \in DOMAIN entries : entries[k].expires_at <= now'} IN
       /\ entries' = Dropping(entries, due)
       /\ expired' = [k \in DOMAIN expired \cup due |->
                         IF k \in DOMAIN expired THEN expired[k] ELSE entries[k].value]
  /\ UNCHANGED << calls, reply >>

\* A ttl beyond the end of time means FarFuture from now.
Begin(t, k, v, ttl) ==
  /\ calls[t] = Idle
  /\ calls' = [calls EXCEPT ![t] =
       [op |-> "insert", key |-> k, value |-> v, since |-> now, ttl |-> ttl,
        deadline |-> now + (IF now + ttl > InstantMax THEN FarFuture ELSE ttl)]]
  /\ UNCHANGED << now, entries, expired, reply >>

Soonest == {k \in DOMAIN entries :
              \A l \in DOMAIN entries : entries[k].expires_at <= entries[l].expires_at}

\* The entry is stored, as an expired one if its deadline has passed while the
\* thread was waiting.
Store(t, victims) ==
  LET c == calls[t]
      late == IF c.deadline > now THEN {} ELSE {c.key}
      kept(m) == DOMAIN m \ (victims \cup {c.key})
  IN /\ entries' = [k \in kept(entries) \cup ({c.key} \ late) |->
                      IF k = c.key THEN [value |-> c.value, expires_at |-> c.deadline]
                      ELSE entries[k]]
     /\ expired' = [k \in kept(expired) \cup late |->
                      IF k = c.key THEN c.value ELSE expired[k]]

\* A cache full of live entries gives up one of them; otherwise at most an
\* expired entry goes.
Insert(t) ==
  /\ calls[t] # Idle
  /\ calls' = [calls EXCEPT ![t] = Idle]
  /\ LET k == calls[t].key IN
       \/ /\ k \in DOMAIN entries
          /\ Store(t, {})
          /\ reply' = << "insert", "some", k, entries[k].value >>
       \/ /\ k \notin DOMAIN entries
          /\ \/ /\ Cardinality(DOMAIN entries) < Capacity
                /\ Store(t, {}) \/ \E v \in DOMAIN expired : Store(t, {v})
             \/ Cardinality(DOMAIN entries) >= Capacity /\ \E v \in Soonest : Store(t, {v})
          /\ reply' = << "insert", "none", k >>
       \/ /\ k \notin DOMAIN entries
          /\ expired' = Dropping(expired, {k})
          /\ reply' = << "insert", "panicked", k >>
          /\ UNCHANGED entries
  /\ UNCHANGED now

\* get comes across the expired entry of its key, and so do contains_key, len
\* and clear: no later call sees it.
Get(k) ==
  /\ \/ k \notin DOMAIN entries /\ reply' = << "get", "none", k >>
     \/ k \in DOMAIN entries /\ reply' = << "get", "some", k, entries[k].value >>
     \/ k \in DOMAIN entries /\ reply' = << "get", "panicked", k >>
  /\ expired' = Dropping(expired, {k})
  /\ UNCHANGED << now, entries, calls >>

\* remove returns the value of a live entry or of one that expired unseen.
Remove(k) ==
  /\ reply' = IF k \in DOMAIN entries THEN << "remove", "some", k, entries[k].value >>
              ELSE IF k \in DOMAIN expired THEN << "remove", "some", k, expired[k] >>
              ELSE << "remove", "none", k >>
  /\ entries' = Dropping(entries, {k})
  /\ expired' = Dropping(expired, {k})
  /\ UNCHANGED << now, calls >>

ContainsKey(k) ==
  /\ reply' = << "contains_key", IF k \in DOMAIN entries THEN "true" ELSE "false", k >>
  /\ expired' = Dropping(expired, {k})
  /\ UNCHANGED << now, entries, calls >>

Size ==
  /\ reply' = << "len", "ok", Cardinality(DOMAIN entries) >>
  /\ expired' = EmptyMap
  /\ UNCHANGED << now, entries, calls >>

Clear ==
  /\ entries' = EmptyMap
  /\ expired' = EmptyMap
  /\ reply' = << "clear", "ok" >>
  /\ UNCHANGED << now, calls >>

Next ==
  \/ Tick
  \/ \E t \in Thread, k \in Key, v \in Value, ttl \in Ttl : Begin(t, k, v, ttl)
  \/ \E t \in Thread : Insert(t)
  \/ \E k \in Key : Get(k) \/ Remove(k) \/ ContainsKey(k)
  \/ Size \/ Clear

Spec == Init /\ [][Next]_vars
=============================================================================
