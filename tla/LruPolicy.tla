----------------------------- MODULE LruPolicy -----------------------------
(***************************************************************************)
(* What one shard of LruCache promises (src/src/lru.rs:12-16 and the trait *)
(* contract of src/src/cache.rs): a map of at most Capacity entries and    *)
(* the order in which its keys were last accessed, most recent first.      *)
(* get and insert are accesses; on overflow the last key goes.             *)
(*                                                                         *)
(* reply is the outcome of the last call.  A call in which the Clone of a  *)
(* key or a value panics replies "panicked"; the cache stays usable and    *)
(* has lost nothing but, when an insert overflowed, the evicted entry.     *)
(***************************************************************************)
EXTENDS Recency, FiniteSets

CONSTANTS Key, Value, Capacity

VARIABLES entries,   \* the cached entries, a function from keys to values
          recency,   \* the keys of entries, most recently accessed first
          reply      \* what the last call returned

vars == << entries, recency, reply >>

Init == entries = EmptyMap /\ recency = << >> /\ reply = << "new", "ok" >>

Get(k) ==
  \/ /\ k \notin DOMAIN entries
     /\ reply' = << "get", "none", k >>
     /\ UNCHANGED << entries, recency >>
  \/ /\ k \in DOMAIN entries
     /\ recency' = ToFront(recency, k)
     /\ \/ reply' = << "get", "some", k, entries[k] >>
        \/ reply' = << "get", "panicked", k >>
     /\ UNCHANGED entries

Replace(k, v) ==
  /\ k \in DOMAIN entries
  /\ entries' = [entries EXCEPT ![k] = v]
  /\ recency' = ToFront(recency, k)
  /\ reply' = << "insert", "some", k, entries[k] >>

\* The entries that are kept when a new key arrives.
Kept == IF Cardinality(DOMAIN entries) < Capacity THEN DOMAIN entries
        ELSE DOMAIN entries \ {recency[Len(recency)]}

KeptOrder == IF Cardinality(DOMAIN entries) < Capacity THEN recency
             ELSE Without(recency, recency[Len(recency)])

Add(k, v) ==
  /\ k \notin DOMAIN entries
  /\ \/ /\ entries' = [x \in Kept \cup {k} |-> IF x = k THEN v ELSE entries[x]]
        /\ recency' = Push(KeptOrder, k)
        /\ reply' = << "insert", "none", k >>
     \/ /\ entries' = [x \in Kept |-> entries[x]]
        /\ recency' = KeptOrder
        /\ reply' = << "insert", "panicked", k >>

Remove(k) ==
  \/ /\ k \notin DOMAIN entries
     /\ reply' = << "remove", "none", k >>
     /\ UNCHANGED << entries, recency >>
  \/ /\ k \in DOMAIN entries
     /\ entries' = [x \in DOMAIN entries \ {k} |-> entries[x]]
     /\ recency' = Without(recency, k)
     /\ reply' = << "remove", "some", k, entries[k] >>

ContainsKey(k) ==
  /\ reply' = << "contains_key", IF k \in DOMAIN entries THEN "true" ELSE "false", k >>
  /\ UNCHANGED << entries, recency >>

Size ==
  /\ reply' = << "len", "ok", Cardinality(DOMAIN entries) >>
  /\ UNCHANGED << entries, recency >>

Clear ==
  /\ entries' = EmptyMap
  /\ recency' = << >>
  /\ reply' = << "clear", "ok" >>

Next ==
  \/ \E k \in Key : Get(k) \/ Remove(k) \/ ContainsKey(k)
  \/ \E k \in Key, v \in Value : Replace(k, v) \/ Add(k, v)
  \/ Size \/ Clear

Spec == Init /\ [][Next]_vars
=============================================================================
