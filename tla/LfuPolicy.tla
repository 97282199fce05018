----------------------------- MODULE LfuPolicy -----------------------------
(***************************************************************************)
(* What one shard of LfuCache promises (src/src/lfu.rs:14-20): a map of at *)
(* most Capacity entries, how often each was accessed, and in which order. *)
(* On overflow an entry with the lowest count goes; among those, the one   *)
(* whose last access is the oldest.                                        *)
(***************************************************************************)
EXTENDS Recency, FiniteSets

CONSTANTS Key, Value, Capacity, CountMax

VARIABLES entries,   \* the cached entries, a function from keys to values
          count,     \* accesses of each cached key, up to CountMax
          recency,   \* the cached keys, most recently accessed first
          reply      \* what the last call returned

vars == << entries, count, recency, reply >>

Init == /\ entries = EmptyMap /\ count = EmptyMap
        /\ recency = << >> /\ reply = << "new", "ok" >>

Access(k) ==
  /\ recency' = ToFront(recency, k)
  /\ count' = [count EXCEPT ![k] = IF @ < CountMax THEN @ + 1 ELSE @]

Get(k) ==
  \/ /\ k \notin DOMAIN entries
     /\ reply' = << "get", "none", k >>
     /\ UNCHANGED << entries, count, recency >>
  \/ /\ k \in DOMAIN entries
     /\ Access(k)
     /\ reply' = << "get", "some", k, entries[k] >>
     /\ UNCHANGED entries

Replace(k, v) ==
  /\ k \in DOMAIN entries
  /\ Access(k)
  /\ entries' = [entries EXCEPT ![k] = v]
  /\ reply' = << "insert", "some", k, entries[k] >>

Coldest == {k \in DOMAIN entries : \A l \in DOMAIN entries : count[k] <= count[l]}

Victim == CHOOSE k \in Coldest :
            \A l \in Coldest : Position(recency, l) <= Position(recency, k)

Add(k, v) ==
  /\ k \notin DOMAIN entries
  /\ LET full == Cardinality(DOMAIN entries) >= Capacity
         kept == IF full THEN DOMAIN entries \ {Victim} ELSE DOMAIN entries
     IN /\ entries' = [x \in kept \cup {k} |-> IF x = k THEN v ELSE entries[x]]
        /\ count' = [x \in kept \cup {k} |-> IF x = k THEN 1 ELSE count[x]]
        /\ recency' = Push(IF full THEN Without(recency, Victim) ELSE recency, k)
  /\ reply' = << "insert", "none", k >>

Remove(k) ==
  \/ /\ k \notin DOMAIN entries
     /\ reply' = << "remove", "none", k >>
     /\ UNCHANGED << entries, count, recency >>
  \/ /\ k \in DOMAIN entries
     /\ entries' = [x \in DOMAIN entries \ {k} |-> entries[x]]
     /\ count' = [x \in DOMAIN entries \ {k} |-> count[x]]
     /\ recency' = Without(recency, k)
     /\ reply' = << "remove", "some", k, entries[k] >>

ContainsKey(k) ==
  /\ reply' = << "contains_key", IF k \in DOMAIN entries THEN "true" ELSE "false", k >>
  /\ UNCHANGED << entries, count, recency >>

Size ==
  /\ reply' = << "len", "ok", Cardinality(DOMAIN entries) >>
  /\ UNCHANGED << entries, count, recency >>

Clear ==
  /\ entries' = EmptyMap /\ count' = EmptyMap /\ recency' = << >>
  /\ reply' = << "clear", "ok" >>

Next ==
  \/ \E k \in Key : Get(k) \/ Remove(k) \/ ContainsKey(k)
  \/ \E k \in Key, v \in Value : Replace(k, v) \/ Add(k, v)
  \/ Size \/ Clear

Spec == Init /\ [][Next]_vars
=============================================================================
