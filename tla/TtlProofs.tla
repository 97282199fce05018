----------------------------- MODULE TtlProofs -----------------------------
(***************************************************************************)
(* TtlCache, for every set of threads, keys and values, every ttl, every   *)
(* capacity and every length of a run.  A deadline is the one its insert   *)
(* was called with, however long the thread waited for the lock, and an    *)
(* entry that has expired is seen by no call but a remove.                 *)
(***************************************************************************)
EXTENDS TtlCache, FiniteSetTheorems, TLAPS

\* How long an insert at time s asks its entry to live.
Span(s, ttl) == IF s + ttl > InstantMax THEN FarFuture ELSE ttl

\* A grant that an entry with value v and deadline d may come from.
Grants(g, v, d) ==
  /\ g.since \in 0..now /\ g.ttl \in Ttl /\ g.value = v
  /\ d = g.since + Span(g.since, g.ttl) /\ d \in 0..InstantMax

Entry == [value : Value, expires_at : 0..InstantMax]

MapInv ==
  /\ DOMAIN map \subseteq Key /\ IsFiniteSet(DOMAIN map) /\ DOMAIN granted = DOMAIN map
  /\ \A k \in DOMAIN map : map[k] \in Entry /\ Grants(granted[k], map[k].value, map[k].expires_at)

(***************************************************************************)
(* The deadline of an insert that waits for the lock is fixed: without     *)
(* this the invariant says nothing of the entry it will store.             *)
(***************************************************************************)
CallsInv ==
  /\ DOMAIN calls = Thread /\ calls = [t \in Thread |-> calls[t]]
  /\ \A t \in Thread : calls[t] # Idle =>
       /\ calls[t].key \in Key /\ calls[t].value \in Value
       /\ Grants(calls[t], calls[t].value, calls[t].deadline)

IInv == now \in 0..MaxTime /\ MapInv /\ CallsInv /\ Cardinality(DOMAIN map) <= Capacity

\* What a call that computes its deadline now will be granted.
LEMMA DeadlineFacts ==
  ASSUME now \in 0..MaxTime, NEW ttl \in Ttl
  PROVE  compute_deadline(ttl) = now + Span(now, ttl) /\ compute_deadline(ttl) \in 0..InstantMax
  <1>1. ttl \in Nat /\ now \in Nat /\ now + FarFuture <= InstantMax /\ now + FarFuture \in Nat
    BY TtlAssumption
  <1>2. QED BY <1>1, TtlAssumption DEF compute_deadline, Span

\* What is cut down to some of its keys is still in order.
LEMMA KeepFacts ==
  ASSUME IInv, NEW ks, ks \subseteq DOMAIN map, Keep(ks), UNCHANGED << now, calls >>
  PROVE  IInv'
  <1>1. /\ DOMAIN map' = ks /\ DOMAIN granted' = ks
        /\ \A k \in ks : map'[k] = map[k] /\ granted'[k] = granted[k]
    BY DEF Keep
  <1>2. IsFiniteSet(ks) /\ Cardinality(ks) \in Nat /\ Cardinality(ks) <= Cardinality(DOMAIN map)
        /\ Cardinality(DOMAIN map) \in Nat
    BY FS_Subset, FS_CardinalityType DEF IInv, MapInv
  <1>3. MapInv'
    BY <1>1, <1>2 DEF IInv, MapInv, Grants
  <1>4. CallsInv'
    BY DEF IInv, CallsInv, Grants
  <1>5. Cardinality(DOMAIN map') <= Capacity
    BY <1>1, <1>2, TtlAssumption DEF IInv
  <1>6. QED BY <1>3, <1>4, <1>5 DEF IInv

\* An insert that ends stores its entry with the deadline it came with.
LEMMA StoredFacts ==
  ASSUME IInv, NEW t \in Thread, calls[t] # Idle, NEW ks, ks \subseteq DOMAIN map,
         Stored(ks, calls[t]), calls' = [calls EXCEPT ![t] = Idle], now' = now,
         Cardinality(ks \cup {calls[t].key}) <= Capacity
  PROVE  IInv'
  <1> DEFINE c == calls[t]
             js == ks \cup {c.key}
             e == [value |-> c.value, expires_at |-> c.deadline]
             h == [value |-> c.value, since |-> c.since, ttl |-> c.ttl]
  <1>1. c.key \in Key /\ c.value \in Value /\ Grants(c, c.value, c.deadline)
    BY DEF IInv, CallsInv
  <1>2. /\ DOMAIN map' = js /\ DOMAIN granted' = js
        /\ \A k \in js : /\ map'[k] = IF k = c.key THEN e ELSE map[k]
                         /\ granted'[k] = IF k = c.key THEN h ELSE granted[k]
    BY DEF Stored, NewEntry
  <1>3. e \in Entry /\ e.value = c.value /\ e.expires_at = c.deadline
    BY <1>1 DEF Grants, Entry
  <1>4. h.value = c.value /\ h.since = c.since /\ h.ttl = c.ttl
    OBVIOUS
  <1> HIDE DEF e, h
  <1>5. Grants(h, e.value, e.expires_at)
    BY <1>1, <1>3, <1>4 DEF Grants
  <1>6. IsFiniteSet(js)
    BY FS_Subset, FS_AddElement DEF IInv, MapInv
  <1>7. ASSUME NEW k \in js
        PROVE  map'[k] \in Entry /\ Grants(granted'[k], map'[k].value, map'[k].expires_at)
    <2>1. CASE k = c.key
      BY <1>2, <1>3, <1>5, <2>1
    <2>2. CASE k # c.key
      BY <1>2, <2>2 DEF IInv, MapInv
    <2>3. QED BY <2>1, <2>2
  <1>8. js \subseteq Key
    BY <1>1 DEF IInv, MapInv
  <1> HIDE DEF js, c
  <1>9. MapInv'
    BY <1>2, <1>6, <1>7, <1>8 DEF MapInv, Grants
  <1>10. CallsInv'
    <2>1. DOMAIN calls' = Thread /\ \A x \in Thread : calls'[x] = IF x = t THEN Idle ELSE calls[x]
      BY DEF IInv, CallsInv
    <2>2. calls' = [x \in Thread |-> calls'[x]]
      BY DEF IInv, CallsInv
    <2>3. QED BY <2>1, <2>2 DEF IInv, CallsInv, Grants, Idle
  <1>11. Cardinality(DOMAIN map') <= Capacity
    BY <1>2 DEF js, c
  <1>12. QED BY <1>9, <1>10, <1>11 DEF IInv

\* Making room leaves place for the entry of an insert.
LEMMA RoomFacts ==
  ASSUME IInv, NEW x, NEW ks, ks = DOMAIN map \ {x}
  PROVE  /\ IsFiniteSet(ks) /\ Cardinality(ks) \in Nat /\ Cardinality(ks) <= Capacity
         /\ ~Full(ks) => Cardinality(ks \cup {x}) <= Capacity
         /\ \A v \in ks : Cardinality((ks \ {v}) \cup {x}) <= Capacity
  <1>1. IsFiniteSet(DOMAIN map) /\ Cardinality(DOMAIN map) <= Capacity /\ Cardinality(DOMAIN map) \in Nat
    BY FS_CardinalityType DEF IInv, MapInv
  <1>2. IsFiniteSet(ks) /\ Cardinality(ks) \in Nat /\ Cardinality(ks) <= Cardinality(DOMAIN map)
    BY <1>1, FS_Subset, FS_CardinalityType
  <1>3. Cardinality(ks \cup {x}) = Cardinality(ks) + 1
    BY <1>2, FS_AddElement
  <1>4. ASSUME NEW v \in ks PROVE Cardinality((ks \ {v}) \cup {x}) <= Capacity
    <2>1. IsFiniteSet(ks \ {v}) /\ Cardinality(ks \ {v}) = Cardinality(ks) - 1
      BY <1>2, FS_RemoveElement
    <2>2. Cardinality((ks \ {v}) \cup {x}) = Cardinality(ks \ {v}) + 1
      BY <2>1, FS_AddElement
    <2>3. QED BY <1>1, <1>2, <2>1, <2>2, TtlAssumption
  <1>5. Cardinality(ks) <= Capacity
    BY <1>1, <1>2, TtlAssumption
  <1>6. ~Full(ks) => Cardinality(ks \cup {x}) <= Capacity
    BY <1>2, <1>3, TtlAssumption DEF Full
  <1>7. QED BY <1>2, <1>4, <1>5, <1>6

\* The invariant holds of a new shard.
LEMMA InitIInv == Init => IInv
  <1> SUFFICES ASSUME Init PROVE IInv
    OBVIOUS
  <1>1. DOMAIN map = {} /\ DOMAIN granted = {}
    BY DEF Init, EmptyMap
  <1>2. IsFiniteSet({}) /\ Cardinality({}) = 0
    BY FS_EmptySet
  <1>3. MapInv
    BY <1>1, <1>2 DEF MapInv
  <1>4. CallsInv
    BY DEF Init, CallsInv
  <1>5. QED BY <1>1, <1>2, <1>3, <1>4, TtlAssumption DEF Init, IInv

\* Time passes over entries and over waiting inserts without touching them.
LEMMA TickInv ==
  ASSUME IInv, Tick
  PROVE  IInv'
  <1>1. now \in 0..MaxTime /\ now' = now + 1 /\ now < MaxTime /\ UNCHANGED << map, calls, granted >>
    BY DEF IInv, Tick
  <1>2. now' \in 0..MaxTime /\ \A x \in 0..now : x \in 0..now'
    BY <1>1, TtlAssumption
  <1>3. MapInv'
    BY <1>1, <1>2 DEF IInv, MapInv, Grants
  <1>4. CallsInv'
    BY <1>1, <1>2 DEF IInv, CallsInv, Grants
  <1>5. QED BY <1>1, <1>2, <1>3, <1>4 DEF IInv

\* An insert begins: its deadline counts from now.
LEMMA BeginInv ==
  ASSUME IInv, NEW t \in Thread, NEW k \in Key, NEW v \in Value, NEW ttl \in Ttl, Begin(t, k, v, ttl)
  PROVE  IInv'
  <1> DEFINE c == [op |-> "insert", key |-> k, value |-> v, since |-> now, ttl |-> ttl,
                   deadline |-> compute_deadline(ttl)]
  <1>1. now \in 0..MaxTime /\ UNCHANGED << now, map, granted >> /\ calls' = [calls EXCEPT ![t] = c]
    BY DEF IInv, Begin
  <1>2. compute_deadline(ttl) = now + Span(now, ttl) /\ compute_deadline(ttl) \in 0..InstantMax
    BY <1>1, DeadlineFacts
  <1>3. now \in 0..now
    BY <1>1
  <1>4. /\ c.key = k /\ c.value = v /\ c.since = now /\ c.ttl = ttl
        /\ c.deadline = compute_deadline(ttl)
    OBVIOUS
  <1> HIDE DEF c
  <1>5. Grants(c, c.value, c.deadline)
    BY <1>2, <1>3, <1>4 DEF Grants
  <1>6. DOMAIN calls' = Thread /\ \A x \in Thread : calls'[x] = IF x = t THEN c ELSE calls[x]
    BY <1>1 DEF IInv, CallsInv
  <1>7. calls' = [x \in Thread |-> calls'[x]]
    BY <1>1 DEF IInv, CallsInv
  <1>8. CallsInv'
    <2>1. ASSUME NEW x \in Thread, calls'[x] # Idle
          PROVE  /\ calls'[x].key \in Key /\ calls'[x].value \in Value
                 /\ Grants(calls'[x], calls'[x].value, calls'[x].deadline)
      <3>1. CASE x = t
        BY <1>4, <1>5, <1>6, <3>1
      <3>2. CASE x # t
        BY <1>6, <2>1, <3>2 DEF IInv, CallsInv
      <3>3. QED BY <3>1, <3>2
    <2>2. QED BY <1>1, <1>6, <1>7, <2>1 DEF CallsInv, Grants, Idle
  <1>9. MapInv'
    BY <1>1 DEF IInv, MapInv, Grants
  <1>10. QED BY <1>1, <1>8, <1>9 DEF IInv

\* Every step keeps the invariant.
LEMMA NextIInv == IInv /\ [Next]_vars => IInv'
  <1> SUFFICES ASSUME IInv, [Next]_vars PROVE IInv'
    OBVIOUS
  <1>1. ASSUME UNCHANGED << now, map, calls, granted >> PROVE IInv'
    BY <1>1 DEF IInv, MapInv, CallsInv, Grants
  <1>2. ASSUME NEW t \in Thread, NEW k \in Key, NEW v \in Value,
               insert(t, k, v) \/ \E ttl \in Ttl : insert_with_ttl(t, k, v, ttl)
        PROVE  IInv'
    <2>1. DefaultTtl \in Ttl
      BY TtlAssumption
    <2>2. QED BY <1>2, <2>1, BeginInv DEF insert, insert_with_ttl
  <1>3. ASSUME NEW t \in Thread, Overwrite(t) PROVE IInv'
    <2>1. /\ calls[t] # Idle /\ calls[t].key \in DOMAIN map /\ Stored(DOMAIN map, calls[t])
          /\ calls' = [calls EXCEPT ![t] = Idle] /\ now' = now
      BY <1>3 DEF Overwrite
    <2>2. DOMAIN map \cup {calls[t].key} = DOMAIN map
      BY <2>1
    <2>3. Cardinality(DOMAIN map \cup {calls[t].key}) <= Capacity
      BY <2>2 DEF IInv
    <2>4. QED BY <2>1, <2>3, StoredFacts
  <1>4. ASSUME NEW t \in Thread, Add(t) PROVE IInv'
    <2> DEFINE c == calls[t]
               others == DOMAIN map \ {c.key}
    <2>1. c # Idle /\ calls' = [calls EXCEPT ![t] = Idle] /\ now' = now
      BY <1>4 DEF Add
    <2>2. /\ IsFiniteSet(others) /\ Cardinality(others) \in Nat /\ Cardinality(others) <= Capacity
          /\ ~Full(others) => Cardinality(others \cup {c.key}) <= Capacity
          /\ \A v \in others : Cardinality((others \ {v}) \cup {c.key}) <= Capacity
      BY RoomFacts
    <2>3. CASE ~Full(others) /\ Stored(others, c)
      <3>1. others \subseteq DOMAIN map /\ Cardinality(others \cup {c.key}) <= Capacity
        BY <2>2, <2>3
      <3>2. QED BY <2>1, <2>3, <3>1, StoredFacts
    <2>4. CASE \E victim \in find_victim(others) : Stored(others \ {victim}, c)
      <3>1. PICK victim \in others : Stored(others \ {victim}, c)
        BY <2>4 DEF find_victim
      <3>2. /\ others \ {victim} \subseteq DOMAIN map
            /\ Cardinality((others \ {victim}) \cup {c.key}) <= Capacity
        BY <2>2
      <3> DEFINE ks == others \ {victim}
      <3>3. ks \subseteq DOMAIN map /\ Cardinality(ks \cup {c.key}) <= Capacity /\ Stored(ks, c)
        BY <3>1, <3>2
      <3> HIDE DEF ks
      <3>4. QED BY <2>1, <3>3, StoredFacts
    <2>5. CASE Keep(others) /\ reply' = << "insert", "panicked", c.key >>
      <3>1. DOMAIN calls' = Thread /\ \A x \in Thread : calls'[x] = IF x = t THEN Idle ELSE calls[x]
        BY <2>1 DEF IInv, CallsInv
      <3>2. calls' = [x \in Thread |-> calls'[x]]
        BY <2>1 DEF IInv, CallsInv
      <3>3. CallsInv'
        BY <2>1, <3>1, <3>2 DEF IInv, CallsInv, Grants, Idle
      <3>4. /\ DOMAIN map' = others /\ DOMAIN granted' = others
            /\ \A k \in others : map'[k] = map[k] /\ granted'[k] = granted[k]
        BY <2>5 DEF Keep
      <3>5. MapInv'
        BY <2>1, <2>2, <3>4 DEF IInv, MapInv, Grants
      <3>6. QED BY <2>1, <2>2, <3>3, <3>4, <3>5 DEF IInv
    <2>6. QED BY <1>4, <2>3, <2>4, <2>5 DEF Add
  <1>5. ASSUME NEW k \in Key, Get(k) PROVE IInv'
    <2>1. CASE UNCHANGED << map, granted >>
      BY <1>1, <1>5, <2>1 DEF Get
    <2>2. CASE Keep(DOMAIN map \ {k})
      BY <1>5, <2>2, KeepFacts DEF Get
    <2>3. QED BY <1>5, <2>1, <2>2 DEF Get
  <1>6. ASSUME NEW k \in Key, Remove(k) PROVE IInv'
    BY <1>6, KeepFacts DEF Remove
  <1>7. ASSUME NEW k \in Key, ContainsKey(k) PROVE IInv'
    <2>1. CASE UNCHANGED << map, granted >>
      BY <1>1, <1>7, <2>1 DEF ContainsKey
    <2>2. CASE Keep(DOMAIN map \ {k})
      BY <1>7, <2>2, KeepFacts DEF ContainsKey
    <2>3. QED BY <1>7, <2>1, <2>2 DEF ContainsKey
  <1>8. CASE Size
    <2>1. purge_expired \subseteq DOMAIN map
      BY DEF purge_expired
    <2>2. QED BY <1>8, <2>1, KeepFacts DEF Size
  <1>9. CASE Clear
    <2>1. {} \subseteq DOMAIN map /\ Keep({}) /\ UNCHANGED << now, calls >>
      BY <1>9 DEF Clear
    <2>2. QED BY <2>1, KeepFacts
  <1>10. CASE UNCHANGED vars
    BY <1>1, <1>10 DEF vars
  <1>11. QED
    BY <1>2, <1>3, <1>4, <1>5, <1>6, <1>7, <1>8, <1>9, <1>10, TickInv DEF Next

\* The invariant holds in every reachable state.
LEMMA Invariance == Spec => []IInv
  BY InitIInv, NextIInv, PTL DEF Spec

\* Entries, calls and the clock keep their types: every deadline is an Instant,
\* whatever ttl a client passes.
THEOREM TypeCorrect == Spec => []TypeOK
  <1>1. IInv => TypeOK
    BY DEF IInv, MapInv, CallsInv, Grants, Entry, TypeOK
  <1>2. QED BY <1>1, Invariance, PTL

\* The shard never holds more than its capacity, expired entries included.
THEOREM CapacityCorrect == Spec => []CapacityInvariant
  <1>1. IInv => CapacityInvariant
    BY DEF IInv, CapacityInvariant
  <1>2. QED BY <1>1, Invariance, PTL

\* An entry is live for the ttl of the insert it comes from, counted from the
\* moment that insert was called.
THEOREM TtlHonoured == Spec => []LivesForItsTtl
  <1>1. IInv => LivesForItsTtl
    <2> SUFFICES ASSUME IInv, NEW k \in DOMAIN map
                 PROVE  LET g == granted[k]
                            span == IF g.since + g.ttl > InstantMax THEN FarFuture ELSE g.ttl
                        IN /\ map[k].value = g.value
                           /\ Live(map[k]) <=> now < g.since + span
      BY DEF LivesForItsTtl
    <2>1. /\ Grants(granted[k], map[k].value, map[k].expires_at) /\ now \in 0..MaxTime
      BY DEF IInv, MapInv
    <2>2. /\ map[k].expires_at = granted[k].since + Span(granted[k].since, granted[k].ttl)
          /\ map[k].expires_at \in Nat /\ now \in Nat /\ granted[k].value = map[k].value
      BY <2>1, TtlAssumption DEF Grants
    <2>3. QED BY <2>2 DEF Span, Live
  <1>2. QED BY <1>1, Invariance, PTL
-----------------------------------------------------------------------------
\* The keys of a map m that are live at time n and the others, the live entries
\* and the values of the expired ones: what the policy sees.
LiveKeys(m, n) == {k \in DOMAIN m : m[k].expires_at > n}

DeadKeys(m, n) == {k \in DOMAIN m : ~(m[k].expires_at > n)}

View(m, n) == [k \in LiveKeys(m, n) |-> m[k]]

Unseen(m, n) == [k \in DeadKeys(m, n) |-> m[k].value]

\* The instance sees View and Unseen, before a step and after it, and its
\* operators are those of the shard.
LEMMA PolicyView ==
  /\ [k \in {l \in DOMAIN map : Live(map[l])} |-> map[k]] = View(map, now)
  /\ [k \in {l \in DOMAIN map' : Live(map[l])'} |-> map'[k]] = View(map', now')
  /\ [k \in {l \in DOMAIN map : ~Live(map[l])} |-> map[k].value] = Unseen(map, now)
  /\ [k \in {l \in DOMAIN map' : ~Live(map[l])'} |-> map'[k].value] = Unseen(map', now')
  /\ \A S : Policy!Cardinality(S) = Cardinality(S)
  /\ Policy!EmptyMap = EmptyMap /\ Policy!Idle = Idle
  <1>1. [k \in {l \in DOMAIN map : Live(map[l])} |-> map[k]] = View(map, now)
    BY DEF View, LiveKeys, Live
  <1>2. [k \in {l \in DOMAIN map' : Live(map[l])'} |-> map'[k]] = View(map', now')
    BY DEF View, LiveKeys, Live
  <1>3. [k \in {l \in DOMAIN map : ~Live(map[l])} |-> map[k].value] = Unseen(map, now)
    BY DEF Unseen, DeadKeys, Live
  <1>4. [k \in {l \in DOMAIN map' : ~Live(map[l])'} |-> map'[k].value] = Unseen(map', now')
    BY DEF Unseen, DeadKeys, Live
  <1>5. \A S : Policy!Cardinality(S) = Cardinality(S)
    BY DEF Policy!Cardinality, Cardinality
  <1>6. Policy!EmptyMap = EmptyMap /\ Policy!Idle = Idle
    BY DEF Policy!EmptyMap, EmptyMap, Policy!Idle, Idle
  <1>7. QED BY <1>1, <1>2, <1>3, <1>4, <1>5, <1>6

\* The views by domain and value.
LEMMA ViewFacts ==
  ASSUME NEW m, NEW n
  PROVE  /\ DOMAIN View(m, n) = LiveKeys(m, n) /\ DOMAIN Unseen(m, n) = DeadKeys(m, n)
         /\ \A k \in LiveKeys(m, n) : View(m, n)[k] = m[k]
         /\ \A k \in DeadKeys(m, n) : Unseen(m, n)[k] = m[k].value
         /\ LiveKeys(m, n) \subseteq DOMAIN m /\ DeadKeys(m, n) = DOMAIN m \ LiveKeys(m, n)
  BY DEF View, LiveKeys, Unseen, DeadKeys

\* A map cut down to the keys ks is seen cut down to them.
LEMMA KeepView ==
  ASSUME NEW ks, ks \subseteq DOMAIN map, Keep(ks)
  PROVE  /\ View(map', now) = [k \in LiveKeys(map, now) \cap ks |-> map[k]]
         /\ Unseen(map', now) = [k \in DeadKeys(map, now) \cap ks |-> map[k].value]
  <1>1. DOMAIN map' = ks /\ \A k \in ks : map'[k] = map[k]
    BY DEF Keep
  <1>2. LiveKeys(map', now) = LiveKeys(map, now) \cap ks
    BY <1>1 DEF LiveKeys
  <1>3. DeadKeys(map', now) = DeadKeys(map, now) \cap ks
    BY <1>1 DEF DeadKeys
  <1>4. QED BY <1>1, <1>2, <1>3 DEF View, Unseen

\* The key of a call that has expired by the time it is stored.
Late(c) == IF c.deadline > now THEN {} ELSE {c.key}

\* What an insert leaves in view: what was kept and, among the live or the
\* expired ones, its own entry.
LEMMA StoredView ==
  ASSUME NEW t \in Thread, NEW ks, ks \subseteq DOMAIN map, Stored(ks, calls[t])
  PROVE  LET c == calls[t] IN
         /\ View(map', now) =
              [k \in ((LiveKeys(map, now) \cap ks) \ {c.key}) \cup ({c.key} \ Late(c)) |->
                 IF k = c.key THEN [value |-> c.value, expires_at |-> c.deadline] ELSE map[k]]
         /\ Unseen(map', now) =
              [k \in ((DeadKeys(map, now) \cap ks) \ {c.key}) \cup Late(c) |->
                 IF k = c.key THEN c.value ELSE map[k].value]
  <1> DEFINE c == calls[t]
             e == [value |-> c.value, expires_at |-> c.deadline]
  <1>1. /\ DOMAIN map' = ks \cup {c.key}
        /\ \A k \in ks \cup {c.key} : map'[k] = IF k = c.key THEN e ELSE map[k]
    BY DEF Stored, NewEntry
  <1>2. e.expires_at = c.deadline /\ e.value = c.value
    OBVIOUS
  <1> HIDE DEF e
  <1>3. LiveKeys(map', now) = ((LiveKeys(map, now) \cap ks) \ {c.key}) \cup ({c.key} \ Late(c))
    BY <1>1, <1>2 DEF LiveKeys, Late
  <1>4. DeadKeys(map', now) = ((DeadKeys(map, now) \cap ks) \ {c.key}) \cup Late(c)
    BY <1>1, <1>2 DEF DeadKeys, Late
  <1>5. LiveKeys(map', now) \subseteq ks \cup {c.key} /\ DeadKeys(map', now) \subseteq ks \cup {c.key}
    BY <1>1 DEF LiveKeys, DeadKeys
  <1>6. View(map', now) = [k \in LiveKeys(map', now) |-> IF k = c.key THEN e ELSE map[k]]
    BY <1>1, <1>5 DEF View
  <1>7. Unseen(map', now) =
          [k \in DeadKeys(map', now) |-> IF k = c.key THEN c.value ELSE map[k].value]
    BY <1>1, <1>2, <1>5 DEF Unseen
  <1>8. QED BY <1>3, <1>4, <1>6, <1>7 DEF e

\* What is stored in the shard is what the policy stores, when the keys that go
\* are the victims.
LEMMA StoreRefines ==
  ASSUME NEW t \in Thread, NEW ks, ks \subseteq DOMAIN map, Stored(ks, calls[t]), now' = now,
         NEW V, ks \ {calls[t].key} = DOMAIN map \ (V \cup {calls[t].key})
  PROVE  Policy!Store(t, V)
  <1> DEFINE c == calls[t]
             late == IF c.deadline > now THEN {} ELSE {c.key}
             L == LiveKeys(map, now)
             D == DeadKeys(map, now)
             e == View(map, now)
             g == Unseen(map, now)
             f == View(map', now')
             h == Unseen(map', now')
  <1>1. /\ DOMAIN e = L /\ \A k \in L : e[k] = map[k]
        /\ DOMAIN g = D /\ \A k \in D : g[k] = map[k].value
        /\ L \subseteq DOMAIN map /\ D \subseteq DOMAIN map
    BY ViewFacts
  <1>2. /\ f = [k \in ((L \cap ks) \ {c.key}) \cup ({c.key} \ late) |->
                  IF k = c.key THEN [value |-> c.value, expires_at |-> c.deadline] ELSE map[k]]
        /\ h = [k \in ((D \cap ks) \ {c.key}) \cup late |->
                  IF k = c.key THEN c.value ELSE map[k].value]
    <2>1. View(map', now) =
            [k \in ((L \cap ks) \ {c.key}) \cup ({c.key} \ Late(c)) |->
               IF k = c.key THEN [value |-> c.value, expires_at |-> c.deadline] ELSE map[k]]
      BY StoredView
    <2>2. Unseen(map', now) =
            [k \in ((D \cap ks) \ {c.key}) \cup Late(c) |->
               IF k = c.key THEN c.value ELSE map[k].value]
      BY StoredView
    <2>3. Late(c) = late
      BY DEF Late
    <2> HIDE DEF late, L, D
    <2>4. QED BY <2>1, <2>2, <2>3
  <1>3. \A k \in late : k = c.key
    OBVIOUS
  <1> HIDE DEF L, D, e, g, f, h, late
  <1>4. /\ (L \cap ks) \ {c.key} = DOMAIN e \ (V \cup {c.key})
        /\ (D \cap ks) \ {c.key} = DOMAIN g \ (V \cup {c.key})
    BY <1>1
  <1>5. f = [k \in (DOMAIN e \ (V \cup {c.key})) \cup ({c.key} \ late) |->
               IF k = c.key THEN [value |-> c.value, expires_at |-> c.deadline] ELSE e[k]]
    BY <1>1, <1>2, <1>4
  <1>6. h = [k \in (DOMAIN g \ (V \cup {c.key})) \cup late |->
               IF k = c.key THEN c.value ELSE g[k]]
    BY <1>1, <1>2, <1>3, <1>4
  <1>7. QED BY <1>5, <1>6, PolicyView DEF Policy!Store, e, f, g, h, late

\* insert of a key with a live entry.
LEMMA OverwriteRefines ==
  ASSUME IInv, NEW t \in Thread, Overwrite(t)
  PROVE  Policy!Insert(t)
  <1> DEFINE c == calls[t]
             e == View(map, now)
  <1>1. /\ c # Idle /\ c.key \in DOMAIN map /\ Live(map[c.key]) /\ Stored(DOMAIN map, c)
        /\ reply' = << "insert", "some", c.key, map[c.key].value >>
        /\ calls' = [calls EXCEPT ![t] = Idle] /\ now' = now
    BY DEF Overwrite
  <1>2. c.key \in LiveKeys(map, now)
    BY <1>1 DEF LiveKeys, Live
  <1>3. c.key \in DOMAIN e /\ e[c.key] = map[c.key]
    BY <1>2, ViewFacts
  <1>4. DOMAIN map \ {c.key} = DOMAIN map \ ({} \cup {c.key})
    OBVIOUS
  <1>5. Policy!Store(t, {})
    BY <1>1, <1>4, StoreRefines
  <1>6. QED BY <1>1, <1>3, <1>5, PolicyView DEF Policy!Insert

\* insert of a key without a live entry.  A shard that looks full to the policy
\* holds live entries only, so that the victim is one the policy would choose;
\* a shard that is full otherwise gives up an expired entry, which the policy
\* does not have.
LEMMA AddRefines ==
  ASSUME IInv, NEW t \in Thread, Add(t)
  PROVE  Policy!Insert(t)
  <1> DEFINE c == calls[t]
             e == View(map, now)
             g == Unseen(map, now)
             L == LiveKeys(map, now)
             D == DeadKeys(map, now)
             others == DOMAIN map \ {c.key}
  <1>1. c.key \in DOMAIN map => ~Live(map[c.key])
    BY DEF Add
  <1>2. c # Idle /\ calls' = [calls EXCEPT ![t] = Idle] /\ now' = now
    BY DEF Add
  <1>3. /\ DOMAIN e = L /\ L \subseteq others /\ c.key \notin L
        /\ DOMAIN g = D /\ D = DOMAIN map \ L
        /\ \A k \in L : e[k] = map[k]
    BY <1>1, <1>2, ViewFacts DEF LiveKeys, Live
  <1>4. /\ IsFiniteSet(others) /\ Cardinality(others) \in Nat /\ Cardinality(others) <= Capacity
    BY RoomFacts
  <1>5. /\ IsFiniteSet(L) /\ Cardinality(L) \in Nat /\ Cardinality(L) <= Cardinality(others)
        /\ L # others => Cardinality(L) < Cardinality(others)
    <2>1. IsFiniteSet(L) /\ Cardinality(L) <= Cardinality(others)
      BY <1>3, <1>4, FS_Subset
    <2>2. ASSUME L # others PROVE Cardinality(L) < Cardinality(others)
      <3>1. PICK x \in others : x \notin L
        BY <1>3, <2>2
      <3>2. L \subseteq others \ {x}
        BY <1>3, <3>1
      <3>3. IsFiniteSet(others \ {x}) /\ Cardinality(others \ {x}) = Cardinality(others) - 1
        BY <1>4, FS_RemoveElement
      <3> HIDE DEF L, others
      <3>4. Cardinality(L) <= Cardinality(others \ {x})
        BY <3>2, <3>3, FS_Subset
      <3>5. QED BY <1>4, <2>1, <3>3, <3>4, FS_CardinalityType
    <2>3. QED BY <2>1, <2>2, FS_CardinalityType
  <1>6. Policy!Cardinality(DOMAIN e) = Cardinality(L)
    BY <1>3, PolicyView
  <1>7. c.key \notin DOMAIN e
    BY <1>3
  <1>8. CASE /\ reply' = << "insert", "none", c.key >>
             /\ Policy!Cardinality(DOMAIN e) < Capacity
             /\ Policy!Store(t, {}) \/ \E v \in DOMAIN g : Policy!Store(t, {v})
    BY <1>2, <1>7, <1>8, PolicyView DEF Policy!Insert
  <1>9. CASE /\ ~Full(others) /\ Stored(others, c)
             /\ reply' = << "insert", "none", c.key >>
    <2>1. others \ {c.key} = DOMAIN map \ ({} \cup {c.key}) /\ others \subseteq DOMAIN map
      OBVIOUS
    <2>2. Policy!Store(t, {})
      BY <1>2, <1>9, <2>1, StoreRefines
    <2>3. Cardinality(L) < Capacity
      BY <1>4, <1>5, <1>9, TtlAssumption DEF Full
    <2>4. QED BY <1>6, <1>8, <1>9, <2>2, <2>3
  <1>10. CASE /\ Full(others) /\ \E victim \in find_victim(others) : Stored(others \ {victim}, c)
              /\ reply' = << "insert", "none", c.key >>
    <2>1. PICK victim \in others : /\ Stored(others \ {victim}, c)
                                   /\ \A l \in others : map[victim].expires_at <= map[l].expires_at
      BY <1>10 DEF find_victim
    <2>2. Policy!Store(t, {victim})
      <3>1. (others \ {victim}) \ {c.key} = DOMAIN map \ ({victim} \cup {c.key})
        OBVIOUS
      <3> DEFINE ks == others \ {victim}
                 V == {victim}
      <3>2. ks \subseteq DOMAIN map /\ Stored(ks, c) /\ ks \ {c.key} = DOMAIN map \ (V \cup {c.key})
        BY <2>1, <3>1
      <3> HIDE DEF ks, V
      <3>3. Policy!Store(t, V)
        BY <1>2, <3>2, StoreRefines
      <3>4. QED BY <3>3 DEF V
    <2>3. CASE L = others
      <3>1. Cardinality(L) >= Capacity
        BY <1>10, <2>3 DEF Full
      <3>2. victim \in Policy!Soonest
        <4>1. victim \in DOMAIN e /\ \A l \in DOMAIN e : e[victim].expires_at <= e[l].expires_at
          BY <1>3, <2>1, <2>3
        <4>2. QED BY <4>1, PolicyView DEF Policy!Soonest
      <3>3. QED BY <1>2, <1>6, <1>7, <1>10, <2>2, <3>1, <3>2, PolicyView DEF Policy!Insert
    <2>4. CASE L # others
      <3>1. victim \notin L
        <4>1. PICK x \in others : ~(map[x].expires_at > now)
          BY <1>3, <2>4 DEF LiveKeys
        <4>2. map[x].expires_at \in Nat /\ map[victim].expires_at \in Nat /\ now \in Nat
          BY <4>1, <2>1, TtlAssumption DEF IInv, MapInv, Entry
        <4>3. ~(map[victim].expires_at > now)
          BY <2>1, <4>1, <4>2
        <4>4. QED BY <4>3 DEF LiveKeys
      <3>2. victim \in DOMAIN g
        BY <1>3, <3>1
      <3>3. Cardinality(L) < Capacity
        BY <1>4, <1>5, <2>4, TtlAssumption
      <3>4. QED BY <1>6, <1>8, <1>10, <2>2, <3>2, <3>3
    <2>5. QED BY <2>3, <2>4
  <1>11. CASE Full(others) /\ Keep(others) /\ reply' = << "insert", "panicked", c.key >>
    <2>1. L \cap others = L /\ others \subseteq DOMAIN map
      BY <1>3
    <2>2. /\ View(map', now) = [k \in L |-> map[k]]
          /\ Unseen(map', now) = [k \in D \cap others |-> map[k].value]
      BY <1>11, <2>1, KeepView
    <2>3. View(map', now') = e
      BY <1>2, <2>2 DEF View
    <2>4. Unseen(map', now') = [k \in DOMAIN g \ {c.key} |-> g[k]]
      <3>1. D \cap others = DOMAIN g \ {c.key}
        BY <1>3
      <3>2. \A k \in DOMAIN g : g[k] = map[k].value
        BY ViewFacts
      <3>3. QED BY <1>2, <2>2, <3>1, <3>2
    <2>5. QED BY <1>2, <1>7, <1>11, <2>3, <2>4, PolicyView DEF Policy!Insert, Policy!Dropping
  <1>12. QED BY <1>9, <1>10, <1>11 DEF Add

\* The clock takes what expires from one view to the other.
LEMMA TickRefines ==
  ASSUME IInv, Tick
  PROVE  Policy!Tick
  <1> DEFINE e == View(map, now)
             f == View(map', now')
             g == Unseen(map, now)
             h == Unseen(map', now')
             due == {k \in DOMAIN e : e[k].expires_at <= now'}
  <1>1. now' = now + 1 /\ map' = map /\ calls' = calls /\ reply' = reply
    BY DEF Tick
  <1>2. \A k \in DOMAIN map : map[k].expires_at \in Nat
    BY TtlAssumption DEF IInv, MapInv, Entry
  <1>3. now \in Nat /\ now' \in Nat
    BY <1>1, TtlAssumption DEF IInv
  <1>4. \A k \in DOMAIN map :
          /\ map[k].expires_at > now' => map[k].expires_at > now
          /\ map[k].expires_at <= now' <=> ~(map[k].expires_at > now')
    BY <1>1, <1>2, <1>3
  <1>5. /\ DOMAIN e = LiveKeys(map, now) /\ \A k \in LiveKeys(map, now) : e[k] = map[k]
        /\ DOMAIN g = DeadKeys(map, now) /\ \A k \in DeadKeys(map, now) : g[k] = map[k].value
    BY ViewFacts
  <1>6. LiveKeys(map', now') = DOMAIN e \ due
    BY <1>1, <1>4, <1>5 DEF LiveKeys
  <1>7. DeadKeys(map', now') = DOMAIN g \cup due
    BY <1>1, <1>4, <1>5 DEF LiveKeys, DeadKeys
  <1>8. due \subseteq LiveKeys(map, now) /\ LiveKeys(map, now) \cap DeadKeys(map, now) = {}
    BY <1>5 DEF LiveKeys, DeadKeys
  <1> HIDE DEF due
  <1>9. f = [k \in DOMAIN e \ due |-> e[k]]
    BY <1>1, <1>5, <1>6 DEF View
  <1>10. h = [k \in DOMAIN g \cup due |-> IF k \in DOMAIN g THEN g[k] ELSE e[k].value]
    <2>1. h = [k \in DOMAIN g \cup due |-> map[k].value]
      BY <1>1, <1>7 DEF Unseen
    <2>2. \A k \in DOMAIN g \cup due : map[k].value = IF k \in DOMAIN g THEN g[k] ELSE e[k].value
      BY <1>5, <1>8
    <2> HIDE DEF h, g, e
    <2>3. QED BY <2>1, <2>2
  <1>11. /\ f = Policy!Dropping(e, {k \in DOMAIN e : e[k].expires_at <= now'})
         /\ h = [k \in DOMAIN g \cup {l \in DOMAIN e : e[l].expires_at <= now'} |->
                   IF k \in DOMAIN g THEN g[k] ELSE e[k].value]
    BY <1>9, <1>10 DEF Policy!Dropping, due
  <1> HIDE DEF e, f, g, h
  <1>12. QED BY <1>1, <1>11, PolicyView DEF Policy!Tick, e, f, g, h

\* Every step of the shard is, with its reply, one of the policy or none.
LEMMA NextRefines == IInv /\ [Next]_vars => [Policy!Next]_(Policy!vars)
  <1> SUFFICES ASSUME IInv, [Next]_vars PROVE [Policy!Next]_(Policy!vars)
    OBVIOUS
  <1> DEFINE e == View(map, now)
             f == View(map', now')
             g == Unseen(map, now)
             h == Unseen(map', now')
             L == LiveKeys(map, now)
             D == DeadKeys(map, now)
  <1>0. /\ DOMAIN e = L /\ DOMAIN g = D /\ L \subseteq DOMAIN map /\ D = DOMAIN map \ L
        /\ \A k \in L : e[k] = map[k]
        /\ \A k \in D : g[k] = map[k].value
    BY ViewFacts
  <1>l. \A k : k \in L <=> k \in DOMAIN map /\ Live(map[k])
    BY DEF LiveKeys, Live
  <1>s. ASSUME map' = map, now' = now PROVE f = e /\ h = g
    BY <1>s
  <1>k. ASSUME NEW ks, ks \subseteq DOMAIN map, Keep(ks), now' = now
        PROVE  /\ f = [x \in DOMAIN e \cap ks |-> e[x]]
               /\ h = [x \in DOMAIN g \cap ks |-> g[x]]
    <2>1. /\ View(map', now) = [k \in L \cap ks |-> map[k]]
          /\ Unseen(map', now) = [k \in D \cap ks |-> map[k].value]
      BY <1>k, KeepView
    <2>2. QED BY <1>0, <1>k, <2>1
  <1>d. ASSUME NEW ks, ks \subseteq DOMAIN map, Keep(ks), now' = now, L \subseteq ks
        PROVE  f = e
    <2>1. f = [x \in DOMAIN e \cap ks |-> e[x]]
      BY <1>k, <1>d
    <2>2. DOMAIN e \cap ks = DOMAIN e
      BY <1>0, <1>d
    <2>3. QED BY <2>1, <2>2 DEF View
  <1>r. ASSUME NEW k, Keep(DOMAIN map \ {k}), now' = now
        PROVE  f = [x \in DOMAIN e \ {k} |-> e[x]] /\ h = [x \in DOMAIN g \ {k} |-> g[x]]
    <2>1. /\ f = [x \in DOMAIN e \cap (DOMAIN map \ {k}) |-> e[x]]
          /\ h = [x \in DOMAIN g \cap (DOMAIN map \ {k}) |-> g[x]]
      BY <1>k, <1>r
    <2>2. /\ DOMAIN e \cap (DOMAIN map \ {k}) = DOMAIN e \ {k}
          /\ DOMAIN g \cap (DOMAIN map \ {k}) = DOMAIN g \ {k}
      BY <1>0
    <2>3. QED BY <2>1, <2>2
  <1>u. ASSUME NEW k, k \notin D, map' = map, now' = now
        PROVE  f = e /\ h = [x \in DOMAIN g \ {k} |-> g[x]]
    <2>1. DOMAIN g \ {k} = DOMAIN g
      BY <1>0, <1>u
    <2>2. g = [x \in DOMAIN g |-> g[x]]
      BY DEF Unseen
    <2>3. QED BY <1>s, <1>u, <2>1, <2>2
  <1>1. ASSUME NEW t \in Thread, NEW k \in Key, NEW v \in Value, NEW ttl \in Ttl, Begin(t, k, v, ttl)
        PROVE  Policy!Begin(t, k, v, ttl)
    <2>1. f = e /\ h = g /\ now' = now /\ reply' = reply /\ calls[t] = Idle
      BY <1>1, <1>s DEF Begin
    <2>2. compute_deadline(ttl) = now + (IF now + ttl > InstantMax THEN FarFuture ELSE ttl)
      BY DeadlineFacts DEF IInv, Span
    <2>3. calls' = [calls EXCEPT ![t] =
             [op |-> "insert", key |-> k, value |-> v, since |-> now, ttl |-> ttl,
              deadline |-> now + (IF now + ttl > InstantMax THEN FarFuture ELSE ttl)]]
      BY <1>1, <2>2 DEF Begin
    <2>4. QED BY <2>1, <2>3, PolicyView DEF Policy!Begin
  <1>2. ASSUME NEW t \in Thread, NEW k \in Key, NEW v \in Value,
               insert(t, k, v) \/ \E ttl \in Ttl : insert_with_ttl(t, k, v, ttl)
        PROVE  \E ttl \in Ttl : Policy!Begin(t, k, v, ttl)
    <2>1. DefaultTtl \in Ttl
      BY TtlAssumption
    <2>2. QED BY <1>1, <1>2, <2>1 DEF insert, insert_with_ttl
  <1>3. ASSUME NEW k \in Key, Get(k) PROVE Policy!Get(k)
    <2>1. now' = now /\ calls' = calls
      BY <1>3 DEF Get
    <2>2. CASE k \notin DOMAIN map
      <3>1. /\ map' = map /\ reply' = << "get", "none", k >> /\ k \notin DOMAIN e /\ k \notin D
        BY <1>0, <1>3, <2>2 DEF Get
      <3>2. f = e /\ h = [x \in DOMAIN g \ {k} |-> g[x]]
        BY <1>u, <2>1, <3>1
      <3>3. QED BY <2>1, <3>1, <3>2, PolicyView DEF Policy!Get, Policy!Dropping
    <2>3. CASE k \in DOMAIN map /\ ~Live(map[k])
      <3>1. Keep(DOMAIN map \ {k}) /\ reply' = << "get", "none", k >>
        BY <1>3, <2>3 DEF Get
      <3>2. k \notin L /\ L \subseteq DOMAIN map \ {k} /\ DOMAIN map \ {k} \subseteq DOMAIN map
        BY <1>0, <1>l, <2>3
      <3>3. f = e /\ h = [x \in DOMAIN g \ {k} |-> g[x]]
        BY <1>d, <1>r, <2>1, <3>1, <3>2
      <3>4. QED BY <1>0, <2>1, <3>1, <3>2, <3>3, PolicyView DEF Policy!Get, Policy!Dropping
    <2>4. CASE k \in DOMAIN map /\ Live(map[k])
      <3>1. map' = map /\ k \notin D
        BY <1>0, <1>3, <1>l, <2>4 DEF Get
      <3>2. k \in DOMAIN e /\ e[k] = map[k]
        BY <1>0, <1>l, <2>4
      <3>3. reply' = << "get", "some", k, e[k].value >> \/ reply' = << "get", "panicked", k >>
        BY <1>3, <2>4, <3>2 DEF Get
      <3>4. f = e /\ h = [x \in DOMAIN g \ {k} |-> g[x]]
        BY <1>u, <2>1, <3>1
      <3>5. QED BY <2>1, <3>2, <3>3, <3>4, PolicyView DEF Policy!Get, Policy!Dropping
    <2>5. QED BY <2>2, <2>3, <2>4
  <1>4. ASSUME NEW k \in Key, Remove(k) PROVE Policy!Remove(k)
    <2>1. Keep(DOMAIN map \ {k}) /\ now' = now /\ calls' = calls
      BY <1>4 DEF Remove
    <2>2. f = [x \in DOMAIN e \ {k} |-> e[x]] /\ h = [x \in DOMAIN g \ {k} |-> g[x]]
      BY <1>r, <2>1
    <2>3. reply' = IF k \in DOMAIN e THEN << "remove", "some", k, e[k].value >>
                   ELSE IF k \in DOMAIN g THEN << "remove", "some", k, g[k] >>
                   ELSE << "remove", "none", k >>
      <3>1. CASE k \notin DOMAIN map
        BY <1>0, <1>4, <3>1 DEF Remove
      <3>2. CASE k \in L
        BY <1>0, <1>4, <3>2 DEF Remove
      <3>3. CASE k \in D
        BY <1>0, <1>4, <3>3 DEF Remove
      <3>4. QED BY <1>0, <3>1, <3>2, <3>3
    <2>4. QED BY <2>1, <2>2, <2>3, PolicyView DEF Policy!Remove, Policy!Dropping
  <1>5. ASSUME NEW k \in Key, ContainsKey(k) PROVE Policy!ContainsKey(k)
    <2>1. now' = now /\ calls' = calls
      BY <1>5 DEF ContainsKey
    <2>2. CASE k \in L
      <3>1. map' = map /\ reply' = << "contains_key", "true", k >> /\ k \in DOMAIN e /\ k \notin D
        BY <1>0, <1>5, <1>l, <2>2 DEF ContainsKey
      <3>2. f = e /\ h = [x \in DOMAIN g \ {k} |-> g[x]]
        BY <1>u, <2>1, <3>1
      <3>3. QED BY <2>1, <3>1, <3>2, PolicyView DEF Policy!ContainsKey, Policy!Dropping
    <2>3. CASE k \notin L
      <3>1. Keep(DOMAIN map \ {k}) /\ reply' = << "contains_key", "false", k >>
        BY <1>5, <1>l, <2>3 DEF ContainsKey
      <3>2. L \subseteq DOMAIN map \ {k} /\ DOMAIN map \ {k} \subseteq DOMAIN map /\ k \notin DOMAIN e
        BY <1>0, <2>3
      <3>3. f = e /\ h = [x \in DOMAIN g \ {k} |-> g[x]]
        BY <1>d, <1>r, <2>1, <3>1, <3>2
      <3>4. QED BY <2>1, <3>1, <3>2, <3>3, PolicyView DEF Policy!ContainsKey, Policy!Dropping
    <2>4. QED BY <2>2, <2>3
  <1>6. ASSUME Size PROVE Policy!Size
    <2>1. purge_expired = L
      BY <1>l, <1>0 DEF purge_expired
    <2>2. Keep(L) /\ now' = now /\ calls' = calls /\ reply' = << "len", "ok", Cardinality(DOMAIN e) >>
      BY <1>0, <1>6, <2>1 DEF Size
    <2>3. f = e
      BY <1>0, <1>d, <2>2
    <2>4. h = EmptyMap
      <3>1. h = [x \in DOMAIN g \cap L |-> g[x]]
        BY <1>0, <1>k, <2>2
      <3>2. DOMAIN g \cap L = {}
        BY <1>0
      <3>3. QED BY <3>1, <3>2 DEF EmptyMap
    <2>5. Policy!Cardinality(DOMAIN e) = Cardinality(DOMAIN e)
      BY PolicyView
    <2>6. QED BY <2>2, <2>3, <2>4, <2>5, PolicyView DEF Policy!Size
  <1>7. ASSUME Clear PROVE Policy!Clear
    <2>1. Keep({}) /\ now' = now /\ calls' = calls /\ reply' = << "clear", "ok" >>
      BY <1>7 DEF Clear
    <2>2. f = [x \in DOMAIN e \cap {} |-> e[x]] /\ h = [x \in DOMAIN g \cap {} |-> g[x]]
      BY <1>k, <2>1
    <2>3. f = EmptyMap /\ h = EmptyMap
      BY <2>2 DEF EmptyMap
    <2>4. QED BY <2>1, <2>3, PolicyView DEF Policy!Clear
  <1>8. ASSUME UNCHANGED vars PROVE UNCHANGED Policy!vars
    <2>1. UNCHANGED << now, map, calls, reply >> /\ f = e /\ h = g
      BY <1>8, <1>s DEF vars
    <2>2. QED BY <2>1, PolicyView DEF Policy!vars
  <1>9. QED
    BY <1>2, <1>3, <1>4, <1>5, <1>6, <1>7, <1>8, TickRefines, OverwriteRefines, AddRefines
       DEF Next, Policy!Next

\* An entry counts until the moment it expires: although the shard drops expired
\* entries only when a call comes across them, get, insert, contains_key and len
\* answer from the live ones, and a live entry is evicted only when all are live.
\* remove is the exception, it returns the own value of an entry that has expired
\* unseen; and an insert that expired while it waited still makes room for itself.
THEOREM Refinement == Spec => ImplementsPolicy
  <1>1. Init => Policy!Init
    <2> SUFFICES ASSUME Init PROVE Policy!Init
      OBVIOUS
    <2>1. View(map, now) = EmptyMap /\ Unseen(map, now) = EmptyMap
      BY DEF Init, View, LiveKeys, Unseen, DeadKeys, EmptyMap
    <2>2. QED BY <2>1, PolicyView DEF Init, Policy!Init
  <1>2. QED
    BY <1>1, NextRefines, Invariance, PTL DEF Spec, ImplementsPolicy, Policy!Spec
=============================================================================
