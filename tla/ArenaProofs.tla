---------------------------- MODULE ArenaProofs ----------------------------
(***************************************************************************)
(* What the list operations of the arena do, for every arena: the lemmas   *)
(* that the proofs about the caches rest on.  Each operation is described  *)
(* first field by field and then by its effect on the sequence of slots    *)
(* that the links spell out.  Then how the moves of a recency order look   *)
(* through a map of slots to keys, and how sums over finite sets add up.   *)
(***************************************************************************)
EXTENDS Arena, Functions, FiniteSetTheorems, TLAPS

\* Pushing x puts it first, moves everything else one place back, and keeps
\* the sequence free of repetition when x is new.
LEMMA PushFacts ==
  ASSUME NEW S, NEW s \in Seq(S), NEW x \in S
  PROVE  /\ Push(s, x) \in Seq(S)
         /\ Len(Push(s, x)) = Len(s) + 1
         /\ Push(s, x)[1] = x
         /\ \A p \in 1..Len(s) : Push(s, x)[p + 1] = s[p]
         /\ Elements(Push(s, x)) = Elements(s) \cup {x}
         /\ Injective(s) /\ x \notin Elements(s) => Injective(Push(s, x))
  <1> DEFINE t == Push(s, x)
  <1>0. Len(s) \in Nat /\ s \in [1..Len(s) -> S]
    OBVIOUS
  <1>1. t \in [1..(Len(s) + 1) -> S]
    BY <1>0 DEF Push
  <1>2. t \in Seq(S) /\ Len(t) = Len(s) + 1
    BY <1>0, <1>1
  <1>3. /\ t[1] = x
        /\ \A p \in 1..Len(s) : t[p + 1] = s[p]
        /\ \A p \in 2..(Len(s) + 1) : t[p] = s[p - 1]
    BY <1>0 DEF Push
  <1> HIDE DEF t
  <1>4. Elements(t) = Elements(s) \cup {x}
    <2>1. Elements(t) \subseteq Elements(s) \cup {x}
      BY <1>0, <1>2, <1>3 DEF Elements
    <2>2. x \in Elements(t)
      BY <1>0, <1>2, <1>3 DEF Elements
    <2>3. ASSUME NEW p \in 1..Len(s) PROVE s[p] \in Elements(t)
      <3>1. p + 1 \in 2..(Len(s) + 1) /\ t[p + 1] = s[p]
        BY <1>0, <1>3
      <3>2. QED BY <3>1, <1>0, <1>2 DEF Elements
    <2>4. QED BY <2>1, <2>2, <2>3 DEF Elements
  <1>5. Injective(s) /\ x \notin Elements(s) => Injective(t)
    BY <1>0, <1>2, <1>3 DEF Injective, Elements
  <1>6. QED
    BY <1>2, <1>3, <1>4, <1>5 DEF t

\* push_front, field by field: it moves no item and touches the links of the
\* new node and of the old head only.
LEMMA PushFrontFacts ==
  ASSUME NEW a, NEW idx
  PROVE  LET b == push_front(a, idx) IN
         /\ Occupied(b) = Occupied(a)
         /\ b.slots = a.slots /\ b.free = a.free
         /\ b.head = idx
         /\ b.tail = IF a.head = None THEN idx ELSE a.tail
         /\ \A i \in Occupied(a) :
              /\ b.nodes[i].item = a.nodes[i].item
              /\ b.nodes[i].prev = IF i = a.head THEN idx
                                   ELSE IF i = idx THEN None ELSE a.nodes[i].prev
              /\ b.nodes[i].next = IF i = idx THEN a.head ELSE a.nodes[i].next
  BY DEF push_front, Occupied

\* push_front of an occupied slot that is not linked yet puts it before the
\* list that was there.
LEMMA PushFrontLinked ==
  ASSUME NEW a, NEW s \in Seq(Slot), NEW idx \in Slot,
         Linked(a, s), Injective(s), idx \in Occupied(a), idx \notin Elements(s)
  PROVE  Linked(push_front(a, idx), Push(s, idx))
  <1> DEFINE b == push_front(a, idx)
             t == Push(s, idx)
             n == Len(s)
  <1>1. n \in Nat /\ \A p \in 1..n : s[p] \in Nat \ {0}
    BY DEF Slot
  <1>2. /\ t \in Seq(Slot) /\ Len(t) = n + 1 /\ t[1] = idx
        /\ \A p \in 1..n : t[p + 1] = s[p]
    BY PushFacts
  <1>3. \A p \in 1..n : s[p] # idx
    BY DEF Elements
  <1>4. /\ Occupied(b) = Occupied(a)
        /\ b.head = idx
        /\ b.tail = IF a.head = None THEN idx ELSE a.tail
        /\ \A i \in Occupied(a) :
              /\ b.nodes[i].prev = IF i = a.head THEN idx
                                   ELSE IF i = idx THEN None ELSE a.nodes[i].prev
              /\ b.nodes[i].next = IF i = idx THEN a.head ELSE a.nodes[i].next
    BY PushFrontFacts
  <1> HIDE DEF b, t
  <1>5. b.head = t[1] /\ b.tail = t[Len(t)]
    <2>1. CASE n = 0
      BY <2>1, <1>2, <1>4 DEF Linked
    <2>2. CASE n # 0
      <3>1. 1 \in 1..n /\ n \in 1..n /\ t[n + 1] = s[n]
        BY <2>2, <1>1, <1>2
      <3>2. a.head # None /\ a.tail = s[n]
        BY <3>1, <2>2, <1>1 DEF Linked, None
      <3>3. QED BY <3>1, <3>2, <1>2, <1>4
    <2>3. QED BY <2>1, <2>2
  <1>6. ASSUME NEW p \in 1..(n + 1)
        PROVE  /\ t[p] \in Occupied(b)
               /\ b.nodes[t[p]].prev = IF p = 1 THEN None ELSE t[p - 1]
               /\ b.nodes[t[p]].next = IF p = n + 1 THEN None ELSE t[p + 1]
    <2>1. CASE p = 1
      BY <2>1, <1>1, <1>2, <1>3, <1>4 DEF Linked, None
    <2>2. CASE p > 1
      <3>1. PICK q \in 1..n : p = q + 1
        BY <2>2, <1>1
      <3>2. t[p] = s[q]
        BY <3>1, <1>2
      <3>3. p # n + 1 => p \in 1..n /\ t[p + 1] = s[p]
        BY <3>1, <1>1, <1>2
      <3>4. q # 1 => q - 1 \in 1..n /\ t[(q - 1) + 1] = s[q - 1]
        BY <3>1, <1>1, <1>2
      <3>5. p - 1 = (q - 1) + 1 /\ (p = n + 1 <=> q = n) /\ p # 1
        BY <3>1, <1>1
      <3>6. s[q] # idx /\ s[q] \in Occupied(a) /\ (s[q] = a.head <=> q = 1)
        BY <3>1, <1>1, <1>3 DEF Linked, Injective
      <3>7. /\ a.nodes[s[q]].prev = IF q = 1 THEN None ELSE s[q - 1]
            /\ a.nodes[s[q]].next = IF q = n THEN None ELSE s[p]
        BY <3>1 DEF Linked
      <3>8. b.nodes[s[q]].prev = t[p - 1]
        BY <3>1, <3>4, <3>5, <3>6, <3>7, <1>2, <1>4
      <3>9. b.nodes[s[q]].next = IF p = n + 1 THEN None ELSE t[p + 1]
        BY <3>3, <3>5, <3>6, <3>7, <1>4
      <3>10. QED BY <3>2, <3>5, <3>6, <3>8, <3>9, <1>4
    <2>3. QED BY <2>1, <2>2, <1>1
  <1>7. QED
    BY <1>1, <1>2, <1>5, <1>6 DEF Linked, b, t

\* Taking out the m-th element of a sequence without repetition closes the gap
\* and leaves the order of the others as it was.
LEMMA WithoutFacts ==
  ASSUME NEW S, NEW s \in Seq(S), Injective(s), NEW m \in 1..Len(s)
  PROVE  /\ Without(s, s[m]) \in Seq(S)
         /\ Len(Without(s, s[m])) = Len(s) - 1
         /\ \A p \in 1..Len(s) : p < m => Without(s, s[m])[p] = s[p]
         /\ \A p \in 1..Len(s) : p > m => Without(s, s[m])[p - 1] = s[p]
         /\ Elements(Without(s, s[m])) = Elements(s) \ {s[m]}
         /\ Injective(Without(s, s[m]))
  <1> DEFINE x == s[m]
             t == Without(s, x)
             n == Len(s)
  <1>0. n \in Nat /\ s \in [1..n -> S] /\ m \in Nat /\ 1 <= m /\ m <= n
    OBVIOUS
  <1>1. Position(s, x) = m
    BY <1>0 DEF Position, Injective
  <1>2. t = [p \in 1..(n - 1) |-> IF p < m THEN s[p] ELSE s[p + 1]]
    BY <1>1 DEF Without
  <1>3. t \in [1..(n - 1) -> S]
    BY <1>0, <1>2
  <1>4. t \in Seq(S) /\ Len(t) = n - 1
    <2> DEFINE k == n - 1
    <2>1. k \in Nat /\ t \in [1..k -> S]
      BY <1>0, <1>3
    <2> HIDE DEF k, t
    <2>2. t \in Seq(S) /\ Len(t) = k
      BY <2>1
    <2>3. QED BY <2>2 DEF k
  <1>5. \A p \in 1..n : p < m => t[p] = s[p]
    BY <1>0, <1>2
  <1>6. \A p \in 1..n : p > m => t[p - 1] = s[p]
    BY <1>0, <1>2
  <1>7. \A p \in 1..(n - 1) : t[p] = IF p < m THEN s[p] ELSE s[p + 1]
    BY <1>2
  <1> HIDE DEF t
  <1>8. Injective(t)
    BY <1>0, <1>4, <1>7 DEF Injective
  <1>9. Elements(t) = Elements(s) \ {x}
    <2>1. ASSUME NEW p \in 1..(n - 1) PROVE t[p] \in Elements(s) \ {x}
      BY <1>0, <1>7 DEF Elements, Injective
    <2>2. ASSUME NEW p \in 1..n, s[p] # x PROVE s[p] \in Elements(t)
      <3>1. CASE p < m
        BY <3>1, <1>0, <1>4, <1>5 DEF Elements
      <3>2. CASE p > m
        <4>1. p - 1 \in 1..(n - 1) /\ t[p - 1] = s[p]
          BY <3>2, <1>0, <1>6
        <4>2. QED BY <4>1, <1>4 DEF Elements
      <3>3. QED BY <3>1, <3>2, <2>2, <1>0
    <2>3. QED BY <2>1, <2>2, <1>4 DEF Elements
  <1>10. QED
    BY <1>4, <1>5, <1>6, <1>8, <1>9 DEF t

\* unlink, field by field: the neighbours of the node, or head and tail where it
\* has none, take over its links, and its own links are cleared.
LEMMA UnlinkFacts ==
  ASSUME NEW a, NEW idx
  PROVE  LET b == unlink(a, idx)
             prev == a.nodes[idx].prev
             next == a.nodes[idx].next
         IN
         /\ Occupied(b) = Occupied(a)
         /\ b.slots = a.slots /\ b.free = a.free
         /\ b.head = IF prev = None THEN next ELSE a.head
         /\ b.tail = IF next = None THEN prev ELSE a.tail
         /\ \A i \in Occupied(a) :
              /\ b.nodes[i].item = a.nodes[i].item
              /\ b.nodes[i].prev = IF i = idx THEN None
                                   ELSE IF i = next THEN prev ELSE a.nodes[i].prev
              /\ b.nodes[i].next = IF i = idx THEN None
                                   ELSE IF i = prev THEN next ELSE a.nodes[i].next
  BY DEF unlink, Occupied

\* unlink of any node of the list, at either end or in the middle, leaves the
\* list of the others in both directions.
LEMMA UnlinkLinked ==
  ASSUME NEW a, NEW s \in Seq(Slot), Linked(a, s), Injective(s),
         NEW idx \in Elements(s)
  PROVE  Linked(unlink(a, idx), Without(s, idx))
  <1> DEFINE b == unlink(a, idx)
             t == Without(s, idx)
             n == Len(s)
  <1>1. PICK m \in 1..n : s[m] = idx
    BY DEF Elements
  <1>2. /\ n \in Nat /\ m \in Nat /\ 1 <= m /\ m <= n
        /\ \A p \in 1..n : s[p] \in Nat \ {0}
    BY DEF Slot
  <1>3. /\ Len(t) = n - 1
        /\ \A p \in 1..n : p < m => t[p] = s[p]
        /\ \A p \in 1..n : p > m => t[p - 1] = s[p]
    <2>1. /\ Len(Without(s, s[m])) = n - 1
          /\ \A p \in 1..n : p < m => Without(s, s[m])[p] = s[p]
          /\ \A p \in 1..n : p > m => Without(s, s[m])[p - 1] = s[p]
      BY WithoutFacts
    <2>2. QED BY <2>1, <1>1
  <1> DEFINE prev == a.nodes[idx].prev
             next == a.nodes[idx].next
  <1>4. prev = (IF m = 1 THEN None ELSE s[m - 1]) /\ next = (IF m = n THEN None ELSE s[m + 1])
    BY <1>1 DEF Linked
  <1>5. /\ Occupied(b) = Occupied(a)
        /\ b.head = IF prev = None THEN next ELSE a.head
        /\ b.tail = IF next = None THEN prev ELSE a.tail
        /\ \A i \in Occupied(a) :
              /\ b.nodes[i].prev = IF i = idx THEN None
                                   ELSE IF i = next THEN prev ELSE a.nodes[i].prev
              /\ b.nodes[i].next = IF i = idx THEN None
                                   ELSE IF i = prev THEN next ELSE a.nodes[i].next
    BY UnlinkFacts
  <1> HIDE DEF b, t, prev, next
  <1>6. \A p, q \in 1..n : s[p] = s[q] => p = q
    BY DEF Injective
  <1>7. b.head = IF Len(t) = 0 THEN None ELSE t[1]
    <2>1. CASE m = 1 /\ n = 1
      BY <2>1, <1>2, <1>3, <1>4, <1>5
    <2>2. CASE m = 1 /\ n # 1
      <3>1. 2 \in 1..n /\ t[2 - 1] = s[2] /\ prev = None /\ next = s[2] /\ n - 1 # 0
        BY <2>2, <1>2, <1>3, <1>4
      <3>2. QED BY <3>1, <1>3, <1>5
    <2>3. CASE m # 1
      <3>1. 1 \in 1..n /\ t[1] = s[1] /\ m - 1 \in 1..n /\ n # 0 /\ n - 1 # 0
        BY <2>3, <1>2, <1>3
      <3>2. prev # None /\ a.head = s[1]
        BY <3>1, <2>3, <1>2, <1>4 DEF Linked, None
      <3>3. QED BY <3>1, <3>2, <1>3, <1>5
    <2>4. QED BY <2>1, <2>2, <2>3
  <1>8. b.tail = IF Len(t) = 0 THEN None ELSE t[Len(t)]
    <2>1. CASE m = n /\ n = 1
      BY <2>1, <1>2, <1>3, <1>4, <1>5
    <2>2. CASE m = n /\ n # 1
      <3>1. n - 1 \in 1..n /\ t[n - 1] = s[n - 1] /\ next = None /\ prev = s[n - 1] /\ n - 1 # 0
        BY <2>2, <1>2, <1>3, <1>4
      <3>2. QED BY <3>1, <1>3, <1>5
    <2>3. CASE m # n
      <3>1. n \in 1..n /\ t[n - 1] = s[n] /\ m + 1 \in 1..n /\ n # 0 /\ n - 1 # 0
        BY <2>3, <1>2, <1>3
      <3>2. next # None /\ a.tail = s[n]
        BY <3>1, <2>3, <1>2, <1>4 DEF Linked, None
      <3>3. QED BY <3>1, <3>2, <1>3, <1>5
    <2>4. QED BY <2>1, <2>2, <2>3
  <1>9. ASSUME NEW p \in 1..(n - 1)
        PROVE  /\ t[p] \in Occupied(b)
               /\ b.nodes[t[p]].prev = IF p = 1 THEN None ELSE t[p - 1]
               /\ b.nodes[t[p]].next = IF p = n - 1 THEN None ELSE t[p + 1]
    <2> DEFINE q == IF p < m THEN p ELSE p + 1
    <2>1. q \in 1..n /\ q # m /\ t[p] = s[q]
      BY <1>2, <1>3
    <2>2. /\ s[q] \in Occupied(a) /\ s[q] # idx
          /\ a.nodes[s[q]].prev = IF q = 1 THEN None ELSE s[q - 1]
          /\ a.nodes[s[q]].next = IF q = n THEN None ELSE s[q + 1]
      BY <2>1, <1>1, <1>6 DEF Linked
    <2>3. b.nodes[s[q]].prev = IF p = 1 THEN None ELSE t[p - 1]
      <3>1. CASE q = m + 1
        <4>1. next = s[q] /\ p = m
          BY <3>1, <1>2, <1>4
        <4>2. b.nodes[s[q]].prev = prev
          BY <4>1, <2>2, <1>5
        <4>3. m # 1 => m - 1 \in 1..n /\ t[m - 1] = s[m - 1]
          BY <1>2, <1>3
        <4>4. QED BY <4>1, <4>2, <4>3, <1>4
      <3>2. CASE q # m + 1
        <4>1. s[q] # next
          BY <3>2, <2>1, <1>2, <1>4, <1>6 DEF None
        <4>2. b.nodes[s[q]].prev = IF q = 1 THEN None ELSE s[q - 1]
          BY <4>1, <2>2, <1>5
        <4>3. p # 1 => q # 1 /\ q - 1 \in 1..n /\ t[p - 1] = s[q - 1]
          <5>1. CASE p < m
            <6>1. q = p /\ p \in 1..n
              BY <5>1, <1>2
            <6>2. p # 1 => p - 1 \in 1..n /\ p - 1 < m
              BY <5>1, <1>2
            <6>3. p # 1 => t[p - 1] = s[p - 1]
              BY <6>2, <1>3
            <6> HIDE DEF q
            <6>4. QED BY <6>1, <6>2, <6>3
          <5>2. CASE p >= m
            <6>1. q = p + 1 /\ p \in 1..n /\ p > m
              BY <5>2, <3>2, <1>2
            <6>2. t[p - 1] = s[p]
              BY <6>1, <1>3
            <6>3. p + 1 - 1 = p /\ p + 1 # 1
              BY <1>2
            <6> HIDE DEF q
            <6>4. QED BY <6>1, <6>2, <6>3
          <5>3. QED BY <5>1, <5>2, <1>2
        <4>4. p = 1 => q = 1
          BY <3>2, <2>1, <1>2
        <4>5. QED BY <4>2, <4>3, <4>4
      <3>3. QED BY <3>1, <3>2
    <2>4. b.nodes[s[q]].next = IF p = n - 1 THEN None ELSE t[p + 1]
      <3>1. CASE q = m - 1
        <4>1. prev = s[q] /\ p = m - 1
          BY <3>1, <2>1, <1>2, <1>4
        <4>2. b.nodes[s[q]].next = next
          BY <4>1, <2>2, <1>5
        <4>3. m # n => m + 1 \in 1..n /\ t[(m + 1) - 1] = s[m + 1]
          BY <1>2, <1>3
        <4>4. (m + 1) - 1 = p + 1 /\ (p = n - 1 <=> m = n)
          BY <4>1, <1>2
        <4>5. QED BY <4>1, <4>2, <4>3, <4>4, <1>4
      <3>2. CASE q # m - 1
        <4>1. s[q] # prev
          BY <3>2, <2>1, <1>2, <1>4, <1>6 DEF None
        <4>2. b.nodes[s[q]].next = IF q = n THEN None ELSE s[q + 1]
          BY <4>1, <2>2, <1>5
        <4>3. p # n - 1 => q # n /\ q + 1 \in 1..n /\ t[p + 1] = s[q + 1]
          BY <3>2, <2>1, <1>2, <1>3
        <4>4. p = n - 1 => q = n
          BY <3>2, <2>1, <1>2
        <4>5. QED BY <4>2, <4>3, <4>4
      <3>3. QED BY <3>1, <3>2
    <2>5. QED BY <2>1, <2>2, <2>3, <2>4, <1>5
  <1>10. QED
    BY <1>3, <1>7, <1>8, <1>9 DEF Linked, b, t

\* Moving the first element to the front changes nothing: the early return of
\* promote for the head.
LEMMA ToFrontOfFirst ==
  ASSUME NEW S, NEW s \in Seq(S), Injective(s), Len(s) # 0
  PROVE  ToFront(s, s[1]) = s
  <1> DEFINE x == s[1]
             t == Without(s, x)
             u == Push(t, x)
  <1>1. Len(s) \in Nat /\ 1 \in 1..Len(s) /\ s[1] \in S
    OBVIOUS
  <1>2. /\ t \in Seq(S) /\ Len(t) = Len(s) - 1
        /\ \A p \in 1..Len(s) : p > 1 => t[p - 1] = s[p]
    BY <1>1, WithoutFacts
  <1>3. /\ u \in Seq(S) /\ Len(u) = Len(t) + 1 /\ u[1] = x
        /\ \A p \in 1..Len(t) : u[p + 1] = t[p]
    <2>1. t \in Seq(S) /\ x \in S
      BY <1>1, <1>2
    <2> HIDE DEF t, x
    <2>2. QED BY <2>1, PushFacts
  <1> HIDE DEF t, u
  <1>4. Len(u) = Len(s)
    BY <1>1, <1>2, <1>3
  <1>5. ASSUME NEW p \in 1..Len(s) PROVE u[p] = s[p]
    <2>1. CASE p = 1
      BY <2>1, <1>3
    <2>2. CASE p # 1
      <3>1. p - 1 \in 1..(Len(s) - 1) /\ (p - 1) + 1 = p /\ p > 1
        BY <2>2, <1>1
      <3>2. u[(p - 1) + 1] = t[p - 1]
        BY <3>1, <1>2, <1>3
      <3>3. QED BY <3>1, <3>2, <1>2
    <2>3. QED BY <2>1, <2>2
  <1>6. u = s
    BY <1>3, <1>4, <1>5
  <1>7. QED
    BY <1>6 DEF ToFront, t, u, x

(***************************************************************************)
(* The four list operations the caches are built from, each on an arena    *)
(* whose list is s.                                                        *)
(***************************************************************************)

\* promote moves one slot to the front of the list and changes no item.
LEMMA PromoteInOrder ==
  ASSUME NEW a, NEW s \in Seq(Slot), InOrder(a, s), NEW idx \in Occupied(a)
  PROVE  LET b == promote(a, idx) IN
         /\ ToFront(s, idx) \in Seq(Slot)
         /\ InOrder(b, ToFront(s, idx))
         /\ Occupied(b) = Occupied(a)
         /\ b.slots = a.slots /\ b.free = a.free
         /\ \A i \in Occupied(a) : b.nodes[i].item = a.nodes[i].item
  <1>1. PICK m \in 1..Len(s) : s[m] = idx
    BY DEF InOrder, Elements
  <1>2. idx \in Slot /\ Len(s) # 0 /\ Len(s) \in Nat /\ 1 \in 1..Len(s)
    BY <1>1
  <1>3. CASE a.head = idx
    <2>1. s[1] = idx
      BY <1>2, <1>3 DEF InOrder, Linked
    <2>2. ToFront(s, idx) = s
      BY <2>1, <1>2, ToFrontOfFirst DEF InOrder
    <2>3. promote(a, idx) = a
      BY <1>3 DEF promote
    <2>4. QED BY <2>2, <2>3
  <1>4. CASE a.head # idx
    <2> DEFINE c == unlink(a, idx)
               t == Without(s, idx)
               b == push_front(c, idx)
    <2>1. /\ t \in Seq(Slot) /\ Injective(t)
          /\ Elements(t) = Elements(s) \ {idx}
      BY <1>1, WithoutFacts DEF InOrder
    <2>2. Linked(c, t)
      BY UnlinkLinked DEF InOrder
    <2>3. /\ Occupied(c) = Occupied(a)
          /\ c.slots = a.slots /\ c.free = a.free
          /\ \A i \in Occupied(a) : c.nodes[i].item = a.nodes[i].item
      BY UnlinkFacts
    <2> HIDE DEF c, t
    <2>4. Linked(b, Push(t, idx))
      BY <2>1, <2>2, <2>3, <1>2, PushFrontLinked
    <2>5. /\ Occupied(b) = Occupied(c)
          /\ b.slots = c.slots /\ b.free = c.free
          /\ \A i \in Occupied(c) : b.nodes[i].item = c.nodes[i].item
      BY PushFrontFacts
    <2>6. /\ Push(t, idx) \in Seq(Slot)
          /\ Elements(Push(t, idx)) = Elements(t) \cup {idx}
          /\ Injective(Push(t, idx))
      <3>1. /\ Push(t, idx) \in Seq(Slot)
            /\ Elements(Push(t, idx)) = Elements(t) \cup {idx}
            /\ Injective(t) /\ idx \notin Elements(t) => Injective(Push(t, idx))
        <4>1. t \in Seq(Slot) /\ idx \in Slot
          BY <2>1, <1>2
        <4> HIDE DEF t
        <4>2. QED BY <4>1, PushFacts
      <3>2. QED BY <3>1, <2>1
    <2> HIDE DEF b
    <2>7. Elements(Push(t, idx)) = Occupied(b)
      BY <2>1, <2>3, <2>5, <2>6 DEF InOrder
    <2>8. promote(a, idx) = b /\ ToFront(s, idx) = Push(t, idx)
      BY <1>4 DEF promote, ToFront, b, c, t
    <2>9. QED
      BY <2>3, <2>4, <2>5, <2>6, <2>7, <2>8 DEF InOrder
  <1>5. QED BY <1>3, <1>4

\* Replacing the value of a node in place leaves the list alone.
LEMMA ReplaceInOrder ==
  ASSUME NEW a, NEW s \in Seq(Slot), InOrder(a, s), NEW idx \in Occupied(a),
         NEW item
  PROVE  LET b == replace(a, idx, item) IN
         /\ InOrder(b, s)
         /\ Occupied(b) = Occupied(a)
         /\ b.slots = a.slots /\ b.free = a.free
         /\ \A i \in Occupied(a) :
              b.nodes[i].item = IF i = idx THEN item ELSE a.nodes[i].item
  <1> DEFINE b == replace(a, idx, item)
  <1>1. /\ Occupied(b) = Occupied(a)
        /\ b.slots = a.slots /\ b.free = a.free
        /\ b.head = a.head /\ b.tail = a.tail
        /\ \A i \in Occupied(a) :
             /\ b.nodes[i].item = IF i = idx THEN item ELSE a.nodes[i].item
             /\ b.nodes[i].prev = a.nodes[i].prev
             /\ b.nodes[i].next = a.nodes[i].next
    BY DEF replace, Occupied
  <1> HIDE DEF b
  <1>2. Linked(b, s)
    BY <1>1 DEF InOrder, Linked
  <1>3. InOrder(b, s)
    BY <1>1, <1>2 DEF InOrder
  <1>4. QED
    BY <1>1, <1>3 DEF b

\* What free.push does to a stack without repetition.
LEMMA AppendFacts ==
  ASSUME NEW S, NEW s \in Seq(S), NEW x \in S, Injective(s), x \notin Elements(s)
  PROVE  /\ Append(s, x) \in Seq(S)
         /\ Injective(Append(s, x))
         /\ Elements(Append(s, x)) = Elements(s) \cup {x}
  <1> DEFINE t == Append(s, x)
             n == Len(s)
  <1>1. /\ n \in Nat /\ t \in Seq(S) /\ Len(t) = n + 1 /\ t[n + 1] = x
        /\ \A p \in 1..n : t[p] = s[p]
    OBVIOUS
  <1> HIDE DEF t
  <1>2. Injective(t)
    BY <1>1 DEF Injective, Elements
  <1>3. Elements(t) = Elements(s) \cup {x}
    <2>1. Elements(t) \subseteq Elements(s) \cup {x}
      BY <1>1 DEF Elements
    <2>2. Elements(s) \cup {x} \subseteq Elements(t)
      BY <1>1 DEF Elements
    <2>3. QED BY <2>1, <2>2
  <1>4. QED BY <1>1, <1>2, <1>3 DEF t

\* What free.pop does to a stack without repetition.
LEMMA PopFacts ==
  ASSUME NEW S, NEW s \in Seq(S), Injective(s), s # << >>
  PROVE  LET t == SubSeq(s, 1, Len(s) - 1)
             x == s[Len(s)]
         IN  /\ x \in S /\ x \in Elements(s)
             /\ t \in Seq(S)
             /\ Injective(t)
             /\ Elements(t) = Elements(s) \ {x}
  <1> DEFINE n == Len(s)
             t == SubSeq(s, 1, n - 1)
             x == s[n]
  <1>1. n \in Nat /\ n # 0 /\ n \in 1..n
    OBVIOUS
  <1>2. x \in S /\ x \in Elements(s)
    BY <1>1 DEF Elements
  <1>3. t \in Seq(S) /\ Len(t) = n - 1 /\ \A p \in 1..(n - 1) : t[p] = s[p]
    <2> DEFINE k == n - 1
    <2>1. k \in Nat /\ k <= n
      BY <1>1
    <2>2. t = SubSeq(s, 1, k)
      OBVIOUS
    <2> HIDE DEF k, t
    <2>3. SubSeq(s, 1, k) \in Seq(S)
      BY <2>1, <1>1
    <2>4. Len(SubSeq(s, 1, k)) = k
      BY <2>1, <1>1
    <2>5. \A p \in 1..k : SubSeq(s, 1, k)[p] = s[p]
      BY <2>1, <1>1
    <2>6. QED BY <2>2, <2>3, <2>4, <2>5 DEF k
  <1> HIDE DEF t
  <1>4. Injective(t)
    BY <1>1, <1>3 DEF Injective
  <1>5. Elements(t) = Elements(s) \ {x}
    <2>1. Elements(t) \subseteq Elements(s) \ {x}
      BY <1>1, <1>3 DEF Elements, Injective
    <2>2. Elements(s) \ {x} \subseteq Elements(t)
      BY <1>1, <1>3 DEF Elements
    <2>3. QED BY <2>1, <2>2
  <1>6. QED BY <1>2, <1>3, <1>4, <1>5 DEF t

\* unlink followed by dealloc takes one slot out of the list and puts it on the
\* free stack, where it was not before.
LEMMA ReleaseInOrder ==
  ASSUME NEW a, NEW s \in Seq(Slot), InOrder(a, s), FreeExact(a),
         a.free \in Seq(Slot), NEW idx \in Occupied(a)
  PROVE  LET b == dealloc(unlink(a, idx), idx) IN
         /\ Without(s, idx) \in Seq(Slot)
         /\ InOrder(b, Without(s, idx))
         /\ Occupied(b) = Occupied(a) \ {idx}
         /\ b.slots = a.slots
         /\ b.free \in Seq(Slot) /\ b.free # << >>
         /\ FreeExact(b)
         /\ \A i \in Occupied(b) : b.nodes[i].item = a.nodes[i].item
  <1> DEFINE c == unlink(a, idx)
             b == dealloc(c, idx)
             t == Without(s, idx)
  <1>1. PICK m \in 1..Len(s) : s[m] = idx
    BY DEF InOrder, Elements
  <1>2. idx \in Slot
    BY <1>1
  <1>3. /\ t \in Seq(Slot) /\ Injective(t)
        /\ Elements(t) = Elements(s) \ {idx}
    BY <1>1, WithoutFacts DEF InOrder
  <1>4. Linked(c, t)
    BY UnlinkLinked DEF InOrder
  <1>5. /\ Occupied(c) = Occupied(a)
        /\ c.slots = a.slots /\ c.free = a.free
        /\ \A i \in Occupied(a) : c.nodes[i].item = a.nodes[i].item
    BY UnlinkFacts
  <1> HIDE DEF c, t
  <1>6. /\ Occupied(b) = Occupied(c) \ {idx}
        /\ b.slots = c.slots /\ b.free = Append(c.free, idx)
        /\ b.head = c.head /\ b.tail = c.tail
        /\ \A i \in Occupied(c) \ {idx} : b.nodes[i] = c.nodes[i]
    BY DEF dealloc, Vacated, Occupied
  <1> HIDE DEF b
  <1>7. Elements(t) = Occupied(b)
    BY <1>3, <1>5, <1>6 DEF InOrder
  <1>8. \A p \in 1..Len(t) : t[p] \in Occupied(c) \ {idx}
    BY <1>5, <1>6, <1>7 DEF Elements
  <1>9. Linked(b, t)
    BY <1>4, <1>6, <1>8 DEF Linked
  <1>10. /\ Injective(a.free) /\ idx \notin Elements(a.free)
         /\ Elements(a.free) = (1..a.slots) \ Occupied(a)
         /\ idx \in 1..a.slots /\ Occupied(a) \subseteq 1..a.slots
    BY DEF FreeExact
  <1>11. /\ Append(a.free, idx) \in Seq(Slot)
         /\ Injective(Append(a.free, idx))
         /\ Elements(Append(a.free, idx)) = Elements(a.free) \cup {idx}
    BY <1>2, <1>10, AppendFacts
  <1>12. b.free = Append(a.free, idx) /\ b.slots = a.slots /\ Occupied(b) = Occupied(a) \ {idx}
    BY <1>5, <1>6
  <1>13. FreeExact(b)
    <2>1. Elements(b.free) = (1..b.slots) \ Occupied(b)
      BY <1>10, <1>11, <1>12
    <2>2. Occupied(b) \subseteq 1..b.slots
      BY <1>10, <1>12
    <2>3. QED BY <2>1, <2>2, <1>11, <1>12 DEF FreeExact
  <1>14. b.free # << >>
    <2>1. idx \in Elements(b.free)
      BY <1>11, <1>12
    <2>2. QED BY <2>1 DEF Elements
  <1>15. QED
    BY <1>3, <1>5, <1>6, <1>7, <1>9, <1>11, <1>12, <1>13, <1>14 DEF InOrder, b, c, t

\* alloc returns a slot that no node occupies, from the free stack if it can,
\* and disturbs no node.
LEMMA AllocFacts ==
  ASSUME NEW a, a.slots \in Nat, a.free \in Seq(Slot), FreeExact(a), NEW item
  PROVE  LET idx == AllocIdx(a)
             b == alloc(a, item)
         IN  /\ idx \in Slot /\ idx \notin Occupied(a)
             /\ Occupied(b) = Occupied(a) \cup {idx}
             /\ b.slots = IF a.free = << >> THEN a.slots + 1 ELSE a.slots
             /\ b.free \in Seq(Slot)
             /\ b.head = a.head /\ b.tail = a.tail
             /\ b.nodes[idx].item = item
             /\ \A i \in Occupied(a) : b.nodes[i] = a.nodes[i]
             /\ FreeExact(b)
  <1> DEFINE idx == AllocIdx(a)
             b == alloc(a, item)
  <1>1. /\ Injective(a.free) /\ Elements(a.free) = (1..a.slots) \ Occupied(a)
        /\ Occupied(a) \subseteq 1..a.slots
    BY DEF FreeExact
  <1>2. /\ Occupied(b) = Occupied(a) \cup {idx}
        /\ b.slots = IF a.free = << >> THEN idx ELSE a.slots
        /\ b.free = IF a.free = << >> THEN << >>
                    ELSE SubSeq(a.free, 1, Len(a.free) - 1)
        /\ b.head = a.head /\ b.tail = a.tail
    BY DEF alloc, Occupied
  <1>3. /\ idx \notin Occupied(a) => \A i \in Occupied(a) : b.nodes[i] = a.nodes[i]
        /\ b.nodes[idx].item = item
    BY DEF alloc, Occupied
  <1> HIDE DEF b
  <1>4. CASE a.free = << >>
    <2>1. idx = a.slots + 1
      BY <1>4 DEF AllocIdx
    <2>2. idx \in Slot /\ idx \notin 1..a.slots /\ 1..idx = 1..a.slots \cup {idx}
      BY <2>1 DEF Slot
    <2> HIDE DEF idx
    <2>3. Elements(a.free) = {}
      BY <1>4 DEF Elements
    <2>4. Occupied(a) = 1..a.slots
      BY <2>3, <1>1
    <2>5. b.free = a.free /\ b.slots = idx
      BY <1>2, <1>4
    <2>6. FreeExact(b)
      BY <2>2, <2>3, <2>4, <2>5, <1>1, <1>2 DEF FreeExact
    <2>7. QED
      BY <2>1, <2>2, <2>4, <2>5, <2>6, <1>2, <1>3, <1>4 DEF idx, b
  <1>5. CASE a.free # << >>
    <2>1. idx = a.free[Len(a.free)]
      BY <1>5 DEF AllocIdx
    <2>2. /\ idx \in Slot /\ idx \in Elements(a.free)
          /\ b.free \in Seq(Slot) /\ Injective(b.free)
          /\ Elements(b.free) = Elements(a.free) \ {idx}
      BY <2>1, <1>1, <1>2, <1>5, PopFacts
    <2> HIDE DEF idx
    <2>3. b.slots = a.slots /\ idx \in 1..a.slots /\ idx \notin Occupied(a)
      BY <2>2, <1>1, <1>2, <1>5
    <2>4. FreeExact(b)
      BY <2>2, <2>3, <1>1, <1>2 DEF FreeExact
    <2>5. QED
      BY <2>2, <2>3, <2>4, <1>2, <1>3, <1>5 DEF idx, b
  <1>6. QED BY <1>4, <1>5

\* alloc followed by push_front adds one node at the front of the list.
LEMMA InsertInOrder ==
  ASSUME NEW a, NEW s \in Seq(Slot), InOrder(a, s), FreeExact(a),
         a.slots \in Nat, a.free \in Seq(Slot), NEW item
  PROVE  LET idx == AllocIdx(a)
             b == push_front(alloc(a, item), idx)
         IN  /\ idx \in Slot /\ idx \notin Occupied(a)
             /\ Push(s, idx) \in Seq(Slot)
             /\ InOrder(b, Push(s, idx))
             /\ Occupied(b) = Occupied(a) \cup {idx}
             /\ b.slots = IF a.free = << >> THEN a.slots + 1 ELSE a.slots
             /\ b.free \in Seq(Slot)
             /\ FreeExact(b)
             /\ b.nodes[idx].item = item
             /\ \A i \in Occupied(a) : b.nodes[i].item = a.nodes[i].item
  <1> DEFINE idx == AllocIdx(a)
             c == alloc(a, item)
             b == push_front(c, idx)
             t == Push(s, idx)
  <1>1. /\ idx \in Slot /\ idx \notin Occupied(a)
        /\ Occupied(c) = Occupied(a) \cup {idx}
        /\ c.slots = IF a.free = << >> THEN a.slots + 1 ELSE a.slots
        /\ c.free \in Seq(Slot)
        /\ c.head = a.head /\ c.tail = a.tail
        /\ c.nodes[idx].item = item
        /\ \A i \in Occupied(a) : c.nodes[i] = a.nodes[i]
        /\ FreeExact(c)
    BY AllocFacts
  <1> HIDE DEF idx, c
  <1>2. Linked(c, s)
    BY <1>1 DEF InOrder, Linked
  <1>3. idx \notin Elements(s)
    BY <1>1 DEF InOrder
  <1>4. Linked(b, t)
    <2>1. idx \in Occupied(c) /\ Injective(s) /\ idx \in Slot
      BY <1>1 DEF InOrder
    <2>2. QED BY <2>1, <1>2, <1>3, PushFrontLinked
  <1>5. /\ Occupied(b) = Occupied(c)
        /\ b.slots = c.slots /\ b.free = c.free
        /\ \A i \in Occupied(c) : b.nodes[i].item = c.nodes[i].item
    BY PushFrontFacts
  <1>6. /\ t \in Seq(Slot) /\ Elements(t) = Elements(s) \cup {idx} /\ Injective(t)
    <2>1. idx \in Slot
      BY <1>1
    <2>2. /\ t \in Seq(Slot)
          /\ Elements(t) = Elements(s) \cup {idx}
          /\ Injective(s) /\ idx \notin Elements(s) => Injective(t)
      BY <2>1, PushFacts
    <2>3. QED BY <2>2, <1>3 DEF InOrder
  <1> HIDE DEF b, t
  <1>7. FreeExact(b)
    BY <1>1, <1>5 DEF FreeExact
  <1>8. InOrder(b, t)
    BY <1>1, <1>4, <1>5, <1>6 DEF InOrder
  <1>9. \A i \in Occupied(a) : b.nodes[i].item = a.nodes[i].item
    BY <1>1, <1>5
  <1>10. b.nodes[idx].item = item
    BY <1>1, <1>5
  <1>11. QED
    BY <1>1, <1>5, <1>6, <1>7, <1>8, <1>9, <1>10 DEF idx, b, c, t

\* An arena whose list is in order has links of the right type: the type
\* correctness of the links is a consequence of the list, not a premise of it.
LEMMA InOrderType ==
  ASSUME NEW a, NEW s \in Seq(Slot), NEW I, InOrder(a, s),
         a.slots \in Nat, a.free \in Seq(Slot),
         \A i \in Occupied(a) : a.nodes[i].item \in I
  PROVE  ArenaType(a, I)
  <1>1. Len(s) \in Nat /\ \A p \in 1..Len(s) : s[p] \in Slot /\ s[p] \in Nat
    BY DEF Slot
  <1>2. a.head \in Nat /\ a.tail \in Nat
    BY <1>1 DEF InOrder, Linked, None
  <1>3. Occupied(a) \subseteq Slot
    BY <1>1 DEF InOrder, Elements
  <1>4. ASSUME NEW i \in Occupied(a)
        PROVE  a.nodes[i].prev \in Nat /\ a.nodes[i].next \in Nat
    <2>1. PICK p \in 1..Len(s) : s[p] = i
      BY DEF InOrder, Elements
    <2>2. /\ a.nodes[i].prev = IF p = 1 THEN None ELSE s[p - 1]
          /\ a.nodes[i].next = IF p = Len(s) THEN None ELSE s[p + 1]
      BY <2>1 DEF InOrder, Linked
    <2>3. (p # 1 => p - 1 \in 1..Len(s)) /\ (p # Len(s) => p + 1 \in 1..Len(s))
      BY <1>1
    <2>4. QED BY <2>2, <2>3, <1>1 DEF None
  <1>5. QED
    BY <1>2, <1>3, <1>4 DEF ArenaType

\* The tail is a node, and there is one unless the arena is empty.
LEMMA TailIsOccupied ==
  ASSUME NEW a, NEW s \in Seq(Slot), InOrder(a, s)
  PROVE  /\ a.tail # None => a.tail \in Occupied(a)
         /\ a.tail = None => Occupied(a) = {}
  <1>1. Len(s) \in Nat /\ \A p \in 1..Len(s) : s[p] \in Nat \ {0}
    BY DEF Slot
  <1>2. CASE Len(s) = 0
    BY <1>2 DEF InOrder, Linked, Elements
  <1>3. CASE Len(s) # 0
    <2>1. Len(s) \in 1..Len(s)
      BY <1>1, <1>3
    <2>2. a.tail = s[Len(s)] /\ s[Len(s)] \in Occupied(a)
      BY <2>1, <1>3 DEF InOrder, Linked
    <2>3. QED BY <2>1, <2>2, <1>1 DEF None
  <1>4. QED BY <1>2, <1>3
-----------------------------------------------------------------------------
\* The sequence s, each element read through g.
Relabel(s, g) == [p \in 1..Len(s) |-> g[s[p]]]

\* Reading a sequence through a one-to-one function keeps its shape.
LEMMA RelabelFacts ==
  ASSUME NEW S, NEW s \in Seq(S), Injective(s), NEW g, NEW K,
         \A x \in Elements(s) : g[x] \in K,
         \A x, y \in Elements(s) : g[x] = g[y] => x = y
  PROVE  /\ Relabel(s, g) \in Seq(K) /\ Len(Relabel(s, g)) = Len(s)
         /\ \A p \in 1..Len(s) : Relabel(s, g)[p] = g[s[p]]
         /\ Injective(Relabel(s, g))
         /\ Elements(Relabel(s, g)) = {g[x] : x \in Elements(s)}
  <1> DEFINE r == Relabel(s, g)
  <1>1. Len(s) \in Nat /\ \A p \in 1..Len(s) : s[p] \in Elements(s)
    BY DEF Elements
  <1>2. r \in Seq(K) /\ Len(r) = Len(s) /\ \A p \in 1..Len(s) : r[p] = g[s[p]]
    BY <1>1 DEF Relabel
  <1>3. Injective(r)
    BY <1>1, <1>2 DEF Injective
  <1>4. Elements(r) = {g[x] : x \in Elements(s)}
    BY <1>2 DEF Elements
  <1>5. QED BY <1>2, <1>3, <1>4

\* Only the labels of its elements matter.
LEMMA RelabelSame ==
  ASSUME NEW S, NEW s \in Seq(S), NEW g, NEW h, \A x \in Elements(s) : g[x] = h[x]
  PROVE  Relabel(s, g) = Relabel(s, h)
  BY DEF Relabel, Elements

\* A new first element brings its label.
LEMMA RelabelPush ==
  ASSUME NEW S, NEW s \in Seq(S), NEW x \in S, NEW g, NEW h,
         \A y \in Elements(s) : g[y] = h[y]
  PROVE  Relabel(Push(s, x), h) = Push(Relabel(s, g), h[x])
  <1> DEFINE t == Push(s, x)
             r == Relabel(s, g)
  <1>1. Len(s) \in Nat /\ \A p \in 1..Len(s) : s[p] \in Elements(s)
    BY DEF Elements
  <1>2. Len(t) = Len(s) + 1 /\ t[1] = x /\ \A p \in 1..Len(s) : t[p + 1] = s[p]
    BY PushFacts
  <1>3. Len(r) = Len(s) /\ \A p \in 1..Len(s) : r[p] = g[s[p]]
    BY <1>1 DEF Relabel
  <1>4. Push(r, h[x]) = [p \in 1..(Len(s) + 1) |-> IF p = 1 THEN h[x] ELSE r[p - 1]]
    BY <1>3 DEF Push
  <1>5. Relabel(t, h) = [p \in 1..(Len(s) + 1) |-> h[t[p]]]
    BY <1>2 DEF Relabel
  <1> HIDE DEF t, r
  <1>6. ASSUME NEW p \in 1..(Len(s) + 1)
        PROVE  h[t[p]] = IF p = 1 THEN h[x] ELSE r[p - 1]
    <2>1. CASE p = 1
      BY <2>1, <1>2
    <2>2. CASE p # 1
      <3>1. p - 1 \in 1..Len(s) /\ (p - 1) + 1 = p
        BY <2>2, <1>1
      <3>2. t[p] = s[p - 1] /\ r[p - 1] = g[s[p - 1]]
        BY <3>1, <1>2, <1>3
      <3>3. QED BY <3>1, <3>2, <2>2, <1>1
    <2>3. QED BY <2>1, <2>2
  <1>7. QED BY <1>4, <1>5, <1>6 DEF t, r

\* Taking out the element at m moves up the ones after it.
LEMMA WithoutAt ==
  ASSUME NEW s, Injective(s), NEW m \in 1..Len(s)
  PROVE  Without(s, s[m]) = [p \in 1..(Len(s) - 1) |-> IF p < m THEN s[p] ELSE s[p + 1]]
  <1>1. Position(s, s[m]) = m
    BY DEF Position, Injective
  <1>2. QED BY <1>1 DEF Without

\* Taking an element out takes its label out.
LEMMA RelabelWithout ==
  ASSUME NEW S, NEW s \in Seq(S), Injective(s), NEW g, NEW x \in Elements(s),
         \A y, z \in Elements(s) : g[y] = g[z] => y = z
  PROVE  Relabel(Without(s, x), g) = Without(Relabel(s, g), g[x])
  <1> DEFINE t == Without(s, x)
             r == Relabel(s, g)
             K == {g[y] : y \in Elements(s)}
             n == Len(s)
  <1>1. PICK m \in 1..n : s[m] = x
    BY DEF Elements
  <1>2. t = [p \in 1..(n - 1) |-> IF p < m THEN s[p] ELSE s[p + 1]]
    BY <1>1, WithoutAt
  <1>3. Len(t) = n - 1 /\ n \in Nat
    BY <1>1, WithoutFacts
  <1>4. /\ Len(r) = n /\ Injective(r)
        /\ \A p \in 1..n : r[p] = g[s[p]]
    <2>1. \A y \in Elements(s) : g[y] \in K
      OBVIOUS
    <2> HIDE DEF K
    <2>2. QED BY <2>1, RelabelFacts
  <1>5. r[m] = g[x]
    BY <1>1, <1>4
  <1> HIDE DEF r, t
  <1>6. Without(r, g[x]) = [p \in 1..(n - 1) |-> IF p < m THEN r[p] ELSE r[p + 1]]
    BY <1>4, <1>5, WithoutAt
  <1>7. Relabel(t, g) = [p \in 1..(n - 1) |-> g[t[p]]]
    BY <1>3 DEF Relabel
  <1>8. ASSUME NEW p \in 1..(n - 1) PROVE g[t[p]] = IF p < m THEN r[p] ELSE r[p + 1]
    <2> HIDE DEF n
    <2>1. p \in 1..n /\ p + 1 \in 1..n
      BY <1>3
    <2>2. t[p] = IF p < m THEN s[p] ELSE s[p + 1]
      BY <1>2
    <2>3. r[p] = g[s[p]] /\ r[p + 1] = g[s[p + 1]]
      BY <2>1, <1>4
    <2>4. QED BY <2>2, <2>3
  <1>9. QED BY <1>6, <1>7, <1>8 DEF t, r

\* An element that comes to the front brings its label along.
LEMMA RelabelToFront ==
  ASSUME NEW S, NEW s \in Seq(S), Injective(s), NEW g, NEW x \in Elements(s),
         \A y, z \in Elements(s) : g[y] = g[z] => y = z
  PROVE  Relabel(ToFront(s, x), g) = ToFront(Relabel(s, g), g[x])
  <1>1. PICK m \in 1..Len(s) : s[m] = x
    BY DEF Elements
  <1>2. Without(s, x) \in Seq(S) /\ x \in S
    BY <1>1, WithoutFacts
  <1>3. Relabel(Without(s, x), g) = Without(Relabel(s, g), g[x])
    BY RelabelWithout
  <1>4. QED BY <1>2, <1>3, RelabelPush DEF ToFront
-----------------------------------------------------------------------------
(***************************************************************************)
(* Sums over finite sets.  SumFunctionOnSet is a recursive function chosen *)
(* by CHOOSE, so that such a function exists and is the only one has to be *)
(* shown first; the inductions are by a least counterexample.              *)
(***************************************************************************)
\* A nonempty set of numbers has a least one.
LEMMA LeastNat ==
  ASSUME NEW T, T \subseteq Nat, T # {}
  PROVE  \E x \in T : \A y \in T : x <= y
  <1> DEFINE R == {ss \in Nat \X Nat : ss[1] < ss[2]}
  <1>0. IsWellFoundedOn(R, Nat)
    BY NatLessThanWellFounded, Zenon DEF OpToRel
  <1> HIDE DEF R
  <1>1. PICK x \in T : \A y \in T : ~(<<y, x>> \in R)
    BY <1>0, WFMin
  <1>2. ASSUME NEW y \in T PROVE x <= y
    <2>1. y < x => <<y, x>> \in R
      BY DEF R
    <2>2. QED BY <2>1, <1>1
  <1>3. QED BY <1>2

\* A nonempty set of subsets of a finite set has a minimal one.
LEMMA LeastSubset ==
  ASSUME NEW S, IsFiniteSet(S), NEW C, C \subseteq SUBSET S, C # {}
  PROVE  \E U \in C : \A V \in SUBSET U : V # U => V \notin C
  <1> DEFINE R == StrictSubsetOrdering(S)
  <1>1. IsWellFoundedOn(R, SUBSET S)
    BY FS_StrictSubsetOrderingWellFounded, FS_FiniteSubsetsOfFinite
  <1> HIDE DEF R
  <1>2. PICK U \in C : \A V \in C : ~(<<V, U>> \in R)
    BY <1>1, WFMin
  <1>3. ASSUME NEW V \in SUBSET U, V # U, V \in C PROVE FALSE
    <2>1. <<V, U>> \in R
      BY <1>3 DEF R, StrictSubsetOrdering
    <2>2. QED BY <2>1, <1>2, <1>3
  <1>4. QED BY <1>3

\* The element a sum takes first.
Chosen(s) == CHOOSE x \in s : TRUE

\* What the sums over the subsets of s in a set of sets obey.
Total(f, g, s) == IF s = {} THEN 0 ELSE f[Chosen(s)] + g[s \ {Chosen(s)}]

\* g solves the recursion of the sums of f over the subsets of S.
Solves(g, f, S) == g = [s \in SUBSET S |-> Total(f, g, s)]

\* The sum over S is what a solution of the recursion says of S itself.
LEMMA SumDef ==
  ASSUME NEW f, NEW S
  PROVE  SumFunctionOnSet(f, S) = (CHOOSE g : Solves(g, f, S))[S]
  BY DEF Solves, SumFunctionOnSet, FoldFunctionOnSet, MapThenFoldSet, Total, Chosen

\* A nonempty set holds the element chosen of it.
LEMMA ChosenIn == \A s : s # {} => Chosen(s) \in s
  BY DEF Chosen

\* The recursion of a sum over a finite set has a solution.
LEMMA SumExists ==
  ASSUME NEW f, NEW S, IsFiniteSet(S)
  PROVE  \E g : Solves(g, f, S)
  <1> DEFINE L(n) == {s \in SUBSET S : Cardinality(s) <= n}
             Bad == {n \in Nat : ~ \E g : g = [s \in L(n) |-> Total(f, g, s)]}
  <1>0. \A s \in SUBSET S : IsFiniteSet(s) /\ Cardinality(s) \in Nat
    BY FS_Subset, FS_CardinalityType
  <1>1. Bad = {}
    <2>1. SUFFICES ASSUME Bad # {} PROVE FALSE
      OBVIOUS
    <2>2. PICK m \in Bad : \A n \in Bad : m <= n
      <3>1. Bad \subseteq Nat
        OBVIOUS
      <3>2. QED BY <2>1, <3>1, LeastNat
    <2>3. m \in Nat /\ ~ \E g : g = [s \in L(m) |-> Total(f, g, s)]
      OBVIOUS
    <2>4. CASE m = 0
      <3>1. \A s \in L(m) : s = {}
        BY <2>4, <1>0, FS_EmptySet
      <3> DEFINE g == [s \in L(m) |-> 0]
      <3>2. g = [s \in L(m) |-> Total(f, g, s)]
        BY <3>1 DEF Total
      <3>3. QED BY <3>2, <2>3
    <2>5. CASE m # 0
      <3>1. m - 1 \in Nat /\ m - 1 \notin Bad
        <4> HIDE DEF Bad
        <4>1. QED BY <2>2, <2>3, <2>5
      <3>2. PICK g : g = [s \in L(m - 1) |-> Total(f, g, s)]
        BY <3>1
      <3> DEFINE h == [s \in L(m) |-> Total(f, g, s)]
      <3>3. ASSUME NEW s \in L(m) PROVE Total(f, g, s) = Total(f, h, s)
        <4>1. CASE s = {}
          BY <4>1 DEF Total
        <4>2. CASE s # {}
          <5> DEFINE t == s \ {Chosen(s)}
          <5>1. Chosen(s) \in s
            BY <4>2, ChosenIn
          <5>2. Cardinality(t) = Cardinality(s) - 1
            BY <5>1, <1>0, FS_RemoveElement
          <5>3. t \in L(m - 1) /\ t \in L(m)
            BY <5>2, <1>0, <2>3
          <5> HIDE DEF t
          <5>4. g[t] = Total(f, g, t)
            BY <3>2, <5>3
          <5>5. h[t] = Total(f, g, t)
            BY <5>3
          <5>6. QED BY <5>4, <5>5, <4>2 DEF Total, t
        <4>3. QED BY <4>1, <4>2
      <3>4. h = [s \in L(m) |-> Total(f, h, s)]
        BY <3>3
      <3>5. QED BY <3>4, <2>3
    <2>6. QED BY <2>4, <2>5
  <1>2. Cardinality(S) \in Nat
    BY FS_CardinalityType
  <1>3. L(Cardinality(S)) = SUBSET S
    BY FS_Subset
  <1>4. \E g : g = [s \in L(Cardinality(S)) |-> Total(f, g, s)]
    BY <1>1, <1>2
  <1>5. QED BY <1>3, <1>4 DEF Solves

\* Two solutions agree where both are defined.
LEMMA SumUnique ==
  ASSUME NEW f, NEW S, NEW T \in SUBSET S, IsFiniteSet(T), NEW g, NEW h,
         Solves(g, f, S), Solves(h, f, T)
  PROVE  g[T] = h[T]
  <1> DEFINE C == {U \in SUBSET T : g[U] # h[U]}
  <1>1. SUFFICES ASSUME C # {} PROVE FALSE
    OBVIOUS
  <1>2. PICK U \in C : \A V \in SUBSET U : V # U => V \notin C
    <2>1. C \subseteq SUBSET T
      OBVIOUS
    <2> HIDE DEF C
    <2>2. QED BY <1>1, <2>1, LeastSubset
  <1>3. g[U] = Total(f, g, U) /\ h[U] = Total(f, h, U)
    BY DEF Solves
  <1>4. CASE U = {}
    BY <1>3, <1>4 DEF Total
  <1>5. CASE U # {}
    <2> DEFINE V == U \ {Chosen(U)}
    <2>1. V \in SUBSET U /\ V # U
      BY <1>5, ChosenIn
    <2>2. g[V] = h[V]
      BY <2>1, <1>2
    <2>3. QED BY <2>2, <1>3, <1>5 DEF Total
  <1>6. QED BY <1>4, <1>5

\* The sum over a finite set: nothing, or the chosen element and the rest.
LEMMA SumStep ==
  ASSUME NEW f, NEW S, IsFiniteSet(S)
  PROVE  SumFunctionOnSet(f, S) =
           IF S = {} THEN 0
           ELSE f[Chosen(S)] + SumFunctionOnSet(f, S \ {Chosen(S)})
  <1> DEFINE g == CHOOSE x : Solves(x, f, S)
             T == S \ {Chosen(S)}
             h == CHOOSE x : Solves(x, f, T)
  <1>1. Solves(g, f, S)
    BY SumExists
  <1>2. T \in SUBSET S /\ IsFiniteSet(T)
    BY FS_RemoveElement
  <1>3. Solves(h, f, T)
    BY <1>2, SumExists
  <1>4. SumFunctionOnSet(f, S) = g[S] /\ SumFunctionOnSet(f, T) = h[T]
    BY SumDef
  <1> HIDE DEF g, h
  <1>5. g[T] = h[T]
    <2> HIDE DEF T
    <2>1. QED BY <1>1, <1>2, <1>3, SumUnique
  <1>6. g[S] = Total(f, g, S)
    BY <1>1 DEF Solves
  <1>7. QED BY <1>4, <1>5, <1>6 DEF Total

\* The sum of numbers is a number.
LEMMA SumNat ==
  ASSUME NEW f, NEW S, IsFiniteSet(S), \A x \in S : f[x] \in Nat
  PROVE  SumFunctionOnSet(f, S) \in Nat
  <1> DEFINE C == {U \in SUBSET S : SumFunctionOnSet(f, U) \notin Nat}
  <1>1. SUFFICES ASSUME C # {} PROVE FALSE
    OBVIOUS
  <1>2. PICK U \in C : \A V \in SUBSET U : V # U => V \notin C
    <2>1. C \subseteq SUBSET S
      OBVIOUS
    <2> HIDE DEF C
    <2>2. QED BY <1>1, <2>1, LeastSubset
  <1>3. IsFiniteSet(U) /\ U \in SUBSET S
    BY FS_Subset
  <1>4. U # {}
    <2>1. SumFunctionOnSet(f, {}) = 0
      BY SumStep, FS_EmptySet
    <2>2. QED BY <2>1
  <1> DEFINE c == Chosen(U)
  <1>5. c \in U /\ U \ {c} \in SUBSET U /\ U \ {c} # U
    BY <1>4, ChosenIn
  <1>6. SumFunctionOnSet(f, U \ {c}) \in Nat
    BY <1>2, <1>3, <1>5
  <1>7. SumFunctionOnSet(f, U) = f[c] + SumFunctionOnSet(f, U \ {c})
    BY <1>3, <1>4, SumStep
  <1>8. QED BY <1>3, <1>5, <1>6, <1>7

\* Any element may be taken first.
LEMMA SumRemove ==
  ASSUME NEW f, NEW S, IsFiniteSet(S), \A y \in S : f[y] \in Nat, NEW x \in S
  PROVE  SumFunctionOnSet(f, S) = f[x] + SumFunctionOnSet(f, S \ {x})
  <1> DEFINE Sum(U) == SumFunctionOnSet(f, U)
             C == {U \in SUBSET S : \E y \in U : Sum(U) # f[y] + Sum(U \ {y})}
  <1>1. SUFFICES ASSUME C # {} PROVE FALSE
    OBVIOUS
  <1>2. PICK U \in C : \A V \in SUBSET U : V # U => V \notin C
    <2>1. C \subseteq SUBSET S
      OBVIOUS
    <2> HIDE DEF C
    <2>2. QED BY <1>1, <2>1, LeastSubset
  <1>3. PICK y \in U : Sum(U) # f[y] + Sum(U \ {y})
    OBVIOUS
  <1>4. U \in SUBSET S /\ \A V \in SUBSET U : IsFiniteSet(V) /\ Sum(V) \in Nat
    <2>1. U \in SUBSET S
      OBVIOUS
    <2>2. ASSUME NEW V \in SUBSET U PROVE IsFiniteSet(V)
      BY <2>1, FS_Subset
    <2>3. ASSUME NEW V \in SUBSET U PROVE Sum(V) \in Nat
      BY <2>1, <2>2, SumNat
    <2>4. QED BY <2>1, <2>2, <2>3
  <1>5. \A V \in SUBSET U : V # U => \A z \in V : Sum(V) = f[z] + Sum(V \ {z})
    BY <1>2, <1>4
  <1> DEFINE c == Chosen(U)
  <1>6. c \in U /\ Sum(U) = f[c] + Sum(U \ {c})
    BY <1>4, SumStep, ChosenIn
  <1>7. c # y
    BY <1>3, <1>6
  <1> HIDE DEF Sum, C, c
  <1>8. Sum(U \ {c}) = f[y] + Sum((U \ {c}) \ {y})
    BY <1>5, <1>6, <1>7
  <1>9. Sum(U \ {y}) = f[c] + Sum((U \ {y}) \ {c})
    BY <1>5, <1>6, <1>7
  <1>10. (U \ {c}) \ {y} = (U \ {y}) \ {c}
    OBVIOUS
  <1>11. f[c] \in Nat /\ f[y] \in Nat /\ Sum((U \ {y}) \ {c}) \in Nat
    BY <1>4, <1>6
  <1>12. QED BY <1>3, <1>6, <1>8, <1>9, <1>10, <1>11

\* A sum only depends on the values it adds up.
LEMMA SumSame ==
  ASSUME NEW f, NEW g, NEW S, IsFiniteSet(S), \A x \in S : f[x] = g[x]
  PROVE  SumFunctionOnSet(f, S) = SumFunctionOnSet(g, S)
  <1> DEFINE C == {U \in SUBSET S : SumFunctionOnSet(f, U) # SumFunctionOnSet(g, U)}
  <1>1. SUFFICES ASSUME C # {} PROVE FALSE
    OBVIOUS
  <1>2. PICK U \in C : \A V \in SUBSET U : V # U => V \notin C
    <2>1. C \subseteq SUBSET S
      OBVIOUS
    <2> HIDE DEF C
    <2>2. QED BY <1>1, <2>1, LeastSubset
  <1>3. IsFiniteSet(U) /\ U \in SUBSET S
    BY FS_Subset
  <1>4. U # {}
    BY <1>3, SumStep
  <1> DEFINE c == Chosen(U)
  <1>5. c \in U /\ U \ {c} \in SUBSET U /\ U \ {c} # U
    BY <1>4, ChosenIn
  <1>6. SumFunctionOnSet(f, U \ {c}) = SumFunctionOnSet(g, U \ {c})
    BY <1>2, <1>3, <1>5
  <1>7. /\ SumFunctionOnSet(f, U) = f[c] + SumFunctionOnSet(f, U \ {c})
        /\ SumFunctionOnSet(g, U) = g[c] + SumFunctionOnSet(g, U \ {c})
    BY <1>3, <1>4, SumStep
  <1>8. QED BY <1>3, <1>5, <1>6, <1>7

\* A sum of numbers is no less than each of them.
LEMMA SumAtLeast ==
  ASSUME NEW f, NEW S, IsFiniteSet(S), \A y \in S : f[y] \in Nat, NEW x \in S
  PROVE  f[x] <= SumFunctionOnSet(f, S)
  <1>1. SumFunctionOnSet(f, S) = f[x] + SumFunctionOnSet(f, S \ {x})
    BY SumRemove
  <1>2. IsFiniteSet(S \ {x})
    BY FS_RemoveElement
  <1>3. SumFunctionOnSet(f, S \ {x}) \in Nat
    BY <1>2, SumNat
  <1>4. QED BY <1>1, <1>3

\* Changing one of the numbers changes the sum by as much.
LEMMA SumChange ==
  ASSUME NEW f, NEW g, NEW S, IsFiniteSet(S), NEW x \in S,
         \A y \in S : f[y] \in Nat /\ g[y] \in Nat,
         \A y \in S \ {x} : f[y] = g[y]
  PROVE  SumFunctionOnSet(g, S) + f[x] = SumFunctionOnSet(f, S) + g[x]
  <1> DEFINE T == S \ {x}
  <1>1. IsFiniteSet(T)
    BY FS_RemoveElement
  <1>2. SumFunctionOnSet(f, S) = f[x] + SumFunctionOnSet(f, T)
    BY SumRemove
  <1>3. SumFunctionOnSet(g, S) = g[x] + SumFunctionOnSet(g, T)
    BY SumRemove
  <1>4. SumFunctionOnSet(f, T) = SumFunctionOnSet(g, T) /\ SumFunctionOnSet(f, T) \in Nat
    <2>1. \A y \in T : f[y] = g[y] /\ f[y] \in Nat
      OBVIOUS
    <2> HIDE DEF T
    <2>2. QED BY <1>1, <2>1, SumSame, SumNat
  <1> HIDE DEF T
  <1>5. QED BY <1>2, <1>3, <1>4

\* Halving each of n numbers loses at most n halves of their sum.
LEMMA SumHalves ==
  ASSUME NEW f, NEW g, NEW S, IsFiniteSet(S),
         \A y \in S : f[y] \in Nat /\ g[y] \in Nat /\ f[y] <= 2 * g[y] + 1
  PROVE  SumFunctionOnSet(f, S) <= 2 * SumFunctionOnSet(g, S) + Cardinality(S)
  <1> DEFINE Good(U) == SumFunctionOnSet(f, U) <= 2 * SumFunctionOnSet(g, U) + Cardinality(U)
             C == {U \in SUBSET S : ~Good(U)}
  <1>1. SUFFICES ASSUME C # {} PROVE FALSE
    OBVIOUS
  <1>2. PICK U \in C : \A V \in SUBSET U : V # U => V \notin C
    <2>1. C \subseteq SUBSET S
      OBVIOUS
    <2> HIDE DEF C
    <2>2. QED BY <1>1, <2>1, LeastSubset
  <1>3. U \in SUBSET S /\ IsFiniteSet(U) /\ ~Good(U)
    BY FS_Subset
  <1>4. CASE U = {}
    <2>1. SumFunctionOnSet(f, {}) = 0 /\ SumFunctionOnSet(g, {}) = 0 /\ Cardinality({}) = 0
      BY SumStep, FS_EmptySet
    <2>2. QED BY <2>1, <1>3, <1>4
  <1>5. CASE U # {}
    <2>1. PICK x \in U : TRUE
      BY <1>5
    <2> DEFINE V == U \ {x}
    <2>2. /\ V \in SUBSET U /\ V # U /\ IsFiniteSet(V)
          /\ Cardinality(V) = Cardinality(U) - 1
      BY <1>3, FS_RemoveElement
    <2>3. Cardinality(U) \in Nat
      BY <1>3, FS_CardinalityType
    <2>4. SumFunctionOnSet(f, U) = f[x] + SumFunctionOnSet(f, V)
      BY <1>3, SumRemove
    <2>5. SumFunctionOnSet(g, U) = g[x] + SumFunctionOnSet(g, V)
      BY <1>3, SumRemove
    <2> HIDE DEF V
    <2>6. Good(V)
      BY <1>2, <1>3, <2>2
    <2>7. SumFunctionOnSet(f, V) \in Nat /\ SumFunctionOnSet(g, V) \in Nat
      BY <1>3, <2>2, SumNat
    <2>8. f[x] \in Nat /\ g[x] \in Nat /\ f[x] <= 2 * g[x] + 1
      BY <1>3
    <2>9. QED BY <1>3, <2>2, <2>3, <2>4, <2>5, <2>6, <2>7, <2>8
  <1>6. QED BY <1>4, <1>5
=============================================================================
