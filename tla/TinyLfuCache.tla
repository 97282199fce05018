---------------------------- MODULE TinyLfuCache ----------------------------
(***************************************************************************)
(* One shard of TinyLfuCache, src/src/tinylfu.rs: the arena, map and list  *)
(* of an LRU shard, whose code it repeats, and a sketch that counts every  *)
(* get and insert.  At capacity a new key is admitted only if its estimate *)
(* exceeds that of the tail.                                               *)
(*                                                                         *)
(* hits is a history variable: how often each key was counted since the    *)
(* last clear, halved whenever the sketch is and no higher than a counter  *)
(* goes.  No action reads it.                                              *)
(***************************************************************************)
EXTENDS LruCache, Sketch, Functions

ASSUME ColumnAssumption == \A d \in Row : DOMAIN Column[d] = Key

VARIABLES sketch,   \* sketch: CountMinSketch
          hits      \* history: what an exact count of each key would be

tinyVars == << arena, map, order, reply, sketch, hits >>

TinyInit ==
  /\ Init
  /\ sketch = EmptySketch
  /\ hits = [k \in Key |-> 0]

\* sketch.increment(key), before anything else under the lock.
Count(k) ==
  /\ sketch' = increment(sketch, k)
  /\ hits' = LET counted == [hits EXCEPT ![k] = SatInc(@)]
             IN IF Ages(sketch) THEN [x \in Key |-> counted[x] \div 2] ELSE counted

TinyGet(k) == Count(k) /\ Get(k)

TinyReplace(k, v) == Count(k) /\ Replace(k, v)

AtCapacity == Cardinality(DOMAIN map) >= Capacity

\* The key insert compares the candidate with.
VictimKey == arena.nodes[arena.tail].item.key

\* Mutant: a tie is enough.
Admitted_tie(k) == arena.tail # None /\ estimate(sketch', k) >= estimate(sketch', VictimKey)

Admitted(k) == arena.tail # None /\ estimate(sketch', k) > estimate(sketch', VictimKey)

\* insert of a new key that there is room for or that the filter lets in.
TinyAdd(k, v) ==
  /\ Count(k)
  /\ AtCapacity => Admitted(k)
  /\ Add(k, v)

\* Mutant: the victim goes before the two are compared.
TinyReject_evicting(k) ==
  /\ Count(k)
  /\ k \notin DOMAIN map
  /\ AtCapacity /\ ~Admitted(k)
  /\ arena' = RoomyArena /\ map' = RoomyMap /\ order' = RoomyOrder
  /\ reply' = << "insert", "none", k >>

\* insert of a new key that is turned away, or that ends where the key of the
\* victim is cloned.
TinyReject(k) ==
  /\ Count(k)
  /\ k \notin DOMAIN map
  /\ AtCapacity
  /\ \/ ~Admitted(k) /\ reply' = << "insert", "none", k >>
     \/ arena.tail # None /\ reply' = << "insert", "panicked", k >>
  /\ UNCHANGED << arena, map, order >>

TinyRemove(k) == Remove(k) /\ UNCHANGED << sketch, hits >>

TinyContainsKey(k) == ContainsKey(k) /\ UNCHANGED << sketch, hits >>

TinySize == Size /\ UNCHANGED << sketch, hits >>

TinyClear ==
  /\ Clear
  /\ sketch' = reset
  /\ hits' = [k \in Key |-> 0]

TinyNext ==
  \/ \E k \in Key : TinyGet(k) \/ TinyReject(k) \/ TinyRemove(k) \/ TinyContainsKey(k)
  \/ \E k \in Key, v \in Value : TinyReplace(k, v) \/ TinyAdd(k, v)
  \/ TinySize \/ TinyClear

TinySpec == TinyInit /\ [][TinyNext]_tinyVars
-----------------------------------------------------------------------------
\* The shard has its types, counters are u8 and no sample window runs over.
TinyTypeOK ==
  /\ TypeOK
  /\ sketch.samples \in 0..(SampleWindow - 1)
  /\ \A d \in Row : sketch.counters[d] \in [0..(Width - 1) -> 0..CounterMax]
  /\ hits \in [Key -> 0..CounterMax]

\* The keys whose cell in row d is the one of k.
Sharing(d, k) == {x \in Key : Column[d][x] = Column[d][k]}

\* However accesses, agings and clears follow one another, the sketch never
\* underestimates a key, and it overestimates it by no more than the accesses
\* of the keys that share its cell in any one row, give or take the halves that
\* aging rounds off.
EstimateIsClose ==
  \A k \in Key :
    /\ hits[k] <= estimate(sketch, k)
    /\ \A d \in Row : estimate(sketch, k) <=
         SumFunctionOnSet(hits, Sharing(d, k)) + Cardinality(Sharing(d, k)) - 1

\* An entry only gives way to a new key whose estimate is higher than the
\* number of times the entry was accessed, and the estimate of a key that the
\* filter turns away is no higher than the estimate of the tail.
FilterKeepsPopular ==
  [][reply'[1] = "insert" =>
       /\ \A k \in DOMAIN map \ DOMAIN map' : hits'[k] < estimate(sketch', reply'[3])
       /\ reply'[2] = "none" /\ reply'[3] \notin DOMAIN map' =>
            estimate(sketch', reply'[3]) <= estimate(sketch', VictimKey)]_tinyVars

\* A key that differs from every other key in the cell of some row.
ToldApart(k) == \A x \in Key \ {k} : \E d \in Row : Column[d][x] # Column[d][k]

\* A step that counts an access of another key than k.
CountsOther(k) == sketch' # sketch /\ Len(reply') > 2 /\ reply'[3] # k

InsertsKey(k) == reply'[1] = "insert" /\ reply'[3] = k /\ reply'[2] # "panicked"

\* No key is turned away for ever: when only k is still accessed, and is inserted
\* again and again, aging wears down the estimate of whichever entry is the tail
\* until k gets in, whatever else is removed, cleared or looked at meanwhile.
EventuallyAdmitted ==
  \A k \in {x \in Key : ToldApart(x)} :
    <>[][~CountsOther(k)]_tinyVars /\ []<><<InsertsKey(k)>>_tinyVars
      => []<>(k \in DOMAIN map)

Filtered == INSTANCE TinyLfuPolicy WITH
  entries <- [k \in DOMAIN map |-> arena.nodes[map[k]].item.value],
  recency <- [p \in 1..Len(order) |-> arena.nodes[order[p]].item.key]

\* Every operation, with what it returns, is one of an LRU cache that may turn a
\* new key away when it is full; a rejected key costs no entry and moves none.
ImplementsFiltered == Filtered!FilteredSpec
=============================================================================
