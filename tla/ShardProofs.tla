---------------------------- MODULE ShardProofs ----------------------------
(***************************************************************************)
(* The arithmetic of sharding, for every capacity a usize can hold, and of *)
(* the sketch of a shard, for every width of usize.                        *)
(***************************************************************************)
EXTENDS SketchSizing, ArenaProofs

\* What each doubling keeps: the shards made so far would hold MIN_PER_SHARD
\* entries each, and the loop only ends where one more doubling is not allowed.
IInv ==
  /\ TypeOK
  /\ pc \in {"count", "split", "done", "sized"} => capacity > 0
  /\ pc \in {"new", "new_sized", "sized", InvalidCapacity} => shards = 1
  /\ shards > 1 => shards * MIN_PER_SHARD <= capacity
  /\ pc \in {"split", "done"} /\ shards < DEFAULT_SHARDS => capacity < 2 * shards * MIN_PER_SHARD
  /\ pc = "done" => per_shard >= 1 /\ per_shard = capacity \div shards
  /\ pc = "sized" => per_shard = capacity

\* Integer division by each shard count the loop can produce: the remainder is
\* smaller than the divisor.
LEMMA DivFacts ==
  ASSUME NEW c \in Nat, NEW s \in {1, 2, 4, 8, 16}
  PROVE  /\ c \div s \in Nat
         /\ s * (c \div s) <= c
         /\ c - s * (c \div s) <= s - 1
  <1>1. CASE s = 1 BY <1>1
  <1>2. CASE s = 2 BY <1>2
  <1>3. CASE s = 4 BY <1>3
  <1>4. CASE s = 8 BY <1>4
  <1>5. CASE s = 16 BY <1>5
  <1>6. QED BY <1>1, <1>2, <1>3, <1>4, <1>5

\* One shard is always allowed.
LEMMA InitIInv == Init => IInv
  BY UsizeAssumption
  DEF Init, IInv, TypeOK, SatMul2, MIN_PER_SHARD, DEFAULT_SHARDS, InvalidCapacity

\* A doubling, the end of the loop and the split keep the invariant.
LEMMA NextIInv == IInv /\ [Next]_vars => IInv'
  <1> SUFFICES ASSUME IInv, [Next]_vars PROVE IInv'
    OBVIOUS
  <1> USE UsizeAssumption DEF MIN_PER_SHARD, DEFAULT_SHARDS, InvalidCapacity
  <1>0. capacity \in Nat /\ shards \in {1, 2, 4, 8, 16}
    BY DEF IInv, TypeOK
  <1>1. CASE Double
    <2>1. SatMul2(shards) <= capacity \div 16 /\ SatMul2(shards) <= 16
      BY <1>1 DEF Double, MayDouble
    <2>2. shards # 16
      <3>1. SUFFICES ASSUME shards = 16 PROVE FALSE
        OBVIOUS
      <3>2. SatMul2(shards) = 32
        BY <3>1 DEF SatMul2
      <3>3. QED BY <2>1, <3>1, <3>2
    <2>3. shards' = 2 * shards
      BY <1>0, <1>1, <2>2 DEF Double, SatMul2
    <2>4. 16 * (capacity \div 16) <= capacity /\ capacity \div 16 \in Nat
      BY <1>0, DivFacts
    <2>5. shards' * 16 <= capacity
      BY <1>0, <2>1, <2>3, <2>4, <1>1 DEF Double
    <2>6. shards' \in {2, 4, 8, 16}
      BY <1>0, <2>2, <2>3
    <2>7. QED BY <2>5, <2>6, <1>1 DEF Double, IInv, TypeOK
  <1>2. CASE Counted
    <2>1. shards < 16 => capacity < 2 * shards * 16
      <3>1. SUFFICES ASSUME shards < 16 PROVE capacity < 2 * shards * 16
        OBVIOUS
      <3>2. SatMul2(shards) = 2 * shards /\ 2 * shards <= 16
        BY <1>0, <3>1 DEF SatMul2
      <3>3. 2 * shards > capacity \div 16
        <4>1. ~(SatMul2(shards) <= capacity \div 16)
          BY <3>2, <1>2 DEF Counted, MayDouble
        <4>2. capacity \div 16 \in Nat
          BY <1>0, DivFacts
        <4>3. QED BY <4>1, <4>2, <3>2, <1>0
      <3>4. capacity - 16 * (capacity \div 16) <= 15 /\ capacity \div 16 \in Nat
        BY <1>0, DivFacts
      <3>5. QED BY <3>3, <3>4, <1>0
    <2>2. QED BY <2>1, <1>2 DEF Counted, IInv, TypeOK
  <1>3. CASE Split
    <2> DEFINE per == capacity \div shards
    <2>1. per \in Nat /\ shards * per <= capacity /\ capacity - shards * per <= shards - 1
      BY <1>0, DivFacts
    <2>2. per >= 1
      <3>1. capacity >= shards
        BY <1>0, <1>3 DEF Split, IInv, TypeOK
      <3>2. per # 0
        BY <3>1, <2>1, <1>0
      <3>3. QED BY <3>2, <2>1
    <2>3. per_shard' = per /\ pc' = "done" /\ UNCHANGED << capacity, shards >>
      BY <2>1, <2>2, <1>3 DEF Split
    <2> HIDE DEF per
    <2>4. per_shard' = (capacity \div shards)'
      BY <2>3 DEF per
    <2>5. pc = "split"
      BY <1>3 DEF Split
    <2>6. QED BY <2>1, <2>2, <2>3, <2>4, <2>5 DEF IInv, TypeOK
  <1>4. CASE Done \/ UNCHANGED vars
    BY <1>4 DEF Done, vars, IInv, TypeOK
  <1>5. CASE Invalid \/ WithCapacity
    BY <1>5 DEF Invalid, WithCapacity, IInv, TypeOK, SatMul2
  <1>6. CASE WithMaxWeight
    BY <1>6 DEF WithMaxWeight, IInv, TypeOK
  <1>7. QED BY <1>1, <1>2, <1>3, <1>4, <1>5, <1>6 DEF Next, Construct

\* The invariant contains what the checks state.
LEMMA IInvImplies == IInv => TypeOK /\ SplitIsTight /\ ShardsAreWorthwhile
  <1> SUFFICES ASSUME IInv PROVE TypeOK /\ SplitIsTight /\ ShardsAreWorthwhile
    OBVIOUS
  <1> USE DEF MIN_PER_SHARD, DEFAULT_SHARDS
  <1>0. capacity \in Nat /\ shards \in {1, 2, 4, 8, 16} /\ TypeOK
    BY DEF IInv, TypeOK
  <1> DEFINE per == capacity \div shards
  <1>1. per \in Nat /\ shards * per <= capacity /\ capacity - shards * per <= shards - 1
    BY <1>0, DivFacts
  <1>2. pc = "done" => per_shard = per /\ per_shard >= 1
    BY DEF IInv
  <1> HIDE DEF per
  <1>3. SplitIsTight
    <2>1. CASE pc = "sized"
      BY <1>0, <2>1 DEF SplitIsTight, IInv
    <2>2. CASE pc # "sized"
      BY <1>1, <1>2, <2>2 DEF SplitIsTight
    <2>3. QED BY <2>1, <2>2
  <1>4. shards > 1 => per >= 16
    BY <1>0, <1>1 DEF IInv
  <1>5. ShardsAreWorthwhile
    BY <1>2, <1>4 DEF ShardsAreWorthwhile, IInv
  <1>6. QED BY <1>0, <1>3, <1>5

\* For every capacity the shard count is a power of two up to DEFAULT_SHARDS.
THEOREM CountIsPowerOfTwo == Spec => []TypeOK
  BY InitIInv, NextIInv, IInvImplies, PTL DEF Spec

\* For every capacity the shards together hold at most that many entries and at
\* most shards - 1 fewer, so a per-shard capacity bound gives the documented one.
THEOREM SplitIsAlwaysTight == Spec => []SplitIsTight
  BY InitIInv, NextIInv, IInvImplies, PTL DEF Spec

\* For every capacity, shards are as many as allowed and none is too small.
THEOREM ShardsAreAlwaysWorthwhile == Spec => []ShardsAreWorthwhile
  BY InitIInv, NextIInv, IInvImplies, PTL DEF Spec
-----------------------------------------------------------------------------
\* The recursion of the powers of two has a solution: were there a least bound
\* up to which it had none, the one below could be continued by a doubling.
LEMMA PowersExist ==
  \E g : g = [n \in 0..UsizeBits |-> IF n = 0 THEN 1 ELSE 2 * g[n - 1]]
  <1> DEFINE Solved(m) == \E g : g = [n \in 0..m |-> IF n = 0 THEN 1 ELSE 2 * g[n - 1]]
             Bad == {m \in Nat : ~Solved(m)}
  <1>1. SUFFICES ASSUME Bad # {} PROVE FALSE
    BY BitsAssumption
  <1>2. PICK m \in Bad : \A n \in Bad : m <= n
    <2>1. Bad \subseteq Nat
      OBVIOUS
    <2> HIDE DEF Bad
    <2>2. QED BY <1>1, <2>1, LeastNat
  <1>3. m \in Nat /\ ~Solved(m)
    OBVIOUS
  <1>4. CASE m = 0
    <2> DEFINE g == [n \in 0..m |-> 1]
    <2>1. g = [n \in 0..m |-> IF n = 0 THEN 1 ELSE 2 * g[n - 1]]
      BY <1>4
    <2>2. QED BY <1>3, <2>1
  <1>5. CASE m # 0
    <2>1. m - 1 \in Nat /\ m - 1 \notin Bad
      <3> HIDE DEF Bad
      <3>1. QED BY <1>2, <1>3, <1>5
    <2>2. PICK g : g = [n \in 0..(m - 1) |-> IF n = 0 THEN 1 ELSE 2 * g[n - 1]]
      BY <2>1
    <2> DEFINE h == [n \in 0..m |-> IF n = 0 THEN 1 ELSE 2 * g[n - 1]]
    <2>3. \A n \in 0..(m - 1) : h[n] = g[n]
      BY <1>3, <2>2
    <2>4. \A n \in 0..m : n # 0 => n - 1 \in 0..(m - 1)
      BY <1>3
    <2>5. h = [n \in 0..m |-> IF n = 0 THEN 1 ELSE 2 * h[n - 1]]
      BY <2>3, <2>4
    <2>6. QED BY <1>3, <2>5
  <1>6. QED BY <1>4, <1>5

\* Each power of two doubles the one before it.
LEMMA PowerFacts ==
  /\ PowerOfTwo[0] = 1
  /\ \A n \in 1..UsizeBits : PowerOfTwo[n] = 2 * PowerOfTwo[n - 1]
  /\ \A n \in 0..UsizeBits : PowerOfTwo[n] \in Nat \ {0}
  <1> USE BitsAssumption
  <1>1. PowerOfTwo = [n \in 0..UsizeBits |-> IF n = 0 THEN 1 ELSE 2 * PowerOfTwo[n - 1]]
    BY PowersExist DEF PowerOfTwo
  <1>2. PowerOfTwo[0] = 1 /\ \A n \in 1..UsizeBits : PowerOfTwo[n] = 2 * PowerOfTwo[n - 1]
    BY <1>1
  <1> DEFINE Bad == {n \in 0..UsizeBits : PowerOfTwo[n] \notin Nat \ {0}}
  <1>3. Bad = {}
    <2>1. SUFFICES ASSUME Bad # {} PROVE FALSE
      OBVIOUS
    <2>2. PICK m \in Bad : \A n \in Bad : m <= n
      <3>1. Bad \subseteq Nat
        OBVIOUS
      <3> HIDE DEF Bad
      <3>2. QED BY <2>1, <3>1, LeastNat
    <2>3. m # 0 /\ m \in 1..UsizeBits
      BY <1>2
    <2>4. m - 1 \in 0..UsizeBits /\ m - 1 \notin Bad
      <3>1. m - 1 \in 0..UsizeBits /\ ~(m <= m - 1)
        BY <2>3
      <3> HIDE DEF Bad
      <3>2. QED BY <2>2, <3>1
    <2>5. PowerOfTwo[m - 1] \in Nat \ {0}
      BY <2>4
    <2>6. PowerOfTwo[m] = 2 * PowerOfTwo[m - 1]
      BY <1>2, <2>3
    <2>7. QED BY <2>5, <2>6
  <1>4. QED BY <1>2, <1>3

\* next_power_of_two of a number in the lower half of a usize fits: it is at
\* least that number and less than twice as much.
LEMMA NextPowerFacts ==
  ASSUME NEW x \in Nat, x > 1, 2 * x <= UsizeMax + 1
  PROVE  LET p == next_power_of_two(x) IN p \in Nat /\ x <= p /\ p < 2 * x
  <1> DEFINE Base == {PowerOfTwo[n] : n \in 0..(UsizeBits - 1)}
             powers == {p \in Base : p >= x}
             Least(p) == \A q \in powers : p <= q
  <1> USE BitsAssumption
  <1>1. powers \subseteq Nat
    BY PowerFacts
  <1>2. powers # {}
    <2> DEFINE top == PowerOfTwo[UsizeBits - 1]
    <2>1. UsizeBits - 1 \in 0..(UsizeBits - 1) /\ UsizeBits \in 1..UsizeBits
      OBVIOUS
    <2>2. top \in Nat /\ PowerOfTwo[UsizeBits] = 2 * top
      BY <2>1, PowerFacts
    <2>3. top >= x
      BY <2>2
    <2>4. QED BY <2>1, <2>3
  <1> HIDE DEF powers
  <1>3. \E p \in powers : Least(p)
    BY <1>1, <1>2, LeastNat
  <1> DEFINE p == CHOOSE p \in powers : Least(p)
  <1>4. p \in powers /\ Least(p)
    BY <1>3
  <1>5. next_power_of_two(x) = p
    BY <1>2 DEF next_power_of_two, powers
  <1> HIDE DEF p
  <1>6. p \in Nat /\ x <= p
    BY <1>1, <1>4 DEF powers
  <1>7. p < 2 * x
    <2>1. PICK n \in 0..(UsizeBits - 1) : p = PowerOfTwo[n]
      BY <1>4 DEF powers
    <2>2. n # 0
      BY <1>6, <2>1, PowerFacts
    <2>3. n \in 1..UsizeBits /\ n - 1 \in 0..(UsizeBits - 1)
      BY <2>1, <2>2
    <2> DEFINE half == PowerOfTwo[n - 1]
    <2>4. p = 2 * half /\ half \in Nat \ {0} /\ half \in Base
      BY <2>1, <2>3, PowerFacts
    <2> HIDE DEF half, Base
    <2>5. half >= x => p <= half
      BY <1>4, <2>4 DEF powers
    <2>6. QED BY <2>4, <2>5
  <1>8. QED BY <1>5, <1>6, <1>7

\* The sketch of a shard that holds few entries, or a sixteenth of a usize.
LEMMA SketchFacts ==
  ASSUME NEW cap \in Nat, cap >= 1, cap <= 32 \/ 16 * cap <= UsizeMax
  PROVE  LET s == NewSketch(cap) IN
         /\ s.width \in Nat /\ s.width >= 2 * cap /\ s.width > 0
         /\ 4 * s.width <= UsizeMax /\ s.cells = 4 * s.width
         /\ s.sample_window >= 10 * cap /\ s.sample_window > 1
  <1> DEFINE x == AtLeast(SatMul(cap, 2), 64)
             p == next_power_of_two(x)
  <1>0. UsizeMax \in Nat /\ UsizeMax >= 511
    BY BitsAssumption, UsizeAssumption
  <1>1. x \in Nat /\ x >= 2 * cap /\ x >= 64 /\ 8 * x <= UsizeMax + 1
    BY <1>0 DEF SatMul, AtLeast
  <1> HIDE DEF x
  <1>2. p \in Nat /\ x <= p /\ p < 2 * x
    BY <1>0, <1>1, NextPowerFacts
  <1>3. NewSketch(cap) = [width |-> p, cells |-> SatMul(p, 4),
                          sample_window |-> AtLeast(SatMul(cap, 10), 64)]
    BY DEF NewSketch, MIN_SKETCH_WIDTH, SKETCH_DEPTH, x
  <1> HIDE DEF p
  <1>4. 4 * p <= UsizeMax
    BY <1>0, <1>1, <1>2
  <1>5. SatMul(p, 4) = 4 * p
    BY <1>0, <1>2, <1>4 DEF SatMul
  <1>6. /\ AtLeast(SatMul(cap, 10), 64) >= 10 * cap
        /\ AtLeast(SatMul(cap, 10), 64) > 1
    BY <1>0 DEF SatMul, AtLeast
  <1>7. QED BY <1>1, <1>2, <1>3, <1>4, <1>5, <1>6

\* Where the cells of a sketch that fits lie.
LEMMA CellFacts ==
  ASSUME NEW s, s.width \in Nat, s.width > 0, 4 * s.width <= UsizeMax,
         NEW d \in 0..3, NEW col \in 0..(s.width - 1)
  PROVE  cell(s, d, col) = d * s.width + col
  <1> DEFINE w == s.width
  <1>0. UsizeMax \in Nat /\ w \in Nat /\ 4 * w <= UsizeMax /\ w > 0 /\ col \in 0..(w - 1)
    BY UsizeAssumption
  <1>1. cell(s, d, col) = LET start == SatMul(d, w) IN
                            IF start + col > UsizeMax THEN UsizeMax ELSE start + col
    BY DEF cell
  <1> HIDE DEF w
  <1>2. SatMul(d, w) = d * w /\ d * w + col <= UsizeMax /\ d * w \in Nat
    <2>1. CASE d = 0 BY <1>0, <2>1 DEF SatMul
    <2>2. CASE d = 1 BY <1>0, <2>2 DEF SatMul
    <2>3. CASE d = 2 BY <1>0, <2>3 DEF SatMul
    <2>4. CASE d = 3 BY <1>0, <2>4 DEF SatMul
    <2>5. QED BY <2>1, <2>2, <2>3, <2>4
  <1>3. cell(s, d, col) = d * w + col
    BY <1>0, <1>1, <1>2
  <1>4. QED BY <1>3 DEF w

\* For every width of usize and every capacity, the sketch of a shard fits: rows
\* of at least two cells per entry that do not overlap, within counters.
THEOREM SketchAlwaysFits == Spec => []SketchFits
  <1>1. IInv => SketchFits
    <2> SUFFICES ASSUME IInv, pc = "done" PROVE SketchFits
      BY DEF SketchFits
    <2> DEFINE s == NewSketch(per_shard)
    <2>1. /\ per_shard \in Nat /\ per_shard >= 1 /\ shards * per_shard <= capacity
          /\ shards \in {1, 2, 4, 8, 16} /\ capacity \in Nat /\ capacity <= UsizeMax
          /\ shards < 16 => capacity < 2 * shards * 16
      BY IInvImplies, UsizeAssumption
         DEF SplitIsTight, ShardsAreWorthwhile, TypeOK, MIN_PER_SHARD, DEFAULT_SHARDS
    <2>2. per_shard <= 32 \/ 16 * per_shard <= UsizeMax
      BY <2>1, UsizeAssumption
    <2>3. /\ s.width \in Nat /\ s.width >= 2 * per_shard /\ s.width > 0
          /\ 4 * s.width <= UsizeMax /\ s.cells = 4 * s.width
          /\ s.sample_window >= 10 * per_shard /\ s.sample_window > 1
      BY <2>1, <2>2, SketchFacts
    <2> HIDE DEF s
    <2>4. 0 \in 0..(s.width - 1) /\ s.width - 1 \in 0..(s.width - 1)
      BY <2>3
    <2>5. \A d \in 0..3 : /\ cell(s, d, 0) = d * s.width + 0
                          /\ cell(s, d, s.width - 1) = d * s.width + (s.width - 1)
      BY <2>3, <2>4, CellFacts
    <2>6. \A d \in 1..3 : cell(s, d - 1, s.width - 1) < cell(s, d, 0)
      <3> SUFFICES ASSUME NEW d \in 1..3 PROVE cell(s, d - 1, s.width - 1) < cell(s, d, 0)
        OBVIOUS
      <3>1. d - 1 \in 0..3 /\ d \in 0..3
        OBVIOUS
      <3>2. /\ cell(s, d - 1, s.width - 1) = (d - 1) * s.width + (s.width - 1)
            /\ cell(s, d, 0) = d * s.width + 0
        BY <2>5, <3>1
      <3>3. (d - 1) * s.width + (s.width - 1) < d * s.width + 0
        BY <2>3
      <3>4. QED BY <3>2, <3>3
    <2>7. cell(s, 3, s.width - 1) < s.cells
      <3>1. cell(s, 3, s.width - 1) = 3 * s.width + (s.width - 1)
        BY <2>5
      <3>2. QED BY <2>3, <3>1
    <2>8. QED BY <2>3, <2>6, <2>7 DEF SketchFits, SKETCH_DEPTH, s
  <1>2. QED BY <1>1, InitIInv, NextIInv, PTL DEF Spec
=============================================================================
