---------------------------- MODULE SketchSizing ----------------------------
(***************************************************************************)
(* The sketch that TinyLfuCache builds for each shard, CountMinSketch::new *)
(* and CountMinSketch::cell of src/src/tinylfu.rs, with the arithmetic of  *)
(* usize.  A cell outside of counters would be read as 0 and never         *)
(* written, without any error.                                             *)
(***************************************************************************)
EXTENDS ShardSizing

CONSTANT UsizeBits    \* usize::BITS

\* The powers of two up to 2^UsizeBits.
PowerOfTwo[n \in 0..UsizeBits] == IF n = 0 THEN 1 ELSE 2 * PowerOfTwo[n - 1]

\* Rust has no usize of fewer than 16 bits; from 9 bits on the smallest sketch
\* can be indexed.
ASSUME BitsAssumption ==
  /\ UsizeBits \in Nat \ {0}
  /\ UsizeMax = PowerOfTwo[UsizeBits] - 1 /\ UsizeMax >= 511

SKETCH_DEPTH == 4

MIN_SKETCH_WIDTH == 64

AtLeast(x, y) == IF x < y THEN y ELSE x

\* usize::saturating_mul; usize and u64 are of the same width.
SatMul(x, y) == IF x * y > UsizeMax THEN UsizeMax ELSE x * y

\* 0 where the result does not fit, as in a build without overflow checks.
next_power_of_two(x) ==
  LET powers == {p \in {PowerOfTwo[n] : n \in 0..(UsizeBits - 1)} : p >= x}
  IN IF powers = {} THEN 0 ELSE CHOOSE p \in powers : \A q \in powers : p <= q

\* The sketch of a shard of the given capacity.
NewSketch(cap) ==
  LET width == next_power_of_two(AtLeast(SatMul(cap, 2), MIN_SKETCH_WIDTH))
  IN [width |-> width,
      cells |-> SatMul(width, SKETCH_DEPTH),
      sample_window |-> AtLeast(SatMul(cap, 10), 64)]

\* The index into counters of column col in row d.
cell(s, d, col) ==
  LET start == SatMul(d, s.width) IN IF start + col > UsizeMax THEN UsizeMax ELSE start + col

\* Since a large capacity is always split over DEFAULT_SHARDS shards, no product
\* or power of two in the sketch of a shard overflows, for any capacity: each row
\* has two cells for every entry, the rows do not overlap, every cell is within
\* counters and a sample window is ten accesses per entry.
SketchFits ==
  pc = "done" =>
    LET s == NewSketch(per_shard) IN
      /\ s.width >= 2 * per_shard /\ s.width > 0
      /\ \A d \in 1..(SKETCH_DEPTH - 1) : cell(s, d - 1, s.width - 1) < cell(s, d, 0)
      /\ cell(s, SKETCH_DEPTH - 1, s.width - 1) < s.cells
      /\ s.sample_window >= 10 * per_shard /\ s.sample_window > 1
=============================================================================
