------------------------------- MODULE Sketch -------------------------------
(***************************************************************************)
(* CountMinSketch of src/src/tinylfu.rs: rows of small counters.  Each key *)
(* has one cell in every row and its estimate is the least of its cells.   *)
(* A cell may be shared, so estimates can be too high.  Once per sample    *)
(* window all counters are halved.                                         *)
(*                                                                         *)
(* A sketch is [counters, samples]; counters[d][c] is the cell at column c *)
(* of row d, counters[d * width + c] in the code.                          *)
(***************************************************************************)
EXTENDS Naturals

CONSTANTS Row,          \* 0..SKETCH_DEPTH - 1
          Width,        \* width
          Column,       \* Column[d][k] is hash_with_seed(k, d) % width
          CounterMax,   \* u8::MAX
          SampleWindow  \* sample_window

ASSUME SketchAssumption ==
  /\ Row # {}
  /\ Width \in Nat \ {0}
  /\ \A d \in Row : \A k \in DOMAIN Column[d] : Column[d][k] \in 0..(Width - 1)
  /\ CounterMax \in Nat \ {0}
  /\ SampleWindow \in Nat /\ SampleWindow > 1

EmptySketch ==
  [counters |-> [d \in Row |-> [c \in 0..(Width - 1) |-> 0]], samples |-> 0]

\* Every counter and the window start afresh.
reset == EmptySketch

\* slot.saturating_add(1)
SatInc(n) == IF n < CounterMax THEN n + 1 ELSE n

estimate(s, k) ==
  LET observed == {s.counters[d][Column[d][k]] : d \in Row}
  IN CHOOSE m \in observed : \A n \in observed : m <= n

\* Mutant: nothing is halved.
age_nothing(counters) == counters

age(counters) == [d \in Row |-> [c \in 0..(Width - 1) |-> counters[d][c] \div 2]]

\* Mutant: a window holds one sample more.
Ages_late(s) == s.samples >= SampleWindow

\* Whether the next increment completes a sample window.
Ages(s) == s.samples + 1 >= SampleWindow

increment(s, k) ==
  LET counted == [d \in Row |-> [s.counters[d] EXCEPT ![Column[d][k]] = SatInc(@)]]
  IN IF Ages(s) THEN [counters |-> age(counted), samples |-> 0]
     ELSE [counters |-> counted, samples |-> s.samples + 1]
=============================================================================
