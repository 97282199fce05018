----------------------------- MODULE LfuPanics -----------------------------
(***************************************************************************)
(* LfuCache where the Clone of a value or a key may panic under the lock.  *)
(* The panic poisons the Mutex, lock_recover (src/src/util.rs) hands the   *)
(* next caller the shard as the panic left it.                             *)
(***************************************************************************)
EXTENDS LfuCache

\* entry.value.clone() comes after the entry is counted up and before the index
\* follows, key.clone() between the removal of the old place in the index and
\* the insertion of the new one.
GetPanics(k) ==
  /\ clock < MaxClock
  /\ k \in DOMAIN map
  /\ clock' = tick
  /\ map' = With(map, k, Touched(map[k], map[k].value))
  /\ by_priority' \in {by_priority, Less(by_priority, Priority(map[k]))}
  /\ order' = ToFront(order, k)
  /\ reply' = << "get", "panicked", k >>

\* key.clone() comes after the eviction, before either structure grows.
AddPanics(k) ==
  /\ clock < MaxClock
  /\ k \notin DOMAIN map
  /\ clock' = tick
  /\ map' = RoomyMap
  /\ by_priority' = RoomyIndex
  /\ order' = RoomyOrder
  /\ reply' = << "insert", "panicked", k >>

NextPanics == Next \/ \E k \in Key : GetPanics(k) \/ AddPanics(k)

SpecPanics == Init /\ [][NextPanics]_vars
=============================================================================
