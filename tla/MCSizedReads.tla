--------------------------- MODULE MCSizedReads ---------------------------
(***************************************************************************)
(* SizedCache with a record of what was stored: written holds, for each    *)
(* key, the value of the last insert that accepted one.                    *)
(***************************************************************************)
EXTENDS MCSizedCache

VARIABLE written

Stored == reply'[1] = "insert" /\ reply'[2] \in {"some", "none"}

InitReads == Init /\ written = EmptyMap

NextReads ==
  /\ Next
  /\ written' = IF call # Idle /\ call' = Idle /\ Stored
                THEN [k \in DOMAIN written \cup {call.key} |->
                        IF k = call.key THEN call.value ELSE written[k]]
                ELSE written

SpecReads == InitReads /\ [][NextReads]_<< vars, written >>

\* A get that finds a value returns the value of the most recent insert of that
\* key ("every value stored matches the most recent `insert` for that key",
\* src/tests/properties.rs:5-7).
GetReturnsLastWrite ==
  reply[1] = "get" /\ reply[2] = "some" => reply[4] = written[reply[3]]

\* No call runs into an unreachable!() arm ("every public method is panic-free
\* given valid arguments", src/src/lib.rs:27-28).
NeverUnreachable == reply[2] # "unreachable"
=============================================================================
