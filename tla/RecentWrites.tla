---------------------------- MODULE RecentWrites ----------------------------
(***************************************************************************)
(* What aesd-circular-buffer promises its callers: it remembers the most   *)
(* recent writes, at most Capacity of them, oldest first, and tells for a  *)
(* position in their concatenation which write holds it, and where.        *)
(***************************************************************************)
EXTENDS Integers, SequencesExt

CONSTANTS
  Capacity,   \* how many writes are remembered
  Write       \* the writes: records with a size field

VARIABLE log

Init == log = << >>

(* A new write is remembered last; beyond Capacity the oldest is forgotten. *)
Remember(w) ==
  log' = Append(IF Len(log) = Capacity THEN Tail(log) ELSE log, w)

Next == \E w \in Write : Remember(w)

Spec == Init /\ [][Next]_log

-----------------------------------------------------------------------------
(* All buffer strings concatenated end to end, each byte named by the write *)
(* it belongs to (numbered from 1) and its zero-based place in that write.  *)
Concatenation ==
  FlattenSeq([k \in DOMAIN log |-> [b \in 1 .. log[k].size |-> <<k, b - 1>>]])

=============================================================================
