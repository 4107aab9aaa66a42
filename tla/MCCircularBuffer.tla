-------------------------- MODULE MCCircularBuffer --------------------------
(* The ring on its own, small enough for every reachable content.           *)
EXTENDS CircularBuffer

MCEntrySizes == {1, 2}
MCStrayWords == {0, 3}

=============================================================================
