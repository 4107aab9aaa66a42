------------------------- MODULE MCAesdSocketThreads -------------------------
(* The server's main program with a few connections and signals.            *)
EXTENDS AesdSocketThreads

=============================================================================
