------------------------------ MODULE MCExamples ------------------------------
(* A program that uses either the threading or the system call example: the *)
(* one it begins with, while the other stays as it was at the start.        *)
EXTENDS Threading, SystemCalls

ThreadingUnused   == mutex = Nobody /\ \A t \in Thread : start[t] = "none"
SystemCallsUnused == calls = 0 /\ pc[Main] = "user"

Either ==
  \/ SystemCallsUnused /\ ThreadingNext /\ UNCHANGED vars
  \/ ThreadingUnused /\ Next /\ UNCHANGED threadVars

MCInit == ThreadingInit /\ Init

MCSpec ==
  /\ MCInit
  /\ [][Either]_<<threadVars, vars>>
  /\ ThreadingFairness /\ Fairness

=============================================================================
