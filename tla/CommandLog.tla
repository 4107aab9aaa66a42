----------------------------- MODULE CommandLog -----------------------------
(***************************************************************************)
(* What /dev/aesdchar promises its users: bytes written are collected into *)
(* commands that end with a newline, and the most recent commands are kept *)
(* whole and in order.  One write contributes to at most one command.      *)
(***************************************************************************)
EXTENDS Integers, Sequences

CONSTANTS
  Capacity,   \* how many commands are kept
  Chunks,     \* what one write can add: bytes with no newline but the last
  NL,         \* the newline
  JUNK        \* the value of memory nobody has written

VARIABLES
  log,        \* the complete commands, oldest first
  pending     \* the bytes of the command not yet ended

Init == log = << >> /\ pending = << >>

(* A chunk without newline only extends the pending command. *)
Extend(c) ==
  /\ c[Len(c)] # NL
  /\ pending' = pending \o c
  /\ UNCHANGED log

(* A chunk that ends with the newline completes it; beyond Capacity the     *)
(* oldest command is forgotten.                                             *)
Complete(c) ==
  /\ c[Len(c)] = NL
  /\ log' = Append(IF Len(log) = Capacity THEN Tail(log) ELSE log, pending \o c)
  /\ pending' = << >>

(* Running out of memory costs the contents of the pending command, though  *)
(* not its length.                                                          *)
LosePending ==
  /\ pending # << >>
  /\ pending' = [i \in DOMAIN pending |-> JUNK]
  /\ UNCHANGED log

(* Removing the driver forgets everything. *)
Forget == log' = << >> /\ pending' = << >>

Next ==
  \/ \E c \in Chunks : Extend(c) \/ Complete(c)
  \/ LosePending
  \/ Forget

Spec == Init /\ [][Next]_<<log, pending>>

=============================================================================
