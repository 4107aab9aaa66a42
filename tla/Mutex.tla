------------------------------- MODULE Mutex -------------------------------
(***************************************************************************)
(* A default pthread mutex, as the value of a variable: its owner, Nobody, *)
(* or DESTROYED.  Nothing checks who unlocks it; a lock on a destroyed one *)
(* fails at once with an error none of the programs acts on.  Locking a    *)
(* mutex the thread holds already waits for ever.                          *)
(***************************************************************************)
CONSTANTS Nobody, DESTROYED

Lockable(m)       == m \in {Nobody, DESTROYED}
AfterLock(m, who) == IF m = DESTROYED THEN m ELSE who
AfterUnlock(m)    == IF m = DESTROYED THEN m ELSE Nobody

=============================================================================
