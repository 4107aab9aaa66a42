--------------------------- MODULE ThreadingProofs ---------------------------
(* Theorems about Threading, for any number of calls and threads. *)
EXTENDS Threading, TLAPS

(* What is known of the flag, the mutex and the call at each place of a     *)
(* thread.                                                                  *)
ThreadInv(t) ==
  /\ thread[t] \in {"none", "new", "failed", "lock", "unlock", "ended"}
  /\ thread[t] = "none" <=> start[t] = "none"
  /\ thread[t] \in {"new", "failed"} => thread_complete_success[t] = TRUE
  /\ thread[t] = "lock" => thread_complete_success[t] = FALSE
  /\ thread[t] \in {"none", "new", "failed", "lock"} => t \notin held
  /\ thread[t] = "unlock" =>
       thread_complete_success[t] = TRUE /\ t \in held /\ mutex = t
  /\ thread[t] = "ended" => thread_complete_success[t] = (t \in held)

Functions ==
  /\ thread = [t \in Thread |-> thread[t]]
  /\ start = [t \in Thread |-> start[t]]
  /\ thread_complete_success \in [Thread -> BOOLEAN]

Inv == Functions /\ \A t \in Thread : ThreadInv(t)

LEMMA InitInv == ThreadingInit => Inv
  BY DEF ThreadingInit, Inv, Functions, ThreadInv

LEMMA NextInv ==
  ASSUME Inv, [ThreadingNext]_threadVars
  PROVE  Inv'
<1>1. CASE UNCHANGED threadVars
  BY <1>1 DEF threadVars, Inv, Functions, ThreadInv
<1>2. CASE Destroy
  BY <1>2, ThreadingAssumption DEF Destroy, Inv, Functions, ThreadInv
<1>3. ASSUME NEW u \in Thread, Create(u) PROVE Inv'
  BY <1>3 DEF Create, SetFlag, Inv, Functions, ThreadInv
<1>4. ASSUME NEW u \in Thread, Return(u) PROVE Inv'
  BY <1>4 DEF Return, Inv, Functions, ThreadInv
<1>5. ASSUME NEW u \in Thread, Begin(u) PROVE Inv'
  BY <1>5 DEF Begin, SetFlag, Inv, Functions, ThreadInv
<1>6. ASSUME NEW u \in Thread, Lock(u) PROVE Inv'
  <2>1. CASE mutex = DESTROYED
    BY <1>6, <2>1, ThreadingAssumption DEF Lock, AfterLock, Inv, Functions, ThreadInv
  <2>2. CASE mutex = Nobody /\ mutex # DESTROYED
    <3>1. /\ thread[u] = "lock" /\ thread' = [thread EXCEPT ![u] = "unlock"]
          /\ thread_complete_success' = [thread_complete_success EXCEPT ![u] = TRUE]
          /\ held' = held \cup {u} /\ mutex' = u
          /\ start' = start /\ result' = result
      BY <1>6, <2>2 DEF Lock, AfterLock, SetFlag
    <3>2. \A t \in Thread : thread[t] # "unlock"
      BY <2>2, ThreadingAssumption DEF Inv, ThreadInv
    <3>3. Functions'
      BY <3>1 DEF Inv, Functions
    <3>4. \A t \in Thread : ThreadInv(t)'
      BY <3>1, <3>2 DEF Inv, Functions, ThreadInv
    <3> QED
      BY <3>3, <3>4 DEF Inv
  <2>3. QED
    BY <1>6, <2>1, <2>2 DEF Lock, Lockable
<1>7. ASSUME NEW u \in Thread, Unlock(u) PROVE Inv'
  <2>1. mutex = u /\ mutex # DESTROYED
    BY <1>7, ThreadingAssumption DEF Unlock, Inv, ThreadInv
  <2>2. QED
    BY <1>7, <2>1, ThreadingAssumption DEF Unlock, AfterUnlock, Inv, Functions, ThreadInv
<1>8. QED
  BY <1>1, <1>2, <1>3, <1>4, <1>5, <1>6, <1>7 DEF ThreadingNext, threadfunc

LEMMA Invariant == ThreadingSpec => []Inv
<1>1. Inv /\ [ThreadingNext]_threadVars => Inv'
  BY NextInv
<1>2. QED
  BY InitInv, <1>1, PTL DEF ThreadingSpec

(* Once a thread has ended its flag tells whether it had the mutex,         *)
(* whatever the flag was before and whatever became of the mutex.           *)
THEOREM FlagTells == ThreadingSpec => []FlagTellsSuccess
<1>1. Inv => FlagTellsSuccess
  BY DEF Inv, ThreadInv, FlagTellsSuccess
<1>2. QED
  BY <1>1, Invariant, PTL

=============================================================================
