------------------------------ MODULE Threading ------------------------------
(***************************************************************************)
(* examples/threading/threading.c: start_thread_obtaining_mutex allocates  *)
(* a thread_data, creates a thread that takes and releases a mutex, and    *)
(* returns thread_complete_success, which the new thread is already        *)
(* changing.                                                               *)
(***************************************************************************)
EXTENDS Integers, Mutex

CONSTANT Thread    \* the threads that are started, each by one call

(* The owner of a mutex is a thread, or none. *)
ASSUME ThreadingAssumption == {Nobody, DESTROYED} \cap Thread = {}

VARIABLES
  start,                     \* where the call that starts a thread is
  result,                    \* what it returned
  thread,                    \* where the thread is
  thread_complete_success,   \* the flag in its thread_data
  mutex,                     \* its owner
  held                       \* history: the threads that have had the mutex

threadVars == <<start, result, thread, thread_complete_success, mutex, held>>

SetFlag(t, b) == thread_complete_success' = [thread_complete_success EXCEPT ![t] = b]

-----------------------------------------------------------------------------
(* start_thread_obtaining_mutex. *)

(* malloc, then pthread_create, which may fail; a failure is only printed. *)
Create(t) ==
  /\ start[t] = "none"
  /\ start' = [start EXCEPT ![t] = "created"]
  /\ SetFlag(t, TRUE)
  /\ \E step \in {"new", "failed"} : thread' = [thread EXCEPT ![t] = step]
  /\ UNCHANGED <<result, mutex, held>>

(* The flag as the new thread has it by now; whether there is one is not    *)
(* asked.                                                                   *)
Return(t) ==
  /\ start[t] = "created"
  /\ start' = [start EXCEPT ![t] = "returned"]
  /\ result' = [result EXCEPT ![t] = thread_complete_success[t]]
  /\ UNCHANGED <<thread, thread_complete_success, mutex, held>>

-----------------------------------------------------------------------------
(* threadfunc. *)

(* A thread that leaves the flag as the caller set it. *)
Begin_noReset(t) ==
  /\ thread[t] = "new"
  /\ thread' = [thread EXCEPT ![t] = "lock"]
  /\ UNCHANGED <<start, result, thread_complete_success, mutex, held>>

Begin(t) ==
  /\ thread[t] = "new"
  /\ thread' = [thread EXCEPT ![t] = "lock"]
  /\ SetFlag(t, FALSE)
  /\ UNCHANGED <<start, result, mutex, held>>

(* pthread_mutex_lock.  If it fails the thread returns at once. *)
Lock(t) ==
  /\ thread[t] = "lock"
  /\ Lockable(mutex)
  /\ mutex' = AfterLock(mutex, t)
  /\ IF mutex = DESTROYED
     THEN /\ thread' = [thread EXCEPT ![t] = "ended"]
          /\ UNCHANGED <<thread_complete_success, held>>
     ELSE /\ thread' = [thread EXCEPT ![t] = "unlock"]
          /\ SetFlag(t, TRUE)
          /\ held' = held \cup {t}
  /\ UNCHANGED <<start, result>>

(* A thread that ends with the mutex. *)
Unlock_forgotten(t) ==
  /\ thread[t] = "unlock"
  /\ thread' = [thread EXCEPT ![t] = "ended"]
  /\ UNCHANGED <<start, result, thread_complete_success, mutex, held>>

Unlock(t) ==
  /\ thread[t] = "unlock"
  /\ mutex' = AfterUnlock(mutex)
  /\ thread' = [thread EXCEPT ![t] = "ended"]
  /\ IF mutex = DESTROYED THEN SetFlag(t, FALSE) ELSE UNCHANGED thread_complete_success
  /\ UNCHANGED <<start, result, held>>

(* The user destroys the mutex, which works only while nobody holds it. *)
Destroy ==
  /\ mutex = Nobody
  /\ mutex' = DESTROYED
  /\ UNCHANGED <<start, result, thread, thread_complete_success, held>>

-----------------------------------------------------------------------------

ThreadingInit ==
  /\ start = [t \in Thread |-> "none"]
  /\ result = [t \in Thread |-> FALSE]
  /\ thread = [t \in Thread |-> "none"]
  /\ thread_complete_success = [t \in Thread |-> FALSE]
  /\ mutex = Nobody
  /\ held = {}

threadfunc(t) == Begin(t) \/ Lock(t) \/ Unlock(t)

ThreadingNext == Destroy \/ \E t \in Thread : Create(t) \/ Return(t) \/ threadfunc(t)

(* Threads run when they can, and the mutex is handed to its waiters in turn. *)
ThreadingFairness ==
  \A t \in Thread : WF_threadVars(Begin(t) \/ Unlock(t)) /\ SF_threadVars(Lock(t))

ThreadingSpec == ThreadingInit /\ [][ThreadingNext]_threadVars /\ ThreadingFairness

-----------------------------------------------------------------------------
(* Properties.                                                              *)

(* Once its thread has ended the flag tells whether it had the mutex,       *)
(* whatever the flag was before and whatever became of the mutex.           *)
FlagTellsSuccess ==
  \A t \in Thread : thread[t] = "ended" => (thread_complete_success[t] <=> t \in held)

(* Every thread that was started comes to its end.                          *)
ThreadsEnd == \A t \in Thread : thread[t] = "new" ~> thread[t] = "ended"

(* threading.h:41: "@return true if the thread could be started, false if a *)
(* failure occurred."  The flag that is returned belongs to the new thread, *)
(* which may have cleared it, and not had the mutex, by then.               *)
ReturnTellsStarted ==
  \A t \in Thread :
    start[t] = "returned" => (result[t] <=> thread[t] # "failed")

=============================================================================
