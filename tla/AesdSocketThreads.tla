-------------------------- MODULE AesdSocketThreads --------------------------
(***************************************************************************)
(* server/aesdsocket-simple.c, main and the thread list: main creates one  *)
(* thread per connection and joins the completed ones; SIGINT and SIGTERM  *)
(* run do_shutdown inside the signal handler, on top of whatever its       *)
(* thread was doing.  client_handler itself is ClientHandler's; here it    *)
(* runs, marks itself complete and ends.                                   *)
(***************************************************************************)
EXTENDS Integers, SequencesExt, Mutex

CONSTANTS
  Thread,       \* the client threads that can be created
  MaxSignals    \* bound: signals sent to the process

(* What runs code on the list: main's program, a signal handler on top of   *)
(* it, a handler of the other signal number on top of that, and a handler   *)
(* on a client thread.                                                      *)
Context == {"main", "signal", "nested"} \cup Thread

ASSUME AesdSocketThreadsAssumption ==
  /\ {Nobody, DESTROYED} \cap Context = {}
  /\ {"main", "signal", "nested"} \cap Thread = {}
  /\ Nobody # DESTROYED
  /\ MaxSignals \in Nat

VARIABLES
  list,        \* the linked list from head on, as the threads of its nodes
  thread,      \* where each client thread is
  freed,       \* the threads whose thread_data has been freed
  listMutex,   \* its owner
  at,          \* where each context is
  data,        \* the thread whose data main has at hand
  current,     \* the node a context's walk of the list is at
  isError,     \* set by the signal handler
  signals      \* signals sent so far

vars == <<list, thread, freed, listMutex, at, data, current, isError, signals>>

-----------------------------------------------------------------------------

(* The context that runs on top of c, if any, stops it. *)
Above == [main |-> "signal", signal |-> "nested"]

At(c, step) ==
  /\ at[c] = step
  /\ c \in DOMAIN Above => at[Above[c]] = "off"

Goto(c, step) == at' = [at EXCEPT ![c] = step]

Alive == at["main"] \notin {"exit", "failed", "crashed"}

MutexLock(c) == Lockable(listMutex) /\ listMutex' = AfterLock(listMutex, c)
MutexUnlock  == listMutex' = AfterUnlock(listMutex)

PthreadJoin_returns(c, t) == TRUE

(* d is where it joins t: it is about to call pthread_join or waits in it. *)
Joins(d, t) ==
  /\ current[d] = t
  /\ at[d] = "shutdown join" \/ (at[d] = "remove" /\ thread[t] # "running")

(* pthread_join returns when the thread has ended.  It fails at once with    *)
(* EDEADLK when that is the caller itself, and with EINVAL when somebody, be *)
(* it what the caller interrupted, waits for it already.  Nobody looks at    *)
(* the result.                                                              *)
PthreadJoin(c, t) ==
  \/ thread[t] = "ended"
  \/ c = t
  \/ \E d \in Context \ {c} : Joins(d, t)

(* The node at the front of a piece of the list. *)
First(nodes) == IF nodes = << >> THEN Nobody ELSE Head(nodes)

(* Where in the list t is, and the node behind it. *)
Place(t)  == CHOOSE i \in DOMAIN list : list[i] = t
Behind(t) == First(SubSeq(list, Place(t) + 1, Len(list)))

(* t's node and data are unlinked and freed; the walk goes on behind it. *)
Unlink(c, t) ==
  /\ list' = RemoveAt(list, Place(t))
  /\ freed' = freed \cup {t}
  /\ current' = [current EXCEPT ![c] = Behind(t)]

(* A walk whose node was freed under it reads freed memory: the process may *)
(* crash, or find a null pointer there and stop.                            *)
WalksFreedNode(c) == current[c] \in freed

UseFreedNode ==
  \E c \in Context, step \in {"remove", "shutdown join"} :
    /\ At(c, step)
    /\ WalksFreedNode(c)
    /\ \/ Goto("main", "crashed") /\ UNCHANGED current
       \/ current' = [current EXCEPT ![c] = Nobody] /\ UNCHANGED at
    /\ UNCHANGED <<list, thread, freed, listMutex, data, isError, signals>>

-----------------------------------------------------------------------------
(* main. *)

(* The signal handlers are in place before the server socket is.  socket,   *)
(* setsockopt, bind or listen may fail: main returns 1.                     *)
Startup ==
  /\ At("main", "start")
  /\ \/ Goto("main", "init")
     \/ Goto("main", "failed")
  /\ UNCHANGED <<list, thread, freed, listMutex, data, current, isError, signals>>

(* Also after a handler that has destroyed them already. *)
MutexInit ==
  /\ At("main", "init")
  /\ listMutex' = Nobody
  /\ Goto("main", "loop")
  /\ UNCHANGED <<list, thread, freed, data, current, isError, signals>>

Loop ==
  /\ At("main", "loop")
  /\ Goto("main", IF isError THEN "shutdown lock" ELSE "accept")
  /\ UNCHANGED <<list, thread, freed, listMutex, data, current, isError, signals>>

(* A connection arrives; its thread_data is allocated. *)
Accept(t) ==
  /\ At("main", "accept")
  /\ thread[t] = "none"
  /\ data' = t
  /\ Goto("main", "create")
  /\ UNCHANGED <<list, thread, freed, listMutex, current, isError, signals>>

(* pthread_create.  If it fails, thread_data is freed at once and nothing   *)
(* remains to insert.                                                       *)
CreateThread ==
  /\ At("main", "create")
  /\ \/ /\ thread' = [thread EXCEPT ![data] = "running"]
        /\ Goto("main", "insert lock")
        /\ UNCHANGED data
     \/ /\ data' = Nobody
        /\ Goto("main", "remove lock")
        /\ UNCHANGED thread
  /\ UNCHANGED <<list, freed, listMutex, current, isError, signals>>

(* accept fails for a reason of its own. *)
AcceptFails ==
  /\ At("main", "accept")
  /\ Goto("main", "loop")
  /\ UNCHANGED <<list, thread, freed, listMutex, data, current, isError, signals>>

(* insertNode and removeCompletedThreads take listMutex. *)
ListLock ==
  /\ \/ At("main", "insert lock") /\ Goto("main", "insert")
     \/ At("main", "remove lock") /\ Goto("main", "remove")
  /\ MutexLock("main")
  /\ current' = [current EXCEPT !["main"] = First(list)]
  /\ UNCHANGED <<list, thread, freed, data, isError, signals>>

Inserted_replaces(t) == <<t>>

(* The list with a node for t at its end. *)
Inserted(t) == Append(list, t)

insertNode ==
  /\ At("main", "insert")
  /\ list' = Inserted(data)
  /\ data' = Nobody
  /\ MutexUnlock
  /\ Goto("main", "remove lock")
  /\ UNCHANGED <<thread, freed, current, isError, signals>>

(* One turn of removeCompletedThreads: a node whose thread has set          *)
(* isComplete is joined and unlinked, any other is passed.                  *)
removeCompletedThreads ==
  LET t == current["main"]
  IN  /\ At("main", "remove")
      /\ ~WalksFreedNode("main")
      /\ \/ /\ t = Nobody
            /\ MutexUnlock
            /\ Goto("main", "loop")
            /\ UNCHANGED <<list, freed, current>>
         \/ /\ t # Nobody /\ thread[t] = "running"
            /\ current' = [current EXCEPT !["main"] = Behind(t)]
            /\ UNCHANGED <<list, freed, listMutex, at>>
         \/ /\ t # Nobody /\ thread[t] # "running"
            /\ PthreadJoin("main", t)
            /\ Unlink("main", t)
            /\ UNCHANGED <<listMutex, at>>
      /\ UNCHANGED <<thread, data, isError, signals>>

-----------------------------------------------------------------------------
(* A client thread: client_handler up to isComplete, close, return.         *)

client_handler(t) ==
  /\ at[t] \in {"off", "returned"}
  /\ \/ thread[t] = "running" /\ thread' = [thread EXCEPT ![t] = "complete"]
     \/ thread[t] = "complete" /\ thread' = [thread EXCEPT ![t] = "ended"]
  /\ UNCHANGED <<list, freed, listMutex, at, data, current, isError, signals>>

(* A client that has gone: SIGPIPE, unhandled, ends the process. *)
Sigpipe(t) ==
  /\ at[t] \in {"off", "returned"}
  /\ thread[t] = "running"
  /\ Goto("main", "crashed")
  /\ UNCHANGED <<list, thread, freed, listMutex, data, current, isError, signals>>

-----------------------------------------------------------------------------
(* do_shutdown, called by main after its loop and by the signal handler.    *)

ShutdownLock(c) ==
  /\ At(c, "shutdown lock")
  /\ MutexLock(c)
  /\ Goto(c, "shutdown join")
  /\ current' = [current EXCEPT ![c] = First(list)]
  /\ UNCHANGED <<list, thread, freed, data, isError, signals>>

ShutdownJoin(c) ==
  /\ At(c, "shutdown join")
  /\ current[c] # Nobody /\ ~WalksFreedNode(c)
  /\ PthreadJoin(c, current[c])
  /\ Unlink(c, current[c])
  /\ UNCHANGED <<thread, listMutex, at, data, isError, signals>>

(* accept as SA_RESTART would have it. *)
Interrupted_restarted(step) == step

(* A system call cut short by a signal: without SA_RESTART accept fails     *)
(* with EINTR.                                                              *)
Interrupted(step) == IF step = "accept" THEN "loop" ELSE step

(* Unlock, destroy both mutexes, close and remove.  main exits; a signal    *)
(* handler returns to where its thread was.                                 *)
ShutdownDone(c) ==
  /\ At(c, "shutdown join")
  /\ current[c] = Nobody
  /\ listMutex' = DESTROYED
  /\ at' = CASE c = "main"   -> [at EXCEPT !["main"] = "exit"]
             [] c = "signal" -> [at EXCEPT !["signal"] = "off", !["main"] = Interrupted(@)]
             [] c = "nested" -> [at EXCEPT !["nested"] = "off"]
             [] c \in Thread -> [at EXCEPT ![c] = "returned"]
  /\ UNCHANGED <<list, thread, freed, data, current, isError, signals>>

(* SIGINT or SIGTERM.  The kernel prefers the main thread.  While main's    *)
(* handler runs, only the other number interrupts it; the same one goes to  *)
(* a client thread if there is any.                                         *)
Receivers ==
  IF at["signal"] = "off" THEN {"signal"}
  ELSE {"nested"} \cup {t \in Thread : thread[t] \in {"running", "complete"}}

signal_handler ==
  /\ signals < MaxSignals
  /\ signals' = signals + 1
  /\ \E c \in Receivers : at[c] = "off" /\ Goto(c, "shutdown lock")
  /\ isError' = TRUE
  /\ UNCHANGED <<list, thread, freed, listMutex, data, current>>

-----------------------------------------------------------------------------

Init ==
  /\ list = << >>
  /\ thread = [t \in Thread |-> "none"]
  /\ freed = {}
  /\ listMutex = Nobody
  /\ at = [c \in Context |-> IF c = "main" THEN "start" ELSE "off"]
  /\ data = Nobody
  /\ current = [c \in Context |-> Nobody]
  /\ isError = FALSE
  /\ signals = 0

do_shutdown(c) == ShutdownLock(c) \/ ShutdownJoin(c) \/ ShutdownDone(c)

(* What main and the handlers do on their own, without a client or a signal. *)
Main ==
  \/ Startup
  \/ MutexInit
  \/ Loop
  \/ CreateThread
  \/ ListLock
  \/ insertNode
  \/ removeCompletedThreads
  \/ UseFreedNode
  \/ \E c \in Context \ Thread : do_shutdown(c)

(* A client thread goes on, in a signal handler or without. *)
Client(t) == client_handler(t) \/ do_shutdown(t)

Next ==
  /\ Alive
  /\ \/ Main
     \/ \E t \in Thread : Accept(t) \/ Client(t) \/ Sigpipe(t)
     \/ AcceptFails
     \/ signal_handler

Spec == Init /\ [][Next]_vars

(* Both the main thread and every client thread go on when they can, and    *)
(* every client sends its packet, reads its reply and hangs up in the end.  *)
(* Nobody has to connect.                                                   *)
FairSpec ==
  /\ Spec
  /\ WF_vars(Alive /\ Main)
  /\ \A t \in Thread : WF_vars(Alive /\ Client(t))

-----------------------------------------------------------------------------
(* Properties.                                                              *)

(* No node is on the list twice or once it is freed, wherever signals hit.  *)
(* And up to the second signal thread_data is freed only when its thread,   *)
(* which writes isComplete and reads client_fd from it, has ended.  The     *)
(* second one may find a thread that is being joined, or run on a client    *)
(* thread, which then joins itself: pthread_join fails, and the data is     *)
(* freed while it is used.                                                  *)
NoUseAfterFree ==
  /\ \A i, j \in DOMAIN list : i # j => list[i] # list[j]
  /\ \A i \in DOMAIN list : list[i] \notin freed
  /\ signals <= 1 => \A t \in freed : thread[t] = "ended"

(* No thread gets lost between pthread_create and the end of the program,   *)
(* even when the signal hits before insertNode: when main exits the data of *)
(* every thread has been freed, and unless there was a second signal (see   *)
(* NoUseAfterFree) every thread has ended.                                  *)
ExitLeavesNoThread ==
  at["main"] = "exit" =>
    \A t \in Thread :
      thread[t] # "none" => t \in freed /\ (signals <= 1 => thread[t] = "ended")

(* A signal that takes main out of its own work on the list, or one that    *)
(* comes while another is handled.                                          *)
SignalDuringListWork ==
  at["signal"] = "shutdown lock" /\ at["main"] \in {"insert", "remove", "shutdown join"}

SignalDuringHandler ==
  at["nested"] # "off" \/ \E t \in Thread : at[t] # "off"

(* Except for these two the program ends after a signal at any moment, from *)
(* before its socket exists, although main goes through a second            *)
(* do_shutdown with both mutexes already destroyed.                         *)
SignalEndsProgram ==
  \/ <>(SignalDuringListWork \/ SignalDuringHandler)
  \/ isError ~> ~Alive

(* aesdsocket-simple.c:229: "Caught signal, exiting": once a signal is      *)
(* caught the program exits.                                                *)
CaughtSignalExits == isError ~> ~Alive

=============================================================================
