--------------------------- MODULE AesdSocketProofs ---------------------------
(* Theorems about AesdSocket, for any number of connections, scripts,       *)
(* descriptors and commands on the device.                                  *)
EXTENDS AesdSocket, SequenceTheorems, WellFoundedInduction, TLAPS

TP == INSTANCE AesdSocketThreadsProofs WITH Thread <- Handler, MaxSignals <- 1

-----------------------------------------------------------------------------
(* Every step of the server is one of AesdSocketThreads or leaves its       *)
(* variables alone.                                                         *)

LEMMA ThreadsAssumed ==
  /\ {Nobody, DESTROYED} \cap TP!Context = {}
  /\ {"main", "signal", "nested"} \cap Handler = {}
  /\ Nobody # DESTROYED
  /\ 1 \in Nat
  BY ClientHandlerAssumption, AesdSocketAssumption DEF TP!Context

LEMMA SameInit == T!Init => TP!Init
  BY DEF T!Init, TP!Init, T!Context, TP!Context

LEMMA SameAlive == T!Alive => TP!Alive
  BY DEF T!Alive, TP!Alive

(* main's own steps. *)
LEMMA SameMain ==
  /\ T!Startup => TP!Startup
  /\ T!MutexInit => TP!MutexInit
  /\ T!Loop => TP!Loop
  /\ T!CreateThread => TP!CreateThread
  /\ T!ListLock => TP!ListLock
  /\ T!insertNode => TP!insertNode
  /\ T!removeCompletedThreads => TP!removeCompletedThreads
  /\ T!AcceptFails => TP!AcceptFails
<1> USE DEF T!At, TP!At, T!Goto, TP!Goto, T!Above, TP!Above
<1>1. T!Startup => TP!Startup
  BY DEF T!Startup, TP!Startup
<1>2. T!MutexInit => TP!MutexInit
  BY DEF T!MutexInit, TP!MutexInit
<1>3. T!Loop => TP!Loop
  BY DEF T!Loop, TP!Loop
<1>4. T!CreateThread => TP!CreateThread
  BY DEF T!CreateThread, TP!CreateThread
<1>5. T!ListLock => TP!ListLock
  BY DEF T!ListLock, TP!ListLock, T!MutexLock, TP!MutexLock, T!First, TP!First,
     T!Lockable, TP!Lockable, T!AfterLock, TP!AfterLock
<1>6. T!insertNode => TP!insertNode
  BY DEF T!insertNode, TP!insertNode, T!Inserted, TP!Inserted, T!MutexUnlock, TP!MutexUnlock,
     T!AfterUnlock, TP!AfterUnlock
<1>7. T!removeCompletedThreads => TP!removeCompletedThreads
  BY DEF T!removeCompletedThreads, TP!removeCompletedThreads, T!WalksFreedNode, TP!WalksFreedNode,
     T!MutexUnlock, TP!MutexUnlock, T!AfterUnlock, TP!AfterUnlock,
     T!RemoveAt, TP!RemoveAt, T!Behind, TP!Behind, T!Place, TP!Place, T!First, TP!First,
     T!Unlink, TP!Unlink, T!PthreadJoin, TP!PthreadJoin, T!Joins, TP!Joins,
     T!Context, TP!Context
<1>8. T!AcceptFails => TP!AcceptFails
  BY DEF T!AcceptFails, TP!AcceptFails
<1>9. QED
  BY <1>1, <1>2, <1>3, <1>4, <1>5, <1>6, <1>7, <1>8

LEMMA SameShutdown ==
  ASSUME NEW c
  PROVE  /\ T!ShutdownLock(c) => TP!ShutdownLock(c)
         /\ T!ShutdownJoin(c) => TP!ShutdownJoin(c)
         /\ T!ShutdownDone(c) => TP!ShutdownDone(c)
<1> USE DEF T!At, TP!At, T!Goto, TP!Goto, T!Above, TP!Above
<1>1. T!ShutdownLock(c) => TP!ShutdownLock(c)
  BY DEF T!ShutdownLock, TP!ShutdownLock, T!MutexLock, TP!MutexLock, T!First, TP!First,
     T!Lockable, TP!Lockable, T!AfterLock, TP!AfterLock
<1>2. T!ShutdownJoin(c) => TP!ShutdownJoin(c)
  BY DEF T!ShutdownJoin, TP!ShutdownJoin, T!WalksFreedNode, TP!WalksFreedNode,
     T!RemoveAt, TP!RemoveAt, T!Behind, TP!Behind, T!Place, TP!Place, T!First, TP!First,
     T!Unlink, TP!Unlink, T!PthreadJoin, TP!PthreadJoin, T!Joins, TP!Joins,
     T!Context, TP!Context
<1>3. T!ShutdownDone(c) => TP!ShutdownDone(c)
  BY DEF T!ShutdownDone, TP!ShutdownDone, T!Interrupted, TP!Interrupted
<1>4. QED
  BY <1>1, <1>2, <1>3

LEMMA SameClients ==
  /\ \A h \in Handler : /\ T!Accept(h) => TP!Accept(h)
                        /\ T!client_handler(h) => TP!client_handler(h)
                        /\ T!Sigpipe(h) => TP!Sigpipe(h)
  /\ T!signal_handler => TP!signal_handler
<1> USE DEF T!At, TP!At, T!Goto, TP!Goto, T!Above, TP!Above
<1>1. ASSUME NEW h \in Handler
      PROVE  /\ T!Accept(h) => TP!Accept(h)
             /\ T!client_handler(h) => TP!client_handler(h)
             /\ T!Sigpipe(h) => TP!Sigpipe(h)
  BY DEF T!Accept, TP!Accept, T!client_handler, TP!client_handler, T!Sigpipe, TP!Sigpipe
<1>2. T!signal_handler => TP!signal_handler
  BY DEF T!signal_handler, TP!signal_handler, T!Receivers, TP!Receivers
<1>3. QED
  BY <1>1, <1>2

LEMMA NextThreads == [Next]_vars => [TP!Next]_(TP!vars)
<1> SUFFICES ASSUME [Next]_vars PROVE TP!Next \/ threads' = threads
  BY DEF threads, TP!vars
<1>1. CASE UNCHANGED vars
  BY <1>1 DEF vars
<1>2. ASSUME T!Alive, Main PROVE TP!Next
  <2>1. \/ T!Startup \/ T!MutexInit \/ T!Loop \/ T!CreateThread \/ T!ListLock
        \/ T!insertNode \/ T!removeCompletedThreads
        \/ \E c \in {"main", "signal"} :
             T!ShutdownLock(c) \/ T!ShutdownJoin(c) \/ T!ShutdownDone(c)
    BY <1>2 DEF Main, MutexInit, CreateThread, ShutdownDone
  <2>2. {"main", "signal"} \subseteq TP!Context \ Handler
    BY AesdSocketAssumption DEF TP!Context
  <2>3. TP!Main
    BY <2>1, <2>2, SameMain, SameShutdown DEF TP!Main, TP!do_shutdown
  <2>4. QED
    BY <1>2, <2>3, SameAlive DEF TP!Next
<1>3. ASSUME T!Alive, NEW h \in Handler, Accept(h) \/ Killed(h) \/ Leave(h) PROVE TP!Next
  <2>1. TP!Accept(h) \/ TP!Sigpipe(h) \/ TP!client_handler(h)
    BY <1>3, SameClients DEF Accept, Killed, Leave
  <2>2. QED
    BY <1>3, <2>1, SameAlive DEF TP!Next, TP!Client
<1>4. ASSUME T!Alive, T!AcceptFails \/ T!signal_handler PROVE TP!Next
  BY <1>4, SameMain, SameClients, SameAlive DEF TP!Next
<1>5. QED
  BY <1>1, <1>2, <1>3, <1>4 DEF Next, Client, Serve

-----------------------------------------------------------------------------
(* What AesdSocketThreads promises holds of the server as a whole, while    *)
(* its threads work on the device and one of them may kill the process.     *)

LEMMA ServerThreads == Spec => []TP!ThreadsInv
<1>1. Init => TP!Init
  BY SameInit DEF Init
<1>2. Spec => TP!Spec
  BY <1>1, NextThreads, PTL DEF Spec, TP!Spec
<1>3. TP!Spec => []TP!ThreadsInv
  BY TP!ThreadsInvariant, ThreadsAssumed
<1>4. QED
  BY <1>2, <1>3

(* With its one signal, which main's thread handles, the data of a thread   *)
(* is freed only after its end, and when main exits every thread has been   *)
(* freed so.                                                                *)
ThreadsJoined ==
  /\ \A h \in freed : thread[h] = "ended"
  /\ at["main"] = "exit" => \A h \in Handler : thread[h] \in {"none", "ended"}

THEOREM ServerJoinsThreads == Spec => []ThreadsJoined
<1>1. Spec => TP!Spec
  BY SameInit, NextThreads, PTL DEF Init, Spec, TP!Spec
<1>2. TP!Spec => [](TP!SignalsInv /\ TP!JoinedInv)
  BY TP!OneSignal, ThreadsAssumed
<1>3. TP!Spec => []TP!ExitLeavesNoThread
  BY TP!NoThreadLeftAtExit, ThreadsAssumed
<1>4. TP!SignalsInv => signals <= 1
  BY DEF TP!SignalsInv
<1>5. TP!SignalsInv /\ TP!JoinedInv /\ TP!ExitLeavesNoThread => ThreadsJoined
  BY <1>4 DEF TP!JoinedInv, TP!ExitLeavesNoThread, ThreadsJoined
<1>6. QED
  BY <1>1, <1>2, <1>3, <1>5, PTL

-----------------------------------------------------------------------------
(* The descriptor table: a socket stays behind the number its connection    *)
(* was accepted with, until whoever closes that number.                     *)

IsObject(o) == o = [kind |-> o.kind, who |-> o.who, pos |-> o.pos]

IsTable(table) ==
  /\ table = [fd \in Fds |-> table[fd]]
  /\ \A fd \in Fds : IsObject(table[fd])

TableInv ==
  /\ IsTable(fds)
  /\ client_fd = [h \in Handler |-> client_fd[h]]
  /\ \A fd \in Fds : fds[fd].kind = "sock" =>
       /\ fds[fd].who \in Handler
       /\ client_fd[fds[fd].who] = fd
       /\ thread[fds[fd].who] # "ended"

(* No connection gets a descriptor. *)
NoNewSocket ==
  /\ IsTable(fds')
  /\ \A fd \in Fds : fds'[fd].kind = "sock" =>
       fds[fd].kind = "sock" /\ fds'[fd].who = fds[fd].who
  /\ client_fd' = client_fd

NoneEnds == \A h \in Handler : thread'[h] = "ended" => thread[h] = "ended"

LEMMA NoNewSocketKeeps ==
  ASSUME TableInv, NoNewSocket, NoneEnds PROVE TableInv'
  BY DEF TableInv, NoNewSocket, NoneEnds, IsTable, IsObject

LEMMA SameTable ==
  ASSUME TableInv, UNCHANGED <<fds, client_fd>> PROVE NoNewSocket
  BY DEF TableInv, NoNewSocket

LEMMA ClosingTable ==
  ASSUME TableInv, NEW fd, fds' = TableWithout(fd), UNCHANGED client_fd PROVE NoNewSocket
<1>1. IsObject(FREE) /\ FREE.kind # "sock"
  BY DEF IsObject, FREE
<1>2. \A x \in Fds : fds'[x] = IF x = fd THEN FREE ELSE fds[x]
  BY DEF TableInv, IsTable, TableWithout
<1>3. fds' = [x \in Fds |-> fds'[x]]
  BY DEF TableInv, IsTable, TableWithout
<1>4. QED
  BY <1>1, <1>2, <1>3 DEF TableInv, NoNewSocket, IsTable

LEMMA OpeningTable ==
  ASSUME TableInv, NEW fd, NEW kind, kind # "sock",
         fds' = TableWith(fd, DATA_FILE(kind)), UNCHANGED client_fd
  PROVE  NoNewSocket
<1>1. IsObject(DATA_FILE(kind)) /\ DATA_FILE(kind).kind # "sock"
  BY DEF IsObject, DATA_FILE
<1>2. \A x \in Fds : fds'[x] = fds[x] \/ fds'[x] = DATA_FILE(kind)
  BY DEF TableInv, IsTable, TableWith
<1>3. fds' = [x \in Fds |-> fds'[x]]
  BY DEF TableInv, IsTable, TableWith
<1>4. QED
  BY <1>1, <1>2, <1>3 DEF TableInv, NoNewSocket, IsTable

LEMMA MovingTable ==
  ASSUME TableInv, NEW fd, NEW p, fds' = [fds EXCEPT ![fd].pos = p], UNCHANGED client_fd
  PROVE  NoNewSocket
<1>1. \A x \in Fds : fds'[x] = IF x = fd THEN [fds[x] EXCEPT !.pos = p] ELSE fds[x]
  BY DEF TableInv, IsTable
<1>2. fds' = [x \in Fds |-> fds'[x]]
  BY DEF TableInv, IsTable
<1>3. ASSUME NEW x \in Fds
      PROVE  /\ IsObject([fds[x] EXCEPT !.pos = p])
             /\ [fds[x] EXCEPT !.pos = p].kind = fds[x].kind
             /\ [fds[x] EXCEPT !.pos = p].who = fds[x].who
  <2>1. fds[x] = [kind |-> fds[x].kind, who |-> fds[x].who, pos |-> fds[x].pos]
    BY DEF TableInv, IsTable, IsObject
  <2>2. [fds[x] EXCEPT !.pos = p] = [kind |-> fds[x].kind, who |-> fds[x].who, pos |-> p]
    BY <2>1
  <2>3. QED
    BY <2>2 DEF IsObject
<1>4. QED
  BY <1>1, <1>2, <1>3 DEF TableInv, NoNewSocket, IsTable

LEMMA ServingTable ==
  ASSUME TableInv, NEW h \in Handler, Serve(h) PROVE NoNewSocket
<1>1. CASE Write(h)
  BY <1>1, SameTable DEF Write, WriteFd
<1>2. CASE Ioctl(h)
  <2>1. UNCHANGED client_fd
    BY <1>2 DEF Ioctl
  <2>2. UNCHANGED fds \/ \E p : fds' = [fds EXCEPT ![file_fd].pos = p]
    BY <1>2 DEF Ioctl
  <2>3. QED
    BY <2>1, <2>2, SameTable, MovingTable
<1>3. CASE Lock(h) \/ Assign(h, IF ioctl_found[h] THEN "ioctl" ELSE "write")
           \/ ReplyUnlock(h) \/ ReplySend(h)
  BY <1>3, SameTable DEF Lock, Assign, ReplyUnlock, ReplySend
<1>4. CASE OpenDevice(h)
  <2> DEFINE kind == CASE pc[h] = "reply open"                 -> "read only"
                       [] pc[h] = "open" /\ ioctl_found[h]     -> "read write"
                       [] OTHER                                -> "append"
  <2>1. fds' = TableWith(NewFd, DATA_FILE(kind)) /\ UNCHANGED client_fd
    BY <1>4 DEF OpenDevice, Open
  <2>2. kind # "sock"
    OBVIOUS
  <2> HIDE DEF kind
  <2>3. QED
    BY <2>1, <2>2, OpeningTable
<1>5. CASE Close(h) \/ ReplyClose(h)
  BY <1>5, ClosingTable DEF Close, ReplyClose
<1>6. CASE ReplyRead(h, Contents(Behind(file_fd)))
  <2> DEFINE d == Contents(Behind(file_fd))
  <2>1. UNCHANGED client_fd
    BY <1>6 DEF ReplyRead
  <2> HIDE DEF d
  <2>2. UNCHANGED fds \/ fds' = [fds EXCEPT ![file_fd].pos = @ + Len(d)]
    BY <1>6 DEF ReplyRead, d
  <2>3. CASE fds' = [fds EXCEPT ![file_fd].pos = @ + Len(d)]
    <3>1. fds' = [fds EXCEPT ![file_fd].pos = fds[file_fd].pos + Len(d)]
      BY <2>3
    <3>2. QED
      BY <2>1, <3>1, MovingTable
  <2>4. QED
    BY <2>1, <2>2, <2>3, SameTable
<1>7. QED
  BY <1>1, <1>2, <1>3, <1>4, <1>5, <1>6 DEF Serve

LEMMA RunningEnds ==
  ASSUME TP!TypeInv, UNCHANGED threads \/ T!CreateThread \/ T!MutexInit
                     \/ (\E c \in {"main", "signal"} : T!ShutdownDone(c))
  PROVE  NoneEnds
<1>1. CASE T!CreateThread
  BY <1>1 DEF T!CreateThread, NoneEnds, TP!TypeInv
<1>2. QED
  BY <1>1 DEF T!MutexInit, T!ShutdownDone, threads, NoneEnds

LEMMA ElsewhereTable ==
  ASSUME TableInv, Elsewhere, UNCHANGED thread PROVE TableInv'
  BY SameTable, NoNewSocketKeeps DEF Elsewhere, handlerVars, NoneEnds

LEMMA NextTable ==
  ASSUME TP!TypeInv, TableInv, [Next]_vars PROVE TableInv'
<1>1. CASE UNCHANGED vars
  BY <1>1, ElsewhereTable DEF vars, Elsewhere, threads
<1>2. ASSUME Main PROVE TableInv'
  <2>1. CASE MutexInit \/ CreateThread
    <3>1. NoneEnds
      BY <2>1, RunningEnds DEF MutexInit, CreateThread
    <3>2. UNCHANGED <<fds, client_fd>>
      BY <2>1 DEF MutexInit, CreateThread, StartThread
    <3>3. QED
      BY <3>1, <3>2, SameTable, NoNewSocketKeeps
  <2>2. CASE \E c \in {"main", "signal"} : ShutdownDone(c)
    <3>1. NoneEnds
      BY <2>2, RunningEnds DEF ShutdownDone
    <3>2. fds' = TableWithout(file_fd) /\ UNCHANGED client_fd
      BY <2>2 DEF ShutdownDone
    <3>3. QED
      BY <3>1, <3>2, ClosingTable, NoNewSocketKeeps
  <2>3. CASE Elsewhere /\ ~ MutexInit /\ ~ CreateThread
    <3>1. UNCHANGED thread
      BY <1>2, <2>2, <2>3 DEF Main, T!Startup, T!Loop, T!ListLock, T!insertNode,
         T!removeCompletedThreads, T!ShutdownLock, T!ShutdownJoin, ShutdownDone, T!ShutdownDone
    <3>2. QED
      BY <2>3, <3>1, ElsewhereTable
  <2>4. QED
    BY <1>2, <2>1, <2>2, <2>3 DEF Main
<1>3. ASSUME NEW h \in Handler, Accept(h) PROVE TableInv'
  <2>1. /\ client_fd[h] = -1 /\ thread[h] = "none" /\ thread' = thread
        /\ client_fd' = [client_fd EXCEPT ![h] = NewFd]
        /\ fds' = [fds EXCEPT ![NewFd] = Sock(h)]
    BY <1>3 DEF Accept, AcceptSocket, TableWith, T!Accept
  <2>2. /\ IsObject(Sock(h)) /\ Sock(h).who = h
    BY DEF IsObject, Sock
  <2> DEFINE n == NewFd
  <2>3. /\ \A x \in Fds : fds'[x] = IF x = n THEN Sock(h) ELSE fds[x]
        /\ fds' = [x \in Fds |-> fds'[x]]
        /\ client_fd' = [x \in Handler |-> IF x = h THEN n ELSE client_fd[x]]
    BY <2>1 DEF TableInv, IsTable
  <2> HIDE DEF n
  <2>4. \A x \in Fds : x # -1
    BY ClientHandlerAssumption
  <2>5. QED
    BY <2>1, <2>2, <2>3, <2>4 DEF TableInv, IsTable
<1>4. ASSUME NEW h \in Handler, Leave(h) PROVE TableInv'
  <2>1. CASE thread[h] = "complete"
    <3>1. /\ thread' = [thread EXCEPT ![h] = "ended"]
          /\ fds' = TableWithout(client_fd[h]) /\ UNCHANGED client_fd
      BY <1>4, <2>1 DEF Leave, T!client_handler, Finish
    <3>2. NoNewSocket
      BY <3>1, ClosingTable
    <3>3. ASSUME NEW fd \in Fds, fds'[fd].kind = "sock" PROVE fds[fd].who # h
      <4>1. fd # client_fd[h]
        BY <3>1, <3>3 DEF TableInv, IsTable, TableWithout, FREE
      <4>2. QED
        BY <3>2, <3>3, <4>1 DEF TableInv, NoNewSocket
    <3>4. \A x \in Handler : x # h => thread'[x] = thread[x]
      BY <3>1 DEF TP!TypeInv
    <3>5. QED
      BY <3>1, <3>2, <3>3, <3>4 DEF TableInv, NoNewSocket
  <2>2. CASE thread[h] # "complete"
    <3>1. UNCHANGED <<fds, client_fd>>
      BY <1>4, <2>2 DEF Leave, handlerVars
    <3>2. NoneEnds
      BY <1>4, <2>2 DEF Leave, T!client_handler, NoneEnds, TP!TypeInv
    <3>3. QED
      BY <3>1, <3>2, SameTable, NoNewSocketKeeps
  <2>3. QED
    BY <2>1, <2>2
<1>5. ASSUME NEW h \in Handler, Serve(h) \/ Killed(h) \/ (RecvPiece(h) /\ UNCHANGED threads)
      PROVE  TableInv'
  <2>1. UNCHANGED thread
    BY <1>5 DEF Serve, Killed, T!Sigpipe, threads
  <2>2. NoNewSocket
    BY <1>5, ServingTable, SameTable DEF Killed, Sigpipe, RecvPiece, Recv
  <2>3. QED
    BY <2>1, <2>2, NoNewSocketKeeps DEF NoneEnds
<1>6. ASSUME (T!AcceptFails \/ T!signal_handler) /\ Elsewhere PROVE TableInv'
  BY <1>6, ElsewhereTable DEF T!AcceptFails, T!signal_handler
<1>7. QED
  BY <1>1, <1>2, <1>3, <1>4, <1>5, <1>6 DEF Next, Client

(* However often threads close the numbers of others, a thread that has     *)
(* ended leaves no socket behind.                                           *)
THEOREM NoSocketStaysBehind == Spec => []SocketsClosed
<1>1. Init => TableInv
  BY DEF Init, HandlerInit, TableInv, IsTable, IsObject, FREE
<1>2. TP!ThreadsInv /\ TableInv /\ [Next]_vars => TableInv'
  BY NextTable DEF TP!ThreadsInv
<1>3. TableInv => SocketsClosed
  BY DEF TableInv, SocketsClosed
<1>4. QED
  BY <1>1, <1>2, <1>3, ServerThreads, PTL DEF Spec

-----------------------------------------------------------------------------
(* Who is served, and beside whom.                                          *)

Live(h) == pc[h] \notin {"none", "done", "killed"}

(* The connection that the number of h leads to, if any. *)
LeadsTo(h, w) == Behind(client_fd[h]).kind = "sock" /\ Behind(client_fd[h]).who = w

Creating == at["main"] = "create"

(* A connection gets its thread only from main; SIGPIPE ends the program.   *)
PcInv ==
  /\ pc = [h \in Handler |-> pc[h]]
  /\ \A h \in Handler : pc[h] = "killed" => at["main"] = "crashed"
  /\ \A h \in Handler : thread[h] = "none" => pc[h] = "none" \/ at["main"] = "crashed"

(* Two that are served together are shared, one whose thread is about to be *)
(* created included; only such a connection can get the number of another.  *)
SharedInv ==
  /\ \A g, h \in Handler : g # h /\ Live(g) /\ Live(h) => g \in shared
  /\ Creating => \A g \in Handler : Live(g) => {g, data} \subseteq shared
  /\ \A h, w \in Handler :
       (Live(h) \/ (Creating /\ data = h)) /\ LeadsTo(h, w) /\ w # h =>
         {h, w} \subseteq shared

ServedInv == PcInv /\ SharedInv

(* A step that neither accepts a connection nor creates a thread. *)
Quiet ==
  /\ NoNewSocket /\ shared' = shared
  /\ pc' = [h \in Handler |-> pc'[h]]
  /\ \A h \in Handler : pc'[h] # pc[h] => Live(h) /\ pc'[h] \notin {"none", "killed"}
  /\ \A h \in Handler : thread'[h] = "none" => thread[h] = "none"
  /\ at'["main"] = "create" => at["main"] = "create" /\ data' = data

LEMMA QuietKeeps ==
  ASSUME TableInv, ServedInv, at["main"] # "crashed", Quiet PROVE ServedInv'
<1> USE DEF ServedInv, Quiet
<1>1. PcInv'
  BY DEF PcInv, Live
<1>2. \A h \in Handler : Live(h)' => Live(h)
  BY DEF Live
<1>3. Creating' => Creating /\ data' = data
  BY DEF Creating
<1>4. \A h, w \in Handler : LeadsTo(h, w)' => LeadsTo(h, w)
  BY DEF LeadsTo, Behind, NoNewSocket, FREE
<1>5. SharedInv'
  <2>1. \A g, h \in Handler : g # h /\ Live(g)' /\ Live(h)' => g \in shared'
    BY <1>2 DEF SharedInv
  <2>2. Creating' => \A g \in Handler : Live(g)' => {g, data'} \subseteq shared'
    BY <1>2, <1>3 DEF SharedInv
  <2>3. ASSUME NEW h \in Handler, NEW w \in Handler,
               Live(h)' \/ (Creating' /\ data' = h), LeadsTo(h, w)', w # h
        PROVE  {h, w} \subseteq shared'
    BY <1>2, <1>3, <1>4, <2>3 DEF SharedInv
  <2>4. QED
    BY <2>1, <2>2, <2>3 DEF SharedInv
<1>6. QED
  BY <1>1, <1>5

(* A thread goes on from one place to another. *)
LEMMA GoneOn ==
  ASSUME TableInv, PcInv, NEW h \in Handler, Live(h),
         NEW step, Goto(h, step), step \notin {"none", "killed"},
         NoNewSocket, shared' = shared, thread' = thread, at' = at, data' = data
  PROVE  Quiet
  BY DEF Quiet, PcInv, Goto

LEMMA ServingQuiet ==
  ASSUME TableInv, PcInv, NEW h \in Handler,
         \/ Serve(h)
         \/ RecvPiece(h) /\ UNCHANGED threads
  PROVE  Quiet
<1>1. thread' = thread /\ at' = at /\ data' = data
  BY DEF Serve, threads
<1>2. NoNewSocket
  BY ServingTable, SameTable DEF RecvPiece, Recv
<1>3. shared' = shared
  BY DEF Serve, Write, WriteFd, Ioctl, Lock, OpenDevice, Open, Assign, Close, ReplyRead,
     ReplyUnlock, ReplySend, ReplyClose, RecvPiece, Recv
<1>4. Live(h)
  BY DEF Serve, Write, WriteFd, Ioctl, Lock, OpenDevice, Open, Assign, Close, ReplyRead,
     ReplyUnlock, ReplySend, ReplyClose, RecvPiece, Recv, Live
<1>5. \E step : Goto(h, step) /\ step \notin {"none", "killed"}
  <2> DEFINE steps == {"recv", "lock", "open", "assign", "write", "ioctl", "close", "reply lock",
                       "reply open", "reply assign", "read", "unlock", "send", "reply close",
                       "finish"}
  <2>0. ASSUME NEW step \in steps, Goto(h, step)
        PROVE  \E s : Goto(h, s) /\ s \notin {"none", "killed"}
    BY <2>0
  <2>1. CASE Write(h)
    BY <2>1, <2>0 DEF Write, WriteFd
  <2>2. CASE Ioctl(h)
    <3>1. Goto(h, "read") \/ Goto(h, "recv")
      BY <2>2 DEF Ioctl
    <3>2. QED
      BY <3>1, <2>0
  <2>3. CASE Lock(h)
    <3>1. Goto(h, "open") \/ Goto(h, "reply open")
      BY <2>3 DEF Lock
    <3>2. QED
      BY <3>1, <2>0
  <2>4. CASE OpenDevice(h)
    <3>1. Goto(h, "assign") \/ Goto(h, "reply assign")
      BY <2>4 DEF OpenDevice, Open
    <3>2. QED
      BY <3>1, <2>0
  <2>5. CASE Assign(h, IF ioctl_found[h] THEN "ioctl" ELSE "write")
    <3>1. Goto(h, "ioctl") \/ Goto(h, "write") \/ Goto(h, "read")
      BY <2>5 DEF Assign
    <3>2. QED
      BY <3>1, <2>0
  <2>6. CASE Close(h)
    <3>1. Goto(h, "reply lock") \/ Goto(h, "recv")
      BY <2>6 DEF Close
    <3>2. QED
      BY <3>1, <2>0
  <2>7. CASE ReplyRead(h, Contents(Behind(file_fd)))
    <3>1. Goto(h, "unlock") \/ Goto(h, "reply close")
      BY <2>7 DEF ReplyRead
    <3>2. QED
      BY <3>1, <2>0
  <2>8. CASE ReplyUnlock(h) \/ ReplySend(h) \/ ReplyClose(h)
    <3>1. Goto(h, "send") \/ Goto(h, "read") \/ Goto(h, "finish")
      BY <2>8 DEF ReplyUnlock, ReplySend, ReplyClose
    <3>2. QED
      BY <3>1, <2>0
  <2>9. CASE RecvPiece(h)
    <3>1. Goto(h, "lock") \/ Goto(h, "read") \/ Goto(h, "reply lock")
      BY <2>9 DEF RecvPiece, Recv
    <3>2. QED
      BY <3>1, <2>0
  <2>10. QED
    BY <2>1, <2>2, <2>3, <2>4, <2>5, <2>6, <2>7, <2>8, <2>9 DEF Serve
<1>6. QED
  BY <1>1, <1>2, <1>3, <1>4, <1>5, GoneOn

LEMMA LeavingQuiet ==
  ASSUME TP!TypeInv, TableInv, PcInv, NEW h \in Handler, Leave(h) PROVE Quiet
<1>1. /\ pc[h] = "finish" /\ at' = at /\ data' = data
      /\ thread[h] \in {"running", "complete"}
      /\ thread' = [thread EXCEPT ![h] = thread'[h]] /\ thread'[h] # "none"
  BY DEF Leave, T!client_handler, TP!TypeInv
<1>2. shared' = shared /\ (Goto(h, "done") \/ pc' = pc)
  BY DEF Leave, Finish, handlerVars
<1>3. NoNewSocket
  BY ClosingTable, SameTable DEF Leave, Finish, handlerVars
<1>4. \A g \in Handler : thread'[g] = "none" => thread[g] = "none"
  BY <1>1 DEF TP!TypeInv
<1>5. pc' = [g \in Handler |-> pc'[g]]
  BY <1>2 DEF PcInv, Goto
<1>6. \A g \in Handler : pc'[g] # pc[g] => Live(g) /\ pc'[g] \notin {"none", "killed"}
  BY <1>1, <1>2 DEF PcInv, Goto, Live
<1>7. QED
  BY <1>1, <1>2, <1>3, <1>4, <1>5, <1>6 DEF Quiet

LEMMA MainQuiet ==
  ASSUME TP!TypeInv, TableInv, PcInv,
         \/ Main /\ ~CreateThread
         \/ T!AcceptFails /\ Elsewhere
         \/ T!signal_handler /\ Elsewhere
  PROVE  Quiet
<1> USE AesdSocketAssumption DEF TP!TypeInv, TP!Context
<1>1. thread' = thread
  BY DEF Main, MutexInit, T!MutexInit, ShutdownDone, T!ShutdownDone, T!Startup, T!Loop,
     T!ListLock, T!insertNode, T!removeCompletedThreads, T!ShutdownLock, T!ShutdownJoin,
     T!AcceptFails, T!signal_handler
<1>2. pc' = pc /\ shared' = shared
  BY DEF Main, MutexInit, ShutdownDone, Elsewhere, handlerVars
<1>3. NoNewSocket
  BY ClosingTable, SameTable DEF Main, MutexInit, ShutdownDone, Elsewhere, handlerVars
<1>4. data' = data \/ T!insertNode
  BY DEF Main, MutexInit, T!MutexInit, ShutdownDone, T!ShutdownDone, T!Startup, T!Loop,
     T!ListLock, T!removeCompletedThreads, T!ShutdownLock, T!ShutdownJoin,
     T!AcceptFails, T!signal_handler
<1>5. at'["main"] = "create" => at["main"] = "create" /\ ~T!insertNode
  <2>1. ASSUME NEW step, T!Goto("main", step) PROVE at'["main"] = step
    BY <2>1 DEF T!Goto
  <2>2. CASE MutexInit \/ T!Startup \/ T!Loop \/ T!ListLock \/ T!insertNode \/ T!AcceptFails
    BY <2>1, <2>2 DEF MutexInit, T!MutexInit, T!Startup, T!Loop, T!ListLock, T!insertNode,
       T!AcceptFails
  <2>3. CASE T!removeCompletedThreads
    BY <2>1, <2>3 DEF T!removeCompletedThreads, T!At, T!insertNode
  <2>4. ASSUME NEW c \in {"main", "signal"}, T!ShutdownLock(c) \/ T!ShutdownJoin(c)
        PROVE  at'["main"] # at["main"] => at'["main"] # "create"
    BY <2>4 DEF T!ShutdownLock, T!ShutdownJoin, T!Goto
  <2>5. ASSUME NEW c \in {"main", "signal"}, T!ShutdownDone(c)
        PROVE  at'["main"] # at["main"] => at'["main"] # "create"
    BY <2>5 DEF T!ShutdownDone, T!Interrupted
  <2>6. ASSUME T!signal_handler PROVE at'["main"] = at["main"]
    <3>1. PICK c \in T!Receivers : T!Goto(c, "shutdown lock")
      BY <2>6 DEF T!signal_handler
    <3>2. c # "main"
      BY DEF T!Receivers
    <3>3. QED
      BY <3>1, <3>2 DEF T!Goto
  <2>7. CASE T!insertNode
    BY <2>1, <2>7 DEF T!insertNode
  <2>8. ASSUME at'["main"] = "create" PROVE at["main"] = "create"
    BY <2>2, <2>3, <2>4, <2>5, <2>6, <2>8 DEF Main, ShutdownDone
  <2>9. QED
    BY <2>7, <2>8
<1>6. QED
  BY <1>1, <1>2, <1>3, <1>4, <1>5 DEF Quiet, PcInv

LEMMA AcceptServed ==
  ASSUME TP!TypeInv, TableInv, ServedInv, at["main"] # "crashed",
         NEW h \in Handler, Accept(h)
  PROVE  ServedInv'
<1> USE AesdSocketAssumption DEF ServedInv, TP!TypeInv, TP!Context
<1> DEFINE n == NewFd
<1>1. /\ thread[h] = "none" /\ thread' = thread /\ data' = h /\ pc' = pc
      /\ shared' = IF Active = {} THEN shared ELSE shared \cup Active \cup {h}
      /\ client_fd' = [client_fd EXCEPT ![h] = n]
      /\ fds' = [fds EXCEPT ![n] = Sock(h)]
      /\ at["main"] = "accept" /\ at'["main"] = "create"
  BY DEF Accept, T!Accept, T!At, T!Goto, AcceptSocket, TableWith
<1>2. /\ \A x \in Fds : fds'[x] = IF x = n THEN Sock(h) ELSE fds[x]
      /\ client_fd' = [x \in Handler |-> IF x = h THEN n ELSE client_fd[x]]
  BY <1>1 DEF TableInv, IsTable
<1> HIDE DEF n
<1>3. PcInv'
  BY <1>1 DEF PcInv
<1>4. \A g \in Handler : Live(g)' <=> Live(g)
  BY <1>1 DEF Live
<1>5. shared \subseteq shared' /\ \A g \in Handler : Live(g) => {g, h} \subseteq shared'
  BY <1>1 DEF Active, Live
<1>6. ASSUME NEW x \in Handler, NEW w \in Handler, Live(x)' \/ x = h, LeadsTo(x, w)', w # x
      PROVE  {x, w} \subseteq shared'
  <2>1. Sock(h).who = h
    BY DEF Sock
  <2>2. x # h
    BY <1>2, <1>6, <2>1 DEF LeadsTo, Behind, FREE
  <2>3. CASE client_fd[x] = n
    BY <1>2, <1>4, <1>5, <1>6, <2>1, <2>2, <2>3 DEF LeadsTo, Behind, FREE
  <2>4. CASE client_fd[x] # n
    <3>1. LeadsTo(x, w)
      BY <1>2, <1>6, <2>2, <2>4 DEF LeadsTo, Behind
    <3>2. QED
      BY <1>4, <1>5, <1>6, <2>2, <3>1 DEF SharedInv
  <2>5. QED
    BY <2>3, <2>4
<1>7. SharedInv'
  BY <1>1, <1>4, <1>5, <1>6 DEF SharedInv
<1>8. QED
  BY <1>3, <1>7

LEMMA CreateServed ==
  ASSUME TP!TypeInv, TP!NodesInv, TableInv, ServedInv, at["main"] # "crashed", CreateThread
  PROVE  ServedInv'
<1> USE AesdSocketAssumption DEF ServedInv, TP!TypeInv, TP!Context
<1>1. /\ Creating /\ ~Creating' /\ at'["main"] # "crashed"
      /\ fds' = fds /\ client_fd' = client_fd /\ shared' = shared
  BY DEF CreateThread, T!CreateThread, T!At, T!Goto, Creating, StartThread
<1>2. data \in Handler /\ thread[data] = "none" /\ pc[data] = "none"
  BY <1>1 DEF TP!NodesInv, Creating, PcInv
<1>3. \A x, w \in Handler : LeadsTo(x, w)' <=> LeadsTo(x, w)
  BY <1>1 DEF LeadsTo, Behind
<1>4. CASE thread' = [thread EXCEPT ![data] = "running"] /\ pc' = [pc EXCEPT ![data] = "recv"]
  <2>1. PcInv'
    BY <1>1, <1>2, <1>4 DEF PcInv
  <2>2. \A g \in Handler : Live(g)' => Live(g) \/ g = data
    BY <1>4 DEF Live, PcInv
  <2>3. SharedInv'
    BY <1>1, <1>2, <1>3, <2>2 DEF SharedInv
  <2>4. QED
    BY <2>1, <2>3
<1>5. CASE thread' = thread /\ pc' = pc
  BY <1>1, <1>3, <1>5 DEF PcInv, SharedInv, Live
<1>6. QED
  BY <1>2, <1>4, <1>5 DEF CreateThread, T!CreateThread, StartThread, Goto

LEMMA KilledServed ==
  ASSUME TP!TypeInv, TableInv, ServedInv, NEW h \in Handler, Killed(h)
  PROVE  ServedInv'
<1>1. /\ pc' = [x \in Handler |-> "killed"] /\ thread' = thread
      /\ fds' = fds /\ client_fd' = client_fd /\ shared' = shared
  BY DEF Killed, Sigpipe, T!Sigpipe
<1>2. at'["main"] = "crashed"
  BY DEF Killed, T!Sigpipe, T!Goto, TP!TypeInv, TP!Context
<1>3. QED
  BY <1>1, <1>2 DEF ServedInv, PcInv, SharedInv, Live, Creating

LEMMA InitServed == Init => ServedInv
<1> SUFFICES ASSUME Init PROVE ServedInv
  OBVIOUS
<1>1. at["main"] = "start" /\ pc = [h \in Handler |-> "none"]
  BY DEF Init, T!Init, T!Context, HandlerInit
<1>2. QED
  BY <1>1 DEF ServedInv, PcInv, SharedInv, Live, Creating

LEMMA NextServed ==
  ASSUME TP!TypeInv, TP!NodesInv, TableInv, ServedInv, [Next]_vars PROVE ServedInv'
<1>1. CASE UNCHANGED vars
  BY <1>1 DEF vars, handlerVars, threads, ServedInv, PcInv, SharedInv, Live, LeadsTo, Behind, Creating
<1>2. ASSUME Next PROVE at["main"] # "crashed"
  BY <1>2 DEF Next, T!Alive
<1>3. CASE Next /\ Main
  BY <1>2, <1>3, CreateServed, MainQuiet, QuietKeeps DEF ServedInv
<1>4. ASSUME Next, NEW h \in Handler, Accept(h) \/ Client(h) \/ Killed(h)
                                      \/ (RecvPiece(h) /\ UNCHANGED threads)
      PROVE  ServedInv'
  BY <1>2, <1>4, AcceptServed, KilledServed, ServingQuiet, LeavingQuiet, QuietKeeps
     DEF Client, ServedInv
<1>5. CASE Next /\ ((T!AcceptFails /\ Elsewhere) \/ (T!signal_handler /\ Elsewhere))
  BY <1>2, <1>5, MainQuiet, QuietKeeps DEF ServedInv
<1>6. QED
  BY <1>1, <1>3, <1>4, <1>5 DEF Next

-----------------------------------------------------------------------------
(* What a thread has in hand.                                               *)

LocalsInv ==
  /\ received \in [Handler -> Nat]
  /\ buffer = [h \in Handler |-> buffer[h]]
  /\ ioctl_found = [h \in Handler |-> ioctl_found[h]]

(* A piece is received, by whomever, or none. *)
MoreReceived ==
  /\ received' \in [Handler -> Nat]
  /\ \A w \in Handler : received'[w] \in {received[w], received[w] + 1}
  /\ shared \subseteq shared'

OthersStay(h) ==
  /\ buffer' = [g \in Handler |-> buffer'[g]]
  /\ ioctl_found' = [g \in Handler |-> ioctl_found'[g]]
  /\ \A g \in Handler : g # h =>
       pc'[g] = pc[g] /\ buffer'[g] = buffer[g] /\ ioctl_found'[g] = ioctl_found[g]

LEMMA Delivery ==
  ASSUME LocalsInv, NEW w, Delivers(w) \/ UNCHANGED received, UNCHANGED shared
  PROVE  MoreReceived
<1>1. CASE UNCHANGED received
  BY <1>1 DEF LocalsInv, MoreReceived
<1>2. CASE Delivers(w)
  <2>1. received' = [received EXCEPT ![w] = received[w] + 1]
    BY <1>2 DEF Delivers
  <2>2. ASSUME NEW x \in Handler
        PROVE  received'[x] \in {received[x], received[x] + 1} /\ received'[x] \in Nat
    <3>1. received[x] \in Nat
      BY DEF LocalsInv
    <3>2. CASE x = w
      BY <2>1, <3>1, <3>2 DEF LocalsInv
    <3>3. CASE x # w
      BY <2>1, <3>1, <3>3 DEF LocalsInv
    <3>4. QED
      BY <3>2, <3>3
  <2>3. received' \in [Handler -> Nat]
    BY <2>1, <2>2 DEF LocalsInv
  <2>4. QED
    BY <2>2, <2>3 DEF MoreReceived
<1>3. QED
  BY <1>1, <1>2

(* What one step of a thread leaves of the others. *)
LEMMA ServingStays ==
  ASSUME PcInv, LocalsInv, NEW h \in Handler,
         Serve(h) \/ Leave(h) \/ RecvPiece(h)
  PROVE  OthersStay(h) /\ MoreReceived
<1>1. \E step : Goto(h, step) \/ pc' = pc
  BY DEF Serve, Write, WriteFd, Ioctl, Lock, OpenDevice, Open, Assign, Close, ReplyRead,
     ReplyUnlock, ReplySend, ReplyClose, RecvPiece, Recv, Leave, Finish, handlerVars
<1>2. \A g \in Handler : g # h => pc'[g] = pc[g]
  BY <1>1 DEF Goto, PcInv
<1>3. \/ buffer' = buffer
      \/ buffer' = [buffer EXCEPT ![h] = buffer'[h]]
  <2>1. CASE RecvPiece(h)
    BY <2>1 DEF RecvPiece, Recv, LocalsInv
  <2>2. CASE ReplyRead(h, Contents(Behind(file_fd)))
    BY <2>2 DEF ReplyRead, LocalsInv
  <2>3. CASE ReplySend(h)
    BY <2>3 DEF ReplySend, LocalsInv
  <2>4. QED
    BY <2>1, <2>2, <2>3 DEF Serve, Write, WriteFd, Ioctl, Lock, OpenDevice, Open, Assign, Close,
       ReplyUnlock, ReplyClose, Leave, Finish, handlerVars
<1>4. \/ ioctl_found' = ioctl_found
      \/ ioctl_found' = [ioctl_found EXCEPT ![h] = ioctl_found'[h]]
  <2>1. CASE RecvPiece(h)
    <3>1. PICK found : ioctl_found' = [ioctl_found EXCEPT ![h] = found]
      BY <2>1 DEF RecvPiece
    <3>2. ioctl_found'[h] = found
      BY <3>1 DEF LocalsInv
    <3>3. QED
      BY <3>1, <3>2
  <2>2. QED
    BY <2>1 DEF Serve, Write, Ioctl, Leave
<1>5. OthersStay(h)
  BY <1>2, <1>3, <1>4 DEF OthersStay, LocalsInv
<1>6. UNCHANGED shared
  BY DEF Serve, Write, WriteFd, Ioctl, Lock, OpenDevice, Open, Assign, Close, ReplyRead,
     ReplyUnlock, ReplySend, ReplyClose, RecvPiece, Recv, Leave, Finish, handlerVars
<1>7. \E w : Delivers(w) \/ UNCHANGED received
  BY DEF Serve, Write, WriteFd, Ioctl, Lock, OpenDevice, Open, Assign, Close, ReplyRead,
     ReplyUnlock, ReplySend, ReplyClose, RecvPiece, Recv, Leave, Finish, handlerVars, Ends
<1>8. QED
  BY <1>5, <1>6, <1>7, Delivery

-----------------------------------------------------------------------------
(* How a thread comes to wait for itself.                                   *)

PartOfCommand(h) ==
  \E w \in Handler : \E i \in 1 .. received[w] :
    Script[w][i] = "seek part" /\ (w = h \/ h \in shared)

(* An ioctl command without its newline leads back to the lock. *)
SelfWait(h) ==
  /\ fileMutex = h => pc[h] # "none"
  /\ fileMutex = h /\ pc[h] \in {"lock", "reply lock", "recv"} => PartOfCommand(h)
  /\ pc[h] = "ioctl" => ioctl_found[h]
  /\ pc[h] \in {"lock", "open", "assign", "ioctl"} /\ ioctl_found[h]
       /\ ~EndsPacket(buffer[h][1]) => PartOfCommand(h)

SelfWaitInv == \A h \in Handler : SelfWait(h)

LEMMA PartStays ==
  ASSUME LocalsInv, MoreReceived, NEW h \in Handler, PartOfCommand(h) PROVE PartOfCommand(h)'
<1>1. PICK w \in Handler : \E i \in 1 .. received[w] :
        Script[w][i] = "seek part" /\ (w = h \/ h \in shared)
  BY DEF PartOfCommand
<1>2. PICK i \in 1 .. received[w] :
        Script[w][i] = "seek part" /\ (w = h \/ h \in shared)
  BY <1>1
<1>3. i \in 1 .. received'[w]
  <2>1. received[w] \in Nat /\ received'[w] \in {received[w], received[w] + 1}
    BY DEF LocalsInv, MoreReceived
  <2>2. i \in 1 .. received[w]
    BY <1>2
  <2>3. QED
    BY <2>1, <2>2
<1>4. QED
  BY <1>2, <1>3 DEF PartOfCommand, MoreReceived

(* A step of one thread, as far as the others go. *)
LEMMA SelfWaitStep ==
  ASSUME LocalsInv, SelfWaitInv, MoreReceived, NEW h \in Handler, OthersStay(h),
         fileMutex' \in {fileMutex, Nobody, DESTROYED, h}, SelfWait(h)'
  PROVE  SelfWaitInv'
<1>1. ASSUME NEW g \in Handler, g # h PROVE SelfWait(g)'
  <2>1. pc'[g] = pc[g] /\ buffer'[g] = buffer[g] /\ ioctl_found'[g] = ioctl_found[g]
    BY <1>1 DEF OthersStay
  <2>2. fileMutex' = g => fileMutex = g
    BY <1>1, ClientHandlerAssumption
  <2>3. PartOfCommand(g) => PartOfCommand(g)'
    BY PartStays
  <2>4. QED
    BY <2>1, <2>2, <2>3 DEF SelfWaitInv, SelfWait, EndsPacket, KindOf
<1>2. QED
  BY <1>1 DEF SelfWaitInv

(* A thread that gets a piece: where it is a command's beginning, or the    *)
(* buffer still holds one, such a piece has been received.                  *)
LEMMA RecvSelfWait ==
  ASSUME PcInv, SharedInv, TableInv, LocalsInv, SelfWaitInv, NEW h \in Handler, RecvPiece(h)
  PROVE  SelfWait(h)'
<1>1. OthersStay(h) /\ MoreReceived
  BY ServingStays
<1>2. pc[h] = "recv" /\ fileMutex' = fileMutex /\ shared' = shared
  BY DEF RecvPiece, Recv
<1>3. Goto(h, "lock") \/ Goto(h, "read") \/ Goto(h, "reply lock")
  BY DEF RecvPiece, Recv
<1>4. pc'[h] \in {"lock", "read", "reply lock"}
  BY <1>3 DEF Goto, PcInv
<1>5. fileMutex' = h => PartOfCommand(h)'
  BY <1>1, <1>2, PartStays DEF SelfWaitInv, SelfWait
<1>6. ASSUME pc'[h] = "lock", ioctl_found'[h], ~EndsPacket(buffer'[h][1])
      PROVE  PartOfCommand(h)'
  <2>1. PICK w : /\ LeadsTo(h, w)
                 /\ received' = [received EXCEPT ![w] = received[w] + 1]
                 /\ buffer' = [buffer EXCEPT ![h] = <<<<w, received[w] + 1>>>>]
    <3>1. pc' # [pc EXCEPT ![h] = IF ioctl_found[h] THEN "read" ELSE "reply lock"]
      BY <1>6 DEF PcInv
    <3>2. QED
      BY <3>1 DEF RecvPiece, Recv, Goto, Delivers, LeadsTo
  <2>2. w \in Handler /\ (w # h => h \in shared)
    <3>1. Live(h)
      BY <1>2 DEF Live
    <3>2. client_fd[h] \in Fds /\ fds[client_fd[h]].kind = "sock"
      BY <2>1 DEF LeadsTo, Behind, FREE
    <3>3. w \in Handler
      BY <2>1, <3>2 DEF TableInv, LeadsTo, Behind
    <3>4. QED
      BY <2>1, <3>1, <3>3 DEF SharedInv
  <2>3. buffer'[h][1] = <<w, received[w] + 1>>
    BY <2>1 DEF LocalsInv
  <2>4. ioctl_found'[h] \in StrstrFinds(h, buffer'[h][1])
    BY <1>6 DEF RecvPiece, LocalsInv
  <2>5. CASE HasCommand(buffer'[h][1])
    <3>1. Script[w][received[w] + 1] = "seek part"
      <4>1. KindOf(buffer'[h][1]) = "seek part"
        BY <1>6, <2>5 DEF HasCommand, EndsPacket
      <4>2. KindOf(buffer'[h][1]) = Script[w][received[w] + 1]
        BY <2>3 DEF KindOf
      <4>3. QED
        BY <4>1, <4>2
    <3>2. received[w] + 1 \in 1 .. received'[w]
      <4>1. received[w] \in Nat /\ received'[w] = received[w] + 1
        BY <2>1, <2>2 DEF LocalsInv
      <4>2. QED
        BY <4>1
    <3>3. QED
      BY <1>2, <2>2, <3>1, <3>2 DEF PartOfCommand
  <2>6. CASE ~HasCommand(buffer'[h][1])
    <3>1. \E x \in IF h \in shared THEN Handler ELSE {h} :
            \E i \in 1 .. received[x] : KindOf(<<x, i>>) = "seek part"
      BY <1>6, <2>4, <2>6 DEF StrstrFinds
    <3>2. PartOfCommand(h)
      BY <3>1 DEF PartOfCommand, KindOf
    <3>3. QED
      BY <1>1, <3>2, PartStays
  <2>7. QED
    BY <2>5, <2>6
<1>7. QED
  BY <1>4, <1>5, <1>6 DEF SelfWait

LEMMA ServeSelfWait ==
  ASSUME PcInv, LocalsInv, SelfWaitInv, NEW h \in Handler, Serve(h) \/ Leave(h)
  PROVE  SelfWait(h)' /\ fileMutex' \in {fileMutex, Nobody, DESTROYED, h}
<1>1. OthersStay(h) /\ MoreReceived
  BY ServingStays
<1>2. PartOfCommand(h) => PartOfCommand(h)'
  BY <1>1, PartStays
<1>3. SelfWait(h)
  BY DEF SelfWaitInv
<1> DEFINE Goal == SelfWait(h)' /\ fileMutex' \in {fileMutex, Nobody, DESTROYED, h}
<1> USE DEF Goto, PcInv
<1>4. CASE Write(h)
  BY <1>4 DEF Write, WriteFd, SelfWait
<1>5. CASE Ioctl(h)
  BY <1>2, <1>3, <1>5 DEF Ioctl, SelfWait
<1>6. CASE Lock(h)
  <2>1. pc[h] \in {"lock", "reply lock"} /\ pc'[h] = IF pc[h] = "lock" THEN "open" ELSE "reply open"
    BY <1>6 DEF Lock
  <2>2. fileMutex' \in {fileMutex, h} /\ UNCHANGED <<buffer, ioctl_found>>
    BY <1>6 DEF Lock, AfterLock, Serve, Leave, Write, WriteFd, Ioctl, OpenDevice, Open
  <2>3. QED
    BY <1>2, <1>3, <2>1, <2>2 DEF SelfWait, EndsPacket, KindOf
<1>7. CASE OpenDevice(h)
  <2>1. pc[h] \in {"open", "reply open"} /\ pc'[h] = IF pc[h] = "open" THEN "assign" ELSE "reply assign"
    BY <1>7 DEF OpenDevice, Open
  <2>2. UNCHANGED <<fileMutex, buffer, ioctl_found>>
    BY <1>7, <2>1 DEF OpenDevice, Open, Serve, Leave, Write, WriteFd, Ioctl, Lock, Assign, Close,
       ReplyRead, ReplyUnlock, ReplySend, ReplyClose
  <2>3. QED
    BY <1>2, <1>3, <2>1, <2>2 DEF SelfWait, EndsPacket, KindOf
<1>8. CASE Assign(h, IF ioctl_found[h] THEN "ioctl" ELSE "write") /\ UNCHANGED ioctl_found
  BY <1>2, <1>3, <1>8 DEF Assign, SelfWait, EndsPacket, KindOf
<1>9. CASE Close(h)
  BY <1>9, ClientHandlerAssumption DEF Close, SelfWait, AfterUnlock
<1>10. CASE ReplyRead(h, Contents(Behind(file_fd)))
  BY <1>10 DEF ReplyRead, SelfWait
<1>11. CASE ReplyUnlock(h) \/ ReplySend(h) \/ ReplyClose(h)
  BY <1>11 DEF ReplyUnlock, ReplySend, ReplyClose, SelfWait, AfterUnlock
<1>12. CASE Leave(h)
  BY <1>12 DEF Leave, Finish, handlerVars, SelfWait
<1>13. QED
  BY <1>4, <1>5, <1>6, <1>7, <1>8, <1>9, <1>10, <1>11, <1>12 DEF Serve

(* main, the signal and the connections leave what a thread has in hand. *)
LocalsSame ==
  buffer' = buffer /\ ioctl_found' = ioctl_found /\ received' = received

LEMMA MainLocals ==
  ASSUME NEW h \in Handler,
         \/ Main \/ Accept(h) \/ Killed(h)
         \/ T!AcceptFails /\ Elsewhere
         \/ T!signal_handler /\ Elsewhere
  PROVE  LocalsSame /\ shared \subseteq shared'
  BY DEF Main, MutexInit, CreateThread, ShutdownDone, Elsewhere, handlerVars, LocalsSame,
     Accept, AcceptSocket, Killed, Sigpipe

LEMMA NextLocals ==
  ASSUME PcInv, LocalsInv, [Next]_vars PROVE LocalsInv' /\ MoreReceived
<1>1. CASE LocalsSame /\ shared \subseteq shared'
  BY <1>1 DEF LocalsSame, LocalsInv, MoreReceived
<1>2. CASE UNCHANGED vars
  BY <1>1, <1>2 DEF vars, handlerVars, LocalsSame
<1>3. ASSUME NEW h \in Handler, Client(h) \/ RecvPiece(h) PROVE LocalsInv' /\ MoreReceived
  <2>1. OthersStay(h) /\ MoreReceived
    BY <1>3, ServingStays DEF Client
  <2>2. QED
    BY <2>1 DEF OthersStay, MoreReceived, LocalsInv
<1>4. ASSUME NEW h \in Handler, Accept(h) \/ Killed(h) PROVE LocalsInv' /\ MoreReceived
  BY <1>1, <1>4, MainLocals
<1>5. CASE Main \/ (T!AcceptFails /\ Elsewhere) \/ (T!signal_handler /\ Elsewhere)
  BY <1>1, <1>5 DEF Main, MutexInit, CreateThread, ShutdownDone, Elsewhere, handlerVars, LocalsSame
<1>6. QED
  BY <1>2, <1>3, <1>4, <1>5 DEF Next

LEMMA NextSelfWait ==
  ASSUME TP!TypeInv, TP!NodesInv, TableInv, ServedInv, LocalsInv, SelfWaitInv, [Next]_vars
  PROVE  SelfWaitInv'
<1> USE DEF ServedInv
<1>1. LocalsInv' /\ MoreReceived
  BY NextLocals
<1>2. ASSUME LocalsSame, pc' = pc, fileMutex' \in {fileMutex, Nobody, DESTROYED}
      PROVE  SelfWaitInv'
  <2>1. ASSUME NEW h \in Handler PROVE SelfWait(h)'
    <3>1. fileMutex' = h => fileMutex = h
      BY <1>2, ClientHandlerAssumption
    <3>2. PartOfCommand(h) => PartOfCommand(h)'
      BY <1>1, PartStays
    <3>3. QED
      BY <1>2, <3>1, <3>2 DEF SelfWaitInv, SelfWait, LocalsSame, EndsPacket, KindOf
  <2>2. QED
    BY <2>1 DEF SelfWaitInv
<1>3. CASE UNCHANGED vars
  BY <1>2, <1>3 DEF vars, handlerVars, LocalsSame
<1>4. CASE Main /\ ~CreateThread
  BY <1>2, <1>4 DEF Main, MutexInit, ShutdownDone, Elsewhere, handlerVars, LocalsSame
<1>5. CASE CreateThread
  <2>1. PICK h \in Handler : h = data /\ pc[h] = "none"
    <3>1. at["main"] = "create"
      BY <1>5 DEF CreateThread, T!CreateThread, T!At
    <3>2. QED
      BY <3>1 DEF TP!NodesInv, PcInv
  <2>2. LocalsSame /\ fileMutex' = fileMutex
    BY <1>5 DEF CreateThread, LocalsSame
  <2>3. CASE Goto(h, "recv")
    <3>1. OthersStay(h)
      BY <2>2, <2>3 DEF OthersStay, LocalsSame, LocalsInv, Goto, PcInv
    <3>2. fileMutex # h
      BY <2>1 DEF SelfWaitInv, SelfWait
    <3>3. pc'[h] = "recv"
      BY <2>3 DEF Goto, PcInv
    <3>4. SelfWait(h)'
      BY <2>2, <3>2, <3>3 DEF SelfWait
    <3>5. QED
      BY <1>1, <2>1, <2>2, <3>1, <3>4, SelfWaitStep
  <2>4. QED
    BY <1>2, <1>5, <2>1, <2>2, <2>3 DEF CreateThread, StartThread
<1>6. ASSUME NEW h \in Handler, Client(h) PROVE SelfWaitInv'
  BY <1>1, <1>6, ServeSelfWait, ServingStays, SelfWaitStep DEF Client
<1>7. ASSUME NEW h \in Handler, RecvPiece(h) PROVE SelfWaitInv'
  <2>1. fileMutex' = fileMutex
    BY <1>7 DEF RecvPiece, Recv
  <2>2. QED
    BY <1>1, <1>7, <2>1, RecvSelfWait, ServingStays, SelfWaitStep
<1>8. ASSUME NEW h \in Handler, Accept(h) PROVE SelfWaitInv'
  BY <1>2, <1>8, MainLocals DEF Accept
<1>9. ASSUME NEW h \in Handler, Killed(h) PROVE SelfWaitInv'
  <2>1. \A g \in Handler : pc'[g] = "killed"
    BY <1>9 DEF Killed, Sigpipe
  <2>2. QED
    BY <2>1 DEF SelfWaitInv, SelfWait
<1>10. CASE Elsewhere
  BY <1>2, <1>10 DEF Elsewhere, handlerVars, LocalsSame
<1>11. QED
  BY <1>3, <1>4, <1>5, <1>6, <1>7, <1>8, <1>9, <1>10 DEF Next

(* Who has a descriptor, who is served beside whom and what everybody has   *)
(* in hand.                                                                 *)
ServerInv == TableInv /\ ServedInv /\ LocalsInv /\ SelfWaitInv

THEOREM ServerInvariant == Spec => []ServerInv
<1>1. Init => ServerInv
  <2> SUFFICES ASSUME Init PROVE ServerInv
    OBVIOUS
  <2>1. TableInv
    BY DEF Init, HandlerInit, TableInv, IsTable, IsObject, FREE
  <2>2. LocalsInv
    BY DEF Init, HandlerInit, LocalsInv
  <2>3. SelfWaitInv
    BY ClientHandlerAssumption DEF Init, HandlerInit, SelfWaitInv, SelfWait
  <2>4. QED
    BY <2>1, <2>2, <2>3, InitServed DEF ServerInv
<1>2. TP!ThreadsInv /\ ServerInv /\ [Next]_vars => ServerInv'
  BY NextTable, NextServed, NextLocals, NextSelfWait DEF TP!ThreadsInv, ServerInv, ServedInv
<1>3. QED
  BY <1>1, <1>2, ServerThreads, PTL DEF Spec

(* A thread that holds fileMutex comes back to its lock only after a piece  *)
(* of an ioctl command without newline, for any number of connections.      *)
THEOREM SelfWaitOnlyAfterPart == Spec => []SelfWaitOnlyAfterPartOfCommand
<1>1. ServerInv => SelfWaitOnlyAfterPartOfCommand
  BY DEF ServerInv, SelfWaitInv, SelfWait, PartOfCommand, SelfWaitOnlyAfterPartOfCommand
<1>2. QED
  BY <1>1, ServerInvariant, PTL

-----------------------------------------------------------------------------
(* What a write adds to the device.                                         *)

Byte == (Handler \X Nat) \cup {NL, JUNK} \cup StoredBytes

DeviceInv ==
  log \in Seq(Seq(Byte)) /\ pending \in Seq(Byte) /\ Len(log) <= Capacity

(* Every piece on the device was there before, d commands further back, or  *)
(* it is c, behind all the others.                                          *)
Adds(c) ==
  \E d \in {0, 1} :
    \A k \in DOMAIN Commands' : \A i \in DOMAIN Commands'[k] : IsPiece(Commands'[k][i]) =>
      \/ /\ k + d \in DOMAIN Commands /\ i \in DOMAIN Commands[k + d]
         /\ Commands[k + d][i] = Commands'[k][i]
      \/ /\ Commands'[k][i] = c
         /\ \A l \in DOMAIN Commands' : \A j \in DOMAIN Commands'[l] :
              Before(k, i, l, j) => ~IsPiece(Commands'[l][j])

LEMMA CommandsAre ==
  ASSUME DeviceInv
  PROVE  /\ Len(log) \in Nat /\ DOMAIN Commands = 1 .. Len(log) + 1
         /\ \A k \in 1 .. Len(log) : Commands[k] = log[k] /\ log[k] \in Seq(Byte)
         /\ Commands[Len(log) + 1] = pending
  BY DEF DeviceInv, Commands

LEMMA OneMorePiece ==
  ASSUME NEW c \in Handler \X Nat, pending \in Seq(Byte)
  PROVE  /\ <<c>> \in Seq(Byte) /\ pending \o <<c>> \in Seq(Byte)
         /\ DOMAIN (pending \o <<c>>) = 1 .. Len(pending) + 1
         /\ \A i \in 1 .. Len(pending) : (pending \o <<c>>)[i] = pending[i]
         /\ (pending \o <<c>>)[Len(pending) + 1] = c
<1>1. c \in Byte
  BY DEF Byte
<1>2. QED
  BY <1>1

LEMMA OneMoreCommand ==
  ASSUME NEW c \in Handler \X Nat, pending \in Seq(Byte)
  PROVE  /\ pending \o <<c, NL>> \in Seq(Byte)
         /\ DOMAIN (pending \o <<c, NL>>) = 1 .. Len(pending) + 2
         /\ \A i \in 1 .. Len(pending) : (pending \o <<c, NL>>)[i] = pending[i]
         /\ (pending \o <<c, NL>>)[Len(pending) + 1] = c
         /\ (pending \o <<c, NL>>)[Len(pending) + 2] = NL
<1>1. c \in Byte /\ NL \in Byte
  BY DEF Byte
<1>2. QED
  BY <1>1

LEMMA NoPieces == ~IsPiece(NL) /\ ~IsPiece(JUNK)
  BY AesdSocketAssumption DEF IsPiece

LEMMA ExtendAdds ==
  ASSUME DeviceInv, NEW c \in Handler \X Nat, pending' = pending \o <<c>>, log' = log
  PROVE  DeviceInv' /\ Adds(c)
<1> DEFINE n == Len(log)
           m == Len(pending)
<1>1. DeviceInv'
  BY OneMorePiece DEF DeviceInv
<1>2. /\ n \in Nat /\ DOMAIN Commands = 1 .. n + 1
      /\ \A k \in 1 .. n : Commands[k] = log[k]
      /\ Commands[n + 1] = pending
  BY CommandsAre
<1>3. /\ DOMAIN Commands' = 1 .. n + 1
      /\ \A k \in 1 .. n : Commands'[k] = log[k]
      /\ Commands'[n + 1] = pending'
  <2>1. (DeviceInv => /\ Len(log) \in Nat /\ DOMAIN Commands = 1 .. Len(log) + 1
                      /\ \A k \in 1 .. Len(log) : Commands[k] = log[k] /\ log[k] \in Seq(Byte)
                      /\ Commands[Len(log) + 1] = pending)'
    BY CommandsAre, PTL
  <2>2. QED
    BY <1>1, <2>1
<1>4. /\ m \in Nat /\ DOMAIN pending = 1 .. m /\ DOMAIN pending' = 1 .. m + 1
      /\ \A i \in 1 .. m : pending'[i] = pending[i]
      /\ pending'[m + 1] = c
  BY OneMorePiece DEF DeviceInv
<1> HIDE DEF n, m
<1>5. ASSUME NEW k \in DOMAIN Commands', NEW i \in DOMAIN Commands'[k]
      PROVE  \/ /\ k + 0 \in DOMAIN Commands /\ i \in DOMAIN Commands[k + 0]
                /\ Commands[k + 0][i] = Commands'[k][i]
             \/ /\ Commands'[k][i] = c
                /\ \A l \in DOMAIN Commands' : \A j \in DOMAIN Commands'[l] : ~Before(k, i, l, j)
  <2>1. CASE k \in 1 .. n
    <3>1. k + 0 = k /\ k \in 1 .. n + 1
      BY <1>2, <2>1
    <3>2. QED
      BY <1>2, <1>3, <1>5, <2>1, <3>1
  <2>2. CASE k = n + 1 /\ i \in 1 .. m
    <3>1. k + 0 = k
      BY <1>2, <2>2
    <3>2. QED
      BY <1>2, <1>3, <1>4, <1>5, <2>2, <3>1
  <2>3. CASE k = n + 1 /\ i = m + 1
    <3>1. \A l \in 1 .. n + 1 : \A j \in DOMAIN Commands'[l] : l = n + 1 => j \in 1 .. m + 1
      BY <1>3, <1>4
    <3>2. \A l \in 1 .. n + 1 : \A j \in DOMAIN Commands'[l] : ~Before(k, i, l, j)
      BY <1>2, <1>4, <2>3, <3>1 DEF Before
    <3>3. QED
      BY <1>3, <1>4, <2>3, <3>2
  <2>4. QED
    <3>1. k \in 1 .. n + 1
      BY <1>3
    <3>2. k \in 1 .. n \/ k = n + 1
      BY <1>2, <3>1
    <3>3. k = n + 1 => i \in 1 .. m + 1
      BY <1>3, <1>4
    <3>4. i \in 1 .. m + 1 => i \in 1 .. m \/ i = m + 1
      BY <1>4
    <3>5. QED
      BY <2>1, <2>2, <2>3, <3>2, <3>3, <3>4
<1>6. Adds(c)
  BY <1>5 DEF Adds
<1>7. QED
  BY <1>1, <1>6

(* The commands that stay when one is added. *)
Kept == IF Len(log) = Capacity THEN Tail(log) ELSE log

LEMMA KeptCommands ==
  ASSUME DeviceInv
  PROVE  /\ Kept \in Seq(Seq(Byte)) /\ Len(Kept) + 1 <= Capacity
         /\ \E d \in {0, 1} : /\ Len(log) = Len(Kept) + d
                              /\ \A k \in 1 .. Len(Kept) : Kept[k] = log[k + d]
<1>1. CASE Len(log) = Capacity
  <2>1. Len(log) \in Nat \ {0}
    BY <1>1, AesdSocketAssumption
  <2>2. /\ Kept \in Seq(Seq(Byte)) /\ Len(log) = Len(Kept) + 1
        /\ \A k \in 1 .. Len(Kept) : Kept[k] = log[k + 1]
    BY <1>1, <2>1 DEF Kept, DeviceInv
  <2>3. QED
    BY <1>1, <2>2
<1>2. CASE Len(log) # Capacity
  <2>1. Kept = log /\ Len(log) \in Nat /\ Len(log) + 1 <= Capacity
    BY <1>2, AesdSocketAssumption DEF Kept, DeviceInv
  <2>2. Len(log) = Len(Kept) + 0 /\ \A k \in 1 .. Len(Kept) : Kept[k] = log[k + 0]
    BY <2>1
  <2>3. QED
    BY <2>1, <2>2 DEF DeviceInv
<1>3. QED
  BY <1>1, <1>2

LEMMA CompleteAdds ==
  ASSUME DeviceInv, NEW c \in Handler \X Nat,
         log' = Append(Kept, pending \o <<c, NL>>), pending' = << >>
  PROVE  DeviceInv' /\ Adds(c)
<1>1. PICK d \in {0, 1} : /\ Len(log) = Len(Kept) + d
                          /\ \A k \in 1 .. Len(Kept) : Kept[k] = log[k + d]
  BY KeptCommands
<1> DEFINE n == Len(Kept)
           m == Len(pending)
<1>2. /\ n \in Nat /\ Len(log') = n + 1
      /\ \A k \in 1 .. n : log'[k] = Kept[k]
      /\ log'[n + 1] = pending \o <<c, NL>>
      /\ log' \in Seq(Seq(Byte))
  BY KeptCommands, OneMoreCommand DEF DeviceInv
<1>3. DeviceInv'
  BY <1>2, KeptCommands DEF DeviceInv
<1>4. /\ Len(log) \in Nat /\ DOMAIN Commands = 1 .. Len(log) + 1
      /\ \A k \in 1 .. Len(log) : Commands[k] = log[k]
      /\ Commands[Len(log) + 1] = pending
  BY CommandsAre
<1>5. /\ DOMAIN Commands' = 1 .. n + 2
      /\ \A k \in 1 .. n : Commands'[k] = Kept[k]
      /\ Commands'[n + 1] = pending \o <<c, NL>>
      /\ Commands'[n + 2] = << >>
  <2>1. (DeviceInv => /\ Len(log) \in Nat /\ DOMAIN Commands = 1 .. Len(log) + 1
                      /\ \A k \in 1 .. Len(log) : Commands[k] = log[k] /\ log[k] \in Seq(Byte)
                      /\ Commands[Len(log) + 1] = pending)'
    BY CommandsAre, PTL
  <2>2. n + 1 + 1 = n + 2
    BY <1>2
  <2>3. /\ DOMAIN Commands' = 1 .. Len(log') + 1
        /\ \A k \in 1 .. Len(log') : Commands'[k] = log'[k]
        /\ Commands'[Len(log') + 1] = << >>
    BY <1>3, <2>1
  <2>4. \A k \in 1 .. n : k \in 1 .. n + 1
    BY <1>2
  <2>5. n + 1 \in 1 .. n + 1
    BY <1>2
  <2>6. QED
    BY <1>2, <2>2, <2>3, <2>4, <2>5
<1>6. /\ m \in Nat /\ DOMAIN pending = 1 .. m /\ DOMAIN (pending \o <<c, NL>>) = 1 .. m + 2
      /\ \A i \in 1 .. m : (pending \o <<c, NL>>)[i] = pending[i]
      /\ (pending \o <<c, NL>>)[m + 1] = c
      /\ (pending \o <<c, NL>>)[m + 2] = NL
  BY OneMoreCommand DEF DeviceInv
<1> HIDE DEF n, m
<1>7. ASSUME NEW k \in DOMAIN Commands', NEW i \in DOMAIN Commands'[k], IsPiece(Commands'[k][i])
      PROVE  \/ /\ k + d \in DOMAIN Commands /\ i \in DOMAIN Commands[k + d]
                /\ Commands[k + d][i] = Commands'[k][i]
             \/ /\ Commands'[k][i] = c
                /\ \A l \in DOMAIN Commands' : \A j \in DOMAIN Commands'[l] :
                     Before(k, i, l, j) => ~IsPiece(Commands'[l][j])
  <2>1. CASE k \in 1 .. n
    <3>1. k + d \in 1 .. Len(log) /\ k + d \in 1 .. Len(log) + 1
      BY <1>1, <1>2, <1>4, <2>1 DEF n
    <3>2. Commands[k + d] = Commands'[k]
      BY <1>1, <1>4, <1>5, <2>1, <3>1 DEF n
    <3>3. QED
      BY <1>4, <1>7, <3>1, <3>2
  <2>2. CASE k = n + 1 /\ i \in 1 .. m
    <3>1. k + d = Len(log) + 1 /\ Len(log) + 1 \in 1 .. Len(log) + 1
      BY <1>1, <1>2, <1>4, <2>2 DEF n
    <3>2. Commands[k + d] = pending /\ i \in DOMAIN pending
      BY <1>4, <1>6, <2>2, <3>1
    <3>3. Commands'[k][i] = pending[i]
      BY <1>5, <1>6, <2>2
    <3>4. QED
      BY <1>4, <3>1, <3>2, <3>3
  <2>3. CASE k = n + 1 /\ i = m + 1
    <3>1. Commands'[k][i] = c
      BY <1>5, <1>6, <2>3
    <3>2. ASSUME NEW l \in DOMAIN Commands', NEW j \in DOMAIN Commands'[l], Before(k, i, l, j)
          PROVE  ~IsPiece(Commands'[l][j])
      <4>1. l \in 1 .. n + 2
        BY <1>5
      <4>2. l # n + 2
        BY <1>5, <3>2
      <4>3. l = n + 1 /\ m + 1 < j
        <5>1. l = n + 1
          BY <1>2, <2>3, <3>2, <4>1, <4>2 DEF Before
        <5>2. QED
          BY <1>2, <2>3, <3>2, <5>1 DEF Before
      <4>4. j \in 1 .. m + 2
        BY <1>5, <1>6, <4>3
      <4>5. j = m + 2
        BY <1>6, <4>3, <4>4
      <4>6. Commands'[l][j] = NL
        BY <1>5, <1>6, <4>3, <4>5
      <4>7. QED
        BY <4>6, NoPieces
    <3>3. QED
      BY <3>1, <3>2
  <2>4. QED
    <3>1. k \in 1 .. n + 2
      BY <1>5
    <3>2. k \in 1 .. n \/ k = n + 1 \/ k = n + 2
      BY <1>2, <3>1
    <3>3. k # n + 2
      BY <1>5
    <3>4. k = n + 1 => i \in 1 .. m + 2
      BY <1>5, <1>6
    <3>5. k = n + 1 => i # m + 2
      BY <1>5, <1>6, <1>7, NoPieces
    <3>6. k = n + 1 => i \in 1 .. m \/ i = m + 1
      BY <1>6, <3>4, <3>5
    <3>7. QED
      BY <2>1, <2>2, <2>3, <3>2, <3>3, <3>6
<1>8. Adds(c)
  BY <1>7 DEF Adds
<1>9. QED
  BY <1>3, <1>8

(* A write without success, or one that finds no memory. *)
LEMMA NothingAdds ==
  ASSUME DeviceInv, NEW c, UNCHANGED device \/ CL!LosePending
  PROVE  DeviceInv' /\ Adds(c)
<1>1. CASE UNCHANGED device
  <2>1. Commands' = Commands /\ DeviceInv'
    BY <1>1 DEF device, Commands, DeviceInv
  <2>2. \A k \in DOMAIN Commands : k + 0 = k
    BY CommandsAre
  <2>3. QED
    BY <2>1, <2>2 DEF Adds
<1>2. CASE CL!LosePending
  <2>1. log' = log /\ pending' = [i \in DOMAIN pending |-> JUNK]
    BY <1>2 DEF CL!LosePending
  <2>2. pending' \in Seq(Byte) /\ DOMAIN pending' = DOMAIN pending
    <3>1. Len(pending) \in Nat /\ DOMAIN pending = 1 .. Len(pending) /\ JUNK \in Byte
      BY DEF DeviceInv, Byte
    <3>2. pending' \in [1 .. Len(pending) -> Byte]
      BY <2>1, <3>1
    <3>3. QED
      BY <2>1, <3>1, <3>2, SeqDef
  <2>3. DeviceInv'
    BY <2>1, <2>2 DEF DeviceInv
  <2>4. /\ Len(log) \in Nat /\ DOMAIN Commands = 1 .. Len(log) + 1
        /\ \A k \in 1 .. Len(log) : Commands[k] = log[k]
        /\ Commands[Len(log) + 1] = pending
    BY CommandsAre
  <2>5. /\ DOMAIN Commands' = 1 .. Len(log) + 1
        /\ \A k \in 1 .. Len(log) : Commands'[k] = log[k]
        /\ Commands'[Len(log) + 1] = pending'
    <3>1. (DeviceInv => /\ Len(log) \in Nat /\ DOMAIN Commands = 1 .. Len(log) + 1
                        /\ \A k \in 1 .. Len(log) : Commands[k] = log[k] /\ log[k] \in Seq(Byte)
                        /\ Commands[Len(log) + 1] = pending)'
      BY CommandsAre, PTL
    <3>2. QED
      BY <2>1, <2>3, <3>1
  <2>6. ASSUME NEW k \in DOMAIN Commands', NEW i \in DOMAIN Commands'[k], IsPiece(Commands'[k][i])
        PROVE  /\ k + 0 \in DOMAIN Commands /\ i \in DOMAIN Commands[k + 0]
               /\ Commands[k + 0][i] = Commands'[k][i]
    <3>1. k + 0 = k /\ (k \in 1 .. Len(log) \/ k = Len(log) + 1)
      BY <2>4, <2>5
    <3>2. k # Len(log) + 1
      BY <2>1, <2>5, <2>6, NoPieces
    <3>3. QED
      BY <2>4, <2>5, <2>6, <3>1, <3>2
  <2>7. QED
    BY <2>3, <2>6 DEF Adds
<1>3. QED
  BY <1>1, <1>2

LEMMA DeviceWriteAdds ==
  ASSUME DeviceInv, NEW c \in Handler \X Nat, DeviceWrite(Bytes(c))
  PROVE  DeviceInv' /\ Adds(c)
<1>1. c # NL /\ Len(<<c>>) = 1 /\ Len(<<c, NL>>) = 2
  BY AesdSocketAssumption
<1>2. CASE CL!Extend(Bytes(c))
  <2>1. Bytes(c) = <<c>>
    BY <1>1, <1>2 DEF CL!Extend, Bytes
  <2>2. QED
    BY <1>2, <2>1, ExtendAdds DEF CL!Extend
<1>3. CASE CL!Complete(Bytes(c))
  <2>1. Bytes(c) = <<c, NL>>
    BY <1>1, <1>3 DEF CL!Complete, Bytes
  <2>2. QED
    BY <1>3, <2>1, CompleteAdds DEF CL!Complete, Kept
<1>4. QED
  BY <1>2, <1>3, NothingAdds DEF DeviceWrite

-----------------------------------------------------------------------------
(* Where a piece that was received is.                                      *)

Carrying(h) == pc[h] \in {"lock", "open", "assign", "write"}
Carried(h)  == buffer[h][1]

OnDevice(b) == \E k \in DOMAIN Commands : \E i \in DOMAIN Commands[k] : Commands[k][i] = b

(* It came from the thread's own client, or both that client and this one   *)
(* are shared; what a connection served alone carries is its last piece.    *)
CarriedInv ==
  \A h \in Handler : Carrying(h) =>
    /\ IsPiece(Carried(h)) /\ ~OnDevice(Carried(h))
    /\ Carried(h)[2] \in 1 .. received[Carried(h)[1]]
    /\ Carried(h)[1] = h \/ Carried(h)[1] \in shared
    /\ h \notin shared => Carried(h) = <<h, received[h]>>
    /\ \A g \in Handler : Carrying(g) /\ g # h => Carried(g) # Carried(h)

MergeInv == DeviceInv /\ CarriedInv /\ DeviceIsMergeOfPieces

(* No thread comes to carry a piece that it did not carry before. *)
NothingNew ==
  /\ shared \subseteq shared'
  /\ \A g \in Handler : Carrying(g)' => Carrying(g) /\ buffer'[g] = buffer[g]

LEMMA NothingNewKeeps ==
  ASSUME MergeInv, NothingNew, UNCHANGED <<device, received>>
  PROVE  MergeInv'
<1>1. Commands' = Commands /\ received' = received /\ DeviceInv'
  BY DEF device, Commands, MergeInv, DeviceInv
<1>2. \A b : OnDevice(b)' <=> OnDevice(b)
  BY <1>1 DEF OnDevice
<1>3. CarriedInv'
  BY <1>1, <1>2 DEF MergeInv, CarriedInv, NothingNew, Carried
<1>4. DeviceIsMergeOfPieces'
  BY <1>1 DEF MergeInv, DeviceIsMergeOfPieces, NothingNew
<1>5. QED
  BY <1>1, <1>3, <1>4 DEF MergeInv

(* The next piece of w is received, by the thread of h. *)
Receives(h, w) ==
  /\ Live(h) /\ ~Carrying(h)
  /\ received' = [received EXCEPT ![w] = received[w] + 1]
  /\ UNCHANGED <<device, shared>>
  /\ OthersStay(h)
  /\ Carrying(h)' => /\ buffer'[h] = <<<<w, received[w] + 1>>>>
                     /\ w = h \/ {h, w} \subseteq shared

LEMMA ReceivesKeeps ==
  ASSUME SharedInv, LocalsInv, MergeInv, NEW h \in Handler, NEW w \in Handler, Receives(h, w)
  PROVE  MergeInv'
<1> DEFINE piece == <<w, received[w] + 1>>
<1>1. Commands' = Commands /\ shared' = shared /\ DeviceInv'
  BY DEF device, Commands, MergeInv, DeviceInv, Receives
<1>2. \A b : OnDevice(b)' <=> OnDevice(b)
  BY <1>1 DEF OnDevice
<1>3. /\ \A x \in Handler : received[x] \in Nat
      /\ received'[w] = received[w] + 1
      /\ \A x \in Handler : x # w => received'[x] = received[x]
  BY DEF LocalsInv, Receives
<1>4. \A x \in Handler : 1 .. received[x] \subseteq 1 .. received'[x]
  <2>1. ASSUME NEW x \in Handler PROVE 1 .. received[x] \subseteq 1 .. received'[x]
    <3>1. received[x] \in Nat /\ (received'[x] = received[x] \/ received'[x] = received[x] + 1)
      BY <1>3
    <3>2. QED
      BY <3>1
  <2>2. QED
    BY <2>1
<1>5. piece[2] \notin 1 .. received[piece[1]] /\ piece[2] \in 1 .. received'[piece[1]]
  BY <1>3
<1>6. \A k \in DOMAIN Commands : \A i \in DOMAIN Commands[k] :
        IsPiece(Commands[k][i]) => Commands[k][i][2] \in 1 .. received[Commands[k][i][1]]
  BY DEF MergeInv, DeviceIsMergeOfPieces
<1>7. IsPiece(piece) /\ ~OnDevice(piece)
  <2>1. IsPiece(piece)
    BY <1>3 DEF IsPiece
  <2>2. QED
    BY <1>5, <1>6, <2>1 DEF OnDevice
<1>8. \A g \in Handler : Carrying(g) => Carried(g) # piece
  BY <1>5 DEF MergeInv, CarriedInv
<1>9. \A g \in Handler : g # h => (Carrying(g)' <=> Carrying(g)) /\ Carried(g)' = Carried(g)
  BY DEF Receives, OthersStay, Carrying, Carried
<1>10. Carrying(h)' => /\ Carried(h)' = piece /\ (w = h \/ {h, w} \subseteq shared)
  BY DEF Receives, Carried
<1> HIDE DEF piece
<1>11. ASSUME NEW g \in Handler, Carrying(g)', g # h
       PROVE  /\ IsPiece(Carried(g)') /\ ~OnDevice(Carried(g))'
              /\ Carried(g)'[2] \in 1 .. received'[Carried(g)'[1]]
              /\ Carried(g)'[1] = g \/ Carried(g)'[1] \in shared'
              /\ g \notin shared' => Carried(g)' = <<g, received'[g]>>
              /\ \A f \in Handler : Carrying(f)' /\ f # g => Carried(f)' # Carried(g)'
  <2>1. Carrying(g) /\ Carried(g)' = Carried(g)
    BY <1>9, <1>11
  <2>2. /\ IsPiece(Carried(g)) /\ ~OnDevice(Carried(g))
        /\ Carried(g)[2] \in 1 .. received[Carried(g)[1]]
        /\ Carried(g)[1] = g \/ Carried(g)[1] \in shared
        /\ g \notin shared => Carried(g) = <<g, received[g]>>
    BY <2>1 DEF MergeInv, CarriedInv
  <2>3. g \notin shared => g # w
    <3>1. Live(g) /\ Live(h)
      BY <2>1 DEF Carrying, Live, Receives
    <3>2. QED
      BY <1>11, <3>1 DEF SharedInv
  <2>4. Carried(g)[2] \in 1 .. received'[Carried(g)[1]]
    BY <1>4, <2>2 DEF IsPiece
  <2>5. ASSUME NEW f \in Handler, Carrying(f)', f # g PROVE Carried(f)' # Carried(g)
    <3>1. CASE f = h
      BY <1>8, <1>10, <2>1, <2>5, <3>1
    <3>2. CASE f # h
      BY <1>9, <2>1, <2>5, <3>2 DEF MergeInv, CarriedInv
    <3>3. QED
      BY <3>1, <3>2
  <2>6. g \notin shared => Carried(g) = <<g, received'[g]>>
    BY <1>3, <2>2, <2>3
  <2>7. ~OnDevice(Carried(g))'
    BY <1>2, <2>1, <2>2
  <2>8. QED
    BY <1>1, <2>1, <2>2, <2>4, <2>5, <2>6, <2>7
<1>12. ASSUME Carrying(h)'
       PROVE  /\ IsPiece(Carried(h)') /\ ~OnDevice(Carried(h))'
              /\ Carried(h)'[2] \in 1 .. received'[Carried(h)'[1]]
              /\ Carried(h)'[1] = h \/ Carried(h)'[1] \in shared'
              /\ h \notin shared' => Carried(h)' = <<h, received'[h]>>
              /\ \A f \in Handler : Carrying(f)' /\ f # h => Carried(f)' # Carried(h)'
  <2>1. Carried(h)' = piece /\ (w = h \/ {h, w} \subseteq shared)
    BY <1>10, <1>12
  <2>2. ~OnDevice(Carried(h))'
    BY <1>2, <1>7, <2>1
  <2>3. piece[1] = w
    BY DEF piece
  <2>4. h \notin shared => piece = <<h, received'[h]>>
    BY <1>3, <2>1 DEF piece
  <2>5. QED
    BY <1>1, <1>5, <1>7, <1>8, <1>9, <2>1, <2>2, <2>3, <2>4
<1>13. CarriedInv'
  <2>1. ASSUME NEW g \in Handler, Carrying(g)'
        PROVE  /\ IsPiece(Carried(g)') /\ ~OnDevice(Carried(g))'
               /\ Carried(g)'[2] \in 1 .. received'[Carried(g)'[1]]
               /\ Carried(g)'[1] = g \/ Carried(g)'[1] \in shared'
               /\ g \notin shared' => Carried(g)' = <<g, received'[g]>>
               /\ \A f \in Handler : Carrying(f)' /\ f # g => Carried(f)' # Carried(g)'
    BY <1>11, <1>12, <2>1
  <2>2. QED
    BY <2>1 DEF CarriedInv
<1>14. DeviceIsMergeOfPieces'
  <2>1. \A k \in DOMAIN Commands : \A i \in DOMAIN Commands[k] :
          IsPiece(Commands[k][i]) => Commands[k][i][2] \in 1 .. received'[Commands[k][i][1]]
    BY <1>4, <1>6 DEF IsPiece
  <2>2. QED
    BY <1>1, <2>1 DEF MergeInv, DeviceIsMergeOfPieces
<1>15. QED
  BY <1>1, <1>13, <1>14 DEF MergeInv

(* A write: the piece it carried is on the device, if anywhere, and no      *)
(* longer with the thread.                                                  *)
LEMMA WriteKeeps ==
  ASSUME PcInv, LocalsInv, MergeInv, NEW h \in Handler, Write(h)
  PROVE  MergeInv'
<1> DEFINE c == Carried(h)
<1>1. /\ pc[h] = "write" /\ pc' = [pc EXCEPT ![h] = "close"]
      /\ buffer' = buffer /\ received' = received /\ shared' = shared
  BY DEF Write, WriteFd, Goto
<1>2. /\ Carrying(h) /\ ~Carrying(h)'
      /\ \A g \in Handler : Carrying(g)' => Carrying(g) /\ g # h /\ Carried(g)' = Carried(g)
  BY <1>1 DEF PcInv, Carrying, Carried
<1>3. /\ c \in Handler \X Nat /\ ~OnDevice(c)
      /\ c[2] \in 1 .. received[c[1]]
      /\ c[1] \notin shared => c = <<c[1], received[c[1]]>>
  BY <1>2 DEF MergeInv, CarriedInv, IsPiece
<1>4. DeviceInv' /\ Adds(c)
  BY <1>3, DeviceWriteAdds, NothingAdds DEF Write, MergeInv, Carried
<1>12. DOMAIN Commands' \subseteq Nat
  BY <1>4 DEF Commands, DeviceInv
<1>5. PICK d \in {0, 1} :
        \A k \in DOMAIN Commands' : \A i \in DOMAIN Commands'[k] : IsPiece(Commands'[k][i]) =>
          \/ /\ k + d \in DOMAIN Commands /\ i \in DOMAIN Commands[k + d]
             /\ Commands[k + d][i] = Commands'[k][i]
          \/ /\ Commands'[k][i] = c
             /\ \A l \in DOMAIN Commands' : \A j \in DOMAIN Commands'[l] :
                  Before(k, i, l, j) => ~IsPiece(Commands'[l][j])
  BY <1>4 DEF Adds
<1> DEFINE Old(k, i) == /\ k + d \in DOMAIN Commands /\ i \in DOMAIN Commands[k + d]
                        /\ Commands[k + d][i] = Commands'[k][i]
<1> HIDE DEF c
<1>6. \A k \in DOMAIN Commands' : \A i \in DOMAIN Commands'[k] : IsPiece(Commands'[k][i]) =>
        Old(k, i) \/ Commands'[k][i] = c
  BY <1>5
<1>7. \A b : IsPiece(b) /\ OnDevice(b)' => OnDevice(b) \/ b = c
  BY <1>6 DEF OnDevice
<1>8. CarriedInv'
  <2>1. ASSUME NEW g \in Handler, Carrying(g)'
        PROVE  Carrying(g) /\ Carried(g)' = Carried(g) /\ ~OnDevice(Carried(g))'
    <3>1. Carrying(g) /\ g # h /\ Carried(g)' = Carried(g)
      BY <1>2, <2>1
    <3>2. IsPiece(Carried(g)) /\ ~OnDevice(Carried(g)) /\ Carried(g) # c
      BY <1>2, <3>1 DEF MergeInv, CarriedInv, c
    <3>3. QED
      BY <1>7, <3>1, <3>2
  <2>2. QED
    BY <1>1, <2>1 DEF MergeInv, CarriedInv
<1>9. ASSUME NEW k \in DOMAIN Commands', NEW l \in DOMAIN Commands',
             NEW i \in DOMAIN Commands'[k], NEW j \in DOMAIN Commands'[l]
      PROVE  /\ IsPiece(Commands'[k][i]) => Commands'[k][i][2] \in 1 .. received[Commands'[k][i][1]]
             /\ IsPiece(Commands'[k][i]) /\ IsPiece(Commands'[l][j]) /\ Before(k, i, l, j) =>
                  /\ Commands'[k][i] # Commands'[l][j]
                  /\ Commands'[k][i][1] = Commands'[l][j][1] /\ Commands'[k][i][1] \notin shared =>
                       Commands'[k][i][2] < Commands'[l][j][2]
  <2> DEFINE p == Commands'[k][i]
             q == Commands'[l][j]
  <2>1. IsPiece(p) /\ Old(k, i) => p[2] \in 1 .. received[p[1]] /\ OnDevice(p)
    BY DEF MergeInv, DeviceIsMergeOfPieces, OnDevice
  <2>2. IsPiece(p) => p[2] \in 1 .. received[p[1]]
    BY <1>3, <1>6, <2>1
  <2>3. ASSUME IsPiece(p), IsPiece(q), Before(k, i, l, j)
        PROVE  /\ p # q
               /\ p[1] = q[1] /\ p[1] \notin shared => p[2] < q[2]
    <3>1. Old(k, i)
      BY <1>5, <2>3
    <3>2. CASE Old(l, j)
      <4>1. k \in Nat /\ l \in Nat /\ d \in Nat
        BY <1>12
      <4>2. Before(k + d, i, l + d, j)
        BY <2>3, <4>1 DEF Before
      <4>3. QED
        BY <2>3, <3>1, <3>2, <4>2 DEF MergeInv, DeviceIsMergeOfPieces
    <3>3. CASE q = c
      <4>1. OnDevice(p) /\ p[2] \in 1 .. received[p[1]]
        BY <2>1, <2>3, <3>1
      <4>2. p # q
        BY <1>3, <3>3, <4>1
      <4>3. ASSUME p[1] = q[1], p[1] \notin shared PROVE p[2] < q[2]
        <5>1. q[2] = received[p[1]]
          <6>1. q = <<q[1], received[q[1]]>>
            BY <1>3, <3>3, <4>3
          <6>2. QED
            BY <4>3, <6>1
        <5>2. p[2] # q[2]
          <6>1. p \in Handler \X Nat /\ q \in Handler \X Nat
            BY <2>3 DEF IsPiece
          <6>2. p = <<p[1], p[2]>> /\ q = <<q[1], q[2]>>
            BY <6>1
          <6>3. QED
            BY <4>2, <4>3, <6>2
        <5>3. p[1] \in Handler
          BY <2>3 DEF IsPiece
        <5>4. received[p[1]] \in Nat
          BY <5>3 DEF LocalsInv
        <5>5. QED
          BY <4>1, <5>1, <5>2, <5>4
      <4>4. QED
        BY <4>2, <4>3
    <3>4. QED
      BY <1>6, <2>3, <3>2, <3>3
  <2>4. QED
    BY <2>2, <2>3
<1>10. DeviceIsMergeOfPieces'
  BY <1>1, <1>9 DEF DeviceIsMergeOfPieces
<1>11. QED
  BY <1>4, <1>8, <1>10 DEF MergeInv


(* A delivery, by recv or by a read of the data file that leads to a socket. *)
LEMMA DeliveryReceives ==
  ASSUME TableInv, PcInv, SharedInv, LocalsInv, NEW h \in Handler, NEW w,
         Live(h), ~Carrying(h), OthersStay(h), Delivers(w), UNCHANGED <<device, shared>>,
         Carrying(h)' => LeadsTo(h, w) /\ buffer'[h] = <<<<w, received[w] + 1>>>>,
         w \in Handler
  PROVE  Receives(h, w)
<1>1. received' = [received EXCEPT ![w] = received[w] + 1]
  BY DEF Delivers
<1>2. Carrying(h)' => w = h \/ {h, w} \subseteq shared
  BY DEF SharedInv
<1>3. QED
  BY <1>1, <1>2 DEF Receives

LEMMA RecvMerge ==
  ASSUME TableInv, PcInv, SharedInv, LocalsInv, MergeInv, NEW h \in Handler, RecvPiece(h)
  PROVE  MergeInv'
<1> DEFINE object == Behind(client_fd[h])
<1>1. /\ pc[h] = "recv" /\ UNCHANGED <<device, shared>> /\ OthersStay(h)
      /\ Live(h) /\ ~Carrying(h)
  BY ServingStays DEF RecvPiece, Recv, Live, Carrying
<1>2. CASE /\ object.kind = "sock" /\ Delivers(object.who)
           /\ buffer' = [buffer EXCEPT ![h] = <<<<object.who, received[object.who] + 1>>>>]
  <2>1. object.who \in Handler /\ LeadsTo(h, object.who)
    BY <1>2 DEF TableInv, Behind, FREE, LeadsTo
  <2>2. buffer'[h] = <<<<object.who, received[object.who] + 1>>>>
    BY <1>2 DEF LocalsInv
  <2>3. Receives(h, object.who)
    BY <1>1, <1>2, <2>1, <2>2, DeliveryReceives
  <2>4. QED
    BY <2>1, <2>3, ReceivesKeeps
<1>3. CASE /\ Goto(h, IF ioctl_found[h] THEN "read" ELSE "reply lock")
           /\ UNCHANGED received
  <2>1. pc'[h] \in {"read", "reply lock"}
    BY <1>3 DEF Goto, PcInv
  <2>2. NothingNew
    BY <1>1, <2>1 DEF NothingNew, OthersStay, Carrying
  <2>3. QED
    BY <1>1, <1>3, <2>2, NothingNewKeeps
<1>4. QED
  BY <1>2, <1>3 DEF RecvPiece, Recv, Ends

LEMMA ReadMerge ==
  ASSUME TableInv, PcInv, SharedInv, LocalsInv, MergeInv, NEW h \in Handler,
         ReplyRead(h, Contents(Behind(file_fd))), UNCHANGED <<device, ioctl_found>>
  PROVE  MergeInv'
<1> DEFINE object == Behind(file_fd)
<1>1. /\ pc[h] = "read" /\ UNCHANGED shared /\ Live(h) /\ ~Carrying(h)
  BY DEF ReplyRead, Live, Carrying
<1>2. pc'[h] \in {"unlock", "reply close"} /\ ~Carrying(h)'
  BY DEF ReplyRead, Goto, PcInv, Carrying
<1>3. OthersStay(h)
  <2>1. \E step : Goto(h, step)
    BY DEF ReplyRead
  <2>2. \A g \in Handler : g # h => pc'[g] = pc[g]
    BY <2>1 DEF Goto, PcInv
  <2>3. buffer' = buffer \/ buffer' = [buffer EXCEPT ![h] = buffer'[h]]
    BY DEF ReplyRead, LocalsInv
  <2>4. QED
    BY <2>2, <2>3 DEF OthersStay, LocalsInv
<1>4. CASE object.kind = "sock" /\ Delivers(object.who)
  <2>1. object.who \in Handler
    BY <1>4 DEF TableInv, Behind, FREE
  <2>2. Receives(h, object.who)
    BY <1>1, <1>2, <1>3, <1>4, <2>1, DeliveryReceives
  <2>3. QED
    BY <2>1, <2>2, ReceivesKeeps
<1>5. CASE UNCHANGED received
  <2>1. NothingNew
    BY <1>1, <1>2, <1>3 DEF NothingNew, OthersStay, Carrying
  <2>2. QED
    BY <1>5, <2>1, NothingNewKeeps
<1>6. QED
  BY <1>4, <1>5 DEF ReplyRead, Ends

(* The steps between a piece's receipt and its write, and all after it. *)
LEMMA ServeMerge ==
  ASSUME TableInv, PcInv, SharedInv, LocalsInv, MergeInv, NEW h \in Handler, Serve(h)
  PROVE  MergeInv'
<1>1. CASE Write(h)
  BY <1>1, WriteKeeps
<1>2. CASE ReplyRead(h, Contents(Behind(file_fd))) /\ UNCHANGED <<device, ioctl_found>>
  BY <1>2, ReadMerge
<1>3. OthersStay(h)
  BY ServingStays
<1>4. CASE Ioctl(h)
  <2>1. Goto(h, "read") \/ Goto(h, "recv")
    BY <1>4 DEF Ioctl
  <2>2. pc'[h] \in {"read", "recv"}
    BY <2>1 DEF Goto, PcInv
  <2>3. NothingNew /\ UNCHANGED <<device, received>>
    BY <1>3, <1>4, <2>2 DEF NothingNew, OthersStay, Carrying, Ioctl
  <2>4. QED
    BY <2>3, NothingNewKeeps
<1>5. CASE Lock(h) /\ UNCHANGED device
  <2>1. pc'[h] = IF pc[h] = "lock" THEN "open" ELSE "reply open"
    BY <1>5 DEF Lock, Goto, PcInv
  <2>2. NothingNew /\ UNCHANGED <<device, received>>
    BY <1>3, <1>5, <2>1 DEF NothingNew, OthersStay, Carrying, Lock
  <2>3. QED
    BY <2>2, NothingNewKeeps
<1>6. CASE OpenDevice(h) /\ UNCHANGED device
  <2>1. pc'[h] = IF pc[h] = "open" THEN "assign" ELSE "reply assign"
    BY <1>6 DEF OpenDevice, Open, Goto, PcInv
  <2>2. NothingNew /\ UNCHANGED <<device, received>>
    BY <1>3, <1>6, <2>1 DEF NothingNew, OthersStay, Carrying, OpenDevice, Open
  <2>3. QED
    BY <2>2, NothingNewKeeps
<1>7. CASE Assign(h, IF ioctl_found[h] THEN "ioctl" ELSE "write") /\ UNCHANGED device
  <2>1. pc[h] = "assign" \/ pc'[h] = "read"
    BY <1>7 DEF Assign, Goto, PcInv
  <2>2. NothingNew /\ UNCHANGED <<device, received>>
    BY <1>3, <1>7, <2>1 DEF NothingNew, OthersStay, Carrying, Assign
  <2>3. QED
    BY <2>2, NothingNewKeeps
<1>8. CASE (Close(h) \/ ReplyUnlock(h) \/ ReplySend(h) \/ ReplyClose(h)) /\ UNCHANGED device
  <2>1. \/ Goto(h, "reply lock") \/ Goto(h, "recv") \/ Goto(h, "send")
        \/ Goto(h, "read") \/ Goto(h, "finish")
    BY <1>8 DEF Close, ReplyUnlock, ReplySend, ReplyClose
  <2>2. pc'[h] \in {"reply lock", "recv", "send", "read", "finish"}
    BY <2>1 DEF Goto, PcInv
  <2>3. UNCHANGED <<device, received, shared>>
    BY <1>8 DEF Close, ReplyUnlock, ReplySend, ReplyClose
  <2>4. NothingNew
    BY <1>3, <2>2, <2>3 DEF NothingNew, OthersStay, Carrying
  <2>5. QED
    BY <2>3, <2>4, NothingNewKeeps
<1>9. QED
  BY <1>1, <1>2, <1>4, <1>5, <1>6, <1>7, <1>8 DEF Serve

LEMMA LeaveMerge ==
  ASSUME PcInv, LocalsInv, MergeInv, NEW h \in Handler, Leave(h)
  PROVE  MergeInv'
<1>1. OthersStay(h)
  BY ServingStays
<1>2. pc[h] = "finish" /\ (pc' = pc \/ Goto(h, "done"))
  BY DEF Leave, Finish, handlerVars
<1>3. ~Carrying(h)'
  BY <1>2 DEF Goto, PcInv, Carrying
<1>4. UNCHANGED <<device, received, shared>>
  BY DEF Leave, Finish, handlerVars
<1>5. NothingNew
  BY <1>1, <1>3, <1>4 DEF NothingNew, OthersStay, Carrying
<1>6. QED
  BY <1>4, <1>5, NothingNewKeeps

(* What main, the signal and the connections do. *)
LEMMA OthersMerge ==
  ASSUME TP!TypeInv, TP!NodesInv, PcInv, LocalsInv, MergeInv,
         \/ Main
         \/ \E h \in Handler : Accept(h) \/ Killed(h)
         \/ T!AcceptFails /\ Elsewhere
         \/ T!signal_handler /\ Elsewhere
  PROVE  MergeInv'
<1>1. LocalsSame /\ shared \subseteq shared'
  <2>1. CASE \E h \in Handler : Accept(h) \/ Killed(h)
    BY <2>1, MainLocals
  <2>2. CASE Main \/ Elsewhere
    BY <2>2 DEF Main, MutexInit, CreateThread, ShutdownDone, Elsewhere, handlerVars, LocalsSame
  <2>3. QED
    BY <2>1, <2>2
<1>2. UNCHANGED device
  BY DEF Main, MutexInit, CreateThread, ShutdownDone, Elsewhere, Accept, Killed
<1>3. \/ pc' = pc
      \/ \E g \in Handler : Goto(g, "recv")
      \/ pc' = [x \in Handler |-> "killed"]
  <2>1. CASE CreateThread
    <3>1. data \in Handler
      <4>1. at["main"] = "create"
        BY <2>1 DEF CreateThread, T!CreateThread, T!At
      <4>2. QED
        BY <4>1 DEF TP!NodesInv
    <3>2. QED
      BY <2>1, <3>1 DEF CreateThread, StartThread
  <2>2. CASE Main /\ ~CreateThread
    BY <2>2 DEF Main, MutexInit, ShutdownDone, Elsewhere, handlerVars
  <2>3. QED
    BY <2>1, <2>2 DEF Elsewhere, handlerVars, Accept, Killed, Sigpipe
<1>4. \A g \in Handler : Carrying(g)' => Carrying(g)
  BY <1>3 DEF Goto, PcInv, Carrying
<1>5. NothingNew
  BY <1>1, <1>4 DEF NothingNew, LocalsSame
<1>6. QED
  BY <1>1, <1>2, <1>5, NothingNewKeeps DEF LocalsSame

LEMMA NextMerge ==
  ASSUME TP!TypeInv, TP!NodesInv, ServerInv, MergeInv, [Next]_vars PROVE MergeInv'
<1> USE DEF ServerInv, ServedInv
<1>1. CASE UNCHANGED vars
  <2>1. UNCHANGED <<device, received>> /\ NothingNew
    BY <1>1 DEF vars, handlerVars, NothingNew, Carrying
  <2>2. QED
    BY <2>1, NothingNewKeeps
<1>2. ASSUME NEW h \in Handler, Client(h) PROVE MergeInv'
  BY <1>2, ServeMerge, LeaveMerge DEF Client
<1>3. ASSUME NEW h \in Handler, RecvPiece(h) PROVE MergeInv'
  BY <1>3, RecvMerge
<1>4. ASSUME NEW h \in Handler, Accept(h) \/ Killed(h) PROVE MergeInv'
  BY <1>4, OthersMerge
<1>5. ASSUME Main \/ (T!AcceptFails /\ Elsewhere) \/ (T!signal_handler /\ Elsewhere)
      PROVE  MergeInv'
  BY <1>5, OthersMerge
<1>6. QED
  BY <1>1, <1>2, <1>3, <1>4, <1>5 DEF Next

LEMMA InitMerge == Init => MergeInv
<1> SUFFICES ASSUME Init PROVE MergeInv
  OBVIOUS
<1>1. log = Stored /\ pending = Unfinished /\ pc = [h \in Handler |-> "none"]
  BY DEF Init, HandlerInit
<1>2. StoredBytes \subseteq Byte /\ \A b \in StoredBytes : ~IsPiece(b)
  BY AesdSocketAssumption DEF Byte, IsPiece
<1>3. /\ log \in Seq(Seq(StoredBytes)) /\ pending \in Seq(StoredBytes)
      /\ log \in Seq(Seq(Byte)) /\ pending \in Seq(Byte)
  <2>1. Seq(StoredBytes) \subseteq Seq(Byte)
    BY <1>2
  <2>2. Seq(Seq(StoredBytes)) \subseteq Seq(Seq(Byte))
    BY <2>1
  <2>3. QED
    BY <1>1, <2>1, <2>2, AesdSocketAssumption
<1>4. DeviceInv
  BY <1>1, <1>3, AesdSocketAssumption DEF DeviceInv
<1>5. ASSUME NEW k \in DOMAIN Commands, NEW i \in DOMAIN Commands[k]
      PROVE  ~IsPiece(Commands[k][i])
  <2>1. Commands[k] \in Seq(StoredBytes)
    BY <1>3 DEF Commands
  <2>2. QED
    BY <1>2, <2>1
<1>6. DeviceIsMergeOfPieces
  BY <1>5 DEF DeviceIsMergeOfPieces
<1>7. CarriedInv
  BY <1>1 DEF CarriedInv, Carrying
<1>8. QED
  BY <1>4, <1>6, <1>7 DEF MergeInv

(* Nothing is on the device that no client sent, nothing twice and nothing  *)
(* of a client served alone out of its order, for any number of             *)
(* connections, however their writes meet and their descriptors get mixed   *)
(* up, whether a write succeeds or not, a thread cannot be created, SIGPIPE *)
(* or a signal comes.                                                       *)
THEOREM DeviceMerges == Spec => []DeviceIsMergeOfPieces
<1>1. MergeInv => DeviceIsMergeOfPieces
  BY DEF MergeInv
<1>2. TP!ThreadsInv /\ ServerInv /\ MergeInv /\ [Next]_vars => MergeInv'
  BY NextMerge DEF TP!ThreadsInv
<1>3. QED
  BY <1>1, <1>2, InitMerge, ServerInvariant, ServerThreads, PTL DEF Spec

-----------------------------------------------------------------------------
(* Numbers, and the text of the device: FlattenSeq is a recursive function, *)
(* and what it yields for the first k commands are the steps of one for     *)
(* them all.                                                                *)

LEMMA SmallestNumber ==
  ASSUME NEW S, S \subseteq Nat, S # {}
  PROVE  Min(S) \in S /\ \A y \in S : Min(S) <= y
<1>1. PICK R : IsWellFoundedOn(R, Nat) /\ \A x, y \in Nat : x < y => <<x, y>> \in R
  <2> DEFINE R == OpToRel(<, Nat)
  <2>1. IsWellFoundedOn(R, Nat)
    BY NatLessThanWellFounded
  <2>2. \A x, y \in Nat : x < y => <<x, y>> \in R
    BY DEF OpToRel
  <2> HIDE DEF R
  <2>3. QED
    BY <2>1, <2>2
<1>2. \E x \in S : \A y \in S : ~(<<y, x>> \in R)
  <2>1. IsWellFoundedOn(R, Nat)
    BY <1>1
  <2>2. QED
    BY <2>1, WFMin
<1>3. \E x \in S : \A y \in S : x =< y
  <2>1. PICK x \in S : \A y \in S : ~(y < x)
    BY <1>1, <1>2
  <2>2. QED
    BY <2>1
<1>4. QED
  BY <1>3 DEF Min

LEMMA SmallerOfTwo ==
  ASSUME NEW a \in Nat, NEW b \in Nat
  PROVE  Min({a, b}) = IF a <= b THEN a ELSE b
<1>1. Min({a, b}) \in {a, b} /\ \A y \in {a, b} : Min({a, b}) <= y
  BY SmallestNumber
<1>2. QED
  BY <1>1

LEMMA NewDescriptor == NewFd = -1 \/ (NewFd \in Fds /\ fds[NewFd] = FREE)
<1>1. FreeFds \subseteq Nat
  BY ClientHandlerAssumption DEF FreeFds
<1>2. FreeFds # {} => Min(FreeFds) \in FreeFds
  BY <1>1, SmallestNumber
<1>3. QED
  BY <1>2 DEF NewFd, FreeFds

LEMMA UpTo ==
  ASSUME NEW n \in Nat, NEW U, 0 \in U, \A k \in 1 .. n : k - 1 \in U => k \in U
  PROVE  \A k \in 0 .. n : k \in U
<1> DEFINE V == (0 .. n) \ U
<1>1. SUFFICES ASSUME V # {} PROVE FALSE
  OBVIOUS
<1>2. V \subseteq Nat
  OBVIOUS
<1>3. PICK k \in V : \A y \in V : k <= y
  <2> HIDE DEF V
  <2>1. QED
    BY <1>1, <1>2, SmallestNumber
<1>4. k \in 1 .. n /\ k - 1 \in U
  BY <1>3
<1>5. QED
  BY <1>3, <1>4

(* F[k] is the first k members of s, one behind the other. *)
Gathers(F, s, n, B) ==
  /\ F \in [0 .. n -> Seq(B)]
  /\ F[0] = << >>
  /\ \A k \in 1 .. n : F[k] = F[k - 1] \o s[k]

LEMMA Gathering ==
  ASSUME NEW B, NEW n \in Nat, NEW s, \A k \in 1 .. n : s[k] \in Seq(B)
  PROVE  \E F : Gathers(F, s, n, B)
<1> DEFINE U == {m \in 0 .. n : \E F : Gathers(F, s, m, B)}
<1>1. 0 \in U
  <2>1. << >> \in Seq(B)
    OBVIOUS
  <2>2. Gathers([k \in 0 .. 0 |-> << >>], s, 0, B)
    BY <2>1 DEF Gathers
  <2>3. QED
    BY <2>2
<1>2. ASSUME NEW m \in 1 .. n, m - 1 \in U PROVE m \in U
  <2>1. PICK F : Gathers(F, s, m - 1, B)
    BY <1>2
  <2>2. /\ F \in [0 .. m - 1 -> Seq(B)]
        /\ F[0] = << >>
        /\ \A k \in 1 .. m - 1 : F[k] = F[k - 1] \o s[k]
    BY <2>1 DEF Gathers
  <2>3. F[m - 1] \in Seq(B) /\ s[m] \in Seq(B)
    BY <2>2
  <2>4. PICK next \in Seq(B) : next = F[m - 1] \o s[m]
    <3>1. F[m - 1] \o s[m] \in Seq(B)
      BY <2>3, ConcatProperties
    <3>2. QED
      BY <3>1
  <2> DEFINE G == [k \in 0 .. m |-> IF k <= m - 1 THEN F[k] ELSE next]
  <2>5. G \in [0 .. m -> Seq(B)] /\ G[0] = << >>
    BY <2>2, <2>4
  <2>6. ASSUME NEW k \in 1 .. m PROVE G[k] = G[k - 1] \o s[k]
    <3>1. G[k - 1] = F[k - 1]
      OBVIOUS
    <3>2. CASE k = m
      <4>1. G[m] = next
        OBVIOUS
      <4>2. QED
        BY <2>4, <3>1, <3>2, <4>1
    <3>3. CASE k # m
      <4>1. k \in 1 .. m - 1 /\ G[k] = F[k]
        BY <3>3
      <4>2. QED
        BY <2>2, <3>1, <4>1
    <3>4. QED
      BY <3>2, <3>3
  <2>7. Gathers(G, s, m, B)
    BY <2>5, <2>6 DEF Gathers
  <2>8. QED
    BY <2>7
<1>3. n \in U
  <2> HIDE DEF U
  <2>1. \A k \in 0 .. n : k \in U
    BY <1>1, <1>2, UpTo
  <2>2. QED
    BY <2>1
<1>4. QED
  BY <1>3

Members(s, n, B) == \A i \in 1 .. n : s[i] \in Seq(B)

FirstOf(t, s, k) == Len(t) = k /\ (t = << >> \/ k # 0) /\ \A i \in 1 .. k : t[i] = s[i]

LEMMA FlattenGathers ==
  ASSUME NEW B, NEW n \in Nat, NEW s, NEW F, Gathers(F, s, n, B), Members(s, n, B),
         NEW k \in 0 .. n, NEW t, FirstOf(t, s, k)
  PROVE  FlattenSeq(t) = F[k]
<1> USE DEF Members, FirstOf
<1>1. /\ F[0] = << >>
      /\ \A i \in 1 .. n : F[i] = F[i - 1] \o s[i]
  BY DEF Gathers
<1>2. CASE k = 0
  <2>1. FlattenSeq(t) = t
    BY <1>2 DEF FlattenSeq
  <2>2. QED
    BY <1>1, <1>2, <2>1
<1>3. CASE k # 0
  <2> DEFINE IsFlat(f) == f = [i \in 1 .. k |-> IF i = 1 THEN t[i] ELSE f[i - 1] \o t[i]]
             f == CHOOSE f : IsFlat(f)
  <2>1. FlattenSeq(t) = f[k]
    BY <1>3 DEF FlattenSeq
  <2>2. \A i \in 1 .. k : i \in 1 .. n /\ (i # 1 => i - 1 \in 1 .. k)
    OBVIOUS
  <2>3. F[1] = s[1]
    <3>1. F[1] = F[0] \o s[1] /\ s[1] \in Seq(B)
      <4>1. 1 \in 1 .. n
        BY <1>3
      <4>2. F[1] = F[1 - 1] \o s[1]
        BY <1>1, <4>1
      <4>3. 1 - 1 = 0
        OBVIOUS
      <4>4. QED
        BY <4>1, <4>2, <4>3
    <3>2. << >> \o s[1] = s[1]
      BY <3>1, ConcatEmptySeq
    <3>3. QED
      BY <1>1, <3>1, <3>2
  <2>4. IsFlat([i \in 1 .. k |-> F[i]])
    <3> DEFINE g == [i \in 1 .. k |-> F[i]]
    <3>1. ASSUME NEW i \in 1 .. k PROVE g[i] = IF i = 1 THEN t[i] ELSE g[i - 1] \o t[i]
      <4>1. F[i] = F[i - 1] \o s[i] /\ t[i] = s[i]
        BY <1>1, <2>2
      <4>2. CASE i = 1
        BY <2>3, <4>1, <4>2
      <4>3. CASE i # 1
        <5>1. g[i - 1] = F[i - 1] /\ g[i] = F[i]
          BY <2>2, <4>3
        <5> HIDE DEF g
        <5>2. g[i] = g[i - 1] \o t[i]
          BY <4>1, <5>1, Zenon
        <5>3. QED
          BY <4>3, <5>2, Zenon
      <4>4. QED
        BY <4>2, <4>3
    <3>2. g = [i \in 1 .. k |-> g[i]]
      OBVIOUS
    <3> HIDE DEF g
    <3>3. [i \in 1 .. k |-> g[i]] = [i \in 1 .. k |-> IF i = 1 THEN t[i] ELSE g[i - 1] \o t[i]]
      BY <3>1, Zenon
    <3>4. IsFlat(g)
      BY <3>2, <3>3, Zenon
    <3>5. QED
      BY <3>4 DEF g
  <2>5. IsFlat(f)
    <3>1. \E g : IsFlat(g)
      BY <2>4
    <3> HIDE DEF IsFlat
    <3>2. QED
      BY <3>1
  <2>6. \A i \in 1 .. k : f[i] = IF i = 1 THEN t[i] ELSE f[i - 1] \o t[i]
    <3> HIDE DEF f
    <3>1. f = [i \in 1 .. k |-> IF i = 1 THEN t[i] ELSE f[i - 1] \o t[i]]
      BY <2>5
    <3>2. QED
      BY <3>1, Zenon
  <2> HIDE DEF f, IsFlat
  <2> DEFINE U == {i \in 0 .. k : i = 0 \/ f[i] = F[i]}
  <2>7. 0 \in U
    OBVIOUS
  <2>8. ASSUME NEW i \in 1 .. k, i - 1 \in U PROVE i \in U
    <3>1. F[i] = F[i - 1] \o s[i] /\ t[i] = s[i]
      BY <1>1, <2>2
    <3>2. CASE i = 1
      <4>1. f[1] = t[1]
        BY <2>6, <3>2
      <4>2. QED
        BY <2>3, <3>1, <3>2, <4>1
    <3>3. CASE i # 1
      <4>1. f[i - 1] = F[i - 1]
        BY <2>8, <3>3
      <4>2. f[i] = f[i - 1] \o t[i]
        BY <2>6, <3>3, Zenon
      <4>3. f[i] = F[i]
        BY <3>1, <4>1, <4>2, Zenon
      <4>4. QED
        BY <4>3
    <3>4. QED
      BY <3>2, <3>3
  <2>9. k \in U
    <3> HIDE DEF U
    <3>1. k \in Nat /\ \A i \in 1 .. k : i - 1 \in U => i \in U
      BY <2>8
    <3>2. \A i \in 0 .. k : i \in U
      BY <2>7, <3>1, UpTo, Zenon
    <3>3. k \in 0 .. k
      BY <3>1
    <3>4. QED
      BY <3>2, <3>3
  <2>10. QED
    BY <1>3, <2>1, <2>9
<1>4. QED
  BY <1>2, <1>3

(* Commands lie one behind the other. *)
LEMMA TextIs ==
  ASSUME DeviceInv
  PROVE  /\ Text \in Seq(Byte) /\ Len(log) \in Nat
         /\ EndOf(Len(log)) = Len(Text)
         /\ \A k \in 0 .. Len(log) : EndOf(k) \in 0 .. Len(Text)
         /\ \A k \in 1 .. Len(log) : EndOf(k - 1) + Len(log[k]) = EndOf(k)
<1>1. PICK n \in Nat : n = Len(log)
  BY DEF DeviceInv
<1>2. \A k \in 1 .. n : log[k] \in Seq(Byte) /\ Len(log[k]) \in Nat
  BY <1>1 DEF DeviceInv
<1>3. PICK F : Gathers(F, log, n, Byte)
  BY <1>2, Gathering
<1>4. /\ F \in [0 .. n -> Seq(Byte)]
      /\ \A k \in 1 .. n : F[k] = F[k - 1] \o log[k]
  BY <1>3 DEF Gathers
<1>5. ASSUME NEW k \in 0 .. n PROVE FlattenSeq(SubSeq(log, 1, k)) = F[k]
  <2>1. /\ Len(SubSeq(log, 1, k)) = k
        /\ SubSeq(log, 1, k) = << >> \/ k # 0
        /\ \A i \in 1 .. k : SubSeq(log, 1, k)[i] = log[i]
    BY <1>1 DEF DeviceInv
  <2>2. PICK t : t = SubSeq(log, 1, k)
    OBVIOUS
  <2>3. FirstOf(t, log, k)
    BY <2>1, <2>2, Zenon DEF FirstOf
  <2>4. Members(log, n, Byte)
    BY <1>2 DEF Members
  <2>5. FlattenSeq(t) = F[k]
    BY <1>3, <2>3, <2>4, FlattenGathers
  <2>6. QED
    BY <2>2, <2>5, Zenon
<1>6. Text = F[n]
  <2>1. SubSeq(log, 1, n) = log
    BY <1>1 DEF DeviceInv
  <2>2. FlattenSeq(SubSeq(log, 1, n)) = F[n]
    BY <1>5
  <2>3. QED
    BY <2>1, <2>2 DEF Text
<1> DEFINE e == [k \in 0 .. n |-> Len(F[k])]
<1>7. \A k \in 0 .. n : EndOf(k) = e[k]
  BY <1>5 DEF EndOf
<1>8. \A k \in 0 .. n : e[k] \in Nat
  BY <1>4
<1>9. ASSUME NEW k \in 1 .. n PROVE e[k] = e[k - 1] + Len(log[k])
  <2>1. k - 1 \in 0 .. n /\ k \in 0 .. n
    OBVIOUS
  <2>2. F[k - 1] \in Seq(Byte) /\ log[k] \in Seq(Byte) /\ F[k] = F[k - 1] \o log[k]
    BY <1>2, <1>4, <2>1
  <2>3. Len(F[k]) = Len(F[k - 1]) + Len(log[k])
    BY <2>2, ConcatProperties
  <2>4. QED
    BY <2>1, <2>3
<1>10. Len(Text) = e[n]
  BY <1>6
<1>11. Text \in Seq(Byte)
  BY <1>4, <1>6
<1> HIDE DEF e
<1> DEFINE U == {k \in 0 .. n : \A j \in 0 .. k : e[j] <= e[k]}
<1>12. 0 \in U
  BY <1>8
<1>13. ASSUME NEW k \in 1 .. n, k - 1 \in U PROVE k \in U
  <2>1. ASSUME NEW j \in 0 .. k PROVE e[j] <= e[k]
    <3>1. CASE j = k
      BY <1>8, <3>1
    <3>2. CASE j # k
      <4>1. j \in 0 .. k - 1 /\ j \in 0 .. n /\ k - 1 \in 0 .. n
        BY <3>2
      <4>2. e[j] <= e[k - 1]
        BY <1>13, <4>1
      <4>3. e[j] \in Nat /\ e[k - 1] \in Nat /\ Len(log[k]) \in Nat /\ e[k] = e[k - 1] + Len(log[k])
        BY <1>2, <1>8, <1>9, <4>1
      <4>4. QED
        BY <4>2, <4>3
    <3>3. QED
      BY <3>1, <3>2
  <2>2. QED
    BY <2>1
<1>14. \A j \in 0 .. n : e[j] <= e[n]
  <2>1. n \in U
    <3> HIDE DEF U
    <3>1. \A k \in 0 .. n : k \in U
      BY <1>12, <1>13, UpTo
    <3>2. QED
      BY <3>1
  <2>2. QED
    BY <2>1
<1>15. \A k \in 0 .. n : EndOf(k) \in 0 .. Len(Text)
  BY <1>7, <1>8, <1>10, <1>14
<1>16. \A k \in 1 .. n : EndOf(k - 1) + Len(log[k]) = EndOf(k)
  <2>1. \A k \in 1 .. n : k - 1 \in 0 .. n /\ k \in 0 .. n
    OBVIOUS
  <2>2. QED
    BY <1>7, <1>9, <2>1
<1>17. EndOf(n) = Len(Text)
  BY <1>7, <1>10
<1>18. QED
  BY <1>1, <1>11, <1>15, <1>16, <1>17

(* A read continues where the position is, and returns nothing only at the  *)
(* end of the text.                                                         *)
LEMMA ContentsContinue ==
  ASSUME DeviceInv, NEW object, NEW p \in 0 .. Len(Text), object.pos = p
  PROVE  \E e \in p .. Len(Text) :
           /\ Len(Contents(object)) = e - p
           /\ \A s \in 0 .. p : SubSeq(Text, s + 1, p) \o Contents(object) = SubSeq(Text, s + 1, e)
           /\ Contents(object) = << >> => e = p /\ p = Len(Text)
<1> DEFINE ends == {EndOf(k) : k \in DOMAIN log}
           rest == {x \in ends : x > p}
           c == Contents(object)
<1>1. /\ Text \in Seq(Byte) /\ Len(log) \in Nat /\ DOMAIN log = 1 .. Len(log)
      /\ Len(Text) \in Nat /\ p \in Nat
  BY TextIs DEF DeviceInv
<1>2. c = IF rest = {} THEN << >> ELSE SubSeq(Text, p + 1, Min(rest \cup {p + BufLen}))
  BY DEF Contents
<1>3. \A x \in ends : x \in 0 .. Len(Text)
  BY <1>1, TextIs
<1>4. CASE rest = {}
  <2>1. p = Len(Text)
    <3>1. CASE Len(log) = 0
      <4>1. Len(Text) = 0
        <5>1. EndOf(0) = 0
          <6>1. SubSeq(log, 1, 0) = << >>
            BY DEF DeviceInv
          <6>2. FlattenSeq(<< >>) = << >>
            BY DEF FlattenSeq
          <6>3. EndOf(0) = Len(<< >>)
            BY <6>1, <6>2, Zenon DEF EndOf
          <6>4. QED
            BY <6>3
        <5>2. QED
          BY <3>1, <5>1, TextIs
      <4>2. QED
        BY <1>1, <4>1
    <3>2. CASE Len(log) # 0
      <4>1. Len(Text) \in ends
        <5>1. Len(log) \in DOMAIN log
          BY <1>1, <3>2
        <5>2. QED
          BY <5>1, TextIs
      <4>2. QED
        BY <1>1, <1>4, <4>1
    <3>3. QED
      BY <3>1, <3>2
  <2>2. c = << >>
    BY <1>2, <1>4
  <2> HIDE DEF c
  <2>3. \A s \in 0 .. p : SubSeq(Text, s + 1, p) \o c = SubSeq(Text, s + 1, p)
    <3>1. \A s \in 0 .. p : SubSeq(Text, s + 1, p) \in Seq(Byte)
      BY <1>1
    <3>2. QED
      BY <2>2, <3>1, ConcatEmptySeq
  <2>4. Len(c) = p - p /\ p \in p .. Len(Text)
    BY <1>1, <2>2
  <2>5. QED
    BY <2>1, <2>3, <2>4 DEF c
<1>5. CASE rest # {}
  <2> DEFINE S == rest \cup {p + BufLen}
  <2>1. S \subseteq Nat /\ \A x \in S : p < x
    <3>1. BufLen \in Nat /\ BufLen > 0
      BY ClientHandlerAssumption
    <3>2. QED
      BY <1>1, <1>3, <3>1
  <2>2. PICK e : e = Min(S)
    OBVIOUS
  <2>3. e \in S /\ \A x \in S : e <= x
    BY <2>1, <2>2, SmallestNumber
  <2>4. e \in Nat /\ p < e /\ e <= Len(Text)
    <3>1. PICK x \in rest : x <= Len(Text) /\ e <= x /\ x \in Nat
      BY <1>1, <1>3, <1>5, <2>3
    <3>2. e \in Nat /\ p < e
      BY <2>1, <2>3
    <3>3. QED
      BY <1>1, <3>1, <3>2
  <2>5. c = SubSeq(Text, p + 1, e)
    BY <1>2, <1>5, <2>2
  <2> HIDE DEF c, S, rest, ends
  <2>6. Len(c) = e - p /\ e \in p .. Len(Text)
    BY <1>1, <2>4, <2>5
  <2>7. c # << >>
    BY <1>1, <2>4, <2>6
  <2>8. ASSUME NEW s \in 0 .. p
        PROVE  SubSeq(Text, s + 1, p) \o c = SubSeq(Text, s + 1, e)
    <3>1. /\ s + 1 \in 1 .. Len(Text) + 1
          /\ p \in (s + 1) - 1 .. Len(Text)
          /\ e \in p .. Len(Text)
      BY <1>1, <2>4
    <3>2. QED
      BY <1>1, <2>5, <3>1, ConcatAdjacentSubSeq
  <2>9. QED
    BY <2>6, <2>7, <2>8 DEF c
<1>6. QED
  BY <1>4, <1>5

-----------------------------------------------------------------------------
(* The reply to a connection that is served alone.                          *)

(* The question that its last piece asked has an answer: none was asked, or *)
(* every position that may have been asked for names a byte; once the ring  *)
(* is full the driver may understand it as any other position.              *)
Answerable(h) ==
  ioctl_found[h] /\ Len(log) < Capacity => \A target \in Asks[h] : NamesByte(target)

(* Where the reply may start. *)
Starts(h) ==
  IF ~ioctl_found[h] THEN {0}
  ELSE IF Len(log) < Capacity THEN {EndOf(target[1]) + target[2] : target \in Asks[h]}
  ELSE 0 .. Len(Text)

(* From its assignment of file_fd to its close a thread works on that. *)
Using(h) ==
  \/ pc[h] \in {"write", "ioctl", "close", "read", "unlock", "send", "reply close"}
  \/ pc[h] = "recv" /\ ioctl_found[h]

(* Nothing has been sent yet. *)
Asking(h) ==
  pc[h] \in {"recv", "lock", "open", "assign", "write", "ioctl", "close", "reply lock", "reply open"}

Replying(h) ==
  \/ pc[h] \in {"reply assign", "read", "unlock", "send", "reply close", "finish"}
  \/ pc[h] = "recv" /\ ioctl_found[h]

Sent(h) == IF pc[h] \in {"unlock", "send"} THEN replies[h] \o buffer[h] ELSE replies[h]

(* What was sent, or is about to be, lies between the start and the          *)
(* position of the descriptor.                                              *)
Answered(h, s, p) ==
  /\ s \in Starts(h) /\ p \in s .. Len(Text)
  /\ Sent(h) = SubSeq(Text, s + 1, p)
  /\ IF pc[h] \in {"reply close", "finish"} THEN p = Len(Text) ELSE fds[opened[h]].pos = p

LEMMA SeeksToStart ==
  ASSUME DeviceInv, NEW h \in Handler, Answerable(h), ioctl_found[h], NEW target \in Asks[h],
         NEW p \in SoughtPositions(0, target)
  PROVE  p \in Starts(h) /\ p \in 0 .. Len(Text)
<1>1. target \in Nat \X Nat
  BY AesdSocketAssumption
<1>2. PICK x \in Nat, y \in Nat : x = target[1] /\ y = target[2]
  BY <1>1
<1>3. Len(log) \in Nat /\ Capacity \in Nat /\ Len(Text) \in Nat
  BY TextIs, AesdSocketAssumption
<1>4. CASE Len(log) < Capacity
  <2>1. x < Len(log) /\ y < SizeOf(x)
    BY <1>2, <1>4 DEF Answerable, NamesByte
  <2>2. SizeOf(x) = Len(log[x + 1]) /\ Len(log[x + 1]) \in Nat
    BY <2>1, <1>3 DEF SizeOf, DeviceInv
  <2>3. Min({x, Len(log)}) = x
    BY <2>1, <1>3, SmallerOfTwo
  <2>4. SoughtFrom(target) = EndOf(x) + y
    BY <1>2, <2>3 DEF SoughtFrom
  <2>5. Len(log) # Capacity /\ ~(x > Capacity) /\ x # Capacity /\ ~(y > SizeOf(x))
    BY <1>3, <1>4, <2>1, <2>2
  <2>6. p = EndOf(x) + y
    BY <1>2, <2>4, <2>5 DEF SoughtPositions
  <2>7. EndOf(x) + y \in 0 .. Len(Text)
    <3>1. x + 1 \in 1 .. Len(log) /\ (x + 1) - 1 = x /\ x \in 0 .. Len(log) /\ x + 1 \in 0 .. Len(log)
      BY <1>3, <2>1
    <3>2. EndOf(x) + Len(log[x + 1]) = EndOf(x + 1)
      BY <3>1, TextIs
    <3>3. EndOf(x) \in 0 .. Len(Text) /\ EndOf(x + 1) \in 0 .. Len(Text)
      BY <3>1, TextIs
    <3>4. QED
      BY <1>3, <2>1, <2>2, <3>2, <3>3
  <2>8. QED
    BY <1>2, <1>4, <2>6, <2>7 DEF Starts
<1>5. CASE ~(Len(log) < Capacity)
  <2>1. Len(log) = Capacity
    BY <1>3, <1>5 DEF DeviceInv
  <2>2. p \in {0} \cup 0 .. Len(Text)
    BY <2>1 DEF SoughtPositions
  <2>3. QED
    BY <1>3, <1>5, <2>2 DEF Starts
<1>6. QED
  BY <1>4, <1>5

Connected(h) == client_fd[h] \in Fds /\ fds[client_fd[h]] = Sock(h)

Alone(h) ==
  /\ Connected(h)
  /\ pc[h] \in {"write", "close", "reply lock", "reply open", "reply assign"} => ~ioctl_found[h]
  /\ Using(h) => file_fd = opened[h]
  /\ Using(h) \/ pc[h] \in {"assign", "reply assign"} =>
       opened[h] = -1 \/ (opened[h] \in Fds /\ fds[opened[h]].kind \in Readable)
  /\ Asking(h) => replies[h] = << >>
  /\ Replying(h) /\ opened[h] # -1 /\ Answerable(h) => \E s, p \in Nat : Answered(h, s, p)
  /\ pc[h] \in {"unlock", "send"} => opened[h] # -1
  /\ pc[h] = "ioctl" => ioctl_found[h]
  /\ pc[h] \in {"assign", "ioctl"} /\ opened[h] # -1 => fds[opened[h]].pos = 0

(* Before a thread has its number it gets no reply, and before it runs it   *)
(* finds no command.                                                        *)
FreshInv ==
  /\ opened = [h \in Handler |-> opened[h]] /\ replies = [h \in Handler |-> replies[h]]
  /\ \A h \in Handler : client_fd[h] = -1 => replies[h] = << >>
  /\ \A h \in Handler : pc[h] = "none" => ~ioctl_found[h]

(* Until a signal comes: its do_shutdown closes file_fd under the thread.   *)
AloneInv ==
  ~isError => \A h \in Handler : h \notin shared =>
    /\ Live(h) => Alone(h)
    /\ Creating /\ data = h => Connected(h) /\ replies[h] = << >>

(* What the steps of its own thread rely on. *)
ServedAlone(h) ==
  /\ TableInv /\ PcInv /\ LocalsInv /\ DeviceInv
  /\ opened = [g \in Handler |-> opened[g]] /\ replies = [g \in Handler |-> replies[g]]
  /\ Live(h) /\ Alone(h)

LEMMA SameQuestion ==
  ASSUME NEW h \in Handler, log' = log, ioctl_found'[h] = ioctl_found[h]
  PROVE  /\ Text' = Text /\ Starts(h)' = Starts(h)
         /\ Answerable(h)' <=> Answerable(h)
  BY DEF Text, Starts, Answerable, EndOf, NamesByte, SizeOf

LEMMA AnswersOn ==
  ASSUME NEW h \in Handler, log' = log, ioctl_found'[h] = ioctl_found[h],
         NEW s \in Nat, NEW p \in Nat, s \in Starts(h), p \in s .. Len(Text),
         Sent(h)' = SubSeq(Text, s + 1, p),
         IF pc'[h] \in {"reply close", "finish"} THEN p = Len(Text) ELSE fds'[opened'[h]].pos = p
  PROVE  (\E u, v \in Nat : Answered(h, u, v))'
<1>1. Answered(h, s, p)'
  BY SameQuestion DEF Answered
<1>2. QED
  BY <1>1

LEMMA EmptyStart ==
  ASSUME DeviceInv, NEW p \in 0 .. Len(Text) PROVE SubSeq(Text, p + 1, p) = << >>
  BY TextIs

(* Two descriptors of the thread are two. *)
LEMMA OwnFile ==
  ASSUME NEW h \in Handler, Connected(h), opened[h] \in Fds, fds[opened[h]].kind \in Readable
  PROVE  client_fd[h] # opened[h]
<1>1. Sock(h).kind = "sock" /\ "sock" \notin Readable
  BY DEF Sock, Readable
<1>2. QED
  BY <1>1 DEF Connected

LEMMA ClosingKeeps ==
  ASSUME NEW h \in Handler, TableInv, Connected(h),
         opened[h] = -1 \/ (opened[h] \in Fds /\ fds[opened[h]].kind \in Readable),
         fds' = TableWithout(opened[h]), client_fd' = client_fd
  PROVE  Connected(h)'
<1>1. CASE opened[h] = -1
  BY <1>1, ClientHandlerAssumption DEF TableWithout, Connected, Sock
<1>2. CASE opened[h] \in Fds /\ fds[opened[h]].kind \in Readable
  BY <1>2, OwnFile DEF TableInv, IsTable, TableWithout, Connected, Sock
<1>3. QED
  BY <1>1, <1>2

LEMMA AloneRecv ==
  ASSUME NEW h \in Handler, ServedAlone(h), RecvPiece(h)
  PROVE  Alone(h)'
<1>1. /\ pc[h] = "recv" /\ Connected(h) /\ replies[h] = << >>
      /\ fds' = fds /\ client_fd' = client_fd /\ opened' = opened /\ replies' = replies
      /\ file_fd' = file_fd /\ log' = log
  BY DEF RecvPiece, Recv, ServedAlone, Alone, Asking, device
<1>2. Connected(h)'
  BY <1>1 DEF Connected, Sock
<1>3. /\ Behind(client_fd[h]).kind = "sock"
  BY <1>1 DEF Connected, Behind, Sock
<1>4. CASE Goto(h, "lock")
  <2>1. pc'[h] = "lock"
    BY <1>4 DEF Goto, ServedAlone, PcInv
  <2>2. QED
    BY <1>1, <1>2, <2>1 DEF Alone, Using, Asking, Replying
<1>5. CASE Goto(h, IF ioctl_found[h] THEN "read" ELSE "reply lock")
  <2>1. pc'[h] = IF ioctl_found[h] THEN "read" ELSE "reply lock"
    BY <1>5 DEF Goto, ServedAlone, PcInv
  <2>2. ioctl_found'[h] = ioctl_found[h]
    <3>1. pc'[h] # "lock"
      BY <2>1
    <3>2. ioctl_found' = [ioctl_found EXCEPT ![h] = ioctl_found[h]]
      BY <3>1 DEF RecvPiece
    <3>3. QED
      BY <3>2 DEF ServedAlone, LocalsInv
  <2>3. CASE ioctl_found[h]
    <3>1. /\ file_fd = opened[h]
          /\ opened[h] = -1 \/ (opened[h] \in Fds /\ fds[opened[h]].kind \in Readable)
      BY <1>1, <2>3 DEF ServedAlone, Alone, Using
    <3>2. ASSUME opened[h] # -1, Answerable(h)
          PROVE  (\E u, v \in Nat : Answered(h, u, v))'
      <4>1. PICK s \in Nat, p \in Nat : Answered(h, s, p)
        BY <1>1, <2>3, <3>2 DEF ServedAlone, Alone, Replying
      <4>2. /\ s \in Starts(h) /\ p \in s .. Len(Text)
            /\ replies[h] = SubSeq(Text, s + 1, p) /\ fds[opened[h]].pos = p
        BY <1>1, <4>1 DEF Answered, Sent
      <4>3. Sent(h)' = replies[h] /\ fds'[opened'[h]].pos = p
        BY <1>1, <2>1, <2>3, <4>2 DEF Sent
      <4>4. QED
        BY <1>1, <2>1, <2>2, <2>3, <4>2, <4>3, AnswersOn
    <3>3. Answerable(h)' => Answerable(h)
      BY <1>1, <2>2, SameQuestion
    <3>4. QED
      BY <1>1, <1>2, <2>1, <2>3, <3>1, <3>2, <3>3 DEF Alone, Using, Asking, Replying
  <2>4. CASE ~ioctl_found[h]
    BY <1>1, <1>2, <2>1, <2>2, <2>4 DEF Alone, Using, Asking, Replying
  <2>5. QED
    BY <2>3, <2>4
<1>6. QED
  BY <1>3, <1>4, <1>5 DEF RecvPiece, Recv

LEMMA AloneLock ==
  ASSUME NEW h \in Handler, ServedAlone(h), Lock(h), UNCHANGED <<device, ioctl_found>>
  PROVE  Alone(h)'
<1>1. /\ pc[h] \in {"lock", "reply lock"}
      /\ pc'[h] = IF pc[h] = "lock" THEN "open" ELSE "reply open"
      /\ fds' = fds /\ client_fd' = client_fd /\ opened' = opened /\ replies' = replies
      /\ ioctl_found' = ioctl_found
  BY DEF Lock, Goto, ServedAlone, PcInv
<1>2. /\ Connected(h) /\ replies[h] = << >>
      /\ pc[h] = "reply lock" => ~ioctl_found[h]
  BY <1>1 DEF ServedAlone, Alone, Asking
<1>3. Connected(h)'
  BY <1>1, <1>2 DEF Connected, Sock
<1>4. QED
  BY <1>1, <1>2, <1>3 DEF Alone, Using, Asking, Replying

LEMMA AloneOpen ==
  ASSUME NEW h \in Handler, ServedAlone(h), OpenDevice(h), UNCHANGED <<device, ioctl_found>>
  PROVE  Alone(h)'
<1> DEFINE kind == CASE pc[h] = "reply open"                 -> "read only"
                     [] pc[h] = "open" /\ ioctl_found[h]     -> "read write"
                     [] OTHER                                -> "append"
<1>1. /\ pc[h] \in {"open", "reply open"}
      /\ pc'[h] = IF pc[h] = "open" THEN "assign" ELSE "reply assign"
      /\ fds' = TableWith(NewFd, DATA_FILE(kind)) /\ opened'[h] = NewFd
      /\ client_fd' = client_fd /\ replies' = replies /\ log' = log
      /\ ioctl_found' = ioctl_found
  BY DEF OpenDevice, Open, Goto, ServedAlone, PcInv, device
<1>2. /\ Connected(h) /\ replies[h] = << >>
      /\ pc[h] = "reply open" => ~ioctl_found[h]
  BY <1>1 DEF ServedAlone, Alone, Asking
<1>3. kind \in Readable
  BY DEF Readable
<1> HIDE DEF kind
<1>4. NewFd = -1 \/ (NewFd \in Fds /\ fds[NewFd] = FREE)
  BY NewDescriptor
<1>5. Connected(h)' /\ (NewFd # -1 => NewFd \in Fds /\ fds'[NewFd] = DATA_FILE(kind))
  <2>1. CASE NewFd = -1
    BY <1>1, <1>2, <2>1 DEF TableWith, Connected, Sock
  <2>2. CASE NewFd # -1
    <3>1. NewFd # client_fd[h]
      <4>1. Sock(h).kind = "sock" /\ FREE.kind = "free"
        BY DEF Sock, FREE
      <4>2. QED
        BY <1>2, <1>4, <2>2, <4>1 DEF Connected
    <3>2. fds' = [fds EXCEPT ![NewFd] = DATA_FILE(kind)]
      BY <1>1, <2>2 DEF TableWith
    <3>3. QED
      BY <1>1, <1>2, <1>4, <2>2, <3>1, <3>2 DEF Connected, Sock, ServedAlone, TableInv, IsTable
  <2>3. QED
    BY <2>1, <2>2
<1>6. DATA_FILE(kind).kind = kind /\ DATA_FILE(kind).pos = 0
  BY DEF DATA_FILE
<1>7. CASE pc[h] = "open"
  BY <1>1, <1>2, <1>3, <1>5, <1>6, <1>7 DEF Alone, Using, Asking, Replying
<1>8. CASE pc[h] = "reply open"
  <2>1. ASSUME NewFd # -1 PROVE (\E u, v \in Nat : Answered(h, u, v))'
    <3>1. DeviceInv /\ 0 \in 0 .. Len(Text) /\ 0 \in Nat
      BY TextIs DEF ServedAlone
    <3>2. Sent(h)' = SubSeq(Text, 0 + 1, 0)
      BY <1>1, <1>2, <1>8, <3>1, EmptyStart DEF Sent
    <3>3. 0 \in Starts(h)
      BY <1>2, <1>8 DEF Starts
    <3>4. fds'[opened'[h]].pos = 0 /\ pc'[h] \notin {"reply close", "finish"}
      BY <1>1, <1>5, <1>6, <1>8, <2>1
    <3>5. QED
      BY <1>1, <3>1, <3>2, <3>3, <3>4, AnswersOn
  <2>2. pc'[h] = "reply assign" /\ ~ioctl_found'[h]
    BY <1>1, <1>2, <1>8
  <2>3. QED
    BY <1>1, <1>3, <1>5, <1>6, <2>1, <2>2 DEF Alone, Using, Asking, Replying
<1>9. QED
  BY <1>1, <1>7, <1>8

LEMMA AloneAssign ==
  ASSUME NEW h \in Handler, ServedAlone(h),
         Assign(h, IF ioctl_found[h] THEN "ioctl" ELSE "write"), UNCHANGED <<device, ioctl_found>>
  PROVE  Alone(h)'
<1>1. /\ pc[h] \in {"assign", "reply assign"} /\ file_fd' = opened[h]
      /\ pc'[h] = IF pc[h] = "assign" THEN (IF ioctl_found[h] THEN "ioctl" ELSE "write") ELSE "read"
      /\ fds' = fds /\ client_fd' = client_fd /\ opened' = opened /\ replies' = replies
      /\ ioctl_found' = ioctl_found /\ log' = log
  BY DEF Assign, Goto, ServedAlone, PcInv, device
<1>2. /\ Connected(h)
      /\ opened[h] = -1 \/ (opened[h] \in Fds /\ fds[opened[h]].kind \in Readable)
      /\ pc[h] = "assign" => replies[h] = << >>
      /\ pc[h] = "assign" /\ opened[h] # -1 => fds[opened[h]].pos = 0
  BY <1>1 DEF ServedAlone, Alone, Asking
<1>3. Connected(h)'
  BY <1>1, <1>2 DEF Connected, Sock
<1>4. CASE pc[h] = "assign"
  BY <1>1, <1>2, <1>3, <1>4 DEF Alone, Using, Asking, Replying
<1>5. CASE pc[h] = "reply assign"
  <2>1. ASSUME opened[h] # -1, Answerable(h)'
        PROVE  (\E u, v \in Nat : Answered(h, u, v))'
    <3>1. Answerable(h)
      BY <1>1, <2>1, SameQuestion
    <3>2. PICK s \in Nat, p \in Nat : Answered(h, s, p)
      BY <1>5, <2>1, <3>1 DEF ServedAlone, Alone, Replying
    <3>3. /\ s \in Starts(h) /\ p \in s .. Len(Text)
          /\ Sent(h)' = SubSeq(Text, s + 1, p) /\ fds'[opened'[h]].pos = p
      BY <1>1, <1>5, <3>2 DEF Answered, Sent
    <3>4. QED
      BY <1>1, <1>5, <3>3, AnswersOn
  <2>2. QED
    BY <1>1, <1>2, <1>3, <1>5, <2>1 DEF Alone, Using, Asking, Replying
<1>6. QED
  BY <1>1, <1>4, <1>5

LEMMA AloneWrite ==
  ASSUME NEW h \in Handler, ServedAlone(h), Write(h)
  PROVE  Alone(h)'
<1>1. /\ pc[h] = "write" /\ pc'[h] = "close"
      /\ fds' = fds /\ client_fd' = client_fd /\ opened' = opened /\ file_fd' = file_fd
      /\ ioctl_found' = ioctl_found
      /\ replies' = RepliesWith(Behind(file_fd), Bytes(buffer[h][1]))
  BY DEF Write, WriteFd, Goto, ServedAlone, PcInv
<1>2. /\ Connected(h) /\ file_fd = opened[h] /\ replies[h] = << >> /\ ~ioctl_found[h]
      /\ opened[h] = -1 \/ (opened[h] \in Fds /\ fds[opened[h]].kind \in Readable)
  BY <1>1 DEF ServedAlone, Alone, Asking, Using
<1>3. Connected(h)'
  BY <1>1, <1>2 DEF Connected, Sock
<1>4. replies' = replies
  <2>1. Behind(file_fd).kind # "sock"
    <3>1. CASE opened[h] = -1
      <4>1. Behind(file_fd) = FREE
        BY <1>2, <3>1, ClientHandlerAssumption DEF Behind
      <4>2. QED
        BY <4>1 DEF FREE
    <3>2. CASE opened[h] # -1
      BY <1>2, <3>2 DEF Behind, Readable
    <3>3. QED
      BY <3>1, <3>2
  <2>2. QED
    BY <1>1, <2>1 DEF RepliesWith
<1>5. QED
  BY <1>1, <1>2, <1>3, <1>4 DEF Alone, Using, Asking, Replying

LEMMA AloneClose ==
  ASSUME NEW h \in Handler, ServedAlone(h), Close(h), UNCHANGED <<device, ioctl_found>>
  PROVE  Alone(h)'
<1>1. /\ pc[h] = "close" /\ pc'[h] \in {"reply lock", "recv"}
      /\ fds' = TableWithout(file_fd) /\ client_fd' = client_fd /\ opened' = opened
      /\ ioctl_found' = ioctl_found /\ replies' = replies
  <2>1. Goto(h, "reply lock") \/ Goto(h, "recv")
    BY DEF Close
  <2>2. QED
    BY <2>1 DEF Close, Goto, ServedAlone, PcInv
<1>2. /\ Connected(h) /\ file_fd = opened[h] /\ replies[h] = << >> /\ ~ioctl_found[h]
      /\ opened[h] = -1 \/ (opened[h] \in Fds /\ fds[opened[h]].kind \in Readable)
  BY <1>1 DEF ServedAlone, Alone, Asking, Using
<1>3. Connected(h)'
  BY <1>1, <1>2, ClosingKeeps DEF ServedAlone
<1>4. QED
  BY <1>1, <1>2, <1>3 DEF Alone, Using, Asking, Replying

LEMMA AloneIoctl ==
  ASSUME NEW h \in Handler, ServedAlone(h), Ioctl(h)
  PROVE  Alone(h)'
<1> DEFINE object == Behind(file_fd)
<1>1. /\ pc[h] = "ioctl" /\ pc'[h] \in {"read", "recv"}
      /\ client_fd' = client_fd /\ opened' = opened /\ file_fd' = file_fd /\ log' = log
      /\ ioctl_found' = ioctl_found /\ replies' = replies
  <2>1. Goto(h, "read") \/ Goto(h, "recv")
    BY DEF Ioctl
  <2>2. QED
    BY <2>1 DEF Ioctl, Goto, ServedAlone, PcInv, device
<1>2. /\ Connected(h) /\ file_fd = opened[h] /\ replies[h] = << >>
      /\ opened[h] = -1 \/ (opened[h] \in Fds /\ fds[opened[h]].kind \in Readable)
  BY <1>1 DEF ServedAlone, Alone, Asking, Using
<1>3. CASE opened[h] = -1
  <2>1. object = FREE /\ FREE.kind \notin Readable
    BY <1>2, <1>3, ClientHandlerAssumption DEF Behind, FREE, Readable
  <2>2. fds' = fds
    BY <2>1 DEF Ioctl
  <2>3. Connected(h)'
    BY <1>1, <1>2, <2>2 DEF Connected, Sock
  <2>4. QED
    BY <1>1, <1>2, <1>3, <2>3 DEF Alone, Using, Asking, Replying
<1>4. CASE opened[h] \in Fds /\ fds[opened[h]].kind \in Readable
  <2>1. object = fds[opened[h]]
    BY <1>2, <1>4 DEF Behind
  <2>2. PICK target \in Asks[h] : \E p \in SoughtPositions(object.pos, target) :
          fds' = [fds EXCEPT ![file_fd].pos = p]
    BY <1>4, <2>1 DEF Ioctl
  <2>3. PICK p \in SoughtPositions(object.pos, target) : fds' = [fds EXCEPT ![opened[h]].pos = p]
    BY <1>2, <2>2
  <2>4. fds' = [fds EXCEPT ![opened[h]] = [fds[opened[h]] EXCEPT !.pos = p]]
    BY <2>3
  <2> HIDE DEF object
  <2>5. fds'[opened[h]] = [fds[opened[h]] EXCEPT !.pos = p]
    BY <1>4, <2>4 DEF ServedAlone, TableInv, IsTable
  <2>6. fds'[opened[h]].pos = p /\ fds'[opened[h]].kind \in Readable
    <3>1. fds[opened[h]] = [kind |-> fds[opened[h]].kind, who |-> fds[opened[h]].who,
                            pos |-> fds[opened[h]].pos]
      BY <1>4 DEF ServedAlone, TableInv, IsTable, IsObject
    <3>2. fds'[opened[h]] = [kind |-> fds[opened[h]].kind, who |-> fds[opened[h]].who, pos |-> p]
      BY <2>5, <3>1
    <3>3. QED
      BY <1>4, <3>2
  <2>7. Connected(h)'
    <3>1. client_fd[h] # opened[h]
      BY <1>2, <1>4, OwnFile
    <3>2. fds'[client_fd[h]] = fds[client_fd[h]]
      BY <1>2, <2>4, <3>1 DEF Connected, ServedAlone, TableInv, IsTable
    <3>3. QED
      BY <1>1, <1>2, <3>2 DEF Connected, Sock
  <2>8. ASSUME Answerable(h), ioctl_found[h] PROVE (\E u, v \in Nat : Answered(h, u, v))'
    <3>1. DeviceInv
      BY DEF ServedAlone
    <3>2. p \in Starts(h) /\ p \in 0 .. Len(Text)
      <4>1. object.pos = 0
        BY <1>1, <1>4, <2>1, ClientHandlerAssumption DEF ServedAlone, Alone
      <4>2. p \in SoughtPositions(0, target)
        BY <2>3, <4>1
      <4>3. QED
        BY <2>8, <3>1, <4>2, SeeksToStart
    <3>3. p \in Nat /\ p \in p .. Len(Text)
      BY <3>1, <3>2, TextIs
    <3>4. Sent(h)' = SubSeq(Text, p + 1, p)
      BY <1>1, <1>2, <3>1, <3>2, EmptyStart DEF Sent
    <3>5. QED
      BY <1>1, <2>6, <3>2, <3>3, <3>4, AnswersOn
  <2>9. ioctl_found[h]
    BY <1>1 DEF ServedAlone, Alone
  <2>10. Answerable(h)' => Answerable(h)
    BY <1>1, SameQuestion
  <2>11. QED
    BY <1>1, <1>2, <1>4, <2>6, <2>7, <2>8, <2>9, <2>10 DEF Alone, Using, Asking, Replying
<1>5. QED
  BY <1>2, <1>3, <1>4

LEMMA AloneReplyRead ==
  ASSUME NEW h \in Handler, ServedAlone(h), ReplyRead(h, Contents(Behind(file_fd))),
         UNCHANGED <<device, ioctl_found>>
  PROVE  Alone(h)'
<1> DEFINE object == Behind(file_fd)
<1>1. /\ pc[h] = "read"
      /\ client_fd' = client_fd /\ opened' = opened /\ file_fd' = file_fd /\ log' = log
      /\ ioctl_found' = ioctl_found /\ replies' = replies
  BY DEF ReplyRead, device
<1>2. /\ Connected(h) /\ file_fd = opened[h]
      /\ opened[h] = -1 \/ (opened[h] \in Fds /\ fds[opened[h]].kind \in Readable)
  BY <1>1 DEF ServedAlone, Alone, Using
<1>3. CASE opened[h] = -1
  <2>1. object = FREE /\ FREE.kind \notin Readable /\ FREE.kind # "sock"
    BY <1>2, <1>3, ClientHandlerAssumption DEF Behind, FREE, Readable
  <2>2. fds' = fds /\ Goto(h, "reply close")
    BY <2>1 DEF ReplyRead
  <2>3. pc'[h] = "reply close"
    BY <2>2 DEF Goto, ServedAlone, PcInv
  <2>4. Connected(h)'
    BY <1>1, <1>2, <2>2 DEF Connected, Sock
  <2>5. QED
    BY <1>1, <1>2, <1>3, <2>3, <2>4 DEF Alone, Using, Asking, Replying
<1>4. CASE opened[h] \in Fds /\ fds[opened[h]].kind \in Readable
  <2>1. opened[h] # -1
    BY <1>4, ClientHandlerAssumption
  <2>2. object = fds[opened[h]] /\ object.kind # "sock" /\ object.kind # "free"
    BY <1>2, <1>4 DEF Behind, Readable
  <2>3. Answerable(h)' => Answerable(h)
    BY <1>1, SameQuestion
  <2>4. DeviceInv
    BY DEF ServedAlone
  <2>5. ASSUME Answerable(h)
        PROVE  \E s, p \in Nat :
                 /\ s \in Starts(h) /\ p \in s .. Len(Text)
                 /\ replies[h] = SubSeq(Text, s + 1, p) /\ object.pos = p
    <3>1. PICK s \in Nat, p \in Nat : Answered(h, s, p)
      BY <1>1, <2>1, <2>5 DEF ServedAlone, Alone, Replying
    <3>2. QED
      BY <1>1, <2>2, <3>1 DEF Answered, Sent
  <2> DEFINE bytes == Contents(object)
  <2>6. \/ /\ fds' = [fds EXCEPT ![file_fd].pos = @ + Len(bytes)]
           /\ buffer' = [buffer EXCEPT ![h] = bytes]
           /\ Goto(h, "unlock")
        \/ /\ bytes = << >> /\ fds' = fds /\ Goto(h, "reply close")
    BY <2>2 DEF ReplyRead
  <2>7. ASSUME NEW s \in Nat, NEW p \in Nat,
               s \in Starts(h), p \in s .. Len(Text),
               replies[h] = SubSeq(Text, s + 1, p), object.pos = p
        PROVE  /\ bytes = << >> => p = Len(Text)
               /\ p + Len(bytes) \in s .. Len(Text)
               /\ p + Len(bytes) \in Nat
               /\ replies[h] \o bytes = SubSeq(Text, s + 1, p + Len(bytes))
    <3>1. p \in 0 .. Len(Text) /\ s \in 0 .. p /\ Len(Text) \in Nat
      BY <2>4, <2>7, TextIs
    <3>2. PICK e \in p .. Len(Text) :
            /\ Len(bytes) = e - p
            /\ \A x \in 0 .. p : SubSeq(Text, x + 1, p) \o bytes = SubSeq(Text, x + 1, e)
            /\ bytes = << >> => e = p /\ p = Len(Text)
      BY <2>4, <2>7, <3>1, ContentsContinue
    <3> HIDE DEF bytes
    <3>3. p + Len(bytes) = e /\ e \in Nat /\ e \in s .. Len(Text)
      BY <3>1, <3>2
    <3>4. QED
      BY <2>7, <3>1, <3>2, <3>3
  <2> HIDE DEF bytes, object
  <2>8. CASE /\ fds' = [fds EXCEPT ![file_fd].pos = @ + Len(bytes)]
             /\ buffer' = [buffer EXCEPT ![h] = bytes]
             /\ Goto(h, "unlock")
    <3>1. pc'[h] = "unlock" /\ buffer'[h] = bytes
      BY <2>8 DEF Goto, ServedAlone, PcInv, LocalsInv
    <3>2. fds' = [fds EXCEPT ![opened[h]] = [fds[opened[h]] EXCEPT !.pos = @ + Len(bytes)]]
      BY <1>2, <2>8
    <3>3. fds'[opened[h]] = [object EXCEPT !.pos = @ + Len(bytes)]
      BY <1>4, <2>2, <3>2 DEF ServedAlone, TableInv, IsTable
    <3>4. fds'[opened[h]].pos = object.pos + Len(bytes) /\ fds'[opened[h]].kind \in Readable
      <4>1. object = [kind |-> object.kind, who |-> object.who, pos |-> object.pos]
        BY <1>4, <2>2 DEF ServedAlone, TableInv, IsTable, IsObject
      <4>2. fds'[opened[h]] = [kind |-> object.kind, who |-> object.who,
                               pos |-> object.pos + Len(bytes)]
        BY <3>3, <4>1
      <4>3. QED
        BY <1>4, <2>2, <4>2
    <3>5. Connected(h)'
      <4>1. client_fd[h] # opened[h]
        BY <1>2, <1>4, OwnFile
      <4>2. fds'[client_fd[h]] = fds[client_fd[h]]
        BY <1>2, <3>2, <4>1 DEF Connected, ServedAlone, TableInv, IsTable
      <4>3. QED
        BY <1>1, <1>2, <4>2 DEF Connected, Sock
    <3>6. ASSUME Answerable(h) PROVE (\E u, v \in Nat : Answered(h, u, v))'
      <4>1. PICK s \in Nat, p \in Nat :
              /\ s \in Starts(h) /\ p \in s .. Len(Text)
              /\ replies[h] = SubSeq(Text, s + 1, p) /\ object.pos = p
        BY <2>5, <3>6
      <4>2. /\ p + Len(bytes) \in s .. Len(Text)
            /\ p + Len(bytes) \in Nat
            /\ replies[h] \o bytes = SubSeq(Text, s + 1, p + Len(bytes))
        BY <2>7, <4>1
      <4>3. Sent(h)' = SubSeq(Text, s + 1, p + Len(bytes))
        BY <1>1, <3>1, <4>2 DEF Sent
      <4>4. QED
        BY <1>1, <3>1, <3>4, <4>1, <4>2, <4>3, AnswersOn
    <3>7. QED
      BY <1>1, <1>2, <1>4, <2>1, <2>3, <3>1, <3>4, <3>5, <3>6 DEF Alone, Using, Asking, Replying
  <2>9. CASE bytes = << >> /\ fds' = fds /\ Goto(h, "reply close")
    <3>1. pc'[h] = "reply close"
      BY <2>9 DEF Goto, ServedAlone, PcInv
    <3>2. Connected(h)'
      BY <1>1, <1>2, <2>9 DEF Connected, Sock
    <3>3. ASSUME Answerable(h) PROVE (\E u, v \in Nat : Answered(h, u, v))'
      <4>1. PICK s \in Nat, p \in Nat :
              /\ s \in Starts(h) /\ p \in s .. Len(Text)
              /\ replies[h] = SubSeq(Text, s + 1, p) /\ object.pos = p
        BY <2>5, <3>3
      <4>2. p = Len(Text)
        BY <2>7, <2>9, <4>1
      <4>3. Sent(h)' = SubSeq(Text, s + 1, p)
        BY <1>1, <3>1, <4>1 DEF Sent
      <4>4. QED
        BY <1>1, <3>1, <4>1, <4>2, <4>3, AnswersOn
    <3>4. QED
      BY <1>1, <1>2, <1>4, <2>3, <2>9, <3>1, <3>2, <3>3 DEF Alone, Using, Asking, Replying
  <2>10. QED
    BY <2>6, <2>8, <2>9
<1>5. QED
  BY <1>2, <1>3, <1>4

LEMMA AloneReplyUnlock ==
  ASSUME NEW h \in Handler, ServedAlone(h), ReplyUnlock(h), UNCHANGED <<device, ioctl_found>>
  PROVE  Alone(h)'
<1>1. /\ pc[h] = "unlock" /\ pc'[h] = "send"
      /\ fds' = fds /\ client_fd' = client_fd /\ opened' = opened /\ file_fd' = file_fd
      /\ log' = log /\ buffer' = buffer /\ ioctl_found' = ioctl_found /\ replies' = replies
  BY DEF ReplyUnlock, Goto, ServedAlone, PcInv, device
<1>2. /\ Connected(h) /\ file_fd = opened[h] /\ opened[h] # -1
      /\ opened[h] \in Fds /\ fds[opened[h]].kind \in Readable
  BY <1>1 DEF ServedAlone, Alone, Using
<1>3. Connected(h)'
  BY <1>1, <1>2 DEF Connected, Sock
<1>4. ASSUME Answerable(h)' PROVE (\E u, v \in Nat : Answered(h, u, v))'
  <2>1. Answerable(h)
    BY <1>1, <1>4, SameQuestion
  <2>2. PICK s \in Nat, p \in Nat : Answered(h, s, p)
    BY <1>1, <1>2, <2>1 DEF ServedAlone, Alone, Replying
  <2>3. /\ s \in Starts(h) /\ p \in s .. Len(Text)
        /\ Sent(h)' = SubSeq(Text, s + 1, p) /\ fds'[opened'[h]].pos = p
    BY <1>1, <2>2 DEF Answered, Sent
  <2>4. QED
    BY <1>1, <2>3, AnswersOn
<1>5. QED
  BY <1>1, <1>2, <1>3, <1>4 DEF Alone, Using, Asking, Replying

LEMMA AloneReplySend ==
  ASSUME NEW h \in Handler, ServedAlone(h), ReplySend(h), UNCHANGED <<device, ioctl_found>>
  PROVE  Alone(h)'
<1>1. /\ pc[h] = "send" /\ pc'[h] = "read"
      /\ fds' = fds /\ client_fd' = client_fd /\ opened' = opened /\ file_fd' = file_fd
      /\ log' = log /\ ioctl_found' = ioctl_found
      /\ replies' = RepliesWith(Behind(client_fd[h]), buffer[h])
  BY DEF ReplySend, Goto, ServedAlone, PcInv, device
<1>2. /\ Connected(h) /\ file_fd = opened[h] /\ opened[h] # -1
      /\ opened[h] \in Fds /\ fds[opened[h]].kind \in Readable
  BY <1>1 DEF ServedAlone, Alone, Using
<1>3. Connected(h)'
  BY <1>1, <1>2 DEF Connected, Sock
<1>4. replies'[h] = replies[h] \o buffer[h]
  <2>1. Behind(client_fd[h]) = Sock(h) /\ Sock(h).kind = "sock" /\ Sock(h).who = h
    BY <1>2 DEF Connected, Behind, Sock
  <2>2. replies' = [replies EXCEPT ![h] = replies[h] \o buffer[h]]
    BY <1>1, <2>1 DEF RepliesWith
  <2>3. PICK r : r = replies[h] \o buffer[h]
    OBVIOUS
  <2>4. replies'[h] = r
    BY <2>2, <2>3 DEF ServedAlone
  <2>5. QED
    BY <2>3, <2>4
<1>5. ASSUME Answerable(h)' PROVE (\E u, v \in Nat : Answered(h, u, v))'
  <2>1. Answerable(h)
    BY <1>1, <1>5, SameQuestion
  <2>2. PICK s \in Nat, p \in Nat : Answered(h, s, p)
    BY <1>1, <1>2, <2>1 DEF ServedAlone, Alone, Replying
  <2>3. /\ s \in Starts(h) /\ p \in s .. Len(Text)
        /\ Sent(h) = SubSeq(Text, s + 1, p) /\ fds'[opened'[h]].pos = p
    BY <1>1, <2>2 DEF Answered
  <2>4. Sent(h)' = Sent(h)
    BY <1>1, <1>4 DEF Sent
  <2>5. QED
    BY <1>1, <2>3, <2>4, AnswersOn
<1>6. QED
  BY <1>1, <1>2, <1>3, <1>5 DEF Alone, Using, Asking, Replying

LEMMA AloneReplyClose ==
  ASSUME NEW h \in Handler, ServedAlone(h), ReplyClose(h), UNCHANGED <<device, ioctl_found>>
  PROVE  Alone(h)'
<1>1. /\ pc[h] = "reply close" /\ pc'[h] = "finish"
      /\ fds' = TableWithout(file_fd) /\ client_fd' = client_fd /\ opened' = opened
      /\ log' = log /\ ioctl_found' = ioctl_found /\ replies' = replies
  BY DEF ReplyClose, Goto, ServedAlone, PcInv, device
<1>2. /\ Connected(h) /\ file_fd = opened[h]
      /\ opened[h] = -1 \/ (opened[h] \in Fds /\ fds[opened[h]].kind \in Readable)
  BY <1>1 DEF ServedAlone, Alone, Using
<1>3. Connected(h)'
  BY <1>1, <1>2, ClosingKeeps DEF ServedAlone
<1>4. ASSUME opened[h] # -1, Answerable(h)' PROVE (\E u, v \in Nat : Answered(h, u, v))'
  <2>1. Answerable(h)
    BY <1>1, <1>4, SameQuestion
  <2>2. PICK s \in Nat, p \in Nat : Answered(h, s, p)
    BY <1>1, <1>4, <2>1 DEF ServedAlone, Alone, Replying
  <2>3. /\ s \in Starts(h) /\ p \in s .. Len(Text)
        /\ Sent(h)' = SubSeq(Text, s + 1, p) /\ p = Len(Text)
    BY <1>1, <2>2 DEF Answered, Sent
  <2>4. QED
    BY <1>1, <2>3, AnswersOn
<1>5. QED
  BY <1>1, <1>3, <1>4 DEF Alone, Using, Asking, Replying
LEMMA AloneLeave ==
  ASSUME NEW h \in Handler, ServedAlone(h), Leave(h), Live(h)'
  PROVE  Alone(h)'
<1>1. pc[h] = "finish" /\ UNCHANGED <<handlerVars, device, ioctl_found>>
  <2>1. ~Goto(h, "done")
    BY DEF Goto, Live, ServedAlone, PcInv
  <2>2. QED
    BY <2>1 DEF Leave, Finish
<1>2. /\ pc' = pc /\ fds' = fds /\ client_fd' = client_fd /\ opened' = opened
      /\ file_fd' = file_fd /\ log' = log /\ ioctl_found' = ioctl_found /\ replies' = replies
  BY <1>1 DEF handlerVars, device
<1>3. Connected(h)'
  BY <1>2 DEF ServedAlone, Alone, Connected, Sock
<1>4. ASSUME opened[h] # -1, Answerable(h)' PROVE (\E u, v \in Nat : Answered(h, u, v))'
  <2>1. Answerable(h)
    BY <1>2, <1>4, SameQuestion
  <2>2. PICK s \in Nat, p \in Nat : Answered(h, s, p)
    BY <1>1, <1>4, <2>1 DEF ServedAlone, Alone, Replying
  <2>3. /\ s \in Starts(h) /\ p \in s .. Len(Text)
        /\ Sent(h)' = SubSeq(Text, s + 1, p) /\ p = Len(Text)
    BY <1>1, <1>2, <2>2 DEF Answered, Sent
  <2>4. QED
    BY <1>1, <1>2, <2>3, AnswersOn
<1>5. QED
  BY <1>1, <1>2, <1>3, <1>4 DEF Alone, Using, Asking, Replying

LEMMA AloneGoesOn ==
  ASSUME NEW h \in Handler, ServedAlone(h), Live(h)',
         Client(h) \/ RecvPiece(h)
  PROVE  Alone(h)'
<1>1. CASE RecvPiece(h)
  BY <1>1, AloneRecv
<1>2. CASE Leave(h)
  BY <1>2, AloneLeave
<1>3. CASE Write(h) \/ Ioctl(h)
  BY <1>3, AloneWrite, AloneIoctl
<1>4. CASE Serve(h)
  BY <1>3, <1>4, AloneLock, AloneOpen, AloneAssign, AloneClose, AloneReplyRead,
     AloneReplyUnlock, AloneReplySend, AloneReplyClose DEF Serve
<1>5. QED
  BY <1>1, <1>2, <1>4 DEF Client

-----------------------------------------------------------------------------
(* Nobody else disturbs it.                                                 *)

LEMMA ClientAlone ==
  ASSUME ServerInv, DeviceInv, FreshInv, AloneInv, TP!TypeInv, NEW h \in Handler,
         Client(h) \/ (RecvPiece(h) /\ UNCHANGED threads)
  PROVE  AloneInv'
<1> USE DEF ServerInv, ServedInv
<1>1. /\ at' = at /\ data' = data /\ isError' = isError
  BY DEF Client, Serve, Leave, T!client_handler, threads
<1>2. shared' = shared
  BY ServingQuiet, LeavingQuiet DEF Quiet, Client
<1>3. \A g \in Handler : g # h => pc'[g] = pc[g]
  BY ServingStays DEF OthersStay, Client
<1>4. Live(h)
  BY DEF Client, Serve, Write, WriteFd, Ioctl, Lock, OpenDevice, Open, Assign, Close, ReplyRead,
     ReplyUnlock, ReplySend, ReplyClose, RecvPiece, Recv, Leave, Live
<1>5. ASSUME ~isError, NEW g \in Handler, g \notin shared, Live(g)' PROVE Alone(g)'
  <2>1. g = h
    BY <1>3, <1>4, <1>5 DEF SharedInv, Live
  <2>2. Alone(h)
    BY <1>4, <1>5, <2>1 DEF AloneInv
  <2>3. ServedAlone(h)
    BY <1>4, <2>2 DEF ServedAlone, FreshInv
  <2>4. Alone(h)'
    BY <1>5, <2>1, <2>3, AloneGoesOn
  <2>5. QED
    BY <2>1, <2>4
<1>6. ASSUME NEW g \in Handler, g \notin shared, Creating', data' = g PROVE FALSE
  BY <1>1, <1>4, <1>6 DEF SharedInv, Creating
<1>7. QED
  BY <1>1, <1>2, <1>5, <1>6 DEF AloneInv

LEMMA SameAlone ==
  ASSUME NEW h \in Handler, Alone(h),
         UNCHANGED <<fds, file_fd, client_fd, opened, replies, buffer, ioctl_found, log>>,
         pc'[h] = pc[h]
  PROVE  Alone(h)'
<1>1. /\ fds' = fds /\ file_fd' = file_fd /\ client_fd' = client_fd /\ opened' = opened
      /\ replies' = replies /\ buffer' = buffer /\ ioctl_found' = ioctl_found /\ log' = log
  OBVIOUS
<1>2. Connected(h)'
  BY <1>1 DEF Alone, Connected, Sock
<1>3. (Using(h)' <=> Using(h)) /\ (Asking(h)' <=> Asking(h)) /\ (Replying(h)' <=> Replying(h))
  BY <1>1 DEF Using, Asking, Replying
<1>4. ASSUME Replying(h), opened[h] # -1, Answerable(h)'
      PROVE (\E u, v \in Nat : Answered(h, u, v))'
  <2>1. Answerable(h)
    BY <1>1, <1>4, SameQuestion
  <2>2. PICK s \in Nat, p \in Nat : Answered(h, s, p)
    BY <1>4, <2>1 DEF Alone
  <2>3. /\ s \in Starts(h) /\ p \in s .. Len(Text)
        /\ Sent(h)' = SubSeq(Text, s + 1, p)
        /\ IF pc'[h] \in {"reply close", "finish"} THEN p = Len(Text) ELSE fds'[opened'[h]].pos = p
    BY <1>1, <2>2 DEF Answered, Sent
  <2>4. QED
    BY <1>1, <2>3, AnswersOn
<1>5. QED
  BY <1>1, <1>2, <1>3, <1>4 DEF Alone

LEMMA MainAlone ==
  ASSUME TP!ThreadsInv, TableInv, PcInv, AloneInv,
         \/ Main /\ ~CreateThread
         \/ T!AcceptFails /\ Elsewhere
         \/ T!signal_handler /\ Elsewhere
  PROVE  AloneInv'
<1>1. Quiet
  BY MainQuiet DEF TP!ThreadsInv
<1>2. isError' = isError \/ isError' = TRUE
  BY DEF Main, MutexInit, T!MutexInit, ShutdownDone, T!ShutdownDone, T!Startup, T!Loop,
     T!ListLock, T!insertNode, T!removeCompletedThreads, T!ShutdownLock, T!ShutdownJoin,
     T!AcceptFails, T!signal_handler
<1>3. ASSUME NEW c \in {"main", "signal"}, ShutdownDone(c) PROVE isError
  <2>1. at[c] = "shutdown join" /\ c \in TP!Context
    BY <1>3 DEF ShutdownDone, T!ShutdownDone, T!At, TP!Context
  <2>2. CASE c = "main"
    BY <2>1, <2>2 DEF TP!ThreadsInv, TP!ExitInv
  <2>3. CASE c = "signal"
    BY <2>1, <2>3 DEF TP!ThreadsInv, TP!PlacesInv
  <2>4. QED
    BY <2>2, <2>3
<1>4. ASSUME ~isError'
      PROVE  /\ UNCHANGED <<fds, file_fd, client_fd, opened, replies, buffer, ioctl_found, log>>
             /\ pc' = pc
  <2>1. ~isError
    BY <1>2, <1>4
  <2>2. \A c \in {"main", "signal"} : ~ShutdownDone(c)
    BY <1>3, <2>1
  <2>3. QED
    BY <2>2 DEF Main, MutexInit, Elsewhere, handlerVars, device
<1>5. shared' = shared /\ (Creating' => Creating /\ data' = data)
  BY <1>1 DEF Quiet, Creating
<1>6. ASSUME ~isError', NEW h \in Handler, h \notin shared, Live(h)' PROVE Alone(h)'
  <2>1. Alone(h)
    BY <1>2, <1>4, <1>6 DEF AloneInv, Live
  <2>2. QED
    BY <1>4, <1>6, <2>1, SameAlone
<1>7. ASSUME ~isError', NEW h \in Handler, h \notin shared, Creating', data' = h
      PROVE  Connected(h)' /\ replies'[h] = << >>
  <2>1. Connected(h) /\ replies[h] = << >>
    BY <1>2, <1>5, <1>7 DEF AloneInv
  <2>2. QED
    BY <1>4, <1>7, <2>1 DEF Connected, Sock
<1>8. QED
  BY <1>5, <1>6, <1>7 DEF AloneInv

LEMMA AcceptAlone ==
  ASSUME TP!TypeInv, TableInv, PcInv, FreshInv, AloneInv, at["main"] # "crashed",
         NEW h \in Handler, Accept(h)
  PROVE  AloneInv'
<1> USE AesdSocketAssumption DEF TP!TypeInv, TP!Context
<1> DEFINE n == NewFd
<1>1. /\ thread[h] = "none" /\ data' = h /\ pc' = pc /\ client_fd[h] = -1
      /\ shared' = IF Active = {} THEN shared ELSE shared \cup Active \cup {h}
      /\ client_fd' = [client_fd EXCEPT ![h] = n]
      /\ fds' = [fds EXCEPT ![n] = Sock(h)]
      /\ isError' = isError /\ opened' = opened /\ replies' = replies
      /\ n # -1
  BY DEF Accept, T!Accept, AcceptSocket, TableWith
<1>2. n \in Fds
  BY <1>1, NewDescriptor
<1> HIDE DEF n
<1>3. client_fd'[h] = n /\ fds'[n] = Sock(h)
  BY <1>1, <1>2 DEF TableInv, IsTable
<1>4. Connected(h)' /\ replies'[h] = << >>
  BY <1>1, <1>2, <1>3 DEF Connected, Sock, FreshInv
<1>5. ASSUME NEW g \in Handler, Live(g)' PROVE g \in shared'
  BY <1>1, <1>5 DEF Live, Active
<1>6. QED
  BY <1>1, <1>4, <1>5 DEF AloneInv

LEMMA CreateAlone ==
  ASSUME TP!TypeInv, TP!NodesInv, TableInv, PcInv, FreshInv, AloneInv, at["main"] # "crashed",
         CreateThread
  PROVE  AloneInv'
<1> USE AesdSocketAssumption DEF TP!TypeInv, TP!Context
<1>1. /\ Creating /\ ~Creating' /\ isError' = isError
      /\ shared' = shared
      /\ UNCHANGED <<fds, file_fd, client_fd, opened, replies, buffer, ioctl_found, log>>
  BY DEF CreateThread, T!CreateThread, T!At, T!Goto, Creating, device
<1>2. data \in Handler /\ thread[data] = "none" /\ pc[data] = "none"
  BY <1>1 DEF TP!NodesInv, Creating, PcInv
<1>3. pc' = pc \/ pc' = [pc EXCEPT ![data] = "recv"]
  BY DEF CreateThread, StartThread, Goto
<1>4. ASSUME ~isError, NEW h \in Handler, h \notin shared, Live(h)' PROVE Alone(h)'
  <2>1. CASE pc'[h] = pc[h]
    <3>1. Alone(h)
      BY <1>4, <2>1 DEF AloneInv, Live
    <3>2. QED
      BY <1>1, <2>1, <3>1, SameAlone
  <2>2. CASE h = data /\ pc'[h] = "recv"
    <3>1. Connected(h) /\ replies[h] = << >> /\ ~ioctl_found[h]
      BY <1>1, <1>2, <1>4, <2>2 DEF AloneInv, FreshInv
    <3>2. Connected(h)' /\ replies'[h] = << >> /\ ~ioctl_found'[h]
      BY <1>1, <3>1 DEF Connected, Sock
    <3>3. QED
      BY <2>2, <3>2 DEF Alone, Using, Asking, Replying
  <2>3. QED
    BY <1>3, <2>1, <2>2 DEF PcInv
<1>5. QED
  BY <1>1, <1>4 DEF AloneInv

LEMMA NextAlone ==
  ASSUME TP!ThreadsInv, ServerInv, DeviceInv, FreshInv, AloneInv, [Next]_vars
  PROVE  AloneInv'
<1> USE DEF ServerInv, ServedInv, TP!ThreadsInv
<1>1. CASE UNCHANGED vars
  <2>1. /\ UNCHANGED <<fds, file_fd, client_fd, opened, replies, buffer, ioctl_found, log>>
        /\ pc' = pc /\ shared' = shared /\ isError' = isError /\ at' = at /\ data' = data
    BY <1>1 DEF vars, handlerVars, threads, device
  <2>2. \A h \in Handler : Alone(h) => Alone(h)'
    BY <2>1, SameAlone
  <2>3. \A h \in Handler : Connected(h) => Connected(h)'
    BY <2>1 DEF Connected, Sock
  <2>4. QED
    BY <2>1, <2>2, <2>3 DEF AloneInv, Live, Creating
<1>2. ASSUME Next PROVE at["main"] # "crashed"
  BY <1>2 DEF Next, T!Alive
<1>3. ASSUME NEW h \in Handler, Client(h) \/ (RecvPiece(h) /\ UNCHANGED threads)
      PROVE  AloneInv'
  BY <1>3, ClientAlone
<1>4. ASSUME Next, NEW h \in Handler, Accept(h) PROVE AloneInv'
  BY <1>2, <1>4, AcceptAlone
<1>5. ASSUME NEW h \in Handler, Killed(h) PROVE AloneInv'
  <2>1. \A g \in Handler : ~Live(g)'
    BY <1>5 DEF Killed, Sigpipe, Live
  <2>2. ~Creating'
    BY <1>5, AesdSocketAssumption
       DEF Killed, T!Sigpipe, T!Goto, TP!TypeInv, TP!Context, Creating
  <2>3. QED
    BY <2>1, <2>2 DEF AloneInv
<1>6. CASE Next /\ CreateThread
  BY <1>2, <1>6, CreateAlone
<1>7. CASE (Main /\ ~CreateThread) \/ (T!AcceptFails /\ Elsewhere) \/ (T!signal_handler /\ Elsewhere)
  BY <1>7, MainAlone
<1>8. QED
  BY <1>1, <1>3, <1>4, <1>5, <1>6, <1>7 DEF Next

LEMMA NextFresh ==
  ASSUME TP!TypeInv, ServerInv, FreshInv, [Next]_vars
  PROVE  FreshInv'
<1> USE DEF ServerInv, ServedInv
<1>1. opened' = [h \in Handler |-> opened'[h]]
  <2>1. opened' = opened \/ \E h, fd : opened' = [opened EXCEPT ![h] = fd]
    BY DEF Next, Main, MutexInit, CreateThread, ShutdownDone, Elsewhere, Accept, Killed, Sigpipe,
       Client, Serve, Write, WriteFd, Ioctl, Lock, OpenDevice, Open, Assign, Close, ReplyRead,
       ReplyUnlock, ReplySend, ReplyClose, RecvPiece, Recv, Leave, Finish, handlerVars, vars
  <2>2. QED
    BY <2>1 DEF FreshInv
<1>2. replies' = replies \/ \E bytes : \E object \in {Behind(fd) : fd \in Fds} :
                              replies' = RepliesWith(object, bytes)
  <2>1. ASSUME NEW fd, NEW bytes, replies' = RepliesWith(Behind(fd), bytes)
        PROVE  replies' = replies \/ \E object \in {Behind(e) : e \in Fds} : replies' = RepliesWith(object, bytes)
    <3>1. CASE fd \in Fds
      BY <2>1, <3>1
    <3>2. CASE fd \notin Fds
      BY <2>1, <3>2 DEF Behind, RepliesWith, FREE
    <3>3. QED
      BY <3>1, <3>2
  <2>2. replies' = replies \/ \E fd, bytes : replies' = RepliesWith(Behind(fd), bytes)
    BY DEF Next, Main, MutexInit, CreateThread, ShutdownDone, Elsewhere, Accept, Killed, Sigpipe,
       Client, Serve, Write, WriteFd, Ioctl, Lock, OpenDevice, Open, Assign, Close, ReplyRead,
       ReplyUnlock, ReplySend, ReplyClose, RecvPiece, Recv, Leave, Finish, handlerVars, vars
  <2>3. QED
    BY <2>1, <2>2
<1>3. \/ replies' = replies
      \/ \E w \in Handler : \E r : client_fd[w] \in Fds /\ replies' = [replies EXCEPT ![w] = r]
  <2>1. ASSUME NEW fd \in Fds, NEW bytes, replies' = RepliesWith(Behind(fd), bytes)
        PROVE  \/ replies' = replies
               \/ \E w \in Handler : \E r : client_fd[w] \in Fds /\ replies' = [replies EXCEPT ![w] = r]
    <3>1. CASE fds[fd].kind = "sock"
      <4>1. fds[fd].who \in Handler /\ client_fd[fds[fd].who] \in Fds
        BY <3>1 DEF TableInv
      <4>2. replies' = [replies EXCEPT ![fds[fd].who] = @ \o bytes]
        BY <2>1, <3>1 DEF RepliesWith, Behind
      <4>3. QED
        BY <4>1, <4>2
    <3>2. CASE fds[fd].kind # "sock"
      BY <2>1, <3>2 DEF RepliesWith, Behind
    <3>3. QED
      BY <3>1, <3>2
  <2>2. QED
    BY <1>2, <2>1
<1>4. replies' = [h \in Handler |-> replies'[h]]
  BY <1>3 DEF FreshInv
<1>5. \A h \in Handler : client_fd'[h] = -1 => client_fd[h] = -1
  <2>1. CASE \E h \in Handler : Accept(h)
    BY <2>1 DEF Accept, AcceptSocket, TableInv
  <2>2. CASE ~\E h \in Handler : Accept(h)
    <3>1. client_fd' = client_fd
      BY <2>2 DEF Next, Main, MutexInit, CreateThread, ShutdownDone, Elsewhere, Killed, Sigpipe,
         Client, Serve, Write, WriteFd, Ioctl, Lock, OpenDevice, Open, Assign, Close, ReplyRead,
         ReplyUnlock, ReplySend, ReplyClose, RecvPiece, Recv, Leave, Finish, handlerVars, vars
    <3>2. QED
      BY <3>1
  <2>3. QED
    BY <2>1, <2>2
<1>6. \A h \in Handler : client_fd'[h] = -1 => replies'[h] = << >>
  BY <1>3, <1>5, ClientHandlerAssumption DEF FreshInv
<1>7. \A h \in Handler : pc'[h] = "none" => ~ioctl_found'[h]
  <2>1. CASE \E h \in Handler : Client(h) \/ (RecvPiece(h) /\ UNCHANGED threads)
    <3>1. PICK h \in Handler : Client(h) \/ (RecvPiece(h) /\ UNCHANGED threads)
      BY <2>1
    <3>2. \A g \in Handler : g # h => pc'[g] = pc[g] /\ ioctl_found'[g] = ioctl_found[g]
      BY <3>1, ServingStays DEF OthersStay, Client
    <3>3. pc[h] # "none"
      BY <3>1 DEF Client, Serve, Write, WriteFd, Ioctl, Lock, OpenDevice, Open, Assign, Close,
         ReplyRead, ReplyUnlock, ReplySend, ReplyClose, RecvPiece, Recv, Leave
    <3>4. pc'[h] # "none"
      BY <3>1, <3>3, ServingQuiet, LeavingQuiet DEF Quiet, Client
    <3>5. QED
      BY <3>2, <3>4 DEF FreshInv
  <2>2. CASE ~\E h \in Handler : Client(h) \/ (RecvPiece(h) /\ UNCHANGED threads)
    <3>1. ioctl_found' = ioctl_found
      BY <2>2 DEF Next, Main, MutexInit, CreateThread, ShutdownDone, Elsewhere, Accept, Killed, vars
    <3>2. pc' = pc \/ (\E h : Goto(h, "recv")) \/ pc' = [h \in Handler |-> "killed"]
      BY <2>2 DEF Next, Main, MutexInit, CreateThread, StartThread, ShutdownDone, Elsewhere,
         Accept, Killed, Sigpipe, handlerVars, vars
    <3>3. \A h \in Handler : pc'[h] = "none" => pc[h] = "none"
      BY <3>2 DEF Goto, PcInv
    <3>4. QED
      BY <3>1, <3>3 DEF FreshInv
  <2>3. QED
    BY <2>1, <2>2
<1>8. QED
  BY <1>1, <1>4, <1>6, <1>7 DEF FreshInv

LEMMA InitAlone == Init => FreshInv /\ AloneInv
<1> SUFFICES ASSUME Init PROVE FreshInv /\ AloneInv
  OBVIOUS
<1>1. /\ pc = [h \in Handler |-> "none"] /\ client_fd = [h \in Handler |-> -1]
      /\ opened = [h \in Handler |-> -1] /\ replies = [h \in Handler |-> << >>]
      /\ ioctl_found = [h \in Handler |-> FALSE] /\ at["main"] = "start"
  BY DEF Init, HandlerInit, T!Init, T!Context
<1>2. \A h \in Handler : ~Live(h) /\ ~Creating
  BY <1>1 DEF Live, Creating
<1>3. QED
  BY <1>1, <1>2 DEF FreshInv, AloneInv

(* A client that is served alone gets, however it cuts its packet, whatever *)
(* commands the device holds and for reads of any size, all of the device's *)
(* text when no command was found; from the byte its command names on when  *)
(* one was and the ring is not full; and the text from some byte to its end *)
(* when the ring is full.                                                   *)
THEOREM ReplyAnswers == Spec => []ReplyStartsWhereAsked
<1>1. TP!ThreadsInv /\ ServerInv /\ MergeInv /\ FreshInv /\ AloneInv /\ [Next]_vars
        => FreshInv' /\ AloneInv'
  BY NextAlone, NextFresh DEF MergeInv, TP!ThreadsInv
<1>2. MergeInv /\ AloneInv => ReplyStartsWhereAsked
  <2>1. SUFFICES ASSUME MergeInv, AloneInv, NEW h \in Handler,
                        pc[h] = "finish", h \notin shared, opened[h] # -1, ~isError
                 PROVE  IF ~ioctl_found[h] THEN replies[h] = Text
                        ELSE IF Len(log) < Capacity
                        THEN (\A target \in Asks[h] : NamesByte(target)) =>
                               \E target \in Asks[h] : replies[h] = TextFrom(EndOf(target[1]) + target[2])
                        ELSE \E s \in 0 .. Len(Text) : replies[h] = TextFrom(s)
    BY DEF ReplyStartsWhereAsked
  <2>2. Alone(h)
    BY <2>1 DEF AloneInv, Live
  <2>3. ASSUME Answerable(h)
        PROVE  \E s \in Starts(h) : replies[h] = TextFrom(s)
    <3>1. PICK s \in Nat, p \in Nat : Answered(h, s, p)
      BY <2>1, <2>2, <2>3 DEF Alone, Replying
    <3>2. s \in Starts(h) /\ p = Len(Text) /\ replies[h] = SubSeq(Text, s + 1, Len(Text))
      BY <2>1, <3>1 DEF Answered, Sent
    <3>3. QED
      BY <3>2 DEF TextFrom
  <2>4. CASE ~ioctl_found[h]
    <3>1. replies[h] = SubSeq(Text, 1, Len(Text))
      BY <2>3, <2>4 DEF Answerable, Starts, TextFrom
    <3>2. Text \in Seq(Byte)
      BY <2>1, TextIs DEF MergeInv
    <3>3. SubSeq(Text, 1, Len(Text)) = Text
      BY <3>2
    <3>4. QED
      BY <2>4, <3>1, <3>3
  <2>5. CASE ioctl_found[h] /\ Len(log) < Capacity
    BY <2>3, <2>5 DEF Answerable, Starts
  <2>6. CASE ioctl_found[h] /\ ~(Len(log) < Capacity)
    BY <2>3, <2>6 DEF Answerable, Starts
  <2>7. QED
    BY <2>4, <2>5, <2>6
<1>3. TP!ThreadsInv /\ ServerInv /\ MergeInv /\ [Next]_vars => MergeInv'
  BY NextMerge DEF TP!ThreadsInv
<1>4. QED
  BY <1>1, <1>2, <1>3, InitMerge, InitAlone, ServerInvariant, ServerThreads, PTL DEF Spec

=============================================================================
