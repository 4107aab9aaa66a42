---------------------------- MODULE ClientHandler ----------------------------
(***************************************************************************)
(* What client_handler is in both server/aesdsocket-simple.c and           *)
(* server/aesdsocket.c: one thread per connection writes what it receives  *)
(* to the data file and after the newline sends the file back.  All        *)
(* threads share one global, file_fd, for the descriptor they work on, and *)
(* one mutex, fileMutex.  What is behind an open data file is left to the  *)
(* modules that extend this one.                                           *)
(***************************************************************************)
EXTENDS Integers, SequencesExt, Mutex

CONSTANTS
  Handler,     \* the connections, each with its thread
  Fds,         \* the descriptor numbers open and accept can return
  BufLen,      \* how much one read of the file returns at most
  Script       \* Script[h]: the pieces the client of h sends, by kind

(* What one recv returns: a piece of a packet, a packet, a packet and part  *)
(* of the next, several packets; a whole ioctl command or the start of one. *)
Piece == {"part", "packet", "packet+part", "packets", "seek", "seek part"}

ASSUME ClientHandlerAssumption ==
  /\ {Nobody, DESTROYED} \cap Handler = {}
  /\ Nobody # DESTROYED
  /\ Fds \subseteq Nat
  /\ BufLen \in Nat \ {0}
  /\ Script \in [Handler -> Seq(Piece)]

VARIABLES
  fds,         \* the process's descriptor table
  file_fd,     \* the global
  fileMutex,   \* its owner
  pc,          \* where in client_handler a thread is
  received,    \* how many pieces its client has sent
  left,        \* the client was found to have closed the connection
  buffer,      \* the thread's receive_buffer, later its send_buffer
  client_fd,   \* thread_data->client_fd
  opened,      \* the descriptor the thread's last open returned
  replies,     \* what was sent to each client, whether it still reads or not
  shared       \* history: the connections accepted or served while another was served

handlerVars == <<fds, file_fd, fileMutex, pc, received, left, buffer,
                 client_fd, opened, replies, shared>>

FREE      == [kind |-> "free", who |-> Nobody, pos |-> 0]
Sock(h)   == [kind |-> "sock", who |-> h, pos |-> 0]

(* The data file, opened O_RDWR | O_APPEND, O_RDWR or O_RDONLY. *)
DATA_FILE(kind) == [kind |-> kind, who |-> Nobody, pos |-> 0]
Writable        == {"append", "read write"}
Readable        == {"append", "read write", "read only"}

Goto(h, step) == pc' = [pc EXCEPT ![h] = step]

Active == {h \in Handler : pc[h] \notin {"none", "done"}}

(* A piece as the buffer holds it: <<connection, number>>. *)
KindOf(chunk) == Script[chunk[1]][chunk[2]]

(* A test made only where a piece was written. *)
EndsPacket_written(chunk) == KindOf(chunk) \in {"packet", "packets"}

(* The last byte received is the newline. *)
EndsPacket(chunk) == KindOf(chunk) \in {"packet", "packets", "seek"}

-----------------------------------------------------------------------------
(* The C library and the kernel.                                            *)

(* A new descriptor is the lowest free one, or -1. *)
FreeFds == {fd \in Fds : fds[fd] = FREE}
NewFd   == IF FreeFds = {} THEN -1 ELSE Min(FreeFds)

TableWith(fd, object) == IF fd = -1 THEN fds ELSE [fds EXCEPT ![fd] = object]

(* The object behind a descriptor; FREE makes every use of it fail. *)
Behind(fd) == IF fd \in Fds THEN fds[fd] ELSE FREE

(* close of whatever the descriptor stands for by now. *)
TableWithout(fd) == IF fd \in Fds THEN [fds EXCEPT ![fd] = FREE] ELSE fds

(* The connection of w delivers its next piece. *)
Delivers(w) ==
  /\ ~left[w]
  /\ received[w] < Len(Script[w])
  /\ received' = [received EXCEPT ![w] = @ + 1]
  /\ UNCHANGED left

(* The client of w is found to have hung up, early or not. *)
Ends(w) ==
  /\ left' = [left EXCEPT ![w] = TRUE]
  /\ UNCHANGED received

(* What sending data to an object does for the client behind it. *)
RepliesWith(object, data) ==
  IF object.kind = "sock" THEN [replies EXCEPT ![object.who] = @ \o data] ELSE replies

(* The client may have hung up by then, whether anybody has noticed or not: *)
(* sending to it raises SIGPIPE, which nobody handles, and every thread of  *)
(* the process ends.                                                        *)
Sigpipe(h) ==
  LET object == Behind(IF pc[h] = "write" THEN file_fd ELSE client_fd[h])
  IN  /\ pc[h] \in {"send", "write"}
      /\ object.kind = "sock"
      /\ pc' = [x \in Handler |-> "killed"]
      /\ UNCHANGED <<fds, file_fd, fileMutex, received, left, buffer, client_fd,
                     opened, replies, shared>>

(* The thread is in a system call that a client decides the end of: it      *)
(* waits for the client to send or to hang up, or to read what it was sent. *)
(* The sockets have no timeout.                                             *)
WaitsForClient(h) ==
  \/ pc[h] \in {"recv", "send"} /\ Behind(client_fd[h]).kind = "sock"
  \/ pc[h] \in {"read", "write"} /\ Behind(file_fd).kind = "sock"

-----------------------------------------------------------------------------
(* The connection gets its descriptor, later its thread. *)
AcceptSocket(h) ==
  /\ NewFd # -1
  /\ client_fd' = [client_fd EXCEPT ![h] = NewFd]
  /\ fds' = TableWith(NewFd, Sock(h))
  /\ shared' = IF Active = {} THEN shared ELSE shared \cup Active \cup {h}

StartThread(h) == Goto(h, "recv")

(* A receive loop that does not look at recv's result. *)
Recv_unchecked(h, stop) ==
  /\ pc[h] = "recv"
  /\ LET object == Behind(client_fd[h])
     IN  /\ object.kind = "sock"
         /\ \/ /\ Delivers(object.who)
               /\ buffer' = [buffer EXCEPT ![h] = <<<<object.who, received[object.who] + 1>>>>]
            \/ Ends(object.who) /\ UNCHANGED buffer
  /\ Goto(h, "lock")
  /\ UNCHANGED <<fds, file_fd, fileMutex, client_fd, opened, replies, shared>>

(* A receive loop that gathers the packet but writes each time all it has. *)
Recv_gathers(h, stop) ==
  /\ pc[h] = "recv"
  /\ LET object == Behind(client_fd[h])
     IN  \/ /\ object.kind = "sock"
            /\ Delivers(object.who)
            /\ buffer' = [buffer EXCEPT ![h] =
                            Append(@, <<object.who, received[object.who] + 1>>)]
            /\ Goto(h, "lock")
         \/ /\ object.kind = "sock"
            /\ Ends(object.who)
            /\ Goto(h, stop)
            /\ UNCHANGED buffer
  /\ UNCHANGED <<fds, file_fd, fileMutex, client_fd, opened, replies, shared>>

(* recv: a piece arrives, or the loop is left for `stop'. *)
Recv(h, stop) ==
  /\ pc[h] = "recv"
  /\ LET object == Behind(client_fd[h])
     IN  \/ /\ object.kind = "sock"
            /\ Delivers(object.who)
            /\ buffer' = [buffer EXCEPT ![h] = <<<<object.who, received[object.who] + 1>>>>]
            /\ Goto(h, "lock")
         \/ /\ object.kind = "sock"           \* 0 or -1
            /\ Ends(object.who)
            /\ Goto(h, stop)
            /\ UNCHANGED buffer
         \/ /\ object.kind # "sock"           \* -1: the descriptor was closed
            /\ Goto(h, stop)
            /\ UNCHANGED <<received, left, buffer>>
  /\ UNCHANGED <<fds, file_fd, fileMutex, client_fd, opened, replies, shared>>

(* fileMutex is taken before either open. *)
Lock(h) ==
  /\ pc[h] \in {"lock", "reply lock"}
  /\ Lockable(fileMutex)
  /\ fileMutex' = AfterLock(fileMutex, h)
  /\ Goto(h, IF pc[h] = "lock" THEN "open" ELSE "reply open")
  /\ UNCHANGED <<fds, file_fd, received, left, buffer, client_fd, opened, replies, shared>>

(* open of the data file, which may be there or not. *)
Open(h, kind, there) ==
  LET fd == IF there THEN NewFd ELSE -1
  IN  /\ pc[h] \in {"open", "reply open"}
      /\ opened' = [opened EXCEPT ![h] = fd]
      /\ fds' = TableWith(fd, DATA_FILE(kind))
      /\ Goto(h, IF pc[h] = "open" THEN "assign" ELSE "reply assign")
      /\ UNCHANGED <<file_fd, fileMutex, received, left, buffer, client_fd, replies, shared>>

(* file_fd = what open returned. *)
Assign(h, next) ==
  /\ pc[h] \in {"assign", "reply assign"}
  /\ file_fd' = opened[h]
  /\ Goto(h, IF pc[h] = "assign" THEN next ELSE "read")
  /\ UNCHANGED <<fds, fileMutex, received, left, buffer, client_fd, opened, replies, shared>>

(* write(file_fd, ...), wherever that leads by now.  The result is ignored. *)
WriteFd(h, data) ==
  /\ pc[h] = "write"
  /\ replies' = RepliesWith(Behind(file_fd), data)
  /\ Goto(h, "close")
  /\ UNCHANGED <<fds, file_fd, fileMutex, received, left, buffer, client_fd, opened, shared>>

(* A loop that keeps the mutex until its next turn. *)
Close_keepsLock(h) ==
  /\ pc[h] = "close"
  /\ fds' = TableWithout(file_fd)
  /\ Goto(h, IF EndsPacket(buffer[h][1]) THEN "reply lock" ELSE "recv")
  /\ UNCHANGED <<fileMutex, file_fd, received, left, buffer, client_fd, opened, replies, shared>>

(* close and unlock; after the newline the receive loop ends.  Nothing that  *)
(* happens between the two is kept from happening before or after both.     *)
Close(h) ==
  /\ pc[h] = "close"
  /\ fds' = TableWithout(file_fd)
  /\ fileMutex' = AfterUnlock(fileMutex)
  /\ Goto(h, IF EndsPacket(buffer[h][1]) THEN "reply lock" ELSE "recv")
  /\ UNCHANGED <<file_fd, received, left, buffer, client_fd, opened, replies, shared>>

(* One read of the reply loop, where data is what a file would return: at   *)
(* end of file, or when file_fd is no longer a file, the loop ends.  The    *)
(* first read runs under the mutex, the later ones do not.                  *)
ReplyRead(h, data) ==
  LET object == Behind(file_fd)
  IN  /\ pc[h] = "read"
      /\ \/ /\ object.kind \in Readable /\ data # << >>
            /\ fds' = [fds EXCEPT ![file_fd].pos = @ + Len(data)]
            /\ buffer' = [buffer EXCEPT ![h] = data]
            /\ Goto(h, "unlock")
            /\ UNCHANGED <<received, left>>
         \/ /\ object.kind = "sock" /\ Delivers(object.who)
            /\ buffer' = [buffer EXCEPT ![h] = <<<<object.who, received[object.who] + 1>>>>]
            /\ Goto(h, "unlock")
            /\ UNCHANGED fds
         \/ /\ object.kind = "sock" /\ Ends(object.who)
            /\ Goto(h, "reply close")
            /\ UNCHANGED <<fds, buffer>>
         \/ /\ object.kind = "free" \/ (object.kind \in Readable /\ data = << >>)
            /\ Goto(h, "reply close")
            /\ UNCHANGED <<fds, buffer, received, left>>
      /\ UNCHANGED <<file_fd, fileMutex, client_fd, opened, replies, shared>>

(* A reply that is done with the file after one read. *)
ReplyUnlock_closes(h) ==
  /\ pc[h] = "unlock"
  /\ fileMutex' = AfterUnlock(fileMutex)
  /\ fds' = TableWithout(file_fd)
  /\ Goto(h, "send")
  /\ UNCHANGED <<file_fd, received, left, buffer, client_fd, opened, replies, shared>>

ReplyUnlock(h) ==
  /\ pc[h] = "unlock"
  /\ fileMutex' = AfterUnlock(fileMutex)
  /\ Goto(h, "send")
  /\ UNCHANGED <<fds, file_fd, received, left, buffer, client_fd, opened, replies, shared>>

(* send to whatever client_fd stands for by now. *)
ReplySend(h) ==
  /\ pc[h] = "send"
  /\ replies' = RepliesWith(Behind(client_fd[h]), buffer[h])
  /\ buffer' = [buffer EXCEPT ![h] = << >>]
  /\ Goto(h, "read")
  /\ UNCHANGED <<fds, file_fd, fileMutex, received, left, client_fd, opened, shared>>

(* An end of the reply that counts on ReplyUnlock to have unlocked. *)
ReplyClose_noUnlock(h) ==
  /\ pc[h] = "reply close"
  /\ fds' = TableWithout(file_fd)
  /\ Goto(h, "finish")
  /\ UNCHANGED <<file_fd, fileMutex, received, left, buffer, client_fd, opened, replies, shared>>

(* close(file_fd) and an unlock, whoever holds the mutex by now. *)
ReplyClose(h) ==
  /\ pc[h] = "reply close"
  /\ fds' = TableWithout(file_fd)
  /\ fileMutex' = AfterUnlock(fileMutex)
  /\ Goto(h, "finish")
  /\ UNCHANGED <<file_fd, received, left, buffer, client_fd, opened, replies, shared>>

(* A thread that leaves its connection open. *)
Finish_noClose(h) ==
  /\ Goto(h, "done")
  /\ UNCHANGED <<fds, file_fd, fileMutex, received, left, buffer, client_fd, opened,
                 replies, shared>>

(* isComplete is set before; the connection is closed. *)
Finish(h) ==
  /\ fds' = TableWithout(client_fd[h])
  /\ Goto(h, "done")
  /\ UNCHANGED <<file_fd, fileMutex, received, left, buffer, client_fd, opened, replies, shared>>

HandlerInit ==
  /\ fds = [fd \in Fds |-> FREE]
  /\ file_fd = 0
  /\ fileMutex = Nobody
  /\ pc = [h \in Handler |-> "none"]
  /\ received = [h \in Handler |-> 0]
  /\ left = [h \in Handler |-> FALSE]
  /\ buffer = [h \in Handler |-> << >>]
  /\ client_fd = [h \in Handler |-> -1]
  /\ opened = [h \in Handler |-> -1]
  /\ replies = [h \in Handler |-> << >>]
  /\ shared = {}

-----------------------------------------------------------------------------
(* Properties.                                                              *)

(* Types.  A thread on its way to the file holds the one piece it received. *)
HandlersTypeOK ==
  /\ file_fd \in Fds \cup {-1, 0}
  /\ fileMutex \in Handler \cup {Nobody, DESTROYED}
  /\ \A fd \in Fds : fds[fd].kind \in {"free", "sock"} \cup Readable
  /\ \A h \in Handler :
       /\ received[h] \in 0 .. Len(Script[h])
       /\ client_fd[h] \in Fds \/ pc[h] \in {"none", "killed"}
       /\ opened[h] \in Fds \cup {-1}
       /\ pc[h] \in {"lock", "open", "assign", "write", "close"} => Len(buffer[h]) = 1

=============================================================================
