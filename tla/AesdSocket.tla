------------------------------ MODULE AesdSocket ------------------------------
(***************************************************************************)
(* server/aesdsocket.c as a whole: the connections of ClientHandler, the   *)
(* main program, thread list and signal handler of AesdSocketThreads, and  *)
(* /dev/aesdchar, seen as CommandLog, for the data file.  What is new in   *)
(* this variant is the command AESDCHAR_IOCSEEKTO:x,y.                     *)
(***************************************************************************)
EXTENDS ClientHandler

CONSTANTS
  Capacity,     \* commands the device keeps
  NL, JUNK,     \* the newline; a byte nobody has written
  Stored,       \* the commands on the device when the server starts,
  Unfinished,   \* and the bytes of one not yet complete
  Asks          \* Asks[h]: the <<write_cmd, write_cmd_offset>> that sscanf may
                \* leave for h: what its command says, or anything when the
                \* command is cut short or behind other text

(* The bytes there then. *)
StoredBytes == UNION {ToSet(Stored[k]) : k \in DOMAIN Stored} \cup ToSet(Unfinished)

ASSUME AesdSocketAssumption ==
  /\ Capacity \in Nat \ {0}
  /\ Stored \in Seq(Seq(StoredBytes)) /\ Unfinished \in Seq(StoredBytes)
  /\ Len(Stored) <= Capacity
  /\ (StoredBytes \cup {NL, JUNK}) \cap (Handler \X Nat) = {}
  /\ Asks \in [Handler -> SUBSET (Nat \X Nat)]
  /\ {"main", "signal", "nested"} \cap (Handler \cup {Nobody, DESTROYED}) = {}

VARIABLES
  log, pending,   \* the device
  ioctl_found,    \* client_handler's local
  list, thread, freed, listMutex, at, data, current, isError, signals

device  == <<log, pending>>
threads == <<list, thread, freed, listMutex, at, data, current, isError, signals>>
vars    == <<handlerVars, device, ioctl_found, threads>>

(* At most one signal comes: what only a second one can do, interrupt a      *)
(* handler or free a node under main, is left to AesdSocketThreads alone.   *)
T == INSTANCE AesdSocketThreads WITH Thread <- Handler, MaxSignals <- 1

-----------------------------------------------------------------------------
(* The device.                                                              *)

(* What write takes of a piece: nothing behind its first newline. *)
Bytes(chunk) == IF KindOf(chunk) = "part" THEN <<chunk>> ELSE <<chunk, NL>>

(* All that the clients may send. *)
Pieces == UNION {{h} \X DOMAIN Script[h] : h \in Handler}

CL == INSTANCE CommandLog WITH Chunks <- {Bytes(piece) : piece \in Pieces}

(* A write may find no memory. *)
DeviceWrite(bytes) ==
  \/ CL!Extend(bytes) \/ CL!Complete(bytes)
  \/ CL!LosePending
  \/ UNCHANGED device

Text == FlattenSeq(log)

(* Where the k-th command ends. *)
EndOf(k) == Len(FlattenSeq(SubSeq(log, 1, k)))

(* A read stays within one command. *)
Contents(object) ==
  LET ends == {EndOf(k) : k \in DOMAIN log}
      rest == {e \in ends : e > object.pos}
  IN  IF rest = {} THEN << >>
      ELSE SubSeq(Text, object.pos + 1, Min(rest \cup {object.pos + BufLen}))

SizeOf(k) == IF k < Len(log) THEN Len(log[k + 1]) ELSE 0

(* A seek that only looks at the command. *)
SoughtFrom_noOffset(target) == EndOf(Min({target[1], Len(log)}))

SoughtFrom(target) == EndOf(Min({target[1], Len(log)})) + target[2]

(* Where AESDCHAR_IOCSEEKTO may leave the position.  Behind the last entry  *)
(* the driver looks at another word; once the ring is full it may have      *)
(* wrapped, and then slots are no longer commands.                          *)
SoughtPositions(pos, target) ==
  IF Len(log) = Capacity THEN {pos} \cup 0 .. Len(Text)
  ELSE CASE target[1] > Capacity -> {pos}
         [] target[1] = Capacity -> {pos, SoughtFrom(target)}
         [] OTHER -> {IF target[2] > SizeOf(target[1]) THEN pos ELSE SoughtFrom(target)}

-----------------------------------------------------------------------------
(* client_handler.                                                          *)

HasCommand(chunk) == KindOf(chunk) \in {"seek", "seek part"}

(* strstr looks at the whole buffer: behind a short piece it may still find *)
(* the command of an earlier one, which had no newline either and came from *)
(* whatever client_fd then led to.                                          *)
StrstrFinds(h, chunk) ==
  IF HasCommand(chunk) THEN {TRUE}
  ELSE {FALSE} \cup {\E i \in 1 .. received[w] : KindOf(<<w, i>>) = "seek part" :
                       w \in IF h \in shared THEN Handler ELSE {h}}

RecvPiece(h) ==
  /\ Recv(h, IF ioctl_found[h] THEN "read" ELSE "reply lock")
  /\ \E found \in IF pc'[h] = "lock" THEN StrstrFinds(h, buffer'[h][1]) ELSE {ioctl_found[h]} :
       ioctl_found' = [ioctl_found EXCEPT ![h] = found]
  /\ UNCHANGED device

OpenDevice(h) ==
  Open(h, CASE pc[h] = "reply open"                 -> "read only"
            [] pc[h] = "open" /\ ioctl_found[h]     -> "read write"
            [] OTHER                                -> "append", TRUE)

(* A write that may be tried again although it has reached the device. *)
Write_retried(h) ==
  /\ \/ WriteFd(h, Bytes(buffer[h][1]))
     \/ pc[h] = "write" /\ UNCHANGED handlerVars
  /\ IF Behind(file_fd).kind \in Writable
     THEN DeviceWrite(Bytes(buffer[h][1]))
     ELSE UNCHANGED device
  /\ UNCHANGED ioctl_found

(* The count that write returns is ignored. *)
Write(h) ==
  /\ WriteFd(h, Bytes(buffer[h][1]))
  /\ IF Behind(file_fd).kind \in Writable
     THEN DeviceWrite(Bytes(buffer[h][1]))
     ELSE UNCHANGED device
  /\ UNCHANGED ioctl_found

(* The seek; the file stays open, and fileMutex locked, for the reply, or   *)
(* for the next piece when this one does not end with the newline.          *)
Ioctl(h) ==
  LET object == Behind(file_fd)
  IN  /\ pc[h] = "ioctl"
      /\ IF object.kind \in Readable
         THEN \E target \in Asks[h] : \E p \in SoughtPositions(object.pos, target) :
                fds' = [fds EXCEPT ![file_fd].pos = p]
         ELSE UNCHANGED fds
      /\ Goto(h, IF EndsPacket(buffer[h][1]) THEN "read" ELSE "recv")
      /\ UNCHANGED <<file_fd, fileMutex, received, left, buffer, client_fd, opened,
                     replies, shared, device, ioctl_found>>

(* What a client thread does on its own, up to isComplete. *)
Serve(h) ==
  /\ \/ Write(h)
     \/ Ioctl(h)
     \/ /\ \/ Lock(h)
           \/ OpenDevice(h)
           \/ Assign(h, IF ioctl_found[h] THEN "ioctl" ELSE "write")
           \/ Close(h)
           \/ ReplyRead(h, Contents(Behind(file_fd)))
           \/ ReplyUnlock(h)
           \/ ReplySend(h)
           \/ ReplyClose(h)
        /\ UNCHANGED <<device, ioctl_found>>
  /\ UNCHANGED threads

(* isComplete, then close and return. *)
Leave(h) ==
  /\ pc[h] = "finish"
  /\ T!client_handler(h)
  /\ IF thread[h] = "complete" THEN Finish(h) ELSE UNCHANGED handlerVars
  /\ UNCHANGED <<device, ioctl_found>>

Killed(h) ==
  /\ Sigpipe(h)
  /\ T!Sigpipe(h)
  /\ UNCHANGED <<device, ioctl_found>>

-----------------------------------------------------------------------------
(* main, the thread list, signals.                                          *)

MutexInit ==
  /\ T!MutexInit
  /\ fileMutex' = Nobody
  /\ UNCHANGED <<fds, file_fd, pc, received, left, buffer, client_fd, opened, replies,
                 shared, device, ioctl_found>>

Accept(h) ==
  /\ T!Accept(h)
  /\ client_fd[h] = -1
  /\ AcceptSocket(h)
  /\ UNCHANGED <<file_fd, fileMutex, pc, received, left, buffer, opened, replies,
                 device, ioctl_found>>

(* When pthread_create fails, client_fd stays open. *)
CreateThread ==
  /\ T!CreateThread
  /\ IF thread'[data] = "running" THEN StartThread(data) ELSE UNCHANGED pc
  /\ UNCHANGED <<fds, file_fd, fileMutex, received, left, buffer, client_fd, opened,
                 replies, shared, device, ioctl_found>>

(* fileMutex is destroyed, unless it is locked or its count of users has    *)
(* been upset by an unlock too many; file_fd is closed.                     *)
ShutdownDone(c) ==
  /\ T!ShutdownDone(c)
  /\ fileMutex' \in {fileMutex} \cup (IF Lockable(fileMutex) THEN {DESTROYED} ELSE {})
  /\ fds' = TableWithout(file_fd)
  /\ UNCHANGED <<file_fd, pc, received, left, buffer, client_fd, opened, replies, shared,
                 device, ioctl_found>>

Elsewhere == UNCHANGED <<handlerVars, device, ioctl_found>>

(* What the program does on its own apart from serving clients. *)
Main ==
  \/ MutexInit
  \/ CreateThread
  \/ \E c \in {"main", "signal"} : ShutdownDone(c)
  \/ T!Startup /\ Elsewhere
  \/ T!Loop /\ Elsewhere
  \/ T!ListLock /\ Elsewhere
  \/ T!insertNode /\ Elsewhere
  \/ T!removeCompletedThreads /\ Elsewhere
  \/ \E c \in {"main", "signal"} : (T!ShutdownLock(c) \/ T!ShutdownJoin(c)) /\ Elsewhere

(* A client thread goes on, without its client's help. *)
Client(h) == Serve(h) \/ Leave(h)

Init ==
  /\ HandlerInit
  /\ log = Stored /\ pending = Unfinished
  /\ ioctl_found = [h \in Handler |-> FALSE]
  /\ T!Init

Next ==
  /\ T!Alive
  /\ \/ Main
     \/ \E h \in Handler :
          \/ Accept(h)
          \/ Client(h)
          \/ Killed(h)
          \/ RecvPiece(h) /\ UNCHANGED threads
     \/ T!AcceptFails /\ Elsewhere
     \/ T!signal_handler /\ Elsewhere

Spec == Init /\ [][Next]_vars

(* Every thread that can run does.  No client has to connect, to send, to   *)
(* read its reply or to hang up.                                            *)
FairSpec ==
  /\ Spec
  /\ WF_vars(T!Alive /\ Main)
  /\ \A h \in Handler :
       WF_vars(/\ T!Alive /\ ~WaitsForClient(h)
               /\ Client(h) \/ (RecvPiece(h) /\ UNCHANGED threads))

-----------------------------------------------------------------------------
(* Properties.                                                              *)

(* The bytes on the device by command, the pending one last, and offset. *)
Commands == Append(log, pending)

IsPiece(b) == b \in Handler \X Nat

Before(k, i, l, j) == k < l \/ (k = l /\ i < j)

(* Every piece on the device was received, none is there twice, and those   *)
(* of a connection served alone keep their order, across commands that      *)
(* several connections put together.                                        *)
DeviceIsMergeOfPieces ==
  \A k, l \in DOMAIN Commands : \A i \in DOMAIN Commands[k], j \in DOMAIN Commands[l] :
    LET p == Commands[k][i]
        q == Commands[l][j]
    IN  /\ IsPiece(p) => p[2] \in 1 .. received[p[1]]
        /\ IsPiece(p) /\ IsPiece(q) /\ Before(k, i, l, j) =>
             /\ p # q
             /\ p[1] = q[1] /\ p[1] \notin shared => p[2] < q[2]

(* The byte a command names, as aesd_ioctl.h:27-31 has it. *)
NamesByte(target) == target[1] < Len(log) /\ target[2] < SizeOf(target[1])

TextFrom(pos) == SubSeq(Text, pos + 1, Len(Text))

(* A connection served alone gets all the device holds, from the byte its   *)
(* command asked for on when its last piece had one: the position that the  *)
(* ioctl sets is that of the descriptor the loop reads to the end, if there *)
(* was one left.  From which byte on is open once the ring is full, as the  *)
(* driver's positions are then; but the reply goes to the end all the same. *)
ReplyStartsWhereAsked ==
  \A h \in Handler :
    pc[h] = "finish" /\ h \notin shared /\ opened[h] # -1 /\ ~isError =>
      IF ~ioctl_found[h] THEN replies[h] = Text
      ELSE IF Len(log) < Capacity
      THEN (\A target \in Asks[h] : NamesByte(target)) =>
             \E target \in Asks[h] : replies[h] = TextFrom(EndOf(target[1]) + target[2])
      ELSE \E s \in 0 .. Len(Text) : replies[h] = TextFrom(s)

(* Whoever waits for fileMutex while it holds it itself has had a piece     *)
(* of a command without its newline: no other path comes back to the lock   *)
(* without an unlock.                                                       *)
SelfWaitOnlyAfterPartOfCommand ==
  \A h \in Handler :
    fileMutex = h /\ pc[h] \in {"lock", "reply lock", "recv"} =>
      \E w \in Handler : \E i \in 1 .. received[w] :
        Script[w][i] = "seek part" /\ (w = h \/ h \in shared)

(* Every socket is closed once its thread has ended, though the numbers get *)
(* mixed up by closes of file_fd; one whose thread could not be created is  *)
(* the only one that stays.                                                 *)
SocketsClosed ==
  \A fd \in Fds : fds[fd].kind = "sock" => thread[fds[fd].who] # "ended"

(* The mutex is kept by a thread that does not go on to unlock it. *)
MutexKept == \E h \in Handler : fileMutex = h /\ pc[h] \in {"recv", "lock", "reply lock"}

(* After a signal the program ends, unless the signal came upon work on the *)
(* list, the mutex is kept, or a client is waited for for ever that neither *)
(* sends nor hangs up, or does not read its reply.                          *)
OnlyStuckClientsDelayExit ==
  \/ <>(T!SignalDuringListWork \/ MutexKept)
  \/ \E h \in Handler : <>[]WaitsForClient(h)
  \/ isError ~> ~T!Alive

=============================================================================
