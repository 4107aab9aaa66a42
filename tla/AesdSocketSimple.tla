-------------------------- MODULE AesdSocketSimple --------------------------
(***************************************************************************)
(* server/aesdsocket-simple.c, the connections: ClientHandler on an        *)
(* ordinary file, which the first open creates.                            *)
(***************************************************************************)
EXTENDS ClientHandler

CONSTANT MaxActive   \* bound: connections served at the same time

VARIABLES
  file,        \* the pieces in the data file
  exists       \* the data file has been created

vars == <<file, exists, handlerVars>>

-----------------------------------------------------------------------------
(* main accepts the connection and creates the thread. *)
Accept(h) ==
  /\ pc[h] = "none"
  /\ Cardinality(Active) < MaxActive
  /\ AcceptSocket(h)
  /\ StartThread(h)
  /\ UNCHANGED <<file, exists, file_fd, fileMutex, received, left, buffer, opened, replies>>

(* To append the file is created, to read it has to exist. *)
OpenFile(h) ==
  LET append == pc[h] = "open"
  IN  /\ Open(h, IF append THEN "append" ELSE "read only", append \/ exists)
      /\ exists' = (exists \/ opened'[h] # -1)
      /\ UNCHANGED file

(* A write at the descriptor's own position. *)
FileWith_noAppend(data, object) ==
  SubSeq(file, 1, object.pos) \o data \o SubSeq(file, object.pos + 1 + Len(data), Len(file))

(* O_APPEND: wherever the position is, the data goes to the end. *)
FileWith(data, object) == file \o data

Write(h) ==
  LET object == Behind(file_fd)
  IN  /\ WriteFd(h, buffer[h])
      /\ file' = IF object.kind \in Writable THEN FileWith(buffer[h], object) ELSE file
      /\ UNCHANGED exists

(* What a read from an object's position on returns. *)
Contents(object) ==
  SubSeq(file, object.pos + 1, Min({object.pos + BufLen, Len(file)}))

Init == HandlerInit /\ file = << >> /\ exists = FALSE

client_handler(h) ==
  \/ OpenFile(h)
  \/ Write(h)
  \/ /\ \/ Recv(h, "reply lock")
        \/ Lock(h)
        \/ Assign(h, "write")
        \/ Close(h)
        \/ ReplyRead(h, Contents(Behind(file_fd)))
        \/ ReplyUnlock(h)
        \/ ReplySend(h)
        \/ Sigpipe(h)
        \/ ReplyClose(h)
        \/ pc[h] = "finish" /\ Finish(h)
     /\ UNCHANGED <<file, exists>>

Next == \E h \in Handler : Accept(h) \/ client_handler(h)

Spec == Init /\ [][Next]_vars

(* The scheduler runs every thread that can run.  No client has to connect, *)
(* to send, to read its reply or to hang up.                                *)
FairSpec ==
  /\ Spec
  /\ \A h \in Handler : WF_vars(~WaitsForClient(h) /\ client_handler(h))

-----------------------------------------------------------------------------
(* Properties.                                                              *)

TypeOK == HandlersTypeOK

(* However the threads get in each other's way, nothing reaches the file    *)
(* but what was received, and nothing twice; the pieces of a connection     *)
(* served alone are in order.  (Two threads may come to receive from one    *)
(* socket, once a stray close has freed its number under the first of them: *)
(* they may write in the other order.)                                      *)
FileIsMergeOfChunks ==
  /\ \A n \in DOMAIN file : file[n][2] \in 1 .. received[file[n][1]]
  /\ \A m, n \in DOMAIN file : m < n =>
       /\ file[m] # file[n]
       /\ file[m][1] = file[n][1] /\ file[m][1] \notin shared => file[m][2] < file[n][2]

(* What a client served alone has received, at every moment of its reply    *)
(* and ever after, is the file from its start on: no other thread's packet  *)
(* or reply reaches its socket through file_fd or a number used again.      *)
RepliesComeFromFile ==
  \A h \in Handler : h \notin shared => IsPrefix(replies[h], file)

(* fileMutex is never left behind by a thread that is past its last unlock, *)
(* although unlocks are skipped, doubled and made for others: whoever owns  *)
(* it is between its lock and one of its unlocks, so nobody waits for ever. *)
MutexNotAbandoned ==
  \A h \in Handler :
    fileMutex = h =>
      pc[h] \in {"open", "assign", "write", "close", "reply open", "reply assign",
                 "read", "unlock", "reply close", "killed"}

(* A client served alone receives the whole file, its own packet included:  *)
(* the loop of reads neither skips nor repeats a piece, whatever earlier    *)
(* connections did to file_fd and the mutex -- as long as they have left a  *)
(* descriptor to open the file with.                                        *)
ReplyIsWholeFile ==
  \A h \in Handler :
    pc[h] = "finish" /\ h \notin shared /\ opened[h] # -1 =>
      /\ replies[h] = file
      /\ \A i \in 1 .. received[h] : \E n \in DOMAIN file : file[n] = <<h, i>>

(* When every connection was served alone, no descriptor stays open behind  *)
(* the last and the mutex is free.                                          *)
NothingLeftOpen ==
  Active = {} /\ shared = {} => fileMutex = Nobody /\ FreeFds = Fds

(* A client that neither sends nor hangs up, or does not read its reply,    *)
(* keeps its own thread for ever and nobody else's: every other thread ends *)
(* (or the whole process does, by SIGPIPE), although unlocks are skipped,   *)
(* doubled and made for others.                                             *)
HandlersComplete ==
  \A h \in Handler :
    \/ pc[h] # "none" ~> pc[h] \in {"done", "killed"}
    \/ <>[](pc[h] \in {"recv", "send"} /\ WaitsForClient(h))

(* aesdsocket-simple.c:26: "Mutex to protect file access": the descriptor a *)
(* thread opened is the one it writes, reads and closes.                    *)
FileAccessProtected ==
  \A h \in Handler :
    pc[h] \in {"write", "close", "read", "unlock", "send", "reply close"} =>
      file_fd = opened[h]

=============================================================================
