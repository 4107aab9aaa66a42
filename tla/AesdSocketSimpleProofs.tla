------------------------ MODULE AesdSocketSimpleProofs ------------------------
(* Theorems about AesdSocketSimple, for any number of connections, scripts  *)
(* and descriptors.                                                         *)
EXTENDS AesdSocketSimple, SequenceTheorems, WellFoundedInduction, TLAPS

(* Where a thread may own fileMutex. *)
Owning == {"open", "assign", "write", "close", "reply open", "reply assign",
           "read", "unlock", "reply close", "killed"}

Inv ==
  /\ pc = [h \in Handler |-> pc[h]]
  /\ MutexNotAbandoned

LEMMA InitInv == Init => Inv
  BY ClientHandlerAssumption DEF Init, HandlerInit, Inv, MutexNotAbandoned

(* A step that leaves fileMutex alone and takes one thread from a place to  *)
(* another one where it may own the mutex, if it could before.              *)
LEMMA MutexAlone ==
  ASSUME Inv, UNCHANGED fileMutex,
         NEW h \in Handler, NEW step, Goto(h, step),
         pc[h] \in Owning => step \in Owning
  PROVE  Inv'
  BY DEF Inv, MutexNotAbandoned, Goto, Owning

(* A step that unlocks, for whomever, and takes one thread elsewhere. *)
LEMMA Unlocks ==
  ASSUME Inv, fileMutex' = AfterUnlock(fileMutex),
         NEW h \in Handler, NEW step, Goto(h, step)
  PROVE  Inv'
  BY ClientHandlerAssumption DEF Inv, MutexNotAbandoned, Goto, AfterUnlock

LEMMA LockInv ==
  ASSUME Inv, NEW h \in Handler, Lock(h)
  PROVE  Inv'
  BY ClientHandlerAssumption DEF Lock, Lockable, AfterLock, Goto, Inv, MutexNotAbandoned

LEMMA RecvInv ==
  ASSUME Inv, NEW h \in Handler, Recv(h, "reply lock")
  PROVE  Inv'
<1>1. UNCHANGED fileMutex /\ pc[h] = "recv"
  BY DEF Recv
<1>2. Goto(h, "lock") \/ Goto(h, "reply lock")
  BY DEF Recv
<1>3. QED
  BY <1>1, <1>2, MutexAlone DEF Owning

LEMMA ReplyReadInv ==
  ASSUME Inv, NEW h \in Handler, NEW data, ReplyRead(h, data)
  PROVE  Inv'
<1>1. UNCHANGED fileMutex
  BY DEF ReplyRead
<1>2. Goto(h, "unlock") \/ Goto(h, "reply close")
  BY DEF ReplyRead
<1>3. QED
  BY <1>1, <1>2, MutexAlone DEF Owning

LEMMA SigpipeInv ==
  ASSUME Inv, NEW h \in Handler, Sigpipe(h)
  PROVE  Inv'
  BY DEF Sigpipe, Inv, MutexNotAbandoned

LEMMA NextInv == Inv /\ [Next]_vars => Inv'
<1> SUFFICES ASSUME Inv, [Next]_vars PROVE Inv'
  OBVIOUS
<1>1. CASE UNCHANGED vars
  BY <1>1 DEF vars, handlerVars, Inv, MutexNotAbandoned
<1>2. ASSUME NEW h \in Handler, Accept(h) PROVE Inv'
  <2>1. pc[h] = "none" /\ Goto(h, "recv") /\ UNCHANGED fileMutex
    BY <1>2 DEF Accept, StartThread
  <2>2. QED
    BY <2>1, MutexAlone DEF Owning
<1>3. ASSUME NEW h \in Handler, client_handler(h) PROVE Inv'
  <2>1. CASE OpenFile(h)
    <3>1. UNCHANGED fileMutex /\ pc[h] \in {"open", "reply open"}
      BY <2>1 DEF OpenFile, Open
    <3>2. Goto(h, "assign") \/ Goto(h, "reply assign")
      BY <2>1 DEF OpenFile, Open
    <3>3. QED
      BY <3>1, <3>2, MutexAlone DEF Owning
  <2>2. CASE Write(h)
    <3>1. UNCHANGED fileMutex /\ Goto(h, "close")
      BY <2>2 DEF Write, WriteFd
    <3>2. QED
      BY <3>1, MutexAlone DEF Owning
  <2>3. CASE Recv(h, "reply lock")
    BY <2>3, RecvInv
  <2>4. CASE Lock(h)
    BY <2>4, LockInv
  <2>5. CASE Assign(h, "write")
    <3>1. UNCHANGED fileMutex /\ (Goto(h, "write") \/ Goto(h, "read"))
      BY <2>5 DEF Assign
    <3>2. QED
      BY <3>1, MutexAlone DEF Owning
  <2>6. CASE Close(h)
    <3>1. fileMutex' = AfterUnlock(fileMutex) /\ (Goto(h, "reply lock") \/ Goto(h, "recv"))
      BY <2>6 DEF Close
    <3>2. QED
      BY <3>1, Unlocks
  <2>7. CASE ReplyRead(h, Contents(Behind(file_fd)))
    BY <2>7, ReplyReadInv
  <2>8. CASE ReplyUnlock(h)
    BY <2>8, Unlocks DEF ReplyUnlock
  <2>9. CASE ReplySend(h)
    <3>1. UNCHANGED fileMutex /\ Goto(h, "read")
      BY <2>9 DEF ReplySend
    <3>2. QED
      BY <3>1, MutexAlone DEF Owning
  <2>10. CASE Sigpipe(h)
    BY <2>10, SigpipeInv
  <2>11. CASE ReplyClose(h)
    BY <2>11, Unlocks DEF ReplyClose
  <2>12. CASE pc[h] = "finish" /\ Finish(h)
    <3>1. UNCHANGED fileMutex /\ pc[h] \notin Owning /\ Goto(h, "done")
      BY <2>12 DEF Finish, Owning
    <3>2. QED
      BY <3>1, MutexAlone
  <2>13. QED
    BY <1>3, <2>1, <2>2, <2>3, <2>4, <2>5, <2>6, <2>7, <2>8, <2>9, <2>10, <2>11, <2>12
    DEF client_handler
<1>4. QED
  BY <1>1, <1>2, <1>3 DEF Next

(* fileMutex is never left with a thread that is past its last unlock: for  *)
(* any number of clients, whatever they send and however often the reply    *)
(* loop unlocks for others.                                                 *)
THEOREM MutexNeverAbandoned == Spec => []MutexNotAbandoned
<1>1. Inv => MutexNotAbandoned
  BY DEF Inv
<1>2. QED
  BY InitInv, NextInv, <1>1, PTL DEF Spec
-----------------------------------------------------------------------------
(* Types, with those of the variables TypeOK does not name.                 *)

Steps == {"none", "recv", "lock", "open", "assign", "write", "close", "reply lock",
          "reply open", "reply assign", "read", "unlock", "send", "reply close",
          "finish", "done", "killed"}

Chunks == Handler \X Nat

Object == [kind : {"free", "sock"} \cup Readable, who : Handler \cup {Nobody}, pos : Nat]

TypeInv ==
  /\ fds \in [Fds -> Object]
  /\ file_fd \in Fds \cup {-1, 0}
  /\ fileMutex \in Handler \cup {Nobody}
  /\ pc \in [Handler -> Steps]
  /\ received \in [Handler -> Nat]
  /\ left = [h \in Handler |-> left[h]]
  /\ buffer \in [Handler -> Seq(Chunks)]
  /\ client_fd \in [Handler -> Fds \cup {-1}]
  /\ opened \in [Handler -> Fds \cup {-1}]
  /\ replies \in [Handler -> Seq(Chunks)]
  /\ file \in Seq(Chunks)
  /\ shared \subseteq Handler
  /\ \A h \in Handler :
       /\ received[h] <= Len(Script[h])
       /\ client_fd[h] \in Fds \/ pc[h] \in {"none", "killed"}
       /\ pc[h] \in {"lock", "open", "assign", "write", "close"} => Len(buffer[h]) = 1

-----------------------------------------------------------------------------
(* Whose socket a descriptor is, and who is served beside whom.             *)

Live(h) == pc[h] \notin {"none", "done", "killed"}

(* A socket is behind the descriptor its connection got, whatever has been  *)
(* closed since, and its thread has not ended.                              *)
SocketInv ==
  /\ \A fd \in Fds : fds[fd].kind = "sock" =>
       \E w \in Handler : fds[fd] = Sock(w) /\ client_fd[w] = fd /\ pc[w] \notin {"none", "done"}
  /\ \A h \in Handler : pc[h] = "none" => received[h] = 0 /\ replies[h] = << >>

(* SIGPIPE ends all threads at once; two that are served are both shared.   *)
TogetherInv ==
  /\ \A g, h \in Handler : pc[g] = "killed" => pc[h] = "killed"
  /\ \A g, h \in Handler : g # h /\ Live(g) /\ Live(h) => g \in shared

ServiceInv == TypeInv /\ SocketInv /\ TogetherInv

-----------------------------------------------------------------------------
(* Where a piece that was received is.                                      *)

Carrying(h) == pc[h] \in {"lock", "open", "assign", "write"}
Carried(h)  == buffer[h][1]

(* It came from the thread's own client, or from one whose socket others    *)
(* get to see too; the last piece of a client served alone is the last one  *)
(* received.                                                                *)
CarriedInv ==
  \A h \in Handler : Carrying(h) =>
    /\ Carried(h)[2] \in 1 .. received[Carried(h)[1]]
    /\ Carried(h)[1] = h \/ Carried(h)[1] \in shared
    /\ h \notin shared => Carried(h)[2] = received[h]
    /\ \A g \in Handler : Carrying(g) /\ g # h => Carried(g) # Carried(h)
    /\ \A n \in DOMAIN file : file[n] # Carried(h)

ChunksInv == CarriedInv /\ FileIsMergeOfChunks

-----------------------------------------------------------------------------
(* The connection of a client that is served alone.                         *)

(* All its pieces are in the file, but for the one its thread carries.      *)
Recorded(h) ==
  \A i \in 1 .. received[h] :
    \/ \E n \in DOMAIN file : file[n] = <<h, i>>
    \/ Carrying(h) /\ Carried(h) = <<h, i>>

(* Up to the reply: nothing is sent, and if there is a descriptor for the   *)
(* file now there was one before.                                           *)
AloneReceiving(h) ==
  /\ replies[h] = << >>
  /\ pc[h] \in {"assign", "write", "close"} =>
       IF opened[h] = -1 THEN FreeFds = {}
       ELSE fds[opened[h]].kind = "append" /\ Recorded(h)
  /\ pc[h] \in {"recv", "lock", "open", "reply lock", "reply open"} /\ FreeFds # {} =>
       Recorded(h)

(* The reply: what was sent, or is about to be, is what lies before the     *)
(* position of the descriptor.                                              *)
AloneReplying(h) ==
  IF opened[h] = -1 THEN pc[h] \notin {"unlock", "send"} /\ replies[h] = << >>
  ELSE LET object == fds[opened[h]]
       IN  /\ Recorded(h)
           /\ pc[h] # "finish" => object.kind = "read only"
           /\ pc[h] \in {"reply assign", "read"} =>
                object.pos <= Len(file) /\ replies[h] = SubSeq(file, 1, object.pos)
           /\ pc[h] \in {"unlock", "send"} =>
                object.pos <= Len(file) /\ replies[h] \o buffer[h] = SubSeq(file, 1, object.pos)
           /\ pc[h] \in {"reply close", "finish"} => replies[h] = file

Alone(h) ==
  /\ fds[client_fd[h]] = Sock(h)
  /\ pc[h] \in {"write", "close", "read", "unlock", "send", "reply close"} =>
       file_fd = opened[h]
  /\ pc[h] \in {"recv", "lock", "open", "assign", "write", "close",
                "reply lock", "reply open"} => AloneReceiving(h)
  /\ pc[h] \in {"reply assign", "read", "unlock", "send", "reply close", "finish"} =>
       AloneReplying(h)

(* What is open while no connection has been served beside another.         *)
Holding == {"assign", "write", "close", "reply assign", "read", "unlock", "send",
            "reply close"}

OpenInv ==
  shared = {} /\ (\A h \in Handler : pc[h] # "killed") =>
    \A fd \in Fds : fds[fd] # FREE =>
      \E h \in Handler :
        Live(h) /\ (fd = client_fd[h] \/ (fd = opened[h] /\ pc[h] \in Holding))

AloneInv ==
  /\ RepliesComeFromFile
  /\ \A h \in Handler : Live(h) /\ h \notin shared => Alone(h)
  /\ OpenInv

-----------------------------------------------------------------------------
(* The helpers.                                                             *)

LEMMA SmallestNumber ==
  ASSUME NEW S, S \subseteq Nat, S # {}
  PROVE  Min(S) \in S
<1>1. PICK R : IsWellFoundedOn(R, Nat) /\ \A x, y \in Nat : x < y => <<x, y>> \in R
  <2> DEFINE R == OpToRel(<, Nat)
  <2>1. IsWellFoundedOn(R, Nat)
    BY NatLessThanWellFounded
  <2>2. \A x, y \in Nat : x < y => <<x, y>> \in R
    BY DEF OpToRel
  <2> HIDE DEF R
  <2> QED
    BY <2>1, <2>2
<1>2. \E x \in S : \A y \in S : ~(<<y, x>> \in R)
  <2>1. IsWellFoundedOn(R, Nat)
    BY <1>1
  <2> QED
    BY <2>1, WFMin
<1>3. \E x \in S : \A y \in S : x =< y
  <2>1. PICK x \in S : \A y \in S : ~(y < x)
    BY <1>1, <1>2
  <2> QED
    BY <2>1
<1> QED
  BY <1>3 DEF Min

LEMMA SmallerOfTwo ==
  ASSUME NEW a \in Int, NEW b \in Int
  PROVE  Min({a, b}) = IF a <= b THEN a ELSE b
<1> DEFINE m == IF a <= b THEN a ELSE b
<1>1. m \in {a, b} /\ \A y \in {a, b} : m =< y
  OBVIOUS
<1>2. \E x \in {a, b} : \A y \in {a, b} : x =< y
  BY <1>1
<1>3. Min({a, b}) \in {a, b} /\ \A y \in {a, b} : Min({a, b}) =< y
  BY <1>2 DEF Min
<1> QED
  BY <1>3

(* A new descriptor was free, and there is none only when none was free.    *)
LEMMA NewDescriptor ==
  /\ NewFd = -1 \/ (NewFd \in Fds /\ fds[NewFd] = FREE)
  /\ NewFd = -1 <=> FreeFds = {}
  /\ ~(-1 \in Fds)
<1>0. Fds \subseteq Nat
  BY ClientHandlerAssumption
<1>1. FreeFds \subseteq Nat /\ FreeFds \subseteq Fds /\ ~(-1 \in Fds)
  <2>1. FreeFds \subseteq Fds
    BY DEF FreeFds
  <2>2. ~(-1 \in Nat)
    OBVIOUS
  <2> QED
    BY <1>0, <2>1, <2>2
<1>2. CASE FreeFds = {}
  BY <1>1, <1>2 DEF NewFd
<1>3. CASE FreeFds # {}
  <2>1. Min(FreeFds) \in FreeFds
    BY <1>1, <1>3, SmallestNumber
  <2>2. NewFd = Min(FreeFds) /\ NewFd # -1
    <3>1. NewFd = Min(FreeFds)
      BY <1>3 DEF NewFd
    <3> QED
      BY <1>1, <2>1, <3>1
  <2> QED
    BY <1>1, <1>3, <2>1, <2>2 DEF FreeFds
<1> QED
  BY <1>2, <1>3

(* A read continues where the position is, and returns nothing only at the  *)
(* end of the file.                                                         *)
LEMMA ContentsContinue ==
  ASSUME file \in Seq(Chunks), NEW object, object.pos \in Nat
  PROVE  /\ Contents(object) \in Seq(Chunks)
         /\ object.pos <= Len(file) =>
              LET next == object.pos + Len(Contents(object))
              IN  /\ next \in Nat /\ next <= Len(file)
                  /\ SubSeq(file, 1, object.pos) \o Contents(object) = SubSeq(file, 1, next)
                  /\ Contents(object) = << >> => object.pos = Len(file)
<1> DEFINE p == object.pos
           e == Min({p + BufLen, Len(file)})
           c == Contents(object)
<1>1. p \in Nat /\ Len(file) \in Nat /\ BufLen \in Nat /\ BufLen > 0
  BY ClientHandlerAssumption, LenProperties
<1>2. e = IF p + BufLen <= Len(file) THEN p + BufLen ELSE Len(file)
  BY <1>1, SmallerOfTwo
<1>3. e \in Nat /\ e <= Len(file) /\ (p <= Len(file) => p <= e) /\ (p < Len(file) => p < e)
  BY <1>1, <1>2
<1>4. c = SubSeq(file, p + 1, e)
  BY DEF Contents
<1> HIDE DEF e
<1>5. c \in Seq(Chunks) /\ Len(c) = IF p + 1 <= e THEN e - p ELSE 0
  BY <1>1, <1>3, <1>4, SubSeqProperties
<1>6. ASSUME p <= Len(file)
      PROVE  /\ p + Len(c) = e
             /\ SubSeq(file, 1, p) \o c = SubSeq(file, 1, e)
             /\ c = << >> => p = Len(file)
  <2>1. p + Len(c) = e
    BY <1>1, <1>3, <1>5, <1>6
  <2>2. SubSeq(file, 1, p) \o SubSeq(file, p + 1, e) = SubSeq(file, 1, e)
    <3>1. /\ 1 \in 1 .. Len(file) + 1
          /\ p \in 1 - 1 .. Len(file)
          /\ e \in p .. Len(file)
      BY <1>1, <1>3, <1>6
    <3> HIDE DEF p
    <3> QED
      BY <3>1, ConcatAdjacentSubSeq
  <2>3. c = << >> => Len(c) = 0
    BY EmptySeq
  <2> HIDE DEF c, p
  <2>4. c = << >> => p = Len(file)
    BY <1>1, <1>3, <1>6, <2>1, <2>3
  <2> QED
    BY <1>4, <2>1, <2>2, <2>4
<1> QED
  BY <1>3, <1>5, <1>6

-----------------------------------------------------------------------------
(* Types.                                                                   *)

LEMMA InitService == Init => ServiceInv
<1> SUFFICES ASSUME Init PROVE ServiceInv
  OBVIOUS
<1>1. \A h \in Handler : Len(Script[h]) \in Nat
  BY ClientHandlerAssumption, LenProperties
<1>2. TypeInv
  BY <1>1 DEF Init, HandlerInit, TypeInv, FREE, Object, Steps
<1> QED
  BY <1>2 DEF Init, HandlerInit, ServiceInv, SocketInv, TogetherInv, Live, FREE

(* A thread goes to a place where it need not hold a piece, or where it    *)
(* holds one.                                                               *)
LEMMA TypeGoto ==
  ASSUME TypeInv, NEW h \in Handler, NEW step \in Steps, Goto(h, step), step # "none",
         pc[h] \notin {"none", "killed"},
         step \in {"lock", "open", "assign", "write", "close"} => Len(buffer'[h]) = 1,
         \A g \in Handler : g # h => buffer'[g] = buffer[g],
         buffer' \in [Handler -> Seq(Chunks)],
         fds' \in [Fds -> Object], file_fd' \in Fds \cup {-1, 0},
         fileMutex' \in Handler \cup {Nobody},
         received' \in [Handler -> Nat], left' = [g \in Handler |-> left'[g]],
         opened' \in [Handler -> Fds \cup {-1}],
         replies' \in [Handler -> Seq(Chunks)], file' \in Seq(Chunks),
         \A g \in Handler : received'[g] <= Len(Script[g]),
         UNCHANGED <<client_fd, shared>>
  PROVE  TypeInv'
<1>1. pc' \in [Handler -> Steps] /\ pc'[h] = step /\ \A g \in Handler : g # h => pc'[g] = pc[g]
  BY DEF TypeInv, Goto
<1>2. client_fd' = client_fd /\ shared' = shared
  OBVIOUS
<1>3. ASSUME NEW g \in Handler
      PROVE  /\ client_fd'[g] \in Fds \/ pc'[g] \in {"none", "killed"}
             /\ pc'[g] \in {"lock", "open", "assign", "write", "close"} => Len(buffer'[g]) = 1
  <2>1. CASE g = h
    BY <1>1, <1>2, <2>1 DEF TypeInv
  <2>2. CASE g # h
    BY <1>1, <1>2, <2>2 DEF TypeInv
  <2> QED
    BY <2>1, <2>2
<1> QED
  BY <1>1, <1>2, <1>3 DEF TypeInv

LEMMA Tables ==
  ASSUME TypeInv
  PROVE  /\ \A fd \in Fds \cup {-1}, object \in Object : TableWith(fd, object) \in [Fds -> Object]
         /\ \A fd : TableWithout(fd) \in [Fds -> Object]
         /\ \A h \in Handler : Sock(h) \in Object
         /\ \A kind \in Readable : DATA_FILE(kind) \in Object
         /\ FREE \in Object
<1>1. /\ \A h \in Handler : Sock(h) \in Object
      /\ \A kind \in Readable : DATA_FILE(kind) \in Object
      /\ FREE \in Object
  BY DEF Sock, DATA_FILE, FREE, Object
<1>2. fds \in [Fds -> Object]
  BY DEF TypeInv
<1>3. \A fd \in Fds \cup {-1}, object \in Object : TableWith(fd, object) \in [Fds -> Object]
  BY <1>2 DEF TableWith
<1>4. \A fd : TableWithout(fd) \in [Fds -> Object]
  BY <1>1, <1>2 DEF TableWithout
<1> QED
  BY <1>1, <1>3, <1>4

LEMMA Locks ==
  ASSUME TypeInv, NEW h \in Handler
  PROVE  /\ AfterUnlock(fileMutex) = Nobody
         /\ Lockable(fileMutex) => fileMutex = Nobody /\ AfterLock(fileMutex, h) = h
<1>1. fileMutex \in Handler \cup {Nobody}
  BY DEF TypeInv
<1>2. fileMutex # DESTROYED
  BY <1>1, ClientHandlerAssumption
<1> QED
  BY <1>2, ClientHandlerAssumption DEF AfterUnlock, Lockable, AfterLock

(* The object behind a descriptor, and whose socket it is.                  *)
LEMMA BehindFd ==
  ASSUME ServiceInv, NEW fd
  PROVE  /\ Behind(fd) \in Object
         /\ Behind(fd).kind # "free" => fd \in Fds /\ Behind(fd) = fds[fd]
         /\ Behind(fd).kind = "sock" =>
              \E w \in Handler : /\ fd \in Fds /\ fds[fd] = Sock(w) /\ Behind(fd).who = w
                                 /\ client_fd[w] = fd /\ pc[w] \notin {"none", "done"}
<1>1. fds \in [Fds -> Object] /\ FREE \in Object /\ FREE.kind = "free"
  BY Tables DEF ServiceInv, TypeInv, FREE
<1>2. CASE fd \in Fds
  BY <1>1, <1>2 DEF Behind, ServiceInv, SocketInv, Sock
<1>3. CASE fd \notin Fds
  BY <1>1, <1>3 DEF Behind
<1> QED
  BY <1>2, <1>3

LEMMA RepliesTyped ==
  ASSUME TypeInv, NEW object, NEW data \in Seq(Chunks)
  PROVE  RepliesWith(object, data) \in [Handler -> Seq(Chunks)]
<1>1. ASSUME NEW h \in Handler PROVE replies[h] \o data \in Seq(Chunks)
  <2>1. replies[h] \in Seq(Chunks)
    BY DEF TypeInv
  <2> QED
    BY <2>1, ConcatProperties
<1>2. replies \in [Handler -> Seq(Chunks)]
  BY DEF TypeInv
<1> QED
  BY <1>1, <1>2 DEF RepliesWith

(* What a delivery by w changes, and the piece it delivers.                 *)
LEMMA Delivery ==
  ASSUME TypeInv, NEW w \in Handler, Delivers(w)
  PROVE  /\ received' = [received EXCEPT ![w] = received[w] + 1]
         /\ received' \in [Handler -> Nat]
         /\ \A g \in Handler : received'[g] <= Len(Script[g])
         /\ received'[w] = received[w] + 1
         /\ \A g \in Handler : g # w => received'[g] = received[g]
         /\ left' = left
         /\ <<w, received[w] + 1>> \in Chunks
<1>1. \A g \in Handler : Len(Script[g]) \in Nat
  BY ClientHandlerAssumption, LenProperties
<1>2. received \in [Handler -> Nat] /\ \A g \in Handler : received[g] <= Len(Script[g])
  BY DEF TypeInv
<1> QED
  BY <1>1, <1>2 DEF Delivers, Chunks

LEMMA OnePiece ==
  ASSUME NEW c \in Chunks
  PROVE  <<c>> \in Seq(Chunks) /\ Len(<<c>>) = 1 /\ <<c>>[1] = c
  OBVIOUS

LEMMA TypeRecv ==
  ASSUME ServiceInv, NEW h \in Handler, Recv(h, "reply lock"), UNCHANGED file
  PROVE  TypeInv'
<1> DEFINE object == Behind(client_fd[h])
           w == object.who
<1>0. TypeInv
  BY DEF ServiceInv
<1>1. /\ pc[h] = "recv"
      /\ UNCHANGED <<fds, file_fd, fileMutex, client_fd, opened, replies, shared>>
  BY DEF Recv
<1>2. CASE /\ object.kind = "sock" /\ Delivers(w) /\ Goto(h, "lock")
           /\ buffer' = [buffer EXCEPT ![h] = <<<<w, received[w] + 1>>>>]
  <2>1. w \in Handler
    BY <1>2, BehindFd
  <2> HIDE DEF w, object
  <2> DEFINE piece == <<w, received[w] + 1>>
  <2>2. /\ received' \in [Handler -> Nat] /\ left' = left
        /\ \A g \in Handler : received'[g] <= Len(Script[g])
        /\ piece \in Chunks
    BY <1>0, <1>2, <2>1, Delivery
  <2>3. <<piece>> \in Seq(Chunks) /\ Len(<<piece>>) = 1
    BY <2>2, OnePiece
  <2>4. buffer' = [buffer EXCEPT ![h] = <<piece>>]
    BY <1>2
  <2> HIDE DEF piece
  <2>5. /\ buffer' \in [Handler -> Seq(Chunks)] /\ Len(buffer'[h]) = 1
        /\ \A g \in Handler : g # h => buffer'[g] = buffer[g]
    BY <1>0, <2>3, <2>4 DEF TypeInv
  <2> QED
    BY <1>0, <1>1, <1>2, <2>2, <2>5, TypeGoto DEF TypeInv, Steps
<1>3. CASE /\ Goto(h, "reply lock") /\ UNCHANGED buffer
           /\ received' = received
           /\ left' = left \/ left' = [left EXCEPT ![w] = TRUE]
  <2>1. left' = [g \in Handler |-> left'[g]]
    BY <1>0, <1>3 DEF TypeInv
  <2> QED
    BY <1>0, <1>1, <1>3, <2>1, TypeGoto DEF TypeInv, Steps
<1> QED
  BY <1>2, <1>3 DEF Recv, Ends

LEMMA TypeReplyRead ==
  ASSUME ServiceInv, NEW h \in Handler, ReplyRead(h, Contents(Behind(file_fd))), UNCHANGED file
  PROVE  TypeInv'
<1> DEFINE object == Behind(file_fd)
           w == object.who
           data == Contents(object)
<1>0. TypeInv
  BY DEF ServiceInv
<1>1. /\ pc[h] = "read"
      /\ UNCHANGED <<file_fd, fileMutex, client_fd, opened, replies, shared>>
  BY DEF ReplyRead
<1>2. CASE /\ object.kind \in Readable
           /\ fds' = [fds EXCEPT ![file_fd].pos = @ + Len(data)]
           /\ buffer' = [buffer EXCEPT ![h] = data]
           /\ Goto(h, "unlock")
           /\ UNCHANGED <<received, left>>
  <2>1. file_fd \in Fds /\ object = fds[file_fd] /\ object \in Object
    BY <1>2, BehindFd DEF Readable
  <2>2. data \in Seq(Chunks) /\ Len(data) \in Nat
    <3>1. object.pos \in Nat /\ file \in Seq(Chunks)
      BY <1>0, <2>1 DEF Object, TypeInv
    <3>2. data \in Seq(Chunks)
      BY <3>1, ContentsContinue
    <3> QED
      BY <3>2, LenProperties
  <2> HIDE DEF data, object
  <2>3. fds' \in [Fds -> Object]
    <3> DEFINE moved == [fds[file_fd] EXCEPT !.pos = @ + Len(data)]
    <3>1. fds[file_fd] \in Object /\ fds \in [Fds -> Object]
      BY <1>0, <2>1 DEF TypeInv
    <3>2. moved \in Object
      <4>1. fds[file_fd].pos + Len(data) \in Nat
        BY <2>2, <3>1 DEF Object
      <4>2. \A o \in Object, n \in Nat : [o EXCEPT !.pos = n] \in Object
        BY DEF Object
      <4> QED
        BY <3>1, <4>1, <4>2
    <3>3. fds' = [fds EXCEPT ![file_fd] = moved]
      BY <1>2
    <3> HIDE DEF moved
    <3> QED
      BY <2>1, <3>1, <3>2, <3>3
  <2>4. /\ buffer' \in [Handler -> Seq(Chunks)]
        /\ \A g \in Handler : g # h => buffer'[g] = buffer[g]
    BY <1>0, <1>2, <2>2 DEF TypeInv
  <2> QED
    BY <1>0, <1>1, <1>2, <2>3, <2>4, TypeGoto DEF TypeInv, Steps
<1>3. CASE /\ object.kind = "sock" /\ Delivers(w)
           /\ buffer' = [buffer EXCEPT ![h] = <<<<w, received[w] + 1>>>>]
           /\ Goto(h, "unlock")
           /\ UNCHANGED fds
  <2>1. w \in Handler
    BY <1>3, BehindFd
  <2> HIDE DEF w, object
  <2> DEFINE piece == <<w, received[w] + 1>>
  <2>2. /\ received' \in [Handler -> Nat] /\ left' = left
        /\ \A g \in Handler : received'[g] <= Len(Script[g])
        /\ piece \in Chunks
    BY <1>0, <1>3, <2>1, Delivery
  <2>3. <<piece>> \in Seq(Chunks) /\ Len(<<piece>>) = 1
    BY <2>2, OnePiece
  <2>4. buffer' = [buffer EXCEPT ![h] = <<piece>>]
    BY <1>3
  <2> HIDE DEF piece
  <2>5. /\ buffer' \in [Handler -> Seq(Chunks)] /\ Len(buffer'[h]) = 1
        /\ \A g \in Handler : g # h => buffer'[g] = buffer[g]
    BY <1>0, <2>3, <2>4 DEF TypeInv
  <2> QED
    BY <1>0, <1>1, <1>3, <2>2, <2>5, TypeGoto DEF TypeInv, Steps
<1>4. CASE /\ Goto(h, "reply close")
           /\ UNCHANGED <<fds, buffer, received>>
           /\ left' = left \/ left' = [left EXCEPT ![w] = TRUE]
  <2>1. left' = [g \in Handler |-> left'[g]]
    BY <1>0, <1>4 DEF TypeInv
  <2> QED
    BY <1>0, <1>1, <1>4, <2>1, TypeGoto DEF TypeInv, Steps
<1> QED
  BY <1>2, <1>3, <1>4 DEF ReplyRead, Ends

(* The steps that leave what clients have sent and read alone.              *)
LEMMA TypeOthers ==
  ASSUME ServiceInv, NEW h \in Handler,
         \/ OpenFile(h)
         \/ Write(h)
         \/ /\ \/ Lock(h) \/ Assign(h, "write") \/ Close(h) \/ ReplyUnlock(h)
               \/ ReplySend(h) \/ ReplyClose(h) \/ (pc[h] = "finish" /\ Finish(h))
            /\ UNCHANGED file
  PROVE  TypeInv'
<1>0. TypeInv
  BY DEF ServiceInv
<1>1. CASE OpenFile(h)
  <2> DEFINE fd == opened'[h]
  <2>1. PICK kind \in {"append", "read only"}, there \in BOOLEAN : Open(h, kind, there)
    BY <1>1 DEF OpenFile
  <2>2. /\ pc[h] \in {"open", "reply open"}
        /\ \E x \in {NewFd, -1} : /\ opened' = [opened EXCEPT ![h] = x]
                                  /\ fds' = TableWith(x, DATA_FILE(kind))
        /\ Goto(h, IF pc[h] = "open" THEN "assign" ELSE "reply assign")
        /\ UNCHANGED <<file_fd, fileMutex, received, left, buffer, client_fd, replies, shared>>
    BY <2>1 DEF Open
  <2>3. file' = file
    BY <1>1 DEF OpenFile
  <2>4. opened' \in [Handler -> Fds \cup {-1}] /\ fds' \in [Fds -> Object]
    <3>1. PICK x \in {NewFd, -1} : /\ opened' = [opened EXCEPT ![h] = x]
                                   /\ fds' = TableWith(x, DATA_FILE(kind))
      BY <2>2
    <3>2. x \in Fds \cup {-1} /\ DATA_FILE(kind) \in Object
      BY <1>0, NewDescriptor, Tables DEF Readable
    <3>3. fds' \in [Fds -> Object]
      BY <1>0, <3>1, <3>2, Tables
    <3> QED
      BY <1>0, <3>1, <3>2, <3>3 DEF TypeInv
  <2>5. pc[h] = "open" => Len(buffer[h]) = 1
    BY <1>0 DEF TypeInv
  <2> QED
    BY <1>0, <2>2, <2>3, <2>4, <2>5, TypeGoto DEF TypeInv, Steps
<1>2. CASE Write(h)
  <2>1. /\ pc[h] = "write" /\ Goto(h, "close")
        /\ replies' = RepliesWith(Behind(file_fd), buffer[h])
        /\ file' \in {file, file \o buffer[h]}
        /\ UNCHANGED <<fds, file_fd, fileMutex, received, left, buffer, client_fd, opened, shared>>
    BY <1>2 DEF Write, WriteFd, FileWith
  <2>2. buffer[h] \in Seq(Chunks) /\ file \in Seq(Chunks) /\ Len(buffer[h]) = 1
    BY <1>0, <2>1 DEF TypeInv
  <2>3. file \o buffer[h] \in Seq(Chunks)
    BY <2>2, ConcatProperties
  <2>4. file' \in Seq(Chunks) /\ replies' \in [Handler -> Seq(Chunks)]
    BY <1>0, <2>1, <2>2, <2>3, RepliesTyped
  <2> QED
    BY <1>0, <2>1, <2>2, <2>4, TypeGoto DEF TypeInv, Steps
<1>3. CASE Lock(h) /\ UNCHANGED file
  <2>1. /\ pc[h] \in {"lock", "reply lock"}
        /\ Goto(h, IF pc[h] = "lock" THEN "open" ELSE "reply open")
        /\ fileMutex' = h
        /\ UNCHANGED <<fds, file_fd, received, left, buffer, client_fd, opened, replies, shared>>
    BY <1>0, <1>3, Locks DEF Lock
  <2>2. pc[h] = "lock" => Len(buffer[h]) = 1
    BY <1>0 DEF TypeInv
  <2> QED
    BY <1>0, <1>3, <2>1, <2>2, TypeGoto DEF TypeInv, Steps
<1>4. CASE Assign(h, "write") /\ UNCHANGED file
  <2>1. /\ pc[h] \in {"assign", "reply assign"}
        /\ file_fd' = opened[h]
        /\ Goto(h, IF pc[h] = "assign" THEN "write" ELSE "read")
        /\ UNCHANGED <<fds, fileMutex, received, left, buffer, client_fd, opened, replies, shared>>
    BY <1>4 DEF Assign
  <2>2. (pc[h] = "assign" => Len(buffer[h]) = 1) /\ file_fd' \in Fds \cup {-1, 0}
    BY <1>0, <2>1 DEF TypeInv
  <2> QED
    BY <1>0, <1>4, <2>1, <2>2, TypeGoto DEF TypeInv, Steps
<1>5. CASE Close(h) /\ UNCHANGED file
  <2>1. /\ pc[h] = "close" /\ fds' \in [Fds -> Object] /\ fileMutex' = Nobody
        /\ \E step \in {"reply lock", "recv"} : Goto(h, step)
        /\ UNCHANGED <<file_fd, received, left, buffer, client_fd, opened, replies, shared>>
    BY <1>0, <1>5, Locks, Tables DEF Close
  <2> QED
    BY <1>0, <1>5, <2>1, TypeGoto DEF TypeInv, Steps
<1>6. CASE ReplyUnlock(h) /\ UNCHANGED file
  <2>1. /\ pc[h] = "unlock" /\ Goto(h, "send") /\ fileMutex' = Nobody
        /\ UNCHANGED <<fds, file_fd, received, left, buffer, client_fd, opened, replies, shared>>
    BY <1>0, <1>6, Locks DEF ReplyUnlock
  <2> QED
    BY <1>0, <1>6, <2>1, TypeGoto DEF TypeInv, Steps
<1>7. CASE ReplySend(h) /\ UNCHANGED file
  <2>1. /\ pc[h] = "send" /\ Goto(h, "read")
        /\ replies' = RepliesWith(Behind(client_fd[h]), buffer[h])
        /\ buffer' = [buffer EXCEPT ![h] = << >>]
        /\ UNCHANGED <<fds, file_fd, fileMutex, received, left, client_fd, opened, shared>>
    BY <1>7 DEF ReplySend
  <2>2. buffer[h] \in Seq(Chunks) /\ << >> \in Seq(Chunks)
    BY <1>0, EmptySeq DEF TypeInv
  <2>3. replies' \in [Handler -> Seq(Chunks)]
    BY <1>0, <2>1, <2>2, RepliesTyped
  <2>4. /\ buffer' \in [Handler -> Seq(Chunks)]
        /\ \A g \in Handler : g # h => buffer'[g] = buffer[g]
    BY <1>0, <2>1, <2>2 DEF TypeInv
  <2> QED
    BY <1>0, <1>7, <2>1, <2>3, <2>4, TypeGoto DEF TypeInv, Steps
<1>8. CASE ReplyClose(h) /\ UNCHANGED file
  <2>1. /\ pc[h] = "reply close" /\ Goto(h, "finish")
        /\ fds' \in [Fds -> Object] /\ fileMutex' = Nobody
        /\ UNCHANGED <<file_fd, received, left, buffer, client_fd, opened, replies, shared>>
    BY <1>0, <1>8, Locks, Tables DEF ReplyClose
  <2> QED
    BY <1>0, <1>8, <2>1, TypeGoto DEF TypeInv, Steps
<1>9. CASE (pc[h] = "finish" /\ Finish(h)) /\ UNCHANGED file
  <2>1. /\ Goto(h, "done") /\ fds' \in [Fds -> Object]
        /\ UNCHANGED <<file_fd, fileMutex, received, left, buffer, client_fd, opened, replies, shared>>
    BY <1>0, <1>9, Tables DEF Finish
  <2> QED
    BY <1>0, <1>9, <2>1, TypeGoto DEF TypeInv, Steps
<1> QED
  BY <1>1, <1>2, <1>3, <1>4, <1>5, <1>6, <1>7, <1>8, <1>9

LEMMA Accepted ==
  ASSUME TypeInv, NEW h \in Handler, Accept(h)
  PROVE  /\ pc[h] = "none" /\ Goto(h, "recv")
         /\ NewFd \in Fds /\ fds[NewFd] = FREE
         /\ client_fd' = [client_fd EXCEPT ![h] = NewFd]
         /\ fds' = [fds EXCEPT ![NewFd] = Sock(h)]
         /\ shared' = IF Active = {} THEN shared ELSE shared \cup Active \cup {h}
         /\ UNCHANGED <<file, exists, file_fd, fileMutex, received, left, buffer, opened, replies>>
<1>1. /\ pc[h] = "none" /\ Goto(h, "recv") /\ NewFd # -1
      /\ client_fd' = [client_fd EXCEPT ![h] = NewFd]
      /\ fds' = TableWith(NewFd, Sock(h))
      /\ shared' = IF Active = {} THEN shared ELSE shared \cup Active \cup {h}
      /\ UNCHANGED <<file, exists, file_fd, fileMutex, received, left, buffer, opened, replies>>
  BY DEF Accept, AcceptSocket, StartThread
<1>2. NewFd \in Fds /\ fds[NewFd] = FREE
  BY <1>1, NewDescriptor
<1> QED
  BY <1>1, <1>2 DEF TableWith

LEMMA TypeAccept ==
  ASSUME TypeInv, NEW h \in Handler, Accept(h)
  PROVE  TypeInv'
<1>1. /\ fds' \in [Fds -> Object] /\ client_fd' \in [Handler -> Fds \cup {-1}]
      /\ client_fd'[h] \in Fds /\ \A g \in Handler : g # h => client_fd'[g] = client_fd[g]
      /\ pc' \in [Handler -> Steps] /\ pc'[h] = "recv"
      /\ \A g \in Handler : g # h => pc'[g] = pc[g]
  <2>1. /\ Goto(h, "recv") /\ NewFd \in Fds
        /\ client_fd' = [client_fd EXCEPT ![h] = NewFd]
        /\ fds' = [fds EXCEPT ![NewFd] = Sock(h)]
    BY Accepted
  <2>2. Sock(h) \in Object
    BY Tables
  <2>3. fds' \in [Fds -> Object] /\ client_fd' \in [Handler -> Fds \cup {-1}]
    BY <2>1, <2>2 DEF TypeInv
  <2>4. client_fd'[h] \in Fds /\ \A g \in Handler : g # h => client_fd'[g] = client_fd[g]
    BY <2>1 DEF TypeInv
  <2> QED
    BY <2>1, <2>3, <2>4 DEF TypeInv, Goto, Steps
<1>2. shared' \subseteq Handler
  <2>1. shared' = IF Active = {} THEN shared ELSE shared \cup Active \cup {h}
    BY Accepted
  <2> QED
    BY <2>1 DEF TypeInv, Active
<1>3. UNCHANGED <<file, file_fd, fileMutex, received, left, buffer, opened, replies>>
  BY Accepted
<1>4. ASSUME NEW g \in Handler
      PROVE  /\ client_fd'[g] \in Fds \/ pc'[g] \in {"none", "killed"}
             /\ pc'[g] \in {"lock", "open", "assign", "write", "close"} => Len(buffer'[g]) = 1
  <2>1. CASE g = h
    BY <1>1, <2>1
  <2>2. CASE g # h
    BY <1>1, <1>3, <2>2 DEF TypeInv
  <2> QED
    BY <2>1, <2>2
<1> QED
  BY <1>1, <1>2, <1>3, <1>4 DEF TypeInv

LEMMA TypeSigpipe ==
  ASSUME TypeInv, NEW h \in Handler, Sigpipe(h), UNCHANGED file
  PROVE  TypeInv'
<1>1. /\ pc' = [g \in Handler |-> "killed"]
      /\ UNCHANGED <<file, fds, file_fd, fileMutex, received, left, buffer, client_fd, opened,
                     replies, shared>>
  BY DEF Sigpipe
<1> QED
  BY <1>1 DEF TypeInv, Steps

(* The steps of a thread, one by one.                                       *)
LEMMA Threads ==
  ASSUME NEW h \in Handler, client_handler(h)
  PROVE  \/ OpenFile(h)
         \/ Write(h)
         \/ /\ \/ Recv(h, "reply lock")
               \/ Lock(h)
               \/ Assign(h, "write")
               \/ Close(h)
               \/ ReplyRead(h, Contents(Behind(file_fd)))
               \/ ReplyUnlock(h)
               \/ ReplySend(h)
               \/ Sigpipe(h)
               \/ ReplyClose(h)
               \/ (pc[h] = "finish" /\ Finish(h))
            /\ UNCHANGED file
  BY DEF client_handler

LEMMA NextType ==
  ASSUME ServiceInv, [Next]_vars
  PROVE  TypeInv'
<1>1. CASE UNCHANGED vars
  BY <1>1 DEF vars, handlerVars, ServiceInv, TypeInv
<1>2. ASSUME NEW h \in Handler, Accept(h) PROVE TypeInv'
  BY <1>2, TypeAccept DEF ServiceInv
<1>3. ASSUME NEW h \in Handler, client_handler(h) PROVE TypeInv'
  <2>1. CASE Recv(h, "reply lock") /\ UNCHANGED file
    BY <2>1, TypeRecv
  <2>2. CASE ReplyRead(h, Contents(Behind(file_fd))) /\ UNCHANGED file
    BY <2>2, TypeReplyRead
  <2>3. CASE Sigpipe(h) /\ UNCHANGED file
    BY <2>3, TypeSigpipe DEF ServiceInv
  <2> QED
    BY <1>3, <2>1, <2>2, <2>3, Threads, TypeOthers
<1> QED
  BY <1>1, <1>2, <1>3 DEF Next

-----------------------------------------------------------------------------
(* What a thread's step does to the others, whatever descriptor it works    *)
(* on: no socket appears, and nothing reaches a client that is not served.  *)
Serves(h, step) ==
  /\ pc[h] \notin {"none", "done", "killed"} /\ Goto(h, step)
  /\ step \in Steps \ {"none", "done", "killed"}
  /\ UNCHANGED <<client_fd, shared>>
  /\ \A fd \in Fds : fds'[fd].kind = "sock" => fds'[fd] = fds[fd]
  /\ \A g \in Handler : pc[g] \in {"none", "done"} =>
       received'[g] = received[g] /\ replies'[g] = replies[g]
  /\ \A g \in Handler : g # h => buffer'[g] = buffer[g] /\ opened'[g] = opened[g]

LEMMA RepliesOnlyToServed ==
  ASSUME ServiceInv, NEW fd, NEW data, replies' = RepliesWith(Behind(fd), data)
  PROVE  \A g \in Handler : pc[g] \in {"none", "done"} => replies'[g] = replies[g]
<1>1. CASE Behind(fd).kind = "sock"
  <2>1. PICK w \in Handler : Behind(fd).who = w /\ pc[w] \notin {"none", "done"}
    BY <1>1, BehindFd
  <2>2. replies' = [replies EXCEPT ![w] = @ \o data]
    BY <1>1, <2>1 DEF RepliesWith
  <2> QED
    BY <2>1, <2>2 DEF ServiceInv, TypeInv
<1>2. CASE Behind(fd).kind # "sock"
  BY <1>2 DEF RepliesWith
<1> QED
  BY <1>1, <1>2

LEMMA DeliversOnlyServed ==
  ASSUME ServiceInv, NEW fd, Behind(fd).kind = "sock", Delivers(Behind(fd).who)
  PROVE  \A g \in Handler : pc[g] \in {"none", "done"} => received'[g] = received[g]
<1>1. PICK w \in Handler : Behind(fd).who = w /\ pc[w] \notin {"none", "done"}
  BY BehindFd
<1>2. \A g \in Handler : g # w => received'[g] = received[g]
  BY <1>1, Delivery DEF ServiceInv
<1> QED
  BY <1>1, <1>2

LEMMA NoSocketFrom ==
  ASSUME TypeInv
  PROVE  /\ \A x \in Fds \cup {-1}, kind \in Readable : fds' = TableWith(x, DATA_FILE(kind)) =>
              \A fd \in Fds : fds'[fd].kind = "sock" => fds'[fd] = fds[fd]
         /\ \A x : fds' = TableWithout(x) =>
              \A fd \in Fds : fds'[fd].kind = "sock" => fds'[fd] = fds[fd]
<1>1. fds \in [Fds -> Object]
  BY DEF TypeInv
<1>2. ASSUME NEW x \in Fds, NEW object, object.kind # "sock", fds' = [fds EXCEPT ![x] = object],
             NEW fd \in Fds, fds'[fd].kind = "sock"
      PROVE  fds'[fd] = fds[fd]
  BY <1>1, <1>2
<1>3. ASSUME NEW x \in Fds \cup {-1}, NEW kind \in Readable,
             fds' = TableWith(x, DATA_FILE(kind)), NEW fd \in Fds, fds'[fd].kind = "sock"
      PROVE  fds'[fd] = fds[fd]
  <2>1. DATA_FILE(kind).kind # "sock"
    BY DEF DATA_FILE, Readable
  <2> QED
    BY <1>2, <1>3, <2>1 DEF TableWith
<1>4. ASSUME NEW x, fds' = TableWithout(x), NEW fd \in Fds, fds'[fd].kind = "sock"
      PROVE  fds'[fd] = fds[fd]
  <2>1. FREE.kind # "sock"
    BY DEF FREE
  <2> QED
    BY <1>2, <1>4, <2>1 DEF TableWithout
<1> QED
  BY <1>3, <1>4

LEMMA ThreadServes ==
  ASSUME ServiceInv, NEW h \in Handler, client_handler(h),
         ~Sigpipe(h), ~(pc[h] = "finish" /\ Finish(h))
  PROVE  \E step : Serves(h, step)
<1>0. TypeInv
  BY DEF ServiceInv
<1>1. CASE OpenFile(h)
  <2>1. PICK kind \in {"append", "read only"}, there \in BOOLEAN : Open(h, kind, there)
    BY <1>1 DEF OpenFile
  <2>2. /\ pc[h] \in {"open", "reply open"}
        /\ \E x \in {NewFd, -1} : /\ opened' = [opened EXCEPT ![h] = x]
                                  /\ fds' = TableWith(x, DATA_FILE(kind))
        /\ \E step \in {"assign", "reply assign"} : Goto(h, step)
        /\ UNCHANGED <<received, buffer, client_fd, replies, shared>>
    BY <2>1 DEF Open
  <2>3. PICK x \in {NewFd, -1} : /\ opened' = [opened EXCEPT ![h] = x]
                                 /\ fds' = TableWith(x, DATA_FILE(kind))
    BY <2>2
  <2>4. x \in Fds \cup {-1} /\ kind \in Readable
    BY NewDescriptor DEF Readable
  <2>5. \A fd \in Fds : fds'[fd].kind = "sock" => fds'[fd] = fds[fd]
    BY <1>0, <2>3, <2>4, NoSocketFrom
  <2>6. \A g \in Handler : g # h => opened'[g] = opened[g]
    BY <1>0, <2>3 DEF TypeInv
  <2> QED
    BY <2>2, <2>5, <2>6 DEF Serves, Steps
<1>2. CASE Write(h)
  <2>1. /\ pc[h] = "write" /\ Goto(h, "close")
        /\ replies' = RepliesWith(Behind(file_fd), buffer[h])
        /\ UNCHANGED <<fds, received, buffer, client_fd, opened, shared>>
    BY <1>2 DEF Write, WriteFd
  <2>2. \A g \in Handler : pc[g] \in {"none", "done"} => replies'[g] = replies[g]
    BY <2>1, RepliesOnlyToServed
  <2> QED
    BY <2>1, <2>2 DEF Serves, Steps
<1>3. CASE Recv(h, "reply lock")
  <2>1. /\ pc[h] = "recv" /\ \E step \in {"lock", "reply lock"} : Goto(h, step)
        /\ UNCHANGED <<fds, client_fd, opened, replies, shared>>
    BY <1>3 DEF Recv
  <2>2. \A g \in Handler : pc[g] \in {"none", "done"} => received'[g] = received[g]
    BY <1>3, DeliversOnlyServed DEF Recv, Ends
  <2>3. \A g \in Handler : g # h => buffer'[g] = buffer[g]
    BY <1>0, <1>3 DEF Recv, TypeInv
  <2> QED
    BY <2>1, <2>2, <2>3 DEF Serves, Steps
<1>4. CASE Lock(h)
  <2>1. /\ pc[h] \in {"lock", "reply lock"} /\ \E step \in {"open", "reply open"} : Goto(h, step)
        /\ UNCHANGED <<fds, received, buffer, client_fd, opened, replies, shared>>
    BY <1>4 DEF Lock
  <2> QED
    BY <2>1 DEF Serves, Steps
<1>5. CASE Assign(h, "write")
  <2>1. /\ pc[h] \in {"assign", "reply assign"} /\ \E step \in {"write", "read"} : Goto(h, step)
        /\ UNCHANGED <<fds, received, buffer, client_fd, opened, replies, shared>>
    BY <1>5 DEF Assign
  <2> QED
    BY <2>1 DEF Serves, Steps
<1>6. CASE Close(h) \/ ReplyClose(h)
  <2>1. /\ pc[h] \in {"close", "reply close"}
        /\ \E step \in {"reply lock", "recv", "finish"} : Goto(h, step)
        /\ fds' = TableWithout(file_fd)
        /\ UNCHANGED <<received, buffer, client_fd, opened, replies, shared>>
    BY <1>6 DEF Close, ReplyClose
  <2>2. \A fd \in Fds : fds'[fd].kind = "sock" => fds'[fd] = fds[fd]
    BY <1>0, <2>1, NoSocketFrom
  <2> QED
    BY <2>1, <2>2 DEF Serves, Steps
<1>7. CASE ReplyRead(h, Contents(Behind(file_fd)))
  <2>1. /\ pc[h] = "read" /\ \E step \in {"unlock", "reply close"} : Goto(h, step)
        /\ UNCHANGED <<client_fd, opened, replies, shared>>
    BY <1>7 DEF ReplyRead
  <2>2. \A g \in Handler : pc[g] \in {"none", "done"} => received'[g] = received[g]
    BY <1>7, DeliversOnlyServed DEF ReplyRead, Ends
  <2>3. \A g \in Handler : g # h => buffer'[g] = buffer[g]
    BY <1>0, <1>7 DEF ReplyRead, TypeInv
  <2>4. \A fd \in Fds : fds'[fd].kind = "sock" => fds'[fd] = fds[fd]
    <3>1. CASE UNCHANGED fds
      BY <3>1
    <3>2. CASE /\ Behind(file_fd).kind \in Readable
               /\ \E n : fds' = [fds EXCEPT ![file_fd].pos = n]
      <4>1. file_fd \in Fds /\ fds[file_fd].kind \in Readable /\ fds \in [Fds -> Object]
        BY <1>0, <3>2, BehindFd DEF Readable, TypeInv
      <4>2. PICK n : fds' = [fds EXCEPT ![file_fd].pos = n]
        BY <3>2
      <4>3. \A fd \in Fds : fd # file_fd => fds'[fd] = fds[fd]
        BY <4>1, <4>2
      <4>4. fds'[file_fd].kind = fds[file_fd].kind
        BY <4>1, <4>2 DEF Object
      <4> QED
        BY <4>1, <4>3, <4>4 DEF Readable
    <3> QED
      BY <1>7, <3>1, <3>2 DEF ReplyRead
  <2> QED
    BY <2>1, <2>2, <2>3, <2>4 DEF Serves, Steps
<1>8. CASE ReplyUnlock(h)
  <2>1. /\ pc[h] = "unlock" /\ Goto(h, "send")
        /\ UNCHANGED <<fds, received, buffer, client_fd, opened, replies, shared>>
    BY <1>8 DEF ReplyUnlock
  <2> QED
    BY <2>1 DEF Serves, Steps
<1>9. CASE ReplySend(h)
  <2>1. /\ pc[h] = "send" /\ Goto(h, "read")
        /\ replies' = RepliesWith(Behind(client_fd[h]), buffer[h])
        /\ buffer' = [buffer EXCEPT ![h] = << >>]
        /\ UNCHANGED <<fds, received, client_fd, opened, shared>>
    BY <1>9 DEF ReplySend
  <2>2. \A g \in Handler : pc[g] \in {"none", "done"} => replies'[g] = replies[g]
    BY <2>1, RepliesOnlyToServed
  <2>3. \A g \in Handler : g # h => buffer'[g] = buffer[g]
    BY <1>0, <2>1 DEF TypeInv
  <2> QED
    BY <2>1, <2>2, <2>3 DEF Serves, Steps
<1> QED
  BY <1>1, <1>2, <1>3, <1>4, <1>5, <1>6, <1>7, <1>8, <1>9, Threads

LEMMA ServesKeeps ==
  ASSUME ServiceInv, NEW h \in Handler, NEW step, Serves(h, step)
  PROVE  SocketInv' /\ TogetherInv'
<1>1. /\ pc[h] \notin {"none", "done", "killed"} /\ pc'[h] \notin {"none", "done", "killed"}
      /\ \A g \in Handler : g # h => pc'[g] = pc[g]
      /\ client_fd' = client_fd /\ shared' = shared
      /\ \A fd \in Fds : fds'[fd].kind = "sock" => fds'[fd] = fds[fd]
      /\ \A g \in Handler : pc[g] \in {"none", "done"} =>
           received'[g] = received[g] /\ replies'[g] = replies[g]
  BY DEF Serves, Goto, ServiceInv, TypeInv
<1>2. SocketInv'
  <2>1. ASSUME NEW fd \in Fds, fds'[fd].kind = "sock"
        PROVE  \E w \in Handler : /\ fds'[fd] = Sock(w) /\ client_fd'[w] = fd
                                  /\ pc'[w] \notin {"none", "done"}
    <3>1. fds'[fd] = fds[fd] /\ fds[fd].kind = "sock"
      BY <1>1, <2>1
    <3>2. PICK w \in Handler : fds[fd] = Sock(w) /\ client_fd[w] = fd /\ pc[w] \notin {"none", "done"}
      BY <3>1 DEF ServiceInv, SocketInv
    <3> QED
      BY <1>1, <3>1, <3>2
  <2>2. ASSUME NEW g \in Handler, pc'[g] = "none" PROVE received'[g] = 0 /\ replies'[g] = << >>
    BY <1>1, <2>2 DEF ServiceInv, SocketInv
  <2> QED
    BY <2>1, <2>2 DEF SocketInv, Sock
<1>3. TogetherInv'
  BY <1>1 DEF ServiceInv, TogetherInv, Live
<1> QED
  BY <1>2, <1>3

LEMMA FinishKeeps ==
  ASSUME ServiceInv, NEW h \in Handler, pc[h] = "finish", Finish(h)
  PROVE  SocketInv' /\ TogetherInv'
<1>1. /\ pc'[h] = "done" /\ \A g \in Handler : g # h => pc'[g] = pc[g]
      /\ client_fd' = client_fd /\ shared' = shared
      /\ received' = received /\ replies' = replies
  BY DEF Finish, Goto, ServiceInv, TypeInv
<1>2. client_fd[h] \in Fds /\ fds' = [fds EXCEPT ![client_fd[h]] = FREE] /\ fds \in [Fds -> Object]
  BY DEF Finish, TableWithout, ServiceInv, TypeInv
<1>3. SocketInv'
  <2>1. ASSUME NEW fd \in Fds, fds'[fd].kind = "sock"
        PROVE  \E w \in Handler : /\ fds'[fd] = Sock(w) /\ client_fd'[w] = fd
                                  /\ pc'[w] \notin {"none", "done"}
    <3>1. fd # client_fd[h] /\ fds'[fd] = fds[fd] /\ fds[fd].kind = "sock"
      BY <1>2, <2>1 DEF FREE
    <3>2. PICK w \in Handler : fds[fd] = Sock(w) /\ client_fd[w] = fd /\ pc[w] \notin {"none", "done"}
      BY <3>1 DEF ServiceInv, SocketInv
    <3> QED
      BY <1>1, <3>1, <3>2
  <2>2. ASSUME NEW g \in Handler, pc'[g] = "none" PROVE received'[g] = 0 /\ replies'[g] = << >>
    BY <1>1, <2>2 DEF ServiceInv, SocketInv
  <2> QED
    BY <2>1, <2>2 DEF SocketInv, Sock
<1>4. TogetherInv'
  BY <1>1 DEF ServiceInv, TogetherInv, Live
<1> QED
  BY <1>3, <1>4

LEMMA AcceptKeeps ==
  ASSUME ServiceInv, NEW h \in Handler, Accept(h)
  PROVE  SocketInv' /\ TogetherInv'
<1>0. TypeInv
  BY DEF ServiceInv
<1>1. /\ pc[h] = "none" /\ pc'[h] = "recv" /\ \A g \in Handler : g # h => pc'[g] = pc[g]
      /\ received' = received /\ replies' = replies
      /\ client_fd'[h] = NewFd /\ \A g \in Handler : g # h => client_fd'[g] = client_fd[g]
      /\ NewFd \in Fds /\ fds'[NewFd] = Sock(h)
      /\ \A fd \in Fds : fd # NewFd => fds'[fd] = fds[fd]
  BY <1>0, Accepted DEF Goto, TypeInv
<1>2. SocketInv'
  <2>1. ASSUME NEW fd \in Fds, fds'[fd].kind = "sock"
        PROVE  \E w \in Handler : /\ fds'[fd] = Sock(w) /\ client_fd'[w] = fd
                                  /\ pc'[w] \notin {"none", "done"}
    <3>1. CASE fd = NewFd
      BY <1>1, <3>1
    <3>2. CASE fd # NewFd
      <4>1. PICK w \in Handler : fds[fd] = Sock(w) /\ client_fd[w] = fd /\ pc[w] \notin {"none", "done"}
        BY <1>1, <2>1, <3>2 DEF ServiceInv, SocketInv
      <4> QED
        BY <1>1, <3>2, <4>1
    <3> QED
      BY <3>1, <3>2
  <2>2. ASSUME NEW g \in Handler, pc'[g] = "none" PROVE received'[g] = 0 /\ replies'[g] = << >>
    BY <1>1, <2>2 DEF ServiceInv, SocketInv
  <2> QED
    BY <2>1, <2>2 DEF SocketInv, Sock
<1>3. TogetherInv'
  <2>1. shared' = IF Active = {} THEN shared ELSE shared \cup Active \cup {h}
    BY <1>0, Accepted
  <2>2. ASSUME NEW f \in Handler, NEW g \in Handler, f # g, Live(f)', Live(g)'
        PROVE  f \in shared'
    <3>1. CASE f # h /\ g # h
      BY <1>1, <2>1, <2>2, <3>1 DEF ServiceInv, TogetherInv, Live
    <3>2. CASE f = h \/ g = h
      <4>1. Active # {} /\ (f = h \/ f \in Active)
        BY <1>1, <2>2, <3>2 DEF Live, Active
      <4> QED
        BY <2>1, <4>1
    <3> QED
      BY <3>1, <3>2
  <2>3. ASSUME NEW f \in Handler, NEW g \in Handler, pc'[f] = "killed" PROVE pc'[g] = "killed"
    BY <1>1, <2>3 DEF ServiceInv, TogetherInv
  <2> QED
    BY <2>2, <2>3 DEF TogetherInv
<1> QED
  BY <1>2, <1>3

LEMMA SigpipeKeeps ==
  ASSUME ServiceInv, NEW h \in Handler, Sigpipe(h)
  PROVE  SocketInv' /\ TogetherInv'
<1>1. /\ pc' = [g \in Handler |-> "killed"]
      /\ UNCHANGED <<fds, client_fd, received, replies, shared>>
  BY DEF Sigpipe
<1> QED
  BY <1>1 DEF ServiceInv, SocketInv, TogetherInv, Live, Sock

LEMMA NextService == ServiceInv /\ [Next]_vars => ServiceInv'
<1> SUFFICES ASSUME ServiceInv, [Next]_vars PROVE ServiceInv'
  OBVIOUS
<1>1. TypeInv'
  BY NextType
<1>2. CASE UNCHANGED vars
  BY <1>1, <1>2 DEF vars, handlerVars, ServiceInv, SocketInv, TogetherInv, Live
<1>3. ASSUME NEW h \in Handler, Accept(h) PROVE ServiceInv'
  BY <1>1, <1>3, AcceptKeeps DEF ServiceInv
<1>4. ASSUME NEW h \in Handler, client_handler(h) PROVE ServiceInv'
  BY <1>1, <1>4, ThreadServes, ServesKeeps, FinishKeeps, SigpipeKeeps DEF ServiceInv
<1> QED
  BY <1>2, <1>3, <1>4 DEF Next

(* A socket is always behind the number its own connection was accepted    *)
(* with, whatever the threads have closed and opened since.                 *)
THEOREM ServiceInvariant == Spec => []ServiceInv
  BY InitService, NextService, PTL DEF Spec

(* Every variable stays in its type; in particular file_fd, the mutex and   *)
(* the descriptors, and a thread on its way to the file has one piece.      *)
THEOREM TypesHold == Spec => []TypeOK
<1>1. TypeInv => TypeOK
  <2> SUFFICES ASSUME TypeInv PROVE TypeOK
    OBVIOUS
  <2>1. ASSUME NEW h \in Handler PROVE received[h] \in 0 .. Len(Script[h])
    <3>1. Len(Script[h]) \in Nat
      BY ClientHandlerAssumption, LenProperties
    <3> QED
      BY <3>1 DEF TypeInv
  <2>2. \A fd \in Fds : fds[fd].kind \in {"free", "sock"} \cup Readable
    BY DEF TypeInv, Object
  <2> QED
    BY <2>1, <2>2 DEF TypeInv, TypeOK, HandlersTypeOK
<1>2. ServiceInv => TypeOK
  BY <1>1 DEF ServiceInv
<1> QED
  BY <1>2, ServiceInvariant, PTL

-----------------------------------------------------------------------------
(* Where the pieces are.                                                    *)

(* No thread comes to carry a piece that it did not carry before.           *)
NothingNew ==
  /\ shared \subseteq shared'
  /\ \A g \in Handler :
       pc'[g] \in {"lock", "open", "assign", "write"} => Carrying(g) /\ buffer'[g] = buffer[g]

(* A client's next piece is received; the thread that does may carry it.    *)
Receives(h, w) ==
  /\ Live(h) /\ Live(w) /\ ~Carrying(h)
  /\ Delivers(w) /\ UNCHANGED <<file, shared>>
  /\ \A g \in Handler :
       g # h /\ pc'[g] \in {"lock", "open", "assign", "write"} =>
         Carrying(g) /\ buffer'[g] = buffer[g]
  /\ pc'[h] \in {"lock", "open", "assign", "write"} =>
       buffer'[h] = <<<<w, received[w] + 1>>>>

LEMMA InitChunks == Init => ChunksInv
<1> SUFFICES ASSUME Init PROVE ChunksInv
  OBVIOUS
<1>1. file = << >> /\ \A h \in Handler : pc[h] = "none"
  BY DEF Init, HandlerInit
<1>2. DOMAIN file = {}
  BY <1>1, EmptySeq
<1> QED
  BY <1>1, <1>2 DEF ChunksInv, CarriedInv, Carrying, FileIsMergeOfChunks

LEMMA NothingNewKeeps ==
  ASSUME ChunksInv, NothingNew, UNCHANGED <<file, received>>
  PROVE  ChunksInv'
<1>1. CarriedInv'
  BY DEF ChunksInv, CarriedInv, NothingNew, Carrying, Carried
<1>2. FileIsMergeOfChunks'
  BY DEF ChunksInv, FileIsMergeOfChunks, NothingNew
<1> QED
  BY <1>1, <1>2 DEF ChunksInv

LEMMA ReceivesKeeps ==
  ASSUME ServiceInv, ChunksInv, NEW h \in Handler, NEW w \in Handler, Receives(h, w)
  PROVE  ChunksInv'
<1> DEFINE piece == <<w, received[w] + 1>>
<1>0. TypeInv
  BY DEF ServiceInv
<1>1. /\ received'[w] = received[w] + 1
      /\ \A g \in Handler : g # w => received'[g] = received[g]
      /\ \A g \in Handler : received[g] \in Nat
      /\ \A g \in Handler : received'[g] \in Nat
      /\ file \in Seq(Chunks)
  BY <1>0, Delivery DEF Receives, TypeInv
<1>2. \A n \in DOMAIN file : file[n] \in Chunks
  BY <1>1, ElementOfSeq, LenProperties
<1>3. \A g \in Handler : \A i : i \in 1 .. received[g] => i \in 1 .. received'[g]
  BY <1>1
<1>4. file' = file /\ shared' = shared
  BY DEF Receives
<1>5. FileIsMergeOfChunks'
  <2>1. \A n \in DOMAIN file : file[n][1] \in Handler /\ file[n][2] \in 1 .. received[file[n][1]]
    BY <1>2 DEF ChunksInv, FileIsMergeOfChunks, Chunks
  <2>2. \A n \in DOMAIN file : file[n][2] \in 1 .. received'[file[n][1]]
    BY <1>3, <2>1
  <2> QED
    BY <1>4, <2>2 DEF ChunksInv, FileIsMergeOfChunks
<1>6. w = h \/ (w \in shared /\ h \in shared)
  BY DEF Receives, ServiceInv, TogetherInv
<1>7. ASSUME NEW g \in Handler, Carrying(g)
      PROVE  /\ g # h
             /\ Carried(g) \in Chunks /\ Carried(g) # piece
             /\ Carried(g)[2] \in 1 .. received'[Carried(g)[1]]
             /\ g \notin shared => Carried(g)[2] = received'[g]
  <2>1. g # h
    BY <1>7 DEF Receives
  <2>2. Carried(g) \in Chunks
    <3>1. buffer[g] \in Seq(Chunks) /\ Len(buffer[g]) = 1
      BY <1>0, <1>7 DEF TypeInv, Carrying
    <3> QED
      BY <3>1, ElementOfSeq DEF Carried
  <2>3. Carried(g)[2] \in 1 .. received[Carried(g)[1]] /\ Carried(g)[1] \in Handler
    BY <1>7, <2>2 DEF ChunksInv, CarriedInv, Chunks
  <2>4. Carried(g) # piece
    BY <1>1, <2>3
  <2>5. Carried(g)[2] \in 1 .. received'[Carried(g)[1]]
    BY <1>3, <2>3
  <2>6. ASSUME g \notin shared PROVE Carried(g)[2] = received'[g]
    <3>1. g # w
      BY <1>7, <2>1, <2>6 DEF Receives, Carrying, Live, ServiceInv, TogetherInv
    <3> QED
      BY <1>1, <1>7, <2>6, <3>1 DEF ChunksInv, CarriedInv
  <2> QED
    BY <2>1, <2>2, <2>4, <2>5, <2>6
<1>8. \A n \in DOMAIN file : file[n] # piece
  <2>1. \A n \in DOMAIN file : file[n][2] \in 1 .. received[file[n][1]]
    BY DEF ChunksInv, FileIsMergeOfChunks
  <2> QED
    BY <1>1, <2>1
<1>9. /\ \A g \in Handler : g # h /\ Carrying(g)' => Carrying(g) /\ Carried(g)' = Carried(g)
      /\ Carrying(h)' => Carried(h)' = piece
  BY DEF Receives, Carrying, Carried
<1> HIDE DEF piece
<1>10. piece[1] = w /\ piece[2] = received[w] + 1 /\ piece[2] \in 1 .. received'[w]
  BY <1>1 DEF piece
<1>11. ASSUME NEW g \in Handler, Carrying(g)'
       PROVE  /\ Carried(g)'[2] \in 1 .. received'[Carried(g)'[1]]
              /\ Carried(g)'[1] = g \/ Carried(g)'[1] \in shared'
              /\ g \notin shared' => Carried(g)'[2] = received'[g]
              /\ \A f \in Handler : Carrying(f)' /\ f # g => Carried(f)' # Carried(g)'
              /\ \A n \in DOMAIN file' : file'[n] # Carried(g)'
  <2>1. CASE g = h
    <3>1. Carried(g)' = piece
      BY <1>9, <1>11, <2>1
    <3>2. \A f \in Handler : Carrying(f)' /\ f # g => Carried(f)' # piece
      BY <1>7, <1>9, <2>1
    <3> QED
      BY <1>1, <1>4, <1>6, <1>8, <1>10, <2>1, <3>1, <3>2
  <2>2. CASE g # h
    <3>1. Carrying(g) /\ Carried(g)' = Carried(g)
      BY <1>9, <1>11, <2>2
    <3>2. ASSUME NEW f \in Handler, Carrying(f)', f # g PROVE Carried(f)' # Carried(g)
      <4>1. CASE f = h
        BY <1>7, <1>9, <3>1, <3>2, <4>1
      <4>2. CASE f # h
        BY <1>9, <3>1, <3>2, <4>2 DEF ChunksInv, CarriedInv
      <4> QED
        BY <4>1, <4>2
    <3>3. /\ Carried(g)[1] = g \/ Carried(g)[1] \in shared
          /\ \A n \in DOMAIN file : file[n] # Carried(g)
      BY <3>1 DEF ChunksInv, CarriedInv
    <3> QED
      BY <1>4, <1>7, <3>1, <3>2, <3>3
  <2> QED
    BY <2>1, <2>2
<1>12. CarriedInv'
  BY <1>11 DEF CarriedInv
<1> QED
  BY <1>5, <1>12 DEF ChunksInv

(* What an appended piece leaves where it was, and where it is.             *)
LEMMA Appended ==
  ASSUME file \in Seq(Chunks), NEW c \in Chunks, file' = file \o <<c>>
  PROVE  /\ file' \in Seq(Chunks) /\ Len(file') = Len(file) + 1 /\ Len(file) \in Nat
         /\ DOMAIN file = 1 .. Len(file) /\ DOMAIN file' = 1 .. Len(file) + 1
         /\ \A n \in DOMAIN file : n \in DOMAIN file' /\ file'[n] = file[n]
         /\ file'[Len(file) + 1] = c
<1>1. <<c>> \in Seq(Chunks) /\ Len(<<c>>) = 1 /\ <<c>>[1] = c
  BY OnePiece
<1>2. Len(file) \in Nat /\ DOMAIN file = 1 .. Len(file)
  BY LenProperties
<1>3. /\ file' \in Seq(Chunks) /\ Len(file') = Len(file) + 1
      /\ \A n \in 1 .. Len(file) + 1 :
           file'[n] = IF n <= Len(file) THEN file[n] ELSE <<c>>[n - Len(file)]
  BY <1>1, ConcatProperties
<1>4. DOMAIN file' = 1 .. Len(file) + 1
  BY <1>3, LenProperties
<1>5. Len(file) + 1 \in 1 .. Len(file) + 1 /\ ~(Len(file) + 1 <= Len(file))
      /\ (Len(file) + 1) - Len(file) = 1
  BY <1>2
<1>6. file'[Len(file) + 1] = c
  BY <1>1, <1>3, <1>5
<1>7. \A n \in 1 .. Len(file) : n \in 1 .. Len(file) + 1 /\ n <= Len(file)
  BY <1>2
<1> QED
  BY <1>2, <1>3, <1>4, <1>6, <1>7

LEMMA CarriedPiece ==
  ASSUME TypeInv, NEW h \in Handler, Carrying(h)
  PROVE  Carried(h) \in Chunks /\ buffer[h] = <<Carried(h)>>
<1>1. buffer[h] \in Seq(Chunks) /\ Len(buffer[h]) = 1
  BY DEF TypeInv, Carrying
<1>2. Carried(h) \in Chunks
  BY <1>1, ElementOfSeq DEF Carried
<1>3. /\ <<Carried(h)>> \in Seq(Chunks) /\ Len(<<Carried(h)>>) = 1
      /\ <<Carried(h)>>[1] = Carried(h)
  BY <1>2, OnePiece
<1>4. buffer[h] = <<Carried(h)>>
  BY <1>1, <1>3, SeqEqual DEF Carried
<1> QED
  BY <1>2, <1>4

LEMMA WriteKeeps ==
  ASSUME ServiceInv, ChunksInv, NEW h \in Handler, Write(h), file' = file \o buffer[h]
  PROVE  ChunksInv'
<1> DEFINE c == Carried(h)
           l == Len(file) + 1
<1>0. TypeInv
  BY DEF ServiceInv
<1>1. /\ Carrying(h) /\ pc'[h] = "close" /\ \A g \in Handler : g # h => pc'[g] = pc[g]
      /\ UNCHANGED <<received, buffer, shared>>
  BY <1>0 DEF Write, WriteFd, Goto, Carrying, TypeInv
<1>2. c \in Chunks /\ file' = file \o <<c>> /\ file \in Seq(Chunks)
  BY <1>0, <1>1, CarriedPiece DEF TypeInv
<1>3. /\ c[2] \in 1 .. received[c[1]]
      /\ c[1] = h \/ c[1] \in shared
      /\ h \notin shared => c[2] = received[h]
      /\ \A g \in Handler : Carrying(g) /\ g # h => Carried(g) # c
      /\ \A n \in DOMAIN file : file[n] # c
  BY <1>1 DEF ChunksInv, CarriedInv
<1> HIDE DEF c
<1>4. /\ Len(file) \in Nat /\ DOMAIN file = 1 .. Len(file) /\ DOMAIN file' = 1 .. l
      /\ \A n \in DOMAIN file : file'[n] = file[n]
      /\ file'[l] = c
  BY <1>2, Appended
<1>5. \A n \in DOMAIN file' : n \in DOMAIN file \/ n = l
  BY <1>4
<1>6. \A m, n \in DOMAIN file' : m < n => m \in DOMAIN file
  BY <1>4
<1>7. \A n \in DOMAIN file : /\ file[n] \in Chunks /\ file[n][2] \in 1 .. received[file[n][1]]
  BY <1>2, <1>4, ElementOfSeq DEF ChunksInv, FileIsMergeOfChunks
<1> HIDE DEF l
<1>8. FileIsMergeOfChunks'
  <2>1. \A n \in DOMAIN file' : file'[n][2] \in 1 .. received'[file'[n][1]]
    BY <1>1, <1>3, <1>4, <1>5, <1>7
  <2>2. ASSUME NEW m \in DOMAIN file', NEW n \in DOMAIN file', m < n
        PROVE  /\ file'[m] # file'[n]
               /\ file'[m][1] = file'[n][1] /\ file'[m][1] \notin shared' =>
                    file'[m][2] < file'[n][2]
    <3>1. m \in DOMAIN file /\ file'[m] = file[m]
      BY <1>4, <1>6, <2>2
    <3>2. CASE n \in DOMAIN file
      BY <1>1, <1>4, <2>2, <3>1, <3>2 DEF ChunksInv, FileIsMergeOfChunks
    <3>3. CASE n = l
      <4>1. file[m] # c /\ file'[n] = c
        BY <1>3, <1>4, <3>1, <3>3
      <4>2. ASSUME file[m][1] = c[1], file[m][1] \notin shared PROVE file[m][2] < c[2]
        <5>1. c[1] = h /\ h \notin shared /\ c[2] = received[h]
          BY <1>3, <4>2
        <5>2. file[m][2] \in 1 .. received[h] /\ received[h] \in Nat
          BY <1>0, <1>7, <3>1, <4>2, <5>1 DEF TypeInv
        <5>3. file[m][2] # c[2]
          <6>1. \A x, y \in Chunks : x[1] = y[1] /\ x[2] = y[2] => x = y
            BY DEF Chunks
          <6>2. file[m] \in Chunks
            BY <1>7, <3>1
          <6> QED
            BY <1>2, <4>1, <4>2, <6>1, <6>2
        <5> QED
          BY <5>1, <5>2, <5>3
      <4> QED
        BY <1>1, <3>1, <4>1, <4>2
    <3> QED
      BY <1>5, <3>2, <3>3
  <2> QED
    BY <2>1, <2>2 DEF FileIsMergeOfChunks
<1>9. ASSUME NEW g \in Handler, Carrying(g)'
      PROVE  g # h /\ Carrying(g) /\ Carried(g)' = Carried(g)
  BY <1>1, <1>9 DEF Carrying, Carried
<1>10. CarriedInv'
  <2>1. ASSUME NEW g \in Handler, Carrying(g)'
        PROVE  /\ Carried(g)'[2] \in 1 .. received'[Carried(g)'[1]]
               /\ Carried(g)'[1] = g \/ Carried(g)'[1] \in shared'
               /\ g \notin shared' => Carried(g)'[2] = received'[g]
               /\ \A f \in Handler : Carrying(f)' /\ f # g => Carried(f)' # Carried(g)'
               /\ \A n \in DOMAIN file' : file'[n] # Carried(g)'
    <3>1. g # h /\ Carrying(g) /\ Carried(g)' = Carried(g)
      BY <1>9, <2>1
    <3>2. /\ Carried(g)[2] \in 1 .. received[Carried(g)[1]]
          /\ Carried(g)[1] = g \/ Carried(g)[1] \in shared
          /\ g \notin shared => Carried(g)[2] = received[g]
          /\ \A f \in Handler : Carrying(f) /\ f # g => Carried(f) # Carried(g)
          /\ \A n \in DOMAIN file : file[n] # Carried(g)
      BY <3>1 DEF ChunksInv, CarriedInv
    <3>3. \A n \in DOMAIN file' : file'[n] # Carried(g)
      BY <1>3, <1>4, <1>5, <3>1, <3>2
    <3>4. \A f \in Handler : Carrying(f)' /\ f # g => Carried(f)' # Carried(g)
      BY <1>9, <3>2
    <3> QED
      BY <1>1, <3>1, <3>2, <3>3, <3>4
  <2> QED
    BY <2>1 DEF CarriedInv
<1> QED
  BY <1>8, <1>10 DEF ChunksInv

(* What the clients have sent, and what is carried, changes only by a recv  *)
(* or a read of a socket.                                                   *)
LEMMA RecvReceives ==
  ASSUME ServiceInv, NEW h \in Handler, Recv(h, "reply lock"), UNCHANGED file
  PROVE  (\E w \in Handler : Receives(h, w)) \/ (NothingNew /\ UNCHANGED received)
<1> DEFINE object == Behind(client_fd[h])
           w == object.who
<1>0. TypeInv
  BY DEF ServiceInv
<1>1. pc[h] = "recv" /\ shared' = shared
  BY DEF Recv
<1>2. CASE /\ object.kind = "sock" /\ Delivers(w) /\ Goto(h, "lock")
           /\ buffer' = [buffer EXCEPT ![h] = <<<<w, received[w] + 1>>>>]
  <2>1. w \in Handler /\ pc[w] \notin {"none", "done"}
    BY <1>2, BehindFd
  <2>2. Live(w) /\ Live(h) /\ ~Carrying(h)
    BY <1>1, <2>1 DEF ServiceInv, TogetherInv, Live, Carrying
  <2>3. /\ buffer'[h] = <<<<w, received[w] + 1>>>>
        /\ \A g \in Handler : g # h => buffer'[g] = buffer[g] /\ pc'[g] = pc[g]
    BY <1>0, <1>2 DEF TypeInv, Goto
  <2>4. Receives(h, w)
    BY <1>1, <1>2, <2>2, <2>3 DEF Receives, Carrying
  <2> QED
    BY <2>1, <2>4
<1>3. CASE Goto(h, "reply lock") /\ UNCHANGED <<buffer, received>>
  BY <1>0, <1>1, <1>3 DEF NothingNew, Goto, TypeInv, Carrying
<1> QED
  BY <1>2, <1>3 DEF Recv, Ends

LEMMA ReadReceives ==
  ASSUME ServiceInv, NEW h \in Handler, ReplyRead(h, Contents(Behind(file_fd))), UNCHANGED file
  PROVE  (\E w \in Handler : Receives(h, w)) \/ (NothingNew /\ UNCHANGED received)
<1> DEFINE object == Behind(file_fd)
           w == object.who
<1>0. TypeInv
  BY DEF ServiceInv
<1>1. /\ pc[h] = "read" /\ shared' = shared
      /\ pc'[h] \in {"unlock", "reply close"}
      /\ \A g \in Handler : g # h => buffer'[g] = buffer[g] /\ pc'[g] = pc[g]
  BY <1>0 DEF ReplyRead, Goto, TypeInv
<1>2. CASE object.kind = "sock" /\ Delivers(w)
  <2>1. w \in Handler /\ pc[w] \notin {"none", "done"}
    BY <1>2, BehindFd
  <2>2. Live(w) /\ Live(h) /\ ~Carrying(h)
    BY <1>1, <2>1 DEF ServiceInv, TogetherInv, Live, Carrying
  <2>3. Receives(h, w)
    BY <1>1, <1>2, <2>2 DEF Receives, Carrying
  <2> QED
    BY <2>1, <2>3
<1>3. CASE UNCHANGED received
  BY <1>1, <1>3 DEF NothingNew, Carrying
<1> QED
  BY <1>2, <1>3 DEF ReplyRead, Ends

LEMMA OthersNothingNew ==
  ASSUME ServiceInv, NEW h \in Handler,
         \/ OpenFile(h) \/ Write(h) \/ Lock(h) \/ Assign(h, "write") \/ Close(h)
         \/ ReplyUnlock(h) \/ ReplySend(h) \/ ReplyClose(h) \/ Sigpipe(h)
         \/ (pc[h] = "finish" /\ Finish(h))
  PROVE  NothingNew /\ UNCHANGED received
<1>0. pc \in [Handler -> Steps] /\ buffer \in [Handler -> Seq(Chunks)]
  BY DEF ServiceInv, TypeInv
<1>1. CASE OpenFile(h)
  BY <1>0, <1>1 DEF OpenFile, Open, Goto, NothingNew, Carrying
<1>2. CASE Write(h)
  BY <1>0, <1>2 DEF Write, WriteFd, Goto, NothingNew, Carrying
<1>3. CASE Lock(h)
  BY <1>0, <1>3 DEF Lock, Goto, NothingNew, Carrying
<1>4. CASE Assign(h, "write")
  BY <1>0, <1>4 DEF Assign, Goto, NothingNew, Carrying
<1>5. CASE Close(h)
  <2>1. \E step \in {"reply lock", "recv"} : Goto(h, step)
    BY <1>5 DEF Close
  <2> QED
    BY <1>0, <1>5, <2>1 DEF Close, Goto, NothingNew, Carrying
<1>6. CASE ReplyUnlock(h)
  BY <1>0, <1>6 DEF ReplyUnlock, Goto, NothingNew, Carrying
<1>7. CASE ReplySend(h)
  BY <1>0, <1>7 DEF ReplySend, Goto, NothingNew, Carrying
<1>8. CASE ReplyClose(h)
  BY <1>0, <1>8 DEF ReplyClose, Goto, NothingNew, Carrying
<1>9. CASE Sigpipe(h)
  BY <1>0, <1>9 DEF Sigpipe, Goto, NothingNew, Carrying
<1>10. CASE Finish(h)
  BY <1>0, <1>10 DEF Finish, Goto, NothingNew, Carrying
<1> QED
  BY <1>1, <1>2, <1>3, <1>4, <1>5, <1>6, <1>7, <1>8, <1>9, <1>10

LEMMA NextChunks == ServiceInv /\ ChunksInv /\ [Next]_vars => ChunksInv'
<1> SUFFICES ASSUME ServiceInv, ChunksInv, [Next]_vars PROVE ChunksInv'
  OBVIOUS
<1>1. CASE UNCHANGED vars
  <2>1. NothingNew /\ UNCHANGED <<file, received>>
    BY <1>1 DEF vars, handlerVars, NothingNew, Carrying
  <2> QED
    BY <2>1, NothingNewKeeps
<1>2. ASSUME NEW h \in Handler, Accept(h) PROVE ChunksInv'
  <2>1. /\ Goto(h, "recv") /\ UNCHANGED <<file, received, buffer>>
        /\ shared' = IF Active = {} THEN shared ELSE shared \cup Active \cup {h}
    BY <1>2, Accepted DEF ServiceInv
  <2>2. NothingNew
    BY <2>1 DEF NothingNew, Carrying, Goto, ServiceInv, TypeInv
  <2> QED
    BY <2>1, <2>2, NothingNewKeeps
<1>3. ASSUME NEW h \in Handler, client_handler(h) PROVE ChunksInv'
  <2>1. CASE Recv(h, "reply lock") /\ UNCHANGED file
    BY <2>1, RecvReceives, ReceivesKeeps, NothingNewKeeps
  <2>2. CASE ReplyRead(h, Contents(Behind(file_fd))) /\ UNCHANGED file
    BY <2>2, ReadReceives, ReceivesKeeps, NothingNewKeeps
  <2>3. CASE Write(h)
    <3>1. file' = file \/ file' = file \o buffer[h]
      BY <2>3 DEF Write, FileWith
    <3> QED
      BY <2>3, <3>1, WriteKeeps, OthersNothingNew, NothingNewKeeps
  <2>4. CASE OpenFile(h)
    BY <2>4, OthersNothingNew, NothingNewKeeps DEF OpenFile
  <2> QED
    BY <1>3, <2>1, <2>2, <2>3, <2>4, Threads, OthersNothingNew, NothingNewKeeps
<1> QED
  BY <1>1, <1>2, <1>3 DEF Next

(* Nothing reaches the data file but what clients sent, nothing twice, and *)
(* the pieces of a client served alone in their order: for any number of    *)
(* clients and threads, whatever descriptors they close for each other.     *)
THEOREM NothingInventedNorTwice == Spec => []FileIsMergeOfChunks
<1>1. ChunksInv => FileIsMergeOfChunks
  BY DEF ChunksInv
<1> QED
  BY InitService, NextService, InitChunks, NextChunks, <1>1, PTL DEF Spec

-----------------------------------------------------------------------------
(* Prefixes.                                                                *)

LEMMA StartIsPrefix ==
  ASSUME NEW s \in Seq(Chunks), NEW n \in Nat, n <= Len(s)
  PROVE  IsPrefix(SubSeq(s, 1, n), s) /\ SubSeq(s, 1, n) \in Seq(Chunks)
<1> DEFINE t == SubSeq(s, 1, n)
<1>1. Len(s) \in Nat
  BY LenProperties
<1>2. \A i \in 1 .. n : s[i] \in Chunks
  BY <1>1, ElementOfSeq
<1>3. t \in Seq(Chunks) /\ Len(t) = n
  BY <1>2, SubSeqProperties
<1> HIDE DEF t
<1>4. SubSeq(t, 1, Len(t)) = t
  BY <1>3, SubSeqFull
<1>5. t = SubSeq(s, 1, n)
  BY DEF t
<1>6. IsPrefix(t, s)
  BY <1>3, <1>4, <1>5 DEF IsPrefix
<1> QED
  BY <1>3, <1>5, <1>6

LEMMA PrefixOfLonger ==
  ASSUME NEW s \in Seq(Chunks), NEW t \in Seq(Chunks), NEW d \in Seq(Chunks), IsPrefix(s, t)
  PROVE  IsPrefix(s, t \o d)
<1>1. Len(s) \in Nat /\ Len(t) \in Nat /\ Len(d) \in Nat /\ Len(s) <= Len(t)
  BY LenProperties DEF IsPrefix
<1>2. t \o d \in Seq(Chunks) /\ Len(t \o d) = Len(t) + Len(d)
  BY ConcatProperties
<1>3. SubSeq(t \o d, 1, Len(s)) = SubSeq(t, 1, Len(s))
  <2>1. \A i \in 1 .. Len(s) : t[i] \in Chunks /\ (t \o d)[i] = t[i]
    <3>1. ASSUME NEW i \in 1 .. Len(s) PROVE t[i] \in Chunks /\ (t \o d)[i] = t[i]
      <4>1. i \in 1 .. Len(t) /\ i \in 1 .. Len(t) + Len(d) /\ i <= Len(t)
        BY <1>1
      <4> QED
        BY <4>1, ConcatProperties, ElementOfSeq
    <3> QED
      BY <3>1
  <2> DEFINE x == SubSeq(t \o d, 1, Len(s))
             y == SubSeq(t, 1, Len(s))
             n == Len(s)
  <2>2. /\ x \in Seq(Chunks) /\ Len(x) = IF 1 <= n THEN n - 1 + 1 ELSE 0
        /\ \A i \in 1 .. n - 1 + 1 : x[i] = (t \o d)[1 + i - 1]
    BY <1>1, <2>1, SubSeqProperties
  <2>3. /\ y \in Seq(Chunks) /\ Len(y) = IF 1 <= n THEN n - 1 + 1 ELSE 0
        /\ \A i \in 1 .. n - 1 + 1 : y[i] = t[1 + i - 1]
    BY <1>1, <2>1, SubSeqProperties
  <2> HIDE DEF x, y
  <2>4. Len(x) = n /\ Len(y) = n /\ \A i \in 1 .. n : x[i] = y[i]
    <3>1. Len(x) = n /\ Len(y) = n
      BY <1>1, <2>2, <2>3
    <3>2. \A i \in 1 .. n : i \in 1 .. n - 1 + 1 /\ 1 + i - 1 = i
      BY <1>1
    <3> QED
      BY <2>1, <2>2, <2>3, <3>1, <3>2
  <2>5. x = y
    BY <2>2, <2>3, <2>4, SeqEqual
  <2> QED
    BY <2>5 DEF x, y
<1> QED
  BY <1>1, <1>2, <1>3 DEF IsPrefix

-----------------------------------------------------------------------------
(* The steps of a thread whose client is served alone.                      *)

ServedAlone(h) == ServiceInv /\ Live(h) /\ h \notin shared /\ Alone(h)

LEMMA StillReceiving ==
  ASSUME NEW h \in Handler, replies'[h] = << >>,
         pc'[h] \in {"recv", "lock", "open", "reply lock", "reply open"},
         FreeFds' # {} => Recorded(h)'
  PROVE  AloneReceiving(h)'
  BY DEF AloneReceiving

LEMMA ReceivingWith ==
  ASSUME NEW h \in Handler, replies'[h] = << >>,
         pc'[h] \in {"assign", "write", "close"},
         opened'[h] = -1 => FreeFds' = {},
         opened'[h] # -1 => fds'[opened'[h]].kind = "append" /\ Recorded(h)'
  PROVE  AloneReceiving(h)'
  BY DEF AloneReceiving

LEMMA ReplyingUnopened ==
  ASSUME NEW h \in Handler, opened'[h] = -1,
         pc'[h] \notin {"unlock", "send"}, replies'[h] = << >>
  PROVE  AloneReplying(h)'
  BY DEF AloneReplying

LEMMA ReplyingWith ==
  ASSUME NEW h \in Handler, opened'[h] # -1, Recorded(h)',
         NEW object, fds'[opened'[h]] = object,
         pc'[h] # "finish" => object.kind = "read only",
         pc'[h] \in {"reply assign", "read"} =>
           object.pos <= Len(file') /\ replies'[h] = SubSeq(file', 1, object.pos),
         pc'[h] \in {"unlock", "send"} =>
           object.pos <= Len(file') /\ replies'[h] \o buffer'[h] = SubSeq(file', 1, object.pos),
         pc'[h] \in {"reply close", "finish"} => replies'[h] = file'
  PROVE  AloneReplying(h)'
  BY DEF AloneReplying

LEMMA OneMore ==
  ASSUME NEW n \in Nat
  PROVE  \A i : i \in 1 .. n + 1 <=> i \in 1 .. n \/ i = n + 1
  OBVIOUS

(* Pieces that are in the file, or carried, stay so.                        *)
LEMMA StaysRecorded ==
  ASSUME NEW h \in Handler, Recorded(h), UNCHANGED <<file, received>>,
         Carrying(h) => Carrying(h)' /\ buffer'[h] = buffer[h]
  PROVE  Recorded(h)'
  BY DEF Recorded, Carried

LEMMA AloneRecv ==
  ASSUME NEW h \in Handler, ServedAlone(h), Recv(h, "reply lock"), UNCHANGED file
  PROVE  Alone(h)'
<1>0. TypeInv
  BY DEF ServedAlone, ServiceInv
<1>1. /\ pc[h] = "recv" /\ Behind(client_fd[h]) = Sock(h) /\ ~Carrying(h)
      /\ UNCHANGED <<fds, client_fd, opened, replies>>
  BY <1>0 DEF Recv, ServedAlone, Alone, Behind, TypeInv, Carrying
<1>2. /\ replies[h] = << >>
      /\ FreeFds # {} => Recorded(h)
      /\ fds'[client_fd'[h]] = Sock(h) /\ FreeFds' = FreeFds
  BY <1>1 DEF ServedAlone, Alone, AloneReceiving, FreeFds
<1>3. CASE /\ Delivers(h) /\ Goto(h, "lock")
           /\ buffer' = [buffer EXCEPT ![h] = <<<<h, received[h] + 1>>>>]
  <2>1. pc'[h] = "lock" /\ Carrying(h)' /\ Carried(h)' = <<h, received[h] + 1>>
    BY <1>0, <1>3 DEF TypeInv, Goto, Carrying, Carried
  <2>2. ASSUME Recorded(h) PROVE Recorded(h)'
    <3>1. received'[h] = received[h] + 1 /\ received[h] \in Nat
      BY <1>0, <1>3, Delivery DEF TypeInv
    <3>2. \A i \in 1 .. received'[h] : i \in 1 .. received[h] \/ i = received[h] + 1
      BY <3>1, OneMore
    <3> QED
      BY <1>1, <2>1, <2>2, <3>2 DEF Recorded
  <2>3. AloneReceiving(h)'
    BY <1>1, <1>2, <2>1, <2>2, StillReceiving
  <2> QED
    BY <1>2, <2>1, <2>3 DEF Alone
<1>4. CASE Goto(h, "reply lock") /\ UNCHANGED <<buffer, received>>
  <2>1. pc'[h] = "reply lock"
    BY <1>0, <1>4 DEF TypeInv, Goto
  <2>2. Recorded(h) => Recorded(h)'
    BY <1>1, <1>4, StaysRecorded
  <2>3. AloneReceiving(h)'
    BY <1>1, <1>2, <2>1, <2>2, StillReceiving
  <2> QED
    BY <1>2, <2>1, <2>3 DEF Alone
<1>5. Behind(client_fd[h]).kind = "sock" /\ Behind(client_fd[h]).who = h
  <2>1. Sock(h).kind = "sock" /\ Sock(h).who = h
    BY DEF Sock
  <2> QED
    BY <1>1, <2>1
<1> QED
  BY <1>3, <1>4, <1>5 DEF Recv, Ends

LEMMA AloneLock ==
  ASSUME NEW h \in Handler, ServedAlone(h), Lock(h), UNCHANGED file
  PROVE  Alone(h)'
<1>1. /\ pc[h] \in {"lock", "reply lock"}
      /\ pc'[h] = IF pc[h] = "lock" THEN "open" ELSE "reply open"
      /\ UNCHANGED <<fds, received, buffer, client_fd, opened, replies>>
  BY DEF Lock, Goto, ServedAlone, ServiceInv, TypeInv
<1>2. /\ replies[h] = << >>
      /\ FreeFds # {} => Recorded(h)
      /\ fds'[client_fd'[h]] = Sock(h) /\ FreeFds' = FreeFds
  BY <1>1 DEF ServedAlone, Alone, AloneReceiving, FreeFds
<1>3. Recorded(h) => Recorded(h)'
  <2>1. Carrying(h) => Carrying(h)' /\ buffer'[h] = buffer[h]
    BY <1>1 DEF Carrying
  <2> QED
    BY <1>1, <2>1, StaysRecorded
<1>4. AloneReceiving(h)'
  BY <1>1, <1>2, <1>3, StillReceiving
<1> QED
  BY <1>1, <1>2, <1>4 DEF Alone

LEMMA AloneOpen ==
  ASSUME NEW h \in Handler, ServedAlone(h), OpenFile(h)
  PROVE  Alone(h)'
<1> DEFINE fd == opened'[h]
<1>0. TypeInv
  BY DEF ServedAlone, ServiceInv
<1>1. /\ pc[h] \in {"open", "reply open"}
      /\ pc'[h] = IF pc[h] = "open" THEN "assign" ELSE "reply assign"
      /\ UNCHANGED <<file, received, buffer, client_fd, replies>>
  BY <1>0 DEF OpenFile, Open, Goto, TypeInv
<1>2. /\ replies[h] = << >>
      /\ FreeFds # {} => Recorded(h)
      /\ fds[client_fd[h]] = Sock(h) /\ client_fd[h] \in Fds /\ fds \in [Fds -> Object]
  BY <1>0, <1>1 DEF ServedAlone, Alone, AloneReceiving, TypeInv
<1>3. Recorded(h) => Recorded(h)'
  <2>1. Carrying(h) => Carrying(h)' /\ buffer'[h] = buffer[h]
    BY <1>1 DEF Carrying
  <2> QED
    BY <1>1, <2>1, StaysRecorded
<1>4. CASE pc[h] = "open"
  <2>1. fd = NewFd /\ fds' = TableWith(NewFd, DATA_FILE("append"))
    BY <1>0, <1>4 DEF OpenFile, Open, TypeInv
  <2>2. CASE NewFd = -1
    <3>1. fds' = fds /\ FreeFds' = {}
      BY <2>1, <2>2, NewDescriptor DEF TableWith, FreeFds
    <3>2. AloneReceiving(h)'
      BY <1>1, <1>2, <1>4, <2>1, <2>2, <3>1, ReceivingWith
    <3> QED
      BY <1>1, <1>2, <1>4, <3>1, <3>2 DEF Alone
  <2>3. CASE NewFd # -1
    <3>1. NewFd \in Fds /\ fds[NewFd] = FREE /\ FreeFds # {}
      BY <2>3, NewDescriptor
    <3>2. fds' = [fds EXCEPT ![NewFd] = DATA_FILE("append")]
      BY <2>1, <2>3 DEF TableWith
    <3>3. fds'[fd].kind = "append" /\ fds'[client_fd[h]] = Sock(h)
      BY <1>2, <2>1, <3>1, <3>2 DEF DATA_FILE, FREE, Sock
    <3>4. AloneReceiving(h)'
      BY <1>1, <1>2, <1>3, <1>4, <2>1, <2>3, <3>1, <3>3, ReceivingWith
    <3> QED
      BY <1>1, <1>4, <3>3, <3>4 DEF Alone
  <2> QED
    BY <2>2, <2>3
<1>5. CASE pc[h] = "reply open"
  <2>1. \/ fd = -1 /\ fds' = fds
        \/ /\ fd = NewFd /\ NewFd # -1
           /\ fds' = [fds EXCEPT ![NewFd] = DATA_FILE("read only")]
    BY <1>0, <1>5 DEF OpenFile, Open, TypeInv, TableWith
  <2>2. CASE fd = -1 /\ fds' = fds
    <3>1. AloneReplying(h)'
      BY <1>1, <1>2, <1>5, <2>2, ReplyingUnopened
    <3> QED
      BY <1>1, <1>2, <1>5, <2>2, <3>1 DEF Alone
  <2>3. CASE /\ fd = NewFd /\ NewFd # -1
             /\ fds' = [fds EXCEPT ![NewFd] = DATA_FILE("read only")]
    <3>1. NewFd \in Fds /\ fds[NewFd] = FREE /\ FreeFds # {}
      BY <2>3, NewDescriptor
    <3>2. /\ fds'[fd] = DATA_FILE("read only")
          /\ DATA_FILE("read only").kind = "read only" /\ DATA_FILE("read only").pos = 0
          /\ fds'[client_fd[h]] = Sock(h)
      <4>1. client_fd[h] # NewFd
        BY <1>2, <3>1 DEF FREE, Sock
      <4> QED
        BY <1>2, <2>3, <3>1, <4>1 DEF DATA_FILE
    <3>3. SubSeq(file, 1, 0) = << >> /\ 0 <= Len(file)
      <4>1. Len(file) \in Nat
        BY <1>0, LenProperties DEF TypeInv
      <4> QED
        BY <4>1, SubSeqEmpty
    <3>4. AloneReplying(h)'
      <4> DEFINE object == DATA_FILE("read only")
      <4>1. object.kind = "read only" /\ object.pos = 0 /\ fds'[opened'[h]] = object
        BY <3>2
      <4>2. opened'[h] # -1 /\ Recorded(h)' /\ pc'[h] = "reply assign"
            /\ replies'[h] = << >> /\ file' = file
        BY <1>1, <1>2, <1>3, <1>5, <2>3, <3>1
      <4> HIDE DEF object
      <4> QED
        BY <3>3, <4>1, <4>2, ReplyingWith
    <3> QED
      BY <1>1, <1>5, <3>2, <3>4 DEF Alone
  <2> QED
    BY <2>1, <2>2, <2>3
<1> QED
  BY <1>1, <1>4, <1>5

LEMMA AloneAssign ==
  ASSUME NEW h \in Handler, ServedAlone(h), Assign(h, "write"), UNCHANGED file
  PROVE  Alone(h)'
<1>1. /\ pc[h] \in {"assign", "reply assign"} /\ file_fd' = opened[h]
      /\ pc'[h] = IF pc[h] = "assign" THEN "write" ELSE "read"
      /\ UNCHANGED <<fds, received, buffer, client_fd, opened, replies>>
  BY DEF Assign, Goto, ServedAlone, ServiceInv, TypeInv
<1>2. fds'[client_fd'[h]] = Sock(h) /\ FreeFds' = FreeFds
  BY <1>1 DEF ServedAlone, Alone, FreeFds
<1>3. Recorded(h) => Recorded(h)'
  <2>1. Carrying(h) => Carrying(h)' /\ buffer'[h] = buffer[h]
    BY <1>1 DEF Carrying
  <2> QED
    BY <1>1, <2>1, StaysRecorded
<1>4. CASE pc[h] = "assign"
  <2>1. AloneReceiving(h)
    BY <1>4 DEF ServedAlone, Alone
  <2>2. AloneReceiving(h)'
    BY <1>1, <1>2, <1>3, <1>4, <2>1 DEF AloneReceiving
  <2> QED
    BY <1>1, <1>2, <1>4, <2>2 DEF Alone
<1>5. CASE pc[h] = "reply assign"
  <2>1. AloneReplying(h)
    BY <1>5 DEF ServedAlone, Alone
  <2>2. AloneReplying(h)'
    BY <1>1, <1>3, <1>5, <2>1 DEF AloneReplying
  <2> QED
    BY <1>1, <1>2, <1>5, <2>2 DEF Alone
<1> QED
  BY <1>1, <1>4, <1>5

LEMMA AloneWrite ==
  ASSUME NEW h \in Handler, ServedAlone(h), Write(h)
  PROVE  Alone(h)' /\ replies' = replies
<1>0. TypeInv /\ fds \in [Fds -> Object] /\ file \in Seq(Chunks)
  BY DEF ServedAlone, ServiceInv, TypeInv
<1>1. /\ pc[h] = "write" /\ pc'[h] = "close" /\ Carrying(h)
      /\ replies' = RepliesWith(Behind(file_fd), buffer[h])
      /\ file' = IF Behind(file_fd).kind \in Writable THEN file \o buffer[h] ELSE file
      /\ UNCHANGED <<fds, file_fd, received, buffer, client_fd, opened>>
  BY <1>0 DEF Write, WriteFd, Goto, TypeInv, Carrying, FileWith
<1>2. /\ fds'[client_fd'[h]] = Sock(h) /\ FreeFds' = FreeFds
      /\ file_fd = opened[h] /\ replies[h] = << >>
      /\ IF opened[h] = -1 THEN FreeFds = {}
         ELSE fds[opened[h]].kind = "append" /\ Recorded(h)
  BY <1>1 DEF ServedAlone, Alone, AloneReceiving, FreeFds
<1>3. CASE opened[h] = -1
  <2>1. Behind(file_fd) = FREE
    BY <1>2, <1>3, NewDescriptor DEF Behind
  <2>2. replies' = replies
    BY <1>1, <2>1 DEF RepliesWith, FREE
  <2>3. AloneReceiving(h)'
    BY <1>1, <1>2, <1>3, <2>2, ReceivingWith
  <2> QED
    BY <1>1, <1>2, <2>2, <2>3 DEF Alone
<1>4. CASE opened[h] # -1
  <2>1. opened[h] \in Fds /\ Behind(file_fd) = fds[opened[h]] /\ Behind(file_fd).kind = "append"
    BY <1>0, <1>2, <1>4 DEF TypeInv, Behind
  <2>2. replies' = replies /\ file' = file \o buffer[h]
    BY <1>1, <2>1 DEF RepliesWith, Writable
  <2>3. Carried(h) \in Chunks /\ buffer[h] = <<Carried(h)>>
    BY <1>0, <1>1, CarriedPiece
  <2>4. /\ DOMAIN file' = 1 .. Len(file) + 1 /\ Len(file) \in Nat
        /\ \A n \in DOMAIN file : n \in DOMAIN file' /\ file'[n] = file[n]
        /\ file'[Len(file) + 1] = Carried(h)
    <3>1. file' = file \o <<Carried(h)>>
      BY <2>2, <2>3
    <3> QED
      BY <1>0, <2>3, <3>1, Appended
  <2>5. Recorded(h)'
    <3>1. Len(file) + 1 \in DOMAIN file'
      BY <2>4
    <3> QED
      BY <1>1, <1>2, <1>4, <2>4, <3>1 DEF Recorded
  <2>6. AloneReceiving(h)'
    BY <1>1, <1>2, <1>4, <2>1, <2>2, <2>5, ReceivingWith
  <2> QED
    BY <1>1, <1>2, <2>2, <2>6 DEF Alone
<1> QED
  BY <1>3, <1>4

(* Closing the thread's own descriptor leaves its client's socket alone.   *)
LEMMA AloneTable ==
  ASSUME NEW h \in Handler, ServedAlone(h), fds' = TableWithout(opened[h]),
         opened[h] # -1 => fds[opened[h]].kind # "sock", UNCHANGED client_fd
  PROVE  /\ fds'[client_fd'[h]] = Sock(h)
         /\ opened[h] = -1 => FreeFds' = FreeFds
<1>1. /\ fds \in [Fds -> Object] /\ opened[h] \in Fds \cup {-1} /\ client_fd[h] \in Fds
      /\ fds[client_fd[h]] = Sock(h) /\ Sock(h).kind = "sock"
  BY DEF ServedAlone, ServiceInv, TypeInv, Live, Alone, Sock
<1>2. CASE opened[h] = -1
  <2>1. fds' = fds
    BY <1>2, NewDescriptor DEF TableWithout
  <2> QED
    BY <1>1, <2>1 DEF FreeFds
<1>3. CASE opened[h] # -1
  <2>1. opened[h] \in Fds /\ client_fd[h] # opened[h] /\ fds' = [fds EXCEPT ![opened[h]] = FREE]
    BY <1>1, <1>3 DEF TableWithout
  <2> QED
    BY <1>1, <1>3, <2>1
<1> QED
  BY <1>2, <1>3

LEMMA AloneClose ==
  ASSUME NEW h \in Handler, ServedAlone(h), Close(h), UNCHANGED file
  PROVE  Alone(h)'
<1>1. /\ pc[h] = "close" /\ pc'[h] \in {"reply lock", "recv"} /\ ~Carrying(h)
      /\ UNCHANGED <<received, buffer, client_fd, opened, replies>>
      /\ fds' = TableWithout(file_fd)
  BY DEF Close, Goto, ServedAlone, ServiceInv, TypeInv, Carrying
<1>2. /\ file_fd = opened[h] /\ replies[h] = << >>
      /\ IF opened[h] = -1 THEN FreeFds = {}
         ELSE fds[opened[h]].kind = "append" /\ Recorded(h)
  BY <1>1 DEF ServedAlone, Alone, AloneReceiving
<1>3. /\ fds'[client_fd'[h]] = Sock(h)
      /\ opened[h] = -1 => FreeFds' = FreeFds
  BY <1>1, <1>2, AloneTable
<1>4. Recorded(h) => Recorded(h)'
  BY <1>1, StaysRecorded
<1>5. AloneReceiving(h)'
  BY <1>1, <1>2, <1>3, <1>4, StillReceiving
<1> QED
  BY <1>1, <1>3, <1>5 DEF Alone

LEMMA AloneReplyClose ==
  ASSUME NEW h \in Handler, ServedAlone(h), ReplyClose(h), UNCHANGED file
  PROVE  Alone(h)'
<1>1. /\ pc[h] = "reply close" /\ pc'[h] = "finish" /\ ~Carrying(h)
      /\ UNCHANGED <<received, buffer, client_fd, opened, replies>>
      /\ fds' = TableWithout(file_fd)
  BY DEF ReplyClose, Goto, ServedAlone, ServiceInv, TypeInv, Carrying
<1>2. /\ file_fd = opened[h]
      /\ opened[h] = -1 => replies[h] = << >>
      /\ opened[h] # -1 =>
           Recorded(h) /\ fds[opened[h]].kind = "read only" /\ replies[h] = file
  BY <1>1 DEF ServedAlone, Alone, AloneReplying
<1>3. fds'[client_fd'[h]] = Sock(h)
  BY <1>1, <1>2, AloneTable
<1>4. Recorded(h) => Recorded(h)'
  BY <1>1, StaysRecorded
<1>5. AloneReplying(h)'
  BY <1>1, <1>2, <1>4, ReplyingUnopened, ReplyingWith
<1> QED
  BY <1>1, <1>3, <1>5 DEF Alone

LEMMA AloneReplyRead ==
  ASSUME NEW h \in Handler, ServedAlone(h), ReplyRead(h, Contents(Behind(file_fd))),
         UNCHANGED file
  PROVE  Alone(h)'
<1> DEFINE object == Behind(file_fd)
           data == Contents(object)
<1>0. TypeInv /\ fds \in [Fds -> Object] /\ file \in Seq(Chunks)
  BY DEF ServedAlone, ServiceInv, TypeInv
<1>1. /\ pc[h] = "read" /\ ~Carrying(h)
      /\ UNCHANGED <<file_fd, client_fd, opened, replies>>
  BY DEF ReplyRead, Carrying
<1>2. /\ file_fd = opened[h]
      /\ fds[client_fd[h]] = Sock(h) /\ client_fd[h] \in Fds
      /\ opened[h] = -1 => replies[h] = << >>
      /\ opened[h] # -1 =>
           /\ Recorded(h) /\ fds[opened[h]].kind = "read only"
           /\ fds[opened[h]].pos <= Len(file)
           /\ replies[h] = SubSeq(file, 1, fds[opened[h]].pos)
  BY <1>0, <1>1 DEF ServedAlone, Alone, AloneReplying, TypeInv
<1>3. CASE opened[h] = -1
  <2>1. object.kind = "free"
    BY <1>2, <1>3, NewDescriptor DEF Behind, FREE
  <2>2. Goto(h, "reply close") /\ fds' = fds
    BY <2>1 DEF ReplyRead, Readable
  <2>3. pc'[h] = "reply close"
    BY <1>0, <2>2 DEF TypeInv, Goto
  <2>4. AloneReplying(h)'
    BY <1>1, <1>2, <1>3, <2>3, ReplyingUnopened
  <2> QED
    BY <1>1, <1>2, <2>2, <2>3, <2>4 DEF Alone
<1>4. CASE opened[h] # -1
  <2>1. /\ opened[h] \in Fds /\ object = fds[opened[h]] /\ object.kind = "read only"
        /\ object.pos \in Nat
    BY <1>0, <1>2, <1>4 DEF TypeInv, Behind, Object
  <2>2. /\ data \in Seq(Chunks)
        /\ object.pos + Len(data) \in Nat /\ object.pos + Len(data) <= Len(file)
        /\ SubSeq(file, 1, object.pos) \o data = SubSeq(file, 1, object.pos + Len(data))
        /\ data = << >> => object.pos = Len(file)
    BY <1>0, <1>2, <1>4, <2>1, ContentsContinue
  <2>3. \/ /\ fds' = [fds EXCEPT ![file_fd].pos = @ + Len(data)]
           /\ buffer' = [buffer EXCEPT ![h] = data]
           /\ Goto(h, "unlock")
           /\ received' = received
        \/ /\ data = << >>
           /\ Goto(h, "reply close")
           /\ fds' = fds /\ received' = received
    BY <2>1 DEF ReplyRead
  <2> HIDE DEF data
  <2>4. CASE /\ fds' = [fds EXCEPT ![file_fd].pos = @ + Len(data)]
             /\ buffer' = [buffer EXCEPT ![h] = data]
             /\ Goto(h, "unlock")
             /\ received' = received
    <3> DEFINE moved == [object EXCEPT !.pos = @ + Len(data)]
    <3>1. pc'[h] = "unlock" /\ buffer'[h] = data
      BY <1>0, <2>4 DEF TypeInv, Goto
    <3>2. moved.pos = object.pos + Len(data) /\ moved.kind = "read only"
      BY <1>0, <2>1 DEF Object
    <3>3. fds' = [fds EXCEPT ![opened[h]] = moved]
      BY <1>2, <2>1, <2>4
    <3> HIDE DEF moved, object
    <3>4. fds'[opened[h]] = moved /\ fds'[client_fd[h]] = Sock(h)
      <4>1. client_fd[h] # opened[h]
        <5>1. Sock(h).kind = "sock"
          BY DEF Sock
        <5> QED
          BY <1>2, <1>4, <5>1
      <4> QED
        BY <1>0, <1>2, <2>1, <3>3, <4>1
    <3>5. Recorded(h)'
      BY <1>1, <1>2, <1>4, <2>4, StaysRecorded
    <3>6. replies'[h] \o buffer'[h] = SubSeq(file', 1, moved.pos) /\ moved.pos <= Len(file')
      <4>1. replies'[h] = SubSeq(file, 1, object.pos)
        BY <1>1, <1>2, <1>4, <2>1
      <4> QED
        BY <2>2, <3>1, <3>2, <4>1
    <3>7. AloneReplying(h)'
      BY <1>1, <1>4, <3>1, <3>2, <3>4, <3>5, <3>6, ReplyingWith
    <3> QED
      BY <1>1, <1>2, <3>1, <3>4, <3>7 DEF Alone
  <2>5. CASE data = << >> /\ Goto(h, "reply close") /\ fds' = fds /\ received' = received
    <3>1. pc'[h] = "reply close"
      BY <1>0, <2>5 DEF TypeInv, Goto
    <3>2. replies'[h] = file'
      <4>1. replies[h] = SubSeq(file, 1, Len(file))
        BY <1>2, <1>4, <2>1, <2>2, <2>5
      <4> QED
        BY <1>0, <1>1, <4>1, SubSeqFull
    <3>3. Recorded(h)'
      BY <1>1, <1>2, <1>4, <2>5, StaysRecorded
    <3>4. AloneReplying(h)'
      BY <1>1, <1>2, <1>4, <2>5, <3>1, <3>2, <3>3, ReplyingWith
    <3> QED
      BY <1>1, <1>2, <2>5, <3>1, <3>4 DEF Alone
  <2> QED
    BY <2>3, <2>4, <2>5
<1> QED
  BY <1>3, <1>4

LEMMA AloneReplyUnlock ==
  ASSUME NEW h \in Handler, ServedAlone(h), ReplyUnlock(h), UNCHANGED file
  PROVE  Alone(h)'
<1>1. /\ pc[h] = "unlock" /\ pc'[h] = "send" /\ ~Carrying(h)
      /\ UNCHANGED <<fds, file_fd, received, buffer, client_fd, opened, replies>>
  BY DEF ReplyUnlock, Goto, ServedAlone, ServiceInv, TypeInv, Carrying
<1>2. /\ file_fd = opened[h] /\ fds[client_fd[h]] = Sock(h)
      /\ opened[h] # -1 /\ Recorded(h) /\ fds[opened[h]].kind = "read only"
      /\ fds[opened[h]].pos <= Len(file)
      /\ replies[h] \o buffer[h] = SubSeq(file, 1, fds[opened[h]].pos)
  BY <1>1 DEF ServedAlone, Alone, AloneReplying
<1>3. Recorded(h)'
  BY <1>1, <1>2, StaysRecorded
<1>4. AloneReplying(h)'
  BY <1>1, <1>2, <1>3, ReplyingWith
<1> QED
  BY <1>1, <1>2, <1>4 DEF Alone

LEMMA AloneReplySend ==
  ASSUME NEW h \in Handler, ServedAlone(h), ReplySend(h), UNCHANGED file
  PROVE  /\ Alone(h)' /\ IsPrefix(replies'[h], file')
<1>0. TypeInv /\ file \in Seq(Chunks)
  BY DEF ServedAlone, ServiceInv, TypeInv
<1>1. /\ pc[h] = "send" /\ pc'[h] = "read" /\ ~Carrying(h)
      /\ replies' = RepliesWith(Behind(client_fd[h]), buffer[h])
      /\ UNCHANGED <<fds, file_fd, received, client_fd, opened>>
  BY <1>0 DEF ReplySend, Goto, TypeInv, Carrying
<1>2. /\ file_fd = opened[h] /\ fds[client_fd[h]] = Sock(h)
      /\ opened[h] # -1 /\ Recorded(h) /\ fds[opened[h]].kind = "read only"
      /\ fds[opened[h]].pos <= Len(file)
      /\ replies[h] \o buffer[h] = SubSeq(file, 1, fds[opened[h]].pos)
  BY <1>1 DEF ServedAlone, Alone, AloneReplying
<1>3. replies'[h] = replies[h] \o buffer[h]
  <2>1. Behind(client_fd[h]) = Sock(h) /\ Sock(h).kind = "sock" /\ Sock(h).who = h
    BY <1>0, <1>1, <1>2 DEF Behind, TypeInv, Sock
  <2>2. replies' = [replies EXCEPT ![h] = @ \o buffer[h]]
    BY <1>1, <2>1 DEF RepliesWith
  <2> QED
    BY <1>0, <2>2 DEF TypeInv
<1>4. Recorded(h)'
  BY <1>1, <1>2, StaysRecorded
<1>5. AloneReplying(h)'
  BY <1>1, <1>2, <1>3, <1>4, ReplyingWith
<1>6. IsPrefix(replies'[h], file')
  <2>1. fds[opened[h]].pos \in Nat
    BY <1>0, <1>2 DEF TypeInv, Object
  <2> QED
    BY <1>0, <1>2, <1>3, <2>1, StartIsPrefix
<1> QED
  BY <1>1, <1>2, <1>5, <1>6 DEF Alone

LEMMA AloneAccept ==
  ASSUME ServiceInv, NEW h \in Handler, Accept(h)
  PROVE  Alone(h)'
<1>0. TypeInv
  BY DEF ServiceInv
<1>1. /\ pc[h] = "none" /\ pc'[h] = "recv"
      /\ fds'[client_fd'[h]] = Sock(h)
      /\ UNCHANGED <<received, replies>>
  BY <1>0, Accepted DEF Goto, TypeInv
<1>2. replies'[h] = << >> /\ received'[h] = 0
  BY <1>1 DEF ServiceInv, SocketInv
<1>3. Recorded(h)'
  <2>1. 1 .. 0 = {}
    OBVIOUS
  <2> QED
    BY <1>2, <2>1 DEF Recorded
<1>4. AloneReceiving(h)'
  BY <1>1, <1>2, <1>3, StillReceiving
<1> QED
  BY <1>1, <1>4 DEF Alone

(* Of the threads that are being served, an unshared one is the only one.   *)
LEMMA OwnSteps ==
  ASSUME ServiceInv, NEW h \in Handler, NEW g \in Handler, client_handler(g), ~Sigpipe(g)
  PROVE  /\ Live(g) /\ shared' = shared
         /\ Live(h)' => Live(h)
         /\ Live(h) /\ h \notin shared => g = h
<1>1. CASE pc[g] = "finish" /\ Finish(g)
  BY <1>1 DEF Finish, Goto, ServiceInv, TypeInv, TogetherInv, Live
<1>2. CASE ~(pc[g] = "finish" /\ Finish(g))
  <2>1. PICK step : Serves(g, step)
    BY <1>2, ThreadServes
  <2> QED
    BY <2>1 DEF Serves, Goto, ServiceInv, TypeInv, TogetherInv, Live
<1> QED
  BY <1>1, <1>2

LEMMA NextAlone ==
  ASSUME ServiceInv, AloneInv, [Next]_vars, NEW h \in Handler, Live(h)', h \notin shared'
  PROVE  Alone(h)'
<1>1. CASE UNCHANGED vars
  <2>1. Live(h) /\ h \notin shared
    BY <1>1 DEF vars, handlerVars, Live
  <2>2. Alone(h)
    BY <2>1 DEF AloneInv
  <2> QED
    BY <1>1, <2>2 DEF vars, handlerVars, Alone, AloneReceiving, AloneReplying, Recorded,
                      FreeFds, Carrying, Carried, Sock, FREE
<1>2. ASSUME NEW g \in Handler, Accept(g) PROVE Alone(h)'
  <2>1. /\ Goto(g, "recv")
        /\ shared' = IF Active = {} THEN shared ELSE shared \cup Active \cup {g}
    BY <1>2, Accepted DEF ServiceInv
  <2>2. CASE g = h
    BY <1>2, <2>2, AloneAccept
  <2>3. CASE g # h
    <3>1. h \in Active
      BY <2>1, <2>3 DEF Goto, ServiceInv, TypeInv, Live, Active
    <3> QED
      BY <2>1, <3>1
  <2> QED
    BY <2>2, <2>3
<1>3. ASSUME NEW g \in Handler, client_handler(g) PROVE Alone(h)'
  <2>1. CASE Sigpipe(g)
    BY <2>1 DEF Sigpipe, Live
  <2>2. CASE ~Sigpipe(g)
    <3>1. Live(h) /\ h \notin shared /\ g = h
      BY <1>3, <2>2, OwnSteps
    <3>2. ServedAlone(h)
      BY <3>1 DEF ServedAlone, AloneInv
    <3>3. ~(pc[h] = "finish" /\ Finish(h))
      BY DEF Finish, Goto, Live, ServiceInv, TypeInv
    <3> QED
      BY <1>3, <2>2, <3>1, <3>2, <3>3, Threads, AloneRecv, AloneLock, AloneOpen, AloneAssign,
         AloneWrite, AloneClose, AloneReplyClose, AloneReplyRead, AloneReplyUnlock,
         AloneReplySend
  <2> QED
    BY <2>1, <2>2
<1> QED
  BY <1>1, <1>2, <1>3 DEF Next

(* The file only grows, and a reply grows only by what is sent.             *)
LEMMA FileGrows ==
  ASSUME ServiceInv, [Next]_vars
  PROVE  \E d \in Seq(Chunks) : file' = file \o d
<1>0. TypeInv /\ file \in Seq(Chunks)
  BY DEF ServiceInv, TypeInv
<1>1. << >> \in Seq(Chunks) /\ file \o << >> = file
  BY <1>0, EmptySeq, ConcatEmptySeq
<1>2. CASE UNCHANGED vars
  BY <1>1, <1>2 DEF vars
<1>3. ASSUME NEW h \in Handler, Accept(h) PROVE \E d \in Seq(Chunks) : file' = file \o d
  BY <1>0, <1>1, <1>3, Accepted
<1>4. ASSUME NEW h \in Handler, client_handler(h) PROVE \E d \in Seq(Chunks) : file' = file \o d
  <2>1. file' = file \/ file' = file \o buffer[h]
    BY <1>4 DEF client_handler, OpenFile, Write, FileWith
  <2>2. buffer[h] \in Seq(Chunks)
    BY <1>0 DEF TypeInv
  <2> QED
    BY <1>1, <2>1, <2>2
<1> QED
  BY <1>2, <1>3, <1>4 DEF Next

LEMMA SendsOnlyToShared ==
  ASSUME ServiceInv, NEW g \in Handler, Live(g), NEW h \in Handler, h # g, h \notin shared,
         NEW fd, NEW data, replies' = RepliesWith(Behind(fd), data)
  PROVE  replies'[h] = replies[h]
<1>1. CASE Behind(fd).kind = "sock"
  <2>1. PICK w \in Handler : Behind(fd).who = w /\ pc[w] \notin {"none", "done"}
    BY <1>1, BehindFd
  <2>2. w # h
    BY <2>1 DEF ServiceInv, TogetherInv, Live
  <2>3. replies' = [replies EXCEPT ![w] = @ \o data]
    BY <1>1, <2>1 DEF RepliesWith
  <2> QED
    BY <2>2, <2>3 DEF ServiceInv, TypeInv
<1>2. CASE Behind(fd).kind # "sock"
  BY <1>2 DEF RepliesWith
<1> QED
  BY <1>1, <1>2

LEMMA NextReplies ==
  ASSUME ServiceInv, AloneInv, [Next]_vars, NEW h \in Handler, h \notin shared'
  PROVE  IsPrefix(replies'[h], file')
<1>0. TypeInv /\ file \in Seq(Chunks) /\ replies[h] \in Seq(Chunks)
  BY DEF ServiceInv, TypeInv
<1>1. ASSUME h \notin shared, replies'[h] = replies[h] PROVE IsPrefix(replies'[h], file')
  <2>1. PICK d \in Seq(Chunks) : file' = file \o d
    BY FileGrows
  <2>2. IsPrefix(replies[h], file)
    BY <1>1 DEF AloneInv, RepliesComeFromFile
  <2> QED
    BY <1>0, <1>1, <2>1, <2>2, PrefixOfLonger
<1>2. CASE UNCHANGED vars
  BY <1>1, <1>2 DEF vars, handlerVars
<1>3. ASSUME NEW g \in Handler, Accept(g) PROVE IsPrefix(replies'[h], file')
  <2>1. h \notin shared /\ replies' = replies
    BY <1>0, <1>3, Accepted
  <2> QED
    BY <1>1, <2>1
<1>4. ASSUME NEW g \in Handler, client_handler(g) PROVE IsPrefix(replies'[h], file')
  <2>1. CASE Sigpipe(g)
    BY <1>1, <2>1 DEF Sigpipe
  <2>2. CASE ~Sigpipe(g)
    <3>1. Live(g) /\ h \notin shared
      BY <1>4, <2>2, OwnSteps
    <3>2. \/ replies' = replies
          \/ Write(g) /\ replies' = RepliesWith(Behind(file_fd), buffer[g])
          \/ /\ ReplySend(g) /\ UNCHANGED file
             /\ replies' = RepliesWith(Behind(client_fd[g]), buffer[g])
      BY <1>4, <2>2 DEF client_handler, OpenFile, Open, Write, WriteFd, Recv, Lock, Assign,
                        Close, ReplyRead, ReplyUnlock, ReplySend, ReplyClose, Finish
    <3>3. CASE g # h
      BY <1>1, <3>1, <3>2, <3>3, SendsOnlyToShared
    <3>4. CASE g = h
      <4>1. ServedAlone(h)
        BY <3>1, <3>4 DEF ServedAlone, AloneInv
      <4> QED
        BY <1>1, <3>1, <3>2, <3>4, <4>1, AloneWrite, AloneReplySend
    <3> QED
      BY <3>3, <3>4
  <2> QED
    BY <2>1, <2>2
<1> QED
  BY <1>2, <1>3, <1>4 DEF Next

-----------------------------------------------------------------------------
(* What stays open.                                                         *)

(* The thread has its connection and, from its open to its close, the data *)
(* file; nothing else is open.                                              *)
HoldsAll(h) ==
  \A fd \in Fds : fds[fd] # FREE =>
    fd = client_fd[h] \/ (fd = opened[h] /\ pc[h] \in Holding)

LEMMA HoldsAllNext ==
  ASSUME NEW h \in Handler, ServedAlone(h), HoldsAll(h), client_handler(h), ~Sigpipe(h)
  PROVE  IF pc'[h] = "done" THEN \A fd \in Fds : fds'[fd] = FREE ELSE HoldsAll(h)'
<1>0. /\ fds \in [Fds -> Object] /\ pc \in [Handler -> Steps]
      /\ opened \in [Handler -> Fds \cup {-1}] /\ client_fd[h] \in Fds
  BY DEF ServedAlone, ServiceInv, TypeInv, Live
<1>1. CASE /\ UNCHANGED <<fds, client_fd, opened>> /\ pc'[h] # "done"
           /\ pc[h] \in Holding => pc'[h] \in Holding
  BY <1>1 DEF HoldsAll, FREE
<1>2. CASE OpenFile(h)
  <2>1. /\ pc[h] \notin Holding /\ pc'[h] \in {"assign", "reply assign"}
        /\ UNCHANGED client_fd
    BY <1>0, <1>2 DEF OpenFile, Open, Goto, Holding
  <2>2. /\ opened'[h] \in {-1, NewFd}
        /\ \E kind : fds' = TableWith(opened'[h], DATA_FILE(kind))
    BY <1>0, <1>2 DEF OpenFile, Open
  <2>3. \A fd \in Fds : fd # opened'[h] => fds'[fd] = fds[fd]
    BY <1>0, <2>2 DEF TableWith
  <2>4. HoldsAll(h)'
    BY <2>1, <2>3 DEF HoldsAll, Holding, FREE
  <2> QED
    BY <2>1, <2>4
<1>3. CASE Close(h) \/ ReplyClose(h)
  <2>1. /\ pc[h] \in {"close", "reply close"} /\ pc'[h] # "done"
        /\ fds' = TableWithout(file_fd) /\ UNCHANGED <<client_fd, opened>>
    BY <1>0, <1>3 DEF Close, ReplyClose, Goto
  <2>2. file_fd = opened[h]
    BY <2>1 DEF ServedAlone, Alone
  <2>3. \A fd \in Fds : fds'[fd] = IF fd = opened[h] THEN FREE ELSE fds[fd]
    BY <1>0, <2>1, <2>2 DEF TableWithout
  <2>4. HoldsAll(h)'
    BY <2>1, <2>3 DEF HoldsAll, FREE
  <2> QED
    BY <2>1, <2>4
<1>4. CASE ReplyRead(h, Contents(Behind(file_fd)))
  <2>1. /\ pc[h] = "read" /\ pc'[h] \in {"unlock", "reply close"}
        /\ UNCHANGED <<client_fd, opened>>
    BY <1>0, <1>4 DEF ReplyRead, Goto
  <2>2. file_fd = opened[h]
    BY <2>1 DEF ServedAlone, Alone
  <2>3. UNCHANGED fds \/ \E n : fds' = [fds EXCEPT ![opened[h]].pos = n]
    BY <1>4, <2>2 DEF ReplyRead
  <2>4. \A fd \in Fds : fd # opened[h] => fds'[fd] = fds[fd]
    BY <1>0, <2>3
  <2>5. HoldsAll(h)'
    BY <2>1, <2>4 DEF HoldsAll, Holding, FREE
  <2> QED
    BY <2>1, <2>5
<1>5. CASE pc[h] = "finish" /\ Finish(h)
  <2>1. pc'[h] = "done" /\ fds' = TableWithout(client_fd[h])
    BY <1>0, <1>5 DEF Finish, Goto
  <2>2. \A fd \in Fds : fd # client_fd[h] => fds[fd] = FREE
    BY <1>5 DEF HoldsAll, Holding
  <2>3. \A fd \in Fds : fds'[fd] = FREE
    BY <1>0, <2>1, <2>2 DEF TableWithout
  <2> QED
    BY <2>1, <2>3
<1>6. CASE Write(h) \/ Recv(h, "reply lock") \/ Lock(h) \/ Assign(h, "write")
           \/ ReplyUnlock(h) \/ ReplySend(h)
  <2>1. UNCHANGED <<fds, client_fd, opened>>
    BY <1>6 DEF Write, WriteFd, Recv, Lock, Assign, ReplyUnlock, ReplySend
  <2>2. /\ pc'[h] # "done"
        /\ pc[h] \in Holding => pc'[h] \in Holding
    BY <1>0, <1>6 DEF Write, WriteFd, Recv, Lock, Assign, ReplyUnlock, ReplySend, Goto, Holding
  <2> QED
    BY <1>1, <2>1, <2>2
<1> QED
  BY <1>2, <1>3, <1>4, <1>5, <1>6, Threads

LEMMA NextOpen == ServiceInv /\ AloneInv /\ [Next]_vars => OpenInv'
<1> SUFFICES ASSUME ServiceInv, AloneInv, [Next]_vars PROVE OpenInv'
  OBVIOUS
<1>0. TypeInv /\ fds \in [Fds -> Object]
  BY DEF ServiceInv, TypeInv
<1>1. CASE UNCHANGED vars
  BY <1>1 DEF vars, handlerVars, AloneInv, OpenInv, Live, FREE
<1>2. ASSUME NEW h \in Handler, Accept(h) PROVE OpenInv'
  <2> SUFFICES ASSUME shared' = {}, \A g \in Handler : pc'[g] # "killed",
                      NEW fd \in Fds, fds'[fd] # FREE
               PROVE  Live(h)' /\ fd = client_fd'[h]
    BY DEF OpenInv, FREE
  <2>1. /\ pc[h] = "none" /\ pc'[h] = "recv" /\ \A g \in Handler : g # h => pc'[g] = pc[g]
        /\ client_fd'[h] = NewFd /\ \A x \in Fds : x # NewFd => fds'[x] = fds[x]
        /\ shared' = IF Active = {} THEN shared ELSE shared \cup Active \cup {h}
    BY <1>0, <1>2, Accepted DEF Goto, TypeInv
  <2>2. shared = {} /\ Active = {} /\ \A g \in Handler : pc[g] # "killed"
    BY <2>1
  <2>3. \A g \in Handler : ~Live(g)
    BY <2>2 DEF Live, Active
  <2>4. \A x \in Fds : fds[x] = FREE
    BY <2>2, <2>3 DEF AloneInv, OpenInv
  <2>5. fd = NewFd
    BY <2>1, <2>4
  <2> QED
    BY <2>1, <2>5 DEF Live
<1>3. ASSUME NEW h \in Handler, client_handler(h) PROVE OpenInv'
  <2>1. CASE Sigpipe(h)
    BY <2>1 DEF Sigpipe, OpenInv
  <2>2. CASE ~Sigpipe(h)
    <3> SUFFICES ASSUME shared' = {}, \A g \in Handler : pc'[g] # "killed",
                        NEW fd \in Fds, fds'[fd] # FREE
                 PROVE  /\ Live(h)'
                        /\ fd = client_fd'[h] \/ (fd = opened'[h] /\ pc'[h] \in Holding)
      BY DEF OpenInv, FREE, Holding
    <3>1. Live(h) /\ shared = {}
      BY <1>3, <2>2, OwnSteps
    <3>2. ServedAlone(h) /\ \A g \in Handler : g # h => ~Live(g)
      BY <3>1 DEF ServedAlone, AloneInv, ServiceInv, TogetherInv
    <3>3. \A g \in Handler : pc[g] # "killed"
      BY <3>1 DEF ServiceInv, TogetherInv, Live
    <3>4. HoldsAll(h)
      BY <3>1, <3>2, <3>3 DEF HoldsAll, AloneInv, OpenInv
    <3>5. IF pc'[h] = "done" THEN \A x \in Fds : fds'[x] = FREE ELSE HoldsAll(h)'
      BY <1>3, <2>2, <3>2, <3>4, HoldsAllNext
    <3>6. pc'[h] # "done" /\ HoldsAll(h)'
      BY <3>5
    <3>7. pc'[h] # "none"
      <4>1. CASE pc[h] = "finish" /\ Finish(h)
        BY <4>1 DEF Finish, Goto, ServiceInv, TypeInv
      <4>2. CASE ~(pc[h] = "finish" /\ Finish(h))
        <5>1. PICK step : Serves(h, step)
          BY <1>3, <2>2, <4>2, ThreadServes
        <5> QED
          BY <5>1 DEF Serves, Goto, ServiceInv, TypeInv
      <4> QED
        BY <4>1, <4>2
    <3>8. Live(h)'
      BY <3>6, <3>7 DEF Live
    <3> QED
      BY <3>6, <3>8 DEF HoldsAll, FREE
  <2> QED
    BY <2>1, <2>2
<1> QED
  BY <1>1, <1>2, <1>3 DEF Next

LEMMA InitAlone == Init => AloneInv
<1> SUFFICES ASSUME Init PROVE AloneInv
  OBVIOUS
<1>1. /\ \A h \in Handler : pc[h] = "none" /\ replies[h] = << >>
      /\ \A fd \in Fds : fds[fd] = FREE
      /\ file = << >>
  BY DEF Init, HandlerInit
<1>2. IsPrefix(<< >>, << >>)
  <2>1. << >> \in Seq(Chunks) /\ Len(<< >>) = 0
    BY EmptySeq
  <2> QED
    BY <2>1 DEF IsPrefix
<1> QED
  BY <1>1, <1>2 DEF AloneInv, RepliesComeFromFile, Live, OpenInv

LEMMA NextAloneInv == ServiceInv /\ AloneInv /\ [Next]_vars => AloneInv'
<1> SUFFICES ASSUME ServiceInv, AloneInv, [Next]_vars PROVE AloneInv'
  OBVIOUS
<1>1. \A h \in Handler : Live(h)' /\ h \notin shared' => Alone(h)'
  BY NextAlone
<1>2. RepliesComeFromFile'
  BY NextReplies DEF RepliesComeFromFile
<1> QED
  BY <1>1, <1>2, NextOpen DEF AloneInv

LEMMA AloneInvariant == Spec => [](ServiceInv /\ AloneInv)
  BY InitService, NextService, InitAlone, NextAloneInv, PTL DEF Spec

(* A client that was served alone never receives anything but the file from *)
(* its start on: for any number of clients before and after it, whatever    *)
(* they sent, and however few descriptors there are.                        *)
THEOREM AloneIsPrefix == Spec => []RepliesComeFromFile
<1>1. AloneInv => RepliesComeFromFile
  BY DEF AloneInv
<1> QED
  BY AloneInvariant, <1>1, PTL

(* ... and at the end it has received the whole file, in which all its own *)
(* pieces are, if there was a descriptor to open it with.                   *)
THEOREM AloneIsWhole == Spec => []ReplyIsWholeFile
<1>1. AloneInv => ReplyIsWholeFile
  <2> SUFFICES ASSUME AloneInv, NEW h \in Handler,
                      pc[h] = "finish", h \notin shared, opened[h] # -1
               PROVE  /\ replies[h] = file
                      /\ \A i \in 1 .. received[h] : \E n \in DOMAIN file : file[n] = <<h, i>>
    BY DEF ReplyIsWholeFile
  <2>1. AloneReplying(h)
    BY DEF AloneInv, Live, Alone
  <2>2. replies[h] = file /\ Recorded(h)
    BY <2>1 DEF AloneReplying
  <2> QED
    BY <2>2 DEF Recorded, Carrying
<1> QED
  BY AloneInvariant, <1>1, PTL

(* After connections that were all served one by one, every descriptor is   *)
(* free again and so is the mutex.                                          *)
THEOREM NothingStaysOpen == Spec => []NothingLeftOpen
<1>1. ServiceInv /\ AloneInv /\ MutexNotAbandoned => NothingLeftOpen
  <2> SUFFICES ASSUME ServiceInv, AloneInv, MutexNotAbandoned, Active = {}, shared = {}
               PROVE  fileMutex = Nobody /\ FreeFds = Fds
    BY DEF NothingLeftOpen
  <2>1. \A h \in Handler : pc[h] \in {"none", "done"}
    BY DEF Active
  <2>2. fileMutex = Nobody
    BY <2>1 DEF MutexNotAbandoned, ServiceInv, TypeInv
  <2>3. \A fd \in Fds : fds[fd] = FREE
    BY <2>1 DEF AloneInv, OpenInv, Live
  <2> QED
    BY <2>2, <2>3 DEF FreeFds
<1> QED
  BY AloneInvariant, MutexNeverAbandoned, <1>1, PTL


=============================================================================
