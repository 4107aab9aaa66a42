------------------------------ MODULE AesdChar ------------------------------
(***************************************************************************)
(* aesd-char-driver/main.c: the character device.  Any number of kernel    *)
(* tasks run read, write, llseek and ioctl on shared open files; one mutex *)
(* protects the ring, the pending command and the heap blocks they own.    *)
(* The steps of a call are the stretches between two points where another  *)
(* task can intervene to some effect.                                      *)
(***************************************************************************)
EXTENDS Integers, SequencesExt

CONSTANTS
  MaxWriteOps,   \* AESDCHAR_MAX_WRITE_OPERATIONS_SUPPORTED
  NULL, SizeMod, StrayWords,    \* see CircularBuffer
  Block,         \* the addresses kmalloc can return
  FREE,          \* stands for the content of a block that is not allocated
  File,          \* struct file objects on the device
  Task,          \* tasks issuing system calls
  Nobody,        \* the mutex owner when there is none
  NL, JUNK,      \* newline; the content of memory nobody has written
  UserData,      \* the byte strings passed to write
  ReadCounts,    \* the counts passed to read
  SeekArgs,      \* the [whence, offset] passed to lseek
  SeekToArgs,    \* the [write_cmd, write_cmd_offset] passed to ioctl
  MaxCalls       \* bound: system calls issued in one behaviour

Whence == {"SEEK_SET", "SEEK_CUR", "SEEK_END", "SEEK_DATA"}

ASSUME AesdCharAssumption ==
  /\ MaxWriteOps \in 1 .. 255
  /\ NULL \notin Block \cup File
  /\ Nobody \notin Task
  /\ SizeMod \in Nat \ {0}
  /\ StrayWords \subseteq Nat
  /\ UserData \subseteq Seq(UNION {ToSet(d) : d \in UserData}) \ {<< >>}
  /\ FREE \notin Seq({JUNK} \cup UNION {ToSet(d) : d \in UserData})
  /\ ReadCounts \subseteq Nat
  /\ SeekArgs \subseteq [whence : Whence, offset : Int]
  /\ SeekToArgs \subseteq [write_cmd : Nat, write_cmd_offset : Nat]
  /\ MaxCalls \in Nat

VARIABLES
  entry, in_offs, out_offs, full, size,  \* dev->circ_buffer
  dev_buffer, buffer_size,               \* the command not yet ended
  lock,      \* dev->lock: its owner
  heap,      \* kmalloc'ed memory: the bytes of a block, or FREE
  loaded,    \* the module is in the kernel
  opened,    \* the files that are open
  f_pos,     \* the position of each of them, 0 for the others
  pc,        \* where in its system call a task is
  frame,     \* the call's local variables
  calls      \* system calls issued so far

ring   == <<entry, in_offs, out_offs, full, size>>
dev    == <<ring, dev_buffer, buffer_size>>
vars   == <<dev, lock, heap, loaded, opened, f_pos, pc, frame, calls>>

CB == INSTANCE CircularBuffer WITH Ptr <- Block, EntrySizes <- Nat \ {0}

ENOMEM == 12
EFAULT == 14
EINVAL == 22
ENOTTY == 25

(* op, file and arg are the call's parameters; pos the copy of the file     *)
(* position read and write work on; wdata the block write_data; found the   *)
(* ring entry read looked up; got the bytes it copied out.                  *)
IdleFrame == [op |-> "none", file |-> NULL, arg |-> NULL, pos |-> 0,
              wdata |-> NULL, found |-> CB!NoEntry, got |-> << >>, ret |-> 0]

FreeBlocks == {b \in Block : heap[b] = FREE}

-----------------------------------------------------------------------------
(* The mutex, as the driver uses it.                                        *)

MutexUnlock == lock' = Nobody

FirstStep ==
  [read |-> "find", write |-> "append", llseek |-> "seek", ioctl |-> "seekto"]

MutexLock(t) ==
  /\ pc[t] = "lock"
  /\ lock = Nobody
  /\ lock' = t
  /\ pc' = [pc EXCEPT ![t] = FirstStep[frame[t].op]]
  /\ UNCHANGED <<dev, heap, loaded, opened, f_pos, frame, calls>>

(* The end of a driver function: its locals no longer matter, only ret and  *)
(* *f_pos do.                                                               *)
Finish(t, ret, pos, got) ==
  /\ pc' = [pc EXCEPT ![t] = "return"]
  /\ frame' = [frame EXCEPT ![t].ret = ret, ![t].pos = pos, ![t].got = got,
                            ![t].wdata = NULL, ![t].found = CB!NoEntry]

-----------------------------------------------------------------------------
(* Entering and leaving the kernel.                                         *)

Positional == {"read", "write"}

(* A user calls op on an open file.  The kernel hands read and write a copy *)
(* of the file position; the device has no FMODE_ATOMIC_POS, so nothing     *)
(* keeps other calls on the same file out meanwhile.                        *)
Call(t, f, op, arg, step, wdata, ret) ==
  /\ pc[t] = "user"
  /\ f \in opened
  /\ calls < MaxCalls
  /\ calls' = calls + 1
  /\ pc' = [pc EXCEPT ![t] = step]
  /\ frame' = [frame EXCEPT ![t] =
       [IdleFrame EXCEPT !.op = op, !.file = f, !.arg = arg, !.wdata = wdata,
                         !.ret = ret,
                         !.pos = IF op \in Positional THEN f_pos[f] ELSE 0]]
  /\ UNCHANGED <<dev, lock, loaded, opened, f_pos>>

(* ksys_read and ksys_write store the position back after a call that did   *)
(* not fail.                                                                *)
SysReturn(t) ==
  /\ pc[t] = "return"
  /\ pc' = [pc EXCEPT ![t] = "user"]
  /\ frame' = [frame EXCEPT ![t] = IdleFrame]
  /\ f_pos' = IF frame[t].op \in Positional /\ frame[t].ret >= 0
              THEN [f_pos EXCEPT ![frame[t].file] = frame[t].pos]
              ELSE f_pos
  /\ UNCHANGED <<dev, lock, heap, loaded, opened, calls>>

aesd_open(f) ==
  /\ loaded
  /\ f \notin opened
  /\ opened' = opened \cup {f}
  /\ UNCHANGED <<dev, lock, heap, loaded, f_pos, pc, frame, calls>>

(* The last reference to the file is gone: no call on it is under way. *)
aesd_release(f) ==
  /\ f \in opened
  /\ \A t \in Task : frame[t].file # f
  /\ opened' = opened \ {f}
  /\ f_pos' = [f_pos EXCEPT ![f] = 0]
  /\ UNCHANGED <<dev, lock, heap, loaded, pc, frame, calls>>

-----------------------------------------------------------------------------
(* aesd_read.                                                               *)

ReadEnter(t, f) ==
  /\ \E count \in ReadCounts : Call(t, f, "read", count, "lock", NULL, 0)
  /\ UNCHANGED heap

(* A read that gives the lock up before it copies. *)
ReadFind_unlocks(t) ==
  /\ pc[t] = "find"
  /\ CB!FindEntry(frame[t].pos) # CB!NoEntry
  /\ pc' = [pc EXCEPT ![t] = "copy"]
  /\ frame' = [frame EXCEPT ![t].found = CB!FindEntry(frame[t].pos)]
  /\ MutexUnlock
  /\ UNCHANGED <<dev, heap, loaded, opened, f_pos, calls>>

(* The entry at *f_pos; without one the read returns 0. *)
ReadFind(t) ==
  LET found == CB!FindEntry(frame[t].pos)
  IN  /\ pc[t] = "find"
      /\ IF found = CB!NoEntry
         THEN /\ Finish(t, 0, frame[t].pos, << >>)
              /\ MutexUnlock
         ELSE /\ pc' = [pc EXCEPT ![t] = "copy"]
              /\ frame' = [frame EXCEPT ![t].found = found]
              /\ UNCHANGED lock
      /\ UNCHANGED <<dev, heap, loaded, opened, f_pos, calls>>

(* What a read of count bytes copies out of the entry it found. *)
CopyLength(e, offset, count) ==
  IF e.size - offset < count THEN e.size - offset ELSE count

ReadCopy(t) ==
  LET offset == frame[t].found.offset
      e      == entry[frame[t].found.slot]
      n      == CopyLength(e, offset, frame[t].arg)
  IN  /\ pc[t] = "copy"
      /\ \/ Finish(t, n, frame[t].pos + n,
                   SubSeq(heap[e.buffptr], offset + 1, offset + n))
         \/ Finish(t, -EFAULT, frame[t].pos - EFAULT, << >>)  \* copy_to_user fails
      /\ MutexUnlock
      /\ UNCHANGED <<dev, heap, loaded, opened, f_pos, calls>>

-----------------------------------------------------------------------------
(* aesd_write.                                                              *)

(* Where the first newline of the data is, 0 if it has none. *)
Newlines(data) == {i \in DOMAIN data : data[i] = NL}

full_packet(data) == Newlines(data) # {}

(* A write that ignores where the newline is. *)
Chunk_all(data) == data

(* this_chunk: the write takes the data up to its first newline only. *)
Chunk(data) ==
  IF full_packet(data)
  THEN SubSeq(data, 1, CHOOSE i \in Newlines(data) : \A j \in Newlines(data) : i <= j)
  ELSE data

(* write_data is allocated and filled before the lock is taken. *)
WriteEnter(t, f) ==
  \E data \in UserData :
    \/ \E b \in FreeBlocks :
         /\ Call(t, f, "write", NULL, "lock", b, 0)
         /\ heap' = [heap EXCEPT ![b] = data]
    \/ \E err \in {ENOMEM, EFAULT} :      \* kmalloc or copy_from_user fails
         /\ Call(t, f, "write", NULL, "return", NULL, -err)
         /\ UNCHANGED heap

(* The write is over: write_data is freed, the lock released. *)
WriteFinish(t, ret) ==
  /\ Finish(t, ret, IF ret < 0 THEN frame[t].pos ELSE frame[t].pos + ret, << >>)
  /\ MutexUnlock

(* The bytes of the pending command. *)
Pending ==
  IF buffer_size = 0 THEN << >>
  ELSE IF dev_buffer = NULL THEN [i \in 1 .. buffer_size |-> JUNK]
  ELSE heap[dev_buffer]

(* What the appended command can end up in: a fresh block, or, for krealloc *)
(* of an existing one, also that block itself.                              *)
Targets ==
  FreeBlocks \cup (IF buffer_size > 0 /\ dev_buffer # NULL THEN {dev_buffer} ELSE {})

(* kmalloc or krealloc succeeds and the chunk is copied behind what is      *)
(* there.  A moved block is freed; krealloc(NULL) leaves junk in front.     *)
HeapAfterAppend(t, b) ==
  LET old == IF buffer_size > 0 THEN dev_buffer ELSE NULL
  IN  [x \in Block |->
         IF x = b THEN Pending \o Chunk(heap[frame[t].wdata])
         ELSE IF x = old THEN FREE
         ELSE heap[x]]

WriteAppend(t) ==
  LET data == heap[frame[t].wdata]
      n    == Len(Chunk(data))
  IN  /\ pc[t] = "append"
      /\ \E b \in Targets :
           /\ dev_buffer' = b
           /\ buffer_size' = buffer_size + n
           /\ IF full_packet(data)
              THEN /\ heap' = HeapAfterAppend(t, b)
                   /\ pc' = [pc EXCEPT ![t] = "commit"]
                   /\ frame' = [frame EXCEPT ![t].ret = n]
                   /\ UNCHANGED lock
              ELSE /\ heap' = [HeapAfterAppend(t, b) EXCEPT ![frame[t].wdata] = FREE]
                   /\ WriteFinish(t, n)
      /\ UNCHANGED <<ring, loaded, opened, f_pos, calls>>

(* An error return that forgets write_data. *)
WriteNoMemory_noFree(t) ==
  /\ pc[t] = "append"
  /\ dev_buffer' = NULL
  /\ WriteFinish(t, -ENOMEM)
  /\ UNCHANGED <<ring, buffer_size, heap, loaded, opened, f_pos, calls>>

(* kmalloc or krealloc fails.  dev_buffer is lost either way, buffer_size   *)
(* is kept.                                                                 *)
WriteNoMemory(t) ==
  /\ pc[t] = "append"
  /\ dev_buffer' = NULL
  /\ heap' = [heap EXCEPT ![frame[t].wdata] = FREE]
  /\ WriteFinish(t, -ENOMEM)
  /\ UNCHANGED <<ring, buffer_size, loaded, opened, f_pos, calls>>

(* A commit that leaves buffer_size alone. *)
WriteCommit_noReset(t) ==
  /\ pc[t] = "commit"
  /\ CB!aesd_circular_buffer_add_entry([buffptr |-> dev_buffer, size |-> buffer_size])
  /\ heap' = [heap EXCEPT ![frame[t].wdata] = FREE]
  /\ WriteFinish(t, frame[t].ret)
  /\ UNCHANGED <<dev_buffer, buffer_size, loaded, opened, f_pos, calls>>

(* The command is complete: its block moves to the ring.  dev_buffer keeps  *)
(* pointing to it; buffer_size = 0 says it must not be used.                *)
WriteCommit(t) ==
  /\ pc[t] = "commit"
  /\ CB!aesd_circular_buffer_add_entry([buffptr |-> dev_buffer, size |-> buffer_size])
  /\ buffer_size' = 0
  /\ heap' = [heap EXCEPT ![frame[t].wdata] = FREE]
  /\ WriteFinish(t, frame[t].ret)
  /\ UNCHANGED <<dev_buffer, loaded, opened, f_pos, calls>>

-----------------------------------------------------------------------------
(* aesd_llseek.                                                             *)

SeekEnter(t, f) ==
  /\ \E a \in SeekArgs : Call(t, f, "llseek", a, "lock", NULL, 0)
  /\ UNCHANGED heap

(* circ_buffer.size, a size_t, passed as loff_t. *)
FileSize == IF 2 * size < SizeMod THEN size ELSE size - SizeMod

(* fixed_size_llseek: the new position, or an error.  A relative seek by 0  *)
(* answers the position without checking it.                                *)
fixed_size_llseek(pos, a) ==
  LET target == CASE a.whence = "SEEK_SET" -> a.offset
                  [] a.whence = "SEEK_CUR" -> pos + a.offset
                  [] a.whence = "SEEK_END" -> FileSize + a.offset
                  [] OTHER -> -EINVAL
  IN  IF a.whence = "SEEK_CUR" /\ a.offset = 0 THEN pos
      ELSE IF target < 0 \/ target > FileSize THEN -EINVAL
      ELSE target

(* The error return does not unlock. *)
SeekBody(t) ==
  LET f       == frame[t].file
      new_pos == fixed_size_llseek(f_pos[f], frame[t].arg)
  IN  /\ pc[t] = "seek"
      /\ IF new_pos < 0
         THEN /\ Finish(t, -EINVAL, 0, << >>)
              /\ UNCHANGED <<lock, f_pos>>
         ELSE /\ f_pos' = [f_pos EXCEPT ![f] = new_pos]
              /\ Finish(t, new_pos, 0, << >>)
              /\ MutexUnlock
      /\ UNCHANGED <<dev, heap, loaded, opened, calls>>

-----------------------------------------------------------------------------
(* aesd_ioctl.                                                              *)

(* An unknown magic, an unknown number or an unreadable argument returns    *)
(* at once.                                                                 *)
IoctlEnter(t, f) ==
  /\ \E a \in SeekToArgs :
       \/ Call(t, f, "ioctl", a, "lock", NULL, 0)
       \/ \E ret \in {ENOTTY, -EINVAL, -EFAULT} :
            Call(t, f, "ioctl", a, "return", NULL, ret)
  /\ UNCHANGED heap

(* entry[i].size as compiled: one past the array lies the ring's own size.  *)
EntrySize(i) == IF i = MaxWriteOps THEN size ELSE entry[i].size

(* A sum that includes slot i itself. *)
SizeBefore_inclusive ==
  LET sum[i \in 0 .. MaxWriteOps] ==
        EntrySize(i) + (IF i = 0 THEN 0 ELSE sum[i - 1])
  IN  sum

(* The bytes in the array slots before slot i. *)
SizeBefore ==
  LET sum[i \in 0 .. MaxWriteOps] ==
        IF i = 0 THEN 0 ELSE sum[i - 1] + entry[i - 1].size
  IN  sum

(* The bounds aesd_file_offset checks. *)
SeekToAccepted(a) ==
  /\ a.write_cmd <= MaxWriteOps
  /\ a.write_cmd_offset <= EntrySize(a.write_cmd)

(* A rejection that, like the one of aesd_llseek, does not unlock. *)
SeekToBody_keepsLock(t) ==
  /\ pc[t] = "seekto"
  /\ ~SeekToAccepted(frame[t].arg)
  /\ Finish(t, -EINVAL, 0, << >>)
  /\ UNCHANGED <<dev, lock, heap, loaded, opened, f_pos, calls>>

(* aesd_file_offset. *)
SeekToBody(t) ==
  LET a == frame[t].arg
  IN  /\ pc[t] = "seekto"
      /\ IF SeekToAccepted(a)
         THEN /\ f_pos' = [f_pos EXCEPT ![frame[t].file] =
                             SizeBefore[a.write_cmd] + a.write_cmd_offset]
              /\ Finish(t, 0, 0, << >>)
         ELSE /\ Finish(t, -EINVAL, 0, << >>)
              /\ UNCHANGED f_pos
      /\ MutexUnlock
      /\ UNCHANGED <<dev, heap, loaded, opened, calls>>

-----------------------------------------------------------------------------
(* Loading and unloading.                                                   *)

(* memset, mutex_init and aesd_circular_buffer_init. *)
aesd_init_module ==
  /\ ~loaded
  /\ loaded' = TRUE
  /\ CB!aesd_circular_buffer_init
  /\ dev_buffer' = NULL
  /\ buffer_size' = 0
  /\ lock' = Nobody
  /\ UNCHANGED <<heap, opened, f_pos, pc, frame, calls>>

(* fops.owner keeps the module while a file is open.  The entries' contents *)
(* are freed, the pending command's are not.                                *)
aesd_cleanup_module ==
  /\ loaded
  /\ opened = {}
  /\ loaded' = FALSE
  /\ heap' = [b \in Block |->
                IF \E i \in CB!Slots : entry[i].buffptr = b THEN FREE ELSE heap[b]]
  /\ UNCHANGED <<dev, lock, opened, f_pos, pc, frame, calls>>

-----------------------------------------------------------------------------

Init ==
  /\ CB!Init
  /\ dev_buffer = NULL
  /\ buffer_size = 0
  /\ lock = Nobody
  /\ heap = [b \in Block |-> FREE]
  /\ loaded = TRUE
  /\ opened = {}
  /\ f_pos = [f \in File |-> 0]
  /\ pc = [t \in Task |-> "user"]
  /\ frame = [t \in Task |-> IdleFrame]
  /\ calls = 0

(* The steps of a call already under way. *)
Step(t) ==
  \/ ReadFind(t)
  \/ ReadCopy(t)
  \/ WriteAppend(t)
  \/ WriteNoMemory(t)
  \/ WriteCommit(t)
  \/ SeekBody(t)
  \/ SeekToBody(t)
  \/ SysReturn(t)

Enter(t) ==
  \E f \in File :
    \/ ReadEnter(t, f)
    \/ WriteEnter(t, f)
    \/ SeekEnter(t, f)
    \/ IoctlEnter(t, f)

Next ==
  \/ \E t \in Task : Enter(t) \/ MutexLock(t) \/ Step(t)
  \/ \E f \in File : aesd_open(f) \/ aesd_release(f)
  \/ aesd_init_module
  \/ aesd_cleanup_module

Spec == Init /\ [][Next]_vars

(* The kernel runs every task that can run, and the mutex is handed to its  *)
(* waiters in turn.  Users owe nothing.                                     *)
Fairness ==
  \A t \in Task : WF_vars(Step(t)) /\ SF_vars(MutexLock(t))

FairSpec == Spec /\ Fairness

-----------------------------------------------------------------------------
(* What the state means to a user.                                          *)

(* The complete commands, oldest first, and their bytes end to end. *)
Commands == [k \in DOMAIN CB!Logged |-> heap[CB!Logged[k].buffptr]]
Text     == FlattenSeq(Commands)

(* The argument of an AESDCHAR_IOCSEEKTO names a byte of a command, and      *)
(* where in Text that byte is.                                              *)
SeekToNamesByte(a) ==
  /\ a.write_cmd < Len(Commands)
  /\ a.write_cmd_offset < Len(Commands[a.write_cmd + 1])

SeekToTarget(a) ==
  Len(FlattenSeq(SubSeq(Commands, 1, a.write_cmd))) + a.write_cmd_offset

(* The pending command without the chunk that is about to complete it. *)
Unfinished ==
  IF \E t \in Task : pc[t] = "commit"
  THEN SubSeq(Pending, 1, buffer_size - frame[lock].ret)
  ELSE Pending

CL == INSTANCE CommandLog
        WITH Capacity <- MaxWriteOps, Chunks <- {Chunk(d) : d \in UserData},
             log <- IF loaded THEN Commands ELSE << >>,
             pending <- IF loaded THEN Unfinished ELSE << >>

(* The heap blocks somebody still has a pointer to and will use or free. *)
EntryBlocks   == {entry[i].buffptr : i \in CB!Slots} \ {NULL}
PendingBlocks == IF buffer_size > 0 THEN {dev_buffer} \ {NULL} ELSE {}
LocalBlocks   == {frame[t].wdata : t \in Task} \ {NULL}
Owned         == LocalBlocks \cup (IF loaded THEN EntryBlocks \cup PendingBlocks ELSE {})
Leaked        == {b \in Block : heap[b] # FREE} \ Owned

-----------------------------------------------------------------------------
(* Properties.                                                              *)

Critical == {"find", "copy", "append", "commit", "seek", "seekto"}

(* Types. *)
TypeOK ==
  /\ CB!TypeOK
  /\ dev_buffer \in Block \cup {NULL}
  /\ buffer_size \in Nat
  /\ lock \in Task \cup {Nobody}
  /\ DOMAIN heap = Block
  /\ loaded \in BOOLEAN
  /\ opened \subseteq File
  /\ f_pos \in [File -> Nat]
  /\ pc \in [Task -> Critical \cup {"user", "lock", "return"}]
  /\ DOMAIN frame = Task
  /\ calls \in 0 .. MaxCalls

(* A task between mutex_lock and the end of its function holds the mutex,   *)
(* so no two tasks are in the critical sections of the five functions that  *)
(* take it.                                                                 *)
MutualExclusion ==
  \A t \in Task : pc[t] \in Critical => lock = t

(* aesd_write hands every block to exactly one owner: each entry's block is *)
(* allocated, as long as the entry says, and shared with no other entry;    *)
(* the pending block is neither an entry's nor freed, although dev_buffer   *)
(* goes on pointing at the last command; write_data is the caller's own.    *)
HeapOwnership ==
  /\ loaded =>
       /\ \A i \in CB!Slots : entry[i] # CB!EmptyEntry =>
            /\ heap[entry[i].buffptr] # FREE
            /\ Len(heap[entry[i].buffptr]) = entry[i].size
       /\ \A i, j \in CB!Slots : i # j /\ entry[i] # CB!EmptyEntry =>
            entry[i].buffptr # entry[j].buffptr
       /\ \A b \in PendingBlocks :
            /\ heap[b] # FREE
            /\ Len(heap[b]) = buffer_size
       /\ EntryBlocks \cap PendingBlocks = {}
  /\ \A b \in LocalBlocks : heap[b] # FREE
  /\ loaded => LocalBlocks \cap (EntryBlocks \cup PendingBlocks) = {}

(* The three ways aesd_write and aesd_cleanup_module lose a block for good: *)
(* overwriting the oldest entry of a full ring, a krealloc that fails, and  *)
(* unloading with an unfinished command.  Every other step, every error     *)
(* return among them, frees what it gives up.                               *)
LeaksOnlyAt ==
  [][\A b \in Leaked' \ Leaked :
       \/ full /\ b = entry[in_offs].buffptr /\ entry'[in_offs].buffptr # b
       \/ b = dev_buffer /\ dev_buffer' = NULL
       \/ b = dev_buffer /\ loaded /\ ~loaded'
    ]_vars

(* aesd_read returns the bytes of the concatenated commands from the file   *)
(* position on, at least one unless it is at the end: never bytes of an     *)
(* unfinished command, of a freed block or of the wrong entry.              *)
ReadsWhatWasWritten ==
  [][\A t \in Task :
       frame[t].op = "read" /\ pc[t] \in Critical /\ pc'[t] = "return" =>
         LET pos == frame[t].pos
             n   == frame'[t].ret
         IN  \/ n = -EFAULT
             \/ n = 0 /\ (pos >= Len(Text) \/ frame[t].arg = 0)
             \/ n > 0 /\ frame'[t].got = SubSeq(Text, pos + 1, pos + n)
    ]_vars

(* Every step of the driver is a step of CommandLog or invisible: commands  *)
(* are never torn, mixed between writers, reordered or lost before their    *)
(* turn, and an unfinished command only loses its bytes to a failed         *)
(* allocation.                                                              *)
ImplementsCommandLog == CL!Spec

(* Only aesd_llseek's error return leaves a driver function with the mutex  *)
(* still held.                                                              *)
LockKeptOnlyByFailedSeek ==
  [][\A t \in Task :
       pc[t] \in Critical /\ pc'[t] = "return" /\ lock' = t =>
         frame[t].op = "llseek" /\ frame'[t].ret = -EINVAL
    ]_vars

(* Until the ring is full circ_buffer.size is the file size: aesd_llseek    *)
(* goes nowhere beyond the text, and SEEK_END finds its end.                *)
SeekStaysInText ==
  [][\A t \in Task :
       pc[t] = "seek" /\ pc'[t] = "return" /\ ~full =>
         LET a == frame[t].arg
             r == frame'[t].ret
         IN  /\ a.whence = "SEEK_END" /\ a.offset = 0 => r = Len(Text)
             /\ a.whence = "SEEK_SET" => (r >= 0 <=> a.offset \in 0 .. Len(Text))
    ]_vars

(* While the oldest command is in slot 0, an AESDCHAR_IOCSEEKTO to a byte    *)
(* that exists puts the file on exactly that byte.                          *)
SeekToFindsByteUnwrapped ==
  [][\A t \in Task :
       /\ pc[t] = "seekto" /\ pc'[t] = "return"
       /\ SeekToNamesByte(frame[t].arg) /\ out_offs = 0
       => /\ frame'[t].ret = 0
          /\ f_pos'[frame[t].file] = SeekToTarget(frame[t].arg)
    ]_vars

(* Every call returns to its user, unless an llseek fails and abandons the  *)
(* mutex: no other path waits, or leaves, while it holds it.                *)
CallsReturn ==
  \/ <>(\E t \in Task : frame[t].op = "llseek" /\ frame[t].ret < 0)
  \/ \A t \in Task : (pc[t] # "user" ~> pc[t] = "user")

-----------------------------------------------------------------------------
(* What the documentation says and the code does not do.                    *)

(* aesd_ioctl.h:27,31: write_cmd is "The zero referenced write command to   *)
(* seek into", write_cmd_offset "The zero referenced offset within the      *)
(* write": an AESDCHAR_IOCSEEKTO to a byte that exists finds that byte.     *)
SeekToFindsByte ==
  [][\A t \in Task :
       pc[t] = "seekto" /\ pc'[t] = "return" /\ SeekToNamesByte(frame[t].arg) =>
         /\ frame'[t].ret = 0
         /\ f_pos'[frame[t].file] = SeekToTarget(frame[t].arg)
    ]_vars

=============================================================================
