--------------------------- MODULE AesdCharProofs ---------------------------
(***************************************************************************)
(* Proofs about the character device, for any number of tasks, files and   *)
(* blocks: the mutex excludes, no call is inside a driver that is not      *)
(* loaded, one error return keeps the mutex, and every block has one       *)
(* owner or is lost in one of three places.                                *)
(***************************************************************************)
EXTENDS AesdChar, SequenceTheorems, TLAPS

P == INSTANCE CircularBufferProofs WITH Ptr <- Block, EntrySizes <- Nat \ {0}

(* A task that is in the kernel has its file open: aesd_release is not      *)
(* called under a running call.                                             *)
CallsHaveOpenFile ==
  \A t \in Task : pc[t] # "user" => frame[t].file \in opened

(* While the module is not loaded no file is open, so no call is under way, *)
(* and the mutex_init of the next load takes the mutex from nobody.         *)
UnloadedIsClosed ==
  ~loaded => opened = {}

(* pc is a function on the tasks, frame gives each its locals. *)
FrameType ==
  /\ pc \in [Task -> Critical \cup {"user", "lock", "return"}]
  /\ DOMAIN frame = Task
  /\ \A t \in Task :
       /\ frame[t] = [x \in DOMAIN frame[t] |-> frame[t][x]]
       /\ DOMAIN frame[t] = DOMAIN IdleFrame
  /\ \A t \in Task : frame[t].op \in {"none"} \cup DOMAIN FirstStep
  /\ \A t \in Task : pc[t] = "lock" => frame[t].op \in DOMAIN FirstStep

(* The inductive strengthening of MutualExclusion. *)
LockInv ==
  /\ FrameType
  /\ CallsHaveOpenFile
  /\ UnloadedIsClosed
  /\ MutualExclusion

LEMMA InitLock == Init => LockInv
  BY DEF Init, LockInv, FrameType, CallsHaveOpenFile, UnloadedIsClosed,
         MutualExclusion, IdleFrame, Critical, FirstStep

-----------------------------------------------------------------------------
(* What a step of one task does to pc, lock and the frames, in the words of *)
(* the invariant: t moves from a step in from to one in to, everybody else  *)
(* and the parameters of the call stay as they are.                         *)
Moves(t, from, to) ==
  /\ pc[t] \in from
  /\ pc' = [pc EXCEPT ![t] = pc'[t]]
  /\ pc'[t] \in to
  /\ DOMAIN frame' = Task
  /\ \A u \in Task :
       /\ frame'[u] = [x \in DOMAIN frame'[u] |-> frame'[u][x]]
       /\ DOMAIN frame'[u] = DOMAIN IdleFrame
       /\ frame'[u].op = frame[u].op
       /\ frame'[u].file = frame[u].file

LEMMA FinishMoves ==
  ASSUME FrameType, NEW t \in Task, NEW ret, NEW pos, NEW got,
         pc[t] \in Critical, Finish(t, ret, pos, got)
  PROVE  Moves(t, Critical, {"return"})
<1>1. pc' = [pc EXCEPT ![t] = "return"]
  BY DEF Finish
<1>2. /\ pc' = [pc EXCEPT ![t] = pc'[t]]
      /\ pc'[t] = "return"
  BY <1>1 DEF FrameType
<1>3. DOMAIN frame' = Task
  BY DEF Finish, FrameType
<1>4. ASSUME NEW u \in Task
      PROVE  /\ frame'[u] = [x \in DOMAIN frame'[u] |-> frame'[u][x]]
             /\ DOMAIN frame'[u] = DOMAIN IdleFrame
             /\ frame'[u].op = frame[u].op
             /\ frame'[u].file = frame[u].file
  BY DEF Finish, FrameType, IdleFrame
<1> QED
  BY <1>2, <1>3, <1>4 DEF Moves

(* A driver function goes on under the mutex, or ends and perhaps unlocks:  *)
(* no other task was inside, so an unlock takes the mutex from nobody else. *)
LEMMA StepUnderLock ==
  ASSUME LockInv, NEW t \in Task,
         Moves(t, Critical, Critical \cup {"return"}),
         UNCHANGED <<loaded, opened>>,
         lock' = lock \/ (pc'[t] = "return" /\ lock' = Nobody)
  PROVE  LockInv'
<1>1. FrameType'
  BY DEF LockInv, FrameType, Moves, Critical
<1>2. CallsHaveOpenFile'
  BY DEF LockInv, FrameType, CallsHaveOpenFile, Moves, Critical
<1>3. UnloadedIsClosed'
  BY DEF LockInv, UnloadedIsClosed
<1>4. MutualExclusion'
  <2> SUFFICES ASSUME NEW u \in Task, pc'[u] \in Critical
               PROVE  lock' = u
    BY DEF MutualExclusion
  <2>1. CASE u = t
    BY <2>1 DEF LockInv, MutualExclusion, Moves, Critical
  <2>2. CASE u # t
    <3>1. pc'[u] = pc[u]
      BY <2>2 DEF LockInv, FrameType, Moves
    <3>2. lock = u /\ lock = t
      BY <3>1 DEF LockInv, MutualExclusion, Moves
    <3> QED
      BY <3>2, <2>2
  <2> QED
    BY <2>1, <2>2
<1> QED
  BY <1>1, <1>2, <1>3, <1>4 DEF LockInv

LEMMA FinishKeepsLockInv ==
  ASSUME LockInv, NEW t \in Task, NEW ret, NEW pos, NEW got,
         pc[t] \in Critical, Finish(t, ret, pos, got),
         UNCHANGED <<loaded, opened>>,
         lock' = lock \/ lock' = Nobody
  PROVE  LockInv'
<1>1. Moves(t, Critical, {"return"})
  BY FinishMoves DEF LockInv
<1>2. Moves(t, Critical, Critical \cup {"return"}) /\ pc'[t] = "return"
  BY <1>1 DEF Moves
<1> QED
  BY <1>2, StepUnderLock

(* A user enters the kernel: the task is not in a critical section.         *)
LEMMA CallKeepsLockInv ==
  ASSUME LockInv, NEW t \in Task, NEW f \in File,
         NEW op \in DOMAIN FirstStep, NEW arg, NEW step \in {"lock", "return"},
         NEW wdata, NEW ret,
         Call(t, f, op, arg, step, wdata, ret)
  PROVE  LockInv'
<1>1. FrameType'
  BY DEF LockInv, FrameType, Call, IdleFrame
<1>2. CallsHaveOpenFile'
  BY DEF LockInv, FrameType, CallsHaveOpenFile, Call, IdleFrame
<1>3. UnloadedIsClosed'
  BY DEF LockInv, UnloadedIsClosed, Call
<1>4. MutualExclusion'
  BY DEF LockInv, FrameType, MutualExclusion, Call, Critical
<1> QED
  BY <1>1, <1>2, <1>3, <1>4 DEF LockInv

LEMMA MutexLockKeepsLockInv ==
  ASSUME LockInv, NEW t \in Task, MutexLock(t)
  PROVE  LockInv'
<1>0. pc'[t] \in Critical /\ pc' = [pc EXCEPT ![t] = pc'[t]]
  BY DEF LockInv, FrameType, MutexLock, FirstStep, Critical
<1>1. FrameType'
  BY <1>0 DEF LockInv, FrameType, MutexLock, Critical
<1>2. CallsHaveOpenFile'
  BY <1>0 DEF LockInv, FrameType, CallsHaveOpenFile, MutexLock
<1>3. UnloadedIsClosed'
  BY DEF LockInv, UnloadedIsClosed, MutexLock
<1>4. MutualExclusion'
  BY <1>0, AesdCharAssumption DEF LockInv, FrameType, MutualExclusion, MutexLock
<1> QED
  BY <1>1, <1>2, <1>3, <1>4 DEF LockInv

LEMMA SysReturnKeepsLockInv ==
  ASSUME LockInv, NEW t \in Task, SysReturn(t)
  PROVE  LockInv'
<1>1. FrameType'
  BY DEF LockInv, FrameType, SysReturn, IdleFrame
<1>2. CallsHaveOpenFile'
  BY DEF LockInv, FrameType, CallsHaveOpenFile, SysReturn
<1>3. UnloadedIsClosed'
  BY DEF LockInv, UnloadedIsClosed, SysReturn
<1>4. MutualExclusion'
  BY DEF LockInv, FrameType, MutualExclusion, SysReturn, Critical
<1> QED
  BY <1>1, <1>2, <1>3, <1>4 DEF LockInv

-----------------------------------------------------------------------------
(* One step of the system.                                                  *)

LEMMA EnterKeepsLockInv ==
  ASSUME LockInv, NEW t \in Task, Enter(t)
  PROVE  LockInv'
<1>1. PICK f \in File :
        ReadEnter(t, f) \/ WriteEnter(t, f) \/ SeekEnter(t, f) \/ IoctlEnter(t, f)
  BY DEF Enter
<1>2. "read" \in DOMAIN FirstStep /\ "write" \in DOMAIN FirstStep
      /\ "llseek" \in DOMAIN FirstStep /\ "ioctl" \in DOMAIN FirstStep
  BY DEF FirstStep
<1>3. CASE ReadEnter(t, f)
  BY <1>2, <1>3, CallKeepsLockInv DEF ReadEnter
<1>4. CASE WriteEnter(t, f)
  BY <1>2, <1>4, CallKeepsLockInv DEF WriteEnter
<1>5. CASE SeekEnter(t, f)
  BY <1>2, <1>5, CallKeepsLockInv DEF SeekEnter
<1>6. CASE IoctlEnter(t, f)
  BY <1>2, <1>6, CallKeepsLockInv DEF IoctlEnter
<1> QED
  BY <1>1, <1>3, <1>4, <1>5, <1>6

LEMMA StepKeepsLockInv ==
  ASSUME LockInv, NEW t \in Task, Step(t)
  PROVE  LockInv'
<1>1. CASE ReadFind(t)
  <2>1. pc[t] \in Critical /\ UNCHANGED <<loaded, opened>>
    BY <1>1 DEF ReadFind, Critical
  <2>2. CASE CB!FindEntry(frame[t].pos) = CB!NoEntry
    <3>1. Finish(t, 0, frame[t].pos, << >>) /\ lock' = Nobody
      BY <1>1, <2>2 DEF ReadFind, MutexUnlock
    <3> QED
      BY <2>1, <3>1, FinishKeepsLockInv
  <2>3. CASE CB!FindEntry(frame[t].pos) # CB!NoEntry
    <3>1. /\ pc' = [pc EXCEPT ![t] = "copy"]
          /\ frame' = [frame EXCEPT ![t].found = CB!FindEntry(frame[t].pos)]
          /\ lock' = lock
      BY <1>1, <2>3 DEF ReadFind
    <3>2. Moves(t, Critical, Critical \cup {"return"})
      BY <2>1, <3>1 DEF LockInv, FrameType, Moves, IdleFrame, Critical
    <3> QED
      BY <2>1, <3>1, <3>2, StepUnderLock
  <2> QED
    BY <2>2, <2>3
<1>2. CASE ReadCopy(t)
  <2>1. pc[t] \in Critical /\ UNCHANGED <<loaded, opened>> /\ lock' = Nobody
    BY <1>2 DEF ReadCopy, MutexUnlock, Critical
  <2>2. \E ret, pos, got : Finish(t, ret, pos, got)
    BY <1>2 DEF ReadCopy
  <2> QED
    BY <2>1, <2>2, FinishKeepsLockInv
<1>3. CASE WriteAppend(t)
  <2>1. pc[t] \in Critical /\ UNCHANGED <<loaded, opened>>
    BY <1>3 DEF WriteAppend, Critical
  <2>2. CASE full_packet(heap[frame[t].wdata])
    <3>1. /\ pc' = [pc EXCEPT ![t] = "commit"]
          /\ frame' = [frame EXCEPT ![t].ret = Len(Chunk(heap[frame[t].wdata]))]
          /\ lock' = lock
      BY <1>3, <2>2 DEF WriteAppend
    <3>2. Moves(t, Critical, Critical \cup {"return"})
      BY <2>1, <3>1 DEF LockInv, FrameType, Moves, IdleFrame, Critical
    <3> QED
      BY <2>1, <3>1, <3>2, StepUnderLock
  <2>3. CASE ~full_packet(heap[frame[t].wdata])
    <3>1. WriteFinish(t, Len(Chunk(heap[frame[t].wdata])))
      BY <1>3, <2>3 DEF WriteAppend
    <3> QED
      BY <2>1, <3>1, FinishKeepsLockInv DEF WriteFinish, MutexUnlock
  <2> QED
    BY <2>2, <2>3
<1>4. CASE WriteNoMemory(t)
  <2>1. /\ pc[t] \in Critical /\ UNCHANGED <<loaded, opened>>
        /\ WriteFinish(t, -ENOMEM)
    BY <1>4 DEF WriteNoMemory, Critical
  <2> QED
    BY <2>1, FinishKeepsLockInv DEF WriteFinish, MutexUnlock
<1>5. CASE WriteCommit(t)
  <2>1. /\ pc[t] \in Critical /\ UNCHANGED <<loaded, opened>>
        /\ WriteFinish(t, frame[t].ret)
    BY <1>5 DEF WriteCommit, Critical
  <2> QED
    BY <2>1, FinishKeepsLockInv DEF WriteFinish, MutexUnlock
<1>6. CASE SeekBody(t)
  <2>1. /\ pc[t] \in Critical /\ UNCHANGED <<loaded, opened>>
        /\ lock' = lock \/ lock' = Nobody
    BY <1>6 DEF SeekBody, MutexUnlock, Critical
  <2>2. \E ret, pos, got : Finish(t, ret, pos, got)
    BY <1>6 DEF SeekBody
  <2> QED
    BY <2>1, <2>2, FinishKeepsLockInv
<1>7. CASE SeekToBody(t)
  <2>1. pc[t] \in Critical /\ UNCHANGED <<loaded, opened>> /\ lock' = Nobody
    BY <1>7 DEF SeekToBody, MutexUnlock, Critical
  <2>2. \E ret, pos, got : Finish(t, ret, pos, got)
    BY <1>7 DEF SeekToBody
  <2> QED
    BY <2>1, <2>2, FinishKeepsLockInv
<1>8. CASE SysReturn(t)
  BY <1>8, SysReturnKeepsLockInv
<1> QED
  BY <1>1, <1>2, <1>3, <1>4, <1>5, <1>6, <1>7, <1>8 DEF Step

(* Opening and closing files, loading and unloading. *)
LEMMA ModuleKeepsLockInv ==
  ASSUME LockInv,
         \/ \E f \in File : aesd_open(f) \/ aesd_release(f)
         \/ aesd_init_module
         \/ aesd_cleanup_module
  PROVE  LockInv'
<1>1. ASSUME NEW f \in File, aesd_open(f)
      PROVE  LockInv'
  BY <1>1 DEF aesd_open, LockInv, FrameType, CallsHaveOpenFile, UnloadedIsClosed,
              MutualExclusion
<1>2. ASSUME NEW f \in File, aesd_release(f)
      PROVE  LockInv'
  BY <1>2 DEF aesd_release, LockInv, FrameType, CallsHaveOpenFile,
              UnloadedIsClosed, MutualExclusion
<1>3. CASE aesd_init_module
  <2>1. \A t \in Task : pc[t] = "user"
    BY <1>3 DEF aesd_init_module, LockInv, CallsHaveOpenFile, UnloadedIsClosed
  <2> QED
    BY <1>3, <2>1 DEF aesd_init_module, LockInv, FrameType, CallsHaveOpenFile,
                      UnloadedIsClosed, MutualExclusion, Critical
<1>4. CASE aesd_cleanup_module
  BY <1>4 DEF aesd_cleanup_module, LockInv, FrameType, CallsHaveOpenFile,
              UnloadedIsClosed, MutualExclusion
<1> QED
  BY <1>1, <1>2, <1>3, <1>4

LEMMA NextKeepsLockInv == LockInv /\ [Next]_vars => LockInv'
<1> SUFFICES ASSUME LockInv, [Next]_vars
             PROVE  LockInv'
  OBVIOUS
<1>1. ASSUME NEW t \in Task, Enter(t) \/ MutexLock(t) \/ Step(t)
      PROVE  LockInv'
  BY <1>1, EnterKeepsLockInv, MutexLockKeepsLockInv, StepKeepsLockInv
<1>2. CASE \/ \E f \in File : aesd_open(f) \/ aesd_release(f)
           \/ aesd_init_module
           \/ aesd_cleanup_module
  BY <1>2, ModuleKeepsLockInv
<1>3. CASE UNCHANGED vars
  BY <1>3 DEF vars, LockInv, FrameType, CallsHaveOpenFile, UnloadedIsClosed,
              MutualExclusion
<1> QED
  BY <1>1, <1>2, <1>3 DEF Next

-----------------------------------------------------------------------------

THEOREM LockInvariant == Spec => []LockInv
  BY InitLock, NextKeepsLockInv, PTL DEF Spec

(* For any number of tasks, files and blocks: no two tasks are inside the   *)
(* critical sections of aesd_read, aesd_write, aesd_llseek and aesd_ioctl,  *)
(* across failed calls, unloading and the mutex_init of a reload.           *)
THEOREM MutexExcludes == Spec => []MutualExclusion
<1>1. LockInv => MutualExclusion
  BY DEF LockInv
<1> QED
  BY <1>1, LockInvariant, PTL

(* The module is only unloaded when no task is inside one of its functions. *)
THEOREM NoCallWhileUnloaded ==
  Spec => [](~loaded => \A t \in Task : pc[t] = "user")
<1>1. LockInv => (~loaded => \A t \in Task : pc[t] = "user")
  BY DEF LockInv, CallsHaveOpenFile, UnloadedIsClosed
<1> QED
  BY <1>1, LockInvariant, PTL

-----------------------------------------------------------------------------
(* Calls step by step.                                                      *)

(* The effect of the end of a driver function on the frames.                *)
LEMMA FinishFrame ==
  ASSUME FrameType, NEW t \in Task, NEW ret, NEW pos, NEW got,
         Finish(t, ret, pos, got)
  PROVE  /\ pc' = [pc EXCEPT ![t] = "return"]
         /\ frame'[t].wdata = NULL
         /\ frame'[t].ret = ret
         /\ frame'[t].pos = pos
         /\ frame'[t].got = got
         /\ frame'[t].op = frame[t].op
         /\ frame'[t].file = frame[t].file
         /\ frame'[t].arg = frame[t].arg
         /\ \A u \in Task : u # t => frame'[u] = frame[u] /\ pc'[u] = pc[u]
         /\ pc'[t] = "return"
BY DEF Finish, FrameType, IdleFrame

(* Where the steps of a call belong. *)
OpOf ==
  [find |-> "read", copy |-> "read", append |-> "write", commit |-> "write",
   seek |-> "llseek", seekto |-> "ioctl"]

StepOfCall == \A t \in Task : pc[t] \in Critical => frame[t].op = OpOf[pc[t]]

(* What a step of a call does: it ends the function and unlocks, it fails   *)
(* in aesd_llseek, it goes on within aesd_read or aesd_write, or the call   *)
(* returns.                                                                 *)
LEMMA StepOfTask ==
  ASSUME LockInv, NEW t \in Task, Step(t)
  PROVE  /\ \A u \in Task : u # t => pc'[u] = pc[u] /\ frame'[u] = frame[u]
         /\ \/ /\ pc[t] \in Critical /\ pc'[t] = "return"
               /\ frame'[t].op = frame[t].op
               /\ lock' = Nobody
            \/ /\ pc[t] = "seek" /\ pc'[t] = "return"
               /\ frame'[t].op = frame[t].op
               /\ frame'[t].ret = -EINVAL
            \/ /\ <<pc[t], pc'[t]>> \in {<<"find", "copy">>, <<"append", "commit">>}
               /\ frame'[t].op = frame[t].op
            \/ pc[t] = "return" /\ pc'[t] = "user"
<1> USE DEF LockInv
<1>1. CASE ReadFind(t)
  <2>1. CASE CB!FindEntry(frame[t].pos) = CB!NoEntry
    <3>1. Finish(t, 0, frame[t].pos, << >>) /\ lock' = Nobody /\ pc[t] = "find"
      BY <1>1, <2>1 DEF ReadFind, MutexUnlock
    <3> QED
      BY <3>1, FinishFrame DEF Critical
  <2>2. CASE CB!FindEntry(frame[t].pos) # CB!NoEntry
    <3>1. /\ pc[t] = "find"
          /\ pc' = [pc EXCEPT ![t] = "copy"]
          /\ frame' = [frame EXCEPT ![t].found = CB!FindEntry(frame[t].pos)]
      BY <1>1, <2>2 DEF ReadFind
    <3> QED
      BY <3>1 DEF FrameType, IdleFrame
  <2> QED
    BY <2>1, <2>2
<1>2. CASE ReadCopy(t)
  <2>1. lock' = Nobody /\ pc[t] = "copy" /\ \E ret, pos, got : Finish(t, ret, pos, got)
    BY <1>2 DEF ReadCopy, MutexUnlock
  <2> QED
    BY <2>1, FinishFrame DEF Critical
<1>3. CASE WriteAppend(t)
  <2>1. CASE full_packet(heap[frame[t].wdata])
    <3>1. /\ pc[t] = "append"
          /\ pc' = [pc EXCEPT ![t] = "commit"]
          /\ frame' = [frame EXCEPT ![t].ret = Len(Chunk(heap[frame[t].wdata]))]
      BY <1>3, <2>1 DEF WriteAppend
    <3> QED
      BY <3>1 DEF FrameType, IdleFrame
  <2>2. CASE ~full_packet(heap[frame[t].wdata])
    <3>1. pc[t] = "append" /\ WriteFinish(t, Len(Chunk(heap[frame[t].wdata])))
      BY <1>3, <2>2 DEF WriteAppend
    <3> QED
      BY <3>1, FinishFrame DEF WriteFinish, MutexUnlock, Critical
  <2> QED
    BY <2>1, <2>2
<1>4. CASE WriteNoMemory(t)
  BY <1>4, FinishFrame DEF WriteNoMemory, WriteFinish, MutexUnlock, Critical
<1>5. CASE WriteCommit(t)
  BY <1>5, FinishFrame DEF WriteCommit, WriteFinish, MutexUnlock, Critical
<1>6. CASE SeekBody(t)
  <2> DEFINE new_pos == fixed_size_llseek(f_pos[frame[t].file], frame[t].arg)
  <2>1. pc[t] = "seek"
    BY <1>6 DEF SeekBody
  <2>2. CASE new_pos < 0
    <3>1. Finish(t, -EINVAL, 0, << >>)
      BY <1>6, <2>2 DEF SeekBody
    <3> QED
      BY <2>1, <3>1, FinishFrame
  <2>3. CASE ~(new_pos < 0)
    <3>1. Finish(t, new_pos, 0, << >>) /\ lock' = Nobody
      BY <1>6, <2>3 DEF SeekBody, MutexUnlock
    <3> QED
      BY <2>1, <3>1, FinishFrame DEF Critical
  <2> QED
    BY <2>2, <2>3
<1>7. CASE SeekToBody(t)
  <2>1. lock' = Nobody /\ pc[t] = "seekto" /\ \E ret, pos, got : Finish(t, ret, pos, got)
    BY <1>7 DEF SeekToBody, MutexUnlock
  <2> QED
    BY <2>1, FinishFrame DEF Critical
<1>8. CASE SysReturn(t)
  BY <1>8 DEF SysReturn, FrameType
<1> QED
  BY <1>1, <1>2, <1>3, <1>4, <1>5, <1>6, <1>7, <1>8 DEF Step

(* What every other step does to the tasks. *)
LEMMA StepOfNoTask ==
  ASSUME LockInv, Next
  PROVE  \/ \E t \in Task : Step(t)
         \/ \E t \in Task :
              /\ \A u \in Task : u # t => pc'[u] = pc[u] /\ frame'[u] = frame[u]
              /\ \/ pc[t] = "user" /\ pc'[t] \in {"lock", "return"}
                 \/ pc[t] = "lock" /\ pc'[t] = FirstStep[frame[t].op] /\ frame' = frame
         \/ UNCHANGED <<pc, frame>>
<1>1. ASSUME NEW t \in Task, Enter(t)
      PROVE  /\ \A u \in Task : u # t => pc'[u] = pc[u] /\ frame'[u] = frame[u]
             /\ pc[t] = "user" /\ pc'[t] \in {"lock", "return"}
  <2> DEFINE Called ==
        /\ \A u \in Task : u # t => pc'[u] = pc[u] /\ frame'[u] = frame[u]
        /\ pc[t] = "user" /\ pc'[t] \in {"lock", "return"}
  <2>1. ASSUME NEW f, NEW op, NEW arg, NEW step \in {"lock", "return"},
               NEW wdata, NEW ret, Call(t, f, op, arg, step, wdata, ret)
        PROVE  Called
    BY <2>1 DEF Call, LockInv, FrameType
  <2> HIDE DEF Called
  <2>2. PICK f \in File : ReadEnter(t, f) \/ WriteEnter(t, f)
                             \/ SeekEnter(t, f) \/ IoctlEnter(t, f)
    BY <1>1 DEF Enter
  <2>3. ReadEnter(t, f) => Called
    BY <2>1 DEF ReadEnter
  <2>4. WriteEnter(t, f) => Called
    BY <2>1 DEF WriteEnter
  <2>5. SeekEnter(t, f) => Called
    BY <2>1 DEF SeekEnter
  <2>6. IoctlEnter(t, f) => Called
    BY <2>1 DEF IoctlEnter
  <2>7. Called
    BY <2>2, <2>3, <2>4, <2>5, <2>6
  <2> QED
    BY <2>7 DEF Called
<1>2. ASSUME NEW t \in Task, MutexLock(t)
      PROVE  /\ \A u \in Task : u # t => pc'[u] = pc[u] /\ frame'[u] = frame[u]
             /\ pc[t] = "lock" /\ pc'[t] = FirstStep[frame[t].op] /\ frame' = frame
  BY <1>2 DEF MutexLock, LockInv, FrameType
<1>3. CASE \/ \E f \in File : aesd_open(f) \/ aesd_release(f)
           \/ aesd_init_module
           \/ aesd_cleanup_module
  BY <1>3 DEF aesd_open, aesd_release, aesd_init_module, aesd_cleanup_module
<1> QED
  BY <1>1, <1>2, <1>3 DEF Next

LEMMA NextKeepsStepOfCall == LockInv /\ StepOfCall /\ [Next]_vars => StepOfCall'
<1> SUFFICES ASSUME LockInv, StepOfCall, [Next]_vars PROVE StepOfCall'
  OBVIOUS
<1>1. CASE UNCHANGED <<pc, frame>>
  BY <1>1 DEF StepOfCall
<1>2. ASSUME NEW t \in Task, Step(t) PROVE StepOfCall'
  BY <1>2, StepOfTask DEF StepOfCall, Critical, OpOf
<1>3. ASSUME NEW t \in Task,
             \A u \in Task : u # t => pc'[u] = pc[u] /\ frame'[u] = frame[u],
             \/ pc[t] = "user" /\ pc'[t] \in {"lock", "return"}
             \/ pc[t] = "lock" /\ pc'[t] = FirstStep[frame[t].op] /\ frame' = frame
      PROVE StepOfCall'
  <2>1. pc[t] = "lock" => frame[t].op \in DOMAIN FirstStep
    BY DEF LockInv, FrameType
  <2>2. pc'[t] \in Critical => frame'[t].op = OpOf[pc'[t]]
    BY <1>3, <2>1 DEF Critical, OpOf, FirstStep
  <2> QED
    BY <1>3, <2>2 DEF StepOfCall
<1>4. CASE UNCHANGED vars
  BY <1>4 DEF vars, StepOfCall
<1> QED
  BY <1>1, <1>2, <1>3, <1>4, StepOfNoTask

THEOREM StepOfCallInvariant == Spec => []StepOfCall
<1>1. Init => StepOfCall
  BY DEF Init, StepOfCall, Critical
<1> QED
  BY <1>1, NextKeepsStepOfCall, LockInvariant, PTL DEF Spec

(* On every path out of a driver function, for any number of tasks, the     *)
(* mutex is released -- with the one exception of a failing aesd_llseek.    *)
THEOREM OnlyFailedSeekKeepsLock == Spec => LockKeptOnlyByFailedSeek
<1> DEFINE A ==
      \A t \in Task :
        pc[t] \in Critical /\ pc'[t] = "return" /\ lock' = t =>
          frame[t].op = "llseek" /\ frame'[t].ret = -EINVAL
<1>1. LockInv /\ StepOfCall /\ [Next]_vars => [A]_vars
  <2> SUFFICES ASSUME LockInv, StepOfCall, Next,
                      NEW t \in Task, pc[t] \in Critical, pc'[t] = "return", lock' = t
               PROVE  frame[t].op = "llseek" /\ frame'[t].ret = -EINVAL
    OBVIOUS
  <2>1. Step(t)
    BY StepOfTask, StepOfNoTask DEF Critical
  <2>2. pc[t] = "seek" /\ frame'[t].ret = -EINVAL
    BY <2>1, StepOfTask, AesdCharAssumption DEF Critical
  <2> QED
    BY <2>2 DEF StepOfCall, Critical, OpOf
<1> QED
  BY <1>1, LockInvariant, StepOfCallInvariant, PTL DEF Spec, LockKeptOnlyByFailedSeek

-----------------------------------------------------------------------------
(* The ring, which the driver instantiates, keeps the invariant proved of   *)
(* it in CircularBufferProofs.                                              *)
RingInv ==
  /\ CB!TypeOK
  /\ full  => in_offs = out_offs
  /\ ~full => out_offs = 0
  /\ \A i \in CB!Slots : (entry[i] # CB!EmptyEntry) <=> (full \/ i < in_offs)

LEMMA RingInvSame == RingInv <=> P!RingInv
BY DEF RingInv, P!RingInv, P!TypeOK, CB!TypeOK, P!FillsFromZero, P!Slots, CB!Slots,
       P!EmptyEntry, CB!EmptyEntry, P!Entries, CB!Entries

LEMMA EmptyRing == CB!Init => RingInv
<1>1. CB!Init => P!Init
  BY DEF CB!Init, P!Init, P!Slots, CB!Slots, P!EmptyEntry, CB!EmptyEntry
<1> QED
  BY <1>1, P!RingInvInit, RingInvSame, AesdCharAssumption

LEMMA AddKeepsRing ==
  ASSUME RingInv, NEW e \in CB!Entries, CB!aesd_circular_buffer_add_entry(e)
  PROVE  RingInv'
<1>1. P!RingInv
  BY RingInvSame
<1>2. P!aesd_circular_buffer_add_entry(e) /\ e \in P!Entries
  BY DEF CB!aesd_circular_buffer_add_entry, P!aesd_circular_buffer_add_entry, CB!Entries, P!Entries,
     CB!NextSlot, P!NextSlot, CB!SizeAfterAdd, P!SizeAfterAdd, CB!OldestAfterAdd, P!OldestAfterAdd,
     CB!FullAfterAdd, P!FullAfterAdd
<1>3. P!RingInv'
  BY <1>1, <1>2, P!AddKeepsRingInv, AesdCharAssumption
<1>4. (RingInv <=> P!RingInv)'
  BY RingInvSame, PTL
<1> QED
  BY <1>3, <1>4

-----------------------------------------------------------------------------
(* What memory can hold. *)
Byte == {JUNK} \cup UNION {ToSet(d) : d \in UserData}

(* The state has the shape the operators expect; RingInv is the invariant   *)
(* of the ring on its own.                                                  *)
DeviceType ==
  /\ RingInv
  /\ dev_buffer \in Block \cup {NULL}
  /\ buffer_size \in Nat
  /\ heap \in [Block -> Seq(Byte) \cup {FREE}]

(* Where a call owns its write_data. *)
Writing(t) == frame[t].op = "write" /\ pc[t] \in {"lock", "append", "commit"}

(* aesd_write, and nobody else, has a block of user data of its own.        *)
WriteData ==
  /\ \A t \in Task :
       /\ Writing(t) => frame[t].wdata \in Block /\ heap[frame[t].wdata] \in UserData
       /\ ~Writing(t) => frame[t].wdata = NULL
       /\ pc[t] \in {"append", "commit"} => frame[t].op = "write"
  /\ \A t, u \in Task :
       t # u /\ Writing(t) /\ Writing(u) => frame[t].wdata # frame[u].wdata

Holds(b, n) == heap[b] \in Seq(Byte) /\ Len(heap[b]) = n
InRing(i)   == entry[i] # CB!EmptyEntry
HasPending  == buffer_size > 0 /\ dev_buffer # NULL

(* The blocks of the ring and the pending block hold as much as the device  *)
(* says, and no two owners have the same block.                             *)
DeviceBlocks ==
  /\ \A i \in CB!Slots : InRing(i) => Holds(entry[i].buffptr, entry[i].size)
  /\ \A i, j \in CB!Slots :
       i # j /\ InRing(i) /\ InRing(j) => entry[i].buffptr # entry[j].buffptr
  /\ HasPending =>
       /\ Holds(dev_buffer, buffer_size)
       /\ \A i \in CB!Slots : InRing(i) => entry[i].buffptr # dev_buffer
  /\ \A t \in Task : Writing(t) =>
       /\ HasPending => frame[t].wdata # dev_buffer
       /\ \A i \in CB!Slots : InRing(i) => entry[i].buffptr # frame[t].wdata

(* A complete command is there to be committed. *)
CommitReady == \A t \in Task : pc[t] = "commit" => HasPending

(* The inductive strengthening of HeapOwnership. *)
HeapInv ==
  /\ LockInv
  /\ DeviceType
  /\ WriteData
  /\ loaded => DeviceBlocks
  /\ CommitReady

-----------------------------------------------------------------------------
(* Operators on byte strings.                                               *)

(* A set of natural numbers has a smallest element. *)
LEMMA NatMin ==
  ASSUME NEW T, T \subseteq Nat, T # {}
  PROVE  \E x \in T : \A y \in T : x <= y
BY P!NatMin, AesdCharAssumption

LEMMA UserBytes ==
  ASSUME NEW d \in UserData
  PROVE  d \in Seq(Byte) /\ d # << >> /\ Len(d) \in Nat \ {0} /\ DOMAIN d = 1 .. Len(d)
<1>1. d \in Seq(UNION {ToSet(e) : e \in UserData}) /\ d # << >>
  BY AesdCharAssumption
<1>2. UNION {ToSet(e) : e \in UserData} \subseteq Byte
  BY DEF Byte
<1>3. d \in Seq(Byte)
  BY <1>1, <1>2, SeqMonotonic
<1> QED
  BY <1>1, <1>3, EmptySeq, LenProperties

(* What a write takes of its data: something, and no more than there is.    *)
LEMMA ChunkOfData ==
  ASSUME NEW d \in UserData
  PROVE  /\ Chunk(d) \in Seq(Byte)
         /\ Len(Chunk(d)) \in 1 .. Len(d)
         /\ \A i \in 1 .. Len(Chunk(d)) : Chunk(d)[i] = d[i]
         /\ (Chunk(d)[Len(Chunk(d))] = NL) <=> full_packet(d)
<1>1. d \in Seq(Byte) /\ Len(d) \in Nat \ {0} /\ DOMAIN d = 1 .. Len(d)
  BY UserBytes
<1>2. CASE full_packet(d)
  <2> DEFINE first == CHOOSE i \in Newlines(d) : \A j \in Newlines(d) : i <= j
  <2>1. Newlines(d) \subseteq 1 .. Len(d) /\ Newlines(d) # {}
    BY <1>1, <1>2 DEF Newlines, full_packet
  <2>2. Newlines(d) \subseteq Nat
    BY <1>1, <2>1
  <2>3. first \in Newlines(d)
    BY <2>1, <2>2, NatMin
  <2>4. first \in 1 .. Len(d) /\ d[first] = NL
    BY <2>1, <2>3 DEF Newlines
  <2> HIDE DEF first
  <2>5. \A i \in 1 .. first : d[i] \in Byte
    BY <1>1, <2>4, ElementOfSeq
  <2>6. /\ SubSeq(d, 1, first) \in Seq(Byte)
        /\ Len(SubSeq(d, 1, first)) = first
        /\ \A i \in 1 .. first : SubSeq(d, 1, first)[i] = d[i]
    BY <1>1, <2>4, <2>5, SubSeqProperties
  <2>7. Chunk(d) = SubSeq(d, 1, first)
    BY <1>2 DEF Chunk, first
  <2> QED
    BY <1>1, <1>2, <2>4, <2>6, <2>7
<1>3. CASE ~full_packet(d)
  <2>1. Chunk(d) = d
    BY <1>3 DEF Chunk
  <2>2. d[Len(d)] # NL
    BY <1>1, <1>3 DEF full_packet, Newlines
  <2> QED
    BY <1>1, <1>3, <2>1, <2>2
<1> QED
  BY <1>2, <1>3

-----------------------------------------------------------------------------
(* What the device holds.                                                   *)

LEMMA FreeIsNoContent == FREE \notin Seq(Byte) /\ FREE \notin UserData
BY AesdCharAssumption, UserBytes DEF Byte

(* A task that is inside a function finds the driver loaded.                *)
LEMMA LoadedInCall ==
  ASSUME LockInv, NEW t \in Task, pc[t] # "user"
  PROVE  loaded
BY DEF LockInv, CallsHaveOpenFile, UnloadedIsClosed

(* The pending command is as long as buffer_size, junk or not.              *)
LEMMA PendingLength ==
  ASSUME DeviceType, DeviceBlocks
  PROVE  Pending \in Seq(Byte) /\ Len(Pending) = buffer_size
<1>1. CASE buffer_size = 0
  BY <1>1, EmptySeq DEF Pending
<1>2. CASE buffer_size > 0 /\ dev_buffer = NULL
  <2>1. buffer_size \in Nat /\ Pending = [i \in 1 .. buffer_size |-> JUNK]
    BY <1>2 DEF Pending, DeviceType
  <2>2. JUNK \in Byte
    BY DEF Byte
  <2>3. Pending \in [1 .. buffer_size -> Byte]
    BY <2>1, <2>2
  <2>4. Pending \in Seq(Byte)
    BY <2>1, <2>3, SeqDef
  <2> QED
    BY <2>1, <2>3, <2>4, LenProperties
<1>3. CASE HasPending
  BY <1>3 DEF HasPending, Pending, DeviceBlocks, Holds
<1> QED
  BY <1>1, <1>2, <1>3 DEF DeviceType, HasPending

(* Where the appended command goes: to a block nobody else has.             *)
LEMMA TargetIsOwn ==
  ASSUME HeapInv, loaded, NEW b \in Targets
  PROVE  /\ b \in Block
         /\ heap[b] = FREE \/ (HasPending /\ b = dev_buffer)
         /\ \A i \in CB!Slots : InRing(i) => entry[i].buffptr # b
         /\ \A t \in Task : Writing(t) => frame[t].wdata # b
<1>1. /\ b \in Block
      /\ heap[b] = FREE \/ (HasPending /\ b = dev_buffer)
  BY DEF Targets, FreeBlocks, HasPending, HeapInv, DeviceType
<1>2. CASE heap[b] = FREE
  <2>1. \A i \in CB!Slots : InRing(i) => entry[i].buffptr # b
    BY <1>2, FreeIsNoContent DEF HeapInv, DeviceBlocks, Holds
  <2>2. \A t \in Task : Writing(t) => frame[t].wdata # b
    BY <1>2, FreeIsNoContent DEF HeapInv, WriteData
  <2> QED
    BY <1>1, <2>1, <2>2
<1>3. CASE HasPending /\ b = dev_buffer
  BY <1>1, <1>3 DEF HeapInv, DeviceBlocks
<1> QED
  BY <1>1, <1>2, <1>3

(* What krealloc and the copy make of the heap: the target holds the longer *)
(* command, no block but the old pending one changes otherwise.             *)
LEMMA AppendToHeap ==
  ASSUME HeapInv, loaded, NEW b \in Targets,
         NEW t \in Task, Writing(t)
  PROVE  LET h == HeapAfterAppend(t, b)
             n == Len(Chunk(heap[frame[t].wdata]))
         IN  /\ n \in Nat \ {0}
             /\ h \in [Block -> Seq(Byte) \cup {FREE}]
             /\ h[b] \in Seq(Byte) /\ Len(h[b]) = buffer_size + n
             /\ h[b] = Pending \o Chunk(heap[frame[t].wdata])
             /\ \A x \in Block :
                  x # b /\ ~(HasPending /\ x = dev_buffer) => h[x] = heap[x]
<1> DEFINE h    == HeapAfterAppend(t, b)
           c    == Chunk(heap[frame[t].wdata])
           cmd  == Pending \o c
<1>1. heap[frame[t].wdata] \in UserData
  BY DEF HeapInv, WriteData
<1>2. c \in Seq(Byte) /\ Len(c) \in Nat \ {0}
  <2>1. Len(heap[frame[t].wdata]) \in Nat
    BY <1>1, UserBytes
  <2> QED
    BY <1>1, <2>1, ChunkOfData
<1>3. Pending \in Seq(Byte) /\ Len(Pending) = buffer_size
  BY PendingLength DEF HeapInv
<1>4. cmd \in Seq(Byte) /\ Len(cmd) = buffer_size + Len(c)
  <2> HIDE DEF c
  <2> QED
    BY <1>2, <1>3, ConcatProperties
<1>5. b \in Block /\ heap \in [Block -> Seq(Byte) \cup {FREE}]
      /\ buffer_size \in Nat /\ dev_buffer \in Block \cup {NULL}
  BY TargetIsOwn DEF HeapInv, DeviceType
<1>6. h = [x \in Block |->
             IF x = b THEN cmd
             ELSE IF x = (IF buffer_size > 0 THEN dev_buffer ELSE NULL) THEN FREE
             ELSE heap[x]]
  BY DEF HeapAfterAppend
<1> HIDE DEF h, cmd, c
<1>7. h \in [Block -> Seq(Byte) \cup {FREE}] /\ h[b] = cmd
  BY <1>4, <1>5, <1>6
<1>8. \A x \in Block :
        x # b /\ ~(HasPending /\ x = dev_buffer) => h[x] = heap[x]
  BY <1>5, <1>6, AesdCharAssumption DEF HasPending
<1> QED
  BY <1>2, <1>4, <1>7, <1>8 DEF h, c, cmd

-----------------------------------------------------------------------------
(* A step that leaves memory alone, and every write_data with its writer.   *)
LEMMA HeapAlone ==
  ASSUME HeapInv, LockInv', UNCHANGED <<dev, heap, loaded>>,
         \A u \in Task :
           /\ Writing(u)' <=> Writing(u)
           /\ frame'[u].wdata = frame[u].wdata
           /\ pc'[u] = "commit" => pc[u] = "commit"
           /\ pc'[u] \in {"append", "commit"} => frame'[u].op = "write"
  PROVE  HeapInv'
<1>1. DeviceType'
  BY DEF HeapInv, DeviceType, RingInv, CB!TypeOK, dev, ring
<1>2. WriteData'
  BY DEF HeapInv, WriteData
<1>3. (loaded => DeviceBlocks)'
  BY DEF HeapInv, DeviceBlocks, HasPending, InRing, Holds, dev, ring
<1>4. CommitReady'
  BY DEF HeapInv, CommitReady, HasPending, dev
<1> QED
  BY <1>1, <1>2, <1>3, <1>4 DEF HeapInv

(* The end of a function other than aesd_write.                             *)
LEMMA OtherFinish ==
  ASSUME HeapInv, LockInv', UNCHANGED <<dev, heap, loaded>>,
         NEW t \in Task, NEW ret, NEW pos, NEW got,
         pc[t] \in {"find", "copy", "seek", "seekto"}, Finish(t, ret, pos, got)
  PROVE  HeapInv'
<1>1. FrameType
  BY DEF HeapInv, LockInv
<1>2. /\ frame'[t].wdata = NULL /\ frame[t].wdata = NULL
      /\ pc'[t] = "return"
      /\ \A u \in Task : u # t => frame'[u] = frame[u] /\ pc'[u] = pc[u]
  BY <1>1, FinishFrame DEF HeapInv, WriteData, Writing
<1>3. \A u \in Task :
           /\ Writing(u)' <=> Writing(u)
           /\ frame'[u].wdata = frame[u].wdata
           /\ pc'[u] = "commit" => pc[u] = "commit"
           /\ pc'[u] \in {"append", "commit"} => frame'[u].op = "write"
  BY <1>2 DEF HeapInv, WriteData, Writing
<1> QED
  BY <1>3, HeapAlone

-----------------------------------------------------------------------------
(* aesd_write.                                                              *)

(* Inside the write of t nobody else is about to commit. *)
LEMMA SoleWriter ==
  ASSUME HeapInv, NEW t \in Task, pc[t] \in {"append", "commit"}
  PROVE  /\ Writing(t)
         /\ frame[t].wdata \in Block
         /\ loaded
         /\ \A u \in Task : u # t => pc[u] \notin {"append", "commit"}
BY LoadedInCall DEF HeapInv, WriteData, Writing, LockInv, MutualExclusion, Critical

(* The write ends and frees write_data; lost is what else may have changed  *)
(* on the heap, where nobody but the device had a block.                    *)
LEMMA WriteEnds ==
  ASSUME HeapInv, LockInv', UNCHANGED loaded, NEW t \in Task,
         pc[t] \in {"append", "commit"}, NEW ret, WriteFinish(t, ret),
         DeviceType', loaded => DeviceBlocks',
         \A u \in Task : u # t /\ Writing(u) => heap'[frame[u].wdata] = heap[frame[u].wdata]
  PROVE  HeapInv'
<1>1. /\ frame'[t].wdata = NULL
      /\ pc'[t] = "return"
      /\ \A u \in Task : u # t => frame'[u] = frame[u] /\ pc'[u] = pc[u]
  BY FinishFrame DEF HeapInv, LockInv, WriteFinish
<1>2. WriteData'
  BY <1>1 DEF HeapInv, WriteData, Writing
<1>3. \A u \in Task : pc'[u] # "commit"
  BY <1>1, SoleWriter
<1> QED
  BY <1>2, <1>3 DEF HeapInv, CommitReady

LEMMA WriteEnterKeepsHeapInv ==
  ASSUME HeapInv, LockInv', NEW t \in Task, NEW f \in File, WriteEnter(t, f)
  PROVE  HeapInv'
<1>1. CASE \E data \in UserData : \E b \in FreeBlocks :
             /\ Call(t, f, "write", NULL, "lock", b, 0)
             /\ heap' = [heap EXCEPT ![b] = data]
  <2>1. PICK data \in UserData, b \in FreeBlocks :
             /\ Call(t, f, "write", NULL, "lock", b, 0)
             /\ heap' = [heap EXCEPT ![b] = data]
    BY <1>1
  <2>2. /\ b \in Block /\ heap[b] = FREE
        /\ data \in Seq(Byte)
    BY UserBytes DEF FreeBlocks
  <2>3. /\ pc[t] = "user" /\ pc'[t] = "lock"
        /\ frame'[t].op = "write" /\ frame'[t].wdata = b
        /\ \A u \in Task : u # t => frame'[u] = frame[u] /\ pc'[u] = pc[u]
        /\ UNCHANGED <<dev, loaded>>
    BY <2>1 DEF Call, IdleFrame, HeapInv, LockInv, FrameType
  <2>4. UNCHANGED <<ring, entry, dev_buffer, buffer_size>>
    BY <2>3 DEF dev, ring
  <2>5. /\ heap' \in [Block -> Seq(Byte) \cup {FREE}]
        /\ heap'[b] = data
        /\ \A x \in Block : x # b => heap'[x] = heap[x]
    BY <2>1, <2>2 DEF HeapInv, DeviceType
  <2>6. DeviceType'
    BY <2>4, <2>5 DEF HeapInv, DeviceType, RingInv, CB!TypeOK, ring
  <2>7. \A u \in Task : Writing(u) => frame[u].wdata # b
    BY <2>2, FreeIsNoContent DEF HeapInv, WriteData
  <2>8. \A u \in Task : Writing(u)' <=> Writing(u) \/ u = t
    BY <2>3 DEF Writing
  <2>9. WriteData'
    <3>1. \A u \in Task :
            /\ Writing(u)' => frame'[u].wdata \in Block /\ heap'[frame'[u].wdata] \in UserData
            /\ ~Writing(u)' => frame'[u].wdata = NULL
            /\ pc'[u] \in {"append", "commit"} => frame'[u].op = "write"
      BY <2>2, <2>3, <2>5, <2>7, <2>8 DEF HeapInv, WriteData
    <3>2. \A u, v \in Task :
            u # v /\ Writing(u)' /\ Writing(v)' => frame'[u].wdata # frame'[v].wdata
      BY <2>3, <2>7, <2>8 DEF HeapInv, WriteData
    <3> QED
      BY <3>1, <3>2 DEF WriteData
  <2>10. loaded /\ DeviceBlocks => DeviceBlocks'
    <3> SUFFICES ASSUME DeviceBlocks PROVE DeviceBlocks'
      OBVIOUS
    <3> USE DEF InRing, Holds, HasPending
    <3>1. \A i \in CB!Slots : InRing(i) => entry[i].buffptr # b
      BY <2>2, FreeIsNoContent DEF DeviceBlocks
    <3>2. \A i \in CB!Slots : InRing(i) => entry[i].buffptr \in Block
      BY DEF HeapInv, DeviceType, RingInv, CB!TypeOK, CB!Entries
    <3>3. HasPending => dev_buffer # b /\ dev_buffer \in Block
      BY <2>2, FreeIsNoContent DEF DeviceBlocks, HeapInv, DeviceType
    <3>4. /\ \A i \in CB!Slots : InRing(i)' => Holds(entry[i].buffptr, entry[i].size)'
          /\ HasPending' => Holds(dev_buffer, buffer_size)'
      BY <2>4, <2>5, <3>1, <3>2, <3>3 DEF DeviceBlocks
    <3>5. \A u \in Task : Writing(u)' =>
            /\ HasPending' => frame'[u].wdata # dev_buffer'
            /\ \A i \in CB!Slots : InRing(i)' => entry'[i].buffptr # frame'[u].wdata
      BY <2>3, <2>4, <2>8, <3>1, <3>3 DEF DeviceBlocks
    <3> QED
      BY <2>4, <3>4, <3>5 DEF DeviceBlocks
  <2>11. CommitReady'
    BY <2>3, <2>4 DEF HeapInv, CommitReady, HasPending
  <2> QED
    BY <2>3, <2>6, <2>9, <2>10, <2>11 DEF HeapInv
<1>2. CASE \E err \in {ENOMEM, EFAULT} :
             /\ Call(t, f, "write", NULL, "return", NULL, -err)
             /\ UNCHANGED heap
  <2>1. PICK err \in {ENOMEM, EFAULT} : Call(t, f, "write", NULL, "return", NULL, -err)
    BY <1>2
  <2>2. /\ pc[t] = "user" /\ pc'[t] = "return" /\ frame'[t].wdata = NULL
        /\ frame[t].wdata = NULL
        /\ \A u \in Task : u # t => frame'[u] = frame[u] /\ pc'[u] = pc[u]
        /\ UNCHANGED <<dev, loaded, heap>>
    BY <1>2, <2>1 DEF Call, IdleFrame, HeapInv, LockInv, FrameType, WriteData, Writing
  <2>3. \A u \in Task :
           /\ Writing(u)' <=> Writing(u)
           /\ frame'[u].wdata = frame[u].wdata
           /\ pc'[u] = "commit" => pc[u] = "commit"
           /\ pc'[u] \in {"append", "commit"} => frame'[u].op = "write"
    BY <2>2 DEF HeapInv, WriteData, Writing
  <2> QED
    BY <2>2, <2>3, HeapAlone
<1> QED
  BY <1>1, <1>2 DEF WriteEnter

LEMMA WriteAppendKeepsHeapInv ==
  ASSUME HeapInv, LockInv', NEW t \in Task, WriteAppend(t)
  PROVE  HeapInv'
<1> DEFINE wd == frame[t].wdata
           n  == Len(Chunk(heap[wd]))
<1>1. /\ pc[t] = "append" /\ Writing(t) /\ wd \in Block /\ loaded
      /\ UNCHANGED <<ring, loaded>>
  BY SoleWriter DEF WriteAppend
<1>2. UNCHANGED <<entry, in_offs, out_offs, full, size>>
  BY <1>1 DEF ring
<1>3. PICK b \in Targets :
        /\ dev_buffer' = b
        /\ buffer_size' = buffer_size + n
        /\ IF full_packet(heap[wd])
           THEN /\ heap' = HeapAfterAppend(t, b)
                /\ pc' = [pc EXCEPT ![t] = "commit"]
                /\ frame' = [frame EXCEPT ![t].ret = n]
           ELSE /\ heap' = [HeapAfterAppend(t, b) EXCEPT ![wd] = FREE]
                /\ WriteFinish(t, n)
  BY DEF WriteAppend
<1> DEFINE h == HeapAfterAppend(t, b)
<1>4. /\ b \in Block
      /\ \A i \in CB!Slots : InRing(i) => entry[i].buffptr # b
      /\ \A u \in Task : Writing(u) => frame[u].wdata # b
  BY <1>1, TargetIsOwn
<1>5. /\ n \in Nat \ {0}
      /\ h \in [Block -> Seq(Byte) \cup {FREE}]
      /\ h[b] \in Seq(Byte) /\ Len(h[b]) = buffer_size + n
      /\ \A x \in Block :
           x # b /\ ~(HasPending /\ x = dev_buffer) => h[x] = heap[x]
  BY <1>1, AppendToHeap
<1>6. buffer_size \in Nat /\ buffer_size' \in Nat /\ buffer_size' > 0
      /\ dev_buffer' # NULL
  <2>1. buffer_size \in Nat /\ b # NULL
    BY <1>4, AesdCharAssumption DEF HeapInv, DeviceType
  <2> HIDE DEF n
  <2> QED
    BY <1>3, <1>5, <2>1
<1> HIDE DEF h, n
<1>7. /\ \A i \in CB!Slots : InRing(i) =>
           entry[i].buffptr \in Block /\ h[entry[i].buffptr] = heap[entry[i].buffptr]
      /\ \A u \in Task : Writing(u) =>
           frame[u].wdata \in Block /\ h[frame[u].wdata] = heap[frame[u].wdata]
  <2>1. \A i \in CB!Slots : InRing(i) => entry[i].buffptr \in Block
    BY DEF HeapInv, DeviceType, RingInv, CB!TypeOK, CB!Entries, InRing
  <2>2. \A u \in Task : Writing(u) => frame[u].wdata \in Block
    BY DEF HeapInv, WriteData
  <2> QED
    BY <1>1, <1>4, <1>5, <2>1, <2>2 DEF HeapInv, DeviceBlocks
<1>8. wd # b /\ \A i \in CB!Slots : InRing(i) => entry[i].buffptr # wd
  BY <1>1, <1>4 DEF HeapInv, DeviceBlocks
<1>9. CASE full_packet(heap[wd])
  <2>1. heap' = h /\ pc' = [pc EXCEPT ![t] = "commit"] /\ frame' = [frame EXCEPT ![t].ret = n]
    BY <1>3, <1>9 DEF h
  <2>2. /\ frame'[t].wdata = wd /\ frame'[t].op = frame[t].op /\ pc'[t] = "commit"
        /\ \A u \in Task : u # t => frame'[u] = frame[u] /\ pc'[u] = pc[u]
    BY <2>1 DEF HeapInv, LockInv, FrameType, IdleFrame
  <2>3. DeviceType'
    BY <1>2, <1>3, <1>4, <1>5, <1>6, <2>1 DEF HeapInv, DeviceType, RingInv, CB!TypeOK
  <2>4. \A u \in Task :
          /\ Writing(u)' <=> Writing(u)
          /\ frame'[u].wdata = frame[u].wdata
    BY <1>1, <2>2 DEF Writing
  <2>5. WriteData'
    <3>1. \A u \in Task : pc'[u] \in {"append", "commit"} => frame'[u].op = "write"
      BY <1>1, <2>2 DEF HeapInv, WriteData, Writing
    <3> QED
      BY <1>7, <2>1, <2>4, <3>1 DEF HeapInv, WriteData
  <2>6. DeviceBlocks'
    <3>1. \A i \in CB!Slots : InRing(i)' => Holds(entry[i].buffptr, entry[i].size)'
      BY <1>1, <1>2, <1>7, <2>1 DEF HeapInv, DeviceBlocks, InRing, Holds
    <3>2. \A i, j \in CB!Slots :
             i # j /\ InRing(i)' /\ InRing(j)' => entry'[i].buffptr # entry'[j].buffptr
      BY <1>1, <1>2 DEF HeapInv, DeviceBlocks, InRing
    <3>3. Holds(dev_buffer, buffer_size)'
      BY <1>3, <1>5, <2>1 DEF Holds
    <3>4. \A i \in CB!Slots : InRing(i)' => entry'[i].buffptr # dev_buffer'
      BY <1>2, <1>3, <1>4 DEF InRing
    <3>5. \A u \in Task : Writing(u)' =>
            /\ frame'[u].wdata # dev_buffer'
            /\ \A i \in CB!Slots : InRing(i)' => entry'[i].buffptr # frame'[u].wdata
      BY <1>1, <1>2, <1>3, <1>4, <2>4 DEF HeapInv, DeviceBlocks, InRing
    <3> QED
      BY <3>1, <3>2, <3>3, <3>4, <3>5 DEF DeviceBlocks
  <2>7. CommitReady'
    BY <1>6 DEF CommitReady, HasPending
  <2> QED
    BY <2>3, <2>5, <2>6, <2>7 DEF HeapInv
<1>10. CASE ~full_packet(heap[wd])
  <2>1. heap' = [h EXCEPT ![wd] = FREE] /\ WriteFinish(t, n)
    BY <1>3, <1>10 DEF h
  <2>2. /\ frame'[t].wdata = NULL /\ pc'[t] = "return"
        /\ \A u \in Task : u # t => frame'[u] = frame[u] /\ pc'[u] = pc[u]
    BY <2>1, FinishFrame DEF HeapInv, LockInv, WriteFinish
  <2>3. /\ heap' \in [Block -> Seq(Byte) \cup {FREE}]
        /\ \A x \in Block : x # wd => heap'[x] = h[x]
    BY <1>1, <1>5, <2>1
  <2>4. DeviceType'
    BY <1>2, <1>3, <1>4, <1>6, <2>3 DEF HeapInv, DeviceType, RingInv, CB!TypeOK
  <2>5. \A u \in Task : Writing(u)' => u # t /\ Writing(u) /\ frame'[u] = frame[u]
    BY <2>2 DEF Writing
  <2>6. \A u \in Task : u # t /\ Writing(u) => heap'[frame[u].wdata] = heap[frame[u].wdata]
    BY <1>1, <1>7, <2>3 DEF HeapInv, WriteData
  <2>7. DeviceBlocks'
    <3>1. \A i \in CB!Slots : InRing(i)' => Holds(entry[i].buffptr, entry[i].size)'
      BY <1>1, <1>2, <1>7, <1>8, <2>3 DEF HeapInv, DeviceBlocks, InRing, Holds
    <3>2. \A i, j \in CB!Slots :
             i # j /\ InRing(i)' /\ InRing(j)' => entry'[i].buffptr # entry'[j].buffptr
      BY <1>1, <1>2 DEF HeapInv, DeviceBlocks, InRing
    <3>3. Holds(dev_buffer, buffer_size)'
      BY <1>3, <1>4, <1>5, <1>8, <2>3 DEF Holds
    <3>4. \A i \in CB!Slots : InRing(i)' => entry'[i].buffptr # dev_buffer'
      BY <1>2, <1>3, <1>4 DEF InRing
    <3>5. \A u \in Task : Writing(u)' =>
            /\ frame'[u].wdata # dev_buffer'
            /\ \A i \in CB!Slots : InRing(i)' => entry'[i].buffptr # frame'[u].wdata
      BY <1>1, <1>2, <1>3, <1>4, <2>5 DEF HeapInv, DeviceBlocks, InRing
    <3> QED
      BY <3>1, <3>2, <3>3, <3>4, <3>5 DEF DeviceBlocks
  <2> QED
    BY <1>1, <2>1, <2>4, <2>6, <2>7, WriteEnds
<1> QED
  BY <1>9, <1>10

LEMMA WriteNoMemoryKeepsHeapInv ==
  ASSUME HeapInv, LockInv', NEW t \in Task, WriteNoMemory(t)
  PROVE  HeapInv'
<1> DEFINE wd == frame[t].wdata
<1>1. /\ pc[t] = "append" /\ Writing(t) /\ wd \in Block /\ loaded
      /\ UNCHANGED <<ring, buffer_size, loaded>>
      /\ dev_buffer' = NULL
      /\ heap' = [heap EXCEPT ![wd] = FREE]
      /\ WriteFinish(t, -ENOMEM)
  BY SoleWriter DEF WriteNoMemory
<1>2. UNCHANGED <<entry, in_offs, out_offs, full, size>>
  BY <1>1 DEF ring
<1>3. /\ heap' \in [Block -> Seq(Byte) \cup {FREE}]
      /\ \A x \in Block : x # wd => heap'[x] = heap[x]
  BY <1>1 DEF HeapInv, DeviceType
<1>4. DeviceType'
  BY <1>1, <1>2, <1>3 DEF HeapInv, DeviceType, RingInv, CB!TypeOK
<1>5. /\ frame'[t].wdata = NULL /\ pc'[t] = "return"
      /\ \A u \in Task : u # t => frame'[u] = frame[u] /\ pc'[u] = pc[u]
  BY <1>1, FinishFrame DEF HeapInv, LockInv, WriteFinish
<1>6. \A u \in Task : Writing(u)' => u # t /\ Writing(u) /\ frame'[u] = frame[u]
  BY <1>5 DEF Writing
<1>7. \A u \in Task : u # t /\ Writing(u) => heap'[frame[u].wdata] = heap[frame[u].wdata]
  BY <1>1, <1>3 DEF HeapInv, WriteData
<1>8. DeviceBlocks'
  <2>1. \A i \in CB!Slots : InRing(i) => entry[i].buffptr \in Block /\ entry[i].buffptr # wd
    BY <1>1 DEF HeapInv, DeviceBlocks, DeviceType, RingInv, CB!TypeOK, CB!Entries, InRing
  <2>2. \A i \in CB!Slots : InRing(i)' => Holds(entry[i].buffptr, entry[i].size)'
    BY <1>1, <1>2, <1>3, <2>1 DEF HeapInv, DeviceBlocks, InRing, Holds
  <2>3. ~HasPending'
    BY <1>1 DEF HasPending
  <2> QED
    BY <1>1, <1>2, <1>6, <2>2, <2>3 DEF HeapInv, DeviceBlocks, InRing
<1> QED
  BY <1>1, <1>4, <1>7, <1>8, WriteEnds

(* The pending block becomes the newest entry's: it was in no other slot.   *)
LEMMA WriteCommitKeepsHeapInv ==
  ASSUME HeapInv, LockInv', NEW t \in Task, WriteCommit(t)
  PROVE  HeapInv'
<1> DEFINE wd == frame[t].wdata
           e  == [buffptr |-> dev_buffer, size |-> buffer_size]
<1>1. /\ pc[t] = "commit" /\ Writing(t) /\ wd \in Block /\ loaded
      /\ CB!aesd_circular_buffer_add_entry(e)
      /\ buffer_size' = 0
      /\ heap' = [heap EXCEPT ![wd] = FREE]
      /\ WriteFinish(t, frame[t].ret)
      /\ UNCHANGED <<dev_buffer, loaded>>
  BY SoleWriter DEF WriteCommit
<1>2. HasPending /\ dev_buffer \in Block
  BY <1>1 DEF HeapInv, CommitReady, DeviceType, HasPending
<1>3. e \in CB!Entries
  BY <1>2 DEF HasPending, CB!Entries, HeapInv, DeviceType
<1>4. RingInv'
  <2> HIDE DEF e
  <2> QED
    BY <1>1, <1>3, AddKeepsRing DEF HeapInv, DeviceType
<1>5. /\ heap' \in [Block -> Seq(Byte) \cup {FREE}]
      /\ \A x \in Block : x # wd => heap'[x] = heap[x]
  BY <1>1 DEF HeapInv, DeviceType
<1>6. DeviceType'
  BY <1>1, <1>4, <1>5 DEF HeapInv, DeviceType
<1>7. /\ frame'[t].wdata = NULL /\ pc'[t] = "return"
      /\ \A u \in Task : u # t => frame'[u] = frame[u] /\ pc'[u] = pc[u]
  BY <1>1, FinishFrame DEF HeapInv, LockInv, WriteFinish
<1>8. \A u \in Task : Writing(u)' => u # t /\ Writing(u) /\ frame'[u] = frame[u]
  BY <1>7 DEF Writing
<1>9. \A u \in Task : u # t /\ Writing(u) => heap'[frame[u].wdata] = heap[frame[u].wdata]
  BY <1>1, <1>5 DEF HeapInv, WriteData
<1>10. DeviceBlocks'
  <2>1. /\ entry' = [entry EXCEPT ![in_offs] = e]
        /\ in_offs \in CB!Slots /\ DOMAIN entry = CB!Slots
    BY <1>1 DEF CB!aesd_circular_buffer_add_entry, HeapInv, DeviceType, RingInv, CB!TypeOK
  <2>2. /\ entry'[in_offs].buffptr = dev_buffer /\ entry'[in_offs].size = buffer_size
        /\ \A i \in CB!Slots : i # in_offs => entry'[i] = entry[i]
    BY <2>1
  <2>3. \A i \in CB!Slots : InRing(i) => entry[i].buffptr \in Block /\ entry[i].buffptr # wd
    BY <1>1 DEF HeapInv, DeviceBlocks, DeviceType, RingInv, CB!TypeOK, CB!Entries, InRing
  <2>4. dev_buffer # wd /\ Holds(dev_buffer, buffer_size)
    BY <1>1, <1>2 DEF HeapInv, DeviceBlocks
  <2>5. \A i \in CB!Slots : InRing(i)' => Holds(entry[i].buffptr, entry[i].size)'
    BY <1>1, <1>2, <1>5, <2>2, <2>3, <2>4 DEF HeapInv, DeviceBlocks, InRing, Holds
  <2>6. \A i, j \in CB!Slots :
             i # j /\ InRing(i)' /\ InRing(j)' => entry'[i].buffptr # entry'[j].buffptr
    BY <1>1, <1>2, <2>2 DEF HeapInv, DeviceBlocks, InRing
  <2>7. ~HasPending'
    BY <1>1 DEF HasPending
  <2>8. \A u \in Task : Writing(u)' =>
            \A i \in CB!Slots : InRing(i)' => entry'[i].buffptr # frame'[u].wdata
    BY <1>1, <1>2, <1>8, <2>2 DEF HeapInv, DeviceBlocks, InRing
  <2> QED
    BY <2>5, <2>6, <2>7, <2>8 DEF DeviceBlocks
<1> QED
  BY <1>1, <1>6, <1>9, <1>10, WriteEnds

-----------------------------------------------------------------------------
(* The other steps.                                                         *)

LEMMA InitHeap == Init => HeapInv
<1> SUFFICES ASSUME Init PROVE HeapInv
  OBVIOUS
<1>1. LockInv
  BY InitLock
<1>2. RingInv
  BY EmptyRing DEF Init
<1>3. DeviceType
  BY <1>2 DEF Init, DeviceType
<1>4. WriteData /\ CommitReady
  BY DEF Init, WriteData, CommitReady, Writing, IdleFrame
<1>5. DeviceBlocks
  BY DEF Init, CB!Init, DeviceBlocks, InRing, HasPending, Writing, IdleFrame
<1> QED
  BY <1>1, <1>3, <1>4, <1>5 DEF HeapInv

(* A call that brings no block into the kernel. *)
LEMMA OtherCall ==
  ASSUME HeapInv, LockInv', UNCHANGED heap, NEW t \in Task, NEW f \in File,
         NEW op \in {"read", "llseek", "ioctl"}, NEW arg,
         NEW step \in {"lock", "return"}, NEW ret,
         Call(t, f, op, arg, step, NULL, ret)
  PROVE  HeapInv'
<1>1. /\ pc[t] = "user" /\ pc'[t] = step
      /\ frame'[t].wdata = NULL /\ frame'[t].op = op
      /\ frame[t].wdata = NULL
      /\ \A u \in Task : u # t => frame'[u] = frame[u] /\ pc'[u] = pc[u]
      /\ UNCHANGED <<dev, loaded>>
  BY DEF Call, IdleFrame, HeapInv, LockInv, FrameType, WriteData, Writing
<1>2. \A u \in Task :
         /\ Writing(u)' <=> Writing(u)
         /\ frame'[u].wdata = frame[u].wdata
         /\ pc'[u] = "commit" => pc[u] = "commit"
         /\ pc'[u] \in {"append", "commit"} => frame'[u].op = "write"
  BY <1>1 DEF HeapInv, WriteData, Writing
<1> QED
  BY <1>1, <1>2, HeapAlone

LEMMA EnterKeepsHeapInv ==
  ASSUME HeapInv, LockInv', NEW t \in Task, Enter(t)
  PROVE  HeapInv'
<1>1. PICK f \in File :
        ReadEnter(t, f) \/ WriteEnter(t, f) \/ SeekEnter(t, f) \/ IoctlEnter(t, f)
  BY DEF Enter
<1>2. CASE ReadEnter(t, f)
  BY <1>2, OtherCall DEF ReadEnter
<1>3. CASE WriteEnter(t, f)
  BY <1>3, WriteEnterKeepsHeapInv
<1>4. CASE SeekEnter(t, f)
  BY <1>4, OtherCall DEF SeekEnter
<1>5. CASE IoctlEnter(t, f)
  BY <1>5, OtherCall DEF IoctlEnter
<1> QED
  BY <1>1, <1>2, <1>3, <1>4, <1>5

LEMMA MutexLockKeepsHeapInv ==
  ASSUME HeapInv, LockInv', NEW t \in Task, MutexLock(t)
  PROVE  HeapInv'
<1>1. /\ pc[t] = "lock" /\ pc'[t] = FirstStep[frame[t].op]
      /\ frame[t].op \in DOMAIN FirstStep
      /\ \A u \in Task : u # t => pc'[u] = pc[u]
      /\ UNCHANGED <<dev, heap, loaded, frame>>
  BY DEF MutexLock, HeapInv, LockInv, FrameType
<1>2. pc'[t] # "commit" /\ (pc'[t] = "append" <=> frame[t].op = "write")
  BY <1>1 DEF FirstStep
<1>3. \A u \in Task :
         /\ Writing(u)' <=> Writing(u)
         /\ frame'[u].wdata = frame[u].wdata
         /\ pc'[u] = "commit" => pc[u] = "commit"
         /\ pc'[u] \in {"append", "commit"} => frame'[u].op = "write"
  BY <1>1, <1>2 DEF HeapInv, WriteData, Writing
<1> QED
  BY <1>1, <1>3, HeapAlone

LEMMA SysReturnKeepsHeapInv ==
  ASSUME HeapInv, LockInv', NEW t \in Task, SysReturn(t)
  PROVE  HeapInv'
<1>1. /\ pc[t] = "return" /\ pc'[t] = "user"
      /\ frame'[t].wdata = NULL /\ frame[t].wdata = NULL
      /\ \A u \in Task : u # t => frame'[u] = frame[u] /\ pc'[u] = pc[u]
      /\ UNCHANGED <<dev, heap, loaded>>
  BY DEF SysReturn, IdleFrame, HeapInv, LockInv, FrameType, WriteData, Writing
<1>2. \A u \in Task :
         /\ Writing(u)' <=> Writing(u)
         /\ frame'[u].wdata = frame[u].wdata
         /\ pc'[u] = "commit" => pc[u] = "commit"
         /\ pc'[u] \in {"append", "commit"} => frame'[u].op = "write"
  BY <1>1 DEF HeapInv, WriteData, Writing
<1> QED
  BY <1>1, <1>2, HeapAlone

LEMMA StepKeepsHeapInv ==
  ASSUME HeapInv, LockInv', NEW t \in Task, Step(t)
  PROVE  HeapInv'
<1>1. CASE ReadFind(t)
  <2>1. pc[t] = "find" /\ UNCHANGED <<dev, heap, loaded>>
    BY <1>1 DEF ReadFind
  <2>2. CASE CB!FindEntry(frame[t].pos) = CB!NoEntry
    <3>1. Finish(t, 0, frame[t].pos, << >>)
      BY <1>1, <2>2 DEF ReadFind
    <3> QED
      BY <2>1, <3>1, OtherFinish
  <2>3. CASE CB!FindEntry(frame[t].pos) # CB!NoEntry
    <3>1. /\ pc' = [pc EXCEPT ![t] = "copy"]
          /\ frame' = [frame EXCEPT ![t].found = CB!FindEntry(frame[t].pos)]
      BY <1>1, <2>3 DEF ReadFind
    <3>2. /\ pc'[t] = "copy"
          /\ frame'[t].wdata = frame[t].wdata /\ frame'[t].op = frame[t].op
          /\ \A u \in Task : u # t => frame'[u] = frame[u] /\ pc'[u] = pc[u]
      BY <3>1 DEF HeapInv, LockInv, FrameType, IdleFrame
    <3>3. \A u \in Task :
            /\ Writing(u)' <=> Writing(u)
            /\ frame'[u].wdata = frame[u].wdata
            /\ pc'[u] = "commit" => pc[u] = "commit"
            /\ pc'[u] \in {"append", "commit"} => frame'[u].op = "write"
      BY <2>1, <3>2 DEF HeapInv, WriteData, Writing
    <3> QED
      BY <2>1, <3>3, HeapAlone
  <2> QED
    BY <2>2, <2>3
<1>2. CASE ReadCopy(t)
  <2>1. pc[t] = "copy" /\ UNCHANGED <<dev, heap, loaded>>
    BY <1>2 DEF ReadCopy
  <2>2. \E ret, pos, got : Finish(t, ret, pos, got)
    BY <1>2 DEF ReadCopy
  <2> QED
    BY <2>1, <2>2, OtherFinish
<1>3. CASE WriteAppend(t)
  BY <1>3, WriteAppendKeepsHeapInv
<1>4. CASE WriteNoMemory(t)
  BY <1>4, WriteNoMemoryKeepsHeapInv
<1>5. CASE WriteCommit(t)
  BY <1>5, WriteCommitKeepsHeapInv
<1>6. CASE SeekBody(t)
  <2>1. pc[t] = "seek" /\ UNCHANGED <<dev, heap, loaded>>
    BY <1>6 DEF SeekBody
  <2>2. \E ret, pos, got : Finish(t, ret, pos, got)
    BY <1>6 DEF SeekBody
  <2> QED
    BY <2>1, <2>2, OtherFinish
<1>7. CASE SeekToBody(t)
  <2>1. pc[t] = "seekto" /\ UNCHANGED <<dev, heap, loaded>>
    BY <1>7 DEF SeekToBody
  <2>2. \E ret, pos, got : Finish(t, ret, pos, got)
    BY <1>7 DEF SeekToBody
  <2> QED
    BY <2>1, <2>2, OtherFinish
<1>8. CASE SysReturn(t)
  BY <1>8, SysReturnKeepsHeapInv
<1> QED
  BY <1>1, <1>2, <1>3, <1>4, <1>5, <1>6, <1>7, <1>8 DEF Step

(* Opening and closing change nothing of all this; loading and unloading    *)
(* happen while no call is under way.                                       *)
LEMMA ModuleKeepsHeapInv ==
  ASSUME HeapInv, LockInv',
         \/ \E f \in File : aesd_open(f) \/ aesd_release(f)
         \/ aesd_init_module
         \/ aesd_cleanup_module
  PROVE  HeapInv'
<1>1. CASE \E f \in File : aesd_open(f) \/ aesd_release(f)
  <2>1. UNCHANGED <<dev, heap, loaded, pc, frame>>
    BY <1>1 DEF aesd_open, aesd_release
  <2>2. \A u \in Task :
          /\ Writing(u)' <=> Writing(u)
          /\ frame'[u].wdata = frame[u].wdata
          /\ pc'[u] = "commit" => pc[u] = "commit"
          /\ pc'[u] \in {"append", "commit"} => frame'[u].op = "write"
    BY <2>1 DEF HeapInv, WriteData, Writing
  <2> QED
    BY <2>1, <2>2, HeapAlone
<1>2. CASE aesd_init_module
  <2>1. \A u \in Task : pc[u] = "user"
    BY <1>2, LoadedInCall DEF aesd_init_module, HeapInv
  <2>2. RingInv'
    <3>1. (CB!Init => RingInv)'
      BY EmptyRing, PTL
    <3>2. CB!Init'
      BY <1>2 DEF aesd_init_module, CB!aesd_circular_buffer_init, CB!Init
    <3> QED
      BY <3>1, <3>2
  <2>3. UNCHANGED <<heap, pc, frame>> /\ dev_buffer' = NULL /\ buffer_size' = 0
        /\ entry' = [i \in CB!Slots |-> CB!EmptyEntry]
    BY <1>2 DEF aesd_init_module, CB!aesd_circular_buffer_init
  <2>4. DeviceType'
    BY <2>2, <2>3 DEF DeviceType, HeapInv
  <2>5. WriteData' /\ CommitReady'
    BY <2>1, <2>3 DEF HeapInv, WriteData, Writing, CommitReady
  <2>6. DeviceBlocks'
    BY <2>1, <2>3 DEF DeviceBlocks, InRing, HasPending, Writing
  <2> QED
    BY <2>4, <2>5, <2>6 DEF HeapInv
<1>3. CASE aesd_cleanup_module
  <2>1. UNCHANGED <<dev, pc, frame>> /\ loaded' = FALSE /\ opened = {}
        /\ heap' = [b \in Block |->
              IF \E i \in CB!Slots : entry[i].buffptr = b THEN FREE ELSE heap[b]]
    BY <1>3 DEF aesd_cleanup_module
  <2>2. \A u \in Task : pc[u] = "user"
    BY <2>1 DEF HeapInv, LockInv, CallsHaveOpenFile
  <2>3. DeviceType'
    BY <2>1 DEF HeapInv, DeviceType, RingInv, CB!TypeOK, dev, ring
  <2>4. WriteData' /\ CommitReady'
    BY <2>1, <2>2 DEF HeapInv, WriteData, Writing, CommitReady
  <2> QED
    BY <2>1, <2>3, <2>4 DEF HeapInv
<1> QED
  BY <1>1, <1>2, <1>3

LEMMA NextKeepsHeapInv == HeapInv /\ [Next]_vars => HeapInv'
<1> SUFFICES ASSUME HeapInv, [Next]_vars PROVE HeapInv'
  OBVIOUS
<1>1. LockInv'
  BY NextKeepsLockInv DEF HeapInv
<1>2. ASSUME NEW t \in Task, Enter(t) \/ MutexLock(t) \/ Step(t)
      PROVE  HeapInv'
  BY <1>1, <1>2, EnterKeepsHeapInv, MutexLockKeepsHeapInv, StepKeepsHeapInv
<1>3. CASE \/ \E f \in File : aesd_open(f) \/ aesd_release(f)
           \/ aesd_init_module
           \/ aesd_cleanup_module
  BY <1>1, <1>3, ModuleKeepsHeapInv
<1>4. CASE UNCHANGED vars
  <2>1. UNCHANGED <<dev, heap, loaded, pc, frame>>
    BY <1>4 DEF vars
  <2>2. \A u \in Task :
          /\ Writing(u)' <=> Writing(u)
          /\ frame'[u].wdata = frame[u].wdata
          /\ pc'[u] = "commit" => pc[u] = "commit"
          /\ pc'[u] \in {"append", "commit"} => frame'[u].op = "write"
    BY <2>1 DEF HeapInv, WriteData, Writing
  <2> QED
    BY <1>1, <2>1, <2>2, HeapAlone
<1> QED
  BY <1>2, <1>3, <1>4 DEF Next

THEOREM HeapInvariant == Spec => []HeapInv
  BY InitHeap, NextKeepsHeapInv, PTL DEF Spec

LEMMA HeapInvImpliesOwnership == HeapInv => HeapOwnership
<1> SUFFICES ASSUME HeapInv PROVE HeapOwnership
  OBVIOUS
<1>1. \A i \in CB!Slots :
        entry[i].buffptr \in Block \cup {NULL} /\ (InRing(i) <=> entry[i].buffptr # NULL)
  BY AesdCharAssumption
  DEF HeapInv, DeviceType, RingInv, CB!TypeOK, CB!Entries, CB!EmptyEntry, InRing
<1>2. \A b \in EntryBlocks : \E i \in CB!Slots : InRing(i) /\ b = entry[i].buffptr
  BY <1>1 DEF EntryBlocks
<1>3. \A b \in PendingBlocks : HasPending /\ b = dev_buffer
  BY DEF PendingBlocks, HasPending
<1>4. \A b \in LocalBlocks : \E t \in Task : Writing(t) /\ b = frame[t].wdata
  BY DEF LocalBlocks, HeapInv, WriteData
<1>5. ASSUME loaded
      PROVE  /\ \A i \in CB!Slots : entry[i] # CB!EmptyEntry =>
                  /\ heap[entry[i].buffptr] # FREE
                  /\ Len(heap[entry[i].buffptr]) = entry[i].size
             /\ \A i, j \in CB!Slots : i # j /\ entry[i] # CB!EmptyEntry =>
                  entry[i].buffptr # entry[j].buffptr
             /\ \A b \in PendingBlocks :
                  /\ heap[b] # FREE
                  /\ Len(heap[b]) = buffer_size
             /\ EntryBlocks \cap PendingBlocks = {}
             /\ LocalBlocks \cap (EntryBlocks \cup PendingBlocks) = {}
  <2>1. DeviceBlocks
    BY <1>5 DEF HeapInv
  <2>2. \A i \in CB!Slots : entry[i] # CB!EmptyEntry =>
          /\ heap[entry[i].buffptr] # FREE
          /\ Len(heap[entry[i].buffptr]) = entry[i].size
    BY <2>1, FreeIsNoContent DEF DeviceBlocks, InRing, Holds
  <2>3. \A i, j \in CB!Slots : i # j /\ entry[i] # CB!EmptyEntry =>
          entry[i].buffptr # entry[j].buffptr
    BY <1>1, <2>1 DEF DeviceBlocks, InRing
  <2>4. \A b \in PendingBlocks : heap[b] # FREE /\ Len(heap[b]) = buffer_size
    BY <1>3, <2>1, FreeIsNoContent DEF DeviceBlocks, Holds
  <2>5. EntryBlocks \cap PendingBlocks = {}
    BY <1>2, <1>3, <2>1 DEF DeviceBlocks
  <2>6. LocalBlocks \cap (EntryBlocks \cup PendingBlocks) = {}
    BY <1>2, <1>3, <1>4, <2>1 DEF DeviceBlocks
  <2> QED
    BY <2>2, <2>3, <2>4, <2>5, <2>6
<1>6. \A b \in LocalBlocks : heap[b] # FREE
  BY <1>4, FreeIsNoContent DEF HeapInv, WriteData
<1> QED
  BY <1>5, <1>6 DEF HeapOwnership

(* Every block aesd_write allocates has one owner at a time, the caller,    *)
(* the pending command or one entry of the ring, who finds in it as many    *)
(* bytes as it counts on: no use after free and no double free, for any     *)
(* number of writers, with every allocation failing that can.               *)
THEOREM OwnershipHolds == Spec => []HeapOwnership
  BY HeapInvariant, HeapInvImpliesOwnership, PTL

-----------------------------------------------------------------------------
(* Which steps touch memory.                                                *)

(* Memory stays as it is, and so does what a write about to commit knows.   *)
Quiet ==
  /\ UNCHANGED <<dev, heap, loaded>>
  /\ \A u \in Task :
       /\ frame'[u].wdata = frame[u].wdata
       /\ (pc'[u] = "commit") <=> (pc[u] = "commit")
       /\ pc[u] = "commit" => frame'[u].ret = frame[u].ret

(* A write brings its data into the kernel. *)
BringsData(t, data, b) ==
  /\ heap' = [heap EXCEPT ![b] = data]
  /\ UNCHANGED <<dev, loaded>>
  /\ pc[t] = "user" /\ pc'[t] = "lock" /\ frame'[t].wdata = b
  /\ \A u \in Task : u # t => frame'[u] = frame[u] /\ pc'[u] = pc[u]

LEMMA QuietFinish ==
  ASSUME HeapInv, UNCHANGED <<dev, heap, loaded>>,
         NEW t \in Task, NEW ret, NEW pos, NEW got,
         pc[t] \in {"find", "copy", "seek", "seekto"}, Finish(t, ret, pos, got)
  PROVE  Quiet
<1>1. /\ frame'[t].wdata = NULL /\ frame[t].wdata = NULL
      /\ pc'[t] = "return"
      /\ \A u \in Task : u # t => frame'[u] = frame[u] /\ pc'[u] = pc[u]
  BY FinishFrame DEF HeapInv, LockInv, WriteData, Writing
<1> QED
  BY <1>1 DEF Quiet

LEMMA QuietCall ==
  ASSUME HeapInv, UNCHANGED heap, NEW t \in Task, NEW f \in File,
         NEW op, NEW arg, NEW step \in {"lock", "return"}, NEW ret,
         Call(t, f, op, arg, step, NULL, ret)
  PROVE  Quiet
<1>1. /\ pc[t] = "user" /\ pc'[t] = step
      /\ frame'[t].wdata = NULL /\ frame[t].wdata = NULL
      /\ \A u \in Task : u # t => frame'[u] = frame[u] /\ pc'[u] = pc[u]
      /\ UNCHANGED <<dev, loaded>>
  BY DEF Call, IdleFrame, HeapInv, LockInv, FrameType, WriteData, Writing
<1> QED
  BY <1>1 DEF Quiet

LEMMA MemorySteps ==
  ASSUME HeapInv, Next
  PROVE  \/ Quiet
         \/ \E t \in Task, data \in UserData, b \in FreeBlocks : BringsData(t, data, b)
         \/ \E t \in Task : WriteAppend(t) \/ WriteNoMemory(t) \/ WriteCommit(t)
         \/ aesd_init_module
         \/ aesd_cleanup_module
<1>1. ASSUME NEW t \in Task, Enter(t)
      PROVE  \/ Quiet
             \/ \E data \in UserData, b \in FreeBlocks : BringsData(t, data, b)
  <2>1. PICK f \in File :
          ReadEnter(t, f) \/ WriteEnter(t, f) \/ SeekEnter(t, f) \/ IoctlEnter(t, f)
    BY <1>1 DEF Enter
  <2>2. CASE ReadEnter(t, f)
    BY <2>2, QuietCall DEF ReadEnter
  <2>3. CASE SeekEnter(t, f)
    BY <2>3, QuietCall DEF SeekEnter
  <2>4. CASE IoctlEnter(t, f)
    BY <2>4, QuietCall DEF IoctlEnter
  <2>5. CASE WriteEnter(t, f)
    <3>1. CASE \E data \in UserData : \E b \in FreeBlocks :
                 /\ Call(t, f, "write", NULL, "lock", b, 0)
                 /\ heap' = [heap EXCEPT ![b] = data]
      <4>1. PICK data \in UserData, b \in FreeBlocks :
                 /\ Call(t, f, "write", NULL, "lock", b, 0)
                 /\ heap' = [heap EXCEPT ![b] = data]
        BY <3>1
      <4>2. BringsData(t, data, b)
        BY <4>1 DEF BringsData, Call, IdleFrame, HeapInv, LockInv, FrameType
      <4> QED
        BY <4>2
    <3>2. CASE \E err \in {ENOMEM, EFAULT} :
                 /\ Call(t, f, "write", NULL, "return", NULL, -err)
                 /\ UNCHANGED heap
      BY <3>2, QuietCall
    <3> QED
      BY <2>5, <3>1, <3>2 DEF WriteEnter
  <2> QED
    BY <2>1, <2>2, <2>3, <2>4, <2>5
<1>2. ASSUME NEW t \in Task, MutexLock(t)
      PROVE  Quiet
  <2>1. /\ pc[t] = "lock" /\ pc'[t] # "commit"
        /\ \A u \in Task : u # t => pc'[u] = pc[u]
        /\ UNCHANGED <<dev, heap, loaded, frame>>
    BY <1>2 DEF MutexLock, HeapInv, LockInv, FrameType, FirstStep
  <2> QED
    BY <2>1 DEF Quiet
<1>3. ASSUME NEW t \in Task, Step(t)
      PROVE  Quiet \/ WriteAppend(t) \/ WriteNoMemory(t) \/ WriteCommit(t)
  <2>1. CASE ReadFind(t)
    <3>1. pc[t] = "find" /\ UNCHANGED <<dev, heap, loaded>>
      BY <2>1 DEF ReadFind
    <3>2. CASE CB!FindEntry(frame[t].pos) = CB!NoEntry
      <4>1. Finish(t, 0, frame[t].pos, << >>)
        BY <2>1, <3>2 DEF ReadFind
      <4> QED
        BY <3>1, <4>1, QuietFinish
    <3>3. CASE CB!FindEntry(frame[t].pos) # CB!NoEntry
      <4>1. /\ pc' = [pc EXCEPT ![t] = "copy"]
            /\ frame' = [frame EXCEPT ![t].found = CB!FindEntry(frame[t].pos)]
        BY <2>1, <3>3 DEF ReadFind
      <4>2. /\ pc'[t] = "copy"
            /\ frame'[t].wdata = frame[t].wdata
            /\ \A u \in Task : u # t => frame'[u] = frame[u] /\ pc'[u] = pc[u]
        BY <4>1 DEF HeapInv, LockInv, FrameType, IdleFrame
      <4> QED
        BY <3>1, <4>2 DEF Quiet
    <3> QED
      BY <3>2, <3>3
  <2>2. CASE ReadCopy(t)
    <3>1. /\ pc[t] = "copy" /\ UNCHANGED <<dev, heap, loaded>>
          /\ \E ret, pos, got : Finish(t, ret, pos, got)
      BY <2>2 DEF ReadCopy
    <3> QED
      BY <3>1, QuietFinish
  <2>3. CASE SeekBody(t)
    <3>1. /\ pc[t] = "seek" /\ UNCHANGED <<dev, heap, loaded>>
          /\ \E ret, pos, got : Finish(t, ret, pos, got)
      BY <2>3 DEF SeekBody
    <3> QED
      BY <3>1, QuietFinish
  <2>4. CASE SeekToBody(t)
    <3>1. /\ pc[t] = "seekto" /\ UNCHANGED <<dev, heap, loaded>>
          /\ \E ret, pos, got : Finish(t, ret, pos, got)
      BY <2>4 DEF SeekToBody
    <3> QED
      BY <3>1, QuietFinish
  <2>5. CASE SysReturn(t)
    <3>1. /\ pc[t] = "return" /\ pc'[t] = "user"
          /\ frame'[t].wdata = NULL /\ frame[t].wdata = NULL
          /\ \A u \in Task : u # t => frame'[u] = frame[u] /\ pc'[u] = pc[u]
          /\ UNCHANGED <<dev, heap, loaded>>
      BY <2>5 DEF SysReturn, IdleFrame, HeapInv, LockInv, FrameType, WriteData, Writing
    <3> QED
      BY <3>1 DEF Quiet
  <2> QED
    BY <1>3, <2>1, <2>2, <2>3, <2>4, <2>5 DEF Step
<1>4. CASE \E f \in File : aesd_open(f) \/ aesd_release(f)
  BY <1>4 DEF aesd_open, aesd_release, Quiet
<1> QED
  BY <1>1, <1>2, <1>3, <1>4 DEF Next

-----------------------------------------------------------------------------
(* Which steps leak.                                                        *)

(* The owners of a block. *)
OwnedBy(b) ==
  \/ \E t \in Task : frame[t].wdata = b
  \/ loaded /\ \E i \in CB!Slots : entry[i].buffptr = b
  \/ loaded /\ buffer_size > 0 /\ dev_buffer = b

LEMMA OwnedByOwner == \A b \in Block : b \in Owned <=> OwnedBy(b)
BY AesdCharAssumption DEF Owned, OwnedBy, LocalBlocks, EntryBlocks, PendingBlocks

LEMMA LeakedBlock ==
  \A b \in Leaked' \ Leaked :
    /\ b \in Block /\ heap'[b] # FREE /\ ~OwnedBy(b)'
    /\ heap[b] = FREE \/ OwnedBy(b)
<1>1. (\A b \in Block : b \in Owned <=> OwnedBy(b))'
  BY OwnedByOwner, PTL
<1> QED
  BY <1>1, OwnedByOwner DEF Leaked

(* The reasons LeaksOnlyAt admits. *)
LossAt(b) ==
  \/ full /\ b = entry[in_offs].buffptr /\ entry'[in_offs].buffptr # b
  \/ b = dev_buffer /\ dev_buffer' = NULL
  \/ b = dev_buffer /\ loaded /\ ~loaded'

(* The end of a write leaks nothing of the caller's: write_data is freed.   *)
LEMMA WriteFreesOwn ==
  ASSUME HeapInv, NEW t \in Task, NEW ret, WriteFinish(t, ret),
         NEW b \in Block, b # frame[t].wdata, ~OwnedBy(b)'
  PROVE  \A u \in Task : frame[u].wdata # b
<1>1. \A u \in Task : u # t => frame'[u] = frame[u]
  BY FinishFrame DEF HeapInv, LockInv, WriteFinish
<1> QED
  BY <1>1 DEF OwnedBy

LEMMA AppendLeaksNothing ==
  ASSUME HeapInv, NEW t \in Task, WriteAppend(t)
  PROVE  Leaked' \ Leaked = {}
<1> SUFFICES ASSUME NEW x \in Leaked' \ Leaked PROVE FALSE
  OBVIOUS
<1> DEFINE wd == frame[t].wdata
           n  == Len(Chunk(heap[wd]))
<1>1. /\ x \in Block /\ heap'[x] # FREE /\ ~OwnedBy(x)'
      /\ heap[x] = FREE \/ OwnedBy(x)
  BY LeakedBlock
<1>2. /\ pc[t] = "append" /\ Writing(t) /\ wd \in Block /\ loaded
      /\ UNCHANGED <<ring, loaded>>
  BY SoleWriter DEF WriteAppend
<1>3. UNCHANGED entry
  BY <1>2 DEF ring
<1>4. PICK b \in Targets :
        /\ dev_buffer' = b
        /\ buffer_size' = buffer_size + n
        /\ IF full_packet(heap[wd])
           THEN /\ heap' = HeapAfterAppend(t, b)
                /\ frame' = [frame EXCEPT ![t].ret = n]
           ELSE /\ heap' = [HeapAfterAppend(t, b) EXCEPT ![wd] = FREE]
                /\ WriteFinish(t, n)
  BY DEF WriteAppend
<1>5. n \in Nat \ {0} /\ buffer_size \in Nat
  BY <1>2, AppendToHeap DEF HeapInv, DeviceType
<1>6. buffer_size' > 0
  <2> HIDE DEF n
  <2> QED
    BY <1>4, <1>5
<1>7. x # b
  BY <1>1, <1>2, <1>4, <1>6 DEF OwnedBy
<1>8. CASE full_packet(heap[wd])
  <2>1. heap' = HeapAfterAppend(t, b) /\ frame' = [frame EXCEPT ![t].ret = n]
    BY <1>4, <1>8
  <2>2. heap'[x] = (IF x = (IF buffer_size > 0 THEN dev_buffer ELSE NULL) THEN FREE ELSE heap[x])
    BY <1>1, <1>7, <2>1 DEF HeapAfterAppend
  <2>3. \A u \in Task : frame'[u].wdata = frame[u].wdata
    BY <2>1 DEF HeapInv, LockInv, FrameType, IdleFrame
  <2> QED
    BY <1>1, <1>2, <1>3, <2>2, <2>3, AesdCharAssumption DEF OwnedBy
<1>9. CASE ~full_packet(heap[wd])
  <2>1. heap' = [HeapAfterAppend(t, b) EXCEPT ![wd] = FREE] /\ WriteFinish(t, n)
    BY <1>4, <1>9
  <2>2. x # wd
    BY <1>1, <1>2, <2>1 DEF HeapAfterAppend
  <2>3. heap'[x] = (IF x = (IF buffer_size > 0 THEN dev_buffer ELSE NULL) THEN FREE ELSE heap[x])
    BY <1>1, <1>7, <2>1, <2>2 DEF HeapAfterAppend
  <2>4. \A u \in Task : frame[u].wdata # x
    BY <1>1, <2>1, <2>2, WriteFreesOwn
  <2> QED
    BY <1>1, <1>2, <1>3, <2>3, <2>4, AesdCharAssumption DEF OwnedBy
<1> QED
  BY <1>8, <1>9

LEMMA NoMemoryLosesPending ==
  ASSUME HeapInv, NEW t \in Task, WriteNoMemory(t), NEW x \in Leaked' \ Leaked
  PROVE  LossAt(x)
<1> DEFINE wd == frame[t].wdata
<1>1. /\ x \in Block /\ heap'[x] # FREE /\ ~OwnedBy(x)'
      /\ heap[x] = FREE \/ OwnedBy(x)
  BY LeakedBlock
<1>2. /\ pc[t] = "append" /\ wd \in Block
      /\ UNCHANGED <<ring, loaded>>
      /\ dev_buffer' = NULL
      /\ heap' = [heap EXCEPT ![wd] = FREE]
      /\ WriteFinish(t, -ENOMEM)
  BY SoleWriter DEF WriteNoMemory
<1>3. UNCHANGED entry
  BY <1>2 DEF ring
<1>4. x # wd /\ heap'[x] = heap[x]
  BY <1>1, <1>2 DEF HeapInv, DeviceType
<1>5. \A u \in Task : frame[u].wdata # x
  BY <1>1, <1>2, <1>4, WriteFreesOwn
<1> QED
  BY <1>1, <1>2, <1>3, <1>4, <1>5 DEF OwnedBy, LossAt

LEMMA CommitLosesOldest ==
  ASSUME HeapInv, NEW t \in Task, WriteCommit(t), NEW x \in Leaked' \ Leaked
  PROVE  LossAt(x)
<1> DEFINE wd == frame[t].wdata
           e  == [buffptr |-> dev_buffer, size |-> buffer_size]
<1>1. /\ x \in Block /\ heap'[x] # FREE /\ ~OwnedBy(x)'
      /\ heap[x] = FREE \/ OwnedBy(x)
  BY LeakedBlock
<1>2. /\ pc[t] = "commit" /\ wd \in Block /\ loaded
      /\ CB!aesd_circular_buffer_add_entry(e)
      /\ heap' = [heap EXCEPT ![wd] = FREE]
      /\ WriteFinish(t, frame[t].ret)
      /\ UNCHANGED <<dev_buffer, loaded>>
  BY SoleWriter DEF WriteCommit
<1>3. /\ entry' = [entry EXCEPT ![in_offs] = e]
      /\ in_offs \in CB!Slots /\ DOMAIN entry = CB!Slots
  BY <1>2 DEF CB!aesd_circular_buffer_add_entry, HeapInv, DeviceType, RingInv, CB!TypeOK
<1>4. /\ entry'[in_offs].buffptr = dev_buffer
      /\ \A i \in CB!Slots : i # in_offs => entry'[i] = entry[i]
  BY <1>3
<1>5. x # wd /\ heap'[x] = heap[x]
  BY <1>1, <1>2 DEF HeapInv, DeviceType
<1>6. \A u \in Task : frame[u].wdata # x
  BY <1>1, <1>2, <1>5, WriteFreesOwn
<1>7. x # dev_buffer
  BY <1>1, <1>2, <1>3, <1>4 DEF OwnedBy
<1>8. x = entry[in_offs].buffptr /\ entry'[in_offs].buffptr # x
  BY <1>1, <1>2, <1>3, <1>4, <1>5, <1>6, <1>7 DEF OwnedBy
<1>9. full
  <2>1. in_offs < in_offs <=> FALSE
    BY <1>3 DEF CB!Slots
  <2>2. entry[in_offs] # CB!EmptyEntry
    BY <1>1, <1>8, AesdCharAssumption DEF CB!EmptyEntry
  <2> QED
    BY <1>3, <2>1, <2>2 DEF HeapInv, DeviceType, RingInv
<1> QED
  BY <1>8, <1>9 DEF LossAt

(* A block nobody owns any more is the oldest command, overwritten in the   *)
(* full ring, the pending command a failed allocation gave up, or the one   *)
(* that was pending at unload: no other step or error path of the driver    *)
(* loses memory.                                                            *)
THEOREM LeaksNowhereElse == Spec => LeaksOnlyAt
<1>1. HeapInv /\ [Next]_vars => [\A b \in Leaked' \ Leaked : LossAt(b)]_vars
  <2> SUFFICES ASSUME HeapInv, Next, NEW x \in Leaked' \ Leaked PROVE LossAt(x)
    OBVIOUS
  <2>1. /\ x \in Block /\ heap'[x] # FREE /\ ~OwnedBy(x)'
        /\ heap[x] = FREE \/ OwnedBy(x)
    BY LeakedBlock
  <2>2. CASE Quiet
    BY <2>1, <2>2 DEF Quiet, OwnedBy, dev, ring
  <2>3. CASE \E t \in Task, data \in UserData, b \in FreeBlocks : BringsData(t, data, b)
    <3>1. PICK t \in Task, data \in UserData, b \in FreeBlocks : BringsData(t, data, b)
      BY <2>3
    <3>2. UNCHANGED <<entry, dev_buffer, buffer_size, loaded>>
      BY <3>1 DEF BringsData, dev, ring
    <3>3. x # b
      BY <2>1, <3>1 DEF BringsData, OwnedBy
    <3>4. frame[t].wdata = NULL
      BY <3>1 DEF BringsData, HeapInv, WriteData, Writing
    <3>5. \A u \in Task : frame[u].wdata = x => frame'[u].wdata = x
      BY <2>1, <3>1, <3>4, AesdCharAssumption DEF BringsData
    <3>6. heap'[x] = heap[x]
      BY <2>1, <3>1, <3>3 DEF BringsData, HeapInv, DeviceType
    <3> QED
      BY <2>1, <3>2, <3>5, <3>6 DEF OwnedBy
  <2>4. CASE \E t \in Task : WriteAppend(t) \/ WriteNoMemory(t) \/ WriteCommit(t)
    BY <2>4, AppendLeaksNothing, NoMemoryLosesPending, CommitLosesOldest
  <2>5. CASE aesd_init_module
    BY <2>1, <2>5 DEF aesd_init_module, OwnedBy
  <2>6. CASE aesd_cleanup_module
    <3>1. /\ UNCHANGED <<entry, dev_buffer, buffer_size, frame>> /\ loaded /\ ~loaded'
          /\ heap'[x] = IF \E i \in CB!Slots : entry[i].buffptr = x THEN FREE ELSE heap[x]
      BY <2>1, <2>6 DEF aesd_cleanup_module, dev, ring
    <3> QED
      BY <2>1, <3>1 DEF OwnedBy, LossAt
  <2> QED
    BY <2>2, <2>3, <2>4, <2>5, <2>6, MemorySteps
<1>2. HeapInv /\ [Next]_vars =>
        [\A b \in Leaked' \ Leaked :
           \/ full /\ b = entry[in_offs].buffptr /\ entry'[in_offs].buffptr # b
           \/ b = dev_buffer /\ dev_buffer' = NULL
           \/ b = dev_buffer /\ loaded /\ ~loaded']_vars
  BY <1>1 DEF LossAt
<1> QED
  BY <1>2, HeapInvariant, PTL DEF Spec, LeaksOnlyAt

=============================================================================
