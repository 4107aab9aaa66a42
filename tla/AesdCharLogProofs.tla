------------------------- MODULE AesdCharLogProofs --------------------------
(***************************************************************************)
(* What users see of the character device, for any number of tasks, files  *)
(* and blocks and any user data: it implements CommandLog, a log of whole  *)
(* commands and one unfinished command, whoever wrote them; where file     *)
(* positions may be; what a read returns; where a seek ends.               *)
(***************************************************************************)
EXTENDS AesdCharProofs

(* What is known between the two steps of a write that ends a command: the  *)
(* pending command ends with the chunk of this write, all of which counts   *)
(* as written.                                                              *)
CommitKnows(t) ==
  LET d == heap[frame[t].wdata]
      n == Len(Chunk(d))
  IN  /\ full_packet(d)
      /\ frame[t].ret = n
      /\ n <= buffer_size
      /\ heap[dev_buffer] = SubSeq(heap[dev_buffer], 1, buffer_size - n) \o Chunk(d)

LogInv ==
  /\ HeapInv
  /\ \A t \in Task : pc[t] = "commit" => CommitKnows(t)

-----------------------------------------------------------------------------
(* The log a user sees, in terms of the ring and the heap.                  *)

Contents(h, s) == [k \in DOMAIN s |-> h[s[k].buffptr]]

log     == IF loaded THEN Commands ELSE << >>
pending == IF loaded THEN Unfinished ELSE << >>

LEMMA ContentsOfAppend ==
  ASSUME NEW S, NEW s \in Seq(S), NEW e \in S, NEW h
  PROVE  /\ Len(Contents(h, s)) = Len(s)
         /\ s # << >> => Contents(h, Tail(s)) = Tail(Contents(h, s))
         /\ Contents(h, Append(s, e)) = Append(Contents(h, s), h[e.buffptr])
<1> DEFINE T == {h[x.buffptr] : x \in S}
<1>0. Len(s) \in Nat /\ DOMAIN s = 1 .. Len(s) /\ \A k \in 1 .. Len(s) : s[k] \in S
  BY LenProperties, ElementOfSeq
<1>1. \A r \in Seq(S) : Contents(h, r) \in Seq(T) /\ Len(Contents(h, r)) = Len(r)
  <2> SUFFICES ASSUME NEW r \in Seq(S)
               PROVE  Contents(h, r) \in Seq(T) /\ Len(Contents(h, r)) = Len(r)
    OBVIOUS
  <2>1. Len(r) \in Nat /\ DOMAIN r = 1 .. Len(r) /\ \A k \in 1 .. Len(r) : r[k] \in S
    BY LenProperties, ElementOfSeq
  <2>2. Contents(h, r) \in [1 .. Len(r) -> T]
    BY <2>1 DEF Contents
  <2>3. Contents(h, r) \in Seq(T)
    <3> HIDE DEF T
    <3>1. Seq(T) = UNION {[1 .. n -> T] : n \in Nat}
      BY SeqDef
    <3>2. QED
      BY <2>1, <2>2, <3>1
  <2> QED
    BY <2>1, <2>2, <2>3, LenProperties
<1>2. h[e.buffptr] \in T
  OBVIOUS
<1> HIDE DEF T
<1>3. s # << >> => Contents(h, Tail(s)) = Tail(Contents(h, s))
  <2> SUFFICES ASSUME s # << >> PROVE Contents(h, Tail(s)) = Tail(Contents(h, s))
    OBVIOUS
  <2>1. /\ Tail(s) \in Seq(S) /\ Len(Tail(s)) = Len(s) - 1
        /\ \A k \in 1 .. Len(s) - 1 : Tail(s)[k] = s[k + 1]
    BY <1>0, HeadTailProperties
  <2>2. Contents(h, s) \in Seq(T) /\ Len(Contents(h, s)) = Len(s) /\ Len(s) # 0
    BY <1>0, <1>1, EmptySeq
  <2>3. Contents(h, s) # << >>
    BY <2>2
  <2>4. /\ Tail(Contents(h, s)) \in Seq(T) /\ Len(Tail(Contents(h, s))) = Len(s) - 1
        /\ \A k \in 1 .. Len(s) - 1 : Tail(Contents(h, s))[k] = Contents(h, s)[k + 1]
    BY <2>2, <2>3, HeadTailProperties
  <2>5. Contents(h, Tail(s)) \in Seq(T) /\ Len(Contents(h, Tail(s))) = Len(s) - 1
    BY <1>1, <2>1
  <2>6. \A k \in 1 .. Len(s) - 1 : Contents(h, Tail(s))[k] = Tail(Contents(h, s))[k]
    <3> SUFFICES ASSUME NEW k \in 1 .. Len(s) - 1
                 PROVE  Contents(h, Tail(s))[k] = Tail(Contents(h, s))[k]
      OBVIOUS
    <3>1. k + 1 \in DOMAIN s /\ k \in DOMAIN Tail(s)
      BY <1>0, <2>1, LenProperties
    <3>2. Contents(h, Tail(s))[k] = h[s[k + 1].buffptr]
      BY <2>1, <3>1 DEF Contents
    <3>3. Contents(h, s)[k + 1] = h[s[k + 1].buffptr]
      BY <3>1 DEF Contents
    <3> QED
      BY <2>4, <3>2, <3>3
  <2> QED
    BY <2>4, <2>5, <2>6, SeqEqual
<1>4. Contents(h, Append(s, e)) = Append(Contents(h, s), h[e.buffptr])
  <2>1. /\ Append(s, e) \in Seq(S) /\ Len(Append(s, e)) = Len(s) + 1
        /\ \A k \in 1 .. Len(s) : Append(s, e)[k] = s[k]
        /\ Append(s, e)[Len(s) + 1] = e
    BY AppendProperties
  <2>2. Contents(h, s) \in Seq(T) /\ Len(Contents(h, s)) = Len(s)
    BY <1>1
  <2>3. /\ Append(Contents(h, s), h[e.buffptr]) \in Seq(T)
        /\ Len(Append(Contents(h, s), h[e.buffptr])) = Len(s) + 1
        /\ \A k \in 1 .. Len(s) :
             Append(Contents(h, s), h[e.buffptr])[k] = Contents(h, s)[k]
        /\ Append(Contents(h, s), h[e.buffptr])[Len(s) + 1] = h[e.buffptr]
    BY <1>2, <2>2, AppendProperties
  <2>4. /\ Contents(h, Append(s, e)) \in Seq(T)
        /\ Len(Contents(h, Append(s, e))) = Len(s) + 1
        /\ DOMAIN Append(s, e) = 1 .. Len(s) + 1
    BY <1>1, <2>1, LenProperties
  <2>5. \A k \in 1 .. Len(s) + 1 :
          Contents(h, Append(s, e))[k] = Append(Contents(h, s), h[e.buffptr])[k]
    <3> SUFFICES ASSUME NEW k \in 1 .. Len(s) + 1
                 PROVE  Contents(h, Append(s, e))[k] = Append(Contents(h, s), h[e.buffptr])[k]
      OBVIOUS
    <3>1. Contents(h, Append(s, e))[k] = h[Append(s, e)[k].buffptr]
      BY <2>4 DEF Contents
    <3>2. CASE k = Len(s) + 1
      BY <2>1, <2>3, <3>1, <3>2
    <3>3. CASE k # Len(s) + 1
      <4>1. k \in 1 .. Len(s)
        BY <1>0, <3>3
      <4>2. Contents(h, s)[k] = h[s[k].buffptr]
        BY <1>0, <4>1 DEF Contents
      <4> QED
        BY <2>1, <2>3, <3>1, <4>1, <4>2
    <3> QED
      BY <3>2, <3>3
  <2> QED
    BY <2>3, <2>4, <2>5, SeqEqual
<1> QED
  BY <1>1, <1>3, <1>4

LEMMA LoggedOfRing ==
  ASSUME RingInv
  PROVE  /\ CB!Logged \in Seq(CB!Entries)
         /\ \A k \in DOMAIN CB!Logged : \E i \in CB!Slots : InRing(i) /\ CB!Logged[k] = entry[i]
<1>1. P!RingInv
  BY RingInvSame
<1>2. CB!Logged = P!Logged /\ CB!Entries = P!Entries
  BY DEF CB!Logged, P!Logged, CB!Count, P!Count, CB!SlotAt, P!SlotAt, CB!Entries, P!Entries
<1>3. /\ P!Count \in 0 .. MaxWriteOps
      /\ P!Logged \in Seq(P!Entries)
      /\ Len(P!Logged) = P!Count
      /\ \A k \in 1 .. P!Count : P!Logged[k] = entry[P!SlotAt(k - 1)]
  BY <1>1, P!LoggedIsSeq, AesdCharAssumption
<1>4. P!SlotsInUse
  BY <1>1, P!RingInvImpliesSlotsInUse, AesdCharAssumption
<1>5. ASSUME NEW k \in 1 .. P!Count
      PROVE  /\ P!SlotAt(k - 1) \in CB!Slots
             /\ entry[P!SlotAt(k - 1)] # CB!EmptyEntry
  <2>1. k - 1 \in P!Slots /\ k - 1 < P!Count
    BY <1>3, AesdCharAssumption DEF P!Slots
  <2>2. P!SlotAt(k - 1) \in P!Slots
    BY <1>1, <2>1, P!SearchOrder, AesdCharAssumption
  <2> QED
    BY <1>4, <2>1, <2>2 DEF P!SlotsInUse, P!Slots, CB!Slots, P!EmptyEntry, CB!EmptyEntry
<1>6. DOMAIN P!Logged = 1 .. P!Count
  BY <1>3, LenProperties
<1> QED
  BY <1>2, <1>3, <1>5, <1>6 DEF InRing

LEMMA LoggedIsInRing ==
  RingInv => \A k \in DOMAIN CB!Logged :
               \E i \in CB!Slots : InRing(i) /\ CB!Logged[k] = entry[i]
BY LoggedOfRing

(* A ring nothing was added to remembers nothing. *)
LEMMA EmptyLog ==
  ASSUME RingInv, in_offs = 0, ~full
  PROVE  Commands = << >>
<1>1. out_offs = 0
  BY DEF RingInv
<1>2. CB!Count = 0
  BY <1>1, AesdCharAssumption DEF CB!Count
<1>3. CB!Logged \in Seq(CB!Entries) /\ DOMAIN CB!Logged = {}
  BY <1>2, LoggedOfRing DEF CB!Logged
<1>4. CB!Logged = << >>
  BY <1>3, LenProperties, EmptySeq
<1> QED
  BY <1>4 DEF Commands

LEMMA AddToLogged ==
  ASSUME RingInv, NEW e \in CB!Entries, CB!aesd_circular_buffer_add_entry(e)
  PROVE  CB!Logged' = Append(IF Len(CB!Logged) = MaxWriteOps THEN Tail(CB!Logged)
                             ELSE CB!Logged, e)
<1>1. P!RingInv
  BY RingInvSame
<1>2. P!aesd_circular_buffer_add_entry(e) /\ e \in P!Entries
  BY DEF CB!aesd_circular_buffer_add_entry, P!aesd_circular_buffer_add_entry, CB!Entries, P!Entries,
     CB!NextSlot, P!NextSlot, CB!SizeAfterAdd, P!SizeAfterAdd, CB!OldestAfterAdd, P!OldestAfterAdd,
     CB!FullAfterAdd, P!FullAfterAdd
<1>3. P!RW!Remember(e)
  BY <1>1, <1>2, P!AddRemembers, AesdCharAssumption
<1>4. CB!Logged = P!Logged /\ CB!Logged' = P!Logged'
  BY DEF CB!Logged, P!Logged, CB!Count, P!Count, CB!SlotAt, P!SlotAt
<1> QED
  BY <1>3, <1>4 DEF P!RW!Remember

-----------------------------------------------------------------------------
(* What changes neither.                                                    *)

LEMMA CommandsStay ==
  ASSUME RingInv, UNCHANGED <<entry, in_offs, out_offs, full>>,
         \A i \in CB!Slots : InRing(i) => heap'[entry[i].buffptr] = heap[entry[i].buffptr]
  PROVE  Commands' = Commands
<1>1. CB!Logged' = CB!Logged
  BY DEF CB!Logged, CB!Count, CB!SlotAt
<1>2. \A k \in DOMAIN CB!Logged :
        heap'[CB!Logged[k].buffptr] = heap[CB!Logged[k].buffptr]
  BY LoggedOfRing
<1> QED
  BY <1>1, <1>2 DEF Commands

LEMMA UnfinishedStays ==
  ASSUME LockInv, LockInv', Pending' = Pending, UNCHANGED buffer_size,
         \A u \in Task :
           /\ (pc'[u] = "commit") <=> (pc[u] = "commit")
           /\ pc[u] = "commit" => frame'[u].ret = frame[u].ret
  PROVE  Unfinished' = Unfinished
<1>1. CASE \E u \in Task : pc[u] = "commit"
  <2>1. PICK u \in Task : pc[u] = "commit" /\ pc'[u] = "commit"
    BY <1>1
  <2>2. lock = u /\ lock' = u
    BY <2>1 DEF LockInv, MutualExclusion, Critical
  <2> QED
    BY <2>1, <2>2 DEF Unfinished
<1>2. CASE ~ \E u \in Task : pc[u] = "commit"
  BY <1>2 DEF Unfinished
<1> QED
  BY <1>1, <1>2

LEMMA QuietKeepsLog ==
  ASSUME LogInv, HeapInv', Quiet
  PROVE  LogInv' /\ UNCHANGED <<log, pending>>
<1>1. /\ UNCHANGED <<entry, in_offs, out_offs, full, dev_buffer, buffer_size, heap, loaded>>
      /\ \A u \in Task :
           /\ frame'[u].wdata = frame[u].wdata
           /\ (pc'[u] = "commit") <=> (pc[u] = "commit")
           /\ pc[u] = "commit" => frame'[u].ret = frame[u].ret
  BY DEF Quiet, dev, ring
<1>2. LogInv'
  BY <1>1 DEF LogInv, CommitKnows
<1>3. Commands' = Commands
  BY <1>1, CommandsStay DEF LogInv, HeapInv, DeviceType
<1>4. Unfinished' = Unfinished
  <2>1. Pending' = Pending
    BY <1>1 DEF Pending
  <2> QED
    BY <1>1, <2>1, UnfinishedStays DEF LogInv, HeapInv
<1> QED
  BY <1>1, <1>2, <1>3, <1>4 DEF log, pending

(* The data of a new write is invisible: it goes to a block of its own.     *)
LEMMA DataKeepsLog ==
  ASSUME LogInv, HeapInv', NEW t \in Task, NEW data \in UserData, NEW b \in FreeBlocks,
         BringsData(t, data, b)
  PROVE  LogInv' /\ UNCHANGED <<log, pending>>
<1>1. /\ UNCHANGED <<entry, in_offs, out_offs, full, dev_buffer, buffer_size, loaded>>
      /\ pc[t] = "user" /\ pc'[t] = "lock"
      /\ \A u \in Task : u # t => frame'[u] = frame[u] /\ pc'[u] = pc[u]
  BY DEF BringsData, dev, ring
<1>2. b \in Block /\ heap[b] = FREE /\ \A x \in Block : x # b => heap'[x] = heap[x]
  BY DEF BringsData, FreeBlocks, LogInv, HeapInv, DeviceType
<1>3. \A u \in Task : /\ (pc'[u] = "commit") <=> (pc[u] = "commit")
                      /\ pc[u] = "commit" => frame'[u] = frame[u]
  BY <1>1
<1>4. loaded => DeviceBlocks
  BY DEF LogInv, HeapInv
<1>5. loaded => \A i \in CB!Slots : InRing(i) => heap'[entry[i].buffptr] = heap[entry[i].buffptr]
  BY <1>2, <1>4, FreeIsNoContent
  DEF DeviceBlocks, Holds, LogInv, HeapInv, DeviceType, RingInv, CB!TypeOK, CB!Entries, InRing
<1>6. loaded /\ HasPending => heap'[dev_buffer] = heap[dev_buffer]
  BY <1>2, <1>4, FreeIsNoContent DEF DeviceBlocks, Holds, LogInv, HeapInv, DeviceType, HasPending
<1>7. \A u \in Task : pc[u] = "commit" =>
        /\ heap'[frame[u].wdata] = heap[frame[u].wdata]
        /\ loaded /\ HasPending
  <2> SUFFICES ASSUME NEW u \in Task, pc[u] = "commit"
               PROVE  /\ heap'[frame[u].wdata] = heap[frame[u].wdata]
                      /\ loaded /\ HasPending
    OBVIOUS
  <2>1. Writing(u) /\ loaded
    BY SoleWriter DEF LogInv
  <2>2. frame[u].wdata \in Block /\ heap[frame[u].wdata] \in UserData
    BY <2>1 DEF LogInv, HeapInv, WriteData
  <2>3. heap'[frame[u].wdata] = heap[frame[u].wdata]
    BY <1>2, <2>2, FreeIsNoContent
  <2> QED
    BY <2>1, <2>3 DEF LogInv, HeapInv, CommitReady
<1>8. LogInv'
  BY <1>1, <1>3, <1>6, <1>7 DEF LogInv, CommitKnows
<1>9. loaded => Commands' = Commands
  BY <1>1, <1>5, CommandsStay DEF LogInv, HeapInv, DeviceType
<1>10. loaded => Unfinished' = Unfinished
  <2>1. loaded => Pending' = Pending
    BY <1>1, <1>6 DEF Pending, HasPending, LogInv, HeapInv, DeviceType
  <2> QED
    BY <1>1, <1>3, <2>1, UnfinishedStays DEF LogInv, HeapInv
<1> QED
  BY <1>1, <1>8, <1>9, <1>10 DEF log, pending

-----------------------------------------------------------------------------
(* aesd_write.                                                              *)

LEMMA PrefixOfConcat ==
  ASSUME NEW S, NEW p \in Seq(S), NEW c \in Seq(S)
  PROVE  SubSeq(p \o c, 1, Len(p)) = p
<1> DEFINE s == p \o c
<1>1. Len(p) \in Nat /\ Len(c) \in Nat /\ \A i \in 1 .. Len(p) : p[i] \in S
  BY LenProperties, ElementOfSeq
<1>2. \A i \in 1 .. Len(p) + Len(c) : s[i] = IF i <= Len(p) THEN p[i] ELSE c[i - Len(p)]
  BY ConcatProperties
<1>3. \A i \in 1 .. Len(p) : s[i] = p[i] /\ s[i] \in S
  BY <1>1, <1>2
<1> HIDE DEF s
<1>4. /\ SubSeq(s, 1, Len(p)) \in Seq(S)
      /\ Len(SubSeq(s, 1, Len(p))) = Len(p)
      /\ \A i \in 1 .. Len(p) : SubSeq(s, 1, Len(p))[i] = s[i]
  <2>1. /\ SubSeq(s, 1, Len(p)) \in Seq(S)
        /\ Len(SubSeq(s, 1, Len(p))) = IF 1 <= Len(p) THEN Len(p) - 1 + 1 ELSE 0
        /\ \A i \in 1 .. Len(p) - 1 + 1 : SubSeq(s, 1, Len(p))[i] = s[1 + i - 1]
    BY <1>1, <1>3, SubSeqProperties
  <2> QED
    BY <1>1, <2>1
<1>5. SubSeq(s, 1, Len(p)) = p
  BY <1>1, <1>3, <1>4, SeqEqual
<1> QED
  BY <1>5 DEF s

(* A chunk that does not end the command extends the unfinished one; one    *)
(* that does is not visible before it is committed.                         *)
LEMMA AppendExtends ==
  ASSUME LogInv, HeapInv', NEW t \in Task, WriteAppend(t)
  PROVE  LogInv' /\ [CL!Next]_<<log, pending>>
<1> DEFINE wd == frame[t].wdata
           c  == Chunk(heap[wd])
           n  == Len(Chunk(heap[wd]))
<1>1. /\ pc[t] = "append" /\ Writing(t) /\ wd \in Block /\ loaded /\ HeapInv
      /\ UNCHANGED <<ring, loaded>>
  BY SoleWriter DEF WriteAppend, LogInv
<1>2. UNCHANGED <<entry, in_offs, out_offs, full, size>>
  BY <1>1 DEF ring
<1>3. PICK b \in Targets :
        /\ dev_buffer' = b
        /\ buffer_size' = buffer_size + n
        /\ IF full_packet(heap[wd])
           THEN /\ heap' = HeapAfterAppend(t, b)
                /\ pc' = [pc EXCEPT ![t] = "commit"]
                /\ frame' = [frame EXCEPT ![t].ret = n]
           ELSE /\ heap' = [HeapAfterAppend(t, b) EXCEPT ![wd] = FREE]
                /\ WriteFinish(t, n)
  BY DEF WriteAppend
<1> DEFINE h == HeapAfterAppend(t, b)
<1>4. /\ b \in Block
      /\ \A i \in CB!Slots : InRing(i) => entry[i].buffptr # b
      /\ \A u \in Task : Writing(u) => frame[u].wdata # b
  BY <1>1, TargetIsOwn
<1>5. /\ n \in Nat \ {0}
      /\ h \in [Block -> Seq(Byte) \cup {FREE}]
      /\ h[b] = Pending \o c
      /\ \A x \in Block :
           x # b /\ ~(HasPending /\ x = dev_buffer) => h[x] = heap[x]
  BY <1>1, AppendToHeap
<1>6. /\ heap[wd] \in UserData /\ c \in Seq(Byte)
      /\ (c[n] = NL) <=> full_packet(heap[wd])
  BY <1>1, ChunkOfData DEF HeapInv, WriteData
<1>7. Pending \in Seq(Byte) /\ Len(Pending) = buffer_size /\ buffer_size \in Nat
  BY <1>1, PendingLength DEF HeapInv, DeviceType
<1>8. SubSeq(Pending \o c, 1, buffer_size) = Pending
  <2> HIDE DEF c
  <2> QED
    BY <1>6, <1>7, PrefixOfConcat
<1>9. \A i \in CB!Slots : InRing(i) =>
        /\ entry[i].buffptr \in Block /\ entry[i].buffptr # wd
        /\ h[entry[i].buffptr] = heap[entry[i].buffptr]
  <2>1. \A i \in CB!Slots : InRing(i) => entry[i].buffptr \in Block
    BY <1>1 DEF HeapInv, DeviceType, RingInv, CB!TypeOK, CB!Entries, InRing
  <2> QED
    BY <1>1, <1>4, <1>5, <2>1 DEF HeapInv, DeviceBlocks
<1>10. h[wd] = heap[wd] /\ wd # b
  BY <1>1, <1>4, <1>5 DEF HeapInv, DeviceBlocks
<1>11. b # NULL /\ buffer_size' # 0 /\ buffer_size' = buffer_size + n /\ n \in Nat
       /\ buffer_size' - n = buffer_size /\ n <= buffer_size'
  <2>1. b # NULL
    BY <1>4, AesdCharAssumption
  <2> HIDE DEF n
  <2> QED
    BY <1>3, <1>5, <1>7, <2>1
<1>12. \A u \in Task : u # t => pc[u] # "commit"
  BY <1>1, SoleWriter
<1>13. log = Commands /\ pending = Pending
  BY <1>1, <1>12 DEF log, pending, Unfinished
<1>14. DOMAIN frame = Task /\ pc \in [Task -> Critical \cup {"user", "lock", "return"}]
       /\ DOMAIN frame[t] = DOMAIN IdleFrame
  BY <1>1 DEF HeapInv, LockInv, FrameType
<1> HIDE DEF h
<1>15. CASE full_packet(heap[wd])
  <2>1. heap' = h /\ pc' = [pc EXCEPT ![t] = "commit"] /\ frame' = [frame EXCEPT ![t].ret = n]
    BY <1>3, <1>15 DEF h
  <2>2. /\ pc'[t] = "commit" /\ frame'[t].ret = n /\ frame'[t].wdata = wd
        /\ \A u \in Task : u # t => pc'[u] = pc[u]
    BY <1>14, <2>1 DEF IdleFrame
  <2>3. Pending' = Pending \o c
    BY <1>3, <1>5, <1>11, <2>1 DEF Pending
  <2>4. lock' = t
    BY <2>2 DEF HeapInv, LockInv, MutualExclusion, Critical
  <2>5. Unfinished' = Pending
    <3>1. Unfinished' = SubSeq(Pending', 1, buffer_size' - n)
      BY <2>2, <2>4 DEF Unfinished
    <3> QED
      BY <1>8, <1>11, <2>3, <3>1
  <2>6. Commands' = Commands
    BY <1>1, <1>2, <1>9, <2>1, CommandsStay DEF HeapInv, DeviceType
  <2>7. UNCHANGED <<log, pending>>
    BY <1>1, <1>13, <2>5, <2>6 DEF log, pending
  <2>8. CommitKnows(t)'
    <3>1. heap'[frame'[t].wdata] = heap[wd]
      BY <1>10, <2>1, <2>2
    <3>2. heap'[dev_buffer'] = Pending \o c
      BY <1>3, <1>5, <2>1
    <3>3. SubSeq(heap'[dev_buffer'], 1, buffer_size' - n) = Pending
      BY <1>8, <1>11, <3>2
    <3> QED
      BY <1>11, <1>15, <2>2, <3>1, <3>2, <3>3 DEF CommitKnows
  <2>9. \A u \in Task : pc'[u] = "commit" => u = t
    BY <1>12, <2>2
  <2> QED
    BY <2>7, <2>8, <2>9 DEF LogInv
<1>16. CASE ~full_packet(heap[wd])
  <2>1. heap' = [h EXCEPT ![wd] = FREE] /\ WriteFinish(t, n)
    BY <1>3, <1>16 DEF h
  <2>2. pc'[t] = "return" /\ \A u \in Task : u # t => pc'[u] = pc[u]
    BY <1>1, <2>1, FinishFrame DEF HeapInv, LockInv, WriteFinish
  <2>3. \A u \in Task : pc'[u] # "commit"
    BY <1>12, <2>2
  <2>4. LogInv'
    BY <2>3 DEF LogInv
  <2>5. Pending' = Pending \o c
    <3>1. heap'[b] = h[b]
      BY <1>4, <1>5, <1>10, <2>1
    <3> QED
      BY <1>3, <1>5, <1>11, <3>1 DEF Pending
  <2>6. Commands' = Commands
    <3>1. \A i \in CB!Slots : InRing(i) => heap'[entry[i].buffptr] = heap[entry[i].buffptr]
      BY <1>5, <1>9, <2>1
    <3> QED
      BY <1>1, <1>2, <3>1, CommandsStay DEF HeapInv, DeviceType
  <2>7. log' = log /\ pending' = pending \o c
    BY <1>1, <1>13, <2>3, <2>5, <2>6 DEF log, pending, Unfinished
  <2>8. c[Len(c)] # NL
    BY <1>6, <1>16
  <2>9. CL!Extend(c)
    BY <2>7, <2>8 DEF CL!Extend, log, pending
  <2> QED
    BY <1>6, <2>4, <2>9 DEF CL!Next
<1> QED
  BY <1>15, <1>16

(* Without memory the unfinished command turns to junk, if there is one.    *)
LEMMA NoMemoryLoses ==
  ASSUME LogInv, HeapInv', NEW t \in Task, WriteNoMemory(t)
  PROVE  LogInv' /\ [CL!Next]_<<log, pending>>
<1> DEFINE wd == frame[t].wdata
<1>1. /\ pc[t] = "append" /\ Writing(t) /\ wd \in Block /\ loaded /\ HeapInv
      /\ UNCHANGED <<ring, buffer_size, loaded>>
      /\ dev_buffer' = NULL
      /\ heap' = [heap EXCEPT ![wd] = FREE]
      /\ WriteFinish(t, -ENOMEM)
  BY SoleWriter DEF WriteNoMemory, LogInv
<1>2. UNCHANGED <<entry, in_offs, out_offs, full, size>>
  BY <1>1 DEF ring
<1>3. pc'[t] = "return" /\ \A u \in Task : u # t => pc'[u] = pc[u] /\ pc[u] # "commit"
  BY <1>1, FinishFrame, SoleWriter DEF HeapInv, LockInv, WriteFinish
<1>4. \A u \in Task : pc[u] # "commit" /\ pc'[u] # "commit"
  BY <1>1, <1>3
<1>5. LogInv'
  BY <1>4 DEF LogInv
<1>6. Commands' = Commands
  <2>1. \A i \in CB!Slots : InRing(i) => entry[i].buffptr \in Block /\ entry[i].buffptr # wd
    BY <1>1 DEF HeapInv, DeviceBlocks, DeviceType, RingInv, CB!TypeOK, CB!Entries, InRing
  <2>2. \A i \in CB!Slots : InRing(i) => heap'[entry[i].buffptr] = heap[entry[i].buffptr]
    BY <1>1, <2>1 DEF HeapInv, DeviceType
  <2> QED
    BY <1>1, <1>2, <2>2, CommandsStay DEF HeapInv, DeviceType
<1>7. log' = log /\ pending = Pending /\ pending' = Pending'
  BY <1>1, <1>4, <1>6 DEF log, pending, Unfinished
<1>8. CASE buffer_size = 0
  <2>1. pending' = pending
    BY <1>1, <1>7, <1>8 DEF Pending
  <2> QED
    BY <1>5, <1>7, <2>1
<1>9. CASE buffer_size # 0
  <2>1. Pending \in Seq(Byte) /\ Len(Pending) = buffer_size /\ buffer_size \in Nat
    BY <1>1, PendingLength DEF HeapInv, DeviceType
  <2>2. DOMAIN Pending = 1 .. buffer_size /\ Pending # << >>
    BY <1>9, <2>1, LenProperties, EmptySeq
  <2>3. Pending' = [i \in 1 .. buffer_size |-> JUNK]
    BY <1>1, <1>9 DEF Pending
  <2>4. CL!LosePending
    BY <1>7, <2>2, <2>3 DEF CL!LosePending, log, pending
  <2> QED
    BY <1>5, <2>4 DEF CL!Next
<1> QED
  BY <1>8, <1>9

(* The commit makes the command visible, and forgets the oldest one of a    *)
(* full ring.                                                               *)
LEMMA CommitCompletes ==
  ASSUME LogInv, HeapInv', NEW t \in Task, WriteCommit(t)
  PROVE  LogInv' /\ [CL!Next]_<<log, pending>>
<1> DEFINE wd == frame[t].wdata
           c  == Chunk(heap[wd])
           n  == Len(Chunk(heap[wd]))
           e  == [buffptr |-> dev_buffer, size |-> buffer_size]
<1>1. /\ pc[t] = "commit" /\ Writing(t) /\ wd \in Block /\ loaded /\ HeapInv
      /\ CB!aesd_circular_buffer_add_entry(e)
      /\ buffer_size' = 0
      /\ heap' = [heap EXCEPT ![wd] = FREE]
      /\ WriteFinish(t, frame[t].ret)
      /\ UNCHANGED <<dev_buffer, loaded>>
  BY SoleWriter DEF WriteCommit, LogInv
<1>2. HasPending /\ dev_buffer \in Block /\ CommitKnows(t) /\ RingInv
  BY <1>1 DEF LogInv, HeapInv, CommitReady, DeviceType, HasPending
<1>3. e \in CB!Entries
  BY <1>1, <1>2 DEF HasPending, CB!Entries, HeapInv, DeviceType
<1>4. pc'[t] = "return" /\ \A u \in Task : u # t => pc'[u] = pc[u] /\ pc[u] # "commit"
  BY <1>1, FinishFrame, SoleWriter DEF HeapInv, LockInv, WriteFinish
<1>5. \A u \in Task : pc'[u] # "commit"
  BY <1>4
<1>6. LogInv'
  BY <1>5 DEF LogInv
<1>7. /\ heap[wd] \in UserData
      /\ (c[n] = NL) <=> full_packet(heap[wd])
  BY <1>1, ChunkOfData DEF HeapInv, WriteData
<1>8. lock = t
  BY <1>1 DEF HeapInv, LockInv, MutualExclusion, Critical
<1>9. log = Commands /\ Pending = heap[dev_buffer]
      /\ pending = SubSeq(heap[dev_buffer], 1, buffer_size - n)
  <2>1. Pending = heap[dev_buffer]
    BY <1>2 DEF HasPending, Pending, HeapInv, DeviceType
  <2>2. Unfinished = SubSeq(Pending, 1, buffer_size - frame[t].ret)
    BY <1>1, <1>8 DEF Unfinished
  <2>3. frame[t].ret = n
    BY <1>2 DEF CommitKnows
  <2> QED
    BY <1>1, <2>1, <2>2, <2>3 DEF log, pending
<1>10. heap[dev_buffer] = pending \o c
  BY <1>2, <1>9 DEF CommitKnows
<1>11. pending' = << >>
  BY <1>1, <1>5 DEF pending, Unfinished, Pending
<1> DEFINE kept == IF Len(CB!Logged) = MaxWriteOps THEN Tail(CB!Logged) ELSE CB!Logged
<1>12. CB!Logged' = Append(kept, e)
  <2> HIDE DEF e
  <2> QED
    BY <1>1, <1>2, <1>3, AddToLogged
<1>13. /\ CB!Logged \in Seq(CB!Entries)
       /\ \A k \in DOMAIN CB!Logged : \E i \in CB!Slots : InRing(i) /\ CB!Logged[k] = entry[i]
  BY <1>2, LoggedOfRing
<1>14. kept \in Seq(CB!Entries)
  <2>1. Len(CB!Logged) = MaxWriteOps => CB!Logged # << >>
    BY <1>13, AesdCharAssumption, EmptySeq
  <2> QED
    BY <1>13, <2>1, HeadTailProperties
<1>15. Commands = Contents(heap, CB!Logged) /\ Commands' = Contents(heap', CB!Logged')
  BY DEF Commands, Contents
<1>16. \A k \in DOMAIN CB!Logged' : heap'[CB!Logged'[k].buffptr] = heap[CB!Logged'[k].buffptr]
  <2>1. RingInv' /\ loaded' /\ DeviceBlocks'
    BY <1>1 DEF HeapInv, DeviceType
  <2>2. (RingInv => \A k \in DOMAIN CB!Logged :
                      \E i \in CB!Slots : InRing(i) /\ CB!Logged[k] = entry[i])'
    BY LoggedIsInRing, PTL
  <2>3. heap'[wd] = FREE /\ \A x \in Block : x # wd => heap'[x] = heap[x]
    BY <1>1 DEF HeapInv, DeviceType
  <2>4. \A i \in CB!Slots : InRing(i)' => heap'[entry'[i].buffptr] \in Seq(Byte)
    BY <2>1 DEF DeviceBlocks, Holds
  <2>5. \A i \in CB!Slots : InRing(i)' => entry'[i].buffptr \in Block
    BY <2>1 DEF RingInv, CB!TypeOK, CB!Entries, InRing
  <2>6. \A i \in CB!Slots : InRing(i)' => heap'[entry'[i].buffptr] = heap[entry'[i].buffptr]
    BY <2>3, <2>4, <2>5, FreeIsNoContent
  <2> QED
    BY <2>1, <2>2, <2>6
<1>17. Commands' = Contents(heap, CB!Logged')
  BY <1>15, <1>16 DEF Contents
<1>18. Contents(heap, Append(kept, e)) = Append(Contents(heap, kept), heap[dev_buffer])
  <2>1. e.buffptr = dev_buffer
    OBVIOUS
  <2> HIDE DEF e, kept
  <2> QED
    BY <1>3, <1>14, <2>1, ContentsOfAppend
<1>19. /\ Len(Commands) = Len(CB!Logged)
       /\ CB!Logged # << >> => Contents(heap, Tail(CB!Logged)) = Tail(Commands)
  BY <1>3, <1>13, <1>15, ContentsOfAppend
<1>20. Contents(heap, kept) =
         IF Len(Commands) = MaxWriteOps THEN Tail(Commands) ELSE Commands
  <2>1. Len(CB!Logged) = MaxWriteOps => CB!Logged # << >>
    BY <1>13, AesdCharAssumption, EmptySeq
  <2> QED
    BY <1>15, <1>19, <2>1
<1>21. log' = Append(IF Len(log) = MaxWriteOps THEN Tail(log) ELSE log, pending \o c)
  <2>1. log' = Commands'
    BY <1>1 DEF log
  <2>2. Commands' = Append(Contents(heap, kept), heap[dev_buffer])
    BY <1>12, <1>17, <1>18
  <2> QED
    BY <1>9, <1>10, <1>20, <2>1, <2>2
<1>22. c[Len(c)] = NL
  BY <1>2, <1>7 DEF CommitKnows
<1>23. CL!Complete(c)
  BY <1>11, <1>21, <1>22 DEF CL!Complete, log, pending
<1> QED
  BY <1>6, <1>7, <1>23 DEF CL!Next

-----------------------------------------------------------------------------
(* The system.                                                              *)

LEMMA InitLog == Init => LogInv /\ log = << >> /\ pending = << >>
<1> SUFFICES ASSUME Init PROVE LogInv /\ log = << >> /\ pending = << >>
  OBVIOUS
<1>1. LogInv
  BY InitHeap DEF Init, LogInv
<1>2. Pending = << >> /\ \A t \in Task : pc[t] # "commit"
  BY DEF Init, Pending
<1>3. in_offs = 0 /\ ~full /\ RingInv /\ loaded
  BY <1>1 DEF Init, CB!Init, LogInv, HeapInv, DeviceType
<1>4. Commands = << >>
  BY <1>3, EmptyLog
<1> QED
  BY <1>1, <1>2, <1>3, <1>4 DEF log, pending, Unfinished

(* Loading starts with an empty log, unloading forgets everything.          *)
LEMMA ModuleForgets ==
  ASSUME LogInv, HeapInv', aesd_init_module \/ aesd_cleanup_module
  PROVE  LogInv' /\ [CL!Next]_<<log, pending>>
<1>1. CASE aesd_init_module
  <2>1. /\ ~loaded /\ in_offs' = 0 /\ ~full' /\ buffer_size' = 0 /\ pc' = pc
    BY <1>1 DEF aesd_init_module, CB!aesd_circular_buffer_init
  <2>2. \A u \in Task : pc'[u] # "commit"
    BY <2>1, LoadedInCall DEF LogInv, HeapInv
  <2>3. (RingInv /\ in_offs = 0 /\ ~full => Commands = << >>)'
    BY EmptyLog, PTL
  <2>4. Commands' = << >>
    BY <2>1, <2>3 DEF HeapInv, DeviceType
  <2>5. Unfinished' = << >>
    BY <2>1, <2>2 DEF Unfinished, Pending
  <2> QED
    BY <2>1, <2>2, <2>4, <2>5 DEF LogInv, log, pending
<1>2. CASE aesd_cleanup_module
  <2>1. ~loaded' /\ opened = {} /\ pc' = pc
    BY <1>2 DEF aesd_cleanup_module
  <2>2. \A u \in Task : pc'[u] # "commit"
    BY <2>1 DEF LogInv, HeapInv, LockInv, CallsHaveOpenFile
  <2>3. CL!Forget
    BY <2>1 DEF CL!Forget, log, pending
  <2> QED
    BY <2>2, <2>3 DEF LogInv, CL!Next
<1> QED
  BY <1>1, <1>2

LEMMA NextKeepsLog ==
  LogInv /\ HeapInv' /\ [Next]_vars => LogInv' /\ [CL!Next]_<<log, pending>>
<1> SUFFICES ASSUME LogInv, HeapInv', [Next]_vars
             PROVE  LogInv' /\ [CL!Next]_<<log, pending>>
  OBVIOUS
<1>1. CASE UNCHANGED vars
  <2>1. Quiet
    BY <1>1 DEF vars, Quiet
  <2> QED
    BY <2>1, QuietKeepsLog
<1>2. CASE Next
  BY <1>2, MemorySteps, QuietKeepsLog, DataKeepsLog, AppendExtends, NoMemoryLoses,
     CommitCompletes, ModuleForgets DEF LogInv
<1> QED
  BY <1>1, <1>2

THEOREM LogInvariant == Spec => []LogInv
<1>1. LogInv /\ HeapInv' /\ [Next]_vars => LogInv'
  BY NextKeepsLog
<1>2. Init => LogInv
  BY InitLog
<1> QED
  BY <1>1, <1>2, HeapInvariant, PTL DEF Spec

(* Every step of the driver is a step of CommandLog or invisible: for any   *)
(* number of concurrent writers, whatever allocation fails, /dev/aesdchar   *)
(* holds the last MaxWriteOps commands whole and in order, never torn or    *)
(* mixed, and one unfinished command.                                       *)
THEOREM DriverImplementsCommandLog == Spec => ImplementsCommandLog
<1>1. Init => CL!Init
  BY InitLog DEF CL!Init, log, pending
<1>2. LogInv /\ HeapInv' /\ [Next]_vars =>
        [CL!Next]_<<IF loaded THEN Commands ELSE << >>,
                    IF loaded THEN Unfinished ELSE << >>>>
  BY NextKeepsLog DEF log, pending
<1> QED
  BY <1>1, <1>2, LogInvariant, HeapInvariant, PTL DEF Spec, ImplementsCommandLog, CL!Spec

-----------------------------------------------------------------------------
(* The text: the commands end to end.                                       *)

LEMMA UpTo ==
  ASSUME NEW n \in Nat, NEW T, 0 \in T, \A k \in 1 .. n : k - 1 \in T => k \in T
  PROVE  \A k \in 0 .. n : k \in T
BY P!UpTo, AesdCharAssumption

LEMMA FlattenSteps ==
  ASSUME NEW S, NEW seqs \in Seq(Seq(S))
  PROVE  \E g \in [0 .. Len(seqs) -> Seq(S)] :
           /\ g[0] = << >>
           /\ \A k \in 1 .. Len(seqs) : g[k] = g[k - 1] \o seqs[k]
           /\ FlattenSeq(seqs) = g[Len(seqs)]
<1>1. FlattenSeq(seqs) = P!RW!FlattenSeq(seqs)
  BY DEF FlattenSeq, P!RW!FlattenSeq
<1>2. \E g \in [0 .. Len(seqs) -> Seq(S)] :
           /\ g[0] = << >>
           /\ \A k \in 1 .. Len(seqs) : g[k] = g[k - 1] \o seqs[k]
           /\ P!RW!FlattenSeq(seqs) = g[Len(seqs)]
  BY P!FlattenSteps, AesdCharAssumption
<1>3. QED
  BY <1>1, <1>2

(* at[k] is how many elements the first k of seqs have together. *)
Ends(seqs, at) ==
  /\ at \in [0 .. Len(seqs) -> Nat]
  /\ at[0] = 0
  /\ \A k \in 1 .. Len(seqs) : at[k] = at[k - 1] + Len(seqs[k])

(* The elements of the k-th of seqs stand behind those of the ones before.  *)
LEMMA FlattenBytes ==
  ASSUME NEW S, NEW seqs \in Seq(Seq(S)), NEW at, Ends(seqs, at)
  PROVE  /\ FlattenSeq(seqs) \in Seq(S)
         /\ Len(FlattenSeq(seqs)) = at[Len(seqs)]
         /\ \A k \in 1 .. Len(seqs) : \A i \in 1 .. Len(seqs[k]) :
              /\ at[k - 1] + i \in 1 .. at[Len(seqs)]
              /\ FlattenSeq(seqs)[at[k - 1] + i] = seqs[k][i]
<1> DEFINE n == Len(seqs)
<1>1. n \in Nat /\ \A k \in 1 .. n : seqs[k] \in Seq(S) /\ Len(seqs[k]) \in Nat
  BY LenProperties, ElementOfSeq
<1>2. PICK g \in [0 .. n -> Seq(S)] :
        /\ g[0] = << >>
        /\ \A k \in 1 .. n : g[k] = g[k - 1] \o seqs[k]
        /\ FlattenSeq(seqs) = g[n]
  BY FlattenSteps
<1>3. /\ at \in [0 .. n -> Nat] /\ at[0] = 0
      /\ \A k \in 1 .. n : at[k] = at[k - 1] + Len(seqs[k])
  BY DEF Ends
<1> HIDE DEF n
<1> DEFINE InPlace(m) ==
             /\ Len(g[m]) = at[m]
             /\ \A k \in 1 .. m : \A i \in 1 .. Len(seqs[k]) :
                  /\ at[k - 1] + i \in 1 .. at[m]
                  /\ g[m][at[k - 1] + i] = seqs[k][i]
           T == {m \in 0 .. n : InPlace(m)}
<1>4. 0 \in T
  <2>1. Len(g[0]) = 0
    BY <1>2, EmptySeq
  <2>2. QED
    BY <1>1, <1>3, <2>1
<1>5. ASSUME NEW m \in 1 .. n, m - 1 \in T PROVE m \in T
  <2> DEFINE a == g[m - 1]
             b == seqs[m]
             la == at[m - 1]
             lb == Len(seqs[m])
  <2>1. m \in 0 .. n /\ m - 1 \in 0 .. n
    BY <1>1
  <2>2. a \in Seq(S) /\ b \in Seq(S) /\ lb \in Nat /\ la \in Nat
    BY <1>1, <1>2, <1>3, <2>1
  <2>3. /\ Len(a) = la
        /\ \A k \in 1 .. m - 1 : \A i \in 1 .. Len(seqs[k]) :
             /\ at[k - 1] + i \in 1 .. la
             /\ a[at[k - 1] + i] = seqs[k][i]
    BY <1>5
  <2>4. g[m] = a \o b /\ at[m] = la + lb
    BY <1>2, <1>3
  <2>5. Len(b) = lb
    OBVIOUS
  <2>6. ASSUME NEW k \in 1 .. m, k # m PROVE k \in 1 .. m - 1
    BY <1>1, <2>6
  <2>7. at[m - 1] = la /\ seqs[m] = b
    OBVIOUS
  <2> HIDE DEF a, b, la, lb
  <2>8. /\ Len(a \o b) = la + lb
        /\ \A j \in 1 .. la + lb : (a \o b)[j] = IF j <= la THEN a[j] ELSE b[j - la]
    BY <2>2, <2>3, <2>5, ConcatProperties
  <2>9. Len(g[m]) = at[m]
    BY <2>4, <2>8
  <2>10. ASSUME NEW k \in 1 .. m, NEW i \in 1 .. Len(seqs[k])
         PROVE  /\ at[k - 1] + i \in 1 .. at[m]
                /\ g[m][at[k - 1] + i] = seqs[k][i]
    <3> DEFINE j == at[k - 1] + i
    <3>1. CASE k = m
      <4>1. j = la + i /\ i \in 1 .. lb
        BY <2>5, <2>7, <3>1
      <4>2. j \in 1 .. la + lb /\ ~(j <= la) /\ j - la = i
        BY <2>2, <4>1
      <4> HIDE DEF j
      <4>3. (a \o b)[j] = b[i]
        BY <2>8, <4>2
      <4>4. QED
        BY <2>4, <2>7, <3>1, <4>2, <4>3 DEF j
    <3>2. CASE k # m
      <4>1. j \in 1 .. la /\ a[j] = seqs[k][i]
        BY <2>3, <2>6, <3>2
      <4> HIDE DEF j
      <4>2. j \in 1 .. la + lb /\ j <= la
        BY <2>2, <4>1
      <4>3. (a \o b)[j] = a[j]
        BY <2>8, <4>2
      <4>4. QED
        BY <2>4, <4>1, <4>2, <4>3 DEF j
    <3>3. QED
      BY <3>1, <3>2
  <2>11. QED
    BY <2>1, <2>9, <2>10
<1>6. \A m \in 0 .. n : m \in T
  <2> HIDE DEF T
  <2>1. QED
    BY <1>1, <1>4, <1>5, UpTo
<1>7. InPlace(n)
  <2>1. n \in 0 .. n
    BY <1>1
  <2>2. n \in T
    <3> HIDE DEF T
    <3>1. QED
      BY <1>6, <2>1
  <2>3. QED
    BY <2>2
<1>8. g[n] \in Seq(S)
  BY <1>1, <1>2
<1>9. QED
  BY <1>2, <1>7, <1>8 DEF n

(* The driver's ring is the one of CircularBufferProofs. *)
LEMMA SameRing ==
  /\ CB!Slots = P!Slots /\ CB!NoEntry = P!NoEntry /\ CB!EmptyEntry = P!EmptyEntry
  /\ CB!Entries = P!Entries /\ CB!Count = P!Count /\ CB!Logged = P!Logged
  /\ CB!BytesPassed = P!BytesPassed
  /\ \A k : CB!SlotAt(k) = P!SlotAt(k)
<1>1. \A k : CB!SlotAt(k) = P!SlotAt(k)
  BY DEF CB!SlotAt, P!SlotAt
<1>2. CB!Slots = P!Slots /\ CB!NoEntry = P!NoEntry /\ CB!EmptyEntry = P!EmptyEntry
  BY DEF CB!Slots, P!Slots, CB!NoEntry, P!NoEntry, CB!EmptyEntry, P!EmptyEntry
<1>3. CB!Entries = P!Entries /\ CB!Count = P!Count
  BY DEF CB!Entries, P!Entries, CB!Count, P!Count
<1>4. CB!Logged = P!Logged
  BY DEF CB!Logged, P!Logged, CB!Count, P!Count, CB!SlotAt, P!SlotAt
<1>5. CB!BytesPassed = P!BytesPassed
  BY DEF CB!BytesPassed, P!BytesPassed, CB!SlotAt, P!SlotAt
<1>6. QED
  BY <1>1, <1>2, <1>3, <1>4, <1>5

LEMMA SameSearch == \A p : CB!FindEntry(p) = P!FindEntry(p)
BY DEF CB!FindEntry, P!FindEntry, CB!BytesPassed, P!BytesPassed, CB!SlotAt, P!SlotAt,
       CB!Slots, P!Slots, CB!NoEntry, P!NoEntry, CB!Min, P!Min

LEMMA SameRange ==
  ASSUME NEW a \in Nat, NEW b \in Nat, 1 .. a = 1 .. b
  PROVE  a = b
OBVIOUS

Passed == CB!BytesPassed

(* The commands are as long as their entries say, so the counts of the      *)
(* search are where the commands end in the text.                           *)
LEMMA TextOfRing ==
  ASSUME RingInv, DeviceBlocks
  PROVE  /\ Commands \in Seq(Seq(Byte)) /\ Len(Commands) = CB!Count
         /\ CB!Count \in 0 .. MaxWriteOps
         /\ \A k \in 1 .. CB!Count :
              /\ CB!SlotAt(k - 1) \in CB!Slots
              /\ Commands[k] = heap[entry[CB!SlotAt(k - 1)].buffptr]
              /\ Len(Commands[k]) = entry[CB!SlotAt(k - 1)].size
         /\ Passed \in [0 .. MaxWriteOps -> Nat] /\ Passed[0] = 0
         /\ \A k \in 1 .. CB!Count : Passed[k] = Passed[k - 1] + Len(Commands[k])
<1>1. P!RingInv
  BY RingInvSame
<1>2. /\ CB!Count \in 0 .. MaxWriteOps /\ CB!Logged \in Seq(CB!Entries)
      /\ Len(CB!Logged) = CB!Count
      /\ \A k \in 1 .. CB!Count : CB!Logged[k] = entry[CB!SlotAt(k - 1)]
  BY <1>1, SameRing, P!LoggedIsSeq, AesdCharAssumption
<1>3. /\ Passed \in [0 .. MaxWriteOps -> Nat] /\ Passed[0] = 0
      /\ \A k \in CB!Slots : Passed[k + 1] = Passed[k] + entry[CB!SlotAt(k)].size
  <2>1. P!BytesPassedAdds
    BY <1>1, P!BytesPassedSteps, AesdCharAssumption
  <2>2. QED
    BY <2>1, SameRing DEF P!BytesPassedAdds, Passed
<1>4. DOMAIN CB!Logged = 1 .. CB!Count
  BY <1>2, LenProperties
<1>5. \A k \in 1 .. CB!Count : Holds(CB!Logged[k].buffptr, CB!Logged[k].size)
  BY <1>4, LoggedOfRing DEF DeviceBlocks
<1>6. Commands \in [1 .. CB!Count -> Seq(Byte)]
  BY <1>4, <1>5 DEF Commands, Holds
<1>7. Commands \in Seq(Seq(Byte)) /\ Len(Commands) = CB!Count
  <2>1. Commands \in Seq(Seq(Byte))
    BY <1>2, <1>6, SeqDef
  <2>2. DOMAIN Commands = 1 .. Len(Commands) /\ Len(Commands) \in Nat
    BY <2>1, LenProperties
  <2>3. DOMAIN Commands = 1 .. CB!Count /\ CB!Count \in Nat
    BY <1>2, <1>6
  <2>4. Len(Commands) = CB!Count
    BY <2>2, <2>3, SameRange
  <2>5. QED
    BY <2>1, <2>4
<1>8. ASSUME NEW k \in 1 .. CB!Count
      PROVE  /\ Commands[k] = heap[entry[CB!SlotAt(k - 1)].buffptr]
             /\ Len(Commands[k]) = entry[CB!SlotAt(k - 1)].size
             /\ CB!SlotAt(k - 1) \in CB!Slots
             /\ Passed[k] = Passed[k - 1] + Len(Commands[k])
  <2>1. Commands[k] = heap[CB!Logged[k].buffptr]
    BY <1>4 DEF Commands
  <2>2. Len(Commands[k]) = CB!Logged[k].size
    BY <1>5, <2>1 DEF Holds
  <2>3. PICK i \in CB!Slots : i = k - 1 /\ i + 1 = k
    BY <1>2, AesdCharAssumption DEF CB!Slots
  <2>4. Passed[i + 1] = Passed[i] + entry[CB!SlotAt(i)].size
    BY <1>3
  <2>5. CB!SlotAt(i) \in CB!Slots
    BY <1>1, SameRing, P!SearchOrder, AesdCharAssumption
  <2>6. CB!Logged[k] = entry[CB!SlotAt(k - 1)]
    BY <1>2
  <2>7. QED
    BY <2>1, <2>2, <2>3, <2>4, <2>5, <2>6
<1>9. QED
  BY <1>2, <1>3, <1>7, <1>8

(* Where the bytes of a command stand in the text. *)
LEMMA BytesOfText ==
  ASSUME RingInv, DeviceBlocks
  PROVE  /\ Text \in Seq(Byte) /\ Len(Text) = Passed[CB!Count]
         /\ \A k \in 1 .. CB!Count : \A i \in 1 .. Len(Commands[k]) :
              /\ Passed[k - 1] + i \in 1 .. Len(Text)
              /\ Text[Passed[k - 1] + i] = Commands[k][i]
<1> DEFINE n  == CB!Count
           at == [k \in 0 .. n |-> Passed[k]]
<1>1. /\ Commands \in Seq(Seq(Byte)) /\ Len(Commands) = n
      /\ n \in 0 .. MaxWriteOps /\ MaxWriteOps \in Nat
      /\ Passed \in [0 .. MaxWriteOps -> Nat] /\ Passed[0] = 0
      /\ \A k \in 1 .. n : Passed[k] = Passed[k - 1] + Len(Commands[k])
  BY TextOfRing, AesdCharAssumption
<1> HIDE DEF n
<1>2. ASSUME NEW k \in 1 .. n PROVE at[k] = Passed[k] /\ at[k - 1] = Passed[k - 1]
  <2>1. k \in 0 .. n /\ k - 1 \in 0 .. n
    BY <1>1
  <2>2. QED
    BY <2>1
<1>3. at \in [0 .. n -> Nat] /\ at[0] = 0 /\ at[n] = Passed[n]
  BY <1>1
<1>4. Ends(Commands, at)
  <2> HIDE DEF at
  <2>1. QED
    BY <1>1, <1>2, <1>3 DEF Ends
<1> HIDE DEF at
<1>5. /\ FlattenSeq(Commands) \in Seq(Byte)
      /\ Len(FlattenSeq(Commands)) = at[n]
      /\ \A k \in 1 .. n : \A i \in 1 .. Len(Commands[k]) :
           /\ at[k - 1] + i \in 1 .. at[n]
           /\ FlattenSeq(Commands)[at[k - 1] + i] = Commands[k][i]
  <2>1. /\ FlattenSeq(Commands) \in Seq(Byte)
        /\ Len(FlattenSeq(Commands)) = at[Len(Commands)]
        /\ \A k \in 1 .. Len(Commands) : \A i \in 1 .. Len(Commands[k]) :
             /\ at[k - 1] + i \in 1 .. at[Len(Commands)]
             /\ FlattenSeq(Commands)[at[k - 1] + i] = Commands[k][i]
    <3>1. Commands \in Seq(Seq(Byte))
      BY <1>1
    <3>2. QED
      BY <3>1, <1>4, FlattenBytes
  <2>2. QED
    BY <1>1, <2>1
<1>6. QED
  BY <1>2, <1>3, <1>5 DEF Text, n

(* The bytes before a command. *)
LEMMA BytesBefore ==
  ASSUME RingInv, DeviceBlocks, NEW m \in 0 .. CB!Count
  PROVE  Len(FlattenSeq(SubSeq(Commands, 1, m))) = Passed[m]
<1> DEFINE at   == [k \in 0 .. m |-> Passed[k]]
           head == SubSeq(Commands, 1, m)
<1>1. /\ Commands \in Seq(Seq(Byte)) /\ Len(Commands) = CB!Count
      /\ CB!Count \in 0 .. MaxWriteOps /\ MaxWriteOps \in Nat
      /\ Passed \in [0 .. MaxWriteOps -> Nat] /\ Passed[0] = 0
      /\ \A k \in 1 .. CB!Count : Passed[k] = Passed[k - 1] + Len(Commands[k])
  BY TextOfRing, AesdCharAssumption
<1>2. /\ head \in Seq(Seq(Byte)) /\ Len(head) = m
      /\ \A k \in 1 .. m : head[k] = Commands[k]
  <2>1. \A k \in 1 .. m : Commands[k] \in Seq(Byte)
    BY <1>1, ElementOfSeq
  <2>2. head = [k \in 1 .. m |-> Commands[k]]
    BY <1>1
  <2>3. head \in [1 .. m -> Seq(Byte)]
    BY <2>1, <2>2
  <2>4. head \in Seq(Seq(Byte))
    BY <1>1, <2>3, SeqDef
  <2>5. DOMAIN head = 1 .. Len(head) /\ Len(head) \in Nat
    BY <2>4, LenProperties
  <2>6. DOMAIN head = 1 .. m /\ m \in Nat
    BY <1>1, <2>3
  <2> HIDE DEF head
  <2>7. Len(head) = m
    BY <2>5, <2>6, SameRange
  <2>8. QED
    BY <2>2, <2>4, <2>7
<1> HIDE DEF head
<1>3. ASSUME NEW k \in 1 .. m PROVE at[k] = at[k - 1] + Len(head[k])
  <2>1. k \in 0 .. m /\ k - 1 \in 0 .. m /\ k \in 1 .. CB!Count
    BY <1>1
  <2>2. at[k] = Passed[k] /\ at[k - 1] = Passed[k - 1]
    BY <2>1
  <2>3. QED
    BY <1>1, <1>2, <2>1, <2>2
<1>4. at \in [0 .. m -> Nat] /\ at[0] = 0 /\ at[m] = Passed[m]
  BY <1>1
<1> HIDE DEF at
<1>5. Ends(head, at)
  BY <1>2, <1>3, <1>4 DEF Ends
<1>6. Len(FlattenSeq(head)) = at[m]
  BY <1>2, <1>5, FlattenBytes
<1>7. QED
  BY <1>4, <1>6 DEF head

(* A search in the driver's ring finds the byte of the text, in the block   *)
(* that holds it, and nothing from the end of the text on.                  *)
LEMMA SearchInText ==
  ASSUME RingInv, DeviceBlocks, NEW p \in Nat
  PROVE  /\ p >= Len(Text) => CB!FindEntry(p) = CB!NoEntry
         /\ p < Len(Text) =>
              \E k \in 1 .. CB!Count :
                /\ Passed[k - 1] <= p /\ p < Passed[k]
                /\ CB!FindEntry(p) = [slot   |-> CB!SlotAt(k - 1),
                                      offset |-> p - Passed[k - 1]]
<1>1. P!RingInv
  BY RingInvSame
<1>2. Len(Text) = Passed[CB!Count]
  BY BytesOfText
<1>3. /\ p >= Passed[CB!Count] => P!FindEntry(p) = P!NoEntry
      /\ p < Passed[CB!Count] => P!FoundAt(P!RW!Concatenation[p + 1], p)
  BY <1>1, SameRing, P!SearchAnswersAll, AesdCharAssumption DEF Passed
<1>4. ASSUME p < Len(Text)
      PROVE  \E k \in 1 .. CB!Count :
                /\ Passed[k - 1] <= p /\ p < Passed[k]
                /\ CB!FindEntry(p) = [slot   |-> CB!SlotAt(k - 1),
                                      offset |-> p - Passed[k - 1]]
  <2> DEFINE c == P!RW!Concatenation[p + 1]
  <2>1. P!FoundAt(c, p)
    BY <1>2, <1>3, <1>4
  <2> HIDE DEF c
  <2>2. /\ c[1] \in 1 .. CB!Count /\ c[2] \in Nat
        /\ Passed[c[1] - 1] + c[2] = p /\ p < Passed[c[1]]
        /\ CB!FindEntry(p) = [slot |-> CB!SlotAt(c[1] - 1), offset |-> c[2]]
    BY <2>1, SameRing, SameSearch DEF P!FoundAt, P!Names, Passed
  <2>3. Passed[c[1] - 1] \in Nat
    <3>1. c[1] - 1 \in 0 .. MaxWriteOps /\ Passed \in [0 .. MaxWriteOps -> Nat]
      <4>1. MaxWriteOps \in Nat
        BY AesdCharAssumption
      <4>2. CB!Count \in 0 .. MaxWriteOps /\ Passed \in [0 .. MaxWriteOps -> Nat]
        BY TextOfRing
      <4>3. c[1] - 1 \in 0 .. MaxWriteOps
        BY <2>2, <4>1, <4>2
      <4>4. QED
        BY <4>2, <4>3
    <3>2. QED
      BY <3>1
  <2>4. c[2] = p - Passed[c[1] - 1] /\ Passed[c[1] - 1] <= p
    BY <2>2, <2>3
  <2>5. QED
    BY <2>2, <2>4
<1>5. QED
  BY <1>2, <1>3, <1>4, SameRing, SameSearch

-----------------------------------------------------------------------------
LEMMA Sums ==
  ASSUME NEW n \in Nat, NEW a \in [1 .. n -> Nat]
  PROVE  /\ \E f : P!IsSums(f, n, a)
         /\ \A f : P!IsSums(f, n, a) => /\ f \in [0 .. n -> Nat] /\ f[0] = 0
                                        /\ \A k \in 1 .. n : f[k] = f[k - 1] + a[k]
BY P!Sums, AesdCharAssumption

(* aesd_file_offset's sum. *)
LEMMA SizeBeforeAdds ==
  ASSUME RingInv
  PROVE  /\ SizeBefore \in [0 .. MaxWriteOps -> Nat] /\ SizeBefore[0] = 0
         /\ \A k \in 1 .. MaxWriteOps : SizeBefore[k] = SizeBefore[k - 1] + entry[k - 1].size
<1> DEFINE a == [k \in 1 .. MaxWriteOps |-> entry[k - 1].size]
           IsSum(f) == f = [i \in 0 .. MaxWriteOps |->
                              IF i = 0 THEN 0 ELSE f[i - 1] + entry[i - 1].size]
<1>1. MaxWriteOps \in Nat
  BY AesdCharAssumption
<1>2. a \in [1 .. MaxWriteOps -> Nat]
  <2>1. \A k \in 1 .. MaxWriteOps : k - 1 \in P!Slots
    BY <1>1 DEF P!Slots
  <2>2. \A i \in P!Slots : entry[i].size \in Nat
    BY RingInvSame, P!EntrySizesNat, AesdCharAssumption
  <2>3. QED
    BY <2>1, <2>2
<1>3. \A k \in 0 .. MaxWriteOps : k # 0 => a[k] = entry[k - 1].size
  BY <1>1
<1>4. ASSUME NEW f PROVE P!IsSums(f, MaxWriteOps, a) <=> IsSum(f)
  <2> HIDE DEF a
  <2>1. [k \in 0 .. MaxWriteOps |-> IF k = 0 THEN 0 ELSE f[k - 1] + a[k]]
          = [k \in 0 .. MaxWriteOps |-> IF k = 0 THEN 0 ELSE f[k - 1] + entry[k - 1].size]
    BY <1>3
  <2>2. QED
    BY <2>1 DEF P!IsSums
<1>5. \A k \in 1 .. MaxWriteOps : a[k] = entry[k - 1].size
  OBVIOUS
<1> HIDE DEF a
<1>6. \E f : IsSum(f)
  BY <1>1, <1>2, <1>4, Sums
<1>7. IsSum(SizeBefore)
  <2>1. SizeBefore = CHOOSE s : IsSum(s)
    BY DEF SizeBefore
  <2>2. QED
    BY <1>6, <2>1
<1>8. P!IsSums(SizeBefore, MaxWriteOps, a)
  <2> HIDE DEF IsSum
  <2>1. QED
    BY <1>4, <1>7
<1>9. /\ SizeBefore \in [0 .. MaxWriteOps -> Nat] /\ SizeBefore[0] = 0
      /\ \A k \in 1 .. MaxWriteOps : SizeBefore[k] = SizeBefore[k - 1] + a[k]
  BY <1>1, <1>2, <1>8, Sums
<1>10. QED
  BY <1>5, <1>9

(* In a ring that starts at slot 0 that is what the search adds up.         *)
LEMMA SumsAgree ==
  ASSUME RingInv, out_offs = 0
  PROVE  \A k \in 0 .. MaxWriteOps : SizeBefore[k] = Passed[k]
<1> DEFINE T == {k \in 0 .. MaxWriteOps : SizeBefore[k] = Passed[k]}
<1>1. MaxWriteOps \in Nat /\ P!Slots = 0 .. MaxWriteOps - 1
  BY AesdCharAssumption DEF P!Slots
<1>2. /\ Passed[0] = 0
      /\ \A k \in P!Slots : Passed[k + 1] = Passed[k] + entry[P!SlotAt(k)].size
  <2>1. P!BytesPassedAdds
    BY RingInvSame, P!BytesPassedSteps, AesdCharAssumption
  <2>2. QED
    BY <2>1, SameRing DEF P!BytesPassedAdds, Passed
<1>3. 0 \in T
  BY <1>1, <1>2, SizeBeforeAdds
<1>4. ASSUME NEW k \in 1 .. MaxWriteOps, k - 1 \in T PROVE k \in T
  <2>1. PICK i \in P!Slots : i = k - 1 /\ i + 1 = k
    BY <1>1
  <2>2. P!SlotAt(i) = i
    <3>1. P!SlotAt(i) = IF out_offs + i < MaxWriteOps THEN out_offs + i
                        ELSE out_offs + i - MaxWriteOps
      BY RingInvSame, P!SearchOrder, AesdCharAssumption
    <3>2. i \in Nat /\ i < MaxWriteOps
      BY <1>1
    <3>3. QED
      BY <3>1, <3>2
  <2>3. Passed[i + 1] = Passed[i] + entry[i].size
    BY <1>2, <2>2
  <2>4. SizeBefore[k] = SizeBefore[k - 1] + entry[k - 1].size
    BY SizeBeforeAdds
  <2>5. SizeBefore[k] = Passed[k]
    BY <1>4, <2>1, <2>3, <2>4
  <2>6. k \in 0 .. MaxWriteOps
    BY <1>1
  <2>7. QED
    BY <2>5, <2>6
<1>5. \A k \in 0 .. MaxWriteOps : k \in T
  <2> HIDE DEF T
  <2>1. QED
    BY <1>1, <1>3, <1>4, UpTo
<1>6. QED
  BY <1>5

-----------------------------------------------------------------------------
(* Positions.                                                               *)

(* What a call knows: its parameters are its caller's, its copy of the file *)
(* position is a position until an error spoils it, and an entry that a     *)
(* read found is still where the search finds it.                           *)
CallKnows(t) ==
  /\ frame[t].op = "read"   => frame[t].arg \in ReadCounts
  /\ frame[t].op = "llseek" => frame[t].arg \in SeekArgs
  /\ frame[t].op = "ioctl"  => frame[t].arg \in SeekToArgs
  /\ frame[t].op \in Positional /\ (pc[t] # "return" \/ frame[t].ret >= 0) =>
       frame[t].pos \in Nat
  /\ pc[t] = "copy" => \E p \in Nat : /\ p = frame[t].pos
                                      /\ frame[t].found = CB!FindEntry(p)
                                      /\ frame[t].found # CB!NoEntry

Tables ==
  /\ opened \subseteq File
  /\ f_pos \in [File -> Nat]
  /\ lock \in Task \cup {Nobody}
  /\ loaded \in BOOLEAN
  /\ calls \in 0 .. MaxCalls

PositionInv ==
  /\ LogInv
  /\ StepOfCall
  /\ Tables
  /\ \A t \in Task : CallKnows(t)

LEMMA SearchStays ==
  ASSUME UNCHANGED <<entry, out_offs>>, NEW p
  PROVE  CB!FindEntry(p)' = CB!FindEntry(p)
BY DEF CB!FindEntry, CB!BytesPassed, CB!SlotAt

(* Nobody changes the ring under a read. *)
LEMMA OthersKnow ==
  ASSUME PositionInv, NEW t \in Task, UNCHANGED <<entry, out_offs>> \/ pc[t] \in Critical,
         NEW u \in Task, u # t, frame'[u] = frame[u], pc'[u] = pc[u]
  PROVE  CallKnows(u)'
<1>1. CallKnows(u)
  BY DEF PositionInv
<1>2. CASE pc[u] = "copy"
  <2>1. UNCHANGED <<entry, out_offs>>
    BY <1>2 DEF PositionInv, LogInv, HeapInv, LockInv, MutualExclusion, Critical
  <2>2. PICK p \in Nat : /\ p = frame[u].pos
                         /\ frame[u].found = CB!FindEntry(p)
                         /\ frame[u].found # CB!NoEntry
    BY <1>1, <1>2 DEF CallKnows
  <2>3. CB!FindEntry(p)' = CB!FindEntry(p) /\ CB!NoEntry' = CB!NoEntry
    BY <2>1, SearchStays DEF CB!NoEntry
  <2>4. QED
    BY <1>1, <2>2, <2>3 DEF CallKnows
<1>3. CASE pc[u] # "copy"
  BY <1>1, <1>3 DEF CallKnows
<1>4. QED
  BY <1>2, <1>3

LEMMA InCall ==
  ASSUME PositionInv, NEW t \in Task, pc[t] \in Critical
  PROVE  /\ loaded /\ RingInv /\ DeviceBlocks
         /\ frame[t].op = OpOf[pc[t]]
         /\ frame[t].file \in File
         /\ frame[t].op \in Positional => frame[t].pos \in Nat
<1>1. loaded /\ RingInv /\ DeviceBlocks
  BY LoadedInCall DEF PositionInv, LogInv, HeapInv, DeviceType, Critical
<1>2. frame[t].op = OpOf[pc[t]]
  BY DEF PositionInv, StepOfCall
<1>3. frame[t].file \in File
  BY DEF PositionInv, LogInv, HeapInv, LockInv, CallsHaveOpenFile, Tables, Critical
<1>4. frame[t].op \in Positional => frame[t].pos \in Nat
  BY DEF PositionInv, CallKnows, Critical
<1>5. QED
  BY <1>1, <1>2, <1>3, <1>4

(* The command a read found, and the place in it. *)
LEMMA ReadFinds ==
  ASSUME PositionInv, NEW t \in Task, pc[t] = "copy"
  PROVE  /\ frame[t].pos \in Nat /\ frame[t].pos < Len(Text) /\ Len(Text) \in Nat
         /\ \E k \in 1 .. CB!Count :
              /\ Passed[k - 1] \in Nat /\ Passed[k] = Passed[k - 1] + Len(Commands[k])
              /\ Passed[k - 1] <= frame[t].pos /\ frame[t].pos < Passed[k]
              /\ frame[t].found.slot = CB!SlotAt(k - 1)
              /\ frame[t].found.offset = frame[t].pos - Passed[k - 1]
<1>1. RingInv /\ DeviceBlocks
  BY InCall DEF Critical
<1>2. PICK p \in Nat : /\ p = frame[t].pos
                       /\ frame[t].found = CB!FindEntry(p)
                       /\ frame[t].found # CB!NoEntry
  BY DEF PositionInv, CallKnows
<1>3. Len(Text) \in Nat
  BY <1>1, BytesOfText, LenProperties
<1>4. p < Len(Text)
  BY <1>1, <1>2, <1>3, SearchInText
<1>5. PICK k \in 1 .. CB!Count :
        /\ Passed[k - 1] <= p /\ p < Passed[k]
        /\ CB!FindEntry(p) = [slot |-> CB!SlotAt(k - 1), offset |-> p - Passed[k - 1]]
  BY <1>1, <1>4, SearchInText
<1>6. /\ CB!Count \in 0 .. MaxWriteOps /\ MaxWriteOps \in Nat
      /\ Passed \in [0 .. MaxWriteOps -> Nat]
      /\ Passed[k] = Passed[k - 1] + Len(Commands[k])
  BY <1>1, TextOfRing, AesdCharAssumption
<1>7. Passed[k - 1] \in Nat
  <2>1. k - 1 \in 0 .. MaxWriteOps
    BY <1>6
  <2>2. QED
    BY <1>6, <2>1
<1>8. /\ frame[t].found.slot = CB!SlotAt(k - 1)
      /\ frame[t].found.offset = frame[t].pos - Passed[k - 1]
  BY <1>2, <1>5
<1>9. QED
  BY <1>2, <1>3, <1>4, <1>5, <1>6, <1>7, <1>8

-----------------------------------------------------------------------------
(* Each step keeps what a call knows.                                       *)

LEMMA CallKeepsPositions ==
  ASSUME PositionInv, NEW t \in Task, NEW f \in File, NEW op \in DOMAIN FirstStep, NEW arg,
         op = "read"   => arg \in ReadCounts,
         op = "llseek" => arg \in SeekArgs,
         op = "ioctl"  => arg \in SeekToArgs,
         NEW step \in {"lock", "return"}, NEW wdata, NEW ret,
         Call(t, f, op, arg, step, wdata, ret)
  PROVE  Tables' /\ \A u \in Task : CallKnows(u)'
<1>1. /\ pc[t] = "user" /\ calls < MaxCalls /\ calls' = calls + 1
      /\ UNCHANGED <<entry, out_offs, lock, loaded, opened, f_pos>>
      /\ \A u \in Task : u # t => frame'[u] = frame[u] /\ pc'[u] = pc[u]
      /\ pc'[t] = step
      /\ frame'[t].op = op /\ frame'[t].arg = arg
      /\ op \in Positional => frame'[t].pos = f_pos[f]
  BY DEF Call, IdleFrame, dev, ring, PositionInv, LogInv, HeapInv, LockInv, FrameType
<1>2. Tables'
  BY <1>1, AesdCharAssumption DEF PositionInv, Tables
<1>3. CallKnows(t)'
  <2>1. f_pos[f] \in Nat
    BY DEF PositionInv, Tables
  <2>2. pc'[t] # "copy"
    BY <1>1
  <2>3. QED
    BY <1>1, <2>1, <2>2 DEF CallKnows
<1>4. ASSUME NEW u \in Task, u # t PROVE CallKnows(u)'
  BY <1>1, <1>4, OthersKnow
<1>5. QED
  BY <1>2, <1>3, <1>4

LEMMA EnterKeepsPositions ==
  ASSUME PositionInv, NEW t \in Task, Enter(t)
  PROVE  Tables' /\ \A u \in Task : CallKnows(u)'
<1> DEFINE Goal == Tables' /\ \A u \in Task : CallKnows(u)'
<1>1. PICK f \in File :
        ReadEnter(t, f) \/ WriteEnter(t, f) \/ SeekEnter(t, f) \/ IoctlEnter(t, f)
  BY DEF Enter
<1>2. ASSUME NEW op \in DOMAIN FirstStep, NEW arg,
             op = "read"   => arg \in ReadCounts,
             op = "llseek" => arg \in SeekArgs,
             op = "ioctl"  => arg \in SeekToArgs,
             NEW step \in {"lock", "return"}, NEW wdata, NEW ret,
             Call(t, f, op, arg, step, wdata, ret)
      PROVE  Goal
  BY <1>2, CallKeepsPositions
<1>3. "read" \in DOMAIN FirstStep /\ "write" \in DOMAIN FirstStep
      /\ "llseek" \in DOMAIN FirstStep /\ "ioctl" \in DOMAIN FirstStep
  BY DEF FirstStep
<1> HIDE DEF Goal
<1>4. ASSUME ReadEnter(t, f) PROVE Goal
  <2>1. PICK arg \in ReadCounts : Call(t, f, "read", arg, "lock", NULL, 0)
    BY <1>4 DEF ReadEnter
  <2>2. QED
    BY <1>2, <1>3, <2>1
<1>5. ASSUME WriteEnter(t, f) PROVE Goal
  <2>1. \E step \in {"lock", "return"} : \E b, ret : Call(t, f, "write", NULL, step, b, ret)
    BY <1>5 DEF WriteEnter
  <2>2. QED
    BY <1>2, <1>3, <2>1
<1>6. ASSUME SeekEnter(t, f) PROVE Goal
  <2>1. PICK arg \in SeekArgs : Call(t, f, "llseek", arg, "lock", NULL, 0)
    BY <1>6 DEF SeekEnter
  <2>2. QED
    BY <1>2, <1>3, <2>1
<1>7. ASSUME IoctlEnter(t, f) PROVE Goal
  <2>1. PICK arg \in SeekToArgs :
          \/ Call(t, f, "ioctl", arg, "lock", NULL, 0)
          \/ \E ret : Call(t, f, "ioctl", arg, "return", NULL, ret)
    BY <1>7 DEF IoctlEnter
  <2>2. QED
    BY <1>2, <1>3, <2>1
<1>8. Goal
  BY <1>1, <1>4, <1>5, <1>6, <1>7
<1>9. QED
  BY <1>8 DEF Goal

(* The end of a driver function, for the caller and for the others.         *)
LEMMA FinishKeepsPositions ==
  ASSUME PositionInv, NEW t \in Task, pc[t] \in Critical, NEW ret, NEW pos, NEW got,
         Finish(t, ret, pos, got),
         frame[t].op \in Positional /\ ret >= 0 => pos \in Nat
  PROVE  \A u \in Task : CallKnows(u)'
<1>1. /\ pc'[t] = "return" /\ frame'[t].ret = ret /\ frame'[t].pos = pos
      /\ frame'[t].op = frame[t].op /\ frame'[t].arg = frame[t].arg
      /\ \A u \in Task : u # t => frame'[u] = frame[u] /\ pc'[u] = pc[u]
  BY FinishFrame DEF PositionInv, LogInv, HeapInv, LockInv
<1>2. CallKnows(t)'
  BY <1>1 DEF PositionInv, CallKnows
<1>3. ASSUME NEW u \in Task, u # t PROVE CallKnows(u)'
  BY <1>1, <1>3, OthersKnow
<1>4. QED
  BY <1>2, <1>3

LEMMA ReadKeepsPositions ==
  ASSUME PositionInv, NEW t \in Task, ReadFind(t) \/ ReadCopy(t)
  PROVE  \A u \in Task : CallKnows(u)'
<1>1. CASE ReadFind(t) /\ CB!FindEntry(frame[t].pos) = CB!NoEntry
  <2>1. pc[t] = "find" /\ Finish(t, 0, frame[t].pos, << >>)
    BY <1>1 DEF ReadFind
  <2>2. QED
    BY <2>1, InCall, FinishKeepsPositions DEF Critical
<1>2. CASE ReadFind(t) /\ CB!FindEntry(frame[t].pos) # CB!NoEntry
  <2> DEFINE found == CB!FindEntry(frame[t].pos)
  <2>1. /\ pc[t] = "find"
        /\ pc' = [pc EXCEPT ![t] = "copy"]
        /\ frame' = [frame EXCEPT ![t].found = found]
        /\ UNCHANGED <<entry, out_offs>>
        /\ found # CB!NoEntry
    BY <1>2 DEF ReadFind, dev, ring
  <2>2. PICK p \in Nat : p = frame[t].pos
    BY <2>1, InCall DEF Critical, OpOf, Positional
  <2>3. found = CB!FindEntry(p)
    BY <2>2
  <2> HIDE DEF found
  <2>4. /\ pc'[t] = "copy" /\ frame'[t].found = found
        /\ frame'[t].pos = frame[t].pos
        /\ frame'[t].op = frame[t].op /\ frame'[t].arg = frame[t].arg
        /\ \A u \in Task : u # t => frame'[u] = frame[u] /\ pc'[u] = pc[u]
    BY <2>1 DEF PositionInv, LogInv, HeapInv, LockInv, FrameType, IdleFrame
  <2>5. CB!FindEntry(p)' = CB!FindEntry(p) /\ CB!NoEntry' = CB!NoEntry
    BY <2>1, SearchStays DEF CB!NoEntry
  <2>6. CallKnows(t)'
    <3>1. CallKnows(t)
      BY DEF PositionInv
    <3>2. frame'[t].pos \in Nat
      BY <2>2, <2>4
    <3>3. \E q \in Nat : /\ q = frame'[t].pos
                         /\ frame'[t].found = CB!FindEntry(q)'
                         /\ frame'[t].found # CB!NoEntry'
      BY <2>1, <2>2, <2>3, <2>4, <2>5
    <3>4. QED
      BY <2>4, <3>1, <3>2, <3>3 DEF CallKnows
  <2>7. ASSUME NEW u \in Task, u # t PROVE CallKnows(u)'
    BY <2>1, <2>4, <2>7, OthersKnow
  <2>8. QED
    BY <2>6, <2>7
<1>3. CASE ReadCopy(t)
  <2> DEFINE e == entry[frame[t].found.slot]
             n == CopyLength(e, frame[t].found.offset, frame[t].arg)
  <2>1. /\ pc[t] = "copy"
        /\ \/ Finish(t, n, frame[t].pos + n,
                     SubSeq(heap[e.buffptr], frame[t].found.offset + 1, frame[t].found.offset + n))
           \/ Finish(t, -EFAULT, frame[t].pos - EFAULT, << >>)
    BY <1>3 DEF ReadCopy
  <2>2. n \in Int
    <3>1. RingInv /\ DeviceBlocks /\ frame[t].op = "read"
      BY <2>1, InCall DEF Critical, OpOf
    <3>2. frame[t].arg \in Nat
      BY <3>1, AesdCharAssumption DEF PositionInv, CallKnows
    <3>3. PICK k \in 1 .. CB!Count : /\ frame[t].found.slot = CB!SlotAt(k - 1)
                                     /\ frame[t].found.offset \in Int
      BY <2>1, ReadFinds
    <3>4. e.size \in Nat
      BY <3>1, <3>3, SameRing, RingInvSame, P!EntrySizesNat, TextOfRing, AesdCharAssumption
    <3> HIDE DEF e
    <3>5. QED
      BY <3>2, <3>3, <3>4 DEF CopyLength
  <2> HIDE DEF n, e
  <2>3. frame[t].pos \in Nat
    BY <2>1, ReadFinds
  <2>4. n >= 0 => frame[t].pos + n \in Nat
    BY <2>2, <2>3
  <2>5. ~(-EFAULT >= 0)
    BY DEF EFAULT
  <2>6. QED
    BY <2>1, <2>4, <2>5, FinishKeepsPositions DEF Critical
<1>4. QED
  BY <1>1, <1>2, <1>3

LEMMA WriteFinishKeepsPositions ==
  ASSUME PositionInv, NEW t \in Task, pc[t] \in {"append", "commit"}, NEW ret \in Int,
         WriteFinish(t, ret)
  PROVE  \A u \in Task : CallKnows(u)'
<1>1. frame[t].pos \in Nat
  BY InCall DEF Critical, OpOf, Positional
<1>2. ret >= 0 => (IF ret < 0 THEN frame[t].pos ELSE frame[t].pos + ret) \in Nat
  BY <1>1
<1>3. Finish(t, ret, IF ret < 0 THEN frame[t].pos ELSE frame[t].pos + ret, << >>)
  BY DEF WriteFinish
<1>4. QED
  BY <1>2, <1>3, FinishKeepsPositions DEF Critical

LEMMA WriteKeepsPositions ==
  ASSUME PositionInv, NEW t \in Task, WriteAppend(t) \/ WriteNoMemory(t) \/ WriteCommit(t)
  PROVE  \A u \in Task : CallKnows(u)'
<1>1. CASE WriteAppend(t)
  <2> DEFINE n == Len(Chunk(heap[frame[t].wdata]))
  <2>1. pc[t] = "append" /\ heap[frame[t].wdata] \in UserData
    BY <1>1, SoleWriter DEF WriteAppend, PositionInv, LogInv, HeapInv, WriteData
  <2>2. n \in Nat
    BY <2>1, ChunkOfData, LenProperties
  <2> HIDE DEF n
  <2>3. CASE full_packet(heap[frame[t].wdata])
    <3>1. /\ pc' = [pc EXCEPT ![t] = "commit"]
          /\ frame' = [frame EXCEPT ![t].ret = n]
      BY <1>1, <2>3 DEF WriteAppend, n
    <3>2. /\ pc'[t] = "commit"
          /\ frame'[t].pos = frame[t].pos
          /\ frame'[t].op = frame[t].op /\ frame'[t].arg = frame[t].arg
          /\ \A u \in Task : u # t => frame'[u] = frame[u] /\ pc'[u] = pc[u]
      BY <3>1 DEF PositionInv, LogInv, HeapInv, LockInv, FrameType, IdleFrame
    <3>3. CallKnows(t)'
      BY <2>1, <3>2 DEF PositionInv, CallKnows
    <3>4. ASSUME NEW u \in Task, u # t PROVE CallKnows(u)'
      BY <2>1, <3>2, <3>4, OthersKnow DEF Critical
    <3>5. QED
      BY <3>3, <3>4
  <2>4. CASE ~full_packet(heap[frame[t].wdata])
    <3>1. WriteFinish(t, n)
      BY <1>1, <2>4 DEF WriteAppend, n
    <3>2. QED
      BY <2>1, <2>2, <3>1, WriteFinishKeepsPositions
  <2>5. QED
    BY <2>3, <2>4
<1>2. CASE WriteNoMemory(t)
  <2>1. pc[t] = "append" /\ WriteFinish(t, -ENOMEM)
    BY <1>2 DEF WriteNoMemory
  <2>2. -ENOMEM \in Int
    BY DEF ENOMEM
  <2>3. QED
    BY <2>1, <2>2, WriteFinishKeepsPositions
<1>3. CASE WriteCommit(t)
  <2>1. pc[t] = "commit" /\ WriteFinish(t, frame[t].ret)
    BY <1>3 DEF WriteCommit
  <2>2. heap[frame[t].wdata] \in UserData /\ frame[t].ret = Len(Chunk(heap[frame[t].wdata]))
    BY <2>1, SoleWriter DEF PositionInv, LogInv, CommitKnows, HeapInv, WriteData
  <2>3. frame[t].ret \in Int
    BY <2>2, ChunkOfData, LenProperties
  <2>4. QED
    BY <2>1, <2>3, WriteFinishKeepsPositions
<1>4. QED
  BY <1>1, <1>2, <1>3

(* Where fixed_size_llseek may go. *)
LEMMA SeekIsInt ==
  ASSUME RingInv, NEW pos \in Nat, NEW a \in SeekArgs
  PROVE  fixed_size_llseek(pos, a) \in Int
<1>1. FileSize \in Int
  <2>1. size \in Int /\ SizeMod \in Int
    BY AesdCharAssumption DEF RingInv, CB!TypeOK
  <2>2. QED
    BY <2>1 DEF FileSize
<1>2. a.offset \in Int /\ a.whence \in Whence
  BY AesdCharAssumption
<1> DEFINE target == CASE a.whence = "SEEK_SET" -> a.offset
                       [] a.whence = "SEEK_CUR" -> pos + a.offset
                       [] a.whence = "SEEK_END" -> FileSize + a.offset
                       [] OTHER -> -EINVAL
<1>3. target \in Int /\ -EINVAL \in Int
  BY <1>1, <1>2 DEF EINVAL
<1> HIDE DEF target
<1>4. fixed_size_llseek(pos, a) = IF a.whence = "SEEK_CUR" /\ a.offset = 0 THEN pos
                                  ELSE IF target < 0 \/ target > FileSize THEN -EINVAL
                                  ELSE target
  BY DEF fixed_size_llseek, target
<1>5. QED
  BY <1>3, <1>4

LEMMA SeekKeepsPositions ==
  ASSUME PositionInv, NEW t \in Task, SeekBody(t) \/ SeekToBody(t)
  PROVE  f_pos' \in [File -> Nat] /\ \A u \in Task : CallKnows(u)'
<1>1. CASE SeekBody(t)
  <2> DEFINE new_pos == fixed_size_llseek(f_pos[frame[t].file], frame[t].arg)
  <2>1. pc[t] = "seek" /\ frame[t].op = "llseek" /\ frame[t].file \in File /\ RingInv
    BY <1>1, InCall DEF SeekBody, Critical, OpOf
  <2>2. new_pos \in Int
    <3>1. frame[t].arg \in SeekArgs /\ f_pos[frame[t].file] \in Nat
      BY <2>1 DEF PositionInv, CallKnows, Tables
    <3>2. QED
      BY <2>1, <3>1, SeekIsInt
  <2>3. /\ \E ret, pos, got : Finish(t, ret, pos, got)
        /\ IF new_pos < 0 THEN f_pos' = f_pos
           ELSE f_pos' = [f_pos EXCEPT ![frame[t].file] = new_pos]
    BY <1>1 DEF SeekBody
  <2> HIDE DEF new_pos
  <2>4. f_pos' \in [File -> Nat]
    BY <2>1, <2>2, <2>3 DEF PositionInv, Tables
  <2>5. frame[t].op \notin Positional
    BY <2>1 DEF Positional
  <2>6. QED
    BY <2>1, <2>3, <2>4, <2>5, FinishKeepsPositions DEF Critical
<1>2. CASE SeekToBody(t)
  <2> DEFINE a == frame[t].arg
             new_pos == SizeBefore[a.write_cmd] + a.write_cmd_offset
  <2>1. pc[t] = "seekto" /\ frame[t].op = "ioctl" /\ frame[t].file \in File /\ RingInv
    BY <1>2, InCall DEF SeekToBody, Critical, OpOf
  <2>2. a.write_cmd \in Nat /\ a.write_cmd_offset \in Nat
    BY <2>1, AesdCharAssumption DEF PositionInv, CallKnows
  <2>3. SeekToAccepted(a) => new_pos \in Nat
    <3>1. SeekToAccepted(a) => a.write_cmd \in 0 .. MaxWriteOps
      BY <2>2, AesdCharAssumption DEF SeekToAccepted
    <3>2. QED
      BY <2>1, <2>2, <3>1, SizeBeforeAdds
  <2>4. /\ \E ret, pos, got : Finish(t, ret, pos, got)
        /\ IF SeekToAccepted(a) THEN f_pos' = [f_pos EXCEPT ![frame[t].file] = new_pos]
           ELSE f_pos' = f_pos
    BY <1>2 DEF SeekToBody
  <2> HIDE DEF a, new_pos
  <2>5. f_pos' \in [File -> Nat]
    BY <2>1, <2>3, <2>4 DEF PositionInv, Tables
  <2>6. frame[t].op \notin Positional
    BY <2>1 DEF Positional
  <2>7. QED
    BY <2>1, <2>4, <2>5, <2>6, FinishKeepsPositions DEF Critical
<1>3. QED
  BY <1>1, <1>2

LEMMA ReturnKeepsPositions ==
  ASSUME PositionInv, NEW t \in Task, SysReturn(t)
  PROVE  f_pos' \in [File -> Nat] /\ \A u \in Task : CallKnows(u)'
<1>1. /\ pc[t] = "return" /\ pc'[t] = "user"
      /\ frame'[t] = IdleFrame
      /\ \A u \in Task : u # t => frame'[u] = frame[u] /\ pc'[u] = pc[u]
      /\ UNCHANGED <<entry, out_offs>>
      /\ f_pos' = IF frame[t].op \in Positional /\ frame[t].ret >= 0
                  THEN [f_pos EXCEPT ![frame[t].file] = frame[t].pos]
                  ELSE f_pos
  BY DEF SysReturn, dev, ring, PositionInv, LogInv, HeapInv, LockInv, FrameType
<1>2. frame[t].op \in Positional /\ frame[t].ret >= 0 => frame[t].pos \in Nat
  BY DEF PositionInv, CallKnows
<1>3. f_pos' \in [File -> Nat]
  BY <1>1, <1>2 DEF PositionInv, Tables
<1>4. CallKnows(t)'
  BY <1>1 DEF CallKnows, IdleFrame, Positional
<1>5. ASSUME NEW u \in Task, u # t PROVE CallKnows(u)'
  BY <1>1, <1>5, OthersKnow
<1>6. QED
  BY <1>3, <1>4, <1>5

LEMMA LockKeepsPositions ==
  ASSUME PositionInv, NEW t \in Task, MutexLock(t)
  PROVE  \A u \in Task : CallKnows(u)'
<1>1. /\ pc[t] = "lock" /\ frame' = frame
      /\ pc'[t] \in {"find", "append", "seek", "seekto"}
      /\ \A u \in Task : u # t => frame'[u] = frame[u] /\ pc'[u] = pc[u]
      /\ UNCHANGED <<entry, out_offs>>
  BY DEF MutexLock, FirstStep, dev, ring, PositionInv, LogInv, HeapInv, LockInv, FrameType
<1>2. CallKnows(t)'
  BY <1>1 DEF PositionInv, CallKnows
<1>3. ASSUME NEW u \in Task, u # t PROVE CallKnows(u)'
  BY <1>1, <1>3, OthersKnow
<1>4. QED
  BY <1>2, <1>3

LEMMA ModuleKeepsPositions ==
  ASSUME PositionInv,
         \/ \E f \in File : aesd_open(f) \/ aesd_release(f)
         \/ aesd_init_module
         \/ aesd_cleanup_module
  PROVE  Tables' /\ \A u \in Task : CallKnows(u)'
<1>1. ASSUME NEW u \in Task, frame' = frame, pc' = pc,
             UNCHANGED <<entry, out_offs>> \/ pc[u] = "user"
      PROVE  CallKnows(u)'
  <2>1. CallKnows(u)
    BY DEF PositionInv
  <2>2. CASE pc[u] = "copy"
    <3>1. PICK p \in Nat : /\ p = frame[u].pos
                           /\ frame[u].found = CB!FindEntry(p)
                           /\ frame[u].found # CB!NoEntry
      BY <2>1, <2>2 DEF CallKnows
    <3>2. CB!FindEntry(p)' = CB!FindEntry(p) /\ CB!NoEntry' = CB!NoEntry
      BY <1>1, <2>2, SearchStays DEF CB!NoEntry
    <3>3. QED
      BY <1>1, <2>1, <3>1, <3>2 DEF CallKnows
  <2>3. CASE pc[u] # "copy"
    BY <1>1, <2>1, <2>3 DEF CallKnows
  <2>4. QED
    BY <2>2, <2>3
<1>2. CASE \E f \in File : aesd_open(f) \/ aesd_release(f)
  <2>1. UNCHANGED <<entry, out_offs, lock, loaded, calls, pc, frame>>
    BY <1>2 DEF aesd_open, aesd_release, dev, ring
  <2>2. opened' \subseteq File /\ f_pos' \in [File -> Nat]
    BY <1>2 DEF aesd_open, aesd_release, PositionInv, Tables
  <2>3. QED
    BY <1>1, <2>1, <2>2 DEF PositionInv, Tables
<1>3. CASE aesd_init_module
  <2>1. /\ ~loaded /\ loaded' = TRUE /\ lock' = Nobody
        /\ UNCHANGED <<opened, f_pos, calls, pc, frame>>
    BY <1>3 DEF aesd_init_module
  <2>2. \A u \in Task : pc[u] = "user"
    BY <2>1, LoadedInCall DEF PositionInv, LogInv, HeapInv
  <2>3. QED
    BY <1>1, <2>1, <2>2 DEF PositionInv, Tables
<1>4. CASE aesd_cleanup_module
  <2>1. /\ loaded' = FALSE
        /\ UNCHANGED <<entry, out_offs, lock, opened, f_pos, calls, pc, frame>>
    BY <1>4 DEF aesd_cleanup_module, dev, ring
  <2>2. QED
    BY <1>1, <2>1 DEF PositionInv, Tables
<1>5. QED
  BY <1>2, <1>3, <1>4

LEMMA NextKeepsPositions ==
  PositionInv /\ [Next]_vars => Tables' /\ \A u \in Task : CallKnows(u)'
<1> SUFFICES ASSUME PositionInv, [Next]_vars
             PROVE  Tables' /\ \A u \in Task : CallKnows(u)'
  OBVIOUS
<1>1. ASSUME NEW t \in Task, Step(t)
      PROVE  Tables' /\ \A u \in Task : CallKnows(u)'
  <2>1. UNCHANGED <<loaded, opened, calls>> /\ lock' \in {lock, Nobody}
    BY <1>1 DEF Step, ReadFind, ReadCopy, WriteAppend, WriteNoMemory, WriteCommit, SeekBody,
                SeekToBody, SysReturn, WriteFinish, MutexUnlock
  <2>2. CASE ReadFind(t) \/ ReadCopy(t)
    <3>1. f_pos' = f_pos
      BY <2>2 DEF ReadFind, ReadCopy
    <3>2. QED
      BY <2>1, <2>2, <3>1, ReadKeepsPositions DEF PositionInv, Tables
  <2>3. CASE WriteAppend(t) \/ WriteNoMemory(t) \/ WriteCommit(t)
    <3>1. f_pos' = f_pos
      BY <2>3 DEF WriteAppend, WriteNoMemory, WriteCommit
    <3>2. QED
      BY <2>1, <2>3, <3>1, WriteKeepsPositions DEF PositionInv, Tables
  <2>4. CASE SeekBody(t) \/ SeekToBody(t)
    BY <2>1, <2>4, SeekKeepsPositions DEF PositionInv, Tables
  <2>5. CASE SysReturn(t)
    BY <2>1, <2>5, ReturnKeepsPositions DEF PositionInv, Tables
  <2>6. QED
    BY <1>1, <2>2, <2>3, <2>4, <2>5 DEF Step
<1>2. ASSUME NEW t \in Task, MutexLock(t)
      PROVE  Tables' /\ \A u \in Task : CallKnows(u)'
  <2>1. UNCHANGED <<loaded, opened, calls, f_pos>> /\ lock' = t
    BY <1>2 DEF MutexLock
  <2>2. QED
    BY <1>2, <2>1, LockKeepsPositions DEF PositionInv, Tables
<1>3. CASE UNCHANGED vars
  <2>1. UNCHANGED <<entry, out_offs, lock, loaded, opened, f_pos, calls, pc, frame>>
    BY <1>3 DEF vars, dev, ring
  <2>2. ASSUME NEW u \in Task PROVE CallKnows(u)'
    BY <2>1, SearchStays DEF PositionInv, CallKnows, CB!NoEntry
  <2>3. QED
    BY <2>1, <2>2 DEF PositionInv, Tables
<1>4. QED
  BY <1>1, <1>2, <1>3, EnterKeepsPositions, ModuleKeepsPositions DEF Next

THEOREM PositionInvariant == Spec => []PositionInv
<1>1. Init => Tables /\ \A t \in Task : CallKnows(t)
  BY AesdCharAssumption DEF Init, Tables, CallKnows, IdleFrame, Positional
<1> DEFINE Known == Tables /\ \A t \in Task : CallKnows(t)
<1>2. LogInv /\ StepOfCall /\ Known /\ [Next]_vars => Known'
  BY NextKeepsPositions DEF PositionInv
<1>3. LogInv /\ StepOfCall /\ Known => PositionInv
  BY DEF PositionInv
<1> HIDE DEF Known
<1>4. QED
  <2>1. Init => Known
    BY <1>1 DEF Known
  <2>2. QED
    BY <1>2, <1>3, <2>1, LogInvariant, StepOfCallInvariant, PTL DEF Spec

(* The types of the device, for any number of tasks and files: no file      *)
(* position ever becomes negative, whatever fails.                          *)
THEOREM TypesOfDevice == Spec => []TypeOK
<1>1. PositionInv => TypeOK
  BY DEF PositionInv, LogInv, HeapInv, LockInv, FrameType, DeviceType, RingInv, Tables, TypeOK
<1>2. QED
  BY <1>1, PositionInvariant, PTL

-----------------------------------------------------------------------------
(* What the calls answer.                                                   *)

LEMMA WhichStep ==
  ASSUME PositionInv, Next, NEW t \in Task, pc[t] \in Critical, pc'[t] = "return"
  PROVE  /\ frame[t].op = "read" => ReadFind(t) \/ ReadCopy(t)
         /\ pc[t] = "seek"   => SeekBody(t)
         /\ pc[t] = "seekto" => SeekToBody(t)
<1>1. Step(t)
  BY StepOfTask, StepOfNoTask DEF Critical, PositionInv, LogInv, HeapInv
<1>2. pc[t] \in {"find", "copy", "append", "commit", "seek", "seekto"}
  BY DEF Critical
<1>3. frame[t].op = "read" => pc[t] \in {"find", "copy"}
  BY <1>2, InCall DEF OpOf
<1>4. (pc[t] = "find" => ReadFind(t)) /\ (pc[t] = "copy" => ReadCopy(t))
  BY <1>1 DEF Step, ReadFind, ReadCopy, WriteAppend, WriteNoMemory, WriteCommit, SeekBody,
              SeekToBody, SysReturn
<1>5. (pc[t] = "seek" => SeekBody(t)) /\ (pc[t] = "seekto" => SeekToBody(t))
  BY <1>1 DEF Step, ReadFind, ReadCopy, WriteAppend, WriteNoMemory, WriteCommit, SeekBody,
              SeekToBody, SysReturn
<1>6. QED
  BY <1>3, <1>4, <1>5

(* A stretch of a command is the stretch of the text that holds it. *)
LEMMA PieceOfText ==
  ASSUME RingInv, DeviceBlocks, NEW k \in 1 .. CB!Count, NEW p \in Nat, NEW n \in Nat, n > 0,
         Passed[k - 1] <= p, p + n <= Passed[k]
  PROVE  SubSeq(Commands[k], p - Passed[k - 1] + 1, p - Passed[k - 1] + n)
           = SubSeq(Text, p + 1, p + n)
<1> DEFINE c == Commands[k]
           b == Passed[k - 1]
           o == p - b
<1>1. /\ Text \in Seq(Byte) /\ Len(Text) \in Nat
      /\ \A i \in 1 .. Len(c) : b + i \in 1 .. Len(Text) /\ Text[b + i] = c[i]
  BY BytesOfText, LenProperties
<1>2. Passed[k] = b + Len(c) /\ c \in Seq(Byte) /\ Len(c) \in Nat
  <2>1. Commands \in Seq(Seq(Byte)) /\ Len(Commands) = CB!Count
    BY TextOfRing
  <2>2. c \in Seq(Byte)
    BY <2>1, ElementOfSeq
  <2>3. QED
    BY <2>2, TextOfRing, LenProperties
<1>3. b \in Nat
  <2>1. CB!Count \in 0 .. MaxWriteOps /\ MaxWriteOps \in Nat /\ Passed \in [0 .. MaxWriteOps -> Nat]
    BY TextOfRing, AesdCharAssumption
  <2>2. k - 1 \in 0 .. MaxWriteOps
    BY <2>1
  <2>3. QED
    BY <2>1, <2>2
<1>4. b <= p /\ p + n <= b + Len(c)
  BY <1>2
<1> HIDE DEF c, b
<1>5. o \in Nat /\ o + n <= Len(c) /\ p = b + o
  BY <1>2, <1>3, <1>4
<1> HIDE DEF o
<1>6. b + (o + n) \in 1 .. Len(Text)
  <2>1. o + n \in 1 .. Len(c)
    BY <1>2, <1>5
  <2>2. QED
    BY <1>1, <2>1
<1>7. SubSeq(c, o + 1, o + n) = [i \in 1 .. n |-> c[o + i]]
  <2>1. SubSeq(c, o + 1, o + n) = [i \in 1 .. (o + n) - (o + 1) + 1 |-> c[(o + 1) + i - 1]]
    BY <1>5
  <2>2. (o + n) - (o + 1) + 1 = n
    BY <1>5
  <2>3. \A i \in 1 .. n : (o + 1) + i - 1 = o + i
    BY <1>5
  <2>4. QED
    BY <2>1, <2>2, <2>3
<1>8. SubSeq(Text, p + 1, p + n) = [i \in 1 .. n |-> Text[p + i]]
  <2>1. SubSeq(Text, p + 1, p + n) = [i \in 1 .. (p + n) - (p + 1) + 1 |-> Text[(p + 1) + i - 1]]
    OBVIOUS
  <2>2. (p + n) - (p + 1) + 1 = n
    OBVIOUS
  <2>3. \A i \in 1 .. n : (p + 1) + i - 1 = p + i
    OBVIOUS
  <2>4. QED
    BY <2>1, <2>2, <2>3
<1>9. ASSUME NEW i \in 1 .. n PROVE c[o + i] = Text[p + i]
  <2>1. PICK j \in 1 .. Len(c) : j = o + i
    BY <1>2, <1>5
  <2>2. b + j = p + i
    BY <1>3, <1>5, <2>1
  <2>3. QED
    BY <1>1, <2>1, <2>2
<1>10. SubSeq(c, o + 1, o + n) = SubSeq(Text, p + 1, p + n)
  BY <1>7, <1>8, <1>9
<1>11. QED
  BY <1>10 DEF c, b, o

(* aesd_read's answer. *)
ReadAnswers(t) ==
  LET pos == frame[t].pos
      n   == frame'[t].ret
  IN  \/ n = -EFAULT
      \/ n = 0 /\ (pos >= Len(Text) \/ frame[t].arg = 0)
      \/ n > 0 /\ frame'[t].got = SubSeq(Text, pos + 1, pos + n)

LEMMA ReadFindAnswers ==
  ASSUME PositionInv, NEW t \in Task, ReadFind(t), pc'[t] = "return"
  PROVE  ReadAnswers(t)
<1>1. pc[t] = "find"
  BY DEF ReadFind
<1>2. frame[t].pos \in Nat /\ RingInv /\ DeviceBlocks
  BY <1>1, InCall DEF Critical, OpOf, Positional
<1>3. CB!FindEntry(frame[t].pos) = CB!NoEntry
  <2>1. CASE CB!FindEntry(frame[t].pos) # CB!NoEntry
    <3>1. pc' = [pc EXCEPT ![t] = "copy"]
      BY <2>1 DEF ReadFind
    <3>2. pc'[t] = "copy"
      BY <3>1 DEF PositionInv, LogInv, HeapInv, LockInv, FrameType
    <3>3. QED
      BY <3>2
  <2>2. QED
    BY <2>1
<1>4. Finish(t, 0, frame[t].pos, << >>)
  BY <1>3 DEF ReadFind
<1>5. frame'[t].ret = 0
  BY <1>4, FinishFrame DEF PositionInv, LogInv, HeapInv, LockInv
<1>6. PICK p \in Nat : p = frame[t].pos
  BY <1>2
<1>7. p >= Len(Text)
  <2>1. Len(Text) \in Nat
    BY <1>2, BytesOfText, LenProperties
  <2>2. ASSUME p < Len(Text) PROVE FALSE
    <3>1. PICK k \in 1 .. CB!Count :
            CB!FindEntry(p) = [slot |-> CB!SlotAt(k - 1), offset |-> p - Passed[k - 1]]
      BY <1>2, <2>2, SearchInText
    <3>2. CB!SlotAt(k - 1) \in CB!Slots
      BY <1>2, TextOfRing
    <3>3. CB!SlotAt(k - 1) = -1
      BY <1>3, <1>6, <3>1 DEF CB!NoEntry
    <3>4. QED
      BY <3>2, <3>3, AesdCharAssumption DEF CB!Slots
  <2>3. QED
    BY <2>1, <2>2
<1>8. QED
  BY <1>5, <1>6, <1>7 DEF ReadAnswers

LEMMA ReadCopyAnswers ==
  ASSUME PositionInv, NEW t \in Task, ReadCopy(t)
  PROVE  ReadAnswers(t)
<1> DEFINE off == frame[t].found.offset
           e   == entry[frame[t].found.slot]
           n   == CopyLength(e, off, frame[t].arg)
<1>1. /\ pc[t] = "copy"
      /\ \/ Finish(t, n, frame[t].pos + n, SubSeq(heap[e.buffptr], off + 1, off + n))
         \/ Finish(t, -EFAULT, frame[t].pos - EFAULT, << >>)
  BY DEF ReadCopy
<1>2. RingInv /\ DeviceBlocks /\ frame[t].op = "read"
  BY <1>1, InCall DEF Critical, OpOf
<1>3. PICK p \in Nat : p = frame[t].pos
  BY <1>1, ReadFinds
<1>4. PICK k \in 1 .. CB!Count :
        /\ Passed[k - 1] \in Nat /\ Passed[k] = Passed[k - 1] + Len(Commands[k])
        /\ Passed[k - 1] <= p /\ p < Passed[k]
        /\ frame[t].found.slot = CB!SlotAt(k - 1)
        /\ off = p - Passed[k - 1]
  BY <1>1, <1>3, ReadFinds
<1>5. heap[e.buffptr] = Commands[k] /\ e.size = Len(Commands[k])
  BY <1>2, <1>4, TextOfRing
<1>6. PICK count \in Nat : count = frame[t].arg
  BY <1>2, AesdCharAssumption DEF PositionInv, CallKnows
<1>7. Len(Commands[k]) \in Nat
  <2>1. Commands \in Seq(Seq(Byte)) /\ Len(Commands) = CB!Count
    BY <1>2, TextOfRing
  <2>2. Commands[k] \in Seq(Byte)
    BY <2>1, ElementOfSeq
  <2>3. QED
    BY <2>2, LenProperties
<1>8. n = IF Len(Commands[k]) - off < count THEN Len(Commands[k]) - off ELSE count
  BY <1>5, <1>6 DEF CopyLength
<1> HIDE DEF e, off, n
<1>9. /\ n \in Nat /\ p + n <= Passed[k]
      /\ n = 0 => count = 0
  <2>1. PICK b \in Nat, l \in Nat : b = Passed[k - 1] /\ l = Len(Commands[k])
    BY <1>4, <1>7
  <2>2. /\ Passed[k] = b + l /\ b <= p /\ p < b + l /\ off = p - b
        /\ n = IF l - off < count THEN l - off ELSE count
    BY <1>4, <1>8, <2>1
  <2>3. /\ n = IF (b + l) - p < count THEN (b + l) - p ELSE count
    BY <2>2
  <2>4. /\ n \in Nat /\ p + n <= b + l
        /\ n = 0 => count = 0
    BY <2>2, <2>3
  <2>5. QED
    BY <2>2, <2>4
<1>10. CASE Finish(t, -EFAULT, frame[t].pos - EFAULT, << >>)
  <2>1. frame'[t].ret = -EFAULT
    BY <1>10, FinishFrame DEF PositionInv, LogInv, HeapInv, LockInv
  <2>2. QED
    BY <2>1 DEF ReadAnswers
<1>11. CASE Finish(t, n, frame[t].pos + n, SubSeq(heap[e.buffptr], off + 1, off + n))
  <2>1. frame'[t].ret = n /\ frame'[t].got = SubSeq(heap[e.buffptr], off + 1, off + n)
    <3> DEFINE piece == SubSeq(heap[e.buffptr], off + 1, off + n)
               to    == frame[t].pos + n
    <3>1. Finish(t, n, to, piece)
      BY <1>11
    <3> HIDE DEF piece, to
    <3>2. frame'[t].ret = n /\ frame'[t].got = piece
      BY <3>1, FinishFrame DEF PositionInv, LogInv, HeapInv, LockInv
    <3>3. QED
      BY <3>2 DEF piece
  <2>2. CASE n = 0
    BY <1>6, <1>9, <2>1, <2>2 DEF ReadAnswers
  <2>3. CASE n > 0
    <3>1. SubSeq(Commands[k], p - Passed[k - 1] + 1, p - Passed[k - 1] + n)
            = SubSeq(Text, p + 1, p + n)
      BY <1>2, <1>4, <1>9, <2>3, PieceOfText
    <3>2. frame'[t].got = SubSeq(Text, p + 1, p + n)
      BY <1>4, <1>5, <2>1, <3>1
    <3>3. QED
      BY <1>3, <2>1, <2>3, <3>2 DEF ReadAnswers
  <2>4. QED
    BY <1>9, <2>2, <2>3
<1>12. QED
  BY <1>1, <1>10, <1>11

(* aesd_read, whoever writes meanwhile: what it copies out are the bytes of *)
(* the commands from the position on, across the wrap of the ring, at least *)
(* one unless the position is at the end, from blocks nobody has freed.     *)
THEOREM ReadsAnswer == Spec => ReadsWhatWasWritten
<1> DEFINE A ==
      \A t \in Task :
        frame[t].op = "read" /\ pc[t] \in Critical /\ pc'[t] = "return" =>
          LET pos == frame[t].pos
              n   == frame'[t].ret
          IN  \/ n = -EFAULT
              \/ n = 0 /\ (pos >= Len(Text) \/ frame[t].arg = 0)
              \/ n > 0 /\ frame'[t].got = SubSeq(Text, pos + 1, pos + n)
<1>1. PositionInv /\ [Next]_vars => [A]_vars
  <2> SUFFICES ASSUME PositionInv, Next,
                      NEW t \in Task, frame[t].op = "read", pc[t] \in Critical, pc'[t] = "return"
               PROVE  ReadAnswers(t)
    BY DEF ReadAnswers
  <2>1. ReadFind(t) \/ ReadCopy(t)
    BY WhichStep
  <2>2. QED
    BY <2>1, ReadFindAnswers, ReadCopyAnswers
<1>2. QED
  BY <1>1, PositionInvariant, PTL DEF Spec, ReadsWhatWasWritten

(* aesd_file_offset, for an argument that names a byte.                     *)
LEMMA SeekToFinds ==
  ASSUME PositionInv, NEW t \in Task, SeekToBody(t),
         SeekToNamesByte(frame[t].arg), out_offs = 0
  PROVE  frame'[t].ret = 0 /\ f_pos'[frame[t].file] = SeekToTarget(frame[t].arg)
<1> DEFINE w == frame[t].arg.write_cmd
           o == frame[t].arg.write_cmd_offset
<1>1. pc[t] = "seekto"
  BY DEF SeekToBody
<1>2. RingInv /\ DeviceBlocks /\ frame[t].op = "ioctl" /\ frame[t].file \in File
  BY <1>1, InCall DEF Critical, OpOf
<1>3. w \in Nat /\ o \in Nat
  BY <1>2, AesdCharAssumption DEF PositionInv, CallKnows
<1>4. /\ Len(Commands) = CB!Count /\ CB!Count \in 0 .. MaxWriteOps /\ MaxWriteOps \in Nat
      /\ Commands \in Seq(Seq(Byte))
  BY <1>2, TextOfRing, AesdCharAssumption
<1>5. w < CB!Count /\ o < Len(Commands[w + 1])
  BY <1>4 DEF SeekToNamesByte
<1>6. SeekToTarget(frame[t].arg) = Len(FlattenSeq(SubSeq(Commands, 1, w))) + o
  BY DEF SeekToTarget
<1>7. /\ SeekToAccepted(frame[t].arg) =
           (w <= MaxWriteOps /\ o <= (IF w = MaxWriteOps THEN size ELSE entry[w].size))
      /\ SeekToAccepted(frame[t].arg) =>
           /\ Finish(t, 0, 0, << >>)
           /\ f_pos' = [f_pos EXCEPT ![frame[t].file] = SizeBefore[w] + o]
  BY DEF SeekToBody, SeekToAccepted, EntrySize
<1> HIDE DEF w, o
<1>8. PICK k \in 1 .. CB!Count : k = w + 1 /\ k - 1 = w
  BY <1>3, <1>4, <1>5
<1>9. entry[w].size = Len(Commands[k])
  <2>1. w \in P!Slots
    BY <1>3, <1>4, <1>5 DEF P!Slots
  <2>2. P!SlotAt(w) = IF out_offs + w < MaxWriteOps THEN out_offs + w
                      ELSE out_offs + w - MaxWriteOps
    BY <1>2, <2>1, RingInvSame, P!SearchOrder, AesdCharAssumption
  <2>3. P!SlotAt(w) = w
    BY <1>3, <1>4, <1>5, <2>2
  <2>4. Len(Commands[k]) = entry[CB!SlotAt(k - 1)].size
    BY <1>2, TextOfRing
  <2>5. QED
    BY <1>8, <2>3, <2>4, SameRing
<1>10. Len(Commands[k]) \in Nat
  <2>1. Commands[k] \in Seq(Byte)
    BY <1>4, ElementOfSeq
  <2>2. QED
    BY <2>1, LenProperties
<1>11. o <= entry[w].size /\ w <= MaxWriteOps /\ w # MaxWriteOps
  <2>1. o < Len(Commands[k])
    BY <1>5, <1>8
  <2>2. o <= Len(Commands[k])
    BY <1>3, <1>10, <2>1
  <2>3. w <= MaxWriteOps /\ w # MaxWriteOps
    BY <1>3, <1>4, <1>5
  <2>4. QED
    BY <1>9, <2>2, <2>3
<1>12. SeekToAccepted(frame[t].arg)
  BY <1>7, <1>11
<1>13. SizeBefore[w] = Len(FlattenSeq(SubSeq(Commands, 1, w)))
  <2>1. w \in 0 .. MaxWriteOps /\ w \in 0 .. CB!Count
    BY <1>3, <1>4, <1>5
  <2>2. SizeBefore[w] = Passed[w]
    BY <1>2, <2>1, SumsAgree
  <2>3. Len(FlattenSeq(SubSeq(Commands, 1, w))) = Passed[w]
    BY <1>2, <2>1, BytesBefore
  <2>4. QED
    BY <2>2, <2>3
<1>14. frame'[t].ret = 0
  BY <1>7, <1>12, FinishFrame DEF PositionInv, LogInv, HeapInv, LockInv
<1>15. f_pos'[frame[t].file] = SizeBefore[w] + o
  BY <1>2, <1>7, <1>12 DEF PositionInv, Tables
<1>16. QED
  BY <1>6, <1>13, <1>14, <1>15

(* AESDCHAR_IOCSEEKTO is right for every ring whose oldest command is in    *)
(* slot 0, whatever the number and lengths of the commands.                 *)
THEOREM SeekToRightUnwrapped == Spec => SeekToFindsByteUnwrapped
<1> DEFINE A ==
      \A t \in Task :
        /\ pc[t] = "seekto" /\ pc'[t] = "return"
        /\ SeekToNamesByte(frame[t].arg) /\ out_offs = 0
        => /\ frame'[t].ret = 0
           /\ f_pos'[frame[t].file] = SeekToTarget(frame[t].arg)
<1>1. PositionInv /\ [Next]_vars => [A]_vars
  <2> SUFFICES ASSUME PositionInv, Next,
                      NEW t \in Task, pc[t] = "seekto", pc'[t] = "return",
                      SeekToNamesByte(frame[t].arg), out_offs = 0
               PROVE  /\ frame'[t].ret = 0
                      /\ f_pos'[frame[t].file] = SeekToTarget(frame[t].arg)
    OBVIOUS
  <2>1. SeekToBody(t)
    BY WhichStep DEF Critical
  <2>2. QED
    BY <2>1, SeekToFinds
<1>2. QED
  BY <1>1, PositionInvariant, PTL DEF Spec, SeekToFindsByteUnwrapped

-----------------------------------------------------------------------------
(* The file size.                                                           *)

LEMMA EmptyRingCounts == P!Init => P!SizeCounts
BY P!EmptyCounts, AesdCharAssumption

(* The driver's ring counts its bytes, as the ring alone does. *)
LEMMA NextCounts == LogInv /\ P!SizeCounts /\ [Next]_vars => P!SizeCounts'
<1> SUFFICES ASSUME LogInv, P!SizeCounts, [Next]_vars PROVE P!SizeCounts'
  OBVIOUS
<1>1. ASSUME UNCHANGED ring PROVE P!SizeCounts'
  <2>1. entry' = entry /\ in_offs' = in_offs /\ out_offs' = out_offs /\ full' = full /\ size' = size
    BY <1>1 DEF ring
  <2>2. P!BytesPassed' = P!BytesPassed
    BY <2>1 DEF P!BytesPassed, P!SlotAt
  <2>3. QED
    BY <2>1, <2>2 DEF P!SizeCounts, P!Count
<1>2. CASE UNCHANGED vars
  BY <1>1, <1>2 DEF vars, dev
<1>3. CASE Quiet
  BY <1>1, <1>3 DEF Quiet, dev
<1>4. ASSUME NEW t \in Task, NEW data \in UserData, NEW b \in FreeBlocks, BringsData(t, data, b)
      PROVE  P!SizeCounts'
  BY <1>1, <1>4 DEF BringsData, dev
<1>5. ASSUME NEW t \in Task, WriteAppend(t) \/ WriteNoMemory(t) PROVE P!SizeCounts'
  BY <1>1, <1>5 DEF WriteAppend, WriteNoMemory
<1>6. ASSUME NEW t \in Task, WriteCommit(t) PROVE P!SizeCounts'
  <2> DEFINE e == [buffptr |-> dev_buffer, size |-> buffer_size]
  <2>1. Writing(t) /\ CB!aesd_circular_buffer_add_entry(e) /\ RingInv
    BY <1>6, SoleWriter DEF WriteCommit, LogInv, HeapInv, DeviceType
  <2>2. e \in CB!Entries
    <3>1. HasPending
      BY <1>6 DEF WriteCommit, LogInv, HeapInv, CommitReady
    <3>2. QED
      BY <3>1 DEF HasPending, CB!Entries, LogInv, HeapInv, DeviceType
  <2>3. P!aesd_circular_buffer_add_entry(e) /\ e \in P!Entries
    BY <2>1, <2>2
    DEF CB!aesd_circular_buffer_add_entry, P!aesd_circular_buffer_add_entry, CB!Entries, P!Entries,
        CB!NextSlot, P!NextSlot, CB!SizeAfterAdd, P!SizeAfterAdd, CB!OldestAfterAdd,
        P!OldestAfterAdd, CB!FullAfterAdd, P!FullAfterAdd
  <2> HIDE DEF e
  <2>4. QED
    BY <2>1, <2>3, RingInvSame, P!AddKeepsSizeCounts, AesdCharAssumption
<1>7. CASE aesd_init_module
  <2>1. P!Init'
    BY <1>7 DEF aesd_init_module, CB!aesd_circular_buffer_init, P!Init, CB!Slots, P!Slots,
                CB!EmptyEntry, P!EmptyEntry
  <2>2. (P!Init => P!SizeCounts)'
    BY EmptyRingCounts, PTL
  <2>3. QED
    BY <2>1, <2>2
<1>8. CASE aesd_cleanup_module
  BY <1>1, <1>8 DEF aesd_cleanup_module, dev
<1>9. QED
  BY <1>2, <1>3, <1>4, <1>5, <1>6, <1>7, <1>8, MemorySteps DEF LogInv

(* The text is far shorter than a size_t can count: memory holds less than  *)
(* half the addresses there are.                                            *)
TextFits == loaded => 2 * Len(Text) < SizeMod

LEMMA SizeOfText ==
  ASSUME RingInv, DeviceBlocks, P!SizeCounts, 2 * Len(Text) < SizeMod, ~full
  PROVE  FileSize = Len(Text) /\ Len(Text) \in Nat
<1>1. Len(Text) \in Nat /\ SizeMod \in Nat \ {0}
  BY BytesOfText, LenProperties, AesdCharAssumption
<1>2. size = Len(Text) % SizeMod
  BY BytesOfText, SameRing DEF P!SizeCounts, Passed
<1>3. PICK l \in Nat : l = Len(Text)
  BY <1>1
<1>4. 2 * l < SizeMod /\ size = l % SizeMod
  BY <1>2, <1>3
<1>5. l % SizeMod = l
  BY <1>1, <1>4
<1>6. FileSize = l
  BY <1>4, <1>5 DEF FileSize
<1>7. QED
  BY <1>1, <1>3, <1>6

LEMMA SeekAnswers ==
  ASSUME PositionInv, P!SizeCounts, TextFits, NEW t \in Task, SeekBody(t), ~full
  PROVE  LET a == frame[t].arg
             r == frame'[t].ret
         IN  /\ a.whence = "SEEK_END" /\ a.offset = 0 => r = Len(Text)
             /\ a.whence = "SEEK_SET" => (r >= 0 <=> a.offset \in 0 .. Len(Text))
<1> DEFINE a       == frame[t].arg
           pos     == f_pos[frame[t].file]
           new_pos == fixed_size_llseek(pos, a)
<1>1. pc[t] = "seek"
  BY DEF SeekBody
<1>2. loaded /\ RingInv /\ DeviceBlocks /\ frame[t].op = "llseek"
  BY <1>1, InCall DEF Critical, OpOf
<1>3. PICK l \in Nat : l = Len(Text) /\ FileSize = l
  BY <1>2, SizeOfText DEF TextFits
<1>4. frame[t].arg \in SeekArgs
  BY <1>2 DEF PositionInv, CallKnows
<1>5. a.offset \in Int /\ a.whence \in Whence
  BY <1>4, AesdCharAssumption
<1>6. frame'[t].ret = IF new_pos < 0 THEN -EINVAL ELSE new_pos
  <2>1. CASE new_pos < 0
    <3>1. Finish(t, -EINVAL, 0, << >>)
      BY <2>1 DEF SeekBody
    <3>2. frame'[t].ret = -EINVAL
      BY <3>1, FinishFrame DEF PositionInv, LogInv, HeapInv, LockInv
    <3>3. QED
      BY <2>1, <3>2
  <2>2. CASE ~(new_pos < 0)
    <3>1. Finish(t, new_pos, 0, << >>)
      BY <2>2 DEF SeekBody
    <3> HIDE DEF new_pos
    <3>2. frame'[t].ret = new_pos
      BY <3>1, FinishFrame DEF PositionInv, LogInv, HeapInv, LockInv
    <3>3. QED
      BY <2>2, <3>2
  <2>3. QED
    BY <2>1, <2>2
<1> HIDE DEF pos
<1>7. ASSUME a.whence = "SEEK_END", a.offset = 0 PROVE frame'[t].ret = l
  <2>1. new_pos = IF l + 0 < 0 \/ l + 0 > l THEN -EINVAL ELSE l + 0
    BY <1>3, <1>7 DEF fixed_size_llseek
  <2> HIDE DEF new_pos
  <2>2. new_pos = l /\ ~(new_pos < 0)
    BY <2>1
  <2>3. QED
    BY <1>6, <2>2
<1>8. ASSUME a.whence = "SEEK_SET" PROVE frame'[t].ret >= 0 <=> a.offset \in 0 .. l
  <2>1. new_pos = IF a.offset < 0 \/ a.offset > l THEN -EINVAL ELSE a.offset
    BY <1>3, <1>8 DEF fixed_size_llseek
  <2>2. PICK o \in Int : o = a.offset
    BY <1>5
  <2> HIDE DEF new_pos, a
  <2>3. new_pos = IF o < 0 \/ o > l THEN -22 ELSE o
    BY <2>1, <2>2 DEF EINVAL
  <2>4. frame'[t].ret = IF new_pos < 0 THEN -22 ELSE new_pos
    BY <1>6 DEF EINVAL
  <2>5. PICK r \in Int : r = frame'[t].ret
    BY <2>3, <2>4
  <2>6. r = IF o < 0 \/ o > l THEN -22 ELSE o
    BY <2>3, <2>4, <2>5
  <2>7. r >= 0 <=> o \in 0 .. l
    BY <2>6
  <2>8. QED
    BY <2>2, <2>5, <2>7
<1>9. QED
  BY <1>3, <1>7, <1>8

(* While what the ring holds fits the positive half of a loff_t, and until  *)
(* the first command is dropped, aesd_llseek knows where the text ends: it  *)
(* never leaves it, and SEEK_END finds its end.                             *)
THEOREM SeeksStayInText == Spec /\ []TextFits => SeekStaysInText
<1> DEFINE A ==
      \A t \in Task :
        pc[t] = "seek" /\ pc'[t] = "return" /\ ~full =>
          LET a == frame[t].arg
              r == frame'[t].ret
          IN  /\ a.whence = "SEEK_END" /\ a.offset = 0 => r = Len(Text)
              /\ a.whence = "SEEK_SET" => (r >= 0 <=> a.offset \in 0 .. Len(Text))
<1>1. PositionInv /\ P!SizeCounts /\ TextFits /\ [Next]_vars => [A]_vars
  <2> SUFFICES ASSUME PositionInv, P!SizeCounts, TextFits, Next,
                      NEW t \in Task, pc[t] = "seek", pc'[t] = "return", ~full
               PROVE  LET a == frame[t].arg
                          r == frame'[t].ret
                      IN  /\ a.whence = "SEEK_END" /\ a.offset = 0 => r = Len(Text)
                          /\ a.whence = "SEEK_SET" => (r >= 0 <=> a.offset \in 0 .. Len(Text))
    OBVIOUS
  <2>1. SeekBody(t)
    BY WhichStep DEF Critical
  <2>2. QED
    BY <2>1, SeekAnswers
<1>2. Init => P!SizeCounts
  <2>1. Init => P!Init
    BY DEF Init, CB!Init, P!Init, CB!Slots, P!Slots, CB!EmptyEntry, P!EmptyEntry
  <2>2. QED
    BY <2>1, EmptyRingCounts
<1>3. Spec => []P!SizeCounts
  BY <1>2, NextCounts, LogInvariant, PTL DEF Spec
<1>4. QED
  BY <1>1, <1>3, PositionInvariant, PTL DEF Spec, SeekStaysInText

=============================================================================
