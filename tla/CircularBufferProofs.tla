----------------------- MODULE CircularBufferProofs -----------------------
(***************************************************************************)
(* Proofs about the ring for every capacity, content and size_t width.     *)
(***************************************************************************)
EXTENDS CircularBuffer, SequenceTheorems, WellFoundedInduction, TLAPS

-----------------------------------------------------------------------------
(* Induction, in a form the provers can instantiate: a set of natural       *)
(* numbers has a smallest element.                                          *)
LEMMA LessThanWellFounded ==
  \E R : IsWellFoundedOn(R, Nat) /\ \A x, y \in Nat : x < y => <<x, y>> \in R
<1> DEFINE R == OpToRel(<, Nat)
<1>1. IsWellFoundedOn(R, Nat)
  BY NatLessThanWellFounded
<1>2. \A x, y \in Nat : x < y => <<x, y>> \in R
  BY DEF OpToRel
<1> HIDE DEF R
<1> QED
  BY <1>1, <1>2

LEMMA NatMin ==
  ASSUME NEW T, T \subseteq Nat, T # {}
  PROVE  \E x \in T : \A y \in T : x <= y
<1>1. PICK R : IsWellFoundedOn(R, Nat) /\ \A x, y \in Nat : x < y => <<x, y>> \in R
  BY LessThanWellFounded
<1>2. \E x \in T : \A y \in T : ~(<<y, x>> \in R)
  <2>1. IsWellFoundedOn(R, Nat)
    BY <1>1
  <2> QED
    BY <2>1, WFMin
<1>3. PICK x \in T : \A y \in T : ~(y < x)
  BY <1>1, <1>2
<1> QED
  BY <1>3
-----------------------------------------------------------------------------

(***************************************************************************)
(* RingInv is the inductive invariant.  TypeOK and SlotsInUse alone are    *)
(* not inductive: they do not exclude a half-filled ring whose oldest slot *)
(* is not slot 0.  The ring fills from slot 0 up and, once full, stays     *)
(* full with both indices equal.                                           *)
(***************************************************************************)
FillsFromZero ==
  /\ full  => in_offs = out_offs
  /\ ~full => out_offs = 0
  /\ \A i \in Slots : (entry[i] # EmptyEntry) <=> (full \/ i < in_offs)

RingInv == TypeOK /\ FillsFromZero

-----------------------------------------------------------------------------
(* Index arithmetic: below twice the modulus, % is at most one subtraction. *)
LEMMA ModBelowTwice ==
  ASSUME NEW n \in 0 .. 2 * MaxWriteOps - 1
  PROVE  n % MaxWriteOps = IF n < MaxWriteOps THEN n ELSE n - MaxWriteOps
BY CircularBufferAssumption

(* NextSlot stays inside the array. *)
LEMMA NextSlotInSlots ==
  ASSUME NEW i \in Slots
  PROVE  /\ NextSlot(i) \in Slots
         /\ NextSlot(i) = IF i = MaxWriteOps - 1 THEN 0 ELSE i + 1
BY CircularBufferAssumption, ModBelowTwice DEF NextSlot, Slots

(* SlotAt enumerates the slots in search order. *)
LEMMA SlotAtInSlots ==
  ASSUME NEW k \in Slots, out_offs \in Slots
  PROVE  /\ SlotAt(k) \in Slots
         /\ SlotAt(k) = IF out_offs + k < MaxWriteOps THEN out_offs + k
                        ELSE out_offs + k - MaxWriteOps
BY CircularBufferAssumption, ModBelowTwice DEF SlotAt, Slots

(* Whatever the stray word, size stays inside its width. *)
LEMMA SizeAfterAddInWidth ==
  ASSUME NEW e \in Entries, size \in 0 .. SizeMod - 1,
         NEW s \in SizeAfterAdd(e)
  PROVE  s \in 0 .. SizeMod - 1
<1> DEFINE grown == (size + e.size) % SizeMod
<1>1. e.size \in Nat
  BY CircularBufferAssumption DEF Entries
<1>2. grown \in 0 .. SizeMod - 1
  BY <1>1, CircularBufferAssumption
<1>3. \A w \in StrayWords : (grown - w) % SizeMod \in 0 .. SizeMod - 1
  <2> SUFFICES ASSUME NEW w \in StrayWords
               PROVE  (grown - w) % SizeMod \in 0 .. SizeMod - 1
    OBVIOUS
  <2>1. w \in Nat
    BY CircularBufferAssumption
  <2> HIDE DEF grown
  <2> QED
    BY <1>2, <2>1, CircularBufferAssumption
<1>4. 0 \in 0 .. SizeMod - 1
  BY CircularBufferAssumption
<1> QED
  BY <1>2, <1>3, <1>4 DEF SizeAfterAdd

-----------------------------------------------------------------------------
LEMMA RingInvInit == Init => RingInv
<1> SUFFICES ASSUME Init PROVE RingInv
  OBVIOUS
<1>1. 0 \in Slots /\ 0 \in 0 .. SizeMod - 1
  BY CircularBufferAssumption DEF Slots
<1>2. TypeOK
  BY <1>1 DEF Init, TypeOK
<1>3. ~full
  BY DEF Init
<1>4. \A i \in Slots : entry[i] = EmptyEntry /\ ~(i < in_offs)
  BY CircularBufferAssumption DEF Init, Slots
<1> QED
  BY <1>2, <1>3, <1>4 DEF Init, RingInv, FillsFromZero

LEMMA AddKeepsRingInv ==
  ASSUME RingInv, NEW e \in Entries, aesd_circular_buffer_add_entry(e)
  PROVE  RingInv'
<1> USE DEF RingInv, aesd_circular_buffer_add_entry
<1>1. e # EmptyEntry
  BY CircularBufferAssumption DEF Entries, EmptyEntry
<1>2. in_offs \in Slots /\ out_offs \in Slots
  BY DEF TypeOK
<1>3. TypeOK'
  <2>1. entry' \in [Slots -> Entries \cup {EmptyEntry}]
    BY DEF TypeOK
  <2>2. in_offs' \in Slots /\ out_offs' \in Slots
    BY <1>2, NextSlotInSlots DEF OldestAfterAdd
  <2>3. full' \in BOOLEAN
    BY DEF FullAfterAdd
  <2>4. size' \in 0 .. SizeMod - 1
    BY SizeAfterAddInWidth DEF TypeOK
  <2> QED
    BY <2>1, <2>2, <2>3, <2>4 DEF TypeOK
<1>4. FillsFromZero'
  <2>1. CASE full
    BY <2>1, <1>1, <1>2, NextSlotInSlots
       DEF FillsFromZero, TypeOK, OldestAfterAdd, FullAfterAdd
  <2>2. CASE ~full
    <3>1. out_offs = 0 /\ out_offs' = 0
      BY <2>2 DEF FillsFromZero, OldestAfterAdd
    <3>2. full' <=> in_offs = MaxWriteOps - 1
      <4>1. NextSlot(in_offs) = 0 <=> in_offs = MaxWriteOps - 1
        BY <1>2, NextSlotInSlots, CircularBufferAssumption DEF Slots
      <4>2. full' = (0 = NextSlot(in_offs))
        BY <3>1 DEF FullAfterAdd
      <4> QED
        BY <4>1, <4>2
    <3>3. \A i \in Slots : (entry'[i] # EmptyEntry) <=> (i < in_offs \/ i = in_offs)
      BY <2>2, <1>1 DEF FillsFromZero, TypeOK
    <3> QED
      BY <3>1, <3>2, <3>3, <1>2, NextSlotInSlots
         DEF FillsFromZero, FullAfterAdd, OldestAfterAdd, Slots
  <2> QED
    BY <2>1, <2>2
<1> QED
  BY <1>3, <1>4

LEMMA StepKeepsRingInv == RingInv /\ [Next]_ring => RingInv'
<1>1. CASE \E e \in Entries : aesd_circular_buffer_add_entry(e)
  BY <1>1, AddKeepsRingInv
<1>2. CASE UNCHANGED ring
  BY <1>2 DEF RingInv, TypeOK, FillsFromZero, ring
<1> QED
  BY <1>1, <1>2 DEF Next

(* The inductive invariant holds of every behaviour of the ring. *)
THEOREM RingInvariant == Spec => []RingInv
BY RingInvInit, StepKeepsRingInv, PTL DEF Spec

(* aesd_circular_buffer_add_entry never leaves the array with its indices   *)
(* and never lets size exceed its width, for every ring capacity.           *)
THEOREM TypeCorrect == Spec => []TypeOK
BY RingInvariant, PTL DEF RingInv

-----------------------------------------------------------------------------
LEMMA CountOfRing ==
  ASSUME RingInv
  PROVE  Count = IF full THEN MaxWriteOps ELSE in_offs
<1>1. in_offs \in Slots /\ (~full => out_offs = 0)
  BY DEF RingInv, TypeOK, FillsFromZero
<1>2. in_offs % MaxWriteOps = in_offs
  BY <1>1, ModBelowTwice, CircularBufferAssumption DEF Slots
<1> QED
  BY <1>1, <1>2 DEF Count, Slots

LEMMA RingInvImpliesSlotsInUse == RingInv => SlotsInUse
<1> SUFFICES ASSUME RingInv, NEW k \in Slots
             PROVE  (entry[SlotAt(k)] # EmptyEntry) <=> (k < Count)
  BY DEF SlotsInUse
<1>1. SlotAt(k) \in Slots
  BY SlotAtInSlots DEF RingInv, TypeOK
<1>2. CASE full
  <2>1. Count = MaxWriteOps
    BY <1>2, CountOfRing
  <2>2. entry[SlotAt(k)] # EmptyEntry
    BY <1>1, <1>2 DEF RingInv, FillsFromZero
  <2> QED
    BY <2>1, <2>2, CircularBufferAssumption DEF Slots
<1>3. CASE ~full
  <2>1. out_offs = 0 /\ out_offs \in Slots
    BY <1>3 DEF RingInv, FillsFromZero, TypeOK
  <2>2. SlotAt(k) = k
    BY <2>1, SlotAtInSlots, CircularBufferAssumption DEF Slots
  <2>3. Count = in_offs
    BY <1>3, CountOfRing
  <2>4. (entry[k] # EmptyEntry) <=> (full \/ k < in_offs)
    BY DEF RingInv, FillsFromZero
  <2> QED
    BY <1>3, <2>2, <2>3, <2>4
<1> QED
  BY <1>2, <1>3

(* in_offs, out_offs and full always tell which slots hold a write.         *)
THEOREM SlotsInUseCorrect == Spec => []SlotsInUse
BY RingInvariant, RingInvImpliesSlotsInUse, PTL

-----------------------------------------------------------------------------
(* Logged is a sequence of writes, as long as Count says. *)
LEMMA LoggedIsSeq ==
  ASSUME RingInv
  PROVE  /\ Count \in 0 .. MaxWriteOps
         /\ Logged \in Seq(Entries)
         /\ Len(Logged) = Count
         /\ \A k \in 1 .. Count : Logged[k] = entry[SlotAt(k - 1)]
<1>1. Count \in 0 .. MaxWriteOps
  BY CountOfRing, CircularBufferAssumption DEF RingInv, TypeOK, Slots
<1>2. \A k \in 1 .. Count : k - 1 \in Slots /\ k - 1 < Count
  BY <1>1, CircularBufferAssumption DEF Slots
<1>3. \A k \in 1 .. Count : entry[SlotAt(k - 1)] # EmptyEntry
  BY <1>2, RingInvImpliesSlotsInUse DEF SlotsInUse
<1>4. \A k \in 1 .. Count : entry[SlotAt(k - 1)] \in Entries
  BY <1>2, <1>3, SlotAtInSlots DEF RingInv, TypeOK
<1>5. Logged \in [1 .. Count -> Entries]
  BY <1>4 DEF Logged
<1>6. Logged \in Seq(Entries)
  BY <1>1, <1>5, SeqDef
<1>7. Len(Logged) = Count
  BY <1>1, <1>5, <1>6, LenProperties
<1> QED
  BY <1>1, <1>6, <1>7 DEF Logged

(* SlotAtInSlots for all slots at once, in a form that can be primed. *)
LEMMA SearchOrder ==
  RingInv => \A k \in Slots :
    /\ SlotAt(k) \in Slots
    /\ SlotAt(k) = IF out_offs + k < MaxWriteOps THEN out_offs + k
                   ELSE out_offs + k - MaxWriteOps
BY SlotAtInSlots DEF RingInv, TypeOK

(* Adding to the ring is remembering in the abstract log. *)
LEMMA AddRemembers ==
  ASSUME RingInv, NEW e \in Entries, aesd_circular_buffer_add_entry(e)
  PROVE  RW!Remember(e)
<1> DEFINE kept == IF Len(Logged) = MaxWriteOps THEN Tail(Logged) ELSE Logged
<1>1. RingInv'
  BY AddKeepsRingInv
<1>2. in_offs \in Slots /\ out_offs \in Slots /\ entry \in [Slots -> Entries \cup {EmptyEntry}]
  BY DEF RingInv, TypeOK
<1>3. /\ Logged \in Seq(Entries)
      /\ Len(Logged) = Count
      /\ \A k \in 1 .. Count : Logged[k] = entry[SlotAt(k - 1)]
      /\ Count \in 0 .. MaxWriteOps
  BY LoggedIsSeq
<1>4. /\ Logged' \in Seq(Entries)
      /\ Len(Logged') = Count'
      /\ \A k \in 1 .. Count' : Logged'[k] = entry'[SlotAt(k - 1)']
  <2>1. RingInv' => (/\ Count \in 0 .. MaxWriteOps
                     /\ Logged \in Seq(Entries)
                     /\ Len(Logged) = Count
                     /\ \A k \in 1 .. Count : Logged[k] = entry[SlotAt(k - 1)])'
    BY LoggedIsSeq, PTL
  <2> QED
    BY <1>1, <2>1
<1>5. Count' = IF full' THEN MaxWriteOps ELSE in_offs'
  <2>1. (RingInv => Count = IF full THEN MaxWriteOps ELSE in_offs)'
    BY CountOfRing, PTL
  <2> QED
    BY <1>1, <2>1
<1>6. \A k \in Slots :
        /\ SlotAt(k)' \in Slots
        /\ SlotAt(k)' = IF out_offs' + k < MaxWriteOps THEN out_offs' + k
                        ELSE out_offs' + k - MaxWriteOps
  <2>1. (RingInv => \A k \in Slots :
          /\ SlotAt(k) \in Slots
          /\ SlotAt(k) = IF out_offs + k < MaxWriteOps THEN out_offs + k
                         ELSE out_offs + k - MaxWriteOps)'
    BY SearchOrder, PTL
  <2> QED
    BY <1>1, <2>1
<1>7. /\ in_offs' = NextSlot(in_offs)
      /\ entry' = [entry EXCEPT ![in_offs] = e]
  BY DEF aesd_circular_buffer_add_entry
<1>8. /\ kept \in Seq(Entries)
      /\ Append(kept, e) \in Seq(Entries)
      /\ Len(Append(kept, e)) = Len(kept) + 1
      /\ Append(kept, e)[Len(kept) + 1] = e
      /\ \A k \in 1 .. Len(kept) : Append(kept, e)[k] = kept[k]
  <2>1. kept \in Seq(Entries)
    BY <1>3, HeadTailProperties, EmptySeq, CircularBufferAssumption
  <2> HIDE DEF kept
  <2> QED
    BY <2>1, AppendProperties
<1>9. CASE full
  <2>1. /\ in_offs = out_offs
        /\ out_offs' = NextSlot(in_offs)
        /\ full'
    BY <1>9 DEF RingInv, FillsFromZero, aesd_circular_buffer_add_entry,
                OldestAfterAdd, FullAfterAdd
  <2>2. /\ out_offs = in_offs
        /\ out_offs' = IF in_offs = MaxWriteOps - 1 THEN 0 ELSE in_offs + 1
    BY <1>2, <2>1, NextSlotInSlots
  <2>3. Count = MaxWriteOps /\ Count' = MaxWriteOps
    BY <1>5, <1>9, <2>1, CountOfRing
  <2>4. /\ Len(kept) = MaxWriteOps - 1
        /\ \A k \in 1 .. MaxWriteOps - 1 : kept[k] = Logged[k + 1]
    BY <1>3, <2>3, HeadTailProperties, EmptySeq, CircularBufferAssumption
  <2> HIDE DEF kept
  <2>5. \A k \in 1 .. MaxWriteOps : Logged'[k] = Append(kept, e)[k]
    <3> SUFFICES ASSUME NEW k \in 1 .. MaxWriteOps
                 PROVE  Logged'[k] = Append(kept, e)[k]
      OBVIOUS
    <3>1. k - 1 \in Slots
      BY CircularBufferAssumption DEF Slots
    <3>2. Logged'[k] = entry'[SlotAt(k - 1)']
      BY <1>4, <2>3
    <3>3. CASE k = MaxWriteOps
      <4>1. SlotAt(k - 1)' = in_offs
        BY <1>2, <1>6, <2>2, <3>1, <3>3, CircularBufferAssumption DEF Slots
      <4> QED
        BY <1>2, <1>7, <1>8, <2>4, <3>2, <3>3, <4>1, CircularBufferAssumption
    <3>4. CASE k # MaxWriteOps
      <4>1. k \in Slots
        BY <3>4, CircularBufferAssumption DEF Slots
      <4>2. SlotAt(k - 1)' = SlotAt(k) /\ SlotAt(k) # in_offs /\ SlotAt(k) \in Slots
        <5>1. SlotAt(k) \in Slots /\ SlotAt(k) =
                IF out_offs + k < MaxWriteOps THEN out_offs + k
                ELSE out_offs + k - MaxWriteOps
          BY <4>1, SearchOrder
        <5>2. SlotAt(k - 1)' =
                IF out_offs' + (k - 1) < MaxWriteOps THEN out_offs' + (k - 1)
                ELSE out_offs' + (k - 1) - MaxWriteOps
          BY <1>6, <3>1
        <5> QED
          BY <1>2, <2>2, <3>4, <5>1, <5>2, CircularBufferAssumption DEF Slots
      <4>3. Logged'[k] = entry[SlotAt(k)]
        BY <1>2, <1>7, <3>2, <4>2
      <4>4. k + 1 \in 1 .. Count /\ (k + 1) - 1 = k /\ k \in 1 .. MaxWriteOps - 1
        BY <2>3, <3>4, CircularBufferAssumption
      <4>5. kept[k] = entry[SlotAt(k)]
        BY <1>3, <2>4, <4>4
      <4> QED
        BY <1>8, <2>4, <4>3, <4>4, <4>5
    <3> QED
      BY <3>3, <3>4
  <2>6. Len(Logged') = MaxWriteOps /\ Len(Append(kept, e)) = MaxWriteOps
    BY <1>4, <1>8, <2>3, <2>4, CircularBufferAssumption
  <2>7. Logged' = Append(kept, e)
    BY <1>4, <1>8, <2>5, <2>6, SeqEqual
  <2> QED
    BY <2>7 DEF kept, RW!Remember
<1>10. CASE ~full
  <2>1. /\ out_offs = 0
        /\ out_offs' = 0
        /\ full' <=> NextSlot(in_offs) = 0
    <3>1. out_offs = 0
      BY <1>10 DEF RingInv, FillsFromZero
    <3>2. OldestAfterAdd = 0
      BY <1>10, <3>1 DEF OldestAfterAdd
    <3> QED
      BY <3>1, <3>2 DEF aesd_circular_buffer_add_entry, FullAfterAdd
  <2>2. Count = in_offs
    BY <1>10, CountOfRing
  <2>3. Count' = in_offs + 1
    <3>1. CASE in_offs = MaxWriteOps - 1
      <4>1. full'
        BY <1>2, <2>1, <3>1, NextSlotInSlots
      <4> QED
        BY <1>5, <3>1, <4>1, CircularBufferAssumption
    <3>2. CASE in_offs # MaxWriteOps - 1
      <4>1. NextSlot(in_offs) = in_offs + 1 /\ NextSlot(in_offs) # 0
        BY <1>2, <3>2, NextSlotInSlots, CircularBufferAssumption DEF Slots
      <4>2. ~full'
        BY <2>1, <4>1
      <4> QED
        BY <1>5, <1>7, <4>1, <4>2
    <3> QED
      BY <3>1, <3>2
  <2>4. kept = Logged /\ Len(kept) = in_offs
    BY <1>2, <1>3, <2>2, CircularBufferAssumption DEF Slots
  <2> HIDE DEF kept
  <2>5. \A k \in 1 .. in_offs + 1 : Logged'[k] = Append(kept, e)[k]
    <3> SUFFICES ASSUME NEW k \in 1 .. in_offs + 1
                 PROVE  Logged'[k] = Append(kept, e)[k]
      OBVIOUS
    <3>1. k - 1 \in Slots
      BY <1>2, CircularBufferAssumption DEF Slots
    <3>2. Logged'[k] = entry'[SlotAt(k - 1)']
      BY <1>4, <2>3
    <3>3. SlotAt(k - 1)' = k - 1 /\ SlotAt(k - 1) = k - 1
      BY <1>2, <1>6, <2>1, <3>1, SlotAtInSlots, CircularBufferAssumption DEF Slots
    <3>4. CASE k = in_offs + 1
      <4>1. Logged'[k] = e
        BY <1>2, <1>7, <3>2, <3>3, <3>4, CircularBufferAssumption DEF Slots
      <4> QED
        BY <1>8, <2>4, <3>4, <4>1
    <3>5. CASE k # in_offs + 1
      <4>1. k \in 1 .. in_offs /\ k - 1 # in_offs
        BY <1>2, <3>5, CircularBufferAssumption DEF Slots
      <4>2. Logged'[k] = entry[k - 1]
        BY <1>2, <1>7, <3>1, <3>2, <3>3, <4>1
      <4>3. Logged[k] = entry[k - 1]
        BY <1>3, <2>2, <3>3, <4>1
      <4> QED
        BY <1>8, <2>4, <4>1, <4>2, <4>3
    <3> QED
      BY <3>4, <3>5
  <2>6. Len(Logged') = in_offs + 1 /\ Len(Append(kept, e)) = in_offs + 1
    BY <1>4, <1>8, <2>3, <2>4
  <2>7. Logged' = Append(kept, e)
    BY <1>4, <1>8, <2>5, <2>6, SeqEqual
  <2> QED
    BY <2>7 DEF kept, RW!Remember
<1> QED
  BY <1>9, <1>10

(* The ring implements RecentWrites: it always holds the most recent writes *)
(* in order, at most MaxWriteOps of them, through every wrap of its indices.*)
THEOREM RingRefinesRecentWrites == Spec => RefinesRecentWrites
<1>1. Init => RW!Init
  <2> SUFFICES ASSUME Init PROVE Logged = << >>
    BY DEF RW!Init
  <2>1. RingInv /\ Count = 0
    BY RingInvInit, CountOfRing DEF Init
  <2>2. Logged \in Seq(Entries) /\ Len(Logged) = 0
    BY <2>1, LoggedIsSeq
  <2> QED
    BY <2>2, EmptySeq
<1>2. RingInv /\ [Next]_ring => [RW!Next]_Logged
  <2>1. ASSUME RingInv, NEW e \in Entries, aesd_circular_buffer_add_entry(e)
        PROVE  RW!Next
    BY <2>1, AddRemembers DEF RW!Next
  <2>2. CASE UNCHANGED ring
    BY <2>2 DEF ring, Logged, Count, SlotAt
  <2> QED
    BY <2>1, <2>2 DEF Next
<1> QED
  BY <1>1, <1>2, RingInvariant, PTL DEF Spec, RefinesRecentWrites, RW!Spec

-----------------------------------------------------------------------------
(* Induction up to n, over a set of numbers. *)
LEMMA UpTo ==
  ASSUME NEW n \in Nat, NEW T, 0 \in T, \A k \in 1 .. n : k - 1 \in T => k \in T
  PROVE  \A k \in 0 .. n : k \in T
<1> DEFINE U == (0 .. n) \ T
<1>1. SUFFICES ASSUME U # {} PROVE FALSE
  OBVIOUS
<1>2. U \subseteq Nat
  OBVIOUS
<1>3. PICK k \in U : \A y \in U : k <= y
  <2> HIDE DEF U
  <2>1. QED
    BY <1>1, <1>2, NatMin
<1>4. k \in 1 .. n /\ k - 1 \in T
  BY <1>3
<1>5. QED
  BY <1>3, <1>4

(* Recursion: whatever each step makes of the value before it, there is a   *)
(* sequence of n steps.                                                     *)
IsSteps(f, n, S, base, step) ==
  /\ f \in [0 .. n -> S]
  /\ f[0] = base
  /\ \A k \in 1 .. n : f[k] = step[<<f[k - 1], k>>]

LEMMA StepsExist ==
  ASSUME NEW n \in Nat, NEW S, NEW base \in S, NEW step \in [S \X (1 .. n) -> S]
  PROVE  \E f : IsSteps(f, n, S, base, step)
<1> DEFINE T == {m \in 0 .. n : \E f : IsSteps(f, m, S, base, step)}
<1>1. 0 \in T
  <2>1. IsSteps([k \in 0 .. 0 |-> base], 0, S, base, step)
    BY DEF IsSteps
  <2>2. QED
    BY <2>1
<1>2. ASSUME NEW m \in 1 .. n, m - 1 \in T PROVE m \in T
  <2>1. PICK f : IsSteps(f, m - 1, S, base, step)
    BY <1>2
  <2>2. /\ f \in [0 .. m - 1 -> S]
        /\ f[0] = base
        /\ \A k \in 1 .. m - 1 : f[k] = step[<<f[k - 1], k>>]
    BY <2>1 DEF IsSteps
  <2> DEFINE g == [k \in 0 .. m |-> IF k <= m - 1 THEN f[k] ELSE step[<<f[m - 1], m>>]]
  <2>3. step[<<f[m - 1], m>>] \in S
    BY <2>2
  <2>4. g \in [0 .. m -> S] /\ g[0] = base
    BY <2>2, <2>3
  <2>5. ASSUME NEW k \in 1 .. m PROVE g[k] = step[<<g[k - 1], k>>]
    <3>1. g[k - 1] = f[k - 1]
      OBVIOUS
    <3>2. CASE k = m
      <4>1. g[m] = step[<<f[m - 1], m>>]
        OBVIOUS
      <4>2. QED
        BY <3>1, <3>2, <4>1
    <3>3. CASE k # m
      <4>1. k \in 1 .. m - 1 /\ g[k] = f[k]
        BY <3>3
      <4>2. QED
        BY <4>1, <3>1, <2>2
    <3>4. QED
      BY <3>2, <3>3
  <2>6. IsSteps(g, m, S, base, step)
    BY <2>4, <2>5 DEF IsSteps
  <2>7. QED
    BY <2>6
<1>3. n \in T
  <2> HIDE DEF T
  <2>1. QED
    BY <1>1, <1>2, UpTo
<1>4. QED
  BY <1>3

(* Every slot, in use or not, has a length. *)
LEMMA EntrySizesNat == RingInv => \A i \in Slots : entry[i].size \in Nat
<1>1. \A e \in Entries : e.size \in Nat
  BY CircularBufferAssumption DEF Entries
<1>2. EmptyEntry.size \in Nat
  BY DEF EmptyEntry
<1>3. QED
  BY <1>1, <1>2 DEF RingInv, TypeOK

(* Running sums, as the code's loops build them. *)
IsSums(f, n, a) == f = [k \in 0 .. n |-> IF k = 0 THEN 0 ELSE f[k - 1] + a[k]]

LEMMA Sums ==
  ASSUME NEW n \in Nat, NEW a \in [1 .. n -> Nat]
  PROVE  /\ \E f : IsSums(f, n, a)
         /\ \A f : IsSums(f, n, a) => /\ f \in [0 .. n -> Nat] /\ f[0] = 0
                                      /\ \A k \in 1 .. n : f[k] = f[k - 1] + a[k]
<1>1. \E f : IsSums(f, n, a)
  <2> DEFINE step == [x \in Nat \X (1 .. n) |-> x[1] + a[x[2]]]
  <2>1. step \in [Nat \X (1 .. n) -> Nat]
    OBVIOUS
  <2> HIDE DEF step
  <2>2. PICK f : IsSteps(f, n, Nat, 0, step)
    BY <2>1, StepsExist
  <2>3. /\ f \in [0 .. n -> Nat] /\ f[0] = 0
        /\ \A k \in 1 .. n : f[k] = step[<<f[k - 1], k>>]
    BY <2>2 DEF IsSteps
  <2>4. ASSUME NEW k \in 1 .. n PROVE f[k] = f[k - 1] + a[k]
    <3>1. <<f[k - 1], k>> \in Nat \X (1 .. n)
      <4>1. k - 1 \in 0 .. n
        OBVIOUS
      <4>2. f[k - 1] \in Nat
        BY <2>3, <4>1
      <4>3. QED
        BY <4>2
    <3>2. QED
      BY <2>3, <3>1 DEF step
  <2>5. IsSums(f, n, a)
    BY <2>3, <2>4 DEF IsSums
  <2>6. QED
    BY <2>5
<1>2. ASSUME NEW f, IsSums(f, n, a)
      PROVE  /\ f \in [0 .. n -> Nat] /\ f[0] = 0
             /\ \A k \in 1 .. n : f[k] = f[k - 1] + a[k]
  <2>1. f[0] = 0
    BY <1>2 DEF IsSums
  <2>2. ASSUME NEW k \in 1 .. n PROVE f[k] = f[k - 1] + a[k]
    <3>1. k \in 0 .. n /\ k # 0
      OBVIOUS
    <3>2. QED
      BY <1>2, <3>1 DEF IsSums
  <2> DEFINE T == {k \in 0 .. n : f[k] \in Nat}
  <2>3. 0 \in T /\ \A k \in 1 .. n : k - 1 \in T => k \in T
    BY <2>1, <2>2
  <2>4. \A k \in 0 .. n : k \in T
    <3> HIDE DEF T
    <3>1. QED
      BY <2>3, UpTo
  <2>5. f \in [0 .. n -> Nat]
    <3>1. f = [k \in 0 .. n |-> f[k]]
      BY <1>2 DEF IsSums
    <3>2. QED
      BY <2>4, <3>1
  <2>6. QED
    BY <2>1, <2>2, <2>5
<1>3. QED
  BY <1>1, <1>2

(* current_total_bytes after each slot, by the recursion that defines it. *)
BytesPassedAdds ==
  /\ BytesPassed \in [0 .. MaxWriteOps -> Nat]
  /\ BytesPassed[0] = 0
  /\ \A k \in Slots : BytesPassed[k + 1] = BytesPassed[k] + entry[SlotAt(k)].size

LEMMA BytesPassedSteps == RingInv => BytesPassedAdds
<1> SUFFICES ASSUME RingInv PROVE BytesPassedAdds
  OBVIOUS
<1> DEFINE a == [k \in 1 .. MaxWriteOps |-> entry[SlotAt(k - 1)].size]
           IsPassed(f) == f = [k \in 0 .. MaxWriteOps |->
                                 IF k = 0 THEN 0 ELSE f[k - 1] + entry[SlotAt(k - 1)].size]
<1>1. MaxWriteOps \in Nat /\ Slots = 0 .. MaxWriteOps - 1
  BY CircularBufferAssumption DEF Slots
<1>2. a \in [1 .. MaxWriteOps -> Nat]
  <2>1. \A k \in 1 .. MaxWriteOps : k - 1 \in Slots /\ SlotAt(k - 1) \in Slots
    BY <1>1, SearchOrder
  <2>2. \A i \in Slots : entry[i].size \in Nat
    BY EntrySizesNat
  <2>3. QED
    BY <2>1, <2>2
<1>3. \A k \in 0 .. MaxWriteOps : k # 0 => a[k] = entry[SlotAt(k - 1)].size
  BY <1>1
<1>4. ASSUME NEW f PROVE IsSums(f, MaxWriteOps, a) <=> IsPassed(f)
  <2> HIDE DEF a
  <2>1. [k \in 0 .. MaxWriteOps |-> IF k = 0 THEN 0 ELSE f[k - 1] + a[k]]
          = [k \in 0 .. MaxWriteOps |->
               IF k = 0 THEN 0 ELSE f[k - 1] + entry[SlotAt(k - 1)].size]
    BY <1>3
  <2>2. QED
    BY <2>1 DEF IsSums
<1> HIDE DEF a
<1>5. \E f : IsPassed(f)
  BY <1>1, <1>2, <1>4, Sums
<1>6. IsPassed(BytesPassed)
  <2>1. BytesPassed = CHOOSE p : IsPassed(p)
    BY DEF BytesPassed
  <2>2. QED
    BY <1>5, <2>1
<1>7. IsSums(BytesPassed, MaxWriteOps, a)
  <2> HIDE DEF IsPassed
  <2>1. QED
    BY <1>4, <1>6
<1>8. /\ BytesPassed \in [0 .. MaxWriteOps -> Nat] /\ BytesPassed[0] = 0
      /\ \A k \in 1 .. MaxWriteOps : BytesPassed[k] = BytesPassed[k - 1] + a[k]
  BY <1>1, <1>2, <1>7, Sums
<1>9. ASSUME NEW k \in Slots
      PROVE  BytesPassed[k + 1] = BytesPassed[k] + entry[SlotAt(k)].size
  <2>1. PICK j \in 1 .. MaxWriteOps : j = k + 1 /\ j - 1 = k
    BY <1>1
  <2>2. BytesPassed[j] = BytesPassed[j - 1] + entry[SlotAt(j - 1)].size
    BY <1>1, <1>3, <1>8
  <2>3. QED
    BY <2>1, <2>2
<1>10. QED
  BY <1>8, <1>9 DEF BytesPassedAdds

(* FlattenSeq is a recursion too. *)
LEMMA FlattenSteps ==
  ASSUME NEW S, NEW seqs \in Seq(Seq(S))
  PROVE  \E g \in [0 .. Len(seqs) -> Seq(S)] :
           /\ g[0] = << >>
           /\ \A k \in 1 .. Len(seqs) : g[k] = g[k - 1] \o seqs[k]
           /\ RW!FlattenSeq(seqs) = g[Len(seqs)]
<1> DEFINE n == Len(seqs)
           join == [x \in Seq(S) \X (1 .. n) |-> x[1] \o seqs[x[2]]]
           IsFlatten(f) == f = [i \in 1 .. n |-> IF i = 1 THEN seqs[i] ELSE f[i - 1] \o seqs[i]]
<1>1. n \in Nat /\ \A k \in 1 .. n : seqs[k] \in Seq(S)
  BY LenProperties, ElementOfSeq
<1>2. << >> \in Seq(S) /\ \A s, t \in Seq(S) : s \o t \in Seq(S)
  BY EmptySeq, ConcatProperties
<1>3. join \in [Seq(S) \X (1 .. n) -> Seq(S)]
  BY <1>1, <1>2
<1> HIDE DEF join, n
<1>4. PICK f : IsSteps(f, n, Seq(S), << >>, join)
  BY <1>1, <1>2, <1>3, StepsExist
<1>5. /\ f \in [0 .. n -> Seq(S)] /\ f[0] = << >>
      /\ \A k \in 1 .. n : f[k] = f[k - 1] \o seqs[k]
  <2>1. /\ f \in [0 .. n -> Seq(S)] /\ f[0] = << >>
        /\ \A k \in 1 .. n : f[k] = join[<<f[k - 1], k>>]
    BY <1>4 DEF IsSteps
  <2>2. ASSUME NEW k \in 1 .. n PROVE f[k] = f[k - 1] \o seqs[k]
    <3>1. <<f[k - 1], k>> \in Seq(S) \X (1 .. n)
      BY <1>1, <2>1
    <3>2. QED
      BY <2>1, <3>1 DEF join
  <2>3. QED
    BY <2>1, <2>2
<1>6. CASE n = 0
  <2>1. RW!FlattenSeq(seqs) = seqs
    BY <1>6 DEF RW!FlattenSeq, n
  <2>2. seqs = << >>
    BY <1>6, EmptySeq DEF n
  <2>3. QED
    BY <1>5, <1>6, <2>1, <2>2 DEF n
<1>7. CASE n # 0
  <2>0. f[1] = << >> \o seqs[1] /\ seqs[1] \in Seq(S)
    <3>1. 1 \in 1 .. n /\ 1 - 1 = 0
      BY <1>1, <1>7
    <3>2. f[1] = f[1 - 1] \o seqs[1]
      BY <3>1, <1>5
    <3>3. QED
      BY <3>1, <3>2, <1>1, <1>5
  <2> DEFINE h == [i \in 1 .. n |-> f[i]]
             flatten == CHOOSE g : IsFlatten(g)
  <2>1. IsFlatten(h)
    <3>1. f[1] = seqs[1]
      BY <2>0, ConcatEmptySeq
    <3>2. ASSUME NEW i \in 1 .. n, i # 1 PROVE h[i] = h[i - 1] \o seqs[i]
      <4>1. i - 1 \in 1 .. n
        BY <1>1, <3>2
      <4>2. h[i - 1] = f[i - 1]
        BY <4>1
      <4>3. QED
        BY <1>5, <4>2, <3>2
    <3>3. QED
      BY <3>1, <3>2
  <2>2. IsFlatten(flatten)
    BY <2>1
  <2>3. RW!FlattenSeq(seqs) = flatten[n]
    BY <1>7 DEF RW!FlattenSeq, n
  <2> HIDE DEF flatten
  <2>4. \A i \in 1 .. n : flatten[i] = IF i = 1 THEN seqs[i] ELSE flatten[i - 1] \o seqs[i]
    BY <2>2
  <2>5. \A k \in 0 .. n : k = 0 \/ flatten[k] = f[k]
    <3> DEFINE T == {k \in 0 .. n : k = 0 \/ flatten[k] = f[k]}
    <3>1. 0 \in T
      BY <1>1
    <3>2. ASSUME NEW k \in 1 .. n, k - 1 \in T PROVE k \in T
      <4>1. CASE k = 1
        <5>1. flatten[1] = seqs[1]
          BY <4>1, <2>4
        <5>2. QED
          BY <4>1, <5>1, <2>0, <1>1, ConcatEmptySeq
      <4>2. CASE k # 1
        <5>1. flatten[k - 1] = f[k - 1]
          BY <1>1, <3>2, <4>2
        <5>2. flatten[k] = flatten[k - 1] \o seqs[k] /\ f[k] = f[k - 1] \o seqs[k]
          BY <1>5, <2>4, <4>2
        <5>3. flatten[k] = f[k] /\ k \in 0 .. n
          BY <1>1, <5>1, <5>2
        <5>4. QED
          BY <5>3
      <4>3. QED
        BY <4>1, <4>2
    <3>3. \A k \in 0 .. n : k \in T
      <4> HIDE DEF T
      <4>1. QED
        BY <1>1, <3>1, <3>2, UpTo
    <3>4. QED
      BY <3>3
  <2>6. flatten[n] = f[n]
    BY <1>1, <1>7, <2>5
  <2>7. QED
    BY <1>5, <2>3, <2>6 DEF n
<1>8. QED
  BY <1>6, <1>7

-----------------------------------------------------------------------------
(* The search.                                                              *)

LEMMA PassedGrows ==
  ASSUME RingInv
  PROVE  \A j \in 0 .. MaxWriteOps : \A i \in 0 .. j : BytesPassed[i] <= BytesPassed[j]
<1> DEFINE T == {j \in 0 .. MaxWriteOps : \A i \in 0 .. j : BytesPassed[i] <= BytesPassed[j]}
<1>1. MaxWriteOps \in Nat /\ BytesPassed \in [0 .. MaxWriteOps -> Nat]
  BY BytesPassedSteps, CircularBufferAssumption DEF BytesPassedAdds
<1>2. 0 \in T
  BY <1>1
<1>3. ASSUME NEW j \in 1 .. MaxWriteOps, j - 1 \in T PROVE j \in T
  <2>1. BytesPassed[j - 1] <= BytesPassed[j]
    <3>1. PICK k \in Slots : k = j - 1 /\ k + 1 = j
      BY <1>1 DEF Slots
    <3>2. /\ BytesPassed[k + 1] = BytesPassed[k] + entry[SlotAt(k)].size
          /\ entry[SlotAt(k)].size \in Nat
      BY BytesPassedSteps, SearchOrder, EntrySizesNat DEF BytesPassedAdds
    <3>3. BytesPassed[k] \in Nat
      BY <1>1, <3>1
    <3>4. QED
      BY <3>1, <3>2, <3>3
  <2>2. ASSUME NEW i \in 0 .. j PROVE BytesPassed[i] <= BytesPassed[j]
    <3>1. BytesPassed[i] \in Nat /\ BytesPassed[j - 1] \in Nat /\ BytesPassed[j] \in Nat
      BY <1>1
    <3>2. CASE i = j
      BY <3>1, <3>2
    <3>3. CASE i # j
      <4>1. BytesPassed[i] <= BytesPassed[j - 1]
        BY <1>3, <3>3
      <4>2. QED
        BY <2>1, <3>1, <4>1
    <3>4. QED
      BY <3>2, <3>3
  <2>3. QED
    BY <2>2
<1>4. \A j \in 0 .. MaxWriteOps : j \in T
  <2> HIDE DEF T
  <2>1. QED
    BY <1>1, <1>2, <1>3, UpTo
<1>5. QED
  BY <1>4

(* The slots that are not in use are empty and add nothing. *)
LEMMA PassedStays ==
  ASSUME RingInv
  PROVE  \A k \in Count .. MaxWriteOps : BytesPassed[k] = BytesPassed[Count]
<1> DEFINE T == {k \in 0 .. MaxWriteOps : k >= Count => BytesPassed[k] = BytesPassed[Count]}
<1>1. MaxWriteOps \in Nat /\ Count \in 0 .. MaxWriteOps
  BY LoggedIsSeq, CircularBufferAssumption
<1> HIDE DEF Count
<1>2. 0 \in T
  BY <1>1
<1>3. ASSUME NEW k \in 1 .. MaxWriteOps, k - 1 \in T PROVE k \in T
  <2>1. CASE k > Count
    <3>1. PICK i \in Slots : i = k - 1 /\ i + 1 = k /\ ~(i < Count)
      BY <1>1, <2>1 DEF Slots
    <3>2. entry[SlotAt(i)] = EmptyEntry
      BY <3>1, RingInvImpliesSlotsInUse DEF SlotsInUse
    <3>3. BytesPassed[i + 1] = BytesPassed[i] + 0 /\ BytesPassed[i] \in Nat
      <4>1. entry[SlotAt(i)].size = 0
        BY <3>2 DEF EmptyEntry
      <4>2. BytesPassed[i + 1] = BytesPassed[i] + entry[SlotAt(i)].size
        BY BytesPassedSteps DEF BytesPassedAdds
      <4>3. i \in 0 .. MaxWriteOps
        BY <1>1, <3>1
      <4>4. BytesPassed[i] \in Nat
        BY <4>3, BytesPassedSteps DEF BytesPassedAdds
      <4>5. QED
        BY <4>1, <4>2, <4>4
    <3>4. BytesPassed[i] = BytesPassed[Count]
      BY <1>1, <1>3, <2>1, <3>1
    <3>5. QED
      BY <3>1, <3>3, <3>4
  <2>2. CASE ~(k > Count)
    BY <1>1, <2>2
  <2>3. QED
    BY <2>1, <2>2
<1>4. \A k \in 0 .. MaxWriteOps : k \in T
  <2> HIDE DEF T
  <2>1. QED
    BY <1>1, <1>2, <1>3, UpTo
<1>5. QED
  BY <1>1, <1>4

(* c is the byte at position p of the first k writes. *)
Names(c, k, p) ==
  /\ c[1] \in 1 .. k /\ c[2] \in Nat
  /\ BytesPassed[c[1] - 1] + c[2] = p
  /\ p < BytesPassed[c[1]]

LEMMA ConcatenationBytes ==
  ASSUME RingInv
  PROVE  /\ Len(RW!Concatenation) = BytesPassed[Count]
         /\ \A p \in 0 .. BytesPassed[Count] - 1 : Names(RW!Concatenation[p + 1], Count, p)
<1> DEFINE n == Count
           Bytes(k) == [b \in 1 .. Logged[k].size |-> <<k, b - 1>>]
           F == [k \in DOMAIN Logged |-> Bytes(k)]
           S == Nat \X Nat
<1>1. /\ n \in Nat /\ n <= MaxWriteOps /\ MaxWriteOps \in Nat
      /\ DOMAIN Logged = 1 .. n
      /\ \A k \in 1 .. n : Logged[k] = entry[SlotAt(k - 1)] /\ Logged[k].size \in Nat
  <2>1. /\ Count \in 0 .. MaxWriteOps /\ Logged \in Seq(Entries) /\ Len(Logged) = Count
        /\ \A k \in 1 .. Count : Logged[k] = entry[SlotAt(k - 1)]
    BY LoggedIsSeq
  <2>2. DOMAIN Logged = 1 .. n /\ \A k \in 1 .. n : Logged[k] \in Entries
    BY <2>1, LenProperties, ElementOfSeq
  <2>3. \A e \in Entries : e.size \in Nat
    BY CircularBufferAssumption DEF Entries
  <2>4. MaxWriteOps \in Nat
    BY CircularBufferAssumption
  <2>5. n \in Nat /\ n <= MaxWriteOps
    BY <2>1, <2>4
  <2>6. \A k \in 1 .. n : Logged[k] = entry[SlotAt(k - 1)] /\ Logged[k].size \in Nat
    BY <2>1, <2>2, <2>3
  <2>7. QED
    BY <2>2, <2>4, <2>5, <2>6
<1>2. /\ BytesPassed \in [0 .. MaxWriteOps -> Nat] /\ BytesPassed[0] = 0
      /\ \A k \in 1 .. n : BytesPassed[k] = BytesPassed[k - 1] + Logged[k].size
  <2>1. ASSUME NEW k \in 1 .. n PROVE BytesPassed[k] = BytesPassed[k - 1] + Logged[k].size
    <3>1. PICK i \in Slots : i = k - 1 /\ i + 1 = k
      BY <1>1 DEF Slots
    <3>2. BytesPassed[i + 1] = BytesPassed[i] + entry[SlotAt(i)].size
      BY BytesPassedSteps DEF BytesPassedAdds
    <3>3. QED
      BY <1>1, <3>1, <3>2
  <2>2. QED
    BY <2>1, BytesPassedSteps DEF BytesPassedAdds
<1> HIDE DEF n
<1>3. \A k \in 1 .. n : Bytes(k) \in Seq(S) /\ Len(Bytes(k)) = Logged[k].size
  <2>1. ASSUME NEW k \in 1 .. n PROVE Bytes(k) \in Seq(S) /\ Len(Bytes(k)) = Logged[k].size
    <3>1. Logged[k].size \in Nat /\ k \in Nat
      BY <1>1
    <3>2. Bytes(k) \in [1 .. Logged[k].size -> S]
      BY <3>1
    <3>3. Bytes(k) \in Seq(S)
      BY <3>1, <3>2, SeqDef
    <3>4. DOMAIN Bytes(k) = 1 .. Len(Bytes(k)) /\ Len(Bytes(k)) \in Nat
      BY <3>3, LenProperties
    <3>5. QED
      BY <3>1, <3>3, <3>4
  <2>2. QED
    BY <2>1
<1>4. F \in Seq(Seq(S)) /\ Len(F) = n /\ \A k \in 1 .. n : F[k] = Bytes(k)
  <2>1. F \in [1 .. n -> Seq(S)]
    BY <1>1, <1>3
  <2>2. F \in Seq(Seq(S))
    BY <1>1, <2>1, SeqDef
  <2>3. DOMAIN F = 1 .. Len(F) /\ Len(F) \in Nat
    BY <2>2, LenProperties
  <2>4. Len(F) = n
    BY <1>1, <2>1, <2>3
  <2>5. QED
    BY <1>1, <2>2, <2>4
<1>5. RW!Concatenation = RW!FlattenSeq(F)
  BY DEF RW!Concatenation
<1> HIDE DEF F
<1>6. PICK g \in [0 .. Len(F) -> Seq(S)] :
        /\ g[0] = << >>
        /\ \A k \in 1 .. Len(F) : g[k] = g[k - 1] \o F[k]
        /\ RW!FlattenSeq(F) = g[Len(F)]
  BY <1>4, FlattenSteps
<1> DEFINE Right(k) ==
             /\ Len(g[k]) = BytesPassed[k]
             /\ \A p \in 0 .. BytesPassed[k] - 1 : Names(g[k][p + 1], k, p)
           T == {k \in 0 .. n : Right(k)}
<1>7. 0 \in T
  <2>1. Len(g[0]) = 0
    BY <1>6, EmptySeq
  <2>2. QED
    BY <1>1, <1>2, <2>1
<1>8. ASSUME NEW k \in 1 .. n, k - 1 \in T PROVE k \in T
  <2> DEFINE a == g[k - 1]
             b == Bytes(k)
             la == BytesPassed[k - 1]
             lb == Logged[k].size
  <2>1. /\ a \in Seq(S) /\ Len(a) = la
        /\ \A p \in 0 .. la - 1 : Names(a[p + 1], k - 1, p)
    <3>1. Right(k - 1) /\ k - 1 \in 0 .. n
      BY <1>8
    <3>2. k - 1 \in 0 .. Len(F)
      BY <1>4, <3>1
    <3>3. a \in Seq(S)
      BY <1>6, <3>2
    <3>4. QED
      BY <3>1, <3>3
  <2>2. b \in Seq(S) /\ Len(b) = lb /\ \A i \in 1 .. lb : b[i] = <<k, i - 1>>
    BY <1>1, <1>3
  <2>3. g[k] = a \o b /\ BytesPassed[k] = la + lb /\ la \in Nat /\ lb \in Nat
    <3>1. k \in 1 .. Len(F) /\ F[k] = b
      BY <1>4
    <3>2. g[k] = a \o b
      BY <1>6, <3>1
    <3>3. BytesPassed[k] = la + lb /\ lb \in Nat
      BY <1>1, <1>2
    <3>4. la \in Nat
      <4>1. k - 1 \in 0 .. MaxWriteOps
        BY <1>1
      <4>2. QED
        BY <1>2, <4>1
    <3>5. QED
      BY <3>2, <3>3, <3>4
  <2> HIDE DEF a, b, la, lb
  <2>4. /\ Len(g[k]) = la + lb
        /\ \A i \in 1 .. la + lb : g[k][i] = IF i <= la THEN a[i] ELSE b[i - la]
    BY <2>1, <2>2, <2>3, ConcatProperties
  <2>5. ASSUME NEW p \in 0 .. la + lb - 1 PROVE Names(g[k][p + 1], k, p)
    <3>1. p + 1 \in 1 .. la + lb
      BY <2>3, <2>5
    <3>2. CASE p < la
      <4>1. g[k][p + 1] = a[p + 1]
        BY <2>3, <2>4, <3>1, <3>2
      <4>2. Names(a[p + 1], k - 1, p)
        BY <2>1, <2>3, <3>2
      <4>3. QED
        BY <4>1, <4>2, <1>1 DEF Names
    <3>3. CASE ~(p < la)
      <4>1. g[k][p + 1] = b[p + 1 - la]
        BY <2>3, <2>4, <3>1, <3>3
      <4>2. p + 1 - la \in 1 .. lb /\ p + 1 - la - 1 = p - la /\ p - la \in Nat
        BY <2>3, <3>3
      <4>3. g[k][p + 1] = <<k, p - la>>
        <5>1. PICK i \in 1 .. lb : i = p + 1 - la
          BY <4>2
        <5>2. i - 1 = p - la
          BY <2>3, <2>5, <4>2, <5>1
        <5>3. g[k][p + 1] = b[i] /\ b[i] = <<k, i - 1>>
          BY <2>2, <4>1, <5>1
        <5>4. QED
          BY <5>2, <5>3
      <4>4. la + (p - la) = p /\ p < la + lb
        BY <2>3
      <4>5. QED
        <5>1. la = BytesPassed[k - 1]
          BY DEF la
        <5>2. /\ g[k][p + 1][1] = k
              /\ g[k][p + 1][2] = p - la
          BY <4>3
        <5>3. k \in 1 .. k
          BY <1>1
        <5>4. BytesPassed[k - 1] + g[k][p + 1][2] = p
          BY <4>4, <5>1, <5>2
        <5>5. p < BytesPassed[k]
          BY <2>3, <4>4
        <5>6. QED
          BY <4>2, <5>2, <5>3, <5>4, <5>5 DEF Names
    <3>4. QED
      BY <3>2, <3>3
  <2>6. Len(g[k]) = BytesPassed[k]
    BY <2>3, <2>4
  <2>7. \A p \in 0 .. BytesPassed[k] - 1 : Names(g[k][p + 1], k, p)
    <3>1. SUFFICES ASSUME NEW p \in 0 .. BytesPassed[k] - 1 PROVE Names(g[k][p + 1], k, p)
      OBVIOUS
    <3>2. p \in 0 .. la + lb - 1
      BY <2>3
    <3>3. QED
      BY <2>5, <3>2
  <2>8. k \in 0 .. n
    BY <1>1
  <2>9. QED
    BY <2>6, <2>7, <2>8
<1>9. \A k \in 0 .. n : k \in T
  <2> HIDE DEF T
  <2>1. QED
    BY <1>1, <1>7, <1>8, UpTo
<1>10. Right(n)
  BY <1>1, <1>9
<1>11. QED
  BY <1>4, <1>5, <1>6, <1>10 DEF n

LEMMA MinIs ==
  ASSUME NEW T, T \subseteq Nat, NEW m \in T, \A y \in T : m <= y
  PROVE  Min(T) = m
<1>1. Min(T) \in T /\ \A y \in T : Min(T) <= y
  BY DEF Min
<1> DEFINE x == Min(T)
<1>2. x \in T /\ x <= m /\ m <= x
  BY <1>1
<1> HIDE DEF x
<1>3. x = m
  BY <1>2
<1>4. QED
  BY <1>3 DEF x

(* The search for position p answers with the byte c. *)
FoundAt(c, p) ==
  Names(c, Count, p) /\ FindEntry(p) = [slot |-> SlotAt(c[1] - 1), offset |-> c[2]]

LEMMA SearchAnswersAll ==
  RingInv => \A p \in Nat : /\ p >= BytesPassed[Count] => FindEntry(p) = NoEntry
                            /\ p < BytesPassed[Count]  => FoundAt(RW!Concatenation[p + 1], p)
<1> SUFFICES ASSUME RingInv
             PROVE  \A p \in Nat :
                      /\ p >= BytesPassed[Count] => FindEntry(p) = NoEntry
                      /\ p < BytesPassed[Count]  => FoundAt(RW!Concatenation[p + 1], p)
  OBVIOUS
<1> DEFINE text == RW!Concatenation
           hits(p) == {k \in Slots : BytesPassed[k + 1] > p}
<1>1. /\ MaxWriteOps \in Nat /\ Count \in 0 .. MaxWriteOps /\ Slots = 0 .. MaxWriteOps - 1
      /\ BytesPassed \in [0 .. MaxWriteOps -> Nat]
  BY BytesPassedSteps, LoggedIsSeq, CircularBufferAssumption DEF BytesPassedAdds, Slots
<1>2. /\ Len(text) = BytesPassed[Count]
      /\ \A p \in 0 .. BytesPassed[Count] - 1 : Names(text[p + 1], Count, p)
  BY ConcatenationBytes
<1> HIDE DEF text, Count
<1>3. BytesPassed[Count] \in Nat
  BY <1>1
<1>4. \A p \in Nat : FindEntry(p) = IF hits(p) = {} THEN NoEntry
                                    ELSE [slot   |-> SlotAt(Min(hits(p))),
                                          offset |-> p - BytesPassed[Min(hits(p))]]
  BY DEF FindEntry
<1>5. ASSUME NEW p \in Nat, p >= BytesPassed[Count] PROVE FindEntry(p) = NoEntry
  <2>1. ASSUME NEW k \in Slots PROVE ~(BytesPassed[k + 1] > p)
    <3>1. k + 1 \in 0 .. MaxWriteOps /\ MaxWriteOps \in Count .. MaxWriteOps
      BY <1>1
    <3>2. BytesPassed[k + 1] <= BytesPassed[MaxWriteOps]
      BY <1>1, <3>1, PassedGrows
    <3>3. BytesPassed[MaxWriteOps] = BytesPassed[Count]
      BY <3>1, PassedStays
    <3>4. BytesPassed[k + 1] \in Nat
      BY <1>1, <3>1
    <3>5. QED
      BY <1>3, <1>5, <3>2, <3>3, <3>4
  <2>2. hits(p) = {}
    BY <2>1
  <2>3. QED
    BY <1>4, <2>2
<1>6. ASSUME NEW p \in Nat, p < BytesPassed[Count] PROVE FoundAt(text[p + 1], p)
  <2> DEFINE c == text[p + 1]
  <2>1. p \in Nat /\ p \in 0 .. BytesPassed[Count] - 1
    BY <1>3, <1>6
  <2>2. Names(c, Count, p)
    BY <1>2, <2>1
  <2> HIDE DEF c
  <2>3. PICK h \in Slots : h = c[1] - 1 /\ h + 1 = c[1]
    BY <1>1, <2>2 DEF Names
  <2>4. /\ BytesPassed[h] + c[2] = p /\ p < BytesPassed[h + 1] /\ c[2] \in Nat
        /\ BytesPassed[h] \in Nat /\ BytesPassed[h + 1] \in Nat
    <3>1. h \in 0 .. MaxWriteOps /\ h + 1 \in 0 .. MaxWriteOps
      BY <1>1
    <3>2. BytesPassed[h] \in Nat /\ BytesPassed[h + 1] \in Nat
      BY <1>1, <3>1
    <3>3. QED
      BY <2>2, <2>3, <3>2 DEF Names
  <2>5. h \in hits(p)
    BY <2>1, <2>4
  <2>6. ASSUME NEW y \in hits(p), y < h PROVE FALSE
    <3>1. y \in Slots /\ BytesPassed[y + 1] > p
      OBVIOUS
    <3>2. h \in 0 .. MaxWriteOps /\ y + 1 \in 0 .. h
      BY <1>1, <2>6, <3>1
    <3>3. BytesPassed[y + 1] <= BytesPassed[h]
      BY <3>2, PassedGrows
    <3>4. y + 1 \in 0 .. MaxWriteOps
      BY <1>1, <3>1
    <3>5. BytesPassed[y + 1] \in Nat
      BY <1>1, <3>4
    <3>6. QED
      BY <2>1, <2>4, <3>1, <3>3, <3>5
  <2>7. Min(hits(p)) = h
    <3>1. hits(p) \subseteq Nat
      BY <1>1
    <3>2. \A y \in hits(p) : h <= y
      <4>1. h \in Nat
        BY <1>1
      <4> HIDE DEF hits
      <4>2. QED
        BY <2>6, <3>1, <4>1
    <3> HIDE DEF hits
    <3>3. QED
      BY <2>5, <3>1, <3>2, MinIs
  <2>8. FindEntry(p) = [slot |-> SlotAt(h), offset |-> p - BytesPassed[h]]
    <3>1. hits(p) # {}
      BY <2>5
    <3> HIDE DEF hits
    <3>2. QED
      BY <1>4, <2>1, <2>7, <3>1
  <2>9. p - BytesPassed[h] = c[2]
    BY <2>1, <2>4
  <2>10. FindEntry(p) = [slot |-> SlotAt(c[1] - 1), offset |-> c[2]]
    BY <2>3, <2>8, <2>9
  <2>11. QED
    BY <2>2, <2>10 DEF c, FoundAt
<1>7. QED
  BY <1>5, <1>6 DEF text

LEMMA SearchFinds == RingInv => FindAnswersForConcatenation
<1> SUFFICES ASSUME RingInv PROVE FindAnswersForConcatenation
  OBVIOUS
<1>1. Len(RW!Concatenation) = BytesPassed[Count] /\ BytesPassed[Count] \in Nat
  BY ConcatenationBytes, BytesPassedSteps, LoggedIsSeq DEF BytesPassedAdds
<1>2. ASSUME NEW p \in 0 .. Len(RW!Concatenation)
      PROVE  FindEntry(p) =
               IF p = Len(RW!Concatenation) THEN NoEntry
               ELSE [slot   |-> SlotAt(RW!Concatenation[p + 1][1] - 1),
                     offset |-> RW!Concatenation[p + 1][2]]
  <2>1. p \in Nat
    BY <1>1
  <2>2. CASE p = Len(RW!Concatenation)
    BY <1>1, <2>1, <2>2, SearchAnswersAll
  <2>3. CASE p # Len(RW!Concatenation)
    <3>1. p < BytesPassed[Count]
      BY <1>1, <2>3
    <3>2. FoundAt(RW!Concatenation[p + 1], p)
      BY <2>1, <3>1, SearchAnswersAll
    <3>3. QED
      BY <2>3, <3>2 DEF FoundAt
  <2>4. QED
    BY <2>2, <2>3
<1>3. QED
  BY <1>2 DEF FindAnswersForConcatenation

(* Every position of the remembered bytes is found, at the write and the    *)
(* offset that hold it, and none beyond them: for every capacity, wherever  *)
(* the ring has wrapped.                                                    *)
THEOREM SearchAnswers == Spec => []FindAnswersForConcatenation
BY RingInvariant, SearchFinds, PTL

-----------------------------------------------------------------------------
(* The byte count.                                                          *)

(* SizeBeforeWrap is inductive together with RingInv once the text is read  *)
(* as the bytes that the search passes.                                     *)
SizeCounts == ~full => size = BytesPassed[Count] % SizeMod

LEMMA DivMod ==
  ASSUME NEW M \in Nat, M > 0, NEW x \in Nat
  PROVE  x = M * (x \div M) + (x % M) /\ x % M \in 0 .. M - 1 /\ x \div M \in Nat
OBVIOUS

LEMMA ModUnique ==
  ASSUME NEW M \in Nat, M > 0, NEW x \in Nat, NEW k \in Nat, NEW r \in 0 .. M - 1, x = M * k + r
  PROVE  x % M = r
<1> DEFINE j == x \div M
           s == x % M
<1>1. x = M * j + s /\ s \in 0 .. M - 1 /\ j \in Nat
  BY DivMod
<1> HIDE DEF j, s
<1>2. M * k + r = M * j + s
  BY <1>1
<1>3. ASSUME NEW d \in Nat, d > 0 PROVE M * d >= M
  BY <1>3
<1>4. ~(j < k)
  <2>1. SUFFICES ASSUME j < k PROVE FALSE
    OBVIOUS
  <2>2. PICK d \in Nat : d > 0 /\ k = j + d
    <3>1. k - j \in Nat /\ k - j > 0 /\ k = j + (k - j)
      BY <1>1, <2>1
    <3>2. QED
      BY <3>1
  <2>3. M * k = M * j + M * d
    BY <1>1, <2>2
  <2>4. M * d >= M
    BY <1>3, <2>2
  <2>5. M * k \in Nat /\ M * j \in Nat /\ M * d \in Nat
    BY <1>1, <2>2
  <2>6. QED
    BY <1>1, <1>2, <2>3, <2>4, <2>5
<1>5. ~(k < j)
  <2>1. SUFFICES ASSUME k < j PROVE FALSE
    OBVIOUS
  <2>2. PICK d \in Nat : d > 0 /\ j = k + d
    <3>1. j - k \in Nat /\ j - k > 0 /\ j = k + (j - k)
      BY <1>1, <2>1
    <3>2. QED
      BY <3>1
  <2>3. M * j = M * k + M * d
    BY <1>1, <2>2
  <2>4. M * d >= M
    BY <1>3, <2>2
  <2>5. M * k \in Nat /\ M * j \in Nat /\ M * d \in Nat
    BY <1>1, <2>2
  <2>6. QED
    BY <1>1, <1>2, <2>3, <2>4, <2>5
<1>6. j = k
  BY <1>1, <1>4, <1>5
<1>7. s = r
  <2>1. M * k \in Nat
    OBVIOUS
  <2>2. M * k + r = M * k + s
    BY <1>2, <1>6
  <2>3. QED
    BY <1>1, <2>1, <2>2
<1>8. QED
  BY <1>7 DEF s

LEMMA ModAdds ==
  ASSUME NEW a \in Nat, NEW b \in Nat
  PROVE  ((a % SizeMod) + b) % SizeMod = (a + b) % SizeMod
<1> DEFINE M == SizeMod
           q == a \div M
           am == a % M
           t == (am + b) \div M
           r == (am + b) % M
<1>1. M \in Nat /\ M > 0
  BY CircularBufferAssumption
<1> HIDE DEF M
<1>2. a = M * q + am /\ am \in 0 .. M - 1 /\ q \in Nat
  BY <1>1, DivMod
<1> HIDE DEF q, am
<1>3. am + b \in Nat
  BY <1>1, <1>2
<1>4. am + b = M * t + r /\ r \in 0 .. M - 1 /\ t \in Nat
  BY <1>1, <1>3, DivMod
<1> HIDE DEF r, t
<1>5. a + b = M * (q + t) + r
  <2>1. M * (q + t) = M * q + M * t
    BY <1>1, <1>2, <1>4
  <2>2. M * q \in Nat /\ M * t \in Nat
    BY <1>1, <1>2, <1>4
  <2>3. QED
    BY <1>1, <1>2, <1>4, <2>1, <2>2
<1>6. (a + b) % M = r
  <2>1. a + b \in Nat /\ q + t \in Nat
    BY <1>2, <1>4
  <2>2. QED
    BY <1>1, <1>4, <1>5, <2>1, ModUnique
<1>7. QED
  BY <1>6 DEF M, r, am

(* While slots are free, adding only moves the write index. *)
LEMMA AddFirstRound ==
  ASSUME RingInv, NEW e \in Entries, aesd_circular_buffer_add_entry(e), ~full'
  PROVE  /\ ~full /\ out_offs = 0 /\ out_offs' = 0
         /\ in_offs \in Slots /\ in_offs + 1 \in Slots /\ in_offs' = in_offs + 1
<1>1. in_offs \in Slots /\ out_offs \in Slots
  BY DEF RingInv, TypeOK
<1>2. ~full
  BY DEF RingInv, FillsFromZero, aesd_circular_buffer_add_entry, FullAfterAdd, OldestAfterAdd
<1>3. out_offs = 0 /\ OldestAfterAdd = 0
  BY <1>2 DEF RingInv, FillsFromZero, OldestAfterAdd
<1>4. out_offs' = 0 /\ in_offs' = NextSlot(in_offs) /\ NextSlot(in_offs) # 0
  BY <1>3 DEF aesd_circular_buffer_add_entry, FullAfterAdd
<1>5. QED
  BY <1>1, <1>2, <1>3, <1>4, NextSlotInSlots, CircularBufferAssumption DEF Slots

LEMMA AddKeepsSizeCounts ==
  ASSUME RingInv, SizeCounts, NEW e \in Entries, aesd_circular_buffer_add_entry(e)
  PROVE  SizeCounts'
<1>1. SUFFICES ASSUME ~full' PROVE size' = BytesPassed'[Count'] % SizeMod
  BY DEF SizeCounts
<1>2. /\ ~full /\ out_offs = 0 /\ out_offs' = 0
      /\ in_offs \in Slots /\ in_offs + 1 \in Slots /\ in_offs' = in_offs + 1
  BY <1>1, AddFirstRound
<1>3. RingInv'
  BY AddKeepsRingInv
<1>4. Count = in_offs /\ Count' = in_offs + 1
  <2>1. (RingInv => Count = IF full THEN MaxWriteOps ELSE in_offs)'
    BY CountOfRing, PTL
  <2>2. QED
    BY <1>1, <1>2, <1>3, <2>1, CountOfRing
<1>5. BytesPassedAdds /\ BytesPassedAdds'
  <2>1. (RingInv => BytesPassedAdds)'
    BY BytesPassedSteps, PTL
  <2>2. QED
    BY <1>3, <2>1, BytesPassedSteps
<1>6. /\ MaxWriteOps \in Nat /\ Slots = 0 .. MaxWriteOps - 1
      /\ BytesPassed \in [0 .. MaxWriteOps -> Nat]
      /\ BytesPassed[0] = 0 /\ BytesPassed'[0] = 0
  <2>1. BytesPassed'[0] = 0
    BY <1>5 DEF BytesPassedAdds
  <2>2. BytesPassed \in [0 .. MaxWriteOps -> Nat] /\ BytesPassed[0] = 0
    BY <1>5 DEF BytesPassedAdds
  <2>3. MaxWriteOps \in Nat /\ Slots = 0 .. MaxWriteOps - 1
    BY CircularBufferAssumption DEF Slots
  <2>4. QED
    BY <2>1, <2>2, <2>3
<1>7. \A k \in Slots : SlotAt(k) = k /\ SlotAt(k)' = k
  <2>1. ASSUME NEW k \in Slots PROVE (0 + k) % MaxWriteOps = k
    <3>1. k \in 0 .. 2 * MaxWriteOps - 1 /\ k < MaxWriteOps /\ 0 + k = k
      BY <1>6
    <3>2. k % MaxWriteOps = k
      BY <3>1, ModBelowTwice
    <3>3. QED
      BY <3>1, <3>2
  <2>2. QED
    BY <1>2, <2>1 DEF SlotAt
<1>8. /\ entry'[in_offs] = e
      /\ \A k \in Slots : k # in_offs => entry'[k] = entry[k]
      /\ size' = (size + e.size) % SizeMod
  <2>1. entry' = [entry EXCEPT ![in_offs] = e] /\ size' \in SizeAfterAdd(e)
    BY DEF aesd_circular_buffer_add_entry
  <2>2. entry \in [Slots -> Entries \cup {EmptyEntry}]
    BY DEF RingInv, TypeOK
  <2>3. SizeAfterAdd(e) = {(size + e.size) % SizeMod}
    BY <1>2 DEF SizeAfterAdd
  <2>4. size' = (size + e.size) % SizeMod
    BY <2>1, <2>3
  <2>5. entry'[in_offs] = e /\ \A k \in Slots : k # in_offs => entry'[k] = entry[k]
    BY <1>2, <2>1, <2>2
  <2>6. QED
    BY <2>4, <2>5
<1>9. /\ \A k \in Slots : BytesPassed[k + 1] = BytesPassed[k] + entry[k].size
      /\ \A k \in Slots : BytesPassed'[k + 1] = BytesPassed'[k] + entry'[k].size
  BY <1>5, <1>7 DEF BytesPassedAdds
<1>10. \A k \in 0 .. in_offs : BytesPassed'[k] = BytesPassed[k]
  <2> DEFINE T == {k \in 0 .. in_offs : BytesPassed'[k] = BytesPassed[k]}
  <2>1. in_offs \in Nat /\ 0 \in T
    BY <1>2, <1>6
  <2>2. ASSUME NEW k \in 1 .. in_offs, k - 1 \in T PROVE k \in T
    <3>1. PICK i \in Slots : i = k - 1 /\ i + 1 = k /\ i # in_offs
      BY <1>2, <1>6
    <3>2. BytesPassed'[i] = BytesPassed[i] /\ entry'[i] = entry[i]
      BY <1>8, <2>2, <3>1
    <3>3. BytesPassed'[i + 1] = BytesPassed[i + 1]
      BY <1>9, <3>2
    <3>4. k \in 0 .. in_offs
      BY <2>1
    <3>5. QED
      BY <3>1, <3>3, <3>4
  <2>3. \A k \in 0 .. in_offs : k \in T
    <3> HIDE DEF T
    <3>1. QED
      BY <2>1, <2>2, UpTo
  <2>4. QED
    BY <2>3
<1>11. BytesPassed'[in_offs + 1] = BytesPassed[in_offs] + e.size
  <2>1. in_offs \in 0 .. in_offs
    BY <1>2, <1>6
  <2>2. BytesPassed'[in_offs] = BytesPassed[in_offs]
    BY <1>10, <2>1
  <2>3. QED
    BY <1>2, <1>8, <1>9, <2>2
<1>12. BytesPassed[in_offs] \in Nat /\ e.size \in Nat
  <2>1. in_offs \in 0 .. MaxWriteOps
    BY <1>2, <1>6
  <2>2. e.size \in Nat
    BY CircularBufferAssumption DEF Entries
  <2>3. QED
    BY <1>6, <2>1, <2>2
<1>13. size' = ((BytesPassed[in_offs] % SizeMod) + e.size) % SizeMod
  BY <1>2, <1>4, <1>8 DEF SizeCounts
<1>14. QED
  BY <1>4, <1>11, <1>12, <1>13, ModAdds

LEMMA StepKeepsSizeCounts == RingInv /\ SizeCounts /\ [Next]_ring => SizeCounts'
<1>1. CASE \E e \in Entries : aesd_circular_buffer_add_entry(e)
  BY <1>1, AddKeepsSizeCounts
<1>2. CASE UNCHANGED ring
  <2>1. entry' = entry /\ in_offs' = in_offs /\ out_offs' = out_offs /\ full' = full /\ size' = size
    BY <1>2 DEF ring
  <2>2. BytesPassed' = BytesPassed
    BY <2>1 DEF BytesPassed, SlotAt
  <2>3. QED
    BY <2>1, <2>2 DEF SizeCounts, Count
<1>3. QED
  BY <1>1, <1>2 DEF Next

LEMMA EmptyCounts == Init => SizeCounts
<1> SUFFICES ASSUME Init PROVE SizeCounts
  OBVIOUS
<1>1. Count = 0
  BY RingInvInit, CountOfRing DEF Init
<1>2. BytesPassed[0] = 0
  BY RingInvInit, BytesPassedSteps DEF BytesPassedAdds
<1>3. 0 % SizeMod = 0
  BY CircularBufferAssumption
<1>4. QED
  BY <1>1, <1>2, <1>3 DEF Init, SizeCounts

(* Until the first write is overwritten, the byte count that becomes the    *)
(* file size is the length of what the ring holds, in any width of size_t.  *)
THEOREM SizeIsLength == Spec => []SizeBeforeWrap
<1>1. RingInv /\ SizeCounts => SizeBeforeWrap
  BY ConcatenationBytes DEF SizeCounts, SizeBeforeWrap
<1>2. QED
  BY <1>1, EmptyCounts, RingInvInit, StepKeepsRingInv, StepKeepsSizeCounts, PTL DEF Spec

=============================================================================
