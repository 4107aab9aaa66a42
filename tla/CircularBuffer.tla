--------------------------- MODULE CircularBuffer ---------------------------
(***************************************************************************)
(* aesd-char-driver/aesd-circular-buffer.{h,c}: a ring of the most recent  *)
(* write commands.  Contents are referenced through buffptr and owned by   *)
(* the caller; the ring keeps pointer, length and its two indices.         *)
(* Locking is the caller's business, so each function is one action.       *)
(***************************************************************************)
EXTENDS Integers, Sequences, FiniteSetsExt

CONSTANTS
  MaxWriteOps,  \* AESDCHAR_MAX_WRITE_OPERATIONS_SUPPORTED
  Ptr,          \* the addresses a caller may pass in buffptr
  NULL,         \* the zero pointer memset leaves in an unused entry
  EntrySizes,   \* the lengths a caller may pass in size
  SizeMod,      \* 2^width of size_t: arithmetic on size wraps here
  StrayWords    \* values the words behind the struct may happen to hold

ASSUME CircularBufferAssumption ==
  /\ MaxWriteOps \in 1 .. 255         \* the indices are uint8_t
  /\ NULL \notin Ptr
  /\ EntrySizes \subseteq Nat \ {0}
  /\ SizeMod \in Nat \ {0}
  /\ StrayWords \subseteq Nat

VARIABLES
  entry,     \* entry[i]: the i-th slot, [buffptr, size]
  in_offs,   \* the slot the next write goes to
  out_offs,  \* the slot of the oldest write
  full,      \* every slot is in use
  size       \* the byte count the driver passes to llseek as the file size

ring == <<entry, in_offs, out_offs, full, size>>

Slots      == 0 .. MaxWriteOps - 1
Entries    == [buffptr : Ptr, size : EntrySizes]
EmptyEntry == [buffptr |-> NULL, size |-> 0]

-----------------------------------------------------------------------------
(* Reading: from a file position to a slot.                                 *)

(* The k-th slot in the order of the search, which starts at out_offs. *)
SlotAt(k) == (out_offs + k) % MaxWriteOps

(* current_total_bytes once the search has passed the first k slots. *)
BytesPassed ==
  LET passed[k \in 0 .. MaxWriteOps] ==
        IF k = 0 THEN 0 ELSE passed[k - 1] + entry[SlotAt(k - 1)].size
  IN  passed

NoEntry == [slot |-> -1, offset |-> 0]

(* A search that takes the end of an entry for a byte of it. *)
FindEntry_atEnd(char_offset) ==
  LET passed == BytesPassed
      hits   == {k \in Slots : passed[k + 1] >= char_offset}
  IN  IF hits = {} THEN NoEntry
      ELSE [slot   |-> SlotAt(Min(hits)),
            offset |-> char_offset - passed[Min(hits)]]

(* aesd_circular_buffer_find_entry_offset_for_fpos: the search inspects all *)
(* MaxWriteOps slots, in use or not, and takes the first that ends beyond   *)
(* char_offset.                                                             *)
FindEntry(char_offset) ==
  LET passed == BytesPassed
      hits   == {k \in Slots : passed[k + 1] > char_offset}
  IN  IF hits = {} THEN NoEntry
      ELSE [slot   |-> SlotAt(Min(hits)),
            offset |-> char_offset - passed[Min(hits)]]

-----------------------------------------------------------------------------
(* Writing.                                                                 *)

NextSlot_noWrap(i) == i + 1

NextSlot(i) == (i + 1) % MaxWriteOps

OldestAfterAdd_stays == out_offs

(* Overwriting the oldest write makes the following slot the oldest. *)
OldestAfterAdd == IF full THEN NextSlot(in_offs) ELSE out_offs

FullAfterAdd_staleOutOffs == out_offs = NextSlot(in_offs)

FullAfterAdd == OldestAfterAdd = NextSlot(in_offs)

(* size as the length of the last write. *)
SizeAfterAdd_replaces(e) == {e.size}

(* The values size may take.  On a full ring the source means to take off   *)
(* the length of the overwritten entry but subtracts buffer[out_offs].size, *)
(* indexing the ring itself: for index 0 that is the size just updated, for *)
(* any other index a word that lies behind the struct.                      *)
SizeAfterAdd(e) ==
  LET grown == (size + e.size) % SizeMod
  IN  IF ~full           THEN {grown}
      ELSE IF out_offs = 0 THEN {0}
      ELSE {(grown - w) % SizeMod : w \in StrayWords}

aesd_circular_buffer_add_entry(e) ==
  /\ entry'    = [entry EXCEPT ![in_offs] = e]
  /\ in_offs'  = NextSlot(in_offs)
  /\ size'     \in SizeAfterAdd(e)
  /\ out_offs' = OldestAfterAdd
  /\ full'     = FullAfterAdd

(* memset to zero. *)
aesd_circular_buffer_init ==
  /\ entry'    = [i \in Slots |-> EmptyEntry]
  /\ in_offs'  = 0
  /\ out_offs' = 0
  /\ full'     = FALSE
  /\ size'     = 0

(* An initialised ring. *)
Init ==
  /\ entry    = [i \in Slots |-> EmptyEntry]
  /\ in_offs  = 0
  /\ out_offs = 0
  /\ full     = FALSE
  /\ size     = 0

Next == \E e \in Entries : aesd_circular_buffer_add_entry(e)

Spec == Init /\ [][Next]_ring

-----------------------------------------------------------------------------
(* Properties.                                                              *)

(* How many slots hold a write, and those writes, oldest first. *)
Count == IF full THEN MaxWriteOps ELSE (in_offs - out_offs) % MaxWriteOps

Logged == [k \in 1 .. Count |-> entry[SlotAt(k - 1)]]

RW == INSTANCE RecentWrites
        WITH Capacity <- MaxWriteOps, Write <- Entries, log <- Logged

(* Types: the indices stay inside the array, size inside its width. *)
TypeOK ==
  /\ entry \in [Slots -> Entries \cup {EmptyEntry}]
  /\ in_offs \in Slots
  /\ out_offs \in Slots
  /\ full \in BOOLEAN
  /\ size \in 0 .. SizeMod - 1

(* The two indices and the full flag tell exactly which slots are in use:   *)
(* the Count slots from out_offs on hold a write, all others are still      *)
(* zeroed.  The search and the module's cleanup loop visit every slot and   *)
(* rely on unused ones being zero.                                          *)
SlotsInUse ==
  \A k \in Slots : (entry[SlotAt(k)] # EmptyEntry) <=> (k < Count)

(* Until the ring is full, size is the number of bytes it remembers: what   *)
(* the driver takes for the file size.                                      *)
SizeBeforeWrap ==
  ~full => size = Len(RW!Concatenation) % SizeMod

(* The search answers every position of the concatenation of the remembered *)
(* writes with the write and the offset that hold it, across the wrap of    *)
(* the ring, and reports no entry from the end of the data on.              *)
FindAnswersForConcatenation ==
  LET text == RW!Concatenation
  IN  \A p \in 0 .. Len(text) :
        FindEntry(p) =
          IF p = Len(text) THEN NoEntry
          ELSE [slot   |-> SlotAt(text[p + 1][1] - 1),
                offset |-> text[p + 1][2]]

(* The ring implements RecentWrites: adding drops the oldest write only     *)
(* when all slots are taken, and never reorders or duplicates.              *)
RefinesRecentWrites == RW!Spec

=============================================================================
