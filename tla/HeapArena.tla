------------------------------ MODULE HeapArena ------------------------------
(***************************************************************************)
(* HeapArena: the first-fit, coalescing allocator that carves the flat     *)
(* region of a RemoteHeap into malloc blocks.  Its bookkeeping is two      *)
(* ordered maps from offset to length, one of free and one of live blocks. *)
(* Every operation runs under mutex_, so each is one step.  Addresses are  *)
(* uintptr_t: sums wrap at Word.                                           *)
(***************************************************************************)
EXTENDS Integers, FiniteSets, FiniteSetsExt

CONSTANTS
  Word,        \* 2^w: one more than the largest address
  Base,        \* address of the region
  Size,        \* its length in bytes
  Alignments,  \* powers of two that callers ask for
  Requests     \* byte counts that callers ask for, 0 included

ASSUME ArenaAssumption ==
  /\ Word \in Nat
  /\ Base \in Nat \ {0}
  /\ Size \in Nat \ {0}
  /\ Base + Size <= Word
  /\ Requests \subseteq Nat
  /\ \A a \in Alignments : a \in Nat \ {0} /\ Word % a = 0

VARIABLES
  free_blocks_,   \* offset -> length
  live_blocks_,   \* offset -> length
  in_use_bytes_,
  last            \* the call that returned last: [bytes, alignment, ptr]

vars == <<free_blocks_, live_blocks_, in_use_bytes_, last>>

Null == 0
NoCall == [bytes |-> 0, alignment |-> 1, ptr |-> Null]

Init ==
  /\ free_blocks_ = [b \in {0} |-> Size]
  /\ live_blocks_ = [b \in {} |-> 0]
  /\ in_use_bytes_ = 0
  /\ last = NoCall
-----------------------------------------------------------------------------
align_up(value, alignment) ==
  LET sum == (value + alignment - 1) % Word IN sum - (sum % alignment)

\* Offset of the first aligned byte at or after block b.  The unsigned
\* difference wraps, as the sum in align_up may have.
Aligned(b, alignment) == (align_up((Base + b) % Word, alignment) - Base) % Word

Lead(b, alignment) == (Aligned(b, alignment) - b) % Word

\* Seeded fault: an exact fit is passed over.
Fits_NotExactly(b, bytes, alignment) ==
  /\ Lead(b, alignment) <= free_blocks_[b]
  /\ free_blocks_[b] - Lead(b, alignment) > bytes

Fits(b, bytes, alignment) ==
  /\ Lead(b, alignment) <= free_blocks_[b]
  /\ free_blocks_[b] - Lead(b, alignment) >= bytes

\* The first block in address order that fits, as a set of at most one.
FirstFit(bytes, alignment) ==
  {b \in DOMAIN free_blocks_ :
     /\ Fits(b, bytes, alignment)
     /\ \A c \in DOMAIN free_blocks_ : Fits(c, bytes, alignment) => b <= c}

\* Seeded fault: the bytes skipped for alignment are dropped.
Carve_LosesLead(b, bytes, alignment) ==
  LET start == Aligned(b, alignment)
      lead  == Lead(b, alignment)
      trail == free_blocks_[b] - lead - bytes
      kept  == IF trail > 0 THEN {start + bytes} ELSE {}
  IN  [c \in (DOMAIN free_blocks_ \ {b}) \cup kept |->
         IF c \in kept THEN trail ELSE free_blocks_[c]]

\* The free map after bytes are taken from block b: what is skipped for
\* alignment and what is left behind stay free.
Carve(b, bytes, alignment) ==
  LET start == Aligned(b, alignment)
      lead  == Lead(b, alignment)
      trail == free_blocks_[b] - lead - bytes
      front == IF lead > 0 THEN {b} ELSE {}
      back  == IF trail > 0 THEN {start + bytes} ELSE {}
  IN  [c \in ((DOMAIN free_blocks_ \ {b}) \cup front) \cup back |->
         IF c \in front THEN lead
         ELSE IF c \in back THEN trail
         ELSE free_blocks_[c]]

AllocateOK(bytes, alignment) ==
  /\ bytes # 0
  /\ \E b \in FirstFit(bytes, alignment) :
       LET start == Aligned(b, alignment) IN
       /\ free_blocks_' = Carve(b, bytes, alignment)
       /\ live_blocks_' = [c \in DOMAIN live_blocks_ \cup {start} |->
                             IF c = start THEN bytes ELSE live_blocks_[c]]
       /\ last' = [bytes |-> bytes, alignment |-> alignment, ptr |-> Base + start]
  /\ in_use_bytes_' = in_use_bytes_ + bytes

\* nullptr: nothing was asked for, or no block fits.
AllocateNull(bytes, alignment) ==
  /\ bytes = 0 \/ FirstFit(bytes, alignment) = {}
  /\ last' = [bytes |-> bytes, alignment |-> alignment, ptr |-> Null]
  /\ UNCHANGED <<free_blocks_, live_blocks_, in_use_bytes_>>
-----------------------------------------------------------------------------
owns(ptr) == ptr >= Base /\ ptr < Base + Size

\* The block that starts where [offset, offset + length) ends, and the last block
\* before it when that one ends at offset: sets of at most one.
NextFree(offset, length) == {b \in DOMAIN free_blocks_ : b = offset + length}

PrevFree(offset) ==
  {b \in DOMAIN free_blocks_ :
     /\ b < offset
     /\ \A c \in DOMAIN free_blocks_ : c < offset => c <= b
     /\ b + free_blocks_[b] = offset}

\* Seeded fault: insert_free without the merge with the block before.
InsertFree_NoBackward(offset, length) ==
  LET next  == NextFree(offset, length)
      total == length + (IF next = {} THEN 0 ELSE free_blocks_[offset + length])
  IN  [b \in (DOMAIN free_blocks_ \ next) \cup {offset} |->
         IF b = offset THEN total ELSE free_blocks_[b]]

InsertFree(offset, length) ==
  LET next  == NextFree(offset, length)
      prev  == PrevFree(offset)
      start == IF prev = {} THEN offset ELSE CHOOSE b \in prev : TRUE
      end   == IF next = {} THEN offset + length
               ELSE offset + length + free_blocks_[offset + length]
  IN  [b \in (DOMAIN free_blocks_ \ (next \cup prev)) \cup {start} |->
         IF b = start THEN end - start ELSE free_blocks_[b]]

DeallocateOK(ptr) ==
  /\ owns(ptr)
  /\ ptr - Base \in DOMAIN live_blocks_
  /\ LET offset == ptr - Base IN
       /\ live_blocks_' = [c \in DOMAIN live_blocks_ \ {offset} |-> live_blocks_[c]]
       /\ in_use_bytes_' = in_use_bytes_ - live_blocks_[offset]
       /\ free_blocks_' = InsertFree(offset, live_blocks_[offset])
  /\ last' = NoCall

\* Null, foreign and interior pointers, and second frees, are ignored.
DeallocateIgnored(ptr) ==
  /\ ~owns(ptr) \/ ptr - Base \notin DOMAIN live_blocks_
  /\ last' = NoCall
  /\ UNCHANGED <<free_blocks_, live_blocks_, in_use_bytes_>>

block_size(ptr) ==
  IF owns(ptr) /\ ptr - Base \in DOMAIN live_blocks_ THEN live_blocks_[ptr - Base] ELSE 0

Next ==
  \/ \E bytes \in Requests, alignment \in Alignments :
       AllocateOK(bytes, alignment) \/ AllocateNull(bytes, alignment)
  \/ \E ptr \in 0 .. Word - 1 : DeallocateOK(ptr) \/ DeallocateIgnored(ptr)

Spec == Init /\ [][Next]_vars

Stats ==
  [in_use_bytes |-> in_use_bytes_,
   free_bytes   |-> MapThenSumSet(LAMBDA b : free_blocks_[b], DOMAIN free_blocks_),
   live_blocks  |-> Cardinality(DOMAIN live_blocks_)]
-----------------------------------------------------------------------------
IsBlockMap(f) ==
  /\ DOMAIN f \subseteq 0 .. Size - 1
  /\ \A b \in DOMAIN f : f[b] \in Nat /\ f[b] > 0 /\ b + f[b] <= Size

\* Blocks of either map are non-empty and lie inside the region.
TypeOK ==
  /\ IsBlockMap(free_blocks_)
  /\ IsBlockMap(live_blocks_)
  /\ in_use_bytes_ \in Int

Apart(b, blen, c, clen) == b + blen <= c \/ c + clen <= b

Disjoint ==
  /\ \A b, c \in DOMAIN free_blocks_ :
       b # c => Apart(b, free_blocks_[b], c, free_blocks_[c])
  /\ \A b, c \in DOMAIN live_blocks_ :
       b # c => Apart(b, live_blocks_[b], c, live_blocks_[c])
  /\ \A b \in DOMAIN free_blocks_, c \in DOMAIN live_blocks_ :
       Apart(b, free_blocks_[b], c, live_blocks_[c])

InBlock(x, f) == \E b \in DOMAIN f : b <= x /\ x < b + f[b]

NothingLost == \A x \in 0 .. Size - 1 : InBlock(x, free_blocks_) \/ InBlock(x, live_blocks_)

\* Free and live blocks tile the region: no two malloc blocks share a byte, and
\* no byte is dropped by a split, an alignment gap or a merge.
Tiles == Disjoint /\ NothingLost

\* insert_free leaves no two free blocks touching, and neither does a split.
Coalesced == \A b, c \in DOMAIN free_blocks_ : b + free_blocks_[b] # c

\* The inductive invariant of the two maps.
ArenaInv == TypeOK /\ Tiles /\ Coalesced

\* nullptr means there is no aligned run of that many free bytes anywhere in the
\* region, in one block or across several: freed space is always reusable.
FailsOnlyWhenFull ==
  last.bytes # 0 /\ last.ptr = Null =>
    ~ \E a \in 0 .. Size - last.bytes :
        /\ (Base + a) % last.alignment = 0
        /\ \A x \in a .. a + last.bytes - 1 : InBlock(x, free_blocks_)

\* A block that was handed out is aligned as asked, and has the size that msize
\* and realloc will read back.
HandedOutAsAsked ==
  last.ptr # Null =>
    last.ptr % last.alignment = 0 /\ block_size(last.ptr) = last.bytes

\* The running counter agrees with the two maps after any sequence of calls.
StatsAddUp ==
  /\ Stats.in_use_bytes = MapThenSumSet(LAMBDA b : live_blocks_[b], DOMAIN live_blocks_)
  /\ Stats.in_use_bytes + Stats.free_bytes = Size
=============================================================================
