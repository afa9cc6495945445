-------------------------- MODULE HeapArena_proofs --------------------------
(***************************************************************************)
(* For every region, alignment and request size: free and live blocks tile *)
(* the region, no two free blocks touch, and allocate fails only when no   *)
(* aligned run of free bytes is long enough.                               *)
(***************************************************************************)
EXTENDS HeapArena, WellFoundedInduction, TLAPS

\* A block that fits holds the gap, the allocation and the rest, in this order,
\* and none of the three sums wraps.
LEMMA FitFacts ==
  ASSUME TypeOK, NEW bytes \in Requests, NEW alignment \in Alignments,
         NEW b \in DOMAIN free_blocks_, Fits(b, bytes, alignment)
  PROVE  /\ b \in Nat /\ bytes \in Nat /\ free_blocks_[b] \in Nat
         /\ Lead(b, alignment) \in Nat
         /\ Aligned(b, alignment) = b + Lead(b, alignment)
         /\ Lead(b, alignment) + bytes <= free_blocks_[b]
<1> DEFINE A == Aligned(b, alignment)
           len == free_blocks_[b]
<1>1. /\ Word \in Nat /\ Base \in Nat \ {0} /\ Size \in Nat /\ Base + Size <= Word
      /\ bytes \in Nat /\ alignment \in Nat \ {0}
  BY ArenaAssumption, Zenon
<1>2. b \in Nat /\ b < Size /\ len \in Nat /\ b + len <= Size
  BY <1>1 DEF TypeOK, IsBlockMap
<1>3. align_up((Base + b) % Word, alignment) \in Int
  <2>1. ((Base + b) % Word) + alignment - 1 \in Int
    BY <1>1, <1>2
  <2>2. (((Base + b) % Word) + alignment - 1) % Word \in Int
    BY <2>1, <1>1
  <2> QED  BY <2>2, <1>1 DEF align_up
<1>4. A \in 0 .. Word - 1
  BY <1>1, <1>3 DEF Aligned
<1>5. Lead(b, alignment) = (A - b) % Word
  BY Zenon DEF Lead
<1>6. Lead(b, alignment) <= len /\ len - Lead(b, alignment) >= bytes
  BY Zenon DEF Fits
<1> HIDE DEF A, len
<1>7. CASE A >= b
  <2>1. (A - b) % Word = A - b
    BY <1>1, <1>2, <1>4, <1>7
  <2> QED  BY <2>1, <1>1, <1>2, <1>4, <1>5, <1>6, <1>7 DEF A, len
<1>8. CASE A < b
  <2>1. (A - b) % Word = A - b + Word
    BY <1>1, <1>2, <1>4, <1>8
  <2> QED  BY <2>1, <1>1, <1>2, <1>4, <1>5, <1>6, <1>8
<1> QED
  BY <1>2, <1>4, <1>7, <1>8

\* A span [offset, offset + length) that is in neither map.
FreshSpan(offset, length) ==
  /\ offset \in Nat /\ length \in Nat \ {0} /\ offset + length <= Size
  /\ \A b \in DOMAIN free_blocks_ : Apart(b, free_blocks_[b], offset, length)

\* insert_free replaces the span and the free neighbours it touches by their union.
LEMMA InsertFacts ==
  ASSUME TypeOK, Disjoint, Coalesced, NEW offset, NEW length,
         FreshSpan(offset, length),
         NEW new, new = InsertFree(offset, length)
  PROVE  \E start, end \in Nat :
           /\ start <= offset /\ offset + length <= end /\ end <= Size
           /\ \/ start = offset
              \/ start \in DOMAIN free_blocks_ /\ start + free_blocks_[start] = offset
           /\ \/ end = offset + length
              \/ /\ offset + length \in DOMAIN free_blocks_
                 /\ end = offset + length + free_blocks_[offset + length]
           /\ start \in DOMAIN new /\ new[start] = end - start
           /\ \A c \in DOMAIN new : c # start =>
                /\ c \in DOMAIN free_blocks_
                /\ new[c] = free_blocks_[c]
                /\ c + free_blocks_[c] # start
                /\ c # end
                /\ Apart(c, free_blocks_[c], start, end - start)
           /\ \A c \in DOMAIN free_blocks_ :
                \/ c \in DOMAIN new /\ c # start
                \/ start <= c /\ c + free_blocks_[c] <= end
<1> DEFINE next == NextFree(offset, length)
           prev == PrevFree(offset)
           start == IF prev = {} THEN offset ELSE CHOOSE b \in prev : TRUE
           end == IF next = {} THEN offset + length
                  ELSE offset + length + free_blocks_[offset + length]
<1>1. /\ offset \in Nat /\ length \in Nat \ {0} /\ offset + length <= Size /\ Size \in Nat
      /\ \A b \in DOMAIN free_blocks_ :
           /\ b \in Nat /\ free_blocks_[b] \in Nat /\ free_blocks_[b] > 0
           /\ b + free_blocks_[b] <= Size
           /\ b + free_blocks_[b] <= offset \/ offset + length <= b
      /\ \A b, c \in DOMAIN free_blocks_ :
           /\ b # c => b + free_blocks_[b] <= c \/ c + free_blocks_[c] <= b
           /\ b + free_blocks_[b] # c
  BY ArenaAssumption DEF FreshSpan, TypeOK, IsBlockMap, Apart, Disjoint, Coalesced
<1>2. new = [b \in (DOMAIN free_blocks_ \ (next \cup prev)) \cup {start} |->
               IF b = start THEN end - start ELSE free_blocks_[b]]
  BY Zenon DEF InsertFree
<1>3. \/ /\ prev = {} /\ start = offset
         /\ \A c \in DOMAIN free_blocks_ : c + free_blocks_[c] # offset
      \/ /\ prev = {start} /\ start \in DOMAIN free_blocks_
         /\ start + free_blocks_[start] = offset
  <2>1. CASE prev = {}
    <3>1. ASSUME NEW c \in DOMAIN free_blocks_, c + free_blocks_[c] = offset  PROVE FALSE
      <4>1. c < offset /\ \A d \in DOMAIN free_blocks_ : d < offset => d <= c
        BY <1>1, <3>1
      <4>2. c \in prev
        BY <3>1, <4>1, Zenon DEF PrevFree
      <4> QED  BY <2>1, <4>2, Zenon
    <3> QED  BY <2>1, <3>1, Zenon
  <2>2. CASE prev # {}
    <3>1. start \in prev
      BY <2>2, Zenon
    <3>2. \A b \in prev : b \in DOMAIN free_blocks_ /\ b + free_blocks_[b] = offset
      BY Zenon DEF PrevFree
    <3>3. \A b \in prev : b = start
      <4> HIDE DEF start, prev
      <4> QED  BY <1>1, <3>1, <3>2
    <3> QED  BY <3>1, <3>2, <3>3, Zenon
  <2> QED  BY <2>1, <2>2, Zenon
<1>4. \/ /\ next = {} /\ end = offset + length
         /\ offset + length \notin DOMAIN free_blocks_
      \/ /\ next = {offset + length} /\ offset + length \in DOMAIN free_blocks_
         /\ end = offset + length + free_blocks_[offset + length]
  BY Zenon DEF NextFree
<1> HIDE DEF start, end, next, prev
<1>5. start \in Nat /\ end \in Nat /\ start <= offset /\ offset + length <= end /\ end <= Size
  BY <1>1, <1>3, <1>4
<1>6. start \in DOMAIN new /\ new[start] = end - start
  BY <1>2, Zenon
<1>7. ASSUME NEW c \in DOMAIN new, c # start
      PROVE  /\ c \in DOMAIN free_blocks_ /\ c \notin next /\ c \notin prev
             /\ new[c] = free_blocks_[c]
  BY <1>2, <1>7, Zenon
<1>8. ASSUME NEW c \in DOMAIN new, c # start
      PROVE  /\ c + free_blocks_[c] # start
             /\ c # end
             /\ Apart(c, free_blocks_[c], start, end - start)
  <2>1. c \in DOMAIN free_blocks_ /\ c \notin next /\ c \notin prev
    BY <1>7, <1>8, Zenon
  <2>2. c + free_blocks_[c] <= offset \/ offset + length <= c
    BY <1>1, <2>1, Zenon
  <2> DEFINE nxt == offset + length
  <2>3. c + free_blocks_[c] # start
    BY <1>1, <1>3, <1>8, <2>1, Zenon
  <2>4. c # end
    <3>1. CASE next = {}
      BY <3>1, <1>4, <2>1, Zenon
    <3>2. CASE next # {}
      <4>1. nxt \in DOMAIN free_blocks_ /\ end = nxt + free_blocks_[nxt] /\ c # nxt
        BY <3>2, <1>4, <2>1, Zenon
      <4> QED  BY <4>1, <1>1, <2>1, Zenon
    <3> QED  BY <3>1, <3>2, Zenon
  <2>5. Apart(c, free_blocks_[c], start, end - start)
    <3>1. CASE c + free_blocks_[c] <= offset
      <4>1. c + free_blocks_[c] <= start
        BY <3>1, <1>1, <1>3, <1>8, <2>1
      <4> QED  BY <4>1, Zenon DEF Apart
    <3>2. CASE offset + length <= c
      <4>1. end <= c
        BY <3>2, <1>1, <1>4, <2>1
      <4>2. start + (end - start) <= c
        BY <4>1, <1>1, <1>5, <2>1
      <4> QED  BY <4>2, Zenon DEF Apart
    <3> QED  BY <2>2, <3>1, <3>2, Zenon
  <2> QED  BY <2>3, <2>4, <2>5, Zenon
<1>9. ASSUME NEW c \in DOMAIN free_blocks_
      PROVE  \/ c \in DOMAIN new /\ c # start
             \/ start <= c /\ c + free_blocks_[c] <= end
  <2>1. CASE c \in prev
    BY <2>1, <1>1, <1>3, <1>5
  <2>2. CASE c \in next
    BY <2>2, <1>1, <1>4, <1>5
  <2>3. CASE c \notin prev /\ c \notin next
    <3>1. c # start
      BY <2>3, <1>1, <1>3
    <3> QED  BY <2>3, <3>1, <1>2, Zenon
  <2> QED  BY <2>1, <2>2, <2>3, Zenon
<1> QED
  BY <1>3, <1>4, <1>5, <1>6, <1>7, <1>8, <1>9

\* allocate splits one free block into gap, allocation and rest, and leaves every
\* other block as it was.
LEMMA AllocatePreserves ==
  ASSUME ArenaInv, NEW bytes \in Requests, NEW alignment \in Alignments,
         AllocateOK(bytes, alignment)
  PROVE  ArenaInv'
<1>1. PICK b \in FirstFit(bytes, alignment) :
        LET start == Aligned(b, alignment) IN
        /\ free_blocks_' = Carve(b, bytes, alignment)
        /\ live_blocks_' = [c \in DOMAIN live_blocks_ \cup {start} |->
                              IF c = start THEN bytes ELSE live_blocks_[c]]
  BY Zenon DEF AllocateOK
<1> DEFINE lead == Lead(b, alignment)
           start == Aligned(b, alignment)
           len == free_blocks_[b]
           rest == start + bytes
           trail == len - lead - bytes
<1>2. b \in DOMAIN free_blocks_ /\ Fits(b, bytes, alignment)
  BY Zenon DEF FirstFit
<1>3. /\ b \in Nat /\ bytes \in Nat /\ len \in Nat /\ lead \in Nat
      /\ start = b + lead
      /\ lead + bytes <= len
  BY <1>2, FitFacts, Zenon DEF ArenaInv
<1>4. bytes > 0 /\ in_use_bytes_' \in Int
  BY <1>3 DEF AllocateOK, ArenaInv, TypeOK
<1>5. Size \in Nat /\ b + len <= Size
  BY <1>2, ArenaAssumption, Zenon DEF ArenaInv, TypeOK, IsBlockMap
<1>6. /\ \A c \in DOMAIN free_blocks_ :
           /\ c \in Nat /\ free_blocks_[c] \in Nat /\ free_blocks_[c] > 0
           /\ c + free_blocks_[c] <= Size
           /\ c # b => c + free_blocks_[c] <= b \/ b + len <= c
           /\ c + free_blocks_[c] # b /\ b + len # c
      /\ \A c \in DOMAIN live_blocks_ :
           /\ c \in Nat /\ live_blocks_[c] \in Nat /\ live_blocks_[c] > 0
           /\ c + live_blocks_[c] <= Size
           /\ c + live_blocks_[c] <= b \/ b + len <= c
  BY <1>2, ArenaAssumption DEF ArenaInv, TypeOK, IsBlockMap, Tiles, Disjoint, Apart, Coalesced
<1>7. /\ \A c, d \in DOMAIN free_blocks_ :
           /\ c # d => c + free_blocks_[c] <= d \/ d + free_blocks_[d] <= c
           /\ c + free_blocks_[c] # d
      /\ \A c, d \in DOMAIN live_blocks_ :
           c # d => c + live_blocks_[c] <= d \/ d + live_blocks_[d] <= c
      /\ \A c \in DOMAIN free_blocks_, d \in DOMAIN live_blocks_ :
           c + free_blocks_[c] <= d \/ d + live_blocks_[d] <= c
  BY Zenon DEF ArenaInv, Tiles, Disjoint, Apart, Coalesced
<1>8. free_blocks_' =
        [c \in ((DOMAIN free_blocks_ \ {b}) \cup (IF lead > 0 THEN {b} ELSE {}))
                 \cup (IF trail > 0 THEN {rest} ELSE {}) |->
           IF c \in (IF lead > 0 THEN {b} ELSE {}) THEN lead
           ELSE IF c \in (IF trail > 0 THEN {rest} ELSE {}) THEN trail
           ELSE free_blocks_[c]]
  BY <1>1, Zenon DEF Carve
<1>9. live_blocks_' = [c \in DOMAIN live_blocks_ \cup {start} |->
                         IF c = start THEN bytes ELSE live_blocks_[c]]
  BY <1>1, Zenon
<1>10. trail \in Nat /\ rest \in Nat /\ rest = b + lead + bytes /\ rest + trail = b + len
  BY <1>3
<1> HIDE DEF lead, start, len, rest, trail
<1>11. ASSUME trail > 0  PROVE rest \notin DOMAIN free_blocks_
  BY <1>3, <1>4, <1>6, <1>10, <1>11
<1>12. start \notin DOMAIN live_blocks_
  BY <1>3, <1>4, <1>6
\* The blocks of the new free map, and back.
<1>13. ASSUME NEW c \in DOMAIN free_blocks_'
       PROVE  \/ c \in DOMAIN free_blocks_ /\ c # b /\ free_blocks_'[c] = free_blocks_[c]
              \/ c = b /\ lead > 0 /\ free_blocks_'[c] = lead
              \/ c = rest /\ trail > 0 /\ free_blocks_'[c] = trail
  BY <1>3, <1>4, <1>8, <1>10, <1>11, <1>13, Zenon
<1>14. \A c \in DOMAIN free_blocks_ :
         c # b => c \in DOMAIN free_blocks_' /\ free_blocks_'[c] = free_blocks_[c]
  BY <1>8, <1>11, Zenon
<1>15. /\ lead > 0 => b \in DOMAIN free_blocks_' /\ free_blocks_'[b] = lead
       /\ trail > 0 => rest \in DOMAIN free_blocks_' /\ free_blocks_'[rest] = trail
  BY <1>3, <1>4, <1>8, <1>10, <1>11
<1>16. /\ DOMAIN live_blocks_' = DOMAIN live_blocks_ \cup {start}
       /\ live_blocks_'[start] = bytes
       /\ \A c \in DOMAIN live_blocks_ : live_blocks_'[c] = live_blocks_[c]
  BY <1>9, <1>12, Zenon
<1>17. TypeOK'
  <2>1. \A c \in DOMAIN free_blocks_' :
          /\ c \in 0 .. Size - 1 /\ free_blocks_'[c] \in Nat
          /\ free_blocks_'[c] > 0 /\ c + free_blocks_'[c] <= Size
    BY <1>3, <1>4, <1>5, <1>6, <1>10, <1>13
  <2>2. \A c \in DOMAIN live_blocks_' :
          /\ c \in 0 .. Size - 1 /\ live_blocks_'[c] \in Nat
          /\ live_blocks_'[c] > 0 /\ c + live_blocks_'[c] <= Size
    BY <1>3, <1>4, <1>5, <1>6, <1>16
  <2> QED  BY <1>4, <2>1, <2>2, Zenon DEF TypeOK, IsBlockMap
<1>18. Disjoint'
  <2>1. ASSUME NEW c \in DOMAIN free_blocks_', NEW d \in DOMAIN free_blocks_', c # d
        PROVE  c + free_blocks_'[c] <= d \/ d + free_blocks_'[d] <= c
    <3>1. CASE c \in DOMAIN free_blocks_ /\ c # b /\ free_blocks_'[c] = free_blocks_[c]
      BY <2>1, <3>1, <1>3, <1>4, <1>6, <1>7, <1>10, <1>13
    <3>2. CASE c = b /\ lead > 0 /\ free_blocks_'[c] = lead
      BY <2>1, <3>2, <1>3, <1>4, <1>6, <1>10, <1>13
    <3>3. CASE c = rest /\ trail > 0 /\ free_blocks_'[c] = trail
      BY <2>1, <3>3, <1>3, <1>4, <1>6, <1>10, <1>13
    <3> QED  BY <3>1, <3>2, <3>3, <1>13, Zenon
  <2>2. ASSUME NEW c \in DOMAIN live_blocks_', NEW d \in DOMAIN live_blocks_', c # d
        PROVE  c + live_blocks_'[c] <= d \/ d + live_blocks_'[d] <= c
    BY <2>2, <1>3, <1>6, <1>7, <1>16
  <2>3. ASSUME NEW c \in DOMAIN free_blocks_', NEW d \in DOMAIN live_blocks_'
        PROVE  c + free_blocks_'[c] <= d \/ d + live_blocks_'[d] <= c
    <3>1. CASE d = start
      BY <3>1, <1>3, <1>4, <1>6, <1>10, <1>13, <1>16
    <3>2. CASE d \in DOMAIN live_blocks_
      BY <3>2, <1>3, <1>4, <1>6, <1>7, <1>10, <1>13, <1>16
    <3> QED  BY <3>1, <3>2, <1>16, Zenon
  <2> QED  BY <2>1, <2>2, <2>3, Zenon DEF Disjoint, Apart
<1>19. NothingLost'
  <2> SUFFICES ASSUME NEW x \in 0 .. Size - 1
               PROVE  \/ \E c \in DOMAIN free_blocks_' : c <= x /\ x < c + free_blocks_'[c]
                      \/ \E c \in DOMAIN live_blocks_' : c <= x /\ x < c + live_blocks_'[c]
    BY Zenon DEF NothingLost, InBlock
  <2>1. CASE \E c \in DOMAIN live_blocks_ : c <= x /\ x < c + live_blocks_[c]
    BY <2>1, <1>16, Zenon
  <2>2. CASE \E c \in DOMAIN free_blocks_ : c # b /\ c <= x /\ x < c + free_blocks_[c]
    BY <2>2, <1>14, Zenon
  <2>3. CASE b <= x /\ x < b + len
    <3>1. CASE x < start
      BY <2>3, <3>1, <1>3, <1>15
    <3>2. CASE start <= x /\ x < rest
      BY <3>2, <1>16, Zenon DEF rest
    <3>3. CASE rest <= x
      BY <2>3, <3>3, <1>10, <1>3, <1>15
    <3> QED  BY <3>1, <3>2, <3>3, <1>3, <1>10
  <2>4. \/ \E c \in DOMAIN live_blocks_ : c <= x /\ x < c + live_blocks_[c]
        \/ \E c \in DOMAIN free_blocks_ : c <= x /\ x < c + free_blocks_[c]
    BY Zenon DEF ArenaInv, Tiles, NothingLost, InBlock
  <2> QED  BY <2>1, <2>2, <2>3, <2>4, Zenon DEF len
<1>20. Coalesced'
  <2> SUFFICES ASSUME NEW c \in DOMAIN free_blocks_', NEW d \in DOMAIN free_blocks_'
               PROVE  c + free_blocks_'[c] # d
    BY Zenon DEF Coalesced
  <2>1. CASE c \in DOMAIN free_blocks_ /\ c # b /\ free_blocks_'[c] = free_blocks_[c]
    BY <2>1, <1>3, <1>4, <1>6, <1>7, <1>10, <1>13
  <2>2. CASE c = b /\ lead > 0 /\ free_blocks_'[c] = lead
    BY <2>2, <1>3, <1>4, <1>6, <1>10, <1>13
  <2>3. CASE c = rest /\ trail > 0 /\ free_blocks_'[c] = trail
    BY <2>3, <1>3, <1>4, <1>6, <1>10, <1>13
  <2> QED  BY <2>1, <2>2, <2>3, <1>13, Zenon
<1> QED
  BY <1>17, <1>18, <1>19, <1>20, Zenon DEF ArenaInv, Tiles

\* deallocate turns a live block into free space merged with its neighbours.
LEMMA DeallocatePreserves ==
  ASSUME ArenaInv, NEW ptr \in 0 .. Word - 1, DeallocateOK(ptr)
  PROVE  ArenaInv'
<1> DEFINE offset == ptr - Base
           length == live_blocks_[offset]
<1>1. /\ offset \in DOMAIN live_blocks_
      /\ live_blocks_' = [c \in DOMAIN live_blocks_ \ {offset} |-> live_blocks_[c]]
      /\ in_use_bytes_' = in_use_bytes_ - length
      /\ free_blocks_' = InsertFree(offset, length)
  BY Zenon DEF DeallocateOK
<1>2. /\ Size \in Nat
      /\ \A c \in DOMAIN live_blocks_ :
           /\ c \in Nat /\ live_blocks_[c] \in Nat /\ live_blocks_[c] > 0
           /\ c + live_blocks_[c] <= Size
      /\ \A c \in DOMAIN free_blocks_ :
           /\ c \in Nat /\ free_blocks_[c] \in Nat /\ free_blocks_[c] > 0
           /\ c + free_blocks_[c] <= Size
      /\ in_use_bytes_ \in Int
  BY ArenaAssumption DEF ArenaInv, TypeOK, IsBlockMap
<1>3. /\ \A c, d \in DOMAIN free_blocks_ :
           /\ c # d => c + free_blocks_[c] <= d \/ d + free_blocks_[d] <= c
           /\ c + free_blocks_[c] # d
      /\ \A c, d \in DOMAIN live_blocks_ :
           c # d => c + live_blocks_[c] <= d \/ d + live_blocks_[d] <= c
      /\ \A c \in DOMAIN free_blocks_, d \in DOMAIN live_blocks_ :
           c + free_blocks_[c] <= d \/ d + live_blocks_[d] <= c
  BY Zenon DEF ArenaInv, Tiles, Disjoint, Apart, Coalesced
<1> HIDE DEF offset
<1>4. FreshSpan(offset, length)
  BY <1>1, <1>2, <1>3 DEF FreshSpan, Apart
<1>5. PICK start \in Nat, end \in Nat :
        /\ start <= offset /\ offset + length <= end /\ end <= Size
        /\ \/ start = offset
           \/ start \in DOMAIN free_blocks_ /\ start + free_blocks_[start] = offset
        /\ \/ end = offset + length
           \/ /\ offset + length \in DOMAIN free_blocks_
              /\ end = offset + length + free_blocks_[offset + length]
        /\ start \in DOMAIN free_blocks_' /\ free_blocks_'[start] = end - start
        /\ \A c \in DOMAIN free_blocks_' : c # start =>
             /\ c \in DOMAIN free_blocks_
             /\ free_blocks_'[c] = free_blocks_[c]
             /\ c + free_blocks_[c] # start
             /\ c # end
             /\ Apart(c, free_blocks_[c], start, end - start)
        /\ \A c \in DOMAIN free_blocks_ :
             \/ c \in DOMAIN free_blocks_' /\ c # start
             \/ start <= c /\ c + free_blocks_[c] <= end
  BY <1>1, <1>4, InsertFacts DEF ArenaInv, Tiles
<1>6. /\ offset \in Nat /\ length \in Nat /\ length > 0
      /\ DOMAIN live_blocks_' = DOMAIN live_blocks_ \ {offset}
      /\ \A c \in DOMAIN live_blocks_' : live_blocks_'[c] = live_blocks_[c]
  BY <1>1, <1>2, Zenon
<1>7. ASSUME NEW c \in DOMAIN free_blocks_', c # start
      PROVE  /\ c \in DOMAIN free_blocks_
             /\ free_blocks_'[c] = free_blocks_[c]
             /\ c + free_blocks_[c] # start
             /\ c # end
             /\ c + free_blocks_[c] <= start \/ end <= c
  BY <1>2, <1>5, <1>7 DEF Apart
<1>8. ASSUME NEW d \in DOMAIN live_blocks_, d # offset
      PROVE  d + live_blocks_[d] <= start \/ end <= d
  \* A live block between start and end would meet the freed span or a free
  \* neighbour that was merged into it.
  <2>1. d + live_blocks_[d] <= offset \/ offset + length <= d
    BY <1>1, <1>3, <1>8, Zenon
  <2>2. CASE d + live_blocks_[d] <= offset
    BY <2>2, <1>2, <1>3, <1>5, <1>6, <1>8
  <2>3. CASE offset + length <= d
    BY <2>3, <1>2, <1>3, <1>5, <1>6, <1>8
  <2> QED  BY <2>1, <2>2, <2>3, Zenon
<1>9. TypeOK'
  <2>1. \A c \in DOMAIN free_blocks_' :
          /\ c \in 0 .. Size - 1 /\ free_blocks_'[c] \in Nat
          /\ free_blocks_'[c] > 0 /\ c + free_blocks_'[c] <= Size
    BY <1>2, <1>5, <1>6, <1>7
  <2>2. \A c \in DOMAIN live_blocks_' :
          /\ c \in 0 .. Size - 1 /\ live_blocks_'[c] \in Nat
          /\ live_blocks_'[c] > 0 /\ c + live_blocks_'[c] <= Size
    BY <1>2, <1>6
  <2>3. in_use_bytes_' \in Int
    BY <1>1, <1>2, <1>6
  <2> QED  BY <2>1, <2>2, <2>3, Zenon DEF TypeOK, IsBlockMap
<1>10. Disjoint'
  <2>1. ASSUME NEW c \in DOMAIN free_blocks_', NEW d \in DOMAIN free_blocks_', c # d
        PROVE  c + free_blocks_'[c] <= d \/ d + free_blocks_'[d] <= c
    BY <2>1, <1>2, <1>3, <1>5, <1>7
  <2>2. ASSUME NEW c \in DOMAIN live_blocks_', NEW d \in DOMAIN live_blocks_', c # d
        PROVE  c + live_blocks_'[c] <= d \/ d + live_blocks_'[d] <= c
    BY <2>2, <1>3, <1>6, Zenon
  <2>3. ASSUME NEW c \in DOMAIN free_blocks_', NEW d \in DOMAIN live_blocks_'
        PROVE  c + free_blocks_'[c] <= d \/ d + live_blocks_'[d] <= c
    <3>1. CASE c = start
      BY <3>1, <1>2, <1>5, <1>6, <1>8
    <3>2. CASE c # start
      BY <3>2, <1>3, <1>6, <1>7, Zenon
    <3> QED  BY <3>1, <3>2, Zenon
  <2> QED  BY <2>1, <2>2, <2>3, Zenon DEF Disjoint, Apart
<1>11. NothingLost'
  <2> SUFFICES ASSUME NEW x \in 0 .. Size - 1
               PROVE  \/ \E c \in DOMAIN free_blocks_' : c <= x /\ x < c + free_blocks_'[c]
                      \/ \E c \in DOMAIN live_blocks_' : c <= x /\ x < c + live_blocks_'[c]
    BY Zenon DEF NothingLost, InBlock
  <2>1. CASE start <= x /\ x < end
    BY <2>1, <1>2, <1>5
  <2>2. CASE \E c \in DOMAIN live_blocks_ : c <= x /\ x < c + live_blocks_[c]
    <3>1. PICK c \in DOMAIN live_blocks_ : c <= x /\ x < c + live_blocks_[c]
      BY <2>2, Zenon
    <3>2. CASE c = offset
      BY <3>1, <3>2, <1>2, <1>5, <1>6, <2>1
    <3>3. CASE c # offset
      BY <3>1, <3>3, <1>6, Zenon
    <3> QED  BY <3>2, <3>3, Zenon
  <2>3. CASE \E c \in DOMAIN free_blocks_ : c <= x /\ x < c + free_blocks_[c]
    <3>1. PICK c \in DOMAIN free_blocks_ : c <= x /\ x < c + free_blocks_[c]
      BY <2>3, Zenon
    <3>2. CASE c \in DOMAIN free_blocks_' /\ c # start
      BY <3>1, <3>2, <1>7, Zenon
    <3>3. CASE start <= c /\ c + free_blocks_[c] <= end
      BY <3>1, <3>3, <1>2, <1>5, <2>1
    <3> QED  BY <3>2, <3>3, <1>5, Zenon
  <2> QED  BY <2>2, <2>3, Zenon DEF ArenaInv, Tiles, NothingLost, InBlock
<1>12. Coalesced'
  <2> SUFFICES ASSUME NEW c \in DOMAIN free_blocks_', NEW d \in DOMAIN free_blocks_'
               PROVE  c + free_blocks_'[c] # d
    BY Zenon DEF Coalesced
  <2> QED
    BY <1>2, <1>3, <1>5, <1>6, <1>7
<1> QED
  BY <1>9, <1>10, <1>11, <1>12, Zenon DEF ArenaInv, Tiles

\* The invariant of the arena holds in every reachable state.
THEOREM ArenaSafe == Spec => []ArenaInv
<1>1. Init => ArenaInv
  <2> SUFFICES ASSUME Init  PROVE ArenaInv
    BY Zenon
  <2>1. /\ DOMAIN free_blocks_ = {0} /\ free_blocks_[0] = Size
        /\ DOMAIN live_blocks_ = {} /\ in_use_bytes_ = 0
    BY Zenon DEF Init
  <2> QED
    BY <2>1, ArenaAssumption
       DEF ArenaInv, TypeOK, IsBlockMap, Tiles, Disjoint, Apart, NothingLost, InBlock, Coalesced
<1>2. ArenaInv /\ [Next]_vars => ArenaInv'
  <2> SUFFICES ASSUME ArenaInv, [Next]_vars  PROVE ArenaInv'
    BY Zenon
  <2>1. ASSUME UNCHANGED <<free_blocks_, live_blocks_, in_use_bytes_>>  PROVE ArenaInv'
    BY <2>1, Zenon DEF ArenaInv, TypeOK, IsBlockMap, Tiles, Disjoint, NothingLost, InBlock, Coalesced
  <2>2. CASE UNCHANGED vars
    BY <2>1, <2>2, Zenon DEF vars
  <2>3. ASSUME NEW bytes \in Requests, NEW alignment \in Alignments,
               AllocateOK(bytes, alignment) \/ AllocateNull(bytes, alignment)
        PROVE  ArenaInv'
    BY <2>1, <2>3, AllocatePreserves, Zenon DEF AllocateNull
  <2>4. ASSUME NEW ptr \in 0 .. Word - 1, DeallocateOK(ptr) \/ DeallocateIgnored(ptr)
        PROVE  ArenaInv'
    BY <2>1, <2>4, DeallocatePreserves, Zenon DEF DeallocateIgnored
  <2> QED
    BY <2>2, <2>3, <2>4, Zenon DEF Next
<1> QED
  BY <1>1, <1>2, PTL DEF Spec

\* No two malloc blocks overlap and no byte of the region is lost, whatever the
\* sequence of allocate and deallocate calls.
THEOREM RegionTiled == Spec => []Tiles
<1>1. ArenaInv => Tiles
  BY Zenon DEF ArenaInv
<1> QED
  BY <1>1, ArenaSafe, PTL

\* Freed space is always merged with the free space around it.
THEOREM AlwaysCoalesced == Spec => []Coalesced
<1>1. ArenaInv => Coalesced
  BY Zenon DEF ArenaInv
<1> QED
  BY <1>1, ArenaSafe, PTL
-----------------------------------------------------------------------------
\* A non-empty set of offsets has a least one.
LEMMA LeastOffset ==
  ASSUME NEW S \in SUBSET Nat, S # {}
  PROVE  \E m \in S : \A k \in S : m <= k
<1> DEFINE R == {ss \in Nat \X Nat : ss[1] < ss[2]}
<1>1. IsWellFoundedOn(R, Nat)
  BY NatLessThanWellFounded, Zenon DEF OpToRel
<1>2. ASSUME NEW x \in S, NEW y \in S, ~(<<y, x>> \in R)  PROVE x <= y
  BY <1>2
<1> HIDE DEF R
<1>3. \E x \in S : \A y \in S : ~(<<y, x>> \in R)
  BY <1>1, WFMin, Zenon
<1> QED
  BY <1>2, <1>3, Zenon

\* What division by an alignment gives.
LEMMA Division ==
  ASSUME NEW x \in Nat, NEW k \in Nat \ {0}
  PROVE  /\ x \div k \in Nat
         /\ x = k * (x \div k) + (x % k)
         /\ x % k \in 0 .. k - 1
OBVIOUS

\* Of two multiples of k, the smaller is at least k below the larger.
LEMMA MultiplesApart ==
  ASSUME NEW k \in Nat \ {0}, NEW m \in Nat, NEW n \in Nat, k * m < k * n
  PROVE  m < n /\ k * m + k <= k * n
<1>1. m < n
  <2>1. SUFFICES ASSUME n <= m  PROVE FALSE
    OBVIOUS
  <2>2. k * n <= k * m
    BY <2>1
  <2> QED  BY <2>2
<1>2. k * (m + 1) <= k * n
  BY <1>1
<1>3. k * (m + 1) = k * m + k
  OBVIOUS
<1> QED
  BY <1>1, <1>2, <1>3, Zenon

\* align_up returns an address between its argument and any aligned address of
\* the word that is not below it: when there is one, the sum does not wrap.
LEMMA AlignUpLeast ==
  ASSUME NEW v \in Nat, NEW t \in Nat, NEW alignment \in Alignments,
         v <= t, t < Word, t % alignment = 0
  PROVE  align_up(v, alignment) \in v .. t
<1> DEFINE k == alignment
           sum == v + k - 1
           m == t \div k
           w == Word \div k
           q == sum \div k
<1>1. k \in Nat \ {0} /\ Word \in Nat /\ Word % k = 0
  BY ArenaAssumption, Zenon
<1>2. sum \in Nat
  BY <1>1
<1>3. m \in Nat /\ t = k * m
  <2>1. m \in Nat /\ t = k * m + (t % k)
    BY <1>1, Division, Zenon
  <2> HIDE DEF m
  <2> QED  BY <2>1, <1>1
<1>4. w \in Nat /\ Word = k * w
  <2>1. w \in Nat /\ Word = k * w + (Word % k)
    BY <1>1, Division, Zenon
  <2> HIDE DEF w
  <2> QED  BY <2>1, <1>1
<1>5. q \in Nat /\ sum = k * q + (sum % k) /\ sum % k \in 0 .. k - 1
  BY <1>1, <1>2, Division, Zenon
<1> HIDE DEF k, m, w, q
<1>6. k * m \in Nat /\ k * w \in Nat /\ k * q \in Nat
  BY <1>1, <1>3, <1>4, <1>5
<1>7. k * m + k <= k * w
  BY <1>1, <1>3, <1>4, MultiplesApart, Zenon
<1>8. sum < Word
  BY <1>1, <1>3, <1>4, <1>6, <1>7
<1>9. sum % Word = sum
  BY <1>1, <1>2, <1>8
<1>10. align_up(v, alignment) = k * q
  <2>1. align_up(v, alignment) = sum - (sum % k)
    BY <1>9, Zenon DEF align_up, k
  <2> HIDE DEF sum
  <2> QED  BY <2>1, <1>1, <1>2, <1>5, <1>6
<1>11. k * q <= k * m
  <2>1. SUFFICES ASSUME k * m < k * q  PROVE FALSE
    BY <1>6
  <2>2. k * m + k <= k * q
    BY <2>1, <1>1, <1>3, <1>5, MultiplesApart, Zenon
  <2> QED  BY <2>2, <1>1, <1>3, <1>5, <1>6
<1>12. v <= k * q
  BY <1>1, <1>5, <1>6
<1> QED
  BY <1>3, <1>6, <1>10, <1>11, <1>12

\* A run of free bytes lies in one free block: the byte after a block is never
\* free, since free blocks do not touch.
LEMMA RunInOneBlock ==
  ASSUME ArenaInv, NEW a \in Nat, NEW n \in Nat \ {0},
         \A x \in a .. a + n - 1 : InBlock(x, free_blocks_)
  PROVE  \E b \in DOMAIN free_blocks_ : b <= a /\ a + n <= b + free_blocks_[b]
<1>1. /\ \A b \in DOMAIN free_blocks_ : b \in Nat /\ free_blocks_[b] \in Nat
      /\ \A b, c \in DOMAIN free_blocks_ :
           /\ b # c => b + free_blocks_[b] <= c \/ c + free_blocks_[c] <= b
           /\ b + free_blocks_[b] # c
  BY ArenaAssumption DEF ArenaInv, TypeOK, IsBlockMap, Tiles, Disjoint, Apart, Coalesced
<1>2. PICK b \in DOMAIN free_blocks_ : b <= a /\ a < b + free_blocks_[b]
  <2>1. a \in a .. a + n - 1
    OBVIOUS
  <2> QED  BY <2>1, Zenon DEF InBlock
<1> DEFINE end == b + free_blocks_[b]
<1>3. ASSUME end < a + n  PROVE FALSE
  <2>1. end \in a .. a + n - 1
    BY <1>1, <1>2, <1>3
  <2>2. PICK c \in DOMAIN free_blocks_ : c <= end /\ end < c + free_blocks_[c]
    BY <2>1, Zenon DEF InBlock
  <2> QED  BY <1>1, <1>2, <2>2
<1> QED
  BY <1>1, <1>2, <1>3

\* allocate passes over no run it could have used: when the scan finds no block,
\* no aligned run of that many free bytes exists.
LEMMA NoFitNoRun ==
  ASSUME ArenaInv, NEW bytes \in Requests, bytes # 0, NEW alignment \in Alignments,
         FirstFit(bytes, alignment) = {},
         NEW a \in 0 .. Size - bytes, (Base + a) % alignment = 0,
         \A x \in a .. a + bytes - 1 : InBlock(x, free_blocks_)
  PROVE  FALSE
<1>1. /\ Word \in Nat /\ Base \in Nat \ {0} /\ Size \in Nat /\ Base + Size <= Word
      /\ bytes \in Nat \ {0} /\ alignment \in Nat \ {0}
  BY ArenaAssumption, Zenon
<1>2. a \in Nat /\ a + bytes <= Size
  BY <1>1
<1>3. PICK b \in DOMAIN free_blocks_ : b <= a /\ a + bytes <= b + free_blocks_[b]
  BY <1>1, <1>2, RunInOneBlock, Zenon
<1>4. b \in Nat /\ free_blocks_[b] \in Nat /\ b < Size
  BY <1>1 DEF ArenaInv, TypeOK, IsBlockMap
<1>5. (Base + b) % Word = Base + b
  BY <1>1, <1>4
<1>6. align_up(Base + b, alignment) \in Base + b .. Base + a
  <2>1. Base + b \in Nat /\ Base + a \in Nat /\ Base + b <= Base + a /\ Base + a < Word
    BY <1>1, <1>2, <1>3, <1>4
  <2> QED  BY <2>1, AlignUpLeast, Zenon
<1> DEFINE up == align_up(Base + b, alignment)
<1>7. Aligned(b, alignment) = (up - Base) % Word
  BY <1>5, Zenon DEF Aligned
<1> HIDE DEF up
<1>8. Aligned(b, alignment) = up - Base /\ up - Base \in b .. a
  <2>1. up \in Base + b .. Base + a
    BY <1>6, Zenon DEF up
  <2>2. up - Base \in b .. a /\ up - Base \in 0 .. Word - 1
    BY <2>1, <1>1, <1>2, <1>4
  <2>3. (up - Base) % Word = up - Base
    BY <1>1, <2>2
  <2> QED  BY <1>7, <2>2, <2>3, Zenon
<1>9. Lead(b, alignment) = Aligned(b, alignment) - b
  <2>1. Aligned(b, alignment) - b \in 0 .. Word - 1
    BY <1>1, <1>2, <1>4, <1>8
  <2>2. (Aligned(b, alignment) - b) % Word = Aligned(b, alignment) - b
    BY <1>1, <2>1
  <2> QED  BY <2>2, Zenon DEF Lead
<1>10. Fits(b, bytes, alignment)
  BY <1>1, <1>2, <1>3, <1>4, <1>8, <1>9 DEF Fits
<1> DEFINE S == {c \in DOMAIN free_blocks_ : Fits(c, bytes, alignment)}
<1>11. S \in SUBSET Nat /\ S # {}
  BY <1>10, ArenaAssumption DEF ArenaInv, TypeOK, IsBlockMap
<1>12. PICK m \in S : \A c \in S : m <= c
  BY <1>11, LeastOffset, Zenon
<1>13. m \in FirstFit(bytes, alignment)
  BY <1>12, Zenon DEF FirstFit
<1> QED
  BY <1>13, Zenon

\* allocate returns nullptr only when the region holds no aligned run of that
\* many free bytes, in one block or across several: first fit with coalescing
\* loses no opportunity, at any alignment and at the end of the address space.
THEOREM NullMeansFull == Spec => []FailsOnlyWhenFull
<1>1. Init => FailsOnlyWhenFull
  BY DEF Init, NoCall, FailsOnlyWhenFull
<1>2. ArenaInv /\ FailsOnlyWhenFull /\ [Next]_vars => FailsOnlyWhenFull'
  <2> SUFFICES ASSUME ArenaInv, FailsOnlyWhenFull, [Next]_vars  PROVE FailsOnlyWhenFull'
    BY Zenon
  <2>1. CASE UNCHANGED vars
    BY <2>1, Zenon DEF vars, FailsOnlyWhenFull, InBlock
  <2>2. ASSUME NEW bytes \in Requests, NEW alignment \in Alignments,
               AllocateOK(bytes, alignment)
        PROVE  FailsOnlyWhenFull'
    <3>1. PICK b \in FirstFit(bytes, alignment) :
            last' = [bytes |-> bytes, alignment |-> alignment,
                     ptr |-> Base + Aligned(b, alignment)]
      BY <2>2, Zenon DEF AllocateOK
    <3>2. b \in DOMAIN free_blocks_ /\ Fits(b, bytes, alignment)
      BY Zenon DEF FirstFit
    <3>3. Aligned(b, alignment) \in Nat
      BY <3>2, FitFacts DEF ArenaInv
    <3>4. last'.ptr = Base + Aligned(b, alignment)
      BY <3>1, Zenon
    <3>5. last'.ptr # Null
      BY <3>3, <3>4, ArenaAssumption DEF Null
    <3> QED  BY <3>5, Zenon DEF FailsOnlyWhenFull
  <2>3. ASSUME NEW bytes \in Requests, NEW alignment \in Alignments,
               AllocateNull(bytes, alignment)
        PROVE  FailsOnlyWhenFull'
    <3>1. /\ bytes = 0 \/ FirstFit(bytes, alignment) = {}
          /\ last'.bytes = bytes /\ last'.alignment = alignment
          /\ free_blocks_' = free_blocks_
      BY <2>3, Zenon DEF AllocateNull
    <3>2. SUFFICES ASSUME bytes # 0, NEW a \in 0 .. Size - bytes,
                          (Base + a) % alignment = 0,
                          \A x \in a .. a + bytes - 1 : InBlock(x, free_blocks_)
                   PROVE  FALSE
      BY <3>1, Zenon DEF FailsOnlyWhenFull, InBlock
    <3> QED  BY <3>1, <3>2, NoFitNoRun, Zenon
  <2>4. ASSUME NEW ptr \in 0 .. Word - 1, DeallocateOK(ptr) \/ DeallocateIgnored(ptr)
        PROVE  FailsOnlyWhenFull'
    BY <2>4 DEF DeallocateOK, DeallocateIgnored, NoCall, FailsOnlyWhenFull
  <2> QED
    BY <2>1, <2>2, <2>3, <2>4, Zenon DEF Next
<1> QED
  BY <1>1, <1>2, ArenaSafe, PTL DEF Spec
=============================================================================
