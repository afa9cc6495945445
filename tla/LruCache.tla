------------------------------- MODULE LruCache -------------------------------
(***************************************************************************)
(* memclient's LRUCache, as operators on its value: list_, the blocks with *)
(* the most recently used first, and current_bytes_, the running total of  *)
(* their sizes.  map_ is the index of list_ by handle.  Every method runs  *)
(* under mutex_, so each operator is one step of whoever calls it.         *)
(***************************************************************************)
EXTENDS Naturals, Sequences, SequencesExt, FiniteSetsExt

CONSTANT CacheMax   \* max_bytes_, in cells

ASSUME LruCacheAssumption == CacheMax \in Nat

EmptyCache == [list_ |-> <<>>, current_bytes_ |-> 0]

NoBlock == [handle |-> 0, data |-> <<>>, dirty |-> FALSE]

Cached(c, h) == \E i \in DOMAIN c.list_ : c.list_[i].handle = h

BlockOf(c, h) == c.list_[CHOOSE i \in DOMAIN c.list_ : c.list_[i].handle = h]

needs_eviction(c, additional) == c.current_bytes_ + additional > CacheMax

Without(c, h) ==
  [list_ |-> SelectSeq(c.list_, LAMBDA b : b.handle # h),
   current_bytes_ |-> c.current_bytes_ - Len(BlockOf(c, h).data)]

remove(c, h) == IF Cached(c, h) THEN Without(c, h) ELSE c

\* get(): the caller gets a copy, the block becomes the most recently used.
get(c, h) == [c EXCEPT !.list_ = <<BlockOf(c, h)>> \o Without(c, h).list_]

\* evict_one(): hands out the least recently used block.
victim(c) == c.list_[Len(c.list_)]
evict_one(c) ==
  [list_ |-> Front(c.list_),
   current_bytes_ |-> c.current_bytes_ - Len(victim(c).data)]

SizeOf(blocks) == FoldSeq(LAMBDA b, n : n + Len(b.data), 0, blocks)

\* put() makes room itself: the blocks at the back are dropped, not pushed to
\* a peer, until `size' more cells fit or nothing is left.
MakeRoom(c, size) ==
  LET After(n) == c.current_bytes_ - SizeOf(SubSeq(c.list_, n + 1, Len(c.list_)))
      n == Max({0} \cup {k \in 1 .. Len(c.list_) : After(k) + size <= CacheMax})
  IN  [list_ |-> SubSeq(c.list_, 1, n), current_bytes_ |-> After(n)]

put(c, block) ==
  IF Len(block.data) > CacheMax THEN c
  ELSE LET room == MakeRoom(remove(c, block.handle), Len(block.data))
       IN  [list_ |-> <<block>> \o room.list_,
            current_bytes_ |-> room.current_bytes_ + Len(block.data)]
===============================================================================
