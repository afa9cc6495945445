--------------------------- MODULE Memoryd_proofs ---------------------------
(***************************************************************************)
(* For every slab size, page size, word size and number of sessions: the   *)
(* slab is partitioned between the free list and the allocations, every    *)
(* allocation is fully backed by pages and belongs to a live session, and  *)
(* the daemon implements the pool of private blocks of module MemoryPool.  *)
(***************************************************************************)
EXTENDS Memoryd, FiniteSetTheorems, SequenceTheorems, TLAPS

\* The free list and the page states agree on what can be handed out.
SlabOK ==
  /\ free_list_ \in Seq(Pages)
  /\ page_states_ \in [Pages -> {"FREE", "ALLOCATED"}]
  /\ FreeListMatchesStates

\* An enumeration of a set of pages is a sequence that lists each page once.
LEMMA EnumerationFacts ==
  ASSUME NEW S \in SUBSET Pages, NEW e \in Enumerations(S)
  PROVE  /\ e \in Seq(Pages)
         /\ \A i \in DOMAIN e : e[i] \in S
         /\ \A p \in S : \E i \in DOMAIN e : e[i] = p
         /\ \A i, j \in DOMAIN e : e[i] = e[j] => i = j
         /\ DOMAIN e = 1 .. Len(e)
<1> DEFINE n == Cardinality(S)
<1>1. IsFiniteSet(S)
  <2>1. TotalPages - 1 \in Int
    BY MemorydAssumption
  <2>2. IsFiniteSet(Pages)
    BY <2>1, FS_Interval DEF Pages
  <2> QED
    BY <2>2, FS_Subset, Zenon
<1>2. n \in Nat
  BY <1>1, FS_CardinalityType, Zenon
<1>3. e \in [1 .. n -> S] /\ IsInjective(e) /\ \A t \in S : \E i \in 1 .. n : e[i] = t
  BY Zenon DEF Enumerations, Bijection, Injection, Surjection
<1> HIDE DEF n
<1>4. e \in [1 .. n -> Pages]
  BY <1>3, Zenon
<1>5. e \in Seq(Pages)
  BY <1>2, <1>4, IsASeq
<1>6. DOMAIN e = 1 .. n
  BY <1>3, Zenon
<1>7. DOMAIN e = 1 .. Len(e)
  BY <1>5, LenProperties, Zenon
<1> QED
  BY <1>3, <1>5, <1>6, <1>7, Zenon DEF IsInjective

\* free_pages gives back exactly the pages of P that were allocated, each once.
LEMMA FreePagesFacts ==
  ASSUME SlabOK, NEW P \in SUBSET Pages, FreePages(P)
  PROVE  /\ SlabOK'
         /\ \A p \in Pages : page_states_'[p] = IF p \in P THEN "FREE" ELSE page_states_[p]
<1> DEFINE R == {p \in P : p \in Pages /\ page_states_[p] = "ALLOCATED"}
<1>1. PICK e \in Enumerations(R) : free_list_' = free_list_ \o e
  BY Zenon DEF FreePages
<1>2. page_states_' = [p \in Pages |-> IF p \in R THEN "FREE" ELSE page_states_[p]]
  BY Zenon DEF FreePages
<1>3. R \in SUBSET Pages
  BY Zenon
<1>4. /\ e \in Seq(Pages)
      /\ \A i \in 1 .. Len(e) : e[i] \in R
      /\ \A p \in R : \E i \in 1 .. Len(e) : e[i] = p
      /\ \A i, j \in 1 .. Len(e) : e[i] = e[j] => i = j
  BY <1>3, EnumerationFacts, SMTT(30)
<1>5. free_list_ \in Seq(Pages) /\ Len(free_list_) \in Nat /\ Len(e) \in Nat
  BY <1>4, LenProperties, Zenon DEF SlabOK
<1> DEFINE m == Len(free_list_)
           k == Len(e)
<1>6. /\ free_list_' \in Seq(Pages)
      /\ DOMAIN free_list_' = 1 .. m + k
      /\ \A i \in 1 .. m + k :
           free_list_'[i] = IF i <= m THEN free_list_[i] ELSE e[i - m]
  BY <1>1, <1>4, <1>5, ConcatProperties, LenProperties
<1>7. /\ \A i \in 1 .. m : free_list_[i] \in Pages /\ page_states_[free_list_[i]] = "FREE"
      /\ \A i, j \in 1 .. m : free_list_[i] = free_list_[j] => i = j
      /\ \A p \in Pages : page_states_[p] = "FREE" => \E i \in 1 .. m : free_list_[i] = p
  BY <1>5, LenProperties DEF SlabOK, FreeListMatchesStates
<1>8. \A p \in R : page_states_[p] = "ALLOCATED"
  BY Zenon
<1> HIDE DEF m, k, R
<1>9. page_states_' \in [Pages -> {"FREE", "ALLOCATED"}]
  BY <1>2, Zenon DEF SlabOK
<1>10. ASSUME NEW i \in 1 .. m + k, NEW j \in 1 .. m + k, free_list_'[i] = free_list_'[j]
       PROVE  i = j
  <2>0. m \in Nat /\ k \in Nat
    BY <1>5, Zenon DEF m, k
  <2>1. CASE i <= m /\ j <= m
    BY <2>0, <2>1, <1>6, <1>7, <1>10
  <2>2. CASE i <= m /\ j > m
    <3>1. i \in 1 .. m /\ j - m \in 1 .. k
      BY <2>0, <2>2
    <3>2. free_list_[i] = e[j - m]
      BY <2>0, <2>2, <1>6, <1>10
    <3> QED  BY <3>1, <3>2, <1>4, <1>7, <1>8, Zenon DEF k
  <2>3. CASE i > m /\ j <= m
    <3>1. j \in 1 .. m /\ i - m \in 1 .. k
      BY <2>0, <2>3
    <3>2. free_list_[j] = e[i - m]
      BY <2>0, <2>3, <1>6, <1>10
    <3> QED  BY <3>1, <3>2, <1>4, <1>7, <1>8, Zenon DEF k
  <2>4. CASE i > m /\ j > m
    <3>1. j - m \in 1 .. k /\ i - m \in 1 .. k
      BY <2>0, <2>4
    <3>2. e[j - m] = e[i - m]
      BY <2>0, <2>4, <1>6, <1>10
    <3>3. j - m = i - m
      BY <3>1, <3>2, <1>4, Zenon DEF k
    <3> QED  BY <3>3, <2>0
  <2> QED
    BY <2>0, <2>1, <2>2, <2>3, <2>4
<1>11. ASSUME NEW p \in Pages
       PROVE  page_states_'[p] = "FREE" <=> \E i \in 1 .. m + k : free_list_'[i] = p
  <2>0. m \in Nat /\ k \in Nat
    BY <1>5, Zenon DEF m, k
  <2>1. CASE p \in R
    <3>1. PICK i \in 1 .. k : e[i] = p
      BY <2>1, <1>4, Zenon DEF k
    <3>2. m + i \in 1 .. m + k /\ free_list_'[m + i] = p
      BY <3>1, <2>0, <1>6
    <3> QED  BY <3>2, <2>1, <1>2, Zenon
  <2>2. CASE p \notin R /\ page_states_[p] = "FREE"
    <3>1. PICK i \in 1 .. m : free_list_[i] = p
      BY <2>2, <1>7, Zenon
    <3>2. i \in 1 .. m + k /\ free_list_'[i] = p
      BY <3>1, <2>0, <1>6
    <3> QED  BY <3>2, <2>2, <1>2, Zenon
  <2>3. CASE p \notin R /\ page_states_[p] # "FREE"
    <3>1. ASSUME NEW i \in 1 .. m + k, free_list_'[i] = p  PROVE FALSE
      <4>1. CASE i <= m
        BY <4>1, <3>1, <2>0, <2>3, <1>6, <1>7
      <4>2. CASE i > m
        <5>1. i - m \in 1 .. k /\ e[i - m] = p
          BY <4>2, <3>1, <2>0, <1>6
        <5> QED  BY <5>1, <1>4, <2>3, Zenon DEF k
      <4> QED  BY <4>1, <4>2, <2>0
    <3> QED  BY <3>1, <2>3, <1>2, Zenon
  <2> QED
    BY <2>1, <2>2, <2>3, Zenon
<1>12. SlabOK'
  BY <1>6, <1>9, <1>10, <1>11, Zenon DEF SlabOK, FreeListMatchesStates
<1>13. \A p \in Pages : page_states_'[p] = IF p \in P THEN "FREE" ELSE page_states_[p]
  BY <1>2, Zenon DEF SlabOK, R
<1> QED
  BY <1>12, <1>13, Zenon

\* allocate_pages takes distinct free pages off the end of the free list.
LEMMA AllocatePagesFacts ==
  ASSUME SlabOK, NEW n \in Nat, n <= Len(free_list_), AllocatePages(Popped(n))
  PROVE  /\ SlabOK'
         /\ Popped(n) \in Seq(Pages)
         /\ DOMAIN Popped(n) = 1 .. n
         /\ Len(Popped(n)) = n
         /\ \A i, j \in 1 .. n : Popped(n)[i] = Popped(n)[j] => i = j
         /\ \A i \in 1 .. n : page_states_[Popped(n)[i]] = "FREE"
         /\ \A p \in Pages : page_states_'[p] =
              IF \E i \in 1 .. n : Popped(n)[i] = p THEN "ALLOCATED" ELSE page_states_[p]
<1> DEFINE m == Len(free_list_)
           pop == Popped(n)
<1>1. /\ free_list_ \in Seq(Pages)
      /\ m \in Nat
      /\ DOMAIN free_list_ = 1 .. m
      /\ free_list_ \in [1 .. m -> Pages]
  BY LenProperties, Zenon DEF SlabOK
<1>2. /\ \A i \in 1 .. m : page_states_[free_list_[i]] = "FREE"
      /\ \A i, j \in 1 .. m : free_list_[i] = free_list_[j] => i = j
      /\ \A p \in Pages : page_states_[p] = "FREE" => \E i \in 1 .. m : free_list_[i] = p
  BY <1>1, Zenon DEF SlabOK, FreeListMatchesStates
<1>3. pop = [i \in 1 .. n |-> free_list_[m - i + 1]]
  BY Zenon DEF Popped
<1>4. /\ free_list_' = SubSeq(free_list_, 1, m - Len(pop))
      /\ page_states_' = [p \in Pages |->
           IF \E i \in DOMAIN pop : pop[i] = p THEN "ALLOCATED" ELSE page_states_[p]]
  BY Zenon DEF AllocatePages
<1>5. n <= m
  BY Zenon
<1> HIDE DEF m, pop
<1>6. \A i \in 1 .. n : m - i + 1 \in 1 .. m
  BY <1>1, <1>5
<1>7. pop \in [1 .. n -> Pages]
  BY <1>1, <1>3, <1>6, Zenon
<1>8. pop \in Seq(Pages) /\ Len(pop) = n /\ DOMAIN pop = 1 .. n
  BY <1>7, IsASeq, LenProperties
<1>9. /\ free_list_' \in Seq(Pages)
      /\ DOMAIN free_list_' = 1 .. m - n
      /\ \A i \in 1 .. m - n : free_list_'[i] = free_list_[i]
  <2>1. m - n \in Nat /\ \A i \in 1 .. m - n : free_list_[i] \in Pages
    BY <1>1, <1>5
  <2> DEFINE s == SubSeq(free_list_, 1, m - n)
  <2>2. /\ s \in Seq(Pages)
        /\ Len(s) = IF 1 <= m - n THEN (m - n) - 1 + 1 ELSE 0
        /\ \A i \in 1 .. (m - n) - 1 + 1 : s[i] = free_list_[1 + i - 1]
    BY <2>1, SubSeqProperties
  <2>3. free_list_' = s
    BY <1>4, <1>8, Zenon
  <2> HIDE DEF s
  <2>4. Len(s) = m - n /\ \A i \in 1 .. m - n : s[i] = free_list_[i]
    BY <2>1, <2>2
  <2> QED
    BY <2>2, <2>3, <2>4, LenProperties, Zenon
<1>10. \A i, j \in 1 .. n : pop[i] = pop[j] => i = j
  <2> SUFFICES ASSUME NEW i \in 1 .. n, NEW j \in 1 .. n, pop[i] = pop[j]  PROVE i = j
    BY Zenon
  <2>1. free_list_[m - i + 1] = free_list_[m - j + 1]
    BY <1>3, Zenon
  <2>2. m - i + 1 = m - j + 1
    BY <2>1, <1>2, <1>6
  <2> QED  BY <2>2, <1>1
<1>11. \A i \in 1 .. n : page_states_[pop[i]] = "FREE"
  BY <1>2, <1>3, <1>6, Zenon
<1>12. page_states_' \in [Pages -> {"FREE", "ALLOCATED"}]
  BY <1>4, Zenon DEF SlabOK
<1>13. \A i, j \in 1 .. m - n : free_list_'[i] = free_list_'[j] => i = j
  <2>1. \A i \in 1 .. m - n : i \in 1 .. m
    BY <1>1
  <2> QED  BY <2>1, <1>2, <1>9, Zenon
<1>14. ASSUME NEW p \in Pages
       PROVE  page_states_'[p] = "FREE" <=> \E i \in 1 .. m - n : free_list_'[i] = p
  <2>1. CASE \E i \in 1 .. n : pop[i] = p
    <3>1. PICK i \in 1 .. n : pop[i] = p
      BY <2>1, Zenon
    <3>2. m - i + 1 \in 1 .. m /\ free_list_[m - i + 1] = p
      BY <3>1, <1>3, <1>6, Zenon
    <3>3. ASSUME NEW j \in 1 .. m - n, free_list_'[j] = p  PROVE FALSE
      <4>1. j \in 1 .. m /\ free_list_[j] = p
        BY <3>3, <1>1, <1>9
      <4>2. j = m - i + 1
        BY <4>1, <3>2, <1>2
      <4> QED  BY <4>2, <1>1, <3>3
    <3>4. page_states_'[p] = "ALLOCATED"
      BY <3>1, <1>4, <1>8, Zenon
    <3> QED  BY <3>3, <3>4, Zenon
  <2>2. CASE ~ \E i \in 1 .. n : pop[i] = p
    <3>1. page_states_'[p] = page_states_[p]
      BY <2>2, <1>4, <1>8, Zenon
    <3>2. ASSUME page_states_[p] = "FREE"  PROVE \E i \in 1 .. m - n : free_list_'[i] = p
      <4>1. PICK j \in 1 .. m : free_list_[j] = p
        BY <3>2, <1>2, Zenon
      <4>2. CASE j <= m - n
        BY <4>1, <4>2, <1>1, <1>9
      <4>3. CASE j > m - n
        <5>1. m - j + 1 \in 1 .. n /\ m - (m - j + 1) + 1 = j
          BY <4>3, <1>1
        <5>2. pop[m - j + 1] = free_list_[m - (m - j + 1) + 1]
          BY <5>1, <1>3, Zenon
        <5>3. pop[m - j + 1] = p
          BY <5>1, <5>2, <4>1, Zenon
        <5> QED  BY <5>1, <5>3, <2>2, Zenon
      <4> QED  BY <4>2, <4>3, <1>1
    <3>3. ASSUME NEW i \in 1 .. m - n, free_list_'[i] = p  PROVE page_states_[p] = "FREE"
      <4>1. i \in 1 .. m
        BY <1>1
      <4> QED  BY <4>1, <3>3, <1>2, <1>9, Zenon
    <3> QED  BY <3>1, <3>2, <3>3, Zenon
  <2> QED
    BY <2>1, <2>2, Zenon
<1>15. SlabOK'
  BY <1>9, <1>12, <1>13, <1>14, Zenon DEF SlabOK, FreeListMatchesStates
<1>16. \A p \in Pages : page_states_'[p] =
         IF \E i \in 1 .. n : pop[i] = p THEN "ALLOCATED" ELSE page_states_[p]
  BY <1>4, <1>8, Zenon
<1> QED
  BY <1>8, <1>10, <1>11, <1>15, <1>16, Zenon DEF pop

\* What allocate_pages and free_pages may rely on, and must keep.
PoolOK ==
  /\ free_list_ \in Seq(Pages)
  /\ page_states_ \in [Pages -> {"FREE", "ALLOCATED"}]
  /\ next_handle_ \in 1 .. MaxHandles + 1
  /\ DOMAIN allocations_ \subseteq 1 .. next_handle_ - 1
  /\ \A h \in DOMAIN allocations_ : allocations_[h] \in Allocation
  /\ PoolPartition
  /\ FullyBacked

\* The pages of an allocation are pages of the slab.
LEMMA PagesOfAllocation ==
  ASSUME NEW a \in Allocation
  PROVE  PageSet(a) \subseteq Pages
<1>1. a.pages \in Seq(Pages)
  BY Zenon DEF Allocation
<1>2. \A i \in DOMAIN a.pages : a.pages[i] \in Pages
  BY <1>1, LenProperties, Zenon
<1> QED  BY <1>2, Zenon DEF PageSet

LEMMA PagesOfPool ==
  ASSUME PoolOK
  PROVE  \A h \in DOMAIN allocations_ : PageSet(allocations_[h]) \subseteq Pages
BY PagesOfAllocation, Zenon DEF PoolOK

\* Giving back the pages of a set of handles, and forgetting the handles, keeps
\* the slab partitioned.
LEMMA ErasePreservesPool ==
  ASSUME PoolOK, NEW H \in SUBSET DOMAIN allocations_, NEW P,
         P = UNION {PageSet(allocations_[h]) : h \in H},
         FreePages(P), Erase(H), UNCHANGED next_handle_
  PROVE  PoolOK'
<1>1. SlabOK
  BY Zenon DEF PoolOK, PoolPartition, SlabOK
<1>2. \A h \in DOMAIN allocations_ : PageSet(allocations_[h]) \subseteq Pages
  BY PagesOfPool, Zenon
<1>3. P \in SUBSET Pages
  BY <1>2, Zenon
<1>4. /\ SlabOK'
      /\ \A p \in Pages : page_states_'[p] = IF p \in P THEN "FREE" ELSE page_states_[p]
  BY <1>1, <1>3, FreePagesFacts, Zenon
<1>5. /\ DOMAIN allocations_' = DOMAIN allocations_ \ H
      /\ \A h \in DOMAIN allocations_' : allocations_'[h] = allocations_[h]
  BY Zenon DEF Erase
<1>6. PagesHeldOnce'
  <2>1. /\ \A h \in DOMAIN allocations_' :
             \A i, j \in DOMAIN allocations_'[h].pages :
               allocations_'[h].pages[i] = allocations_'[h].pages[j] => i = j
    BY <1>5, Zenon DEF PoolOK, PoolPartition, PagesHeldOnce
  <2>2. \A h, k \in DOMAIN allocations_' :
          h # k => PageSet(allocations_'[h]) \cap PageSet(allocations_'[k]) = {}
    BY <1>5, Zenon DEF PoolOK, PoolPartition, PagesHeldOnce
  <2> QED
    BY <2>1, <2>2, Zenon DEF PagesHeldOnce, PageSet
<1>7. NoPageLost'
  <2> SUFFICES ASSUME NEW p \in Pages
               PROVE  page_states_'[p] = "ALLOCATED"
                        <=> \E h \in DOMAIN allocations_' : p \in PageSet(allocations_'[h])
    BY Zenon DEF NoPageLost, PageSet
  <2>1. page_states_[p] = "ALLOCATED"
          <=> \E h \in DOMAIN allocations_ : p \in PageSet(allocations_[h])
    BY Zenon DEF PoolOK, PoolPartition, NoPageLost
  <2>2. CASE p \in P
    <3>1. PICK k \in H : p \in PageSet(allocations_[k])
      BY <2>2, Zenon
    <3>2. \A h \in DOMAIN allocations_ \ H : p \notin PageSet(allocations_[h])
      BY <3>1, Zenon DEF PoolOK, PoolPartition, PagesHeldOnce
    <3> QED  BY <3>2, <2>2, <1>4, <1>5, Zenon
  <2>3. CASE p \notin P
    <3>1. \A h \in H : p \notin PageSet(allocations_[h])
      BY <2>3, Zenon
    <3> QED  BY <3>1, <2>1, <2>3, <1>4, <1>5, Zenon
  <2> QED
    BY <2>2, <2>3, Zenon
<1>8. FullyBacked'
  BY <1>5, Zenon DEF PoolOK, FullyBacked
<1>9. /\ next_handle_' \in 1 .. MaxHandles + 1
      /\ DOMAIN allocations_' \subseteq 1 .. next_handle_' - 1
      /\ \A h \in DOMAIN allocations_' : allocations_'[h] \in Allocation
  BY <1>5, Zenon DEF PoolOK
<1> QED
  BY <1>4, <1>6, <1>7, <1>8, <1>9, Zenon DEF PoolOK, PoolPartition, SlabOK, Allocation

\* Rounding a size up to whole pages, when it does not wrap, covers the size.
LEMMA PagesNeededCovers ==
  ASSUME NEW size \in 1 .. SizeMax, ~RoundingOverflows(size)
  PROVE  /\ PagesNeeded(size) \in Nat
         /\ size <= PagesNeeded(size) * PageSize
<1> DEFINE x == size + PageSize - 1
           q == x \div PageSize
<1>1. PageSize \in Nat \ {0} /\ SizeMax \in Nat
  BY MemorydAssumption, Zenon
<1>2. x \in Nat /\ x < SizeMax + 1
  BY <1>1 DEF RoundingOverflows
<1>3. x % (SizeMax + 1) = x
  BY <1>1, <1>2
<1>4. q \in Nat /\ x = PageSize * q + (x % PageSize) /\ x % PageSize \in 0 .. PageSize - 1
  BY <1>1, <1>2
<1>5. PagesNeeded(size) = q
  BY <1>3, Zenon DEF PagesNeeded
<1>6. size <= q * PageSize
  BY <1>1, <1>4
<1> QED
  BY <1>4, <1>5, <1>6, Zenon

\* A granted ALLOC moves free pages into one new allocation that they cover.
LEMMA AllocPreservesPool ==
  ASSUME PoolOK, NEW s \in Sessions, NEW size \in ReqSizes, AllocGrants(s, size)
  PROVE  PoolOK'
<1> DEFINE n == PagesNeeded(size)
           pop == Popped(n)
           new == next_handle_
<1>1. size \in 1 .. SizeMax /\ ~RoundingOverflows(size) /\ n <= Len(free_list_)
  <2>1. Len(free_list_) \in Nat
    BY LenProperties, Zenon DEF PoolOK
  <2>2. size \in 1 .. SizeMax /\ ~RoundingOverflows(size)
    BY MemorydAssumption DEF AllocGrants
  <2>3. n \in Nat
    BY <2>2, PagesNeededCovers, Zenon
  <2> QED  BY <2>1, <2>2, <2>3, Zenon DEF AllocGrants
<1>2. n \in Nat /\ size <= n * PageSize
  BY <1>1, PagesNeededCovers, Zenon
<1>3. SlabOK
  BY Zenon DEF PoolOK, PoolPartition, SlabOK
<1>4. AllocatePages(pop)
  BY Zenon DEF AllocGrants
<1>5. /\ allocations_' = [h \in DOMAIN allocations_ \cup {new} |->
            IF h = new THEN NewAllocation(s, size, pop) ELSE allocations_[h]]
      /\ next_handle_' = next_handle_ + 1
      /\ next_handle_ <= MaxHandles
  BY Zenon DEF AllocGrants
<1> HIDE DEF n
<1>6. /\ SlabOK'
      /\ pop \in Seq(Pages)
      /\ DOMAIN pop = 1 .. n
      /\ Len(pop) = n
      /\ \A i, j \in 1 .. n : pop[i] = pop[j] => i = j
      /\ \A i \in 1 .. n : page_states_[pop[i]] = "FREE"
      /\ \A p \in Pages : page_states_'[p] =
              IF \E i \in 1 .. n : pop[i] = p THEN "ALLOCATED" ELSE page_states_[p]
  BY <1>1, <1>2, <1>3, <1>4, AllocatePagesFacts, Zenon
<1> HIDE DEF pop
<1>7. new \in Nat /\ new \notin DOMAIN allocations_
  BY MemorydAssumption DEF PoolOK
<1>8. /\ DOMAIN allocations_' = DOMAIN allocations_ \cup {new}
      /\ allocations_'[new] = [total_size |-> size, pages |-> pop, owner_id |-> s]
      /\ \A h \in DOMAIN allocations_ : allocations_'[h] = allocations_[h]
  BY <1>5, <1>7, Zenon DEF NewAllocation
<1> HIDE DEF new
<1>9. \A h \in DOMAIN allocations_ : PageSet(allocations_'[h]) = PageSet(allocations_[h])
  BY <1>8, Zenon
<1>10. PageSet(allocations_'[new]) = {pop[i] : i \in 1 .. n}
  BY <1>6, <1>8 DEF PageSet
<1>11. \A h \in DOMAIN allocations_ :
         \A p \in PageSet(allocations_[h]) : p \in Pages /\ page_states_[p] = "ALLOCATED"
  <2>1. \A h \in DOMAIN allocations_ : PageSet(allocations_[h]) \subseteq Pages
    BY PagesOfPool, Zenon
  <2> QED  BY <2>1, Zenon DEF PoolOK, PoolPartition, NoPageLost
<1>12. \A h \in DOMAIN allocations_ :
         PageSet(allocations_'[new]) \cap PageSet(allocations_'[h]) = {}
  BY <1>6, <1>9, <1>10, <1>11
<1>13. PagesHeldOnce'
  <2>1. ASSUME NEW h \in DOMAIN allocations_',
               NEW i \in DOMAIN allocations_'[h].pages, NEW j \in DOMAIN allocations_'[h].pages,
               allocations_'[h].pages[i] = allocations_'[h].pages[j]
        PROVE  i = j
    <3>1. CASE h = new
      BY <3>1, <2>1, <1>6, <1>8
    <3>2. CASE h \in DOMAIN allocations_
      BY <3>2, <2>1, <1>8, Zenon DEF PoolOK, PoolPartition, PagesHeldOnce
    <3> QED  BY <3>1, <3>2, <1>8, Zenon
  <2>2. ASSUME NEW h \in DOMAIN allocations_', NEW k \in DOMAIN allocations_', h # k
        PROVE  PageSet(allocations_'[h]) \cap PageSet(allocations_'[k]) = {}
    <3>1. CASE h = new
      BY <3>1, <2>2, <1>8, <1>12, Zenon
    <3>2. CASE k = new
      BY <3>2, <2>2, <1>8, <1>12, Zenon
    <3>3. CASE h \in DOMAIN allocations_ /\ k \in DOMAIN allocations_
      BY <3>3, <2>2, <1>9, Zenon DEF PoolOK, PoolPartition, PagesHeldOnce
    <3> QED  BY <3>1, <3>2, <3>3, <1>8, Zenon
  <2> QED  BY <2>1, <2>2, Zenon DEF PagesHeldOnce, PageSet
<1>14. NoPageLost'
  <2> SUFFICES ASSUME NEW p \in Pages
               PROVE  page_states_'[p] = "ALLOCATED"
                        <=> \E h \in DOMAIN allocations_' : p \in PageSet(allocations_'[h])
    BY Zenon DEF NoPageLost, PageSet
  <2>1. page_states_[p] = "ALLOCATED"
          <=> \E h \in DOMAIN allocations_ : p \in PageSet(allocations_[h])
    BY Zenon DEF PoolOK, PoolPartition, NoPageLost
  <2>2. p \in PageSet(allocations_'[new]) <=> \E i \in 1 .. n : pop[i] = p
    BY <1>10, Zenon
  <2> QED
    BY <2>1, <2>2, <1>6, <1>8, <1>9, Zenon
<1>15. FullyBacked'
  BY <1>2, <1>6, <1>8 DEF PoolOK, FullyBacked
<1>16. \A h \in DOMAIN allocations_' : allocations_'[h] \in Allocation
  BY <1>1, <1>6, <1>8 DEF PoolOK, Allocation
<1>17. /\ next_handle_' \in 1 .. MaxHandles + 1
       /\ DOMAIN allocations_' \subseteq 1 .. next_handle_' - 1
  BY <1>5, <1>7, <1>8, MemorydAssumption DEF PoolOK, new
<1> QED
  BY <1>6, <1>13, <1>14, <1>15, <1>16, <1>17, Zenon DEF PoolOK, PoolPartition, SlabOK, Allocation

\* The rest of the invariant: the contents of the slab, the sockets, and the
\* owners of the allocations.
SessionsOK ==
  /\ server \in {"listening", "closed", "gone"}
  /\ session \in [Sessions -> SessionStates]
  /\ next_session_id_ \in 1 .. MaxSessions + 1
  /\ busy \in 0 .. MaxSessions
  /\ SessionsInOrder

BufferOK == buffer_ \in [Pages -> [Cells -> Cell]]

LEMMA InvariantParts ==
  /\ MemorydInv <=> PoolOK /\ BufferOK /\ SessionsOK /\ OwnedByLiveSession
  /\ MemorydInv' <=> PoolOK' /\ BufferOK' /\ SessionsOK' /\ OwnedByLiveSession'
BY Zenon DEF MemorydInv, TypeOK, PoolOK, BufferOK, SessionsOK

\* The daemon starts with every page in the free list.
LEMMA InitEstablishes == Init => MemorydInv
<1> SUFFICES ASSUME Init  PROVE PoolOK /\ BufferOK /\ SessionsOK /\ OwnedByLiveSession
  BY InvariantParts, Zenon
<1>1. /\ free_list_ = [i \in 1 .. TotalPages |-> TotalPages - i]
      /\ TotalPages \in Nat
  BY MemorydAssumption, Zenon DEF Init
<1>2. free_list_ \in [1 .. TotalPages -> Pages]
  BY <1>1 DEF Pages
<1>3. free_list_ \in Seq(Pages) /\ DOMAIN free_list_ = 1 .. TotalPages
  BY <1>1, <1>2, IsASeq
<1>4. page_states_ \in [Pages -> {"FREE", "ALLOCATED"}]
  BY Zenon DEF Init
<1>5. FreeListMatchesStates
  <2>1. \A i, j \in DOMAIN free_list_ : free_list_[i] = free_list_[j] => i = j
    BY <1>1, <1>3
  <2>2. ASSUME NEW p \in Pages  PROVE \E i \in DOMAIN free_list_ : free_list_[i] = p
    <3>1. TotalPages - p \in 1 .. TotalPages /\ TotalPages - (TotalPages - p) = p
      BY <1>1 DEF Pages
    <3> QED  BY <3>1, <1>1, <1>3, Zenon
  <2> QED  BY <2>1, <2>2, Zenon DEF FreeListMatchesStates, Init
<1>6. DOMAIN allocations_ = {}
  BY DEF Init
<1>7. PoolOK
  BY <1>3, <1>4, <1>5, <1>6, MemorydAssumption
     DEF Init, PoolOK, PoolPartition, PagesHeldOnce, NoPageLost, FullyBacked
<1>8. BufferOK
  BY Zenon DEF Init, BufferOK, Cell
<1>9. SessionsOK
  BY MemorydAssumption DEF Init, SessionsOK, SessionsInOrder, Sessions, SessionStates
<1> QED
  BY <1>6, <1>7, <1>8, <1>9, Zenon DEF OwnedByLiveSession

\* A step that leaves the allocator and the tracker alone keeps their part.
LEMMA PoolUnchanged ==
  ASSUME PoolOK, BufferOK, UNCHANGED <<free_list_, page_states_>>, UNCHANGED trackerVars
  PROVE  PoolOK'
<1>1. /\ free_list_' = free_list_ /\ page_states_' = page_states_
      /\ allocations_' = allocations_ /\ next_handle_' = next_handle_
  BY Zenon DEF trackerVars
<1>2. FreeListMatchesStates' /\ NoPageLost'
  BY <1>1 DEF PoolOK, PoolPartition, FreeListMatchesStates, NoPageLost, PageSet
<1>3. PagesHeldOnce'
  <2>1. PagesHeldOnce
    BY Zenon DEF PoolOK, PoolPartition
  <2>2. \A h, k \in DOMAIN allocations_' :
          h # k => PageSet(allocations_'[h]) \cap PageSet(allocations_'[k]) = {}
    BY <1>1, <2>1, Zenon DEF PagesHeldOnce
  <2>3. \A h \in DOMAIN allocations_' : \A i, j \in DOMAIN allocations_'[h].pages :
          allocations_'[h].pages[i] = allocations_'[h].pages[j] => i = j
    BY <1>1, <2>1 DEF PagesHeldOnce
  <2> QED
    BY <2>2, <2>3, Zenon DEF PagesHeldOnce, PageSet
<1>4. FullyBacked'
  BY <1>1, Zenon DEF PoolOK, FullyBacked
<1> QED
  BY <1>1, <1>2, <1>3, <1>4, Zenon DEF PoolOK, PoolPartition, Allocation

\* No request gives memory to a session that is gone or breaks the pool.
LEMMA RequestPreserves ==
  ASSUME MemorydInv, NEW s \in Sessions, HandleRequest(s)
  PROVE  MemorydInv'
<1>1. PoolOK /\ BufferOK /\ SessionsOK /\ OwnedByLiveSession
  BY InvariantParts, Zenon
<1>2. busy = s /\ UNCHANGED socketVars
  BY Zenon DEF HandleRequest
<1>3. SessionsOK'
  BY <1>1, <1>2, Zenon DEF SessionsOK, SessionsInOrder, socketVars
<1>4. session' = session /\ session[s] \in {"open", "eof", "closing"}
  BY <1>1, <1>2, MemorydAssumption DEF SessionsOK, SessionsInOrder, socketVars, Sessions
<1>5. ASSUME UNCHANGED <<free_list_, page_states_, trackerVars>>, BufferOK'
      PROVE  MemorydInv'
  <2>1. PoolOK'
    BY <1>1, <1>5, PoolUnchanged, Zenon
  <2>2. OwnedByLiveSession'
    BY <1>1, <1>4, <1>5, Zenon DEF OwnedByLiveSession, trackerVars
  <2> QED  BY <1>3, <1>5, <2>1, <2>2, InvariantParts, Zenon
<1>6. ASSUME UNCHANGED <<slabVars, trackerVars>>
      PROVE  MemorydInv'
  BY <1>1, <1>5, <1>6, Zenon DEF slabVars, BufferOK
<1>7. ASSUME NEW size \in ReqSizes, AllocGrants(s, size)
      PROVE  MemorydInv'
  <2>1. PoolOK'
    BY <1>1, <1>7, AllocPreservesPool, Zenon
  <2>2. BufferOK'
    BY <1>1, <1>7, Zenon DEF AllocGrants, AllocatePages, BufferOK, Cell
  <2>3. OwnedByLiveSession'
    BY <1>1, <1>4, <1>7, Zenon DEF AllocGrants, NewAllocation, OwnedByLiveSession
  <2> QED  BY <1>3, <2>1, <2>2, <2>3, InvariantParts, Zenon
<1>8. ASSUME NEW h \in NamedHandles, Free(s, h)
      PROVE  MemorydInv'
  <2>1. CASE CheckOwnership(h, s) # "OK"
    BY <1>6, <1>8, <2>1, Zenon DEF Free, Refused
  <2>2. CASE CheckOwnership(h, s) = "OK"
    <3>1. h \in DOMAIN allocations_
      BY <2>2, Zenon DEF CheckOwnership
    <3>2. /\ FreePages(PageSet(allocations_[h]))
          /\ Erase({h})
          /\ UNCHANGED next_handle_
      BY <1>8, <2>2, Zenon DEF Free
    <3>3. PageSet(allocations_[h]) = UNION {PageSet(allocations_[k]) : k \in {h}}
      BY Zenon
    <3>4. PoolOK'
      BY <1>1, <3>1, <3>2, <3>3, ErasePreservesPool, Zenon
    <3>5. BufferOK'
      BY <1>1, <3>2, Zenon DEF FreePages, BufferOK
    <3>6. OwnedByLiveSession'
      BY <1>1, <1>4, <3>2, Zenon DEF Erase, OwnedByLiveSession
    <3> QED  BY <1>3, <3>4, <3>5, <3>6, InvariantParts, Zenon
  <2> QED  BY <2>1, <2>2, Zenon
<1>9. ASSUME NEW h \in NamedHandles, NEW size \in ReqSizes, NEW offset \in ReqOffsets,
             NEW v \in Values, Write(s, h, offset, size, v)
      PROVE  MemorydInv'
  <2>1. CASE AccessStatus(s, h, offset, size) # "OK"
    BY <1>6, <1>9, <2>1, Zenon DEF Write, Refused
  <2>2. CASE AccessStatus(s, h, offset, size) = "OK"
    <3>1. BufferOK'
      BY <1>1, <1>9, <2>2 DEF Write, BufferOK, Cell
    <3> QED  BY <1>5, <1>9, <2>2, <3>1, Zenon DEF Write
  <2> QED  BY <2>1, <2>2, Zenon
<1>10. \/ \E size \in ReqSizes : AllocGrants(s, size)
       \/ \E h \in NamedHandles : Free(s, h)
       \/ \E h \in NamedHandles, size \in ReqSizes, offset \in ReqOffsets, v \in Values :
            Write(s, h, offset, size, v)
       \/ UNCHANGED <<slabVars, trackerVars>>
  BY Zenon DEF HandleRequest, AllocZero, AllocFails, Refused, Other, WriteUnusable, Read
<1> QED
  BY <1>6, <1>7, <1>8, <1>9, <1>10, Zenon

\* Every step of the daemon preserves the invariant.
LEMMA NextPreserves == MemorydInv /\ [Next]_vars => MemorydInv'
<1> SUFFICES ASSUME MemorydInv, [Next]_vars  PROVE MemorydInv'
  BY Zenon
<1>1. PoolOK /\ BufferOK /\ SessionsOK /\ OwnedByLiveSession
  BY InvariantParts, Zenon
<1>2. ASSUME UNCHANGED <<slabVars, trackerVars>>
      PROVE  PoolOK' /\ BufferOK'
  BY <1>1, <1>2, PoolUnchanged, Zenon DEF slabVars, BufferOK
<1>3. CASE OnConnection
  <2>1. SessionsOK'
    BY <1>1, <1>3, MemorydAssumption
       DEF OnConnection, SessionsOK, SessionsInOrder, Sessions, SessionStates
  <2>2. OwnedByLiveSession'
    BY <1>1, <1>3, MemorydAssumption, Zenon
       DEF OnConnection, SessionsOK, SessionsInOrder, OwnedByLiveSession, trackerVars,
           PoolOK, Allocation, Sessions
  <2> QED  BY <1>2, <1>3, <2>1, <2>2, InvariantParts, Zenon DEF OnConnection
<1>4. CASE StopAsync
  <2>1. SessionsOK'
    BY <1>1, <1>4, MemorydAssumption, Zenon
       DEF StopAsync, SessionsOK, SessionsInOrder, Sessions, SessionStates
  <2>2. OwnedByLiveSession'
    BY <1>1, <1>4, Zenon
       DEF StopAsync, SessionsOK, OwnedByLiveSession, trackerVars, PoolOK, Allocation
  <2> QED  BY <1>2, <1>4, <2>1, <2>2, InvariantParts, Zenon DEF StopAsync
<1>5. ASSUME NEW s \in Sessions, PeerCloses(s) \/ MalformedFrame(s) \/ OnReadError(s)
      PROVE  MemorydInv'
  <2>1. SessionsOK'
    BY <1>1, <1>5, MemorydAssumption
       DEF PeerCloses, MalformedFrame, OnReadError, SessionsOK, SessionsInOrder, Sessions,
           SessionStates
  <2>2. session' = session \/ (\E x \in {"eof", "closing"} : session' = [session EXCEPT ![s] = x])
    BY <1>5, Zenon DEF PeerCloses, MalformedFrame, OnReadError
  <2>3. \A z \in Sessions : session[z] \in {"open", "eof", "closing"}
                             => session'[z] \in {"open", "eof", "closing"}
    BY <1>1, <2>2, Zenon DEF SessionsOK
  <2>4. allocations_' = allocations_
    BY <1>5, Zenon DEF PeerCloses, MalformedFrame, OnReadError, trackerVars
  <2>5. OwnedByLiveSession'
    BY <1>1, <2>3, <2>4, Zenon DEF OwnedByLiveSession, PoolOK, Allocation
  <2> QED  BY <1>2, <1>5, <2>1, <2>5, InvariantParts, Zenon DEF PeerCloses, MalformedFrame, OnReadError
<1>6. ASSUME NEW s \in Sessions, OnRead(s) \/ EndRead(s)
      PROVE  MemorydInv'
  <2>1. SessionsOK'
    BY <1>1, <1>6, MemorydAssumption DEF OnRead, EndRead, SessionsOK, SessionsInOrder, Sessions
  <2>2. OwnedByLiveSession'
    BY <1>1, <1>6, Zenon DEF OnRead, EndRead, OwnedByLiveSession, trackerVars
  <2> QED  BY <1>2, <1>6, <2>1, <2>2, InvariantParts, Zenon DEF OnRead, EndRead
<1>7. ASSUME NEW s \in Sessions, OnCloseHandle(s)
      PROVE  MemorydInv'
  <2>1. Owned(s) \in SUBSET DOMAIN allocations_
    BY Zenon DEF Owned
  <2>2. PoolOK'
    BY <1>1, <1>7, <2>1, ErasePreservesPool, Zenon DEF OnCloseHandle
  <2>3. BufferOK'
    BY <1>1, <1>7, Zenon DEF OnCloseHandle, FreePages, BufferOK
  <2>4. SessionsOK'
    BY <1>1, <1>7, MemorydAssumption, Zenon
       DEF OnCloseHandle, SessionsOK, SessionsInOrder, Sessions, SessionStates
  <2>5. OwnedByLiveSession'
    BY <1>1, <1>7, Zenon DEF OnCloseHandle, Erase, Owned, SessionsOK, OwnedByLiveSession,
                      PoolOK, Allocation
  <2> QED  BY <2>2, <2>3, <2>4, <2>5, InvariantParts, Zenon
<1>8. CASE UNCHANGED vars
  <2>1. SessionsOK' /\ OwnedByLiveSession'
    BY <1>1, <1>8, Zenon DEF vars, SessionsOK, SessionsInOrder, OwnedByLiveSession
  <2> QED  BY <1>2, <1>8, <2>1, InvariantParts, Zenon DEF vars, slabVars, trackerVars
<1> QED
  BY <1>3, <1>4, <1>5, <1>6, <1>7, <1>8, RequestPreserves, Zenon DEF Next

\* memoryd's invariant holds in every reachable state.
THEOREM MemorydSafe == Spec => []MemorydInv
BY InitEstablishes, NextPreserves, PTL DEF Spec

\* Every variable of memoryd keeps its type: handles, page vectors, owners and
\* the free list stay what PageTracker and SlabAllocator take them for.
THEOREM TypeCorrect == Spec => []TypeOK
<1>1. MemorydInv => TypeOK
  BY Zenon DEF MemorydInv
<1> QED
  BY <1>1, MemorydSafe, PTL

\* allocate_pages and free_pages never lose a page, nor hand one out twice.
THEOREM PagesPartitioned == Spec => []PoolPartition
<1>1. MemorydInv => PoolPartition
  BY Zenon DEF MemorydInv
<1> QED
  BY <1>1, MemorydSafe, PTL

\* No allocation is larger than the pages behind it: read and write stay inside
\* the page vector for every size a request can ask for.
THEOREM AllocationsBacked == Spec => []FullyBacked
<1>1. MemorydInv => FullyBacked
  BY Zenon DEF MemorydInv
<1> QED
  BY <1>1, MemorydSafe, PTL

\* A deleted session owns nothing.
THEOREM NoOrphans == Spec => []OwnedByLiveSession
<1>1. MemorydInv => OwnedByLiveSession
  BY Zenon DEF MemorydInv
<1> QED
  BY <1>1, MemorydSafe, PTL

\* The figure GET_MEMORY_STATS derives from the free list alone is the number of
\* cells in pages that handles hold.
THEOREM StatsAreAccurate == Spec => []StatsMatchAllocations
<1>1. ASSUME MemorydInv  PROVE StatsMatchAllocations
  <2> DEFINE A == UNION {PageSet(allocations_[h]) : h \in DOMAIN allocations_}
             F == {p \in Pages : page_states_[p] = "FREE"}
             m == Len(free_list_)
  <2>1. free_list_ \in Seq(Pages) /\ m \in Nat /\ DOMAIN free_list_ = 1 .. m
    BY <1>1, LenProperties, Zenon DEF MemorydInv, TypeOK
  <2>2. TotalPages \in Nat /\ PageSize \in Nat
    BY MemorydAssumption, Zenon
  <2>3. IsFiniteSet(Pages) /\ Cardinality(Pages) = TotalPages
    <3>1. TotalPages - 1 \in Int /\ 0 \in Int
      BY <2>2
    <3> QED  BY <3>1, <2>2, FS_Interval, MemorydAssumption DEF Pages
  <2>4. free_list_ \in Bijection(1 .. m, F)
    <3>1. free_list_ \in [1 .. m -> F]
      BY <1>1, <2>1, LenProperties DEF MemorydInv, PoolPartition, FreeListMatchesStates
    <3>2. \A i, j \in 1 .. m : free_list_[i] = free_list_[j] => i = j
      BY <1>1, <2>1, Zenon DEF MemorydInv, PoolPartition, FreeListMatchesStates
    <3>3. \A p \in F : \E i \in 1 .. m : free_list_[i] = p
      BY <1>1, <2>1, Zenon DEF MemorydInv, PoolPartition, FreeListMatchesStates
    <3> HIDE DEF F, m
    <3> QED  BY <3>1, <3>2, <3>3, <2>1, Zenon DEF Bijection, Injection, Surjection, IsInjective
  <2>5. IsFiniteSet(1 .. m) /\ Cardinality(1 .. m) = m
    <3>1. 1 \in Int /\ m \in Int
      BY <2>1
    <3> HIDE DEF m
    <3> QED  BY <3>1, <2>1, FS_Interval
  <2>6. Cardinality(F) = m
    <3> HIDE DEF F, m
    <3> QED  BY <2>4, <2>5, FS_Bijection, Zenon DEF ExistsBijection
  <2>7. A = Pages \ F
    <3>1. \A h \in DOMAIN allocations_ : PageSet(allocations_[h]) \subseteq Pages
      BY <1>1, LenProperties DEF MemorydInv, TypeOK, PageSet, Allocation
    <3>2. \A p \in Pages : page_states_[p] = "ALLOCATED"
            <=> \E h \in DOMAIN allocations_ : p \in PageSet(allocations_[h])
      BY <1>1, Zenon DEF MemorydInv, PoolPartition, NoPageLost
    <3>3. \A p \in Pages : page_states_[p] \in {"FREE", "ALLOCATED"}
      BY <1>1, Zenon DEF MemorydInv, TypeOK
    <3> QED  BY <3>1, <3>2, <3>3, Zenon
  <2>8. Cardinality(A) = TotalPages - m
    <3>1. F \subseteq Pages
      BY Zenon
    <3>2. Pages \cap F = F
      BY <3>1, Zenon
    <3> HIDE DEF A, F, m
    <3> QED  BY <3>2, <2>3, <2>6, <2>7, FS_Difference
  <2>9. MemoryStats.used_bytes = TotalPages * PageSize - m * PageSize
    BY Zenon DEF MemoryStats
  <2>10. PageSize * Cardinality(A) = TotalPages * PageSize - m * PageSize
    <3> HIDE DEF A, m
    <3> QED  BY <2>1, <2>2, <2>8
  <2> QED
    BY <2>9, <2>10, Zenon DEF StatsMatchAllocations
<1> QED
  BY <1>1, MemorydSafe, PTL
-----------------------------------------------------------------------------
(***************************************************************************)
(* memoryd implements the pool of private blocks of module MemoryPool.     *)
(***************************************************************************)
\* What the division by the page size gives.
LEMMA DivMod ==
  ASSUME NEW c \in Nat, NEW k \in Nat \ {0}
  PROVE  /\ c \div k \in Nat
         /\ c = k * (c \div k) + (c % k)
         /\ c % k \in 0 .. k - 1
OBVIOUS

\* A cell below n pages is in one of the first n.
LEMMA BelowQuotient ==
  ASSUME NEW k \in Nat \ {0}, NEW q \in Nat, NEW n \in Nat, NEW r \in 0 .. k - 1,
         k * q + r < n * k
  PROVE  q < n
<1> SUFFICES ASSUME ~ (q < n)  PROVE FALSE
  BY Zenon
<1> DEFINE d == q - n
<1>1. d \in Nat /\ q = n + d
  OBVIOUS
<1> HIDE DEF d
<1>2. k * q = n * k + k * d
  BY <1>1
<1> DEFINE x == k * q
           y == n * k
           z == k * d
<1>3. x \in Nat /\ y \in Nat /\ z \in Nat /\ x = y + z /\ x + r < y /\ r \in Nat
  BY <1>1, <1>2
<1> HIDE DEF x, y, z
<1> QED  BY <1>3

\* The index and the offset that read and write compute for a cell below
\* total_size stay inside the page vector and inside the page.
LEMMA CellOfAllocation ==
  ASSUME NEW a \in Allocation, a.total_size <= Len(a.pages) * PageSize,
         NEW c \in 0 .. a.total_size - 1
  PROVE  /\ (c \div PageSize) + 1 \in DOMAIN a.pages
         /\ PageOf(a, c) \in PageSet(a)
         /\ PageOf(a, c) \in Pages
         /\ OffsetInPage(c) \in Cells
<1> DEFINE q == c \div PageSize
           n == Len(a.pages)
<1>1. /\ a.pages \in Seq(Pages) /\ n \in Nat /\ DOMAIN a.pages = 1 .. n
      /\ a.total_size \in Nat
  BY MemorydAssumption, LenProperties DEF Allocation
<1>2. PageSize \in Nat \ {0} /\ c \in Nat /\ c < n * PageSize
  BY <1>1, MemorydAssumption
<1> HIDE DEF n
<1>3. /\ q \in Nat /\ c = PageSize * q + (c % PageSize)
      /\ c % PageSize \in 0 .. PageSize - 1
  BY <1>2, DivMod, Zenon
<1> HIDE DEF q
<1>4. q < n
  <2>1. PageSize * q + (c % PageSize) < n * PageSize
    BY <1>2, <1>3, Zenon
  <2> QED  BY <1>1, <1>2, <1>3, <2>1, BelowQuotient, Zenon
<1>5. q + 1 \in DOMAIN a.pages
  BY <1>1, <1>3, <1>4
<1>6. a.pages[q + 1] \in PageSet(a) /\ a.pages[q + 1] \in Pages
  BY <1>1, <1>5 DEF PageSet
<1> QED
  BY <1>3, <1>5, <1>6, Zenon DEF q, PageOf, OffsetInPage, Cells

\* It is so for every allocation the daemon holds.
LEMMA CellInPage ==
  ASSUME PoolOK, NEW h \in DOMAIN allocations_,
         NEW c \in 0 .. allocations_[h].total_size - 1
  PROVE  /\ (c \div PageSize) + 1 \in DOMAIN allocations_[h].pages
         /\ PageOf(allocations_[h], c) \in PageSet(allocations_[h])
         /\ PageOf(allocations_[h], c) \in Pages
         /\ OffsetInPage(c) \in Cells
BY CellOfAllocation, Zenon DEF PoolOK, FullyBacked

\* Two cells of one allocation are kept in two places.
LEMMA CellsApart ==
  ASSUME PoolOK, NEW h \in DOMAIN allocations_,
         NEW c \in 0 .. allocations_[h].total_size - 1,
         NEW d \in 0 .. allocations_[h].total_size - 1,
         PageOf(allocations_[h], c) = PageOf(allocations_[h], d),
         OffsetInPage(c) = OffsetInPage(d)
  PROVE  c = d
<1>1. (c \div PageSize) + 1 = (d \div PageSize) + 1
  BY CellInPage DEF PoolOK, PoolPartition, PagesHeldOnce, PageOf
<1>2. PageSize \in Nat \ {0} /\ c \in Nat /\ d \in Nat
  BY MemorydAssumption DEF PoolOK, Allocation
<1>3. /\ c \div PageSize \in Nat /\ d \div PageSize \in Nat
      /\ c = PageSize * (c \div PageSize) + (c % PageSize)
      /\ d = PageSize * (d \div PageSize) + (d % PageSize)
  BY <1>2, DivMod, Zenon
<1>4. c \div PageSize = d \div PageSize
  BY <1>1, <1>3
<1> QED
  BY <1>3, <1>4, Zenon DEF OffsetInPage

\* The blocks of the pool are the allocations, with the contents of their pages.
LEMMA BlockFacts ==
  /\ DOMAIN Blocks = DOMAIN allocations_
  /\ \A h \in DOMAIN allocations_ :
       Blocks[h] = [owner |-> allocations_[h].owner_id,
                    data |-> Contents(allocations_[h], buffer_)]
  /\ Blocks' = [h \in DOMAIN allocations_' |->
                  [owner |-> allocations_'[h].owner_id,
                   data |-> Contents(allocations_'[h], buffer_')]]
BY Zenon DEF Blocks, Contents

LEMMA BlockData ==
  \A h \in DOMAIN allocations_ : Blocks[h].data = Contents(allocations_[h], buffer_)
BY Zenon DEF Blocks, Contents

\* A step that leaves the cells of its pages alone leaves a block alone.
LEMMA ContentsKept ==
  ASSUME PoolOK, NEW h \in DOMAIN allocations_,
         \A p \in PageSet(allocations_[h]) : \A o \in Cells :
           buffer_'[p][o] = buffer_[p][o]
  PROVE  Contents(allocations_[h], buffer_') = Contents(allocations_[h], buffer_)
BY CellInPage, Zenon DEF Contents

\* A step that changes neither the slab's contents nor the tracker, and whose
\* answer the pool allows, is a step of the pool.
LEMMA AnswerOnly ==
  ASSUME NEW s \in Sessions, UNCHANGED <<slabVars, trackerVars>>,
         \/ Pool!Refuse(s) \/ Pool!Acknowledge(s) \/ Pool!Fetch(s)
         \/ UNCHANGED reply
  PROVE  [Pool!PoolNext]_(Pool!poolVars)
<1>1. UNCHANGED <<Blocks, 1 .. next_handle_ - 1>>
  BY Zenon DEF slabVars, trackerVars, Blocks, Contents
<1>2. CASE UNCHANGED reply
  BY <1>1, <1>2, Zenon DEF Pool!poolVars
<1>3. CASE Pool!Refuse(s) \/ Pool!Acknowledge(s) \/ Pool!Fetch(s)
  BY <1>1, <1>3, Zenon DEF Pool!PoolNext
<1> QED
  BY <1>2, <1>3, Zenon

\* A refusal leaves every block alone, and says INVALID_HANDLE or
\* PERMISSION_DENIED only of a handle of which it is true.
LEMMA RefusalIsRefuse ==
  ASSUME NEW s \in Sessions, NEW op, NEW h, NEW size, NEW status \in Statuses \ {"OK"},
         status = "INVALID_HANDLE" => h \notin DOMAIN allocations_,
         status = "PERMISSION_DENIED" =>
           h \in DOMAIN allocations_ /\ allocations_[h].owner_id # s,
         Refused(s, op, h, size, status)
  PROVE  [Pool!PoolNext]_(Pool!poolVars)
<1>1. CASE session[s] = "closing"
  BY <1>1, AnswerOnly, Zenon DEF Refused, Respond
<1>2. CASE session[s] # "closing"
  <2>1. /\ reply'.to = s /\ reply'.status = status /\ reply'.handle = h
        /\ reply'.data = <<>>
    BY <1>2, Zenon DEF Refused, Respond
  <2>2. Pool!Refuse(s)
    BY <2>1, BlockFacts DEF Pool!Refuse, Pool!Owns
  <2> QED  BY <2>2, AnswerOnly, Zenon DEF Refused
<1> QED
  BY <1>1, <1>2, Zenon

\* What check_ownership refuses, the pool refuses.
LEMMA OwnershipFacts ==
  ASSUME PoolOK, NEW s \in Sessions, NEW h
  PROVE  /\ CheckOwnership(h, s) \in {"OK", "INVALID_HANDLE", "PERMISSION_DENIED"}
         /\ CheckOwnership(h, s) = "INVALID_HANDLE" => h \notin DOMAIN allocations_
         /\ CheckOwnership(h, s) = "PERMISSION_DENIED" =>
              h \in DOMAIN allocations_ /\ allocations_[h].owner_id # s
         /\ CheckOwnership(h, s) = "OK" =>
              h \in DOMAIN allocations_ /\ allocations_[h].owner_id = s
BY MemorydAssumption DEF CheckOwnership, PoolOK, Allocation, Sessions

\* A request for nothing, or a PING, is acknowledged.
LEMMA AcknowledgementIsAcknowledge ==
  ASSUME NEW s \in Sessions, NEW op, NEW h, NEW size,
         op = "PING" \/ (op \in {"ALLOC", "WRITE", "READ"} /\ size = 0),
         Respond(s, op, h, size, "OK", <<>>), UNCHANGED <<slabVars, trackerVars>>
  PROVE  [Pool!PoolNext]_(Pool!poolVars)
<1>1. CASE session[s] = "closing"
  BY <1>1, AnswerOnly, Zenon DEF Respond
<1>2. CASE session[s] # "closing"
  <2>1. Pool!Acknowledge(s)
    BY <1>2, Zenon DEF Respond, Pool!Acknowledge
  <2> QED  BY <2>1, AnswerOnly, Zenon
<1> QED
  BY <1>1, <1>2, Zenon

\* An answer that changes blocks reaches the client or is dropped.
LEMMA AnswerFacts ==
  ASSUME NEW s, NEW op, NEW h, NEW size, Respond(s, op, h, size, "OK", <<>>)
  PROVE  Pool!Answer(s, op, h, size)
BY Zenon DEF Respond, Pool!Answer

\* A granted ALLOC creates a block of zeros under a handle never used before, and
\* changes no other block: the pages it clears were in nobody's hands.
LEMMA AllocIsGrant ==
  ASSUME PoolOK, BufferOK, NEW s \in Sessions, NEW size \in ReqSizes,
         AllocGrants(s, size)
  PROVE  [Pool!PoolNext]_(Pool!poolVars)
<1> DEFINE n == PagesNeeded(size)
           pop == Popped(n)
           new == next_handle_
           zeros == [c \in 0 .. size - 1 |-> Zero]
<1>1. size \in 1 .. SizeMax /\ ~RoundingOverflows(size) /\ n <= Len(free_list_)
  <2>1. Len(free_list_) \in Nat
    BY LenProperties, Zenon DEF PoolOK
  <2>2. size \in 1 .. SizeMax /\ ~RoundingOverflows(size)
    BY MemorydAssumption DEF AllocGrants
  <2>3. n \in Nat
    BY <2>2, PagesNeededCovers, Zenon
  <2> QED  BY <2>1, <2>2, <2>3, Zenon DEF AllocGrants
<1>2. n \in Nat
  BY <1>1, PagesNeededCovers, Zenon
<1>3. /\ AllocatePages(pop)
      /\ allocations_' = [h \in DOMAIN allocations_ \cup {new} |->
            IF h = new THEN NewAllocation(s, size, pop) ELSE allocations_[h]]
      /\ next_handle_' = next_handle_ + 1
      /\ next_handle_ <= MaxHandles
      /\ Respond(s, "ALLOC", new, size, "OK", <<>>)
  BY Zenon DEF AllocGrants
<1>4. SlabOK
  BY Zenon DEF PoolOK, PoolPartition, SlabOK
<1> HIDE DEF n
<1>5. DOMAIN pop = 1 .. n /\ \A i \in 1 .. n : page_states_[pop[i]] = "FREE"
  BY <1>1, <1>2, <1>3, <1>4, AllocatePagesFacts, Zenon
<1> HIDE DEF pop
<1>6. buffer_' = [p \in Pages |->
         IF \E i \in DOMAIN pop : pop[i] = p THEN [o \in Cells |-> Zero] ELSE buffer_[p]]
  BY <1>3, Zenon DEF AllocatePages
<1>7. new \in Nat /\ new \notin DOMAIN allocations_
  BY MemorydAssumption DEF PoolOK
<1>8. /\ DOMAIN allocations_' = DOMAIN allocations_ \cup {new}
      /\ allocations_'[new] = [total_size |-> size, pages |-> pop, owner_id |-> s]
      /\ \A h \in DOMAIN allocations_ : allocations_'[h] = allocations_[h]
  BY <1>3, <1>7, Zenon DEF NewAllocation
<1>9. ASSUME NEW h \in DOMAIN allocations_
      PROVE  Contents(allocations_'[h], buffer_') = Contents(allocations_[h], buffer_)
  <2>1. \A p \in PageSet(allocations_[h]) : p \in Pages /\ page_states_[p] = "ALLOCATED"
    <3>1. PageSet(allocations_[h]) \subseteq Pages
      BY PagesOfPool, Zenon
    <3> QED  BY <3>1, Zenon DEF PoolOK, PoolPartition, NoPageLost
  <2>2. \A p \in PageSet(allocations_[h]) : buffer_'[p] = buffer_[p]
    BY <1>5, <1>6, <2>1, Zenon
  <2> QED  BY <1>8, <2>2, ContentsKept, Zenon
<1>10. Contents(allocations_'[new], buffer_') = zeros
  <2>1. PoolOK'
    BY AllocPreservesPool, Zenon
  <2>2. ASSUME NEW c \in 0 .. size - 1
        PROVE  buffer_'[PageOf(allocations_'[new], c)][OffsetInPage(c)] = Zero
    <3> DEFINE p == PageOf(allocations_'[new], c)
    <3>1. c \in 0 .. allocations_'[new].total_size - 1
      BY <1>8
    <3>2. /\ (c \div PageSize) + 1 \in DOMAIN allocations_'[new].pages
          /\ p \in Pages /\ OffsetInPage(c) \in Cells
      BY <1>8, <2>1, <3>1, CellOfAllocation, Zenon DEF PoolOK, FullyBacked
    <3>3. \E i \in DOMAIN pop : pop[i] = p
      BY <1>8, <3>2 DEF PageOf
    <3> HIDE DEF p
    <3>4. buffer_'[p] = [o \in Cells |-> Zero]
      BY <1>6, <3>2, <3>3, Zenon
    <3>5. buffer_'[p][OffsetInPage(c)] = Zero
      BY <3>2, <3>4, Zenon
    <3> QED  BY <3>5, Zenon DEF p
  <2> QED  BY <1>8, <2>2, SMTT(30) DEF Contents
<1> HIDE DEF zeros
<1>11. Blocks' = [k \in DOMAIN Blocks \cup {new} |->
                    IF k = new THEN [owner |-> s, data |-> zeros] ELSE Blocks[k]]
  <2> DEFINE B(k) == [owner |-> allocations_'[k].owner_id,
                      data |-> Contents(allocations_'[k], buffer_')]
  <2>1. B(new) = [owner |-> s, data |-> zeros]
    BY <1>8, <1>10, SMTT(30)
  <2>2. \A k \in DOMAIN allocations_ : B(k) = Blocks[k]
    BY <1>8, <1>9, BlockFacts, Zenon
  <2>3. Blocks' = [k \in DOMAIN allocations_ \cup {new} |-> B(k)]
    BY <1>8, BlockFacts, Zenon
  <2>4. DOMAIN Blocks = DOMAIN allocations_
    BY BlockFacts, Zenon
  <2> HIDE DEF B
  <2> QED  BY <2>1, <2>2, <2>3, <2>4, Zenon
<1>12. /\ new \in Handles /\ new \notin 1 .. next_handle_ - 1
       /\ 1 .. next_handle_' - 1 = (1 .. next_handle_ - 1) \cup {new}
  BY <1>3, MemorydAssumption, SMTT(30) DEF PoolOK, Handles
<1>13. Pool!Grant(s, new, size)
  BY <1>1, <1>3, <1>11, <1>12, AnswerFacts, SMTT(30) DEF Pool!Grant, zeros
<1> HIDE DEF new
<1> QED
  BY <1>12, <1>13, Zenon DEF Pool!PoolNext

\* Forgetting handles removes their blocks and touches no other.
LEMMA EraseIsWithout ==
  ASSUME NEW H \in SUBSET DOMAIN allocations_, Erase(H), UNCHANGED buffer_
  PROVE  Blocks' = Pool!Without(H)
<1>1. /\ DOMAIN allocations_' = DOMAIN allocations_ \ H
      /\ \A k \in DOMAIN allocations_ \ H : allocations_'[k] = allocations_[k]
  BY Zenon DEF Erase
<1>2. Blocks' = [k \in DOMAIN allocations_ \ H |->
                   [owner |-> allocations_'[k].owner_id,
                    data |-> Contents(allocations_'[k], buffer_')]]
  BY <1>1, BlockFacts, Zenon
<1>3. \A k \in DOMAIN allocations_ \ H :
        [owner |-> allocations_'[k].owner_id, data |-> Contents(allocations_'[k], buffer_')]
          = Blocks[k]
  BY <1>1, BlockFacts, Zenon
<1>4. DOMAIN Blocks = DOMAIN allocations_
  BY BlockFacts, Zenon
<1> QED
  BY <1>2, <1>3, <1>4, Zenon DEF Pool!Without

\* FREE releases the block of its own session, or is refused.
LEMMA FreeIsRelease ==
  ASSUME PoolOK, NEW s \in Sessions, NEW h \in NamedHandles, Free(s, h)
  PROVE  [Pool!PoolNext]_(Pool!poolVars)
<1>1. CASE CheckOwnership(h, s) # "OK"
  <2>1. Refused(s, "FREE", h, 0, CheckOwnership(h, s))
    BY <1>1, Zenon DEF Free
  <2>2. CheckOwnership(h, s) \in Statuses \ {"OK"}
    BY <1>1, OwnershipFacts, Zenon DEF Statuses
  <2> QED  BY <2>1, <2>2, OwnershipFacts, RefusalIsRefuse, Zenon
<1>2. CASE CheckOwnership(h, s) = "OK"
  <2>1. h \in DOMAIN allocations_ /\ allocations_[h].owner_id = s
    BY <1>2, OwnershipFacts, Zenon
  <2>2. /\ Erase({h}) /\ UNCHANGED buffer_ /\ UNCHANGED next_handle_
        /\ Respond(s, "FREE", h, 0, "OK", <<>>)
    BY <1>2, Zenon DEF Free, FreePages
  <2>3. h \in Handles
    BY <2>1, MemorydAssumption, SMTT(30) DEF PoolOK, Handles
  <2>4. Pool!Owns(s, h)
    BY <2>1, BlockFacts DEF Pool!Owns
  <2>5. Blocks' = Pool!Without({h})
    BY <2>1, <2>2, EraseIsWithout, Zenon
  <2>6. Pool!Release(s, h)
    BY <2>2, <2>4, <2>5, AnswerFacts, Zenon DEF Pool!Release
  <2> QED  BY <2>3, <2>6, Zenon DEF Pool!PoolNext
<1> QED
  BY <1>1, <1>2, Zenon

\* The destructor of a session ends its blocks and no other.
LEMMA CloseIsEndSession ==
  ASSUME NEW s \in Sessions, OnCloseHandle(s)
  PROVE  [Pool!PoolNext]_(Pool!poolVars)
<1>1. Erase(Owned(s)) /\ UNCHANGED <<buffer_, next_handle_, reply>>
  BY Zenon DEF OnCloseHandle, FreePages
<1>2. Owned(s) \in SUBSET DOMAIN allocations_
  BY Zenon DEF Owned
<1>3. Owned(s) = {h \in DOMAIN Blocks : Blocks[h].owner = s}
  BY BlockFacts DEF Owned
<1>4. Blocks' = Pool!Without(Owned(s))
  BY <1>1, <1>2, EraseIsWithout, Zenon
<1>5. Pool!EndSession(s)
  BY <1>1, <1>3, <1>4, Zenon DEF Pool!EndSession
<1> QED
  BY <1>5, Zenon DEF Pool!PoolNext

\* An access that PageTracker accepts is to the caller's own block, within it.
LEMMA AccessFacts ==
  ASSUME PoolOK, NEW s \in Sessions, NEW h \in NamedHandles,
         NEW offset \in ReqOffsets, NEW size \in ReqSizes
  PROVE  /\ AccessStatus(s, h, offset, size) # "OK" =>
              /\ AccessStatus(s, h, offset, size) \in Statuses \ {"OK"}
              /\ AccessStatus(s, h, offset, size) = "INVALID_HANDLE" =>
                   h \notin DOMAIN allocations_
              /\ AccessStatus(s, h, offset, size) = "PERMISSION_DENIED" =>
                   h \in DOMAIN allocations_ /\ allocations_[h].owner_id # s
         /\ AccessStatus(s, h, offset, size) = "OK" /\ size # 0 =>
              /\ h \in DOMAIN allocations_ /\ h \in Handles
              /\ Pool!Owns(s, h)
              /\ Pool!Within(h, offset, size)
              /\ offset .. offset + size - 1 \subseteq 0 .. allocations_[h].total_size - 1
<1>1. offset \in Nat /\ size \in Nat
  BY MemorydAssumption
<1>2. ASSUME AccessStatus(s, h, offset, size) # "OK"
      PROVE  /\ AccessStatus(s, h, offset, size) \in Statuses \ {"OK"}
             /\ AccessStatus(s, h, offset, size) = "INVALID_HANDLE" =>
                  h \notin DOMAIN allocations_
             /\ AccessStatus(s, h, offset, size) = "PERMISSION_DENIED" =>
                  h \in DOMAIN allocations_ /\ allocations_[h].owner_id # s
  BY <1>2, OwnershipFacts, Zenon DEF AccessStatus, Statuses
<1>3. ASSUME AccessStatus(s, h, offset, size) = "OK", size # 0
      PROVE  /\ h \in DOMAIN allocations_ /\ h \in Handles
             /\ Pool!Owns(s, h)
             /\ Pool!Within(h, offset, size)
             /\ offset .. offset + size - 1 \subseteq 0 .. allocations_[h].total_size - 1
  <2>1. /\ h \in DOMAIN allocations_ /\ allocations_[h].owner_id = s
        /\ InBounds(h, offset, size)
    BY <1>3, OwnershipFacts, Zenon DEF AccessStatus
  <2>2. h \in Handles /\ allocations_[h].total_size \in Nat
    BY <2>1, MemorydAssumption, SMTT(30) DEF PoolOK, Handles, Allocation
  <2>3. offset .. offset + size - 1 \subseteq 0 .. allocations_[h].total_size - 1
    BY <1>1, <2>1, <2>2, SMTT(30) DEF InBounds
  <2>4. /\ DOMAIN Blocks = DOMAIN allocations_
        /\ Blocks[h].owner = allocations_[h].owner_id
        /\ Blocks[h].data = Contents(allocations_[h], buffer_)
    BY <2>1, BlockFacts
  <2>5. DOMAIN Contents(allocations_[h], buffer_) = 0 .. allocations_[h].total_size - 1
    BY Zenon DEF Contents
  <2> QED  BY <2>1, <2>2, <2>3, <2>4, <2>5, Zenon DEF Pool!Owns, Pool!Within
<1> QED
  BY <1>2, <1>3, Zenon

\* The cells that write() fills are those of the range, and no others of the
\* allocation.
LEMMA CoveredFacts ==
  ASSUME PoolOK, NEW h \in DOMAIN allocations_, NEW offset, NEW size,
         offset .. offset + size - 1 \subseteq 0 .. allocations_[h].total_size - 1,
         NEW c \in 0 .. allocations_[h].total_size - 1
  PROVE  OffsetInPage(c) \in Covered(allocations_[h], offset, size, PageOf(allocations_[h], c))
           <=> c \in offset .. offset + size - 1
<1> DEFINE a == allocations_[h]
<1>1. ASSUME c \in offset .. offset + size - 1
      PROVE  OffsetInPage(c) \in Covered(a, offset, size, PageOf(a, c))
  BY <1>1, Zenon DEF Covered
<1>2. ASSUME OffsetInPage(c) \in Covered(a, offset, size, PageOf(a, c))
      PROVE  c \in offset .. offset + size - 1
  <2>1. PICK d \in offset .. offset + size - 1 :
          PageOf(a, d) = PageOf(a, c) /\ OffsetInPage(c) = OffsetInPage(d)
    BY <1>2, Zenon DEF Covered
  <2>2. d \in 0 .. a.total_size - 1
    BY <2>1, Zenon
  <2>3. c = d
    BY <2>1, <2>2, CellsApart, Zenon
  <2> QED  BY <2>1, <2>3, Zenon
<1> QED
  BY <1>1, <1>2, Zenon

\* WRITE stores into the range of the caller's own block and into no other cell
\* of any block, or is refused.
LEMMA WriteIsStore ==
  ASSUME PoolOK, BufferOK, NEW s \in Sessions, NEW h \in NamedHandles,
         NEW offset \in ReqOffsets, NEW size \in ReqSizes, NEW v \in Values,
         Write(s, h, offset, size, v)
  PROVE  [Pool!PoolNext]_(Pool!poolVars)
<1> DEFINE a == allocations_[h]
           status == AccessStatus(s, h, offset, size)
<1>1. CASE status # "OK"
  <2>1. Refused(s, "WRITE", h, size, status)
    BY <1>1, Zenon DEF Write
  <2> HIDE DEF status
  <2>2. /\ status \in Statuses \ {"OK"}
        /\ status = "INVALID_HANDLE" => h \notin DOMAIN allocations_
        /\ status = "PERMISSION_DENIED" =>
             h \in DOMAIN allocations_ /\ allocations_[h].owner_id # s
    BY <1>1, AccessFacts, Zenon DEF status
  <2> QED  BY <2>1, <2>2, RefusalIsRefuse, Zenon
<1>2. CASE status = "OK" /\ size = 0
  <2>1. Respond(s, "WRITE", h, size, "OK", <<>>) /\ UNCHANGED <<slabVars, trackerVars>>
    BY <1>2, Zenon DEF Write, slabVars
  <2> QED  BY <1>2, <2>1, AcknowledgementIsAcknowledge, Zenon
<1>3. CASE status = "OK" /\ size # 0
  <2>1. /\ h \in DOMAIN allocations_ /\ h \in Handles
        /\ Pool!Owns(s, h)
        /\ Pool!Within(h, offset, size)
        /\ offset .. offset + size - 1 \subseteq 0 .. a.total_size - 1
    BY <1>3, AccessFacts, Zenon
  <2>2. /\ buffer_' = [p \in Pages |-> [o \in Cells |->
              IF o \in Covered(a, offset, size, p) THEN v ELSE buffer_[p][o]]]
        /\ Respond(s, "WRITE", h, size, "OK", <<>>)
        /\ allocations_' = allocations_ /\ next_handle_' = next_handle_
    BY <1>3, Zenon DEF Write, trackerVars
  <2> DEFINE old == Contents(a, buffer_)
             new == [c \in DOMAIN old |->
                       IF c \in offset .. offset + size - 1 THEN v ELSE old[c]]
  <2>3. Contents(a, buffer_') = new
    <3>1. DOMAIN old = 0 .. a.total_size - 1
      BY Zenon DEF Contents
    <3>2. ASSUME NEW c \in 0 .. a.total_size - 1
          PROVE  buffer_'[PageOf(a, c)][OffsetInPage(c)] = new[c]
      <4>1. PageOf(a, c) \in Pages /\ OffsetInPage(c) \in Cells
        BY <2>1, CellInPage, Zenon
      <4>2. buffer_'[PageOf(a, c)][OffsetInPage(c)] =
              IF OffsetInPage(c) \in Covered(a, offset, size, PageOf(a, c))
                THEN v ELSE buffer_[PageOf(a, c)][OffsetInPage(c)]
        BY <2>2, <4>1, Zenon
      <4>3. OffsetInPage(c) \in Covered(a, offset, size, PageOf(a, c))
              <=> c \in offset .. offset + size - 1
        BY <2>1, CoveredFacts, Zenon
      <4>4. old[c] = buffer_[PageOf(a, c)][OffsetInPage(c)]
        BY Zenon DEF Contents
      <4> HIDE DEF old
      <4> QED  BY <3>1, <4>2, <4>3, <4>4, Zenon
    <3>3. new = [c \in 0 .. a.total_size - 1 |-> new[c]]
      BY <3>1, Zenon
    <3> HIDE DEF new
    <3> QED  BY <3>2, <3>3, Zenon DEF Contents
  <2>4. ASSUME NEW k \in DOMAIN allocations_, k # h
        PROVE  Contents(allocations_[k], buffer_') = Contents(allocations_[k], buffer_)
    <3>1. PageSet(allocations_[k]) \subseteq Pages
      BY PagesOfPool, Zenon
    <3>2. PageSet(a) \cap PageSet(allocations_[k]) = {}
      BY <2>1, <2>4, Zenon DEF PoolOK, PoolPartition, PagesHeldOnce
    <3>3. \A d \in offset .. offset + size - 1 : PageOf(a, d) \in PageSet(a)
      BY <2>1, CellInPage, Zenon
    <3>4. \A p \in PageSet(allocations_[k]) : Covered(a, offset, size, p) = {}
      BY <3>2, <3>3, Zenon DEF Covered
    <3>5. \A p \in PageSet(allocations_[k]) : \A o \in Cells :
            buffer_'[p][o] = buffer_[p][o]
      BY <2>2, <3>1, <3>4, Zenon
    <3> QED  BY <3>5, ContentsKept, Zenon
  <2> HIDE DEF old, new
  <2>5. Blocks' = [k \in DOMAIN Blocks |->
                     IF k = h THEN [owner |-> a.owner_id, data |-> new] ELSE Blocks[k]]
    <3>1. Blocks' = [k \in DOMAIN allocations_ |->
                       [owner |-> allocations_[k].owner_id,
                        data |-> Contents(allocations_[k], buffer_')]]
      BY <2>2, BlockFacts, Zenon
    <3>2. \A k \in DOMAIN allocations_ :
            [owner |-> allocations_[k].owner_id,
             data |-> Contents(allocations_[k], buffer_')]
              = IF k = h THEN [owner |-> a.owner_id, data |-> new] ELSE Blocks[k]
      BY <2>3, <2>4, BlockFacts, Zenon
    <3>3. DOMAIN Blocks = DOMAIN allocations_
      BY BlockFacts, Zenon
    <3> QED  BY <3>1, <3>2, <3>3, Zenon
  <2>6. Blocks[h] = [owner |-> a.owner_id, data |-> old]
    BY <2>1, BlockFacts, Zenon DEF old
  <2>7. Blocks' = [Blocks EXCEPT ![h].data =
                     [c \in DOMAIN @ |->
                        IF c \in offset .. offset + size - 1 THEN v ELSE @[c]]]
    <3>1. Blocks[h].data = old
      BY <2>1, BlockData, Zenon DEF old
    <3>2. [Blocks[h] EXCEPT !.data = new] = [owner |-> a.owner_id, data |-> new]
      BY <2>6
    <3>3. DOMAIN Blocks = DOMAIN allocations_ /\ Blocks = [k \in DOMAIN Blocks |-> Blocks[k]]
      BY Zenon DEF Blocks
    <3>4. Blocks' = [Blocks EXCEPT ![h] = [Blocks[h] EXCEPT !.data = new]]
      BY <2>1, <2>5, <3>2, <3>3, Zenon
    <3> QED  BY <3>1, <3>4, Zenon DEF new
  <2>8. Pool!Store(s, h, offset, size, v)
    BY <2>1, <2>2, <2>7, AnswerFacts, Zenon DEF Pool!Store
  <2> QED  BY <2>1, <2>8, Zenon DEF Pool!PoolNext
<1> QED
  BY <1>1, <1>2, <1>3, Zenon

\* READ returns the range of the caller's own block, or is refused.
LEMMA ReadIsFetch ==
  ASSUME PoolOK, NEW s \in Sessions, NEW h \in NamedHandles,
         NEW offset \in ReqOffsets, NEW size \in ReqSizes,
         Read(s, h, offset, size)
  PROVE  [Pool!PoolNext]_(Pool!poolVars)
<1> DEFINE a == allocations_[h]
           access == AccessStatus(s, h, offset, size)
           status == IF size > MaxMessage THEN "ERROR_GENERIC" ELSE access
           data == [i \in 1 .. size |->
                      buffer_[PageOf(a, offset + i - 1)][OffsetInPage(offset + i - 1)]]
<1>1. CASE status # "OK"
  <2>1. Refused(s, "READ", h, size, status)
    BY <1>1, Zenon DEF Read
  <2> HIDE DEF access
  <2>2. access # "OK" =>
          /\ access \in Statuses \ {"OK"}
          /\ access = "INVALID_HANDLE" => h \notin DOMAIN allocations_
          /\ access = "PERMISSION_DENIED" =>
               h \in DOMAIN allocations_ /\ allocations_[h].owner_id # s
    BY AccessFacts, Zenon DEF access
  <2>3. /\ status \in Statuses \ {"OK"}
        /\ status = "INVALID_HANDLE" => h \notin DOMAIN allocations_
        /\ status = "PERMISSION_DENIED" =>
             h \in DOMAIN allocations_ /\ allocations_[h].owner_id # s
    BY <1>1, <2>2, Zenon DEF Statuses
  <2> HIDE DEF status
  <2> QED  BY <2>1, <2>3, RefusalIsRefuse, Zenon
<1>2. ASSUME status = "OK"
      PROVE  /\ Respond(s, "READ", h, size, "OK", data)
             /\ UNCHANGED <<slabVars, trackerVars>>
             /\ access = "OK"
  BY <1>2, Zenon DEF Read
<1>3. CASE status = "OK" /\ size = 0
  <2>1. data = <<>>
    BY <1>3
  <2> HIDE DEF data
  <2> QED  BY <1>2, <1>3, <2>1, AcknowledgementIsAcknowledge, Zenon
<1>4. CASE status = "OK" /\ size # 0
  <2>1. /\ h \in DOMAIN allocations_
        /\ Pool!Owns(s, h)
        /\ Pool!Within(h, offset, size)
        /\ offset .. offset + size - 1 \subseteq 0 .. a.total_size - 1
    BY <1>2, <1>4, AccessFacts, Zenon
  <2>2. CASE session[s] = "closing"
    BY <1>2, <1>4, <2>2, AnswerOnly, Zenon DEF Respond
  <2>3. CASE session[s] # "closing"
    <3> HIDE DEF data
    <3>1. /\ reply'.to = s /\ reply'.op = "READ" /\ reply'.status = "OK"
          /\ reply'.handle = h /\ reply'.size = size /\ reply'.data = data
      BY <1>2, <1>4, <2>3, SMTT(30) DEF Respond
    <3>2. Blocks[h].data = Contents(a, buffer_)
      BY <2>1, BlockData, Zenon
    <3>3. ASSUME NEW i \in 1 .. size
          PROVE  Blocks[h].data[offset + i - 1] =
                   buffer_[PageOf(a, offset + i - 1)][OffsetInPage(offset + i - 1)]
      <4>1. offset \in Nat /\ size \in Nat
        BY MemorydAssumption
      <4>2. offset + i - 1 \in 0 .. a.total_size - 1
        BY <2>1, <4>1
      <4> QED  BY <3>2, <4>2, Zenon DEF Contents
    <3>4. data = [i \in 1 .. size |-> Blocks[h].data[offset + i - 1]]
      BY <3>3, Zenon DEF data
    <3>5. Pool!Fetch(s)
      BY <2>1, <3>1, <3>4 DEF Pool!Fetch
    <3> QED  BY <1>2, <1>4, <3>5, AnswerOnly, Zenon
  <2> QED  BY <2>2, <2>3, Zenon
<1> HIDE DEF status
<1> QED
  BY <1>1, <1>3, <1>4, Zenon

\* Every request is one operation of the pool, or one whose answer is dropped.
LEMMA RequestRefines ==
  ASSUME MemorydInv, NEW s \in Sessions, HandleRequest(s)
  PROVE  [Pool!PoolNext]_(Pool!poolVars)
<1>1. PoolOK /\ BufferOK
  BY InvariantParts, Zenon
<1>2. ASSUME NEW size \in ReqSizes, AllocFails(s, size)
      PROVE  [Pool!PoolNext]_(Pool!poolVars)
  BY <1>2, RefusalIsRefuse, Zenon DEF AllocFails, Statuses
<1>3. ASSUME NEW h, NEW size, WriteUnusable(s, h, size)
      PROVE  [Pool!PoolNext]_(Pool!poolVars)
  <2>1. \E status \in {"ERROR_GENERIC", "CHECKSUM_MISMATCH"} :
          Refused(s, "WRITE", h, size, status)
    BY <1>3, Zenon DEF WriteUnusable
  <2> QED  BY <2>1, RefusalIsRefuse, Zenon DEF Statuses
<1>4. ASSUME AllocZero(s)
      PROVE  [Pool!PoolNext]_(Pool!poolVars)
  BY <1>4, AcknowledgementIsAcknowledge, Zenon DEF AllocZero
<1>5. ASSUME Other(s)
      PROVE  [Pool!PoolNext]_(Pool!poolVars)
  <2>1. UNCHANGED <<slabVars, trackerVars>>
    BY <1>5, Zenon DEF Other
  <2>2. CASE Respond(s, "PING", 0, 0, "OK", <<>>)
    BY <2>1, <2>2, AcknowledgementIsAcknowledge, Zenon
  <2>3. ASSUME NEW status \in {"ERROR_GENERIC", "VERSION_MISMATCH"},
               Respond(s, "OTHER", 0, 0, status, <<>>)
        PROVE  [Pool!PoolNext]_(Pool!poolVars)
    <3>1. Refused(s, "OTHER", 0, 0, status)
      BY <2>1, <2>3, Zenon DEF Refused
    <3> QED  BY <3>1, RefusalIsRefuse, Zenon DEF Statuses
  <2> QED  BY <1>5, <2>2, <2>3, Zenon DEF Other
<1> QED
  BY <1>1, <1>2, <1>3, <1>4, <1>5, AllocIsGrant, FreeIsRelease, ReadIsFetch, WriteIsStore, Zenon
     DEF HandleRequest

\* Every step of the daemon is a step of the pool, or one the pool does not see.
LEMMA NextRefines == MemorydInv /\ [Next]_vars => [Pool!PoolNext]_(Pool!poolVars)
<1> SUFFICES ASSUME MemorydInv, [Next]_vars  PROVE [Pool!PoolNext]_(Pool!poolVars)
  BY Zenon
<1>1. ASSUME UNCHANGED <<slabVars, trackerVars, reply>>
      PROVE  [Pool!PoolNext]_(Pool!poolVars)
  <2>1. UNCHANGED <<Blocks, 1 .. next_handle_ - 1>>
    BY <1>1, Zenon DEF slabVars, trackerVars, Blocks, Contents
  <2> QED  BY <1>1, <2>1, Zenon DEF Pool!poolVars
<1>2. CASE OnConnection \/ StopAsync
  BY <1>1, <1>2, Zenon DEF OnConnection, StopAsync
<1>3. ASSUME NEW s \in Sessions,
             \/ PeerCloses(s) \/ OnRead(s) \/ EndRead(s)
             \/ MalformedFrame(s) \/ OnReadError(s)
      PROVE  [Pool!PoolNext]_(Pool!poolVars)
  BY <1>1, <1>3, Zenon DEF PeerCloses, OnRead, EndRead, MalformedFrame, OnReadError
<1>4. CASE UNCHANGED vars
  BY <1>1, <1>4, Zenon DEF vars, slabVars, trackerVars
<1> QED
  BY <1>2, <1>3, <1>4, RequestRefines, CloseIsEndSession, Zenon DEF Next

\* memoryd implements the pool of private blocks: whatever the slab, the page
\* size and the sessions, a client sees zeroed blocks of its own that keep what
\* it stored, handles that are never reused, and refusals that tell the truth.
THEOREM ImplementsMemoryPool == Spec => RefinesMemoryPool
<1>1. Init => Pool!PoolInit
  <2> SUFFICES ASSUME Init  PROVE Pool!PoolInit
    BY Zenon
  <2>1. Blocks = <<>>
    BY DEF Init, Blocks
  <2>2. 1 .. next_handle_ - 1 = {}
    BY DEF Init
  <2> QED  BY <2>1, <2>2, Zenon DEF Init, Pool!PoolInit, NoReply, Pool!NoReply
<1> QED
  BY <1>1, MemorydSafe, NextRefines, PTL DEF Spec, RefinesMemoryPool, Pool!PoolSpec
=============================================================================
