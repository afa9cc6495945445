------------------------------ MODULE Hook_proofs ------------------------------
(***************************************************************************)
(* For every number of threads, C runtimes, blocks and calls: a block goes *)
(* back to the allocator that issued it, and a redirected call keeps the   *)
(* contents it must keep.                                                  *)
(***************************************************************************)
EXTENDS Hook, TLAPS

\* Steps of a call that has no block yet, and of the thread that holds init_mutex.
Early == {"ensure", "lock", "build", "await", "built", "arena", "fallback"}
Building == {"build", "await", "built"}
Touching == {"touch", "fault", "copy"}
Away == {"idle", "scan"}

\* The blocks a call is working on.
Held(c) == {c.old, c.res} \ {None}

\* A realloc knows the block it is to replace: which runtime it belongs to,
\* whether the arena issued it, and how much of it must survive.
OldOK(c, lv, dl) ==
  c.op = "realloc" /\ c.pc \in Early \cup Touching \cup {"release"} =>
    /\ c.old # None
    /\ lv[c.old].crt = c.crt
    /\ c.want = Min({lv[c.old].data, c.bytes})
    /\ dl = "attached" => (c.owned <=> lv[c.old].from[1] = "arena")

\* The block a call will return, and what is already in it.
ResOK(c, lv) ==
  /\ c.pc \in Early => c.res = None /\ c.op # "fill"
  /\ c.pc \in Touching =>
       /\ c.res # None /\ c.res # c.old /\ c.op # "malloc"
       /\ c.op # "fill" => lv[c.res].size = c.bytes
  /\ c.pc = "release" =>
       c.op = "realloc" /\ c.res # None /\ c.res # c.old /\ lv[c.res].data >= c.want
  /\ c.pc = "done" => c.res # None /\ lv[c.res].data >= c.want

\* What a call owes its caller.
WantOK(c) ==
  /\ c.pc \in Away => c.want = 0 /\ Held(c) = {}
  /\ c.op \in {"malloc", "fill"} => c.want = 0
  /\ c.op = "calloc" => c.want = c.bytes
  /\ c.op \in {"malloc", "calloc", "fill"} => c.old = None

\* The runtime a call came through, and its place in init_mutex's protocol.
CallerOK(c, t, st, hk, dl) ==
  /\ c.pc \notin Away => c.ops < MaxOps
  /\ c.pc \notin Away /\ c.op # "fill" => c.crt \in Crts /\ (dl = "attached" => c.crt \in hk)
  /\ c.pc \in {"ensure", "lock", "build"} => c.g_depth = 1
  /\ c.pc \in Building => st.init = "new" /\ st.owner = t

CallOK(c, t, lv, st, hk, dl) ==
  /\ \A b \in Held(c) : lv[b] # None
  /\ OldOK(c, lv, dl)
  /\ ResOK(c, lv)
  /\ WantOK(c)
  /\ CallerOK(c, t, st, hk, dl)

\* While the DLL is attached a block belongs to its runtime or to the only arena
\* there has been, and then its runtime's free is hooked.
IssuerOK(b, st, ar, hk) ==
  \/ b.from = Crt(b.crt)
  \/ st.init = "ready" /\ ar # None /\ b.from = Arena(ar) /\ b.crt \in hk

BlocksOK(lv, st, ar, hk, dl) ==
  dl = "attached" => \A b \in Blocks : lv[b] # None => IssuerOK(lv[b], st, ar, hk)

\* No two calls work on one block.
Exclusive(th) == \A t, u \in Apps : t # u => Held(th[t]) \cap Held(th[u]) = {}

\* The network thread owes answers only to threads that wait for one.
AskedOK(th, nt) == \A t \in nt.asked : th[t].pc \in {"await", "fault"}

IInv ==
  /\ TypeOK
  /\ \A t \in Apps : CallOK(thr[t], t, live, state, hooked, dll)
  /\ BlocksOK(live, state, arena, hooked, dll)
  /\ Exclusive(thr)
  /\ AskedOK(thr, net)
  /\ arena # None => state.init = "ready"
  /\ FreedWhereIssued

-------------------------------------------------------------------------------
(***************************************************************************)
(* Arithmetic.                                                             *)
(***************************************************************************)
\* The smaller of two numbers.
LEMMA MinOfTwo ==
  ASSUME NEW a \in Nat, NEW b \in Nat
  PROVE  Min({a, b}) \in Nat /\ Min({a, b}) = IF a <= b THEN a ELSE b
<1> DEFINE m == IF a <= b THEN a ELSE b
           Least(x) == x \in {a, b} /\ \A y \in {a, b} : x =< y
<1>1. Least(m) /\ m \in Nat
  OBVIOUS
<1>2. \A x : Least(x) => x = m
  OBVIOUS
<1>3. Min({a, b}) = CHOOSE x : Least(x)
  BY Zenon DEF Min
<1> HIDE DEF Least, m
<1>4. Min({a, b}) = m
  BY <1>1, <1>2, <1>3, Zenon
<1> QED  BY <1>1, <1>4, Zenon DEF m

\* realloc copies the part of the old contents that fits, whether or not it looks
\* at the size of the old block as well.
LEMMA MinOfThree ==
  ASSUME NEW data \in Nat, NEW size \in Nat, NEW bytes \in Nat, data <= size
  PROVE  /\ Min({data, Min({size, bytes})}) = Min({data, bytes})
         /\ Min({data, bytes}) <= bytes
<1>1. /\ Min({size, bytes}) \in Nat
      /\ Min({size, bytes}) = IF size <= bytes THEN size ELSE bytes
  BY MinOfTwo, Zenon
<1>2. Min({data, bytes}) = IF data <= bytes THEN data ELSE bytes
  BY MinOfTwo, Zenon
<1>3. Min({data, Min({size, bytes})})
        = IF data <= Min({size, bytes}) THEN data ELSE Min({size, bytes})
  BY <1>1, MinOfTwo, Zenon
<1> DEFINE u == Min({size, bytes})
           v == Min({data, bytes})
           w == Min({data, Min({size, bytes})})
<1> HIDE DEF u, v, w
<1>4. /\ u = IF size <= bytes THEN size ELSE bytes
      /\ v = IF data <= bytes THEN data ELSE bytes
      /\ w = IF data <= u THEN data ELSE u
  BY <1>1, <1>2, <1>3, Zenon DEF u, v, w
<1>5. w = v /\ v <= bytes
  BY <1>4
<1> QED  BY <1>5, Zenon DEF v, w

\* A product that hooked_calloc does not refuse fits a word, so what it asks the
\* arena for is the whole of it.
LEMMA FitsWord ==
  ASSUME NEW count \in 0 .. Word - 1, NEW size \in 0 .. Word - 1, ~ Overflows(count, size)
  PROVE  (count * size) % Word = count * size /\ count * size \in 0 .. Word - 1
<1>1. Word \in Nat /\ count \in Nat /\ size \in Nat /\ Word # 0
  BY HookAssumption
<1>2. count * size \in Nat /\ count * size <= Word - 1
  <2>1. CASE count = 0
    BY <1>1, <2>1
  <2>2. CASE count # 0
    <3> DEFINE q == (Word - 1) \div count
    <3>1. q \in Nat /\ count * q <= Word - 1
      BY <1>1, <2>2
    <3>2. size <= q
      BY <1>1, <2>2, <3>1 DEF Overflows
    <3> HIDE DEF q
    <3>3. PICK d \in Nat : q = size + d
      BY <1>1, <3>1, <3>2
    <3>4. count * q = count * size + count * d /\ count * size \in Nat /\ count * d \in Nat
      BY <1>1, <3>3
    <3> DEFINE x == count * q
               y == count * size
               z == count * d
    <3>5. x = y + z /\ y \in Nat /\ z \in Nat /\ x <= Word - 1
      BY <3>1, <3>4, Zenon
    <3> HIDE DEF x, y, z
    <3>6. y \in Nat /\ y <= Word - 1
      BY <1>1, <3>5
    <3> QED  BY <3>6, Zenon DEF y
  <2> QED  BY <2>1, <2>2, Zenon
<1> DEFINE y == count * size
<1>3. y \in Nat /\ y <= Word - 1
  BY <1>2, Zenon
<1> HIDE DEF y
<1>4. y % Word = y /\ y \in 0 .. Word - 1
  BY <1>1, <1>3
<1> QED  BY <1>4, Zenon DEF y

-------------------------------------------------------------------------------
(***************************************************************************)
(* What a step must establish.                                             *)
(***************************************************************************)
\* A call stays in order while others work on other blocks: runtimes are hooked,
\* never unhooked, while the DLL is attached, and only the holder of init_mutex
\* changes what it protects.
LEMMA CallFrame ==
  ASSUME NEW u \in Apps,
         CallOK(thr[u], u, live, state, hooked, dll),
         \A b \in Held(thr[u]) : live'[b] = live[b],
         thr[u].pc \in Building => state'.init = state.init /\ state'.owner = state.owner,
         dll' = "attached" => dll = "attached" /\ hooked \subseteq hooked'
  PROVE  CallOK(thr[u], u, live', state', hooked', dll')
<1> DEFINE c == thr[u]
<1>1. /\ c.old # None => live'[c.old] = live[c.old]
      /\ c.res # None => live'[c.res] = live[c.res]
  BY Zenon DEF Held
<1>2. \A b \in Held(c) : live'[b] # None
  BY Zenon DEF CallOK
<1>3. OldOK(c, live', dll')
  BY <1>1, Zenon DEF CallOK, OldOK
<1>4. ResOK(c, live')
  BY <1>1, Zenon DEF CallOK, ResOK
<1>5. CallerOK(c, u, state', hooked', dll')
  BY Zenon DEF CallOK, CallerOK
<1> QED  BY <1>2, <1>3, <1>4, <1>5, Zenon DEF CallOK

\* The blocks of the program and the places they come from.
World(lv, st, ar, nt, hk, sl, ld) ==
  /\ lv \in [Blocks -> BlockRecords \cup {None}]
  /\ \A b \in Blocks : lv[b] # None => lv[b].data <= lv[b].size
  /\ st \in [init : {"new", "ready", "failed"}, owner : Apps \cup {None}, builds : Nat]
  /\ ar \in Nat \cup {None}
  /\ ar # None => st.init = "ready"
  /\ nt \in [asked : SUBSET Apps, stuck : BOOLEAN]
  /\ hk \subseteq sl /\ sl \subseteq ld /\ ld \subseteq Crts

\* A step of thread t: its call goes on to c, no block of another call changes,
\* and init_mutex is respected.
LEMMA Assemble ==
  ASSUME IInv, NEW t \in Apps, NEW c \in Calls,
         thr' = [thr EXCEPT ![t] = c],
         CallOK(c, t, live', state', hooked', dll'),
         \A u \in Apps \ {t} : Held(c) \cap Held(thr[u]) = {},
         \A u \in Apps \ {t} : \A b \in Held(thr[u]) : live'[b] = live[b],
         \A u \in Apps \ {t} :
           thr[u].pc \in Building => state'.init = state.init /\ state'.owner = state.owner,
         dll' = dll, hooked \subseteq hooked',
         World(live', state', arena', net', hooked', slots', loaded'),
         BlocksOK(live', state', arena', hooked', dll'),
         net'.asked \subseteq net.asked \cup {t},
         t \in net'.asked => c.pc \in {"await", "fault"},
         FreedWhereIssued'
  PROVE  IInv'
<1>1. thr \in [Apps -> Calls] /\ dll \in {"attached", "released", "removed"}
  BY Zenon DEF IInv, TypeOK
<1>2. /\ thr' \in [Apps -> Calls] /\ thr'[t] = c
      /\ \A u \in Apps \ {t} : thr'[u] = thr[u]
  BY <1>1, Zenon
<1>3. TypeOK'
  BY <1>1, <1>2, Zenon DEF TypeOK, World
<1>4. ASSUME NEW u \in Apps  PROVE CallOK(thr'[u], u, live', state', hooked', dll')
  <2>1. CASE u = t
    BY <1>2, <2>1, Zenon
  <2>2. CASE u # t
    <3>1. CallOK(thr[u], u, live, state, hooked, dll)
      BY Zenon DEF IInv
    <3>2. \A b \in Held(thr[u]) : live'[b] = live[b]
      BY <2>2, Zenon
    <3>3. thr[u].pc \in Building => state'.init = state.init /\ state'.owner = state.owner
      BY <2>2, Zenon
    <3>4. dll' = "attached" => dll = "attached" /\ hooked \subseteq hooked'
      BY Zenon
    <3>5. CallOK(thr[u], u, live', state', hooked', dll')
      BY ONLY <3>1, <3>2, <3>3, <3>4, CallFrame, Zenon
    <3> QED  BY <1>2, <2>2, <3>5, Zenon
  <2> QED  BY <2>1, <2>2, Zenon
<1>5. Exclusive(thr')
  <2>1. SUFFICES ASSUME NEW u \in Apps, NEW v \in Apps, u # v
                 PROVE  Held(thr'[u]) \cap Held(thr'[v]) = {}
    BY Zenon DEF Exclusive
  <2>2. Held(thr[u]) \cap Held(thr[v]) = {}
    BY <2>1, Zenon DEF IInv, Exclusive
  <2>3. CASE u # t /\ v # t
    BY <1>2, <2>2, <2>3, Zenon
  <2>4. CASE u = t
    BY <1>2, <2>1, <2>4, Zenon
  <2>5. CASE v = t
    BY <1>2, <2>1, <2>5, Zenon
  <2> QED  BY <2>3, <2>4, <2>5, Zenon
<1>6. AskedOK(thr', net')
  BY <1>2, Zenon DEF IInv, AskedOK, TypeOK, World
<1> QED  BY <1>3, <1>4, <1>5, <1>6, Zenon DEF IInv, World

\* A block that no call works on.
Unheld(b) == \A u \in Apps : b \notin Held(thr[u])

\* What thread t works on, or nobody does, no other thread works on.
LEMMA Apart ==
  ASSUME IInv, NEW t \in Apps, NEW b, b \in Held(thr[t]) \/ Unheld(b)
  PROVE  \A u \in Apps \ {t} : b \notin Held(thr[u])
  BY Zenon DEF IInv, Exclusive, Unheld

LEMMA HeldAreBlocks == IInv => \A u \in Apps : Held(thr[u]) \subseteq Blocks
<1>1. IInv => \A u \in Apps : thr[u] \in Calls
  BY Zenon DEF IInv, TypeOK
<1>2. \A c \in Calls : c.old \in Blocks \cup {None} /\ c.res \in Blocks \cup {None}
  BY Zenon DEF Calls
<1> QED  BY <1>1, <1>2, Zenon DEF Held

\* A spare block, and one the program may hand over, is not in use.
LEMMA SpareUnheld ==
  ASSUME IInv, NEW b \in Spare
  PROVE  b \in Blocks /\ live[b] = None /\ Unheld(b)
  BY Zenon DEF IInv, CallOK, Spare, Unheld

LEMMA UsableUnheld ==
  ASSUME IInv, NEW b \in Blocks, NEW m, Usable(b, m)
  PROVE  live[b] # None /\ live[b].crt = m /\ Unheld(b)
<1>1. SUFFICES ASSUME NEW u \in Apps, b \in Held(thr[u])  PROVE FALSE
  BY Zenon DEF Usable, Unheld
<1>2. thr[u].pc = "idle"
  BY <1>1, Zenon DEF Usable, Held
<1>3. WantOK(thr[u])
  BY Zenon DEF IInv, CallOK
<1> QED  BY <1>1, <1>2, <1>3, Zenon DEF WantOK, Away

\* A step of t that changes nothing but its call.
LEMMA OnlyCall ==
  ASSUME IInv, NEW t \in Apps, NEW c \in Calls,
         thr' = [thr EXCEPT ![t] = c],
         thr[t].pc \notin {"await", "fault"},
         CallOK(c, t, live, state, hooked, dll),
         \A x \in Held(c) : x \in Held(thr[t]) \/ Unheld(x),
         UNCHANGED <<live, state, arena, net, hooked, slots, loaded, dll, handed>>
  PROVE  IInv'
<1>1. \A u \in Apps \ {t} : Held(c) \cap Held(thr[u]) = {}
  BY Apart, Zenon
<1>2. World(live', state', arena', net', hooked', slots', loaded')
  BY Zenon DEF IInv, TypeOK, World
<1>3. CallOK(c, t, live', state', hooked', dll')
  BY Zenon
<1>4. BlocksOK(live', state', arena', hooked', dll')
  BY Zenon DEF IInv
<1>5. net'.asked \subseteq net.asked \cup {t} /\ t \notin net'.asked
  BY Zenon DEF IInv, AskedOK
<1>6. FreedWhereIssued'
  BY Zenon DEF IInv, FreedWhereIssued
<1> QED  BY <1>1, <1>2, <1>3, <1>4, <1>5, <1>6, Assemble, Zenon

\* A step of t that changes its call and one block, which is its own or nobody's.
LEMMA OneBlock ==
  ASSUME IInv, NEW t \in Apps, NEW c \in Calls,
         thr' = [thr EXCEPT ![t] = c],
         thr[t].pc \notin {"await", "fault"},
         NEW b \in Blocks, NEW r \in BlockRecords \cup {None},
         live' = [live EXCEPT ![b] = r],
         b \in Held(thr[t]) \/ Unheld(b),
         r # None => /\ r.data <= r.size
                     /\ dll = "attached" => IssuerOK(r, state, arena, hooked),
         CallOK(c, t, live', state, hooked, dll),
         \A x \in Held(c) : x \in Held(thr[t]) \/ Unheld(x),
         UNCHANGED <<state, arena, net, hooked, slots, loaded, dll>>,
         FreedWhereIssued'
  PROVE  IInv'
<1>0. live \in [Blocks -> BlockRecords \cup {None}]
  BY Zenon DEF IInv, TypeOK
<1>1. /\ live' \in [Blocks -> BlockRecords \cup {None}]
      /\ live'[b] = r
      /\ \A x \in Blocks : x # b => live'[x] = live[x]
  BY <1>0, Zenon
<1>2. \A u \in Apps \ {t} : Held(c) \cap Held(thr[u]) = {}
  BY Apart, Zenon
<1>3. \A u \in Apps \ {t} : \A x \in Held(thr[u]) : live'[x] = live[x]
  <2>1. \A u \in Apps \ {t} : b \notin Held(thr[u])
    BY Apart, Zenon
  <2> QED  BY <1>1, <2>1, HeldAreBlocks, Zenon
<1>4. \A x \in Blocks : live'[x] # None => live'[x].data <= live'[x].size
  BY <1>1, Zenon DEF IInv, TypeOK
<1>5. World(live', state', arena', net', hooked', slots', loaded')
  BY <1>1, <1>4, Zenon DEF IInv, TypeOK, World
<1>6. BlocksOK(live', state', arena', hooked', dll')
  BY <1>1, Zenon DEF IInv, BlocksOK
<1>7. net'.asked \subseteq net.asked \cup {t} /\ t \notin net'.asked
  BY Zenon DEF IInv, AskedOK
<1>8. CallOK(c, t, live', state', hooked', dll')
  BY Zenon
<1> QED  BY <1>2, <1>3, <1>5, <1>6, <1>7, <1>8, Assemble, Zenon

\* The call a thread has when its last one is over.
Over(t) == [Idle EXCEPT !.ops = thr[t].ops + 1]

LEMMA OverOK ==
  ASSUME IInv, NEW t \in Apps, thr[t].ops < MaxOps, NEW lv
  PROVE  /\ Over(t) \in Calls
         /\ CallOK(Over(t), t, lv, state, hooked, dll)
         /\ Held(Over(t)) = {}
<1> DEFINE c == Over(t)
<1>1. thr[t] \in Calls
  BY Zenon DEF IInv, TypeOK
<1>2. thr[t].ops \in 0 .. MaxOps /\ Word \in Nat /\ MaxOps \in Nat /\ Word # 0
  <2>1. thr[t].ops \in 0 .. MaxOps /\ thr[t].bytes \in 0 .. Word - 1
    BY <1>1, Zenon DEF Calls
  <2> QED  BY <2>1, HookAssumption
<1>3. thr[t].ops + 1 \in 0 .. MaxOps /\ 0 \in 0 .. Word - 1
  BY <1>2
<1>4. /\ c.pc = "idle" /\ c.op = "malloc" /\ c.old = None /\ c.res = None /\ c.want = 0
      /\ c \in Calls
  BY <1>3, Zenon DEF Over, Idle, Calls
<1> HIDE DEF c
<1>5. Held(c) = {}
  BY <1>4, Zenon DEF Held
<1>6. OldOK(c, lv, dll)
  BY <1>4, Zenon DEF OldOK
<1>7. ResOK(c, lv)
  BY <1>4, Zenon DEF ResOK, Early, Touching
<1>8. WantOK(c) /\ CallerOK(c, t, state, hooked, dll)
  BY <1>4, <1>5, Zenon DEF WantOK, CallerOK, Away, Building
<1>9. CallOK(c, t, lv, state, hooked, dll)
  BY <1>5, <1>6, <1>7, <1>8, Zenon DEF CallOK
<1> QED  BY <1>4, <1>5, <1>9, Zenon DEF c

\* A call that ends and changes nothing, or one block.
LEMMA OverStep ==
  ASSUME IInv, NEW t \in Apps, thr[t].ops < MaxOps,
         thr' = Finished(t), thr[t].pc \notin {"await", "fault"},
         UNCHANGED <<live, state, arena, net, hooked, slots, loaded, dll, handed>>
  PROVE  IInv'
<1>1. thr' = [thr EXCEPT ![t] = Over(t)]
  BY Zenon DEF Finished, Over
<1> QED  BY <1>1, OverOK, OnlyCall, Zenon

LEMMA OverBlock ==
  ASSUME IInv, NEW t \in Apps, thr[t].ops < MaxOps,
         thr' = Finished(t), thr[t].pc \notin {"await", "fault"},
         NEW b \in Blocks, NEW r \in BlockRecords \cup {None},
         live' = [live EXCEPT ![b] = r],
         b \in Held(thr[t]) \/ Unheld(b),
         r # None => /\ r.data <= r.size
                     /\ dll = "attached" => IssuerOK(r, state, arena, hooked),
         UNCHANGED <<state, arena, net, hooked, slots, loaded, dll>>,
         FreedWhereIssued'
  PROVE  IInv'
<1>1. thr' = [thr EXCEPT ![t] = Over(t)]
  BY Zenon DEF Finished, Over
<1>2. Over(t) \in Calls /\ Held(Over(t)) = {} /\ CallOK(Over(t), t, live', state, hooked, dll)
  BY OverOK, Zenon
<1> QED  BY <1>1, <1>2, OneBlock, Zenon

\* While the DLL is attached, arena_owns tells who issued a block.
LEMMA ArenaOwns ==
  ASSUME IInv, NEW b \in Blocks, live[b] # None, dll = "attached"
  PROVE  /\ arena_owns(b) <=> live[b].from[1] = "arena"
         /\ arena_owns(b) => live[b].from = Arena(arena) /\ live[b].crt \in hooked
         /\ ~ arena_owns(b) => live[b].from = Crt(live[b].crt)
<1>1. IssuerOK(live[b], state, arena, hooked)
  BY Zenon DEF IInv, BlocksOK
<1>2. \A m, k : Crt(m)[1] = "crt" /\ Arena(k)[1] = "arena" /\ Crt(m) # Arena(k)
  BY Zenon DEF Crt, Arena
<1>3. CASE live[b].from = Crt(live[b].crt)
  <2>1. live[b].from[1] # "arena" /\ \A k : live[b].from # Arena(k)
    BY <1>2, <1>3, Zenon
  <2> QED  BY <1>3, <2>1, Zenon DEF arena_owns
<1>4. CASE state.init = "ready" /\ arena # None /\ live[b].from = Arena(arena)
           /\ live[b].crt \in hooked
  BY <1>2, <1>4, Zenon DEF arena_owns
<1> QED  BY <1>1, <1>3, <1>4, Zenon DEF IssuerOK

\* A block is handed back where it came from.
LEMMA HandBack ==
  ASSUME IInv, NEW x, NEW y, dll' = dll, dll = "attached" => x = y,
         handed' = handed \cup {<<x, y>>}
  PROVE  FreedWhereIssued'
<1>1. <<x, y>>[1] = x /\ <<x, y>>[2] = y
  BY Zenon
<1> QED  BY <1>1, Zenon DEF IInv, FreedWhereIssued

LEMMA NoHandBack ==
  ASSUME IInv, UNCHANGED <<handed, dll>>
  PROVE  FreedWhereIssued'
  BY Zenon DEF IInv, FreedWhereIssued

\* The record of a block with these fields.
LEMMA BlockFields ==
  ASSUME NEW from \in {"crt", "arena"} \X (Crts \cup Nat), NEW m \in Crts,
         NEW size \in Nat, NEW data \in Nat
  PROVE  LET r == Block(from, m, size, data) IN
         /\ r \in BlockRecords /\ r # None
         /\ r.from = from /\ r.crt = m /\ r.size = size /\ r.data = data
<1> DEFINE r == Block(from, m, size, data)
<1>1. /\ r \in BlockRecords
      /\ r.from = from /\ r.crt = m /\ r.size = size /\ r.data = data
  BY Zenon DEF Block, BlockRecords
<1> HIDE DEF r
<1>2. r # None
  BY <1>1, HookAssumption, Zenon
<1> QED  BY <1>1, <1>2, Zenon DEF r

LEMMA Issuers ==
  /\ \A m \in Crts : Crt(m) \in {"crt", "arena"} \X (Crts \cup Nat)
  /\ \A k \in Nat : Arena(k) \in {"crt", "arena"} \X (Crts \cup Nat)
  BY Zenon DEF Crt, Arena

\* What the program finds in a block.
LEMMA BlockTypes ==
  ASSUME IInv, NEW b \in Blocks, live[b] # None
  PROVE  /\ live[b] \in BlockRecords
         /\ live[b].from \in {"crt", "arena"} \X (Crts \cup Nat) /\ live[b].crt \in Crts
         /\ live[b].size \in Nat /\ live[b].data \in Nat /\ live[b].data <= live[b].size
<1>1. live[b] \in BlockRecords /\ live[b].data <= live[b].size
  BY Zenon DEF IInv, TypeOK
<1> QED  BY <1>1, Zenon DEF BlockRecords

-------------------------------------------------------------------------------
(***************************************************************************)
(* The program's calls.                                                    *)
(***************************************************************************)
\* The call of a thread that has just entered a redirecting hook.
Entered(t, op, m, bytes, old, want) ==
  [Idle EXCEPT !.pc = "ensure", !.op = op, !.crt = m, !.bytes = bytes, !.old = old,
               !.owned = old # None /\ arena_owns(old), !.want = want,
               !.g_depth = 1, !.ops = thr[t].ops]

LEMMA EnterStep ==
  ASSUME IInv, NEW t \in Apps, thr[t].pc = "idle", thr[t].ops < MaxOps,
         NEW op \in {"malloc", "calloc", "realloc"}, NEW m \in hooked,
         NEW bytes \in 0 .. Word - 1, NEW old \in Blocks \cup {None}, NEW want \in Nat,
         op = "malloc" => want = 0, op = "calloc" => want = bytes,
         op # "realloc" => old = None,
         op = "realloc" => /\ old # None /\ live[old] # None /\ Unheld(old)
                           /\ live[old].crt = m /\ want = Min({live[old].data, bytes}),
         Enter(t, op, m, bytes, old, want),
         UNCHANGED <<live, state, arena, net, hooked, slots, loaded, dll, handed>>
  PROVE  IInv'
<1> DEFINE c == Entered(t, op, m, bytes, old, want)
<1>1. thr[t] \in Calls /\ m \in Crts
  BY Zenon DEF IInv, TypeOK
<1>2. thr[t].ops \in 0 .. MaxOps
  BY <1>1, Zenon DEF Calls
<1>3. /\ c.pc = "ensure" /\ c.op = op /\ c.crt = m /\ c.bytes = bytes /\ c.old = old
      /\ c.res = None /\ c.want = want /\ c.g_depth = 1 /\ c.ops = thr[t].ops
      /\ c.owned = (old # None /\ arena_owns(old))
  BY Zenon DEF Entered, Idle
<1>4. c \in Calls
  <2> DEFINE own == old # None /\ arena_owns(old)
  <2>1. own \in BOOLEAN
    BY Zenon
  <2>2. c = [Idle EXCEPT !.pc = "ensure", !.op = op, !.crt = m, !.bytes = bytes, !.old = old,
                         !.owned = own, !.want = want, !.g_depth = 1, !.ops = thr[t].ops]
    BY Zenon DEF Entered
  <2> HIDE DEF own, c
  <2>3. c = [pc |-> "ensure", op |-> op, crt |-> m, bytes |-> bytes, old |-> old, res |-> None,
             owned |-> own, want |-> want, g_depth |-> 1, servicing |-> FALSE,
             ops |-> thr[t].ops]
    BY <2>2, Zenon DEF Idle
  <2>4. op \in {"malloc", "calloc", "realloc", "fill"} /\ m \in Crts \cup {None}
    BY <1>1, Zenon
  <2> QED  BY <1>2, <2>1, <2>3, <2>4, Zenon DEF Calls
<1>5. thr' = [thr EXCEPT ![t] = c]
  BY Zenon DEF Enter, Entered
<1> HIDE DEF c
<1>6. Held(c) = {old} \ {None}
  BY <1>3, Zenon DEF Held
<1>7. OldOK(c, live, dll)
  <2>1. op = "realloc" /\ dll = "attached" =>
          ((old # None /\ arena_owns(old)) <=> live[old].from[1] = "arena")
    BY ArenaOwns, Zenon
  <2> QED  BY <1>3, <2>1, Zenon DEF OldOK
<1>8. ResOK(c, live)
  BY <1>3, Zenon DEF ResOK, Early, Touching
<1>9. WantOK(c)
  BY <1>3, Zenon DEF WantOK, Away
<1>10. CallerOK(c, t, state, hooked, dll)
  BY <1>1, <1>3, Zenon DEF CallerOK, Building
<1>11. CallOK(c, t, live, state, hooked, dll)
  BY <1>6, <1>7, <1>8, <1>9, <1>10, Zenon DEF CallOK
<1>12. \A x \in Held(c) : x \in Held(thr[t]) \/ Unheld(x)
  BY <1>6, Zenon
<1> QED  BY <1>4, <1>5, <1>11, <1>12, OnlyCall, Zenon

\* real_malloc and real_calloc hand out a block of their runtime.
LEMMA RealAllocStep ==
  ASSUME IInv, NEW t \in Apps, thr[t].ops < MaxOps, thr[t].pc \notin {"await", "fault"},
         NEW m \in Crts, NEW size \in Nat, NEW data \in Nat, data <= size,
         RealAlloc(m, size, data), thr' = Finished(t),
         UNCHANGED <<state, arena, net, hooked, slots, loaded, dll, handed>>
  PROVE  IInv'
<1>1. CASE UNCHANGED live
  BY <1>1, OverStep, Zenon
<1>2. ASSUME NEW b \in Spare, live' = [live EXCEPT ![b] = Block(Crt(m), m, size, data)]
      PROVE  IInv'
  <2> DEFINE r == Block(Crt(m), m, size, data)
  <2>1. /\ r \in BlockRecords /\ r.from = Crt(m) /\ r.crt = m
        /\ r.size = size /\ r.data = data
    <3>1. Crt(m) \in {"crt", "arena"} \X (Crts \cup Nat)
      BY Issuers, Zenon
    <3> QED  BY <3>1, BlockFields
  <2>2. b \in Blocks /\ Unheld(b)
    BY SpareUnheld, Zenon
  <2>3. live' = [live EXCEPT ![b] = r]
    BY <1>2, Zenon
  <2> HIDE DEF r
  <2>4. r \in BlockRecords \cup {None} /\ r.data <= r.size
        /\ IssuerOK(r, state, arena, hooked)
    BY <2>1, Zenon DEF IssuerOK
  <2> QED  BY <2>2, <2>3, <2>4, NoHandBack, OverBlock, Zenon
<1> QED  BY <1>1, <1>2, Zenon DEF RealAlloc

LEMMA CallFacts ==
  ASSUME IInv, NEW t \in Apps, NEW m, CanCall(t, m)
  PROVE  /\ m \in Crts /\ thr[t].ops < MaxOps /\ thr[t].pc = "idle"
         /\ thr[t].pc \notin {"await", "fault"}
<1>1. thr[t].pc = "idle"
  BY Zenon DEF CanCall
<1>2. thr[t].pc \notin {"await", "fault"}
  BY <1>1, Zenon
<1> QED  BY <1>1, <1>2, Zenon DEF CanCall, IInv, TypeOK

LEMMA MallocStep ==
  ASSUME IInv, NEW t \in Apps, NEW m, NEW bytes \in Sizes, Malloc(t, m, bytes)
  PROVE  IInv'
<1>1. bytes \in 0 .. Word - 1
  BY HookAssumption, Zenon
<1>2. bytes \in Nat /\ 0 \in Nat /\ 0 <= bytes
  BY <1>1
<1>3. CASE Hooked(m, bytes)
  <2>1. m \in hooked
    BY <1>3, Zenon DEF Hooked
  <2>2. /\ Enter(t, "malloc", m, bytes, None, 0)
        /\ UNCHANGED <<live, state, arena, net, hooked, slots, loaded, dll, handed>>
    BY <1>3, Zenon DEF Malloc
  <2>3. thr[t].pc = "idle" /\ thr[t].ops < MaxOps
    BY Zenon DEF Malloc, CanCall
  <2> QED  BY <1>1, <1>2, <2>1, <2>2, <2>3, EnterStep, Zenon
<1>4. CASE ~ Hooked(m, bytes)
  <2>1. RealAlloc(m, bytes, 0) /\ thr' = Finished(t) /\ CanCall(t, m)
        /\ UNCHANGED <<state, arena, net, hooked, slots, loaded, dll, handed>>
    BY <1>4, Zenon DEF Malloc
  <2> QED  BY <1>2, <2>1, CallFacts, RealAllocStep, Zenon
<1> QED  BY <1>3, <1>4, Zenon

LEMMA CallocStep ==
  ASSUME IInv, NEW t \in Apps, NEW m, NEW count \in Counts, NEW size \in Sizes,
         Calloc(t, m, count, size)
  PROVE  IInv'
<1> DEFINE bytes == (count * size) % Word
<1>0. CanCall(t, m) /\ UNCHANGED <<state, arena, net, hooked, slots, loaded, dll, handed>>
  BY Zenon DEF Calloc
<1>1. CASE Overflows(count, size)
  <2>1. thr' = Finished(t) /\ UNCHANGED live
    BY <1>1, Zenon DEF Calloc
  <2> QED  BY <1>0, <2>1, CallFacts, OverStep, Zenon
<1>2. CASE ~ Overflows(count, size)
  <2>1. count \in 0 .. Word - 1 /\ size \in 0 .. Word - 1
    BY HookAssumption, Zenon
  <2>2. bytes = count * size /\ bytes \in 0 .. Word - 1
    BY <1>2, <2>1, FitsWord, Zenon
  <2>3. bytes \in Nat /\ bytes <= bytes
    BY <2>2
  <2>4. CASE Hooked(m, bytes)
    <3>1. Enter(t, "calloc", m, bytes, None, count * size) /\ UNCHANGED live
      BY <1>2, <2>4, Zenon DEF Calloc
    <3>2. Enter(t, "calloc", m, bytes, None, bytes)
      BY <2>2, <3>1, Zenon
    <3>3. m \in hooked
      BY <2>4, Zenon DEF Hooked
    <3> HIDE DEF bytes
    <3>4. thr[t].pc = "idle" /\ thr[t].ops < MaxOps
      BY <1>0, Zenon DEF CanCall
    <3> QED  BY <1>0, <2>2, <2>3, <3>1, <3>2, <3>3, <3>4, EnterStep, Zenon
  <2>5. CASE ~ Hooked(m, bytes)
    <3>1. RealAlloc(m, bytes, bytes) /\ thr' = Finished(t)
      BY <1>2, <2>5, Zenon DEF Calloc
    <3> QED  BY <1>0, <2>3, <3>1, CallFacts, RealAllocStep, Zenon
  <2> QED  BY <2>4, <2>5, Zenon
<1> QED  BY <1>1, <1>2, Zenon

\* What the arena does not own, or its runtime's hook does not see, is the runtime's.
LEMMA OwnRuntime ==
  ASSUME IInv, NEW b \in Blocks, NEW m, Usable(b, m), ~ (m \in hooked /\ arena_owns(b)),
         dll = "attached"
  PROVE  live[b].from = Crt(m)
  BY UsableUnheld, ArenaOwns, Zenon

LEMMA FreeStep ==
  ASSUME IInv, NEW t \in Apps, NEW m, NEW b \in Blocks, Free(t, m, b)
  PROVE  IInv'
<1>1. /\ CanCall(t, m) /\ Usable(b, m) /\ thr' = Finished(t)
      /\ UNCHANGED <<state, arena, net, hooked, slots, loaded, dll>>
  BY Zenon DEF Free
<1>2. Unheld(b)
  BY <1>1, UsableUnheld, Zenon
<1>3. live' = [live EXCEPT ![b] = None]
  BY Zenon DEF Free, RealFree
<1>4. FreedWhereIssued'
  <2>1. CASE m \in hooked /\ arena_owns(b)
    <3>1. handed' = handed \cup {<<live[b].from, Arena(arena)>>}
      BY <2>1, Zenon DEF Free
    <3>2. live[b].from = Arena(arena)
      BY <2>1, Zenon DEF arena_owns
    <3> QED  BY <1>1, <3>1, <3>2, HandBack, Zenon
  <2>2. CASE ~ (m \in hooked /\ arena_owns(b))
    <3>1. handed' = handed \cup {<<live[b].from, Crt(m)>>}
      BY <2>2, Zenon DEF Free, RealFree
    <3> QED  BY <1>1, <2>2, <3>1, OwnRuntime, HandBack, Zenon
  <2> QED  BY <2>1, <2>2, Zenon
<1> QED  BY <1>1, <1>2, <1>3, <1>4, CallFacts, OverBlock, Zenon

LEMMA MsizeStep ==
  ASSUME IInv, NEW t \in Apps, NEW m, NEW b \in Blocks, Msize(t, m, b)
  PROVE  IInv'
<1> DEFINE to == IF m \in hooked /\ arena_owns(b) THEN Arena(arena) ELSE Crt(m)
<1>1. /\ CanCall(t, m) /\ Usable(b, m) /\ thr' = Finished(t)
      /\ handed' = handed \cup {<<live[b].from, to>>}
      /\ UNCHANGED <<live, state, arena, net, hooked, slots, loaded, dll>>
  BY Zenon DEF Msize
<1>2. dll = "attached" => live[b].from = to
  BY <1>1, OwnRuntime, Zenon DEF arena_owns
<1> HIDE DEF to
<1>3. FreedWhereIssued'
  BY <1>1, <1>2, HandBack, Zenon
<1>4. live' = [live EXCEPT ![b] = live[b]] /\ live[b] \in BlockRecords \cup {None}
  BY <1>1, Zenon DEF IInv, TypeOK
<1>5. Unheld(b) /\ live[b].data <= live[b].size
      /\ (dll = "attached" => IssuerOK(live[b], state, arena, hooked))
  BY <1>1, UsableUnheld, Zenon DEF IInv, TypeOK, BlocksOK
<1> QED  BY <1>1, <1>3, <1>4, <1>5, CallFacts, OverBlock, Zenon

\* The runtime's realloc resizes a block of its own.
LEMMA Resized ==
  ASSUME IInv, NEW b \in Blocks, live[b] # None, NEW m \in Crts, NEW bytes \in Nat,
         dll = "attached" => live[b].from = Crt(m)
  PROVE  LET r == Block(live[b].from, m, bytes, Kept(b, bytes)) IN
         /\ Kept(b, bytes) \in Nat
         /\ r \in BlockRecords /\ r # None /\ r.size = bytes
         /\ r.data = Kept(b, bytes) /\ r.data <= r.size
         /\ dll = "attached" => IssuerOK(r, state, arena, hooked)
<1> DEFINE k == Kept(b, bytes)
           r == Block(live[b].from, m, bytes, k)
<1>1. /\ live[b].from \in {"crt", "arena"} \X (Crts \cup Nat)
      /\ live[b].data \in Nat /\ live[b].size \in Nat /\ live[b].data <= live[b].size
  BY BlockTypes, Zenon
<1>2. k \in Nat /\ k <= bytes
  BY <1>1, MinOfTwo, MinOfThree, Zenon DEF Kept
<1> HIDE DEF k
<1>3. /\ r \in BlockRecords /\ r # None
      /\ r.from = live[b].from /\ r.crt = m /\ r.size = bytes /\ r.data = k
  BY <1>1, <1>2, BlockFields, SMTT(30)
<1> HIDE DEF r
<1>4. r.data <= r.size /\ (dll = "attached" => IssuerOK(r, state, arena, hooked))
  BY <1>2, <1>3, Zenon DEF IssuerOK
<1> QED  BY <1>2, <1>3, <1>4, Zenon DEF k, r

\* A call that ends and leaves the block it was given as it was.
LEMMA OverKept ==
  ASSUME IInv, NEW t \in Apps, thr[t].ops < MaxOps,
         thr' = Finished(t), thr[t].pc \notin {"await", "fault"},
         NEW b \in Blocks, live[b] # None, b \in Held(thr[t]) \/ Unheld(b),
         UNCHANGED <<live, state, arena, net, hooked, slots, loaded, dll>>,
         FreedWhereIssued'
  PROVE  IInv'
<1>1. live' = [live EXCEPT ![b] = live[b]]
  BY Zenon DEF IInv, TypeOK
<1>2. /\ live[b] \in BlockRecords \cup {None} /\ live[b].data <= live[b].size
      /\ dll = "attached" => IssuerOK(live[b], state, arena, hooked)
  BY Zenon DEF IInv, TypeOK, BlocksOK
<1> QED  BY <1>1, <1>2, OverBlock, Zenon

LEMMA ReallocStep ==
  ASSUME IInv, NEW t \in Apps, NEW m, NEW b \in Blocks, NEW bytes \in Sizes,
         Realloc(t, m, b, bytes)
  PROVE  IInv'
<1>1. /\ CanCall(t, m) /\ Usable(b, m)
      /\ UNCHANGED <<state, arena, net, hooked, slots, loaded, dll>>
  BY Zenon DEF Realloc
<1>2. bytes \in 0 .. Word - 1
  BY HookAssumption, Zenon
<1>3. bytes \in Nat
  BY <1>2
<1>4. live[b] # None /\ live[b].crt = m /\ Unheld(b) /\ b # None
  BY <1>1, UsableUnheld, HookAssumption, Zenon
<1>5. /\ m \in Crts /\ thr[t].ops < MaxOps /\ thr[t].pc = "idle"
      /\ thr[t].pc \notin {"await", "fault"}
  BY <1>1, CallFacts, Zenon
<1> DEFINE Moves == \/ m \in hooked /\ arena_owns(b)
                    \/ Hooked(m, bytes) /\ m \notin NoMsize
<1>6. CASE Moves
  <2>1. m \in hooked /\ Enter(t, "realloc", m, bytes, b, Kept(b, bytes))
        /\ UNCHANGED <<live, handed>>
    BY <1>6, Zenon DEF Realloc, Hooked
  <2>2. live[b].data \in Nat
    BY <1>4, BlockTypes, Zenon
  <2>3. Kept(b, bytes) \in Nat /\ Kept(b, bytes) = Min({live[b].data, bytes})
    BY <1>3, <2>2, MinOfTwo, Zenon DEF Kept
  <2> QED  BY <1>1, <1>2, <1>4, <1>5, <2>1, <2>3, EnterStep, Zenon
<1>7. CASE ~ Moves
  <2> DEFINE r == Block(live[b].from, m, bytes, Kept(b, bytes))
  <2>1. /\ live' = [live EXCEPT ![b] = r] \/ UNCHANGED live
        /\ thr' = Finished(t)
        /\ handed' = handed \cup {<<live[b].from, Crt(m)>>}
    BY <1>7, Zenon DEF Realloc, RealRealloc, RealReallocFails
  <2>2. dll = "attached" => live[b].from = Crt(m)
    BY <1>1, <1>7, OwnRuntime, Zenon
  <2>3. r \in BlockRecords /\ r.data <= r.size
        /\ (dll = "attached" => IssuerOK(r, state, arena, hooked))
    BY <1>3, <1>4, <1>5, <2>2, Resized, Zenon
  <2>4. FreedWhereIssued'
    BY <1>1, <2>1, <2>2, HandBack, Zenon
  <2> HIDE DEF r
  <2>5. CASE live' = [live EXCEPT ![b] = r]
    BY <1>1, <1>4, <1>5, <2>1, <2>3, <2>4, <2>5, OverBlock, Zenon
  <2>6. CASE UNCHANGED live
    BY <1>1, <1>4, <1>5, <2>1, <2>4, <2>6, OverKept, Zenon
  <2> QED  BY <2>1, <2>5, <2>6, Zenon
<1> QED  BY <1>6, <1>7, Zenon

\* A call that goes on to step x.
Moved(t, x) == [thr[t] EXCEPT !.pc = x]

Pcs == {"idle", "ensure", "lock", "build", "await", "built", "arena", "fallback",
        "touch", "fault", "copy", "release", "done", "scan", "stuck", "crashed"}

LEMMA MovedFields ==
  ASSUME IInv, NEW t \in Apps, NEW x \in Pcs
  PROVE  LET c == Moved(t, x)
             d == thr[t]
         IN  /\ c \in Calls /\ c.pc = x
             /\ c.op = d.op /\ c.crt = d.crt /\ c.bytes = d.bytes /\ c.old = d.old
             /\ c.res = d.res /\ c.owned = d.owned /\ c.want = d.want
             /\ c.g_depth = d.g_depth /\ c.ops = d.ops
             /\ Held(c) = Held(d)
             /\ [thr EXCEPT ![t].pc = x] = [thr EXCEPT ![t] = c]
<1> DEFINE c == Moved(t, x)
           d == thr[t]
<1>1. thr \in [Apps -> Calls] /\ d \in Calls
  BY Zenon DEF IInv, TypeOK
<1>2. /\ c \in Calls /\ c.pc = x
      /\ c.op = d.op /\ c.crt = d.crt /\ c.bytes = d.bytes /\ c.old = d.old
      /\ c.res = d.res /\ c.owned = d.owned /\ c.want = d.want
      /\ c.g_depth = d.g_depth /\ c.ops = d.ops
  <2> HIDE DEF d
  <2>1. c = [d EXCEPT !.pc = x]
    BY Zenon DEF Moved, d
  <2> HIDE DEF c
  <2> QED  BY <1>1, <2>1, Zenon DEF Calls, Pcs
<1>3. [thr EXCEPT ![t].pc = x] = [thr EXCEPT ![t] = c]
  BY <1>1, Zenon DEF Moved
<1>4. Held(c) = Held(d)
  <2> HIDE DEF c, d
  <2> QED  BY <1>2, Zenon DEF Held
<1> QED  BY <1>2, <1>3, <1>4, Zenon

LEMMA FillStep ==
  ASSUME IInv, NEW t \in Apps, NEW b \in Blocks, Fill(t, b)
  PROVE  IInv'
<1> DEFINE d == thr[t]
<1>1. /\ d.pc = "idle" /\ d.ops < MaxOps /\ live[b] # None /\ Usable(b, live[b].crt)
      /\ UNCHANGED <<state, arena, net, hooked, slots, loaded, dll, handed>>
  BY Zenon DEF Fill
<1>2. Unheld(b) /\ b # None
  BY <1>1, UsableUnheld, HookAssumption, Zenon
<1>3. d.pc \notin {"await", "fault"}
  BY <1>1, Zenon
<1>4. thr \in [Apps -> Calls] /\ d \in Calls
  BY Zenon DEF IInv, TypeOK
<1>5. CASE live[b].from[1] = "arena"
  <2> DEFINE c == [d EXCEPT !.pc = "touch", !.op = "fill", !.res = b]
  <2>1. UNCHANGED live
    BY <1>5, Zenon DEF Fill
  <2>2. thr' = [thr EXCEPT ![t] = c]
    <3>1. thr' = [thr EXCEPT ![t].pc = "touch", ![t].op = "fill", ![t].res = b]
      BY <1>5, Zenon DEF Fill
    <3> QED  BY <1>4, <3>1, Zenon
  <2>3. /\ c \in Calls /\ c.pc = "touch" /\ c.op = "fill" /\ c.res = b
        /\ c.old = d.old /\ c.want = d.want /\ c.ops = d.ops
    <3> HIDE DEF d
    <3> QED  BY <1>4, Zenon DEF Calls
  <2>4. WantOK(d)
    BY Zenon DEF IInv, CallOK
  <2>5. d.want = 0 /\ d.old = None
    BY <1>1, <2>4, Zenon DEF WantOK, Away, Held
  <2> HIDE DEF c, d
  <2>6. Held(c) = {b}
    BY <1>2, <2>3, <2>5, Zenon DEF Held
  <2>7. OldOK(c, live, dll)
    BY <2>3, Zenon DEF OldOK
  <2>8. ResOK(c, live)
    BY <1>2, <2>3, <2>5, Zenon DEF ResOK, Early, Touching
  <2>9. WantOK(c)
    BY <2>3, <2>5, Zenon DEF WantOK, Away
  <2>10. CallerOK(c, t, state, hooked, dll)
    BY <1>1, <2>3, Zenon DEF CallerOK, Away, Building
  <2>11. CallOK(c, t, live, state, hooked, dll)
    BY <1>1, <2>6, <2>7, <2>8, <2>9, <2>10, Zenon DEF CallOK
  <2>12. \A x \in Held(c) : x \in Held(thr[t]) \/ Unheld(x)
    BY <1>2, <2>6, Zenon
  <2> QED  BY <1>1, <1>3, <2>1, <2>2, <2>3, <2>11, <2>12, OnlyCall, Zenon DEF d
<1>6. CASE live[b].from[1] # "arena"
  <2> DEFINE r == [live[b] EXCEPT !.data = live[b].size]
  <2>1. live' = [live EXCEPT ![b].data = live[b].size] /\ thr' = Finished(t)
    BY <1>6, Zenon DEF Fill
  <2>2. live' = [live EXCEPT ![b] = r]
    BY <2>1, Zenon DEF IInv, TypeOK
  <2>3. live[b] \in BlockRecords
    BY <1>1, BlockTypes, Zenon
  <2>4. /\ r \in BlockRecords /\ r.from = live[b].from /\ r.crt = live[b].crt
        /\ r.data = live[b].size /\ r.size = live[b].size /\ r.data <= r.size
    BY <2>3 DEF BlockRecords
  <2>5. dll = "attached" => IssuerOK(live[b], state, arena, hooked)
    BY <1>1, Zenon DEF IInv, BlocksOK
  <2> HIDE DEF r
  <2>6. dll = "attached" => IssuerOK(r, state, arena, hooked)
    BY <2>4, <2>5, Zenon DEF IssuerOK
  <2> QED  BY <1>1, <1>2, <1>3, <2>1, <2>2, <2>4, <2>6, NoHandBack, OverBlock, Zenon
<1> QED  BY <1>5, <1>6, Zenon

\* LoadLibraryExW, and the scan it ends with, leave the thread without a block.
LEMMA AwayOK ==
  ASSUME IInv, NEW t \in Apps, thr[t].pc \in Away, NEW x \in Away, NEW hk, hooked \subseteq hk
  PROVE  CallOK(Moved(t, x), t, live, state, hk, dll)
<1> DEFINE c == Moved(t, x)
<1>0. x \in Pcs
  BY Zenon DEF Away, Pcs
<1>1. c.pc = x /\ c.op = thr[t].op /\ c.bytes = thr[t].bytes /\ c.old = thr[t].old
      /\ c.want = thr[t].want /\ Held(c) = Held(thr[t])
  BY <1>0, MovedFields, Zenon
<1>2. WantOK(thr[t])
  BY Zenon DEF IInv, CallOK
<1> HIDE DEF c
<1>3. WantOK(c) /\ Held(c) = {}
  BY <1>1, <1>2, Zenon DEF WantOK
<1>4. OldOK(c, live, dll) /\ ResOK(c, live)
  BY <1>1, Zenon DEF OldOK, ResOK, Early, Touching, Away
<1>5. CallerOK(c, t, state, hk, dll)
  BY <1>1, Zenon DEF CallerOK, Away, Building
<1>6. CallOK(c, t, live, state, hk, dll)
  BY <1>3, <1>4, <1>5, Zenon DEF CallOK
<1> QED  BY <1>6, Zenon DEF c

\* The hooks grow, and with them what the invariant says of the blocks.
LEMMA MoreHooks ==
  ASSUME IInv, hooked \subseteq hooked', UNCHANGED <<live, state, arena, dll>>
  PROVE  BlocksOK(live', state', arena', hooked', dll')
  BY Zenon DEF IInv, BlocksOK, IssuerOK

LEMMA LoadLibraryStep ==
  ASSUME IInv, NEW t \in Apps, NEW m \in Crts, LoadLibrary(t, m)
  PROVE  IInv'
<1> DEFINE x == IF dll = "removed" THEN "idle" ELSE "scan"
           c == Moved(t, x)
<1>1. /\ thr[t].pc = "idle" /\ loaded' = loaded \cup {m}
      /\ thr' = [thr EXCEPT ![t].pc = x]
      /\ UNCHANGED <<live, state, arena, net, hooked, slots, dll, handed>>
  BY Zenon DEF LoadLibrary
<1>2. x \in Away /\ x \in Pcs /\ thr[t].pc \in Away /\ thr[t].pc \notin {"await", "fault"}
  BY <1>1, Zenon DEF Away, Pcs
<1> HIDE DEF x
<1>3. c \in Calls /\ Held(c) = Held(thr[t]) /\ thr' = [thr EXCEPT ![t] = c]
  BY <1>1, <1>2, MovedFields, Zenon
<1>4. CallOK(c, t, live', state', hooked', dll')
  BY <1>1, <1>2, AwayOK, Zenon
<1> HIDE DEF c
<1>5. \A u \in Apps \ {t} : Held(c) \cap Held(thr[u]) = {}
  BY <1>3, Zenon DEF IInv, Exclusive
<1>6. World(live', state', arena', net', hooked', slots', loaded')
  BY <1>1, Zenon DEF IInv, TypeOK, World
<1>7. t \notin net'.asked /\ net'.asked \subseteq net.asked \cup {t}
  BY <1>1, <1>2, Zenon DEF IInv, AskedOK
<1>8. FreedWhereIssued' /\ BlocksOK(live', state', arena', hooked', dll')
  BY <1>1, NoHandBack, MoreHooks, Zenon
<1> QED  BY <1>1, <1>3, <1>4, <1>5, <1>6, <1>7, <1>8, Assemble, Zenon

LEMMA ScanStep ==
  ASSUME IInv, NEW t \in Apps, ScanAndAttach(t)
  PROVE  IInv'
<1> DEFINE c == Moved(t, "idle")
<1>1. /\ thr[t].pc = "scan" /\ slots' = loaded
      /\ hooked' = hooked \cup (loaded \ slots) \/ hooked' = hooked
      /\ thr' = [thr EXCEPT ![t].pc = "idle"]
      /\ UNCHANGED <<live, state, arena, net, loaded, dll, handed>>
  BY Zenon DEF ScanAndAttach
<1>2. "idle" \in Away /\ "idle" \in Pcs /\ thr[t].pc \in Away
      /\ thr[t].pc \notin {"await", "fault"}
  BY <1>1, Zenon DEF Away, Pcs
<1>3. c \in Calls /\ Held(c) = Held(thr[t]) /\ thr' = [thr EXCEPT ![t] = c]
  BY <1>1, <1>2, MovedFields, Zenon
<1>4. hooked \subseteq hooked' /\ hooked' \subseteq loaded
  BY <1>1, Zenon DEF IInv, TypeOK
<1>5. CallOK(c, t, live', state', hooked', dll')
  BY <1>1, <1>2, <1>4, AwayOK, Zenon
<1> HIDE DEF c
<1>6. \A u \in Apps \ {t} : Held(c) \cap Held(thr[u]) = {}
  BY <1>3, Zenon DEF IInv, Exclusive
<1>7. World(live', state', arena', net', hooked', slots', loaded')
  BY <1>1, <1>4, Zenon DEF IInv, TypeOK, World
<1>8. t \notin net'.asked /\ net'.asked \subseteq net.asked \cup {t}
  BY <1>1, <1>2, Zenon DEF IInv, AskedOK
<1>9. FreedWhereIssued' /\ BlocksOK(live', state', arena', hooked', dll')
  BY <1>1, <1>4, NoHandBack, MoreHooks, Zenon
<1> QED  BY <1>1, <1>3, <1>4, <1>5, <1>6, <1>7, <1>8, <1>9, Assemble, Zenon

-------------------------------------------------------------------------------
(***************************************************************************)
(* Inside a redirecting hook.                                              *)
(***************************************************************************)
\* Two calls that differ only in the step they are at.
Same(c, d) ==
  /\ c.op = d.op /\ c.crt = d.crt /\ c.bytes = d.bytes /\ c.old = d.old /\ c.res = d.res
  /\ c.owned = d.owned /\ c.want = d.want /\ c.g_depth = d.g_depth /\ c.ops = d.ops

\* The steps that take no block and finish none: the call stays before the arena's
\* answer, or stays with the block it has, or hangs.
Goes(p, x) ==
  /\ p \in Early \cup Touching
  /\ x \in Early => p \in Early
  /\ x \in Touching => p \in Touching
  /\ x \in {"ensure", "lock", "build"} => p \in {"ensure", "lock", "build"}
  /\ x \notin Away \cup {"release", "done"}

LEMMA InsideOK ==
  ASSUME IInv, NEW t \in Apps, NEW c, Same(c, thr[t]), Goes(thr[t].pc, c.pc),
         NEW st, c.pc \in Building => st.init = "new" /\ st.owner = t
  PROVE  CallOK(c, t, live, st, hooked, dll) /\ Held(c) = Held(thr[t])
<1> DEFINE d == thr[t]
<1>1. CallOK(d, t, live, state, hooked, dll)
  BY Zenon DEF IInv
<1> HIDE DEF d
<1>2. Same(c, d) /\ Goes(d.pc, c.pc)
  BY Zenon DEF d
<1>3. Held(c) = Held(d)
  BY <1>2, Zenon DEF Same, Held
<1>4. d.pc \notin Away /\ d.pc \notin {"release", "done"}
  BY <1>2, Zenon DEF Goes, Early, Touching, Away
<1>5. OldOK(c, live, dll)
  BY <1>1, <1>2, Zenon DEF CallOK, OldOK, Same, Goes
<1>6. ResOK(c, live)
  BY <1>1, <1>2, Zenon DEF CallOK, ResOK, Same, Goes
<1>7. WantOK(c)
  BY <1>1, <1>2, <1>3, Zenon DEF CallOK, WantOK, Same, Goes
<1>8. CallerOK(c, t, st, hooked, dll)
  BY <1>1, <1>2, <1>4, Zenon DEF CallOK, CallerOK, Same, Goes
<1>9. \A b \in Held(c) : live[b] # None
  BY <1>1, <1>3, Zenon DEF CallOK
<1>10. CallOK(c, t, live, st, hooked, dll)
  BY <1>5, <1>6, <1>7, <1>8, <1>9, Zenon DEF CallOK
<1> QED  BY <1>3, <1>10, Zenon DEF d

LEMMA InsideStep ==
  ASSUME IInv, NEW t \in Apps, NEW c \in Calls, Same(c, thr[t]), Goes(thr[t].pc, c.pc),
         thr' = [thr EXCEPT ![t] = c],
         c.pc \in Building => state'.init = "new" /\ state'.owner = t,
         \A u \in Apps \ {t} :
           thr[u].pc \in Building => state'.init = state.init /\ state'.owner = state.owner,
         UNCHANGED <<live, hooked, slots, loaded, dll, handed>>,
         World(live, state', arena', net', hooked, slots, loaded),
         BlocksOK(live, state', arena', hooked, dll),
         net'.asked \subseteq net.asked \cup {t},
         t \in net'.asked => c.pc \in {"await", "fault"}
  PROVE  IInv'
<1>1. CallOK(c, t, live, state', hooked, dll) /\ Held(c) = Held(thr[t])
  BY InsideOK, Zenon
<1>2. CallOK(c, t, live', state', hooked', dll')
  BY <1>1, Zenon
<1>3. \A u \in Apps \ {t} : Held(c) \cap Held(thr[u]) = {}
  BY <1>1, Zenon DEF IInv, Exclusive
<1>4. /\ World(live', state', arena', net', hooked', slots', loaded')
      /\ BlocksOK(live', state', arena', hooked', dll')
  BY Zenon
<1>5. \A u \in Apps \ {t} : \A b \in Held(thr[u]) : live'[b] = live[b]
  BY Zenon
<1>6. dll' = dll /\ hooked \subseteq hooked'
  BY Zenon
<1>7. FreedWhereIssued'
  BY NoHandBack, Zenon
<1> QED  BY <1>2, <1>3, <1>4, <1>5, <1>6, <1>7, Assemble, Zenon

\* The same where only the call changes.
LEMMA InsideOnly ==
  ASSUME IInv, NEW t \in Apps, NEW x \in Pcs, Goes(thr[t].pc, x),
         thr' = [thr EXCEPT ![t].pc = x],
         thr[t].pc \notin {"await", "fault"}, x \notin Building,
         UNCHANGED <<live, state, arena, net, hooked, slots, loaded, dll, handed>>
  PROVE  IInv'
<1> DEFINE c == Moved(t, x)
<1>1. /\ c \in Calls /\ c.pc = x /\ thr' = [thr EXCEPT ![t] = c]
      /\ Same(c, thr[t]) /\ Held(c) = Held(thr[t])
  BY MovedFields, Zenon DEF Same
<1> HIDE DEF c
<1>2. CallOK(c, t, live, state, hooked, dll)
  BY <1>1, InsideOK, Zenon
<1>3. \A b \in Held(c) : b \in Held(thr[t]) \/ Unheld(b)
  BY <1>1, Zenon
<1> QED  BY <1>1, <1>2, <1>3, OnlyCall, Zenon

LEMMA EnsureStep ==
  ASSUME IInv, NEW t \in Apps, EnsureFast(t) \/ EnsureSlow(t) \/ NullArena(t)
  PROVE  IInv'
<1>1. PICK x \in {"arena", "fallback", "lock", "crashed"} :
        /\ thr' = [thr EXCEPT ![t].pc = x]
        /\ x = "lock" => thr[t].pc = "ensure"
        /\ thr[t].pc \in {"ensure", "arena"}
        /\ UNCHANGED <<live, state, arena, net, hooked, slots, loaded, dll, handed>>
  <2>1. CASE EnsureFast(t)
    BY <2>1, Zenon DEF EnsureFast
  <2>2. CASE EnsureSlow(t)
    BY <2>2, Zenon DEF EnsureSlow
  <2>3. CASE NullArena(t)
    <3>1. thr[t].pc = "arena" /\ thr' = [thr EXCEPT ![t].pc = "crashed"]
          /\ UNCHANGED <<live, state, arena, net, hooked, slots, loaded, dll, handed>>
      BY <2>3, Zenon DEF NullArena
    <3>2. "crashed" # "lock"
      BY Zenon
    <3> QED  BY <3>1, <3>2, Zenon
  <2> QED  BY <2>1, <2>2, <2>3, Zenon
<1>2. Goes(thr[t].pc, x) /\ x \in Pcs /\ x \notin Building
      /\ thr[t].pc \notin {"await", "fault"}
  BY <1>1, Zenon DEF Goes, Early, Touching, Away, Building, Pcs
<1> QED  BY <1>1, <1>2, InsideOnly, Zenon

\* The holder of init_mutex is alone in building, and nothing is built yet.
LEMMA AloneBuilding ==
  ASSUME IInv, NEW t \in Apps, thr[t].pc \in Building
  PROVE  /\ state.init = "new" /\ state.owner = t
         /\ \A u \in Apps \ {t} : thr[u].pc \notin Building
         /\ dll = "attached" => \A b \in Blocks : live[b] # None => live[b].from = Crt(live[b].crt)
<1>1. \A u \in Apps : thr[u].pc \in Building => state.init = "new" /\ state.owner = u
  BY Zenon DEF IInv, CallOK, CallerOK
<1>2. state.init = "new" /\ state.init # "ready"
  BY <1>1, Zenon
<1> QED  BY <1>1, <1>2, Zenon DEF IInv, BlocksOK, IssuerOK

LEMMA LockedStep ==
  ASSUME IInv, NEW t \in Apps, EnsureLocked(t)
  PROVE  IInv'
<1>1. /\ thr[t].pc = "lock" /\ state.owner = None
      /\ UNCHANGED <<live, arena, net, hooked, slots, loaded, dll, handed>>
  BY Zenon DEF EnsureLocked
<1>2. state \in [init : {"new", "ready", "failed"}, owner : Apps \cup {None}, builds : Nat]
  BY Zenon DEF IInv, TypeOK
<1>3. thr[t].pc \notin {"await", "fault"}
  BY <1>1, Zenon
<1>4. CASE state.init \in {"ready", "failed"}
  <2>1. PICK x \in {"arena", "fallback"} : thr' = [thr EXCEPT ![t].pc = x] /\ UNCHANGED state
    BY <1>4, Zenon DEF EnsureLocked
  <2>2. Goes(thr[t].pc, x) /\ x \in Pcs /\ x \notin Building
    BY <1>1, <2>1, Zenon DEF Goes, Early, Touching, Away, Building, Pcs
  <2> QED  BY <1>1, <1>3, <2>1, <2>2, InsideOnly, Zenon
<1>5. CASE state.init = "new"
  <2> DEFINE c == Moved(t, "build")
  <2>1. thr' = [thr EXCEPT ![t].pc = "build"] /\ state' = [state EXCEPT !.owner = t]
    BY <1>5, Zenon DEF EnsureLocked
  <2>2. /\ state' \in [init : {"new", "ready", "failed"}, owner : Apps \cup {None}, builds : Nat]
        /\ state'.init = state.init /\ state'.owner = t
    BY <1>2, <2>1, Zenon
  <2>3. "build" \in Pcs /\ Goes(thr[t].pc, "build")
    BY <1>1, Zenon DEF Goes, Early, Touching, Away, Pcs
  <2>4. c \in Calls /\ c.pc = "build" /\ Same(c, thr[t]) /\ thr' = [thr EXCEPT ![t] = c]
    BY <2>1, <2>3, MovedFields, Zenon DEF Same
  <2> HIDE DEF c
  <2>5. \A u \in Apps : thr[u].pc \notin Building
    BY <1>1, HookAssumption, Zenon DEF IInv, CallOK, CallerOK
  <2>6. World(live, state', arena', net', hooked, slots, loaded)
    BY <1>1, <2>2, Zenon DEF IInv, TypeOK, World
  <2>7. BlocksOK(live, state', arena', hooked, dll)
    BY <1>1, <2>2, Zenon DEF IInv, BlocksOK, IssuerOK
  <2>8. net'.asked \subseteq net.asked \cup {t} /\ t \notin net'.asked
    BY <1>1, <1>3, Zenon DEF IInv, AskedOK
  <2>9. c.pc \in Building => state'.init = "new" /\ state'.owner = t
    BY <1>5, <2>2, Zenon
  <2>10. Goes(thr[t].pc, c.pc)
    BY <2>3, <2>4, Zenon
  <2>11. UNCHANGED <<live, hooked, slots, loaded, dll, handed>>
    BY <1>1, Zenon
  <2> QED  BY <2>4, <2>5, <2>6, <2>7, <2>8, <2>9, <2>10, <2>11, InsideStep, Zenon
<1> QED  BY <1>2, <1>4, <1>5, Zenon

LEMMA BuiltStep ==
  ASSUME IInv, NEW t \in Apps, Built(t)
  PROVE  IInv'
<1>1. thr[t].pc = "built" /\ UNCHANGED <<live, net, hooked, slots, loaded, dll, handed>>
  BY Zenon DEF Built
<1>2. thr[t].pc \in Building /\ thr[t].pc \notin {"await", "fault"}
  BY <1>1, Zenon DEF Building
<1>3. state \in [init : {"new", "ready", "failed"}, owner : Apps \cup {None}, builds : Nat]
  BY Zenon DEF IInv, TypeOK
<1>4. PICK x \in {"arena", "fallback"} :
        /\ thr' = [thr EXCEPT ![t].pc = x]
        /\ state' \in [init : {"new", "ready", "failed"}, owner : Apps \cup {None}, builds : Nat]
        /\ arena' \in Nat \cup {None} /\ (arena' # None => state'.init = "ready")
  <2>1. ASSUME state' = [init |-> "ready", owner |-> None, builds |-> state.builds + 1],
               arena' = state.builds + 1, thr' = [thr EXCEPT ![t].pc = "arena"]
        PROVE  /\ state' \in [init : {"new", "ready", "failed"}, owner : Apps \cup {None},
                              builds : Nat]
               /\ arena' \in Nat /\ state'.init = "ready"
    BY <1>3, <2>1
  <2>2. ASSUME state' = [state EXCEPT !.init = "failed", !.owner = None]
        PROVE  state' \in [init : {"new", "ready", "failed"}, owner : Apps \cup {None},
                           builds : Nat]
    BY <1>3, <2>2, Zenon
  <2> QED  BY <2>1, <2>2, Zenon DEF Built
<1> DEFINE c == Moved(t, x)
<1>5. x \in Pcs /\ Goes(thr[t].pc, x) /\ x \notin Building
  BY <1>1, <1>4, Zenon DEF Goes, Early, Touching, Away, Building, Pcs
<1>6. c \in Calls /\ c.pc = x /\ Same(c, thr[t]) /\ thr' = [thr EXCEPT ![t] = c]
  <2>1. thr' = [thr EXCEPT ![t].pc = x]
    BY <1>4, Zenon
  <2>2. x \in Pcs
    BY <1>5, Zenon
  <2> QED  BY <2>1, <2>2, MovedFields, Zenon DEF Same
<1> HIDE DEF c
<1>7. \A u \in Apps \ {t} : thr[u].pc \notin Building
  BY <1>2, AloneBuilding, Zenon
<1>8. World(live, state', arena', net', hooked, slots, loaded)
  BY <1>1, <1>4, Zenon DEF IInv, TypeOK, World
<1>9. BlocksOK(live, state', arena', hooked, dll)
  BY <1>2, AloneBuilding, Zenon DEF BlocksOK, IssuerOK
<1>10. net'.asked \subseteq net.asked \cup {t} /\ t \notin net'.asked
  BY <1>1, <1>2, Zenon DEF IInv, AskedOK
<1>11. Goes(thr[t].pc, c.pc) /\ c.pc \notin Building
  BY <1>5, <1>6, Zenon
<1>12. UNCHANGED <<live, hooked, slots, loaded, dll, handed>>
  BY <1>1, Zenon
<1> QED  BY <1>6, <1>7, <1>8, <1>9, <1>10, <1>11, <1>12, InsideStep, Zenon

\* A step of t that changes its call and what the network thread owes.
LEMMA AskStep ==
  ASSUME IInv, NEW t \in Apps, NEW c \in Calls, Same(c, thr[t]), Goes(thr[t].pc, c.pc),
         thr' = [thr EXCEPT ![t] = c],
         c.pc \in Building => thr[t].pc \in Building,
         net' \in [asked : SUBSET Apps, stuck : BOOLEAN],
         net'.asked \subseteq net.asked \cup {t},
         t \in net'.asked => c.pc \in {"await", "fault"},
         UNCHANGED <<live, state, arena, hooked, slots, loaded, dll, handed>>
  PROVE  IInv'
<1>1. World(live, state', arena', net', hooked, slots, loaded)
  BY Zenon DEF IInv, TypeOK, World
<1>2. BlocksOK(live, state', arena', hooked, dll)
  BY Zenon DEF IInv
<1>3. c.pc \in Building => state'.init = "new" /\ state'.owner = t
  BY AloneBuilding, Zenon
<1>4. UNCHANGED <<live, hooked, slots, loaded, dll, handed>> /\ UNCHANGED state
  BY Zenon
<1> QED  BY <1>1, <1>2, <1>3, <1>4, InsideStep, Zenon

LEMMA BuildStep ==
  ASSUME IInv, NEW t \in Apps, NEW bytes, Build(t, bytes)
  PROVE  IInv'
<1>1. PICK x \in {"stuck", "await"} :
        /\ thr[t].pc = "build" /\ thr' = [thr EXCEPT ![t].pc = x]
        /\ x = "stuck" => net' = net
        /\ x = "await" => net' = [net EXCEPT !.asked = @ \cup {t}]
        /\ UNCHANGED <<live, state, arena, hooked, slots, loaded, dll, handed>>
  <2>1. "stuck" # "await"
    BY Zenon
  <2> QED  BY <2>1, Zenon DEF Build
<1> DEFINE c == Moved(t, x)
<1>2. x \in Pcs /\ Goes(thr[t].pc, x) /\ thr[t].pc \in Building
      /\ thr[t].pc \notin {"await", "fault"}
  BY <1>1, Zenon DEF Goes, Early, Touching, Away, Building, Pcs
<1>3. c \in Calls /\ c.pc = x /\ Same(c, thr[t]) /\ thr' = [thr EXCEPT ![t] = c]
  BY <1>1, <1>2, MovedFields, ZenonT(30) DEF Same
<1>4. net \in [asked : SUBSET Apps, stuck : BOOLEAN] /\ t \notin net.asked
  BY <1>2, Zenon DEF IInv, TypeOK, AskedOK
<1>5. /\ net' \in [asked : SUBSET Apps, stuck : BOOLEAN]
      /\ net'.asked \subseteq net.asked \cup {t}
      /\ t \in net'.asked => x \in {"await", "fault"}
  <2>1. CASE x = "stuck"
    BY <1>1, <1>4, <2>1, Zenon
  <2>2. CASE x = "await"
    <3>1. net' = [net EXCEPT !.asked = net.asked \cup {t}]
      BY <1>1, <2>2, Zenon
    <3> QED  BY <1>4, <2>2, <3>1, Zenon
  <2> QED  BY <1>1, <2>1, <2>2, Zenon
<1> HIDE DEF c
<1>6. Goes(thr[t].pc, c.pc) /\ (t \in net'.asked => c.pc \in {"await", "fault"})
  BY <1>2, <1>3, <1>5, Zenon
<1>7. UNCHANGED <<live, state, arena, hooked, slots, loaded, dll, handed>>
  BY <1>1, Zenon
<1> QED  BY <1>2, <1>3, <1>5, <1>6, <1>7, AskStep, Zenon

\* A call that starts or stops waiting for the network thread, and nothing more.
Waits(t, x, s) == [thr[t] EXCEPT !.pc = x, !.servicing = s]

LEMMA WaitsFields ==
  ASSUME IInv, NEW t \in Apps, NEW x \in Pcs, NEW s \in BOOLEAN
  PROVE  LET c == Waits(t, x, s) IN
         /\ c \in Calls /\ c.pc = x /\ Same(c, thr[t])
         /\ [thr EXCEPT ![t].pc = x, ![t].servicing = s] = [thr EXCEPT ![t] = c]
         /\ [thr EXCEPT ![t].servicing = s, ![t].pc = x] = [thr EXCEPT ![t] = c]
<1> DEFINE c == Waits(t, x, s)
           d == thr[t]
<1>1. thr \in [Apps -> Calls] /\ d \in Calls
  BY Zenon DEF IInv, TypeOK
<1>2. c \in Calls /\ c.pc = x /\ Same(c, d)
  <2> HIDE DEF d
  <2>1. c = [d EXCEPT !.pc = x, !.servicing = s]
    BY Zenon DEF Waits, d
  <2> HIDE DEF c
  <2> QED  BY <1>1, <2>1, Zenon DEF Calls, Pcs, Same
<1>3. [thr EXCEPT ![t].pc = x, ![t].servicing = s] = [thr EXCEPT ![t] = c]
  BY <1>1, Zenon DEF Waits
<1>4. [thr EXCEPT ![t].servicing = s, ![t].pc = x] = [thr EXCEPT ![t] = c]
  <2> HIDE DEF d
  <2>1. [d EXCEPT !.servicing = s, !.pc = x] = c
    <3>1. c = [d EXCEPT !.pc = x, !.servicing = s]
      BY Zenon DEF Waits, d
    <3> HIDE DEF c
    <3> QED  BY <1>1, <3>1, Zenon DEF Calls
  <2> HIDE DEF c
  <2> QED  BY <1>1, <2>1, Zenon DEF d
<1> QED  BY <1>2, <1>3, <1>4, Zenon

LEMMA TouchStep ==
  ASSUME IInv, NEW t \in Apps, NEW bytes, Touch(t, bytes)
  PROVE  IInv'
<1>1. /\ thr[t].pc = "touch"
      /\ UNCHANGED <<live, state, arena, hooked, slots, loaded, dll, handed>>
  BY Zenon DEF Touch
<1>2. ~ Redirects(bytes, thr[t].g_depth, TRUE)
  BY Zenon DEF Redirects, should_pass_through
<1>3. /\ thr' = [thr EXCEPT ![t].pc = "fault", ![t].servicing = TRUE]
      /\ net' = [net EXCEPT !.asked = @ \cup {t}]
  BY <1>2, Zenon DEF Touch
<1> DEFINE c == Waits(t, "fault", TRUE)
<1>4. "fault" \in Pcs /\ Goes(thr[t].pc, "fault") /\ "fault" \notin Building
  BY <1>1, Zenon DEF Goes, Early, Touching, Away, Building, Pcs
<1>5. c \in Calls /\ c.pc = "fault" /\ Same(c, thr[t]) /\ thr' = [thr EXCEPT ![t] = c]
  BY <1>3, <1>4, WaitsFields, Zenon
<1>6. net \in [asked : SUBSET Apps, stuck : BOOLEAN]
  BY Zenon DEF IInv, TypeOK
<1>7. net' \in [asked : SUBSET Apps, stuck : BOOLEAN] /\ net'.asked \subseteq net.asked \cup {t}
  BY <1>3, <1>6, Zenon
<1> HIDE DEF c
<1>8. Goes(thr[t].pc, c.pc) /\ c.pc \in {"await", "fault"} /\ c.pc \notin Building
  BY <1>4, <1>5, Zenon
<1> QED  BY <1>1, <1>5, <1>7, <1>8, AskStep, Zenon

LEMMA AnswerStep ==
  ASSUME IInv, NEW t \in Apps, NEW bytes, Answer(t, bytes)
  PROVE  IInv'
<1>1. /\ t \in net.asked /\ thr[t].pc \in {"await", "fault"}
      /\ UNCHANGED <<live, state, arena, hooked, slots, loaded, dll, handed>>
  BY Zenon DEF Answer, IInv, AskedOK
<1>2. net \in [asked : SUBSET Apps, stuck : BOOLEAN]
  BY Zenon DEF IInv, TypeOK
<1>3. CASE net' = [net EXCEPT !.stuck = TRUE] /\ UNCHANGED thr
  <2> DEFINE c == thr[t]
  <2>1. c \in Calls /\ Same(c, thr[t]) /\ thr' = [thr EXCEPT ![t] = c]
    BY <1>3, Zenon DEF IInv, TypeOK, Same
  <2>2. net' \in [asked : SUBSET Apps, stuck : BOOLEAN] /\ net'.asked = net.asked
    BY <1>2, <1>3, Zenon
  <2>3. Goes(thr[t].pc, c.pc)
    BY <1>1, Zenon DEF Goes, Early, Touching, Away
  <2> QED  BY <1>1, <2>1, <2>2, <2>3, AskStep, Zenon
<1>4. CASE ~ (net' = [net EXCEPT !.stuck = TRUE] /\ UNCHANGED thr)
  <2> DEFINE x == IF thr[t].pc = "await" THEN "built" ELSE "copy"
             c == Waits(t, x, FALSE)
  <2>1. /\ net' = [net EXCEPT !.asked = @ \ {t}]
        /\ thr' = [thr EXCEPT ![t].servicing = FALSE, ![t].pc = x]
    BY <1>4, Zenon DEF Answer
  <2>2. x \in Pcs /\ Goes(thr[t].pc, x) /\ (x \in Building => thr[t].pc \in Building)
    BY <1>1, Zenon DEF Goes, Early, Touching, Away, Building, Pcs
  <2> HIDE DEF x
  <2>3. c \in Calls /\ c.pc = x /\ Same(c, thr[t]) /\ thr' = [thr EXCEPT ![t] = c]
    BY <2>1, <2>2, WaitsFields, Zenon
  <2>4. net' \in [asked : SUBSET Apps, stuck : BOOLEAN] /\ net'.asked = net.asked \ {t}
    BY <1>2, <2>1, Zenon
  <2> HIDE DEF c
  <2>5. Goes(thr[t].pc, c.pc) /\ (c.pc \in Building => thr[t].pc \in Building)
    BY <2>2, <2>3, Zenon
  <2> QED  BY <1>1, <2>3, <2>4, <2>5, AskStep, Zenon
<1> QED  BY <1>3, <1>4, Zenon

\* What the invariant says of a call that is about to take a block.
LEMMA EarlyFacts ==
  ASSUME IInv, NEW t \in Apps, thr[t].pc \in {"arena", "fallback"}
  PROVE  LET d == thr[t] IN
         /\ d \in Calls /\ d.op \in {"malloc", "calloc", "realloc"} /\ d.crt \in Crts
         /\ dll = "attached" => d.crt \in hooked
         /\ d.bytes \in Nat /\ d.want \in Nat /\ d.res = None /\ d.ops < MaxOps
         /\ d.pc \notin {"await", "fault"} /\ d.pc \in Early /\ d.pc \notin Away
         /\ OldOK(d, live, dll) /\ WantOK(d)
         /\ \A b \in Held(d) : live[b] # None
<1> DEFINE d == thr[t]
<1>1. CallOK(d, t, live, state, hooked, dll) /\ d \in Calls
  BY Zenon DEF IInv, TypeOK
<1>2. d.pc \in Early /\ d.pc \notin Away /\ d.pc \notin {"await", "fault"}
  BY Zenon DEF Early, Away
<1>3. /\ d.op \in {"malloc", "calloc", "realloc", "fill"} /\ d.bytes \in 0 .. Word - 1
      /\ d.want \in Nat
  BY <1>1, Zenon DEF Calls
<1>4. d.bytes \in Nat
  BY <1>3, HookAssumption
<1> HIDE DEF d
<1>5. /\ d.res = None /\ d.op # "fill" /\ d.crt \in Crts /\ d.ops < MaxOps
      /\ dll = "attached" => d.crt \in hooked
  BY <1>1, <1>2, Zenon DEF CallOK, ResOK, CallerOK
<1>6. OldOK(d, live, dll) /\ WantOK(d) /\ \A b \in Held(d) : live[b] # None
  BY <1>1, Zenon DEF CallOK
<1> QED  BY <1>1, <1>2, <1>3, <1>4, <1>5, <1>6, Zenon DEF d

\* A call takes a fresh block, from the arena or from its runtime.
Taken(t, b, x) == [thr[t] EXCEPT !.res = b, !.pc = x]

Takes(c, d, b, x) ==
  /\ c \in Calls /\ c.pc = x /\ c.res = b
  /\ c.op = d.op /\ c.crt = d.crt /\ c.bytes = d.bytes /\ c.old = d.old
  /\ c.owned = d.owned /\ c.want = d.want /\ c.ops = d.ops

LEMMA TakenFields ==
  ASSUME IInv, NEW t \in Apps, NEW b \in Blocks, NEW x \in Pcs
  PROVE  Takes(Taken(t, b, x), thr[t], b, x)
<1> DEFINE c == Taken(t, b, x)
           d == thr[t]
<1>1. thr \in [Apps -> Calls] /\ d \in Calls
  BY Zenon DEF IInv, TypeOK
<1>2. Takes(c, d, b, x)
  <2> HIDE DEF d
  <2>1. c = [d EXCEPT !.res = b, !.pc = x]
    BY Zenon DEF Taken, d
  <2> HIDE DEF c
  <2> QED  BY <1>1, <2>1, Zenon DEF Calls, Pcs, Takes
<1> QED  BY <1>2, Zenon

LEMMA TakeStep ==
  ASSUME IInv, NEW t \in Apps, thr[t].pc \in {"arena", "fallback"},
         NEW b \in Spare, NEW from \in {"crt", "arena"} \X (Crts \cup Nat),
         dll = "attached" =>
           \/ from = Crt(thr[t].crt)
           \/ state.init = "ready" /\ arena # None /\ from = Arena(arena),
         live' = [live EXCEPT ![b] = Block(from, thr[t].crt, thr[t].bytes, 0)],
         NEW x \in {"touch", "done"}, x = "done" <=> thr[t].op = "malloc",
         thr' = [thr EXCEPT ![t] = Taken(t, b, x)],
         UNCHANGED <<state, arena, net, hooked, slots, loaded, dll, handed>>
  PROVE  IInv'
<1> DEFINE d == thr[t]
           c == Taken(t, b, x)
           r == Block(from, d.crt, d.bytes, 0)
<1>1. /\ d \in Calls /\ d.op \in {"malloc", "calloc", "realloc"} /\ d.crt \in Crts
      /\ dll = "attached" => d.crt \in hooked
      /\ d.bytes \in Nat /\ d.want \in Nat /\ d.res = None /\ d.ops < MaxOps
      /\ d.pc \notin {"await", "fault"} /\ d.pc \in Early
      /\ OldOK(d, live, dll) /\ WantOK(d)
      /\ \A y \in Held(d) : live[y] # None
  BY EarlyFacts, Zenon
<1>2. b \in Blocks /\ live[b] = None /\ Unheld(b) /\ b # None
  BY SpareUnheld, HookAssumption, Zenon
<1>3. x \in Pcs /\ x \notin Away /\ x \notin Early /\ x # "release" /\ x \notin Building
      /\ x \notin {"ensure", "lock", "build"} /\ (x \in Touching <=> x # "done")
  BY Zenon DEF Pcs, Away, Early, Building, Touching
<1>4. /\ c \in Calls /\ c.pc = x /\ c.res = b
      /\ c.op = d.op /\ c.crt = d.crt /\ c.bytes = d.bytes /\ c.old = d.old
      /\ c.owned = d.owned /\ c.want = d.want /\ c.ops = d.ops
      /\ thr' = [thr EXCEPT ![t] = c]
  <2>1. b \in Blocks /\ x \in Pcs
    BY <1>2, <1>3, Zenon
  <2>2. Takes(c, d, b, x)
    BY <2>1, TakenFields, Zenon
  <2> HIDE DEF c, d
  <2> QED  BY <2>2, Zenon DEF Takes, c
<1>5. /\ r \in BlockRecords /\ r # None
      /\ r.from = from /\ r.crt = d.crt /\ r.size = d.bytes /\ r.data = 0
  BY <1>1, BlockFields
<1>6. live' = [live EXCEPT ![b] = r]
  BY Zenon
<1> HIDE DEF c, d, r
<1>7. live'[b] = r /\ \A y \in Blocks : y # b => live'[y] = live[y]
  BY <1>2, <1>6, Zenon DEF IInv, TypeOK
<1>8. r.data <= r.size /\ (dll = "attached" => IssuerOK(r, state, arena, hooked))
  <2>1. r.data <= r.size
    BY <1>1, <1>5
  <2> QED  BY <1>1, <1>5, <2>1, Zenon DEF IssuerOK, d
<1>9. Held(c) = {d.old, b} \ {None} /\ Held(d) = {d.old} \ {None} /\ Held(d) \subseteq Blocks
  BY <1>1, <1>4, HeldAreBlocks, Zenon DEF Held, d
<1>10. d.old # None => d.old \in Blocks /\ d.old # b /\ live'[d.old] = live[d.old]
                       /\ live[d.old] # None
  BY <1>1, <1>2, <1>7, <1>9, Zenon
<1>11. \A y \in Held(c) : live'[y] # None
  BY <1>5, <1>7, <1>9, <1>10, Zenon
<1>12. OldOK(c, live', dll)
  <2>1. SUFFICES ASSUME c.op = "realloc"
                 PROVE  /\ c.old # None /\ live'[c.old].crt = c.crt
                        /\ c.want = Min({live'[c.old].data, c.bytes})
                        /\ dll = "attached" => (c.owned <=> live'[c.old].from[1] = "arena")
    BY Zenon DEF OldOK
  <2>2. /\ d.old # None /\ live[d.old].crt = d.crt
        /\ d.want = Min({live[d.old].data, d.bytes})
        /\ dll = "attached" => (d.owned <=> live[d.old].from[1] = "arena")
    BY <1>1, <1>4, <2>1, Zenon DEF OldOK
  <2>3. live'[c.old] = live[d.old] /\ c.old = d.old /\ c.crt = d.crt /\ c.want = d.want
        /\ c.bytes = d.bytes /\ c.owned = d.owned
    BY <1>4, <1>10, <2>2, Zenon
  <2> QED  BY <2>2, <2>3, Zenon
<1>13. ResOK(c, live')
  <2>1. x = "done" => r.data >= c.want
    <3>1. x = "done" => d.want = 0
      BY <1>1, Zenon DEF WantOK, d
    <3> QED  BY <1>4, <1>5, <3>1
  <2>2. c.res # c.old
    BY <1>2, <1>4, <1>10, Zenon
  <2>3. x \in Touching => c.op # "malloc"
    BY <1>3, <1>4, Zenon DEF d
  <2>4. c.pc = x /\ c.res # None /\ live'[c.res].size = c.bytes /\ live'[c.res].data = r.data
    BY <1>2, <1>4, <1>5, <1>7, Zenon
  <2> QED  BY <1>3, <2>1, <2>2, <2>3, <2>4, Zenon DEF ResOK
<1>14. WantOK(c)
  BY <1>1, <1>3, <1>4, Zenon DEF WantOK
<1>15. CallerOK(c, t, state, hooked, dll)
  BY <1>1, <1>3, <1>4, Zenon DEF CallerOK
<1>16. CallOK(c, t, live', state, hooked, dll)
  BY <1>11, <1>12, <1>13, <1>14, <1>15, Zenon DEF CallOK
<1>17. \A y \in Held(c) : y \in Held(thr[t]) \/ Unheld(y)
  BY <1>2, <1>9, Zenon DEF d
<1>18. FreedWhereIssued' /\ thr[t].pc \notin {"await", "fault"} /\ r \in BlockRecords \cup {None}
  BY <1>1, <1>5, NoHandBack, Zenon DEF d
<1>19. UNCHANGED <<state, arena, net, hooked, slots, loaded, dll>>
  BY Zenon
<1> QED  BY <1>2, <1>4, <1>6, <1>8, <1>16, <1>17, <1>18, <1>19, OneBlock, Zenon

LEMMA ArenaAllocateStep ==
  ASSUME IInv, NEW t \in Apps, ArenaAllocate(t)
  PROVE  IInv'
<1>1. /\ thr[t].pc = "arena" /\ arena # None
      /\ UNCHANGED <<state, arena, net, hooked, slots, loaded, dll, handed>>
  BY Zenon DEF ArenaAllocate
<1>2. CASE thr' = [thr EXCEPT ![t].pc = "fallback"] /\ UNCHANGED live
  <2>1. /\ Goes(thr[t].pc, "fallback") /\ "fallback" \in Pcs /\ "fallback" \notin Building
        /\ thr[t].pc \notin {"await", "fault"}
    BY <1>1, Zenon DEF Goes, Early, Touching, Away, Building, Pcs
  <2> QED  BY <1>1, <1>2, <2>1, InsideOnly, Zenon
<1>3. ASSUME NEW b \in Spare,
             live' = [live EXCEPT ![b] = Block(Arena(arena), thr[t].crt, thr[t].bytes, 0)],
             thr' = [thr EXCEPT ![t].res = b,
                       ![t].pc = IF thr[t].op = "malloc" THEN "done" ELSE "touch"]
      PROVE  IInv'
  <2> DEFINE x == IF thr[t].op = "malloc" THEN "done" ELSE "touch"
  <2>1. x \in {"touch", "done"} /\ (x = "done" <=> thr[t].op = "malloc")
    BY Zenon
  <2>2. thr' = [thr EXCEPT ![t] = Taken(t, b, x)]
    <3>1. thr \in [Apps -> Calls]
      BY Zenon DEF IInv, TypeOK
    <3>2. thr' = [thr EXCEPT ![t].res = b, ![t].pc = x]
      BY <1>3, Zenon
    <3> HIDE DEF x
    <3> QED  BY <3>1, <3>2, Zenon DEF Taken
  <2> HIDE DEF x
  <2>3. state.init = "ready" /\ arena \in Nat
    BY <1>1, Zenon DEF IInv, TypeOK
  <2>4. Arena(arena) \in {"crt", "arena"} \X (Crts \cup Nat)
    BY <2>3, Issuers, Zenon
  <2>5. thr[t].pc \in {"arena", "fallback"}
    BY <1>1, Zenon
  <2> DEFINE from == Arena(arena)
  <2>6. dll = "attached" =>
          \/ from = Crt(thr[t].crt)
          \/ state.init = "ready" /\ arena # None /\ from = Arena(arena)
    BY <1>1, <2>3, Zenon
  <2>7. live' = [live EXCEPT ![b] = Block(from, thr[t].crt, thr[t].bytes, 0)]
    BY <1>3, Zenon
  <2>8. from \in {"crt", "arena"} \X (Crts \cup Nat)
    BY <2>4, Zenon
  <2> HIDE DEF from
  <2> QED  BY <1>1, <2>1, <2>2, <2>5, <2>6, <2>7, <2>8, TakeStep, Zenon
<1> QED  BY <1>2, <1>3, Zenon DEF ArenaAllocate

LEMMA FallbackStep ==
  ASSUME IInv, NEW t \in Apps, Fallback(t)
  PROVE  IInv'
<1> DEFINE d == thr[t]
<1>1. d.pc = "fallback" /\ UNCHANGED <<state, arena, net, hooked, slots, loaded, dll>>
  BY Zenon DEF Fallback
<1>2. d.pc \in {"arena", "fallback"}
  BY <1>1, Zenon
<1>3. /\ d \in Calls /\ d.op \in {"malloc", "calloc", "realloc"} /\ d.crt \in Crts
      /\ d.bytes \in Nat /\ d.want \in Nat /\ d.res = None /\ d.ops < MaxOps
      /\ d.pc \notin {"await", "fault"} /\ d.pc \in Early
      /\ OldOK(d, live, dll) /\ WantOK(d)
      /\ \A b \in Held(d) : live[b] # None
  BY <1>2, EarlyFacts, Zenon
<1>4. CASE d.op \in {"malloc", "calloc"}
  <2>1. RealAlloc(d.crt, d.bytes, d.want) /\ thr' = Finished(t) /\ UNCHANGED handed
    BY <1>4, Zenon DEF Fallback
  <2>2. d.want = 0 \/ d.want = d.bytes
    BY <1>3, <1>4, Zenon DEF WantOK
  <2>3. d.want <= d.bytes
    BY <1>3, <2>2
  <2>4. UNCHANGED <<state, arena, net, hooked, slots, loaded, dll, handed>>
    BY <1>1, <2>1, Zenon
  <2> QED  BY <1>3, <2>1, <2>3, <2>4, RealAllocStep, Zenon
<1>5. CASE d.op = "realloc" /\ d.owned
  <2>1. CASE thr' = Finished(t) /\ UNCHANGED <<live, handed>>
    BY <1>1, <1>3, <2>1, OverStep, Zenon
  <2>2. ASSUME NEW b \in Spare,
               live' = [live EXCEPT ![b] = Block(Crt(d.crt), d.crt, d.bytes, 0)],
               thr' = [thr EXCEPT ![t].res = b, ![t].pc = "touch"], UNCHANGED handed
        PROVE  IInv'
    <3> DEFINE from == Crt(d.crt)
    <3>1. thr \in [Apps -> Calls]
      BY Zenon DEF IInv, TypeOK
    <3>2. thr' = [thr EXCEPT ![t] = Taken(t, b, "touch")]
      BY <2>2, <3>1, Zenon DEF Taken
    <3>3. "touch" \in {"touch", "done"} /\ ("touch" = "done" <=> thr[t].op = "malloc")
      BY <1>5, Zenon
    <3>4. from \in {"crt", "arena"} \X (Crts \cup Nat) /\ from = Crt(thr[t].crt)
      BY <1>3, Issuers, Zenon
    <3>5. live' = [live EXCEPT ![b] = Block(from, thr[t].crt, thr[t].bytes, 0)]
      BY <2>2, Zenon
    <3>6. UNCHANGED <<state, arena, net, hooked, slots, loaded, dll, handed>>
      BY <1>1, <2>2, Zenon
    <3> HIDE DEF from
    <3> QED  BY <1>2, <3>2, <3>3, <3>4, <3>5, <3>6, TakeStep, Zenon
  <2> QED  BY <1>5, <2>1, <2>2, Zenon DEF Fallback
<1>6. CASE d.op = "realloc" /\ ~ d.owned
  <2> DEFINE b == d.old
             k == Kept(b, d.bytes)
             r == Block(live[b].from, d.crt, d.bytes, k)
             c == Taken(t, b, "done")
  <2>0. /\ handed' = handed \cup {<<live[b].from, Crt(d.crt)>>}
        /\ \/ live' = [live EXCEPT ![b] = r] /\ thr' = [thr EXCEPT ![t].res = b, ![t].pc = "done"]
           \/ UNCHANGED live /\ thr' = Finished(t)
    BY <1>6, Zenon DEF Fallback, RealRealloc, RealReallocFails
  <2>2. /\ b # None /\ live[b].crt = d.crt /\ d.want = k
        /\ dll = "attached" => (d.owned <=> live[b].from[1] = "arena")
    BY <1>3, <1>6, Zenon DEF OldOK, Kept
  <2>3. b \in Blocks /\ live[b] # None /\ b \in Held(d)
    BY <1>3, <2>2, HeldAreBlocks, Zenon DEF Held
  <2>4. dll = "attached" => live[b].from = Crt(d.crt)
    BY <1>6, <2>2, <2>3, ArenaOwns, Zenon
  <2>5. /\ r \in BlockRecords /\ r # None /\ r.size = d.bytes /\ r.data = k /\ r.data <= r.size
        /\ k \in Nat
        /\ dll = "attached" => IssuerOK(r, state, arena, hooked)
    BY <1>3, <2>3, <2>4, Resized, Zenon
  <2>6. FreedWhereIssued'
    BY <1>1, <2>0, <2>4, HandBack, Zenon
  <2>refused. CASE UNCHANGED live /\ thr' = Finished(t)
    BY <1>1, <1>3, <2>refused, <2>3, <2>6, OverKept, Zenon
  <2>1. SUFFICES ASSUME live' = [live EXCEPT ![b] = r],
                        thr' = [thr EXCEPT ![t].res = b, ![t].pc = "done"]
                 PROVE  IInv'
    BY <2>0, <2>refused, Zenon
  <2>7. thr' = [thr EXCEPT ![t] = c]
    <3>1. thr \in [Apps -> Calls]
      BY Zenon DEF IInv, TypeOK
    <3> HIDE DEF b
    <3> QED  BY <2>1, <3>1, Zenon DEF Taken
  <2>8. "done" \in Pcs
    BY Zenon DEF Pcs
  <2>9. Takes(c, d, b, "done")
    BY <2>3, <2>8, TakenFields, Zenon
  <2>10. live'[b] = r
    BY <2>1, <2>3, Zenon DEF IInv, TypeOK
  <2> HIDE DEF b, c, d, k, r
  <2>11. c \in Calls /\ c.pc = "done" /\ c.res = b /\ c.old = b /\ c.op = "realloc"
         /\ c.want = k /\ c.ops = d.ops /\ c.crt = d.crt
    BY <1>6, <2>2, <2>9, Zenon DEF Takes, b
  <2>12. Held(c) = {b}
    BY <2>2, <2>11, Zenon DEF Held
  <2>13. OldOK(c, live', dll)
    BY <2>11, Zenon DEF OldOK, Early, Touching
  <2>14. ResOK(c, live')
    <3>1. live'[c.res].data >= c.want /\ c.res # None
      BY <2>2, <2>5, <2>10, <2>11
    <3> QED  BY <2>11, <3>1, Zenon DEF ResOK, Early, Touching
  <2>15. WantOK(c)
    BY <2>11, Zenon DEF WantOK, Away
  <2>16. CallerOK(c, t, state, hooked, dll)
    <3>1. dll = "attached" => d.crt \in hooked
      BY <1>2, EarlyFacts, Zenon DEF d
    <3> QED  BY <1>3, <2>11, <3>1, Zenon DEF CallerOK, Away, Building
  <2>17. CallOK(c, t, live', state, hooked, dll)
    BY <2>5, <2>10, <2>12, <2>13, <2>14, <2>15, <2>16, Zenon DEF CallOK
  <2>18. \A y \in Held(c) : y \in Held(thr[t]) \/ Unheld(y)
    BY <2>3, <2>12, Zenon DEF d
  <2>19. b \in Held(thr[t]) /\ thr[t].pc \notin {"await", "fault"} /\ r \in BlockRecords \cup {None}
    BY <1>3, <2>3, <2>5, Zenon DEF d
  <2>20. live' = [live EXCEPT ![b] = r]
    BY <2>1, Zenon
  <2> QED  BY <1>1, <2>3, <2>5, <2>6, <2>7, <2>11, <2>17, <2>18, <2>19, <2>20, OneBlock, Zenon
<1> QED  BY <1>3, <1>4, <1>5, <1>6, Zenon

\* What the invariant says of a call that has its block.
LEMMA LateFacts ==
  ASSUME IInv, NEW t \in Apps, thr[t].pc \in {"copy", "release", "done"}
  PROVE  LET d == thr[t] IN
         /\ CallOK(d, t, live, state, hooked, dll) /\ d \in Calls
         /\ d.bytes \in Nat /\ d.want \in Nat /\ d.ops < MaxOps
         /\ d.pc \notin {"await", "fault"} /\ d.pc \notin Away
         /\ d.res \in Held(d) /\ d.res \in Blocks /\ live[d.res] # None
         /\ d.op = "realloc" /\ d.pc # "done" =>
              d.old \in Held(d) /\ d.old \in Blocks /\ live[d.old] # None /\ d.res # d.old
<1> DEFINE d == thr[t]
<1>1. CallOK(d, t, live, state, hooked, dll) /\ d \in Calls
  BY Zenon DEF IInv, TypeOK
<1>2. d.pc \notin Away /\ d.pc \notin {"await", "fault"} /\ (d.pc \in Touching \/ d.pc \in {"release", "done"})
      /\ (d.pc # "done" => d.pc \in Early \cup Touching \cup {"release"})
  BY Zenon DEF Away, Touching
<1>3. d.bytes \in 0 .. Word - 1 /\ d.want \in Nat
  BY <1>1, Zenon DEF Calls
<1>4. d.bytes \in Nat
  BY <1>3, HookAssumption
<1>5. Held(d) \subseteq Blocks /\ \A b \in Held(d) : live[b] # None
  BY <1>1, HeldAreBlocks, Zenon DEF CallOK
<1> HIDE DEF d
<1>6. d.res # None /\ d.ops < MaxOps
  BY <1>1, <1>2, Zenon DEF CallOK, ResOK, CallerOK
<1>7. d.op = "realloc" /\ d.pc # "done" => d.old # None /\ d.res # d.old
  BY <1>1, <1>2, Zenon DEF CallOK, ResOK, OldOK
<1>8. d.res \in Held(d) /\ (d.op = "realloc" /\ d.pc # "done" => d.old \in Held(d))
  BY <1>6, <1>7, Zenon DEF Held
<1> QED  BY <1>1, <1>2, <1>3, <1>4, <1>5, <1>6, <1>7, <1>8, Zenon DEF d

LEMMA CopyStep ==
  ASSUME IInv, NEW t \in Apps, Copy(t)
  PROVE  IInv'
<1> DEFINE d == thr[t]
           b == d.res
           v == CASE d.op = "calloc"  -> d.bytes
                  [] d.op = "fill"    -> live[b].size
                  [] d.op = "realloc" ->
                       Min({live[d.old].data, Min({live[d.old].size, d.bytes})})
           x == IF d.op = "realloc" THEN "release" ELSE "done"
           c == Moved(t, x)
           r == [live[b] EXCEPT !.data = v]
<1>1. /\ d.pc = "copy" /\ live' = [live EXCEPT ![b].data = v]
      /\ thr' = [thr EXCEPT ![t].pc = x]
      /\ UNCHANGED <<state, arena, net, hooked, slots, loaded, dll, handed>>
  BY Zenon DEF Copy
<1>2. d.pc \in {"copy", "release", "done"} /\ d.pc # "done" /\ d.pc \in Touching
  BY <1>1, Zenon DEF Touching
<1>3. /\ CallOK(d, t, live, state, hooked, dll) /\ d \in Calls
      /\ d.bytes \in Nat /\ d.want \in Nat /\ d.ops < MaxOps
      /\ d.pc \notin {"await", "fault"} /\ d.pc \notin Away
      /\ b \in Held(d) /\ b \in Blocks /\ live[b] # None
      /\ d.op = "realloc" =>
           d.old \in Held(d) /\ d.old \in Blocks /\ live[d.old] # None /\ b # d.old
  BY <1>2, LateFacts, Zenon
<1>4. x \in Pcs /\ x \in {"release", "done"} /\ x \notin Early /\ x \notin Touching /\ x \notin Building
      /\ x \notin Away /\ x \notin {"ensure", "lock", "build"} /\ (x = "release" <=> d.op = "realloc")
  BY Zenon DEF Pcs, Early, Touching, Building, Away
<1>5. c \in Calls /\ c.pc = x /\ Same(c, d) /\ Held(c) = Held(d) /\ thr' = [thr EXCEPT ![t] = c]
  <2>1. x \in Pcs /\ thr' = [thr EXCEPT ![t].pc = x]
    BY <1>1, <1>4, Zenon
  <2> HIDE DEF x
  <2> QED  BY <2>1, MovedFields, Zenon DEF Same
<1>6. /\ live[b] \in BlockRecords /\ live[b].size \in Nat /\ live[b].data \in Nat
  BY <1>3, BlockTypes, Zenon
<1>7. /\ d.op \in {"calloc", "fill", "realloc"}
      /\ d.op # "fill" => live[b].size = d.bytes
      /\ d.op = "calloc" => d.want = d.bytes
      /\ d.op = "fill" => d.want = 0
      /\ d.op = "realloc" => d.want = Min({live[d.old].data, d.bytes})
  <2>1. d.op \in {"malloc", "calloc", "realloc", "fill"}
    BY <1>3, Zenon DEF Calls
  <2> HIDE DEF d
  <2> QED  BY <1>2, <1>3, <2>1, Zenon DEF CallOK, ResOK, OldOK, WantOK, b
<1>8. v \in Nat /\ v <= live[b].size /\ v >= d.want
  <2>1. CASE d.op = "calloc"
    <3>1. v = d.bytes /\ live[b].size = d.bytes /\ d.want = d.bytes
      BY <1>7, <2>1, Zenon
    <3> HIDE DEF v
    <3> QED  BY <1>3, <3>1
  <2>2. CASE d.op = "fill"
    <3>1. v = live[b].size /\ d.want = 0
      BY <1>7, <2>2, Zenon
    <3> HIDE DEF v
    <3> QED  BY <1>6, <3>1
  <2>3. CASE d.op = "realloc"
    <3>1. /\ v = Min({live[d.old].data, Min({live[d.old].size, d.bytes})})
          /\ live[b].size = d.bytes /\ d.want = Min({live[d.old].data, d.bytes})
      BY <1>7, <2>3, Zenon
    <3>2. /\ live[d.old].size \in Nat /\ live[d.old].data \in Nat
          /\ live[d.old].data <= live[d.old].size
      BY <1>3, <2>3, BlockTypes, Zenon
    <3>3. /\ Min({live[d.old].data, Min({live[d.old].size, d.bytes})})
               = Min({live[d.old].data, d.bytes})
          /\ Min({live[d.old].data, d.bytes}) <= d.bytes
      BY <1>3, <3>2, MinOfThree, Zenon
    <3>4. v = d.want /\ d.want <= d.bytes
      BY <3>1, <3>3, Zenon
    <3> HIDE DEF v
    <3> QED  BY <1>3, <3>1, <3>4
  <2> QED  BY <1>7, <2>1, <2>2, <2>3, Zenon
<1> HIDE DEF v
<1>9. /\ r \in BlockRecords /\ r.from = live[b].from /\ r.crt = live[b].crt
      /\ r.data = v /\ r.size = live[b].size
  BY <1>6, <1>8, Zenon DEF BlockRecords
<1>10. live' = [live EXCEPT ![b] = r]
  BY <1>1, <1>3, Zenon DEF IInv, TypeOK
<1> HIDE DEF r
<1>11. r.data <= r.size /\ (dll = "attached" => IssuerOK(r, state, arena, hooked)) /\ r # None
  <2>1. dll = "attached" => IssuerOK(live[b], state, arena, hooked)
    BY <1>3, Zenon DEF IInv, BlocksOK
  <2> QED  BY <1>8, <1>9, <2>1, HookAssumption, Zenon DEF IssuerOK
<1>12. live'[b] = r /\ \A y \in Blocks : y # b => live'[y] = live[y]
  BY <1>3, <1>10, Zenon DEF IInv, TypeOK
<1> HIDE DEF b, c, d, x
<1>13. Held(d) \subseteq Blocks
  BY HeldAreBlocks, Zenon DEF d
<1>14. \A y \in Held(c) : live'[y] # None
  BY <1>3, <1>5, <1>11, <1>12, <1>13, Zenon DEF CallOK
<1>15. OldOK(c, live', dll)
  <2>1. SUFFICES ASSUME c.op = "realloc"
                 PROVE  /\ c.old # None /\ live'[c.old].crt = c.crt
                        /\ c.want = Min({live'[c.old].data, c.bytes})
                        /\ dll = "attached" => (c.owned <=> live'[c.old].from[1] = "arena")
    BY Zenon DEF OldOK
  <2>2. OldOK(d, live, dll) /\ d.op = "realloc"
    BY <1>3, <1>5, <2>1, Zenon DEF CallOK, Same
  <2>3. /\ d.old # None /\ live[d.old].crt = d.crt
        /\ d.want = Min({live[d.old].data, d.bytes})
        /\ dll = "attached" => (d.owned <=> live[d.old].from[1] = "arena")
    BY <1>2, <2>2, Zenon DEF OldOK
  <2>4. live'[d.old] = live[d.old]
    BY <1>3, <1>12, <2>2, Zenon
  <2> QED  BY <1>5, <2>3, <2>4, Zenon DEF Same
<1>16. ResOK(c, live')
  <2>1. c.res = b /\ b # None /\ live'[c.res].data = v /\ c.want = d.want /\ c.op = d.op
        /\ c.old = d.old
    BY <1>3, <1>5, <1>9, <1>12, HookAssumption, Zenon DEF Same, b
  <2> QED  BY <1>3, <1>4, <1>5, <1>8, <2>1, Zenon DEF ResOK
<1>17. WantOK(c)
  BY <1>3, <1>4, <1>5, Zenon DEF CallOK, WantOK, Same
<1>18. CallerOK(c, t, state, hooked, dll)
  BY <1>3, <1>4, <1>5, Zenon DEF CallOK, CallerOK, Same
<1>19. CallOK(c, t, live', state, hooked, dll)
  BY <1>14, <1>15, <1>16, <1>17, <1>18, Zenon DEF CallOK
<1>20. /\ \A y \in Held(c) : y \in Held(thr[t]) \/ Unheld(y)
       /\ b \in Held(thr[t]) /\ thr[t].pc \notin {"await", "fault"}
       /\ r \in BlockRecords \cup {None}
  BY <1>3, <1>5, <1>9, Zenon DEF d
<1>21. FreedWhereIssued' /\ UNCHANGED <<state, arena, net, hooked, slots, loaded, dll>>
  BY <1>1, NoHandBack, Zenon
<1> QED  BY <1>3, <1>5, <1>10, <1>11, <1>19, <1>20, <1>21, OneBlock, Zenon

LEMMA ReleaseStep ==
  ASSUME IInv, NEW t \in Apps, Release(t)
  PROVE  IInv'
<1> DEFINE d == thr[t]
           b == d.old
           c == [d EXCEPT !.pc = "done", !.old = None]
           to == IF d.owned THEN Arena(arena) ELSE Crt(d.crt)
<1>1. /\ d.pc = "release" /\ live' = [live EXCEPT ![b] = None]
      /\ handed' = handed \cup {<<live[b].from, to>>}
      /\ thr' = [thr EXCEPT ![t].pc = "done", ![t].old = None]
      /\ UNCHANGED <<state, arena, net, hooked, slots, loaded, dll>>
  BY Zenon DEF Release
<1>2. d.pc \in {"copy", "release", "done"} /\ d.pc # "done"
      /\ d.pc \in Early \cup Touching \cup {"release"}
  BY <1>1, Zenon
<1>3. CallOK(d, t, live, state, hooked, dll) /\ d \in Calls /\ d.want \in Nat /\ d.ops < MaxOps
      /\ d.pc \notin {"await", "fault"} /\ d.pc \notin Away
      /\ d.res \in Held(d) /\ d.res \in Blocks /\ live[d.res] # None
  BY <1>2, LateFacts, Zenon
<1>4. d.op = "realloc" /\ live[d.res].data >= d.want
  BY <1>1, <1>3, Zenon DEF CallOK, ResOK
<1>5. b \in Held(d) /\ b \in Blocks /\ live[b] # None /\ d.res # b
  BY <1>2, <1>4, LateFacts, Zenon
<1>6. /\ live[b].crt = d.crt
      /\ dll = "attached" => (d.owned <=> live[b].from[1] = "arena")
  BY <1>2, <1>3, <1>4, Zenon DEF CallOK, OldOK
<1>7. dll = "attached" => live[b].from = to
  BY <1>5, <1>6, ArenaOwns, Zenon
<1>8. thr' = [thr EXCEPT ![t] = c]
  <2>1. thr \in [Apps -> Calls]
    BY Zenon DEF IInv, TypeOK
  <2> QED  BY <1>1, <2>1, Zenon
<1> HIDE DEF to
<1>9. FreedWhereIssued'
  BY <1>1, <1>7, HandBack, Zenon
<1> HIDE DEF d
<1>10. /\ c \in Calls /\ c.pc = "done" /\ c.old = None /\ c.res = d.res /\ c.op = d.op
       /\ c.want = d.want /\ c.ops = d.ops /\ c.crt = d.crt
  BY <1>3, Zenon DEF Calls
<1>11. \A y \in Blocks : y # b => live'[y] = live[y]
  BY <1>1, Zenon DEF IInv, TypeOK
<1> HIDE DEF b, c
<1>12. live'[d.res] = live[d.res] /\ d.res # None
  BY <1>3, <1>5, <1>11, HookAssumption, Zenon
<1>13. Held(c) = {d.res}
  BY <1>10, <1>12, Zenon DEF Held
<1>14. OldOK(c, live', dll)
  BY <1>10, Zenon DEF OldOK, Early, Touching
<1>15. ResOK(c, live')
  BY <1>4, <1>10, <1>12, Zenon DEF ResOK, Early, Touching
<1>16. WantOK(c)
  BY <1>4, <1>10, Zenon DEF WantOK, Away
<1>17. CallerOK(c, t, state, hooked, dll)
  <2>1. d.crt \in Crts /\ (dll = "attached" => d.crt \in hooked)
    BY <1>3, <1>4, Zenon DEF CallOK, CallerOK
  <2> QED  BY <1>3, <1>10, <2>1, Zenon DEF CallerOK, Building
<1>18. CallOK(c, t, live', state, hooked, dll)
  BY <1>3, <1>12, <1>13, <1>14, <1>15, <1>16, <1>17, Zenon DEF CallOK
<1>19. /\ \A y \in Held(c) : y \in Held(thr[t]) \/ Unheld(y)
       /\ b \in Held(thr[t]) /\ thr[t].pc \notin {"await", "fault"}
  BY <1>3, <1>5, <1>13, Zenon DEF d
<1>20. live' = [live EXCEPT ![b] = None] /\ None \in BlockRecords \cup {None}
       /\ UNCHANGED <<state, arena, net, hooked, slots, loaded, dll>>
  BY <1>1, Zenon
<1> QED  BY <1>5, <1>8, <1>9, <1>10, <1>18, <1>19, <1>20, OneBlock, Zenon

LEMMA ReturnStep ==
  ASSUME IInv, NEW t \in Apps, Return(t)
  PROVE  IInv'
<1>1. thr[t].pc = "done" /\ thr' = Finished(t)
      /\ UNCHANGED <<live, state, arena, net, hooked, slots, loaded, dll, handed>>
  BY Zenon DEF Return
<1>2. thr[t].pc \in {"copy", "release", "done"}
  BY <1>1, Zenon
<1>3. thr[t].ops < MaxOps /\ thr[t].pc \notin {"await", "fault"}
  BY <1>2, LateFacts, Zenon
<1> QED  BY <1>1, <1>3, OverStep, Zenon

-------------------------------------------------------------------------------
(***************************************************************************)
(* The DLL, and the whole next-state relation.                             *)
(***************************************************************************)
\* A step that is nobody's call.
LEMMA NoCallStep ==
  ASSUME IInv, UNCHANGED <<thr, live, state, net, slots, loaded, handed>>,
         arena' = arena \/ arena' = None, hooked' \subseteq hooked,
         dll' \in {"attached", "released", "removed"},
         dll' = "attached" => UNCHANGED <<arena, hooked, dll>>
  PROVE  IInv'
<1>1. arena \in Nat \cup {None} /\ hooked \subseteq slots
  BY Zenon DEF IInv, TypeOK
<1>2. TypeOK'
  BY <1>1, Zenon DEF IInv, TypeOK
<1>3. \A u \in Apps : CallOK(thr'[u], u, live', state', hooked', dll')
  <2>1. TAKE u \in Apps
  <2>2. CallOK(thr[u], u, live, state, hooked, dll) /\ thr'[u] = thr[u]
    BY Zenon DEF IInv
  <2>3. /\ \A b \in Held(thr[u]) : live'[b] = live[b]
        /\ thr[u].pc \in Building => state'.init = state.init /\ state'.owner = state.owner
        /\ dll' = "attached" => dll = "attached" /\ hooked \subseteq hooked'
    BY Zenon
  <2> QED  BY <2>2, <2>3, CallFrame, Zenon
<1>4. BlocksOK(live', state', arena', hooked', dll')
  BY Zenon DEF IInv, BlocksOK
<1>5. Exclusive(thr') /\ AskedOK(thr', net')
  BY Zenon DEF IInv
<1>6. (arena' # None => state'.init = "ready") /\ FreedWhereIssued'
  BY Zenon DEF IInv, FreedWhereIssued
<1> QED  BY <1>2, <1>3, <1>4, <1>5, <1>6, Zenon DEF IInv

LEMMA DllStep ==
  ASSUME IInv, ReleaseState \/ RemoveHooks
  PROVE  IInv'
<1>1. CASE ReleaseState
  <2>1. dll' = "released" /\ dll' # "attached" /\ arena' = None
        /\ UNCHANGED <<thr, live, state, net, hooked, slots, loaded, handed>>
    BY <1>1, Zenon DEF ReleaseState
  <2> QED  BY <2>1, NoCallStep, Zenon
<1>2. CASE RemoveHooks
  <2>1. dll' = "removed" /\ dll' # "attached" /\ hooked' = {}
        /\ UNCHANGED <<thr, live, state, arena, net, slots, loaded, handed>>
    BY <1>2, Zenon DEF RemoveHooks
  <2> QED  BY <2>1, NoCallStep, Zenon
<1> QED  BY <1>1, <1>2, Zenon

LEMMA InitIInv == Init => IInv
<1> SUFFICES ASSUME Init  PROVE IInv
  BY Zenon
<1>1. Word \in Nat /\ Word > 0 /\ MaxOps \in Nat
  BY HookAssumption, Zenon
<1>2. /\ Idle \in Calls /\ Idle.pc = "idle" /\ Idle.op = "malloc" /\ Idle.old = None
      /\ Idle.res = None /\ Idle.want = 0
  BY <1>1 DEF Idle, Calls
<1>3. /\ thr \in [Apps -> Calls] /\ \A t \in Apps : thr[t] = Idle
      /\ live \in [Blocks -> BlockRecords \cup {None}] /\ \A b \in Blocks : live[b] = None
  BY <1>2, Zenon DEF Init
<1>4. /\ state \in [init : {"new", "ready", "failed"}, owner : Apps \cup {None}, builds : Nat]
      /\ net \in [asked : SUBSET Apps, stuck : BOOLEAN] /\ net.asked = {} /\ ~ net.stuck
  BY Zenon DEF Init
<1>5. TypeOK
  <2>1. hooked \subseteq slots /\ slots \subseteq loaded /\ loaded \subseteq Crts
    BY Zenon DEF Init
  <2> QED  BY <1>3, <1>4, <2>1, Zenon DEF TypeOK, Init
<1>6. Held(Idle) = {}
  BY <1>2, Zenon DEF Held
<1>7. ASSUME NEW t \in Apps  PROVE CallOK(thr[t], t, live, state, hooked, dll)
  <2>1. OldOK(Idle, live, dll) /\ ResOK(Idle, live)
    BY <1>2, Zenon DEF OldOK, ResOK, Early, Touching
  <2>2. WantOK(Idle) /\ CallerOK(Idle, t, state, hooked, dll)
    BY <1>2, <1>6, Zenon DEF WantOK, CallerOK, Away, Building
  <2> QED  BY <1>3, <1>6, <2>1, <2>2, Zenon DEF CallOK
<1>8. BlocksOK(live, state, arena, hooked, dll) /\ Exclusive(thr) /\ AskedOK(thr, net)
  BY <1>3, <1>4, <1>6, Zenon DEF BlocksOK, Exclusive, AskedOK
<1>9. FreedWhereIssued /\ arena = None
  BY Zenon DEF Init, FreedWhereIssued
<1> QED  BY <1>5, <1>7, <1>8, <1>9, Zenon DEF IInv

LEMMA NextIInv == IInv /\ [Next]_vars => IInv'
<1> SUFFICES ASSUME IInv, [Next]_vars  PROVE IInv'
  BY Zenon
<1>1. ASSUME NEW t \in Apps, Program(t)  PROVE IInv'
  BY <1>1, MallocStep, CallocStep, FreeStep, MsizeStep, ReallocStep, LoadLibraryStep, FillStep,
     Zenon DEF Program
<1>2. ASSUME NEW t \in Apps, InHook(t)  PROVE IInv'
  BY <1>2, EnsureStep, LockedStep, BuiltStep, ArenaAllocateStep, FallbackStep, CopyStep,
     ReleaseStep, ReturnStep, ScanStep, BuildStep, TouchStep, Zenon DEF InHook
<1>3. ASSUME NEW t \in Apps, Network(t)  PROVE IInv'
  BY <1>3, AnswerStep, Zenon DEF Network
<1>4. CASE UNCHANGED vars
  <2>1. /\ UNCHANGED <<thr, live, state, net, slots, loaded, handed>>
        /\ UNCHANGED <<arena, hooked, dll>>
    BY <1>4, Zenon DEF vars
  <2>2. dll' \in {"attached", "released", "removed"} /\ arena' = arena /\ hooked' \subseteq hooked
    BY <2>1, Zenon DEF IInv, TypeOK
  <2> QED  BY <2>1, <2>2, NoCallStep, Zenon
<1> QED  BY <1>1, <1>2, <1>3, <1>4, DllStep, Zenon DEF Next

-------------------------------------------------------------------------------
(***************************************************************************)
(* Theorems.                                                               *)
(***************************************************************************)
\* Every reachable state has its type, for every number of threads, runtimes and
\* blocks: in particular no call leaves behind a block with more valid bytes than
\* it has bytes.
THEOREM TypesHold == Spec => []TypeOK
<1>1. IInv => TypeOK
  BY Zenon DEF IInv
<1> QED  BY <1>1, InitIInv, NextIInv, PTL DEF Spec

\* "a block from one CRT's malloc must be returned to that same CRT's free": while
\* the DLL is attached, hooked_free, hooked_realloc and hooked_msize take every block
\* to the runtime or the arena that issued it, whatever was hooked in between and
\* however many threads found the heap not yet built.
THEOREM FreesWhereIssued == Spec => []FreedWhereIssued
<1>1. IInv => FreedWhereIssued
  BY Zenon DEF IInv
<1> QED  BY <1>1, InitIInv, NextIInv, PTL DEF Spec

\* The block that hooked_calloc or hooked_realloc returns holds the zeroes or the
\* old bytes it must: no other call touches the block or its predecessor on the
\* way, and a product that passes the overflow check is the number of bytes asked
\* of the arena.
THEOREM KeepsContents == Spec => []ContentsKept
<1>1. IInv => ContentsKept
  BY Zenon DEF IInv, CallOK, ResOK, ContentsKept
<1> QED  BY <1>1, InitIInv, NextIInv, PTL DEF Spec
===============================================================================
