-------------------------- MODULE RemoteHeap_proofs --------------------------
(***************************************************************************)
(* For one program thread on Windows or macOS, and any pages, budget,      *)
(* stores, lost connections, timeouts and failing system calls: the        *)
(* program never reads anything but its last store, the budget holds, and  *)
(* while memoryd has the block what is not dirty is on the peer and        *)
(* flush() that returns has pushed everything.                             *)
(***************************************************************************)
EXTENDS RemoteHeap, FiniteSetTheorems, TLAPS

\* One program thread, on a backend where the faulting thread services its fault.
Sequential ==
  /\ \E t : Apps = {t}
  /\ \A s \in Setups : s.backend # "linux"

\* The pages in a list.
Listed(s) == {s[i] : i \in DOMAIN s}

\* Steps of resolve_fault(), and of flush_page() and evict_page(): all under heap_mutex_.
Mapping == {"commit", "fill", "protect", "settle_clean", "settle_dirty"}
Flushing == {"is_dirty", "copy", "write", "clear", "cleared", "evict", "forget"}

\* A frame that is not waiting for the fault thread.
IsFrame(f) ==
  /\ f = [x \in DOMAIN Idle |-> f[x]]
  /\ f.todo \in Seq(Pages)
  /\ f.pc \notin {"zero", "blocked", "uffdio_copy"}

\* Types, as far as the argument needs them; no page was ever filled with zeroes.
Typed ==
  /\ setup \in Setups
  /\ prot \in [Pages -> {"none", "ro", "rw"}]
  /\ state \in [Pages -> {"ABSENT", "RESIDENT", "DIRTY"}]
  /\ mem = [p \in Pages |-> mem[p]]
  /\ peer = [p \in Pages |-> peer[p]]
  /\ last = [p \in Pages |-> last[p]]
  /\ resident_order_ \in Seq(Pages)
  /\ frame = [u \in Workers |-> frame[u]]
  /\ frame[FaultThread] = Idle
  /\ \A t \in Apps : IsFrame(frame[t])
  /\ zeroed = {}

\* The last store to q is on the peer, as long as memoryd has the block.
OnPeer(q) == backed => peer[q] = last[q]

\* A page whose protection agrees with its state.
Kept(q) ==
  \/ state[q] = "ABSENT" /\ prot[q] = "none" /\ OnPeer(q)
  \/ state[q] = "RESIDENT" /\ prot[q] = "ro" /\ mem[q] = last[q] /\ OnPeer(q)
  \/ state[q] = "DIRTY" /\ prot[q] = "rw" /\ mem[q] = last[q]

\* The page a step has changed the protection, but not yet the state of.
Moving(t) ==
  IF frame[t].pc \in {"fill", "protect", "settle_clean", "settle_dirty", "promoted"}
  THEN {frame[t].page}
  ELSE IF frame[t].pc \in {"cleared", "forget"} THEN {frame[t].victim} ELSE {}

\* The page of a fault: absent, with the last store on the peer, until it is settled.
FaultOK(t) ==
  LET f == frame[t]
      p == f.page
  IN
  /\ f.pc \in {"access", "trap", "promote", "promoted", "fetch", "lock", "unresolved"}
              \cup Mapping => p \in Pages
  /\ f.job = "fault" => p \in Pages
  /\ f.pc \in {"lock"} \cup Mapping => f.job = "fault"
  /\ f.pc \in {"fetch", "lock"} \cup Mapping => state[p] = "ABSENT"
  /\ f.pc \in {"lock", "commit", "fill"} => f.data = last[p]
  /\ f.pc \in {"promote", "promoted"} => state[p] # "ABSENT"
  /\ f.pc \in {"promoted", "fill", "protect", "settle_dirty"} => prot[p] = "rw"
  /\ f.pc = "settle_clean" => prot[p] = "ro"
  /\ f.pc \in {"promoted", "protect", "settle_clean", "settle_dirty"} => mem[p] = last[p]
  /\ f.pc \in Mapping => OnPeer(p)
  /\ f.pc = "promoted" /\ state[p] # "DIRTY" => OnPeer(p)

\* The page being written back or evicted: it is on the peer before it loses its
\* dirty state, its protection or its memory.
FlushOK(t) ==
  LET f == frame[t]
      v == f.victim
  IN
  /\ f.pc \in Flushing =>
       v \in Listed(resident_order_) /\ f.job \in {"fault", "flush", "evict_all"}
  /\ f.job \in {"flush", "evict_all"} => f.pc \in Flushing
  /\ f.pc \in {"evict", "forget"} => f.job # "flush"
  /\ f.pc \in {"copy", "write", "clear", "cleared"} => state[v] = "DIRTY"
  /\ f.pc = "write" => f.data = last[v]
  /\ f.pc \in {"clear", "cleared", "evict", "forget"} => OnPeer(v)
  /\ f.pc = "cleared" => prot[v] = "ro" /\ mem[v] = last[v]
  /\ f.pc = "forget" => prot[v] = "none"

\* What flush() has visited is on the peer.
PushedOK(t) ==
  LET f == frame[t] IN
  f.job = "flush" =>
    /\ Listed(f.todo) \subseteq Listed(resident_order_)
    /\ \A q \in Listed(resident_order_) :
         \/ OnPeer(q)
         \/ q \in Listed(f.todo)
         \/ q = f.victim /\ f.pc \in {"is_dirty", "copy", "write"}

\* Pages change under heap_mutex_; whoever releases it has kept the budget.
LockOK(t) ==
  /\ frame[t].pc \in Mapping \cup Flushing => heap_mutex_ = t
  /\ heap_mutex_ = None \/ frame[t].job \in {"flush", "evict_all"}
       => Len(resident_order_) <= Budget

\* handle_fault() lists every page it maps.
Tracked == \A q \in Pages : state[q] # "ABSENT" => q \in Listed(resident_order_)

\* All pages but the one in hand are in their place.
PagesOK(t) == \A q \in Pages \ Moving(t) : Kept(q)

\* The inductive invariant.
IInv ==
  /\ Typed
  /\ Tracked
  /\ \A t \in Apps : FaultOK(t) /\ FlushOK(t) /\ PushedOK(t) /\ LockOK(t) /\ PagesOK(t)
-----------------------------------------------------------------------------
\* Idle is a frame.
LEMMA IdleFrame ==
  /\ IsFrame(Idle)
  /\ DOMAIN Idle = {"pc", "page", "write", "resolved", "kept", "job", "victim", "data", "todo"}
  /\ Idle.pc = "run" /\ Idle.job = "none" /\ Idle.todo = <<>>
BY DEF IsFrame, Idle

\* Next to the one program thread there is only the fault thread.
LEMMA OnlyOne ==
  ASSUME Sequential, NEW t \in Apps, NEW u \in Workers, u # t
  PROVE  u = FaultThread
BY Zenon DEF Sequential, Workers

\* The frame of t is replaced by g.
LEMMA SetFrame ==
  ASSUME Sequential, Typed, NEW t \in Apps, NEW g, IsFrame(g),
         frame' = [frame EXCEPT ![t] = g]
  PROVE  /\ frame'[t] = g
         /\ frame' = [u \in Workers |-> frame'[u]]
         /\ frame'[FaultThread] = Idle
         /\ \A u \in Apps : IsFrame(frame'[u])
<1>1. t \in Workers /\ FaultThread \in Workers /\ FaultThread # t
  BY RemoteHeapAssumption, Zenon DEF Workers, Sequential
<1>2. frame = [u \in Workers |-> frame[u]] /\ frame[FaultThread] = Idle
  BY Zenon DEF Typed
<1>3. /\ frame'[t] = g
      /\ frame' = [u \in Workers |-> frame'[u]]
      /\ frame'[FaultThread] = Idle
  BY <1>1, <1>2, Zenon
<1>4. \A u \in Apps : u = t
  BY Zenon DEF Sequential
<1> QED  BY <1>3, <1>4, Zenon

\* The frame f after its step, or some of its other fields, have been set.
Goes(f, g, pc) ==
  /\ IsFrame(g) /\ g.pc = pc
  /\ g.page = f.page /\ g.write = f.write /\ g.job = f.job /\ g.victim = f.victim
  /\ g.data = f.data /\ g.todo = f.todo

\* Setting the step of a frame leaves its other fields alone.
LEMMA PcFrame ==
  ASSUME NEW f, IsFrame(f), NEW x, x \notin {"zero", "blocked", "uffdio_copy"}
  PROVE  Goes(f, [f EXCEPT !.pc = x], x)
BY IdleFrame, Zenon DEF IsFrame, Goes

\* A thread's step leaves every variable with its type.
Steady ==
  /\ setup' = setup /\ zeroed' = zeroed
  /\ prot' \in [Pages -> {"none", "ro", "rw"}]
  /\ state' \in [Pages -> {"ABSENT", "RESIDENT", "DIRTY"}]
  /\ mem' = [p \in Pages |-> mem'[p]]
  /\ peer' = [p \in Pages |-> peer'[p]]
  /\ last' = [p \in Pages |-> last'[p]]

\* Types are kept by a step that replaces the frame of one thread.
LEMMA TypedStep ==
  ASSUME Sequential, Typed, Steady, NEW t \in Apps, NEW g, IsFrame(g),
         frame' = [frame EXCEPT ![t] = g], resident_order_' \in Seq(Pages)
  PROVE  Typed' /\ frame'[t] = g
<1>1. /\ frame'[t] = g
      /\ frame' = [u \in Workers |-> frame'[u]]
      /\ frame'[FaultThread] = Idle
      /\ \A u \in Apps : IsFrame(frame'[u])
  BY SetFrame, Zenon
<1>2. IsFrame(frame[t])' <=> IsFrame(frame'[t])
  BY Zenon DEF IsFrame
<1>3. \A u \in Apps : IsFrame(frame[u])'
  BY <1>1, Zenon DEF IsFrame
<1> QED  BY <1>1, <1>3, Zenon DEF Typed, Steady

\* With one thread, what holds of it holds of all.
LEMMA Together ==
  ASSUME Sequential, NEW t \in Apps, Typed', Tracked',
         FaultOK(t)', FlushOK(t)', PushedOK(t)', LockOK(t)', PagesOK(t)'
  PROVE  IInv'
<1>1. \A u \in Apps : u = t
  BY Zenon DEF Sequential
<1> SUFFICES ASSUME NEW u \in Apps
             PROVE  (FaultOK(u) /\ FlushOK(u) /\ PushedOK(u) /\ LockOK(u) /\ PagesOK(u))'
  BY Zenon DEF IInv
<1>2. u = t
  BY <1>1, Zenon
<1> QED  BY <1>2, Zenon

\* flush() that returns has pushed everything.
Pushes(t) ==
  frame[t].job = "flush" /\ frame'[t] = Idle => \A q \in Pages : OnPeer(q)'
-----------------------------------------------------------------------------
\* The lists of pages.
LEMMA HeadTail ==
  ASSUME NEW s \in Seq(Pages), s # <<>>
  PROVE  /\ Head(s) \in Listed(s) /\ Head(s) \in Pages /\ Tail(s) \in Seq(Pages)
         /\ Listed(Tail(s)) \subseteq Listed(s)
         /\ \A q \in Listed(s) : q = Head(s) \/ q \in Listed(Tail(s))
<1>1. Len(s) \in Nat /\ Len(s) > 0 /\ DOMAIN s = 1 .. Len(s) /\ Head(s) = s[1]
  OBVIOUS
<1>2. /\ Tail(s) \in Seq(Pages) /\ DOMAIN Tail(s) = 1 .. Len(s) - 1
      /\ \A i \in 1 .. Len(s) - 1 : Tail(s)[i] = s[i + 1]
  BY <1>1
<1>3. \A q \in Listed(s) : q = Head(s) \/ q \in Listed(Tail(s))
  <2> SUFFICES ASSUME NEW i \in DOMAIN s, i # 1  PROVE s[i] \in Listed(Tail(s))
    BY <1>1, Zenon DEF Listed
  <2>1. i - 1 \in 1 .. Len(s) - 1 /\ (i - 1) + 1 = i
    BY <1>1
  <2>2. Tail(s)[i - 1] = s[i]
    BY <2>1, <1>2, Zenon
  <2> QED  BY <2>1, <2>2, <1>2, Zenon DEF Listed
<1>4. Listed(Tail(s)) \subseteq Listed(s)
  BY <1>1, <1>2 DEF Listed
<1> QED  BY <1>1, <1>2, <1>3, <1>4 DEF Listed

\* push_back keeps what is listed and adds p.
LEMMA AppendListed ==
  ASSUME NEW s \in Seq(Pages), NEW p \in Pages
  PROVE  /\ Append(s, p) \in Seq(Pages) /\ Len(Append(s, p)) = Len(s) + 1
         /\ Listed(s) \subseteq Listed(Append(s, p)) /\ p \in Listed(Append(s, p))
<1>1. /\ Len(s) \in Nat /\ DOMAIN s = 1 .. Len(s)
      /\ DOMAIN Append(s, p) = 1 .. Len(s) + 1
      /\ \A i \in 1 .. Len(s) : Append(s, p)[i] = s[i]
      /\ Append(s, p)[Len(s) + 1] = p
  OBVIOUS
<1>2. Append(s, p) \in Seq(Pages) /\ Len(Append(s, p)) = Len(s) + 1
  OBVIOUS
<1> QED  BY <1>1, <1>2 DEF Listed

\* Erasing p keeps every other page.
LEMMA EraseListed ==
  ASSUME NEW s \in Seq(Pages), NEW p \in Listed(s)
  PROVE  /\ Erase(s, p) \in Seq(Pages) /\ Len(Erase(s, p)) = Len(s) - 1
         /\ \A q \in Listed(s) : q # p => q \in Listed(Erase(s, p))
<1> DEFINE at == CHOOSE j \in DOMAIN s : s[j] = p
           n == Len(s) - 1
           k == [i \in 1 .. n |-> s[IF i < at THEN i ELSE i + 1]]
<1>1. at \in DOMAIN s /\ s[at] = p
  BY Zenon DEF Listed
<1>2. Erase(s, p) = k
  BY Zenon DEF Erase
<1> HIDE DEF at
<1>3. /\ Len(s) \in Nat /\ DOMAIN s = 1 .. Len(s) /\ at \in 1 .. Len(s) /\ n \in Nat
      /\ \A j \in 1 .. Len(s) : s[j] \in Pages
  BY <1>1
<1>4. \A i \in 1 .. n : s[IF i < at THEN i ELSE i + 1] \in Pages
  BY <1>3
<1>5. k \in Seq(Pages) /\ Len(k) = n /\ DOMAIN k = 1 .. n
  <2> HIDE DEF n
  <2> QED  BY <1>3, <1>4
<1>6. ASSUME NEW j \in 1 .. Len(s), s[j] # p  PROVE s[j] \in Listed(k)
  <2>1. CASE j < at
    <3>1. j \in 1 .. n
      BY <2>1, <1>3
    <3>2. k[j] = s[j]
      BY <3>1, <2>1, Zenon
    <3> QED  BY <3>1, <3>2, <1>5, Zenon DEF Listed
  <2>2. CASE j > at
    <3>1. j - 1 \in 1 .. n /\ ~ (j - 1 < at) /\ (j - 1) + 1 = j
      BY <2>2, <1>3
    <3>2. k[j - 1] = s[j]
      BY <3>1, Zenon
    <3> QED  BY <3>1, <3>2, <1>5, Zenon DEF Listed
  <2> QED  BY <2>1, <2>2, <1>1, <1>3, <1>6
<1> HIDE DEF k
<1>7. \A q \in Listed(s) : q # p => q \in Listed(k)
  BY <1>3, <1>6, Zenon DEF Listed
<1> QED  BY <1>2, <1>5, <1>7, Zenon

-----------------------------------------------------------------------------
\* A job of heap_mutex_'s holder may go on, or return, from f and order: no page
\* is half changed, all mapped pages are in the order, and flush() has pushed
\* what it does not have to visit any more.
Ready(f, order) ==
  /\ IsFrame(f) /\ f.job \in {"fault", "flush", "evict_all"}
  /\ f.job = "fault" => f.page \in Pages
  /\ order \in Seq(Pages)
  /\ \A q \in Pages : state'[q] # "ABSENT" => q \in Listed(order)
  /\ f.job = "flush" =>
       /\ Listed(f.todo) \subseteq Listed(order)
       /\ \A q \in Listed(order) : OnPeer(q)' \/ q \in Listed(f.todo)
  /\ f.job \in {"flush", "evict_all"} => Len(order) <= Budget

\* After the step every page is in its place.
Whole == \A q \in Pages : Kept(q)'

\* A frame in which the thread is at none of the steps of a job.
Outside(g) ==
  /\ IsFrame(g) /\ g.pc \in {"run", "access", "unresolved"}
  /\ g.job \notin {"flush", "evict_all"}
  /\ g.pc # "run" \/ g.job = "fault" => g.page \in Pages

\* A step that ends outside all jobs, and within the budget if heap_mutex_ is free.
LEMMA OutsideStep ==
  ASSUME Sequential, Typed, Steady, Whole, NEW t \in Apps, NEW g, Outside(g),
         frame' = [frame EXCEPT ![t] = g], resident_order_' \in Seq(Pages), Tracked',
         heap_mutex_' = None => Len(resident_order_') <= Budget
  PROVE  IInv' /\ frame'[t] = g
<1>1. Typed' /\ frame'[t] = g
  BY TypedStep, Zenon DEF Outside
<1>2. /\ frame'[t].pc \in {"run", "access", "unresolved"}
      /\ frame'[t].job \notin {"flush", "evict_all"}
      /\ frame'[t].pc # "run" \/ frame'[t].job = "fault" => frame'[t].page \in Pages
  BY <1>1, Zenon DEF Outside
<1>3. FaultOK(t)'
  BY <1>2, Zenon DEF FaultOK, OnPeer, Mapping
<1>4. FlushOK(t)'
  BY <1>2, Zenon DEF FlushOK, OnPeer, Flushing
<1>5. PushedOK(t)'
  BY <1>2, Zenon DEF PushedOK, OnPeer
<1>6. LockOK(t)'
  <2>1. Budget' = Budget
    BY Zenon DEF Budget, Steady
  <2> QED  BY <1>2, <2>1, Zenon DEF LockOK, Mapping, Flushing
<1>7. PagesOK(t)'
  BY Zenon DEF PagesOK, Whole
<1> QED  BY <1>1, <1>3, <1>4, <1>5, <1>6, <1>7, Together, Zenon

\* A job that returns leaves its thread outside all jobs.
LEMMA ReturnedOutside ==
  ASSUME Sequential, NEW t \in Apps, NEW f, IsFrame(f), f.job = "fault" => f.page \in Pages
  PROVE  Outside(Returned(t, f)) /\ (f.job # "fault" => Returned(t, f) = Idle)
<1>1. t # FaultThread
  BY RemoteHeapAssumption, Zenon
<1>2. CASE f.job # "fault"
  <2>1. Returned(t, f) = Idle
    BY <1>1, <1>2, Zenon DEF Returned
  <2> QED  BY <2>1, IdleFrame, Zenon DEF Outside
<1>3. CASE f.job = "fault"
  <2> DEFINE x == IF f.resolved THEN "access" ELSE "unresolved"
             g == [Idle EXCEPT !.pc = x, !.page = f.page, !.write = f.write]
  <2>1. Returned(t, f) = g
    BY <1>1, <1>3, Zenon DEF Returned
  <2>2. x \in {"access", "unresolved"}
    BY Zenon
  <2> HIDE DEF x
  <2>3. /\ g = [y \in DOMAIN Idle |-> g[y]] /\ g.todo = Idle.todo /\ g.job = Idle.job
        /\ g.pc = x /\ g.page = f.page
    BY IdleFrame, Zenon
  <2> HIDE DEF g
  <2> QED  BY <1>3, <2>1, <2>2, <2>3, IdleFrame, Zenon DEF Outside, IsFrame
<1> QED  BY <1>2, <1>3, Zenon

\* Leaving the loop, and heap_mutex_ with it.
LEMMA ReturnStep ==
  ASSUME Sequential, Typed, Steady, Whole, NEW t \in Apps, NEW f, NEW order,
         Ready(f, order), Len(order) <= Budget, Return(t, f, order, frame)
  PROVE  IInv' /\ frame'[t].job # "flush"
<1>1. /\ resident_order_' = order /\ frame' = [frame EXCEPT ![t] = Returned(t, f)]
  BY Zenon DEF Return
<1>2. Outside(Returned(t, f))
  BY ReturnedOutside, Zenon DEF Ready
<1>3. Tracked' /\ resident_order_' \in Seq(Pages)
  BY <1>1, Zenon DEF Ready, Tracked
<1>4. IInv' /\ frame'[t] = Returned(t, f)
  BY <1>1, <1>2, <1>3, OutsideStep, Zenon
<1> QED  BY <1>2, <1>4, Zenon DEF Outside

\* Going on with the next page, or leaving.
LEMMA VictimFacts ==
  ASSUME NEW f, NEW order, IsFrame(f), f.job \in {"fault", "flush", "evict_all"},
         order \in Seq(Pages), Budget \in Nat \ {0}, None \notin Pages,
         f.job = "flush" => Listed(f.todo) \subseteq Listed(order),
         f.job \in {"flush", "evict_all"} => Len(order) <= Budget
  PROVE  /\ NextVictim(f, order) = None =>
              Len(order) <= Budget /\ (f.job = "flush" => f.todo = <<>>)
         /\ NextVictim(f, order) # None =>
              /\ NextVictim(f, order) \in Listed(order)
              /\ f.job = "flush" => f.todo # <<>> /\ NextVictim(f, order) = Head(f.todo)
<1> DEFINE v == NextVictim(f, order)
<1>1. f.todo \in Seq(Pages) /\ Len(order) \in Nat
  BY DEF IsFrame
<1>2. CASE f.job = "fault"
  <2>1. v = IF Len(order) > Budget /\ Len(order) > 1 THEN Head(order) ELSE None
    BY <1>2, Zenon DEF NextVictim
  <2>2. CASE Len(order) > Budget
    <3>1. Len(order) > 1 /\ order # <<>>
      BY <2>2, <1>1
    <3>2. v = Head(order)
      BY <2>1, <2>2, <3>1, Zenon
    <3> QED  BY <3>1, <3>2, <1>2, HeadTail
  <2>3. CASE ~ (Len(order) > Budget)
    BY <2>1, <2>3, <1>1, <1>2
  <2> QED  BY <2>2, <2>3, Zenon
<1>3. CASE f.job = "flush"
  <2>1. v = IF f.todo # <<>> THEN Head(f.todo) ELSE None
    BY <1>3, Zenon DEF NextVictim
  <2>2. CASE f.todo # <<>>
    <3>1. Head(f.todo) \in Listed(f.todo) /\ Head(f.todo) \in Pages
      BY <1>1, <2>2, HeadTail, Zenon
    <3> QED  BY <1>3, <2>1, <2>2, <3>1, Zenon
  <2>3. CASE f.todo = <<>>
    BY <1>3, <2>1, <2>3, Zenon
  <2> QED  BY <2>2, <2>3, Zenon
<1>4. CASE f.job = "evict_all"
  <2>1. v = IF order # <<>> THEN Head(order) ELSE None
    BY <1>4, Zenon DEF NextVictim
  <2>2. CASE order # <<>>
    <3>1. Head(order) \in Listed(order) /\ Head(order) \in Pages
      BY <2>2, HeadTail, Zenon
    <3> QED  BY <1>4, <2>1, <2>2, <3>1, Zenon
  <2>3. CASE order = <<>>
    BY <1>4, <2>1, <2>3, Zenon
  <2> QED  BY <2>2, <2>3, Zenon
<1> QED  BY <1>2, <1>3, <1>4, Zenon

\* The budget is at least one page, and the backend is not Linux.
LEMMA BudgetType ==
  ASSUME Sequential, Typed
  PROVE  Budget \in Nat \ {0} /\ Backend \in {"windows", "macos"}
BY RemoteHeapAssumption, Zenon DEF Sequential, Typed, Budget, Backend

\* The loop goes on with page v.
LEMMA VictimStep ==
  ASSUME Sequential, Typed, Steady, Whole, NEW t \in Apps, NEW f, NEW order, Ready(f, order),
         NEW v, v \in Listed(order), f.job = "flush" => f.todo # <<>> /\ v = Head(f.todo),
         resident_order_' = order, heap_mutex_' = t,
         frame' = [frame EXCEPT ![t] =
            [f EXCEPT !.pc = "is_dirty", !.victim = v,
                      !.todo = IF f.job = "flush" THEN Tail(f.todo) ELSE <<>>]]
  PROVE  IInv' /\ frame'[t].pc = "is_dirty"
<1> DEFINE rest == IF f.job = "flush" THEN Tail(f.todo) ELSE <<>>
           g == [f EXCEPT !.pc = "is_dirty", !.victim = v, !.todo = rest]
<1>1. f.todo \in Seq(Pages) /\ f = [x \in DOMAIN Idle |-> f[x]]
  BY Zenon DEF Ready, IsFrame
<1>2. rest \in Seq(Pages)
  BY <1>1, HeadTail
<1>3. f.job = "flush" =>
        /\ Listed(rest) \subseteq Listed(f.todo)
        /\ \A q \in Listed(f.todo) : q = v \/ q \in Listed(rest)
  <2> SUFFICES ASSUME f.job = "flush"
               PROVE  /\ Listed(Tail(f.todo)) \subseteq Listed(f.todo)
                      /\ \A q \in Listed(f.todo) : q = v \/ q \in Listed(Tail(f.todo))
    BY Zenon
  <2> QED  BY <1>1, HeadTail, Zenon
<1> HIDE DEF rest
<1>4. /\ g.pc = "is_dirty" /\ g.victim = v /\ g.todo = rest /\ g.job = f.job /\ g.page = f.page
      /\ g = [x \in DOMAIN Idle |-> g[x]]
  BY <1>1, IdleFrame, Zenon
<1>5. frame' = [frame EXCEPT ![t] = g]
  BY Zenon DEF rest
<1> HIDE DEF g
<1>6. IsFrame(g)
  BY <1>2, <1>4, Zenon DEF IsFrame
<1>7. Typed' /\ frame'[t] = g
  BY <1>5, <1>6, TypedStep, Zenon DEF Ready
<1>8. /\ frame'[t].pc = "is_dirty" /\ frame'[t].victim = v /\ frame'[t].todo = rest
      /\ frame'[t].job = f.job /\ frame'[t].page = f.page
  BY <1>4, <1>7, Zenon
<1>9. Tracked'
  BY Zenon DEF Ready, Tracked
<1>10. FaultOK(t)'
  BY <1>8, Zenon DEF FaultOK, OnPeer, Mapping, Ready
<1>11. FlushOK(t)'
  BY <1>8, Zenon DEF FlushOK, OnPeer, Flushing, Ready
<1>12. PushedOK(t)'
  <2> SUFFICES ASSUME f.job = "flush"
               PROVE  /\ Listed(rest) \subseteq Listed(order)
                      /\ \A q \in Listed(order) :
                           OnPeer(q)' \/ q \in Listed(rest) \/ q = v
    BY <1>8, Zenon DEF PushedOK, OnPeer
  <2> QED  BY <1>3, Zenon DEF Ready
<1>13. LockOK(t)'
  <2>1. Budget' = Budget
    BY Zenon DEF Budget, Steady
  <2>2. t # None
    BY RemoteHeapAssumption, Zenon DEF Sequential, Workers
  <2> QED  BY <1>8, <2>1, <2>2, Zenon DEF LockOK, Ready
<1>14. PagesOK(t)'
  BY Zenon DEF PagesOK, Whole
<1> QED  BY <1>7, <1>8, <1>9, <1>10, <1>11, <1>12, <1>13, <1>14, Together, Zenon

\* enforce_budget(), flush() and flush_and_evict_all() between two pages.
LEMMA ProceedStep ==
  ASSUME Sequential, Typed, Steady, Whole, NEW t \in Apps, NEW f, NEW order, Ready(f, order),
         Proceed(t, f, order, frame)
  PROVE  /\ IInv'
         /\ f.job = "flush" /\ frame'[t] = Idle => \A q \in Pages : OnPeer(q)'
<1> DEFINE v == NextVictim(f, order)
<1>1. /\ v = None => Len(order) <= Budget /\ (f.job = "flush" => f.todo = <<>>)
      /\ v # None => /\ v \in Listed(order)
                     /\ f.job = "flush" => f.todo # <<>> /\ v = Head(f.todo)
  <2>1. Budget \in Nat \ {0} /\ None \notin Pages
    BY RemoteHeapAssumption, BudgetType, Zenon DEF Sequential
  <2> QED  BY <2>1, VictimFacts, Zenon DEF Ready
<1>2. CASE v = None
  <2>1. Return(t, f, order, frame)
    BY <1>2, Zenon DEF Proceed
  <2>2. IInv'
    BY <1>1, <1>2, <2>1, ReturnStep, Zenon
  <2>3. ASSUME f.job = "flush", NEW q \in Pages  PROVE OnPeer(q)'
    <3>1. f.todo = <<>>
      BY <1>1, <1>2, <2>3, Zenon
    <3>2. Listed(f.todo) = {}
      BY <3>1 DEF Listed
    <3>3. CASE q \in Listed(order)
      BY <2>3, <3>2, <3>3, Zenon DEF Ready
    <3>4. CASE q \notin Listed(order)
      <4>1. state'[q] = "ABSENT"
        BY <3>4, Zenon DEF Ready
      <4> QED  BY <4>1, Zenon DEF Whole, Kept, OnPeer
    <3> QED  BY <3>3, <3>4, Zenon
  <2> QED  BY <2>2, <2>3, Zenon
<1>3. CASE v # None
  <2>1. /\ resident_order_' = order /\ heap_mutex_' = t
        /\ frame' = [frame EXCEPT ![t] =
             [f EXCEPT !.pc = "is_dirty", !.victim = v,
                       !.todo = IF f.job = "flush" THEN Tail(f.todo) ELSE <<>>]]
    BY <1>3, Zenon DEF Proceed
  <2> HIDE DEF v
  <2>2. IInv' /\ frame'[t].pc = "is_dirty"
    BY <1>1, <1>3, <2>1, VictimStep, Zenon
  <2>3. frame'[t] # Idle
    BY <2>2, IdleFrame, Zenon
  <2> QED  BY <2>2, <2>3, Zenon
<1> QED  BY <1>2, <1>3, Zenon

-----------------------------------------------------------------------------
\* memoryd frees the block, and nothing else changes.
LEMMA DropStep ==
  ASSUME IInv, backed' = FALSE, peer' = [p \in Pages |-> peer'[p]],
         UNCHANGED <<setup, prot, mem, state, last, resident_order_, heap_mutex_, frame, zeroed>>
  PROVE  IInv' /\ \A t \in Apps : Pushes(t)
<1>1. Typed'
  BY Zenon DEF IInv, Typed, IsFrame
<1>2. Tracked'
  BY Zenon DEF IInv, Tracked
<1>3. \A t \in Apps : FaultOK(t)'
  BY Zenon DEF IInv, FaultOK, OnPeer
<1>4. \A t \in Apps : FlushOK(t)'
  BY Zenon DEF IInv, FlushOK, OnPeer
<1>5. \A t \in Apps : PushedOK(t)'
  BY Zenon DEF IInv, PushedOK, OnPeer
<1>6. \A t \in Apps : LockOK(t)'
  BY Zenon DEF IInv, LockOK, Budget
<1>7. \A t \in Apps : PagesOK(t)'
  <2>1. ASSUME NEW t \in Apps  PROVE Moving(t)' = Moving(t)
    BY Zenon DEF Moving
  <2>2. ASSUME NEW q \in Pages, Kept(q)  PROVE Kept(q)'
    BY <2>2, Zenon DEF Kept, OnPeer
  <2>3. \A t \in Apps : PagesOK(t)
    BY Zenon DEF IInv
  <2> QED  BY <2>1, <2>2, <2>3, Zenon DEF PagesOK
<1>8. ASSUME NEW t \in Apps, frame[t].job = "flush", frame'[t] = Idle  PROVE FALSE
  BY <1>8, IdleFrame, Zenon
<1> QED  BY <1>1, <1>2, <1>3, <1>4, <1>5, <1>6, <1>7, <1>8, Zenon DEF IInv, Pushes

\* Variables the invariant does not mention.
LEMMA SameStep ==
  ASSUME IInv,
         UNCHANGED <<setup, prot, mem, state, peer, backed, last, resident_order_, heap_mutex_,
                     frame, zeroed>>
  PROVE  IInv' /\ \A t \in Apps : Pushes(t)
<1>1. Typed'
  BY Zenon DEF IInv, Typed, IsFrame
<1>2. Tracked'
  BY Zenon DEF IInv, Tracked
<1>3. \A t \in Apps : FaultOK(t)'
  BY Zenon DEF IInv, FaultOK, OnPeer
<1>4. \A t \in Apps : FlushOK(t)'
  BY Zenon DEF IInv, FlushOK, OnPeer
<1>5. \A t \in Apps : PushedOK(t)'
  BY Zenon DEF IInv, PushedOK, OnPeer
<1>6. \A t \in Apps : LockOK(t)'
  BY Zenon DEF IInv, LockOK, Budget
<1>7. \A t \in Apps : PagesOK(t)'
  <2>1. ASSUME NEW t \in Apps  PROVE Moving(t)' = Moving(t)
    BY Zenon DEF Moving
  <2>2. ASSUME NEW q \in Pages, Kept(q)  PROVE Kept(q)'
    BY <2>2, Zenon DEF Kept, OnPeer
  <2>3. \A t \in Apps : PagesOK(t)
    BY Zenon DEF IInv
  <2> QED  BY <2>1, <2>2, <2>3, Zenon DEF PagesOK
<1>8. ASSUME NEW t \in Apps, frame[t].job = "flush", frame'[t] = Idle  PROVE FALSE
  BY <1>8, IdleFrame, Zenon
<1> QED  BY <1>1, <1>2, <1>3, <1>4, <1>5, <1>6, <1>7, <1>8, Zenon DEF IInv, Pushes, OnPeer

\* A thread goes on to step x.
LEMMA GotoStep ==
  ASSUME Sequential, Typed, Steady, NEW t \in Apps, NEW x,
         x \notin {"zero", "blocked", "uffdio_copy"}, Goto(t, x), resident_order_' \in Seq(Pages)
  PROVE  Typed' /\ Goes(frame[t], frame'[t], x)
<1> DEFINE g == [frame[t] EXCEPT !.pc = x]
<1>1. frame' = [frame EXCEPT ![t] = g]
  BY Zenon DEF Goto
<1>2. Goes(frame[t], g, x)
  BY PcFrame, Zenon DEF Typed
<1> HIDE DEF g
<1>3. IsFrame(g)
  BY <1>2, Zenon DEF Goes
<1> QED  BY <1>1, <1>2, <1>3, TypedStep, Zenon

\* Unchanged variables keep their types.
LEMMA SteadySame ==
  ASSUME Typed, setup' = setup, zeroed' = zeroed
  PROVE  /\ prot' = prot => prot' \in [Pages -> {"none", "ro", "rw"}]
         /\ state' = state => state' \in [Pages -> {"ABSENT", "RESIDENT", "DIRTY"}]
         /\ mem' = mem => mem' = [p \in Pages |-> mem'[p]]
         /\ peer' = peer /\ backed' = backed => peer' = [p \in Pages |-> peer'[p]]
         /\ last' = last => last' = [p \in Pages |-> last'[p]]
BY Zenon DEF Typed

\* While no page is half changed every page is kept.
LEMMA AllKept ==
  ASSUME IInv, NEW t \in Apps,
         frame[t].pc \notin {"fill", "protect", "settle_clean", "settle_dirty", "promoted",
                             "cleared", "forget"}
  PROVE  \A q \in Pages : Kept(q)
<1>1. Moving(t) = {}
  BY Zenon DEF Moving
<1> QED  BY <1>1, Zenon DEF IInv, PagesOK

\* A store goes to a page that is writable, hence dirty: the peer may fall behind.
LEMMA TouchStep ==
  ASSUME Sequential, IInv, NEW t \in Apps, NEW p \in Pages, NEW w \in BOOLEAN, Touch(t, p, w)
  PROVE  IInv' /\ Pushes(t)
<1>1. /\ frame[t].pc \in {"run", "access"}
      /\ prot[p] \in (IF w THEN {"rw"} ELSE {"ro", "rw"})
      /\ frame' = [frame EXCEPT ![t] = Idle]
      /\ prot' = prot /\ state' = state /\ peer' = peer /\ backed' = backed /\ resident_order_' = resident_order_
      /\ heap_mutex_' = heap_mutex_ /\ setup' = setup /\ zeroed' = zeroed
  BY Zenon DEF Touch, At, heapVars, worldVars, netVars, fateVars
<1>2. \/ w /\ mem' = [mem EXCEPT ![p] = stores + 1] /\ last' = [last EXCEPT ![p] = stores + 1]
      \/ mem' = mem /\ last' = last
  BY Zenon DEF Touch, programVars
<1>3. Typed /\ LockOK(t) /\ FlushOK(t) /\ Tracked
  BY Zenon DEF IInv
<1>4. frame[t].job \notin {"flush", "evict_all"}
  BY <1>1, <1>3, Zenon DEF FlushOK, OnPeer, Flushing
<1>5. \A q \in Pages : Kept(q)
  BY <1>1, AllKept, Zenon
<1>6. Steady
  BY <1>1, <1>2, <1>3, Zenon DEF Steady, Typed
<1>7. Whole
  <2> SUFFICES ASSUME NEW q \in Pages  PROVE Kept(q)'
    BY Zenon DEF Whole
  <2>1. CASE w /\ q = p
    <3>1. state[q] = "DIRTY" /\ prot[q] = "rw"
      BY <1>1, <1>5, <2>1, Zenon DEF Kept, OnPeer
    <3>2. CASE mem' = [mem EXCEPT ![p] = stores + 1] /\ last' = [last EXCEPT ![p] = stores + 1]
      <4>1. mem'[q] = last'[q]
        BY <1>3, <2>1, <3>2, Zenon DEF Typed
      <4> QED  BY <1>1, <3>1, <4>1, Zenon DEF Kept, OnPeer
    <3>3. CASE mem' = mem /\ last' = last
      BY <1>1, <1>5, <3>3, Zenon DEF Kept, OnPeer
    <3> QED  BY <1>2, <3>2, <3>3, Zenon
  <2>2. CASE ~ (w /\ q = p)
    <3>1. mem'[q] = mem[q] /\ last'[q] = last[q]
      BY <1>2, <1>3, <2>2, Zenon DEF Typed
    <3> QED  BY <1>1, <1>5, <3>1, Zenon DEF Kept, OnPeer
  <2> QED  BY <2>1, <2>2, Zenon
<1>8. Outside(Idle)
  BY IdleFrame, Zenon DEF Outside
<1>9. Tracked' /\ resident_order_' \in Seq(Pages)
  BY <1>1, <1>3, Zenon DEF Tracked, Typed
<1>10. heap_mutex_' = None => Len(resident_order_') <= Budget
  BY <1>1, <1>3, Zenon DEF LockOK
<1>11. IInv'
  BY <1>1, <1>3, <1>6, <1>7, <1>8, <1>9, <1>10, OutsideStep, Zenon
<1> QED  BY <1>4, <1>11, Zenon DEF Pushes, OnPeer

\* A step that changes no page.
Still ==
  /\ setup' = setup /\ zeroed' = zeroed
  /\ prot' = prot /\ state' = state /\ mem' = mem /\ peer' = peer /\ backed' = backed /\ last' = last

\* A step that changes no page keeps the types ...
LEMMA StillSteady ==
  ASSUME Typed, Still
  PROVE  Steady
BY Zenon DEF Typed, Still, Steady

\* ... and every page in its place.
LEMMA StillWhole ==
  ASSUME Still, \A q \in Pages : Kept(q)
  PROVE  Whole
BY Zenon DEF Still, Kept, OnPeer, Whole

\* A step outside the jobs that leaves the accounting alone.
LEMMA OutsideLocks ==
  ASSUME Typed, Tracked, NEW t \in Apps, LockOK(t), setup' = setup, state' = state,
         resident_order_' = resident_order_, heap_mutex_' = heap_mutex_,
         frame'[t].pc \notin Mapping \cup Flushing,
         frame'[t].job \notin {"flush", "evict_all"}
  PROVE  Tracked' /\ resident_order_' \in Seq(Pages) /\ LockOK(t)' /\ PushedOK(t)'
<1>1. Budget' = Budget
  BY Zenon DEF Budget
<1>2. LockOK(t)'
  BY <1>1, Zenon DEF LockOK
<1>3. frame'[t].job # "flush"
  BY Zenon
<1> QED  BY <1>2, <1>3, Zenon DEF Tracked, Typed, PushedOK, OnPeer

\* An access that traps changes nothing but its thread.
LEMMA FaultStep ==
  ASSUME Sequential, IInv, NEW t \in Apps, NEW p \in Pages, NEW w \in BOOLEAN, Fault(t, p, w)
  PROVE  IInv' /\ Pushes(t)
<1> DEFINE g == [Idle EXCEPT !.pc = "trap", !.page = p, !.write = w]
<1>1. Typed /\ LockOK(t) /\ FlushOK(t) /\ Tracked
  BY Zenon DEF IInv
<1>2. Backend # "linux"
  BY <1>1, BudgetType, Zenon
<1>3. /\ frame[t].pc \in {"run", "access"}
      /\ frame' = [frame EXCEPT ![t] = g]
      /\ resident_order_' = resident_order_ /\ heap_mutex_' = heap_mutex_
      /\ Still
  BY <1>2, Zenon DEF Fault, At, heapVars, worldVars, netVars, fateVars, mapVars, programVars, Still
<1>4. frame[t].job \notin {"flush", "evict_all"}
  BY <1>1, <1>3, Zenon DEF FlushOK, OnPeer, Flushing
<1>5. IsFrame(g) /\ g.pc = "trap" /\ g.page = p /\ g.job = "none"
  BY IdleFrame, Zenon DEF IsFrame
<1> HIDE DEF g
<1>6. Typed' /\ frame'[t] = g
  BY <1>1, <1>3, <1>5, StillSteady, TypedStep, Zenon DEF Typed
<1>7. frame'[t].pc = "trap" /\ frame'[t].page = p /\ frame'[t].job = "none"
  BY <1>5, <1>6, Zenon
<1>8. PagesOK(t)'
  BY <1>3, AllKept, StillWhole, Zenon DEF PagesOK, Whole
<1>9. Tracked' /\ LockOK(t)' /\ PushedOK(t)'
  BY <1>1, <1>3, <1>7, OutsideLocks, Zenon DEF Mapping, Flushing, Still
<1>10. FaultOK(t)' /\ FlushOK(t)'
  BY <1>7, Zenon DEF FaultOK, OnPeer, FlushOK, Mapping, Flushing
<1>11. IInv'
  BY <1>6, <1>8, <1>9, <1>10, Together, Zenon
<1> QED  BY <1>4, <1>11, Zenon DEF Pushes, OnPeer

\* A crash leaves everything as it is.
LEMMA CrashStep ==
  ASSUME IInv, NEW t \in Apps, Crash(t)
  PROVE  IInv' /\ Pushes(t)
BY SameStep, Zenon DEF Crash, mapVars, heapVars, worldVars, netVars, programVars

\* The handler looks the page up.
LEMMA TrapStep ==
  ASSUME Sequential, IInv, NEW t \in Apps, Trap(t)
  PROVE  IInv' /\ Pushes(t)
<1> DEFINE x == IF state[frame[t].page] = "ABSENT" THEN "fetch" ELSE "promote"
<1>1. Typed /\ LockOK(t) /\ FlushOK(t) /\ FaultOK(t) /\ Tracked
  BY Zenon DEF IInv
<1>2. CASE ~ Crash(t)
  <2>1. /\ frame[t].pc = "trap" /\ Goto(t, x)
        /\ resident_order_' = resident_order_ /\ heap_mutex_' = heap_mutex_
        /\ Still
    BY <1>2, Zenon DEF Trap, At, heapVars, worldVars, netVars, fateVars, mapVars, programVars, Still
  <2>2. frame[t].job \notin {"flush", "evict_all"} /\ frame[t].page \in Pages
    BY <1>1, <2>1, Zenon DEF FlushOK, OnPeer, Flushing, FaultOK
  <2>3. x \in {"fetch", "promote"}
    BY Zenon
  <2>4. Typed' /\ Goes(frame[t], frame'[t], x)
    <3>1. x \notin {"zero", "blocked", "uffdio_copy"} /\ resident_order_' \in Seq(Pages)
      BY <1>1, <2>1, <2>3, Zenon DEF Typed
    <3> HIDE DEF x
    <3> QED  BY <1>1, <2>1, <3>1, StillSteady, GotoStep, Zenon
  <2>5. PagesOK(t)'
    BY <2>1, AllKept, StillWhole, Zenon DEF PagesOK, Whole
  <2>6. Tracked' /\ LockOK(t)' /\ PushedOK(t)'
    BY <1>1, <2>1, <2>2, <2>3, <2>4, OutsideLocks, Zenon DEF Mapping, Flushing, Still, Goes
  <2>7. FaultOK(t)'
    BY <2>1, <2>2, <2>4, Zenon DEF FaultOK, OnPeer, Mapping, Still, Goes
  <2>8. FlushOK(t)'
    BY <2>2, <2>3, <2>4, Zenon DEF FlushOK, OnPeer, Flushing, Goes
  <2>9. IInv'
    BY <2>4, <2>5, <2>6, <2>7, <2>8, Together, Zenon
  <2> QED  BY <2>2, <2>9, Zenon DEF Pushes, OnPeer
<1> QED  BY <1>2, CrashStep, Zenon

\* The protection of a resident page is lifted; its state follows in PromotedStep.
LEMMA PromoteStep ==
  ASSUME Sequential, IInv, NEW t \in Apps, Promote(t)
  PROVE  IInv' /\ Pushes(t)
<1> DEFINE p == frame[t].page
<1>1. Typed /\ LockOK(t) /\ FlushOK(t) /\ FaultOK(t) /\ Tracked
  BY Zenon DEF IInv
<1>2. CASE ~ Crash(t)
  <2>1. /\ frame[t].pc = "promote" /\ Goto(t, "promoted")
        /\ prot' = [prot EXCEPT ![p] = "rw"]
        /\ mem' = mem /\ state' = state /\ peer' = peer /\ backed' = backed /\ last' = last
        /\ resident_order_' = resident_order_ /\ heap_mutex_' = heap_mutex_
        /\ setup' = setup /\ zeroed' = zeroed
    BY <1>2, Zenon DEF Promote, At, heapVars, worldVars, netVars, fateVars, programVars
  <2>2. /\ frame[t].job \notin {"flush", "evict_all"} /\ p \in Pages
        /\ state[p] # "ABSENT"
    BY <1>1, <2>1, Zenon DEF FlushOK, OnPeer, Flushing, FaultOK
  <2>3. Steady
    BY <1>1, <2>1, <2>2, Zenon DEF Steady, Typed
  <2>4. Typed' /\ Goes(frame[t], frame'[t], "promoted")
    BY <1>1, <2>1, <2>3, GotoStep, Zenon DEF Typed
  <2>5. \A q \in Pages : Kept(q)
    BY <2>1, AllKept, Zenon
  <2>6. /\ frame'[t].pc = "promoted" /\ frame'[t].page = p /\ frame'[t].job = frame[t].job
    BY <2>4, Zenon DEF Goes
  <2>7. PagesOK(t)'
    <3>1. Moving(t)' = {p}
      BY <2>6, Zenon DEF Moving
    <3>2. ASSUME NEW q \in Pages, q # p  PROVE Kept(q)'
      <4>1. prot'[q] = prot[q]
        BY <1>1, <2>1, <3>2, Zenon DEF Typed
      <4> QED  BY <2>1, <2>5, <4>1, Zenon DEF Kept, OnPeer
    <3> QED  BY <3>1, <3>2, Zenon DEF PagesOK
  <2>8. Tracked' /\ LockOK(t)' /\ PushedOK(t)'
    BY <1>1, <2>1, <2>2, <2>6, OutsideLocks, Zenon DEF Mapping, Flushing
  <2>9. FaultOK(t)'
    <3>1. mem[p] = last[p] /\ (state[p] # "DIRTY" => OnPeer(p))
      BY <2>2, <2>5, Zenon DEF Kept, OnPeer
    <3>2. prot'[p] = "rw"
      BY <1>1, <2>1, <2>2, Zenon DEF Typed
    <3> QED  BY <2>1, <2>2, <2>6, <3>1, <3>2, Zenon DEF FaultOK, OnPeer, Mapping
  <2>10. FlushOK(t)'
    BY <2>2, <2>6, Zenon DEF FlushOK, OnPeer, Flushing
  <2>11. IInv'
    BY <2>4, <2>7, <2>8, <2>9, <2>10, Together, Zenon
  <2> QED  BY <2>2, <2>11, Zenon DEF Pushes, OnPeer
<1> QED  BY <1>2, CrashStep, Zenon

\* The page is recorded dirty before the store is executed again.
LEMMA PromotedStep ==
  ASSUME Sequential, IInv, NEW t \in Apps, Promoted(t)
  PROVE  IInv' /\ Pushes(t)
<1> DEFINE p == frame[t].page
           g == [frame[t] EXCEPT !.pc = "access"]
<1>1. Typed /\ LockOK(t) /\ FlushOK(t) /\ FaultOK(t) /\ Tracked /\ PagesOK(t)
  BY Zenon DEF IInv
<1>2. /\ frame[t].pc = "promoted" /\ frame' = [frame EXCEPT ![t] = g]
      /\ state' = [state EXCEPT ![p] = "DIRTY"]
      /\ mem' = mem /\ prot' = prot /\ peer' = peer /\ backed' = backed /\ last' = last
      /\ resident_order_' = resident_order_ /\ heap_mutex_' = heap_mutex_
      /\ setup' = setup /\ zeroed' = zeroed
  BY Zenon DEF Promoted, At, Goto, mapVars, heapVars, worldVars, netVars, fateVars, programVars
<1>3. /\ frame[t].job \notin {"flush", "evict_all"} /\ p \in Pages
      /\ state[p] # "ABSENT" /\ prot[p] = "rw" /\ mem[p] = last[p]
  BY <1>1, <1>2, Zenon DEF FlushOK, OnPeer, Flushing, FaultOK
<1>4. Steady
  BY <1>1, <1>2, <1>3, Zenon DEF Steady, Typed
<1>5. Outside(g)
  <2>1. Goes(frame[t], g, "access")
    BY <1>1, PcFrame, Zenon DEF Typed
  <2> HIDE DEF g
  <2> QED  BY <1>3, <2>1, Zenon DEF Outside, Goes
<1> HIDE DEF g
<1>6. Whole
  <2> SUFFICES ASSUME NEW q \in Pages  PROVE Kept(q)'
    BY Zenon DEF Whole
  <2>1. CASE q = p
    <3>1. state'[q] = "DIRTY"
      BY <1>1, <1>2, <1>3, <2>1, Zenon DEF Typed
    <3> QED  BY <1>2, <1>3, <2>1, <3>1, Zenon DEF Kept, OnPeer
  <2>2. CASE q # p
    <3>1. Kept(q)
      BY <1>1, <1>2, <2>2, Zenon DEF PagesOK, Moving
    <3>2. state'[q] = state[q]
      BY <1>1, <1>2, <2>2, Zenon DEF Typed
    <3> QED  BY <1>2, <3>1, <3>2, Zenon DEF Kept, OnPeer
  <2> QED  BY <2>1, <2>2, Zenon
<1>7. Tracked' /\ resident_order_' \in Seq(Pages)
  BY <1>1, <1>2, <1>3, Zenon DEF Tracked, Typed
<1>8. heap_mutex_' = None => Len(resident_order_') <= Budget
  BY <1>1, <1>2, Zenon DEF LockOK
<1>9. IInv'
  BY <1>1, <1>2, <1>4, <1>5, <1>6, <1>7, <1>8, OutsideStep, Zenon
<1> QED  BY <1>3, <1>9, Zenon DEF Pushes, OnPeer

\* The frame f of a fault, once d has been fetched for its page.
Fetched(f, g, d) ==
  IsFrame(g) /\ g.pc = "lock" /\ g.page = f.page /\ g.job = "fault" /\ g.data = d

\* The fields handle_fault() sets once client_.read() has returned.
LEMMA FetchFrame ==
  ASSUME NEW f, IsFrame(f), NEW d
  PROVE  Fetched(f, [f EXCEPT !.pc = "lock", !.data = d, !.job = "fault"], d)
<1> DEFINE g == [f EXCEPT !.pc = "lock", !.data = d, !.job = "fault"]
<1>1. f = [x \in DOMAIN Idle |-> f[x]] /\ f.todo \in Seq(Pages)
  BY Zenon DEF IsFrame
<1>2. /\ g = [x \in DOMAIN Idle |-> g[x]]
      /\ g.pc = "lock" /\ g.page = f.page /\ g.job = "fault" /\ g.data = d /\ g.todo = f.todo
  BY <1>1, IdleFrame, Zenon
<1> HIDE DEF g
<1>3. Fetched(f, g, d)
  BY <1>1, <1>2, Zenon DEF IsFrame, Fetched
<1> QED  BY <1>3, Zenon DEF g

\* An absent page was pushed, so what memoryd answers is the last store; without
\* an answer nothing is mapped.
LEMMA FetchStep ==
  ASSUME Sequential, IInv, NEW t \in Apps, Fetch(t)
  PROVE  IInv' /\ Pushes(t)
<1> DEFINE p == frame[t].page
           g == [frame[t] EXCEPT !.pc = "lock", !.data = peer[p], !.job = "fault"]
<1>1. Typed /\ LockOK(t) /\ FlushOK(t) /\ FaultOK(t) /\ Tracked
  BY Zenon DEF IInv
<1>2. Backend # "linux"
  BY <1>1, BudgetType, Zenon
<1>3. CASE /\ UNCHANGED <<setup, prot, mem, state, peer, backed, last, resident_order_, heap_mutex_>>
           /\ UNCHANGED <<frame, zeroed>>
  BY <1>3, SameStep, Zenon
<1>4. CASE /\ link = "up" /\ backed
           /\ frame' = [frame EXCEPT ![t].pc = "lock", ![t].data = peer[p], ![t].job = "fault"]
           /\ UNCHANGED <<mapVars, state, peer, heapVars, events, worldVars, fateVars, programVars>>
  <2>2. /\ frame[t].pc = "fetch" /\ backed
        /\ frame' = [frame EXCEPT ![t].pc = "lock", ![t].data = peer[p], ![t].job = "fault"]
        /\ resident_order_' = resident_order_ /\ heap_mutex_' = heap_mutex_
        /\ Still
    BY <1>4, Zenon DEF Fetch, At, heapVars, worldVars, netVars, fateVars, mapVars, programVars,
                       Still
  <2>3. /\ frame[t].job \notin {"flush", "evict_all"} /\ p \in Pages
        /\ state[p] = "ABSENT"
    BY <1>1, <2>2, Zenon DEF FlushOK, OnPeer, Flushing, FaultOK
  <2>4. /\ IsFrame(g) /\ g.pc = "lock" /\ g.page = p /\ g.job = "fault" /\ g.data = peer[p]
    <3>1. IsFrame(frame[t])
      BY <1>1, Zenon DEF Typed
    <3>2. Fetched(frame[t], g, peer[p])
      BY <3>1, FetchFrame, Zenon
    <3> HIDE DEF g
    <3> QED  BY <3>2, Zenon DEF Fetched
  <2>5. frame' = [frame EXCEPT ![t] = g]
    BY <1>1, <2>2, IdleFrame, Zenon DEF Typed, Workers, IsFrame
  <2> HIDE DEF g
  <2>6. Typed' /\ frame'[t] = g
    <3>1. Steady /\ resident_order_' \in Seq(Pages)
      BY <1>1, <2>2, StillSteady, Zenon DEF Typed
    <3> QED  BY <1>1, <2>4, <2>5, <3>1, TypedStep, Zenon
  <2>7. /\ frame'[t].pc = "lock" /\ frame'[t].page = p /\ frame'[t].job = "fault"
        /\ frame'[t].data = peer[p]
    BY <2>4, <2>6, Zenon
  <2>8. \A q \in Pages : Kept(q)
    BY <2>2, AllKept, Zenon
  <2>9. PagesOK(t)'
    BY <2>2, <2>8, StillWhole, Zenon DEF PagesOK, Whole
  <2>10. Tracked' /\ LockOK(t)' /\ PushedOK(t)'
    BY <1>1, <2>2, <2>7, OutsideLocks, Zenon DEF Mapping, Flushing, Still
  <2>11. FaultOK(t)'
    <3>1. peer[p] = last[p]
      BY <2>2, <2>3, <2>8, Zenon DEF Kept, OnPeer
    <3> QED  BY <2>2, <2>3, <2>7, <3>1, Zenon DEF FaultOK, OnPeer, Mapping, Still
  <2>12. FlushOK(t)'
    BY <2>7, Zenon DEF FlushOK, OnPeer, Flushing
  <2>13. IInv'
    BY <2>6, <2>9, <2>10, <2>11, <2>12, Together, Zenon
  <2> QED  BY <2>3, <2>13, Zenon DEF Pushes
<1> QED  BY <1>2, <1>3, <1>4, Zenon DEF Fetch, mapVars, heapVars, fateVars, programVars

\* Nobody changes the page between the fetch and heap_mutex_: there is one thread.
LEMMA LockStep ==
  ASSUME Sequential, IInv, NEW t \in Apps, Lock(t)
  PROVE  IInv' /\ Pushes(t)
<1> DEFINE p == frame[t].page
<1>1. Typed /\ LockOK(t) /\ FlushOK(t) /\ FaultOK(t) /\ Tracked
  BY Zenon DEF IInv
<1>2. Backend # "linux"
  BY <1>1, BudgetType, Zenon
<1>3. /\ frame[t].pc = "lock" /\ Goto(t, "commit") /\ heap_mutex_' = t
      /\ resident_order_' = resident_order_ /\ Still
  BY <1>2, Zenon DEF Lock, At, worldVars, netVars, fateVars, mapVars, programVars, Still
<1>4. /\ frame[t].job = "fault" /\ p \in Pages
      /\ state[p] = "ABSENT" /\ frame[t].data = last[p]
  BY <1>1, <1>3, Zenon DEF FaultOK, OnPeer
<1>5. Typed' /\ Goes(frame[t], frame'[t], "commit")
  BY <1>1, <1>3, StillSteady, GotoStep, Zenon DEF Typed
<1>6. /\ frame'[t].pc = "commit" /\ frame'[t].page = p /\ frame'[t].job = "fault"
      /\ frame'[t].data = last[p]
  BY <1>4, <1>5, Zenon DEF Goes
<1>7. \A q \in Pages : Kept(q)
  BY <1>3, AllKept, Zenon
<1>8. PagesOK(t)'
  BY <1>3, <1>7, StillWhole, Zenon DEF PagesOK, Whole
<1>9. Tracked' /\ PushedOK(t)'
  BY <1>1, <1>3, <1>6, Zenon DEF Tracked, PushedOK, OnPeer, Still
<1>10. LockOK(t)'
  <2>1. t # None
    BY RemoteHeapAssumption, Zenon DEF Sequential, Workers
  <2> QED  BY <1>3, <1>6, <2>1, Zenon DEF LockOK
<1>11. FaultOK(t)'
  <2>1. OnPeer(p)
    BY <1>4, <1>7, Zenon DEF Kept, OnPeer
  <2> QED  BY <1>3, <1>4, <1>6, <2>1, Zenon DEF FaultOK, OnPeer, Mapping, Still
<1>12. FlushOK(t)'
  BY <1>6, Zenon DEF FlushOK, OnPeer, Flushing
<1>13. IInv'
  BY <1>5, <1>8, <1>9, <1>10, <1>11, <1>12, Together, Zenon
<1>14. frame[t].job # "flush"
  BY <1>4, Zenon
<1> QED  BY <1>13, <1>14, Zenon DEF Pushes, OnPeer

\* handle_fault() accounts for its page and goes on.
LEMMA TrackStep ==
  ASSUME Sequential, IInv, Steady, Whole, NEW t \in Apps, NEW r,
         frame[t].job = "fault", frame[t].page \in Pages,
         \A q \in Pages : q # frame[t].page => state'[q] = state[q],
         Track(t, r, frame)
  PROVE  IInv'
<1> DEFINE p == frame[t].page
           f == [frame[t] EXCEPT !.resolved = r]
           order == IF \E i \in DOMAIN resident_order_ : resident_order_[i] = p
                    THEN resident_order_ ELSE Append(resident_order_, p)
<1>1. Typed /\ Tracked
  BY Zenon DEF IInv
<1>2. Proceed(t, f, order, frame)
  BY Zenon DEF Track
<1>3. IsFrame(f) /\ f.job = "fault" /\ f.page = p
  <2>1. IsFrame(frame[t])
    BY <1>1, Zenon DEF Typed
  <2> QED  BY <2>1, IdleFrame, Zenon DEF IsFrame
<1> HIDE DEF f
<1>4. /\ order \in Seq(Pages) /\ p \in Listed(order)
      /\ Listed(resident_order_) \subseteq Listed(order)
  <2>1. resident_order_ \in Seq(Pages)
    BY <1>1, Zenon DEF Typed
  <2>2. CASE \E i \in DOMAIN resident_order_ : resident_order_[i] = p
    <3>1. order = resident_order_
      BY <2>2, Zenon
    <3>2. p \in Listed(resident_order_)
      BY <2>2, Zenon DEF Listed
    <3> HIDE DEF order
    <3> QED  BY <2>1, <3>1, <3>2, Zenon
  <2>3. CASE ~ \E i \in DOMAIN resident_order_ : resident_order_[i] = p
    <3>1. order = Append(resident_order_, p)
      BY <2>3, Zenon
    <3> HIDE DEF order
    <3> QED  BY <2>1, <3>1, AppendListed, Zenon
  <2> QED  BY <2>2, <2>3, Zenon
<1> HIDE DEF order
<1>5. \A q \in Pages : state'[q] # "ABSENT" => q \in Listed(order)
  BY <1>1, <1>4, Zenon DEF Tracked
<1>6. Ready(f, order)
  BY <1>3, <1>4, <1>5, Zenon DEF Ready
<1> QED  BY <1>1, <1>2, <1>6, ProceedStep, Zenon

\* Under heap_mutex_, between two steps of resolve_fault().
LEMMA MappingLocks ==
  ASSUME Sequential, IInv, NEW t \in Apps, heap_mutex_ = t, heap_mutex_' = heap_mutex_,
         resident_order_' = resident_order_, state' = state,
         frame'[t].pc \in Mapping, frame'[t].job = "fault"
  PROVE  Tracked' /\ LockOK(t)' /\ PushedOK(t)' /\ FlushOK(t)'
<1>1. t # None
  BY RemoteHeapAssumption, Zenon DEF Sequential, Workers
<1>2. Tracked'
  BY Zenon DEF IInv, Tracked
<1>3. LockOK(t)'
  BY <1>1, Zenon DEF LockOK
<1>4. PushedOK(t)'
  BY Zenon DEF PushedOK, OnPeer
<1>5. FlushOK(t)'
  BY Zenon DEF FlushOK, OnPeer, Flushing, Mapping
<1> QED  BY <1>2, <1>3, <1>4, <1>5, Zenon

\* What is known of the page during those steps.
LEMMA MappingFacts ==
  ASSUME IInv, NEW t \in Apps, frame[t].pc \in Mapping
  PROVE  /\ frame[t].job = "fault" /\ heap_mutex_ = t
         /\ frame[t].page \in Pages /\ state[frame[t].page] = "ABSENT"
         /\ OnPeer(frame[t].page)
<1>1. FaultOK(t) /\ LockOK(t)
  BY Zenon DEF IInv
<1> QED  BY <1>1, Zenon DEF FaultOK, OnPeer, LockOK

\* resolve_fault() commits the page, or gives up.
LEMMA CommitStep ==
  ASSUME Sequential, IInv, NEW t \in Apps, Commit(t)
  PROVE  IInv' /\ Pushes(t)
<1> DEFINE p == frame[t].page
<1>1. Typed /\ Tracked /\ FaultOK(t)
  BY Zenon DEF IInv
<1>2. /\ frame[t].pc = "commit"
      /\ state' = state /\ peer' = peer /\ backed' = backed /\ last' = last /\ setup' = setup /\ zeroed' = zeroed
      /\ \/ /\ prot' = [prot EXCEPT ![p] = "rw"]
            /\ mem' = [mem EXCEPT ![p] = IF prot[p] = "none" THEN Blank ELSE @]
            /\ Goto(t, "fill") /\ resident_order_' = resident_order_ /\ heap_mutex_' = heap_mutex_
         \/ Track(t, FALSE, frame) /\ prot' = prot /\ mem' = mem
  BY Zenon DEF Commit, At, heapVars, mapVars, worldVars, netVars, fateVars, programVars
<1>3. /\ frame[t].job = "fault" /\ heap_mutex_ = t /\ p \in Pages /\ state[p] = "ABSENT"
      /\ OnPeer(p) /\ frame[t].data = last[p]
  <2>1. frame[t].pc \in Mapping
    BY <1>2, Zenon DEF Mapping
  <2> QED  BY <1>1, <1>2, <2>1, MappingFacts, Zenon DEF FaultOK, OnPeer
<1>4. \A q \in Pages : Kept(q)
  BY <1>2, AllKept, Zenon
<1>5. frame[t].job # "flush"
  BY <1>3, Zenon
<1>6. CASE Track(t, FALSE, frame) /\ prot' = prot /\ mem' = mem
  <2>1. Still
    BY <1>2, <1>6, Zenon DEF Still
  <2>2. Steady /\ Whole
    BY <1>1, <1>4, <2>1, StillSteady, StillWhole, Zenon
  <2>3. IInv'
    BY <1>2, <1>3, <1>6, <2>2, TrackStep, Zenon
  <2> QED  BY <1>5, <2>3, Zenon DEF Pushes, OnPeer
<1>7. CASE /\ prot' = [prot EXCEPT ![p] = "rw"]
           /\ mem' = [mem EXCEPT ![p] = IF prot[p] = "none" THEN Blank ELSE @]
           /\ Goto(t, "fill") /\ resident_order_' = resident_order_ /\ heap_mutex_' = heap_mutex_
  <2>1. Steady
    BY <1>1, <1>2, <1>3, <1>7, Zenon DEF Steady, Typed
  <2>2. Typed' /\ Goes(frame[t], frame'[t], "fill")
    BY <1>1, <1>7, <2>1, GotoStep, Zenon DEF Typed
  <2>3. /\ frame'[t].pc = "fill" /\ frame'[t].page = p /\ frame'[t].job = "fault"
        /\ frame'[t].data = last[p]
    BY <1>3, <2>2, Zenon DEF Goes
  <2>4. PagesOK(t)'
    <3>1. Moving(t)' = {p}
      BY <2>3, Zenon DEF Moving
    <3>2. ASSUME NEW q \in Pages, q # p  PROVE Kept(q)'
      <4>1. prot'[q] = prot[q] /\ mem'[q] = mem[q]
        BY <1>1, <1>7, <3>2, Zenon DEF Typed
      <4> QED  BY <1>2, <1>4, <4>1, Zenon DEF Kept, OnPeer
    <3> QED  BY <3>1, <3>2, Zenon DEF PagesOK
  <2>5. Tracked' /\ LockOK(t)' /\ PushedOK(t)' /\ FlushOK(t)'
    <3>1. frame'[t].pc \in Mapping
      BY <2>3, Zenon DEF Mapping
    <3> QED  BY <1>2, <1>3, <1>7, <2>3, <3>1, MappingLocks, Zenon
  <2>6. FaultOK(t)'
    <3>1. prot'[p] = "rw"
      BY <1>1, <1>3, <1>7, Zenon DEF Typed
    <3> QED  BY <1>2, <1>3, <2>3, <3>1, Zenon DEF FaultOK, OnPeer, Mapping
  <2>7. IInv'
    BY <2>2, <2>4, <2>5, <2>6, Together, Zenon
  <2> QED  BY <1>5, <2>7, Zenon DEF Pushes, OnPeer
<1> QED  BY <1>2, <1>6, <1>7, Zenon

\* The fetched data is copied in.
LEMMA FillStep ==
  ASSUME Sequential, IInv, NEW t \in Apps, Fill(t)
  PROVE  IInv' /\ Pushes(t)
<1> DEFINE p == frame[t].page
           x == IF frame[t].write /\ Backend = "windows" THEN "settle_dirty" ELSE "protect"
<1>1. Typed /\ FaultOK(t) /\ PagesOK(t)
  BY Zenon DEF IInv
<1>2. /\ frame[t].pc = "fill" /\ Goto(t, x)
      /\ mem' = [mem EXCEPT ![p] = frame[t].data]
      /\ prot' = prot /\ state' = state /\ peer' = peer /\ backed' = backed /\ last' = last
      /\ resident_order_' = resident_order_ /\ heap_mutex_' = heap_mutex_
      /\ setup' = setup /\ zeroed' = zeroed
  BY Zenon DEF Fill, At, heapVars, worldVars, netVars, fateVars, programVars
<1>3. /\ frame[t].job = "fault" /\ heap_mutex_ = t /\ p \in Pages /\ state[p] = "ABSENT"
      /\ OnPeer(p) /\ frame[t].data = last[p] /\ prot[p] = "rw"
  <2>1. frame[t].pc \in Mapping
    BY <1>2, Zenon DEF Mapping
  <2> QED  BY <1>1, <1>2, <2>1, MappingFacts, Zenon DEF FaultOK, OnPeer
<1>4. x \in {"settle_dirty", "protect"}
  BY Zenon
<1> HIDE DEF x
<1>5. Steady
  BY <1>1, <1>2, <1>3, Zenon DEF Steady, Typed
<1>6. Typed' /\ Goes(frame[t], frame'[t], x)
  BY <1>1, <1>2, <1>4, <1>5, GotoStep, Zenon DEF Typed
<1>7. frame'[t].pc = x /\ frame'[t].page = p /\ frame'[t].job = "fault"
  BY <1>3, <1>6, Zenon DEF Goes
<1>8. PagesOK(t)'
  <2>1. Moving(t)' = {p}
    BY <1>4, <1>7, Zenon DEF Moving
  <2>2. Moving(t) = {p}
    BY <1>2, Zenon DEF Moving
  <2>3. ASSUME NEW q \in Pages, q # p  PROVE Kept(q)'
    <3>1. mem'[q] = mem[q]
      BY <1>1, <1>2, <2>3, Zenon DEF Typed
    <3>2. Kept(q)
      BY <1>1, <2>2, <2>3, Zenon DEF PagesOK
    <3> QED  BY <1>2, <3>1, <3>2, Zenon DEF Kept, OnPeer
  <2> QED  BY <2>1, <2>3, Zenon DEF PagesOK
<1>9. Tracked' /\ LockOK(t)' /\ PushedOK(t)' /\ FlushOK(t)'
  <2>1. frame'[t].pc \in Mapping
    BY <1>4, <1>7, Zenon DEF Mapping
  <2> QED  BY <1>2, <1>3, <1>7, <2>1, MappingLocks, Zenon
<1>10. FaultOK(t)'
  <2>1. mem'[p] = last[p]
    BY <1>1, <1>2, <1>3, Zenon DEF Typed
  <2> QED  BY <1>2, <1>3, <1>4, <1>7, <2>1, Zenon DEF FaultOK, OnPeer, Mapping
<1>11. IInv'
  BY <1>6, <1>8, <1>9, <1>10, Together, Zenon
<1>12. frame[t].job # "flush"
  BY <1>3, Zenon
<1> QED  BY <1>11, <1>12, Zenon DEF Pushes, OnPeer

\* A page read only becomes read-only; if that fails it counts as dirty.
LEMMA ProtectStep ==
  ASSUME Sequential, IInv, NEW t \in Apps, Protect(t)
  PROVE  IInv' /\ Pushes(t)
<1> DEFINE p == frame[t].page
<1>1. Typed /\ FaultOK(t) /\ PagesOK(t)
  BY Zenon DEF IInv
<1>2. PICK x \in {"settle_clean", "settle_dirty"} :
        /\ frame[t].pc = "protect" /\ Goto(t, x)
        /\ x = "settle_clean" => prot' = [prot EXCEPT ![p] = "ro"]
        /\ x = "settle_dirty" => prot' = prot
        /\ mem' = mem /\ state' = state /\ peer' = peer /\ backed' = backed /\ last' = last
        /\ resident_order_' = resident_order_ /\ heap_mutex_' = heap_mutex_
        /\ setup' = setup /\ zeroed' = zeroed
  <2>1. PICK ok \in OsCall :
          /\ prot' = IF ok THEN [prot EXCEPT ![p] = "ro"] ELSE prot
          /\ Goto(t, IF ok THEN "settle_clean" ELSE "settle_dirty")
    BY Zenon DEF Protect
  <2>2. /\ frame[t].pc = "protect"
        /\ mem' = mem /\ state' = state /\ peer' = peer /\ backed' = backed /\ last' = last
        /\ resident_order_' = resident_order_ /\ heap_mutex_' = heap_mutex_
        /\ setup' = setup /\ zeroed' = zeroed
    BY Zenon DEF Protect, At, heapVars, worldVars, netVars, fateVars, programVars
  <2>3. "settle_clean" # "settle_dirty"
    BY Zenon
  <2>4. CASE ok
    BY <2>1, <2>2, <2>3, <2>4, Zenon
  <2>5. CASE ~ ok
    BY <2>1, <2>2, <2>3, <2>5, Zenon
  <2> QED  BY <2>4, <2>5, Zenon
<1>3. /\ frame[t].job = "fault" /\ heap_mutex_ = t /\ p \in Pages /\ state[p] = "ABSENT"
      /\ OnPeer(p) /\ mem[p] = last[p] /\ prot[p] = "rw"
  <2>1. frame[t].pc \in Mapping
    BY <1>2, Zenon DEF Mapping
  <2> QED  BY <1>1, <1>2, <2>1, MappingFacts, Zenon DEF FaultOK, OnPeer
<1>4. /\ prot' \in [Pages -> {"none", "ro", "rw"}]
      /\ \A q \in Pages : q # p => prot'[q] = prot[q]
      /\ prot'[p] = IF x = "settle_clean" THEN "ro" ELSE "rw"
  BY <1>1, <1>2, <1>3, Zenon DEF Typed
<1>5. Steady
  BY <1>1, <1>2, <1>4, SteadySame, Zenon DEF Steady
<1>6. Typed' /\ Goes(frame[t], frame'[t], x)
  BY <1>1, <1>2, <1>5, GotoStep, Zenon DEF Typed
<1>7. frame'[t].pc = x /\ frame'[t].page = p /\ frame'[t].job = "fault"
  BY <1>3, <1>6, Zenon DEF Goes
<1>8. PagesOK(t)'
  <2>1. Moving(t)' = {p}
    BY <1>2, <1>7, Zenon DEF Moving
  <2>2. Moving(t) = {p}
    BY <1>2, Zenon DEF Moving
  <2>3. ASSUME NEW q \in Pages, q # p  PROVE Kept(q)'
    <3>1. Kept(q)
      BY <1>1, <2>2, <2>3, Zenon DEF PagesOK
    <3> QED  BY <1>2, <1>4, <2>3, <3>1, Zenon DEF Kept, OnPeer
  <2> QED  BY <2>1, <2>3, Zenon DEF PagesOK
<1>9. Tracked' /\ LockOK(t)' /\ PushedOK(t)' /\ FlushOK(t)'
  <2>1. frame'[t].pc \in Mapping
    BY <1>2, <1>7, Zenon DEF Mapping
  <2> QED  BY <1>2, <1>3, <1>7, <2>1, MappingLocks, Zenon
<1>10. FaultOK(t)'
  BY <1>2, <1>3, <1>4, <1>7, Zenon DEF FaultOK, OnPeer, Mapping
<1>11. IInv'
  BY <1>6, <1>8, <1>9, <1>10, Together, Zenon
<1>12. frame[t].job # "flush"
  BY <1>3, Zenon
<1> QED  BY <1>11, <1>12, Zenon DEF Pushes, OnPeer

\* The state follows the protection, and the page is accounted for.
LEMMA SettleStep ==
  ASSUME Sequential, IInv, NEW t \in Apps, Settle(t)
  PROVE  IInv' /\ Pushes(t)
<1> DEFINE p == frame[t].page
           s == IF frame[t].pc = "settle_dirty" THEN "DIRTY" ELSE "RESIDENT"
<1>1. Typed /\ FaultOK(t) /\ PagesOK(t)
  BY Zenon DEF IInv
<1>2. /\ frame[t].pc \in {"settle_clean", "settle_dirty"} /\ Track(t, TRUE, frame)
      /\ state' = [state EXCEPT ![p] = s]
      /\ mem' = mem /\ prot' = prot /\ peer' = peer /\ backed' = backed /\ last' = last
      /\ setup' = setup /\ zeroed' = zeroed
  BY Zenon DEF Settle, At, mapVars, worldVars, netVars, fateVars, programVars
<1>3. /\ frame[t].job = "fault" /\ heap_mutex_ = t /\ p \in Pages
      /\ OnPeer(p) /\ mem[p] = last[p]
      /\ prot[p] = IF frame[t].pc = "settle_dirty" THEN "rw" ELSE "ro"
  <2>1. frame[t].pc \in Mapping
    BY <1>2, Zenon DEF Mapping
  <2> QED  BY <1>1, <1>2, <2>1, MappingFacts, Zenon DEF FaultOK, OnPeer
<1>4. /\ state' \in [Pages -> {"ABSENT", "RESIDENT", "DIRTY"}]
      /\ \A q \in Pages : q # p => state'[q] = state[q]
      /\ state'[p] = s
  BY <1>1, <1>2, <1>3, Zenon DEF Typed
<1>5. Steady
  BY <1>1, <1>2, <1>4, SteadySame, Zenon DEF Steady
<1>6. Whole
  <2> SUFFICES ASSUME NEW q \in Pages  PROVE Kept(q)'
    BY Zenon DEF Whole
  <2>1. CASE q = p
    BY <1>2, <1>3, <1>4, <2>1, Zenon DEF Kept, OnPeer
  <2>2. CASE q # p
    <3>1. Kept(q)
      BY <1>1, <1>2, <2>2, Zenon DEF PagesOK, Moving
    <3> QED  BY <1>2, <1>4, <2>2, <3>1, Zenon DEF Kept, OnPeer
  <2> QED  BY <2>1, <2>2, Zenon
<1>7. IInv'
  BY <1>2, <1>3, <1>4, <1>5, <1>6, TrackStep, Zenon
<1>8. frame[t].job # "flush"
  BY <1>3, Zenon
<1> QED  BY <1>7, <1>8, Zenon DEF Pushes, OnPeer

-----------------------------------------------------------------------------
\* What is known during the steps of flush_page() and evict_page().
LEMMA FlushingFacts ==
  ASSUME Sequential, IInv, NEW t \in Apps, frame[t].pc \in Flushing
  PROVE  /\ Typed /\ Tracked /\ heap_mutex_ = t /\ t # None /\ IsFrame(frame[t])
         /\ resident_order_ \in Seq(Pages)
         /\ frame[t].victim \in Listed(resident_order_) /\ frame[t].victim \in Pages
         /\ frame[t].job \in {"fault", "flush", "evict_all"}
         /\ frame[t].job = "fault" => frame[t].page \in Pages
         /\ frame[t].job \in {"flush", "evict_all"} => Len(resident_order_) <= Budget
<1>1. Typed /\ Tracked /\ FaultOK(t) /\ FlushOK(t) /\ LockOK(t)
  BY Zenon DEF IInv
<1>2. t # None
  BY RemoteHeapAssumption, Zenon DEF Sequential, Workers
<1>3. resident_order_ \in Seq(Pages) /\ IsFrame(frame[t])
  BY <1>1, Zenon DEF Typed
<1>4. frame[t].victim \in Listed(resident_order_) /\ frame[t].job \in {"fault", "flush", "evict_all"}
  BY <1>1, Zenon DEF FlushOK, OnPeer
<1>5. frame[t].victim \in Pages
  BY <1>3, <1>4 DEF Listed
<1>6. heap_mutex_ = t
  BY <1>1, Zenon DEF LockOK
<1>7. frame[t].job = "fault" => frame[t].page \in Pages
  BY <1>1, Zenon DEF FaultOK, OnPeer
<1>8. frame[t].job \in {"flush", "evict_all"} => Len(resident_order_) <= Budget
  BY <1>1, Zenon DEF LockOK
<1> QED  BY <1>1, <1>2, <1>3, <1>4, <1>5, <1>6, <1>7, <1>8, Zenon

\* From one of those steps to another.
LEMMA FlushingLocks ==
  ASSUME Sequential, IInv, NEW t \in Apps, frame[t].pc \in Flushing, NEW x \in Flushing,
         Goes(frame[t], frame'[t], x), setup' = setup, heap_mutex_' = heap_mutex_,
         resident_order_' = resident_order_,
         \A q \in Pages : state'[q] # "ABSENT" => state[q] # "ABSENT"
  PROVE  Tracked' /\ LockOK(t)' /\ FaultOK(t)'
<1>1. /\ Tracked /\ heap_mutex_ = t /\ t # None
      /\ frame[t].job = "fault" => frame[t].page \in Pages
      /\ frame[t].job \in {"flush", "evict_all"} => Len(resident_order_) <= Budget
  BY FlushingFacts, Zenon
<1>2. frame'[t].pc = x /\ frame'[t].job = frame[t].job /\ frame'[t].page = frame[t].page
  BY Zenon DEF Goes
<1>3. Tracked'
  BY <1>1, Zenon DEF Tracked
<1>4. LockOK(t)'
  <2>1. Budget' = Budget
    BY Zenon DEF Budget
  <2> QED  BY <1>1, <1>2, <2>1, Zenon DEF LockOK
<1>5. FaultOK(t)'
  BY <1>1, <1>2, Zenon DEF FaultOK, OnPeer, Mapping, Flushing
<1> QED  BY <1>3, <1>4, <1>5, Zenon

\* flush_page() is through with its page, which is on the peer: flush() takes the
\* next one, the others evict it.
LEMMA AfterFlushStep ==
  ASSUME Sequential, IInv, Steady, Whole, NEW t \in Apps,
         frame[t].pc \in {"is_dirty", "clear", "cleared"},
         peer' = peer /\ backed' = backed, last' = last, OnPeer(frame[t].victim),
         \A q \in Pages : state'[q] # "ABSENT" => state[q] # "ABSENT",
         AfterFlush(t)
  PROVE  IInv' /\ Pushes(t)
<1> DEFINE f == frame[t]
           v == frame[t].victim
<1>1. f.pc \in Flushing
  BY Zenon DEF Flushing
<1>2. /\ Typed /\ Tracked /\ heap_mutex_ = t /\ IsFrame(f)
      /\ resident_order_ \in Seq(Pages) /\ v \in Listed(resident_order_) /\ v \in Pages
      /\ f.job \in {"fault", "flush", "evict_all"}
      /\ f.job = "fault" => f.page \in Pages
      /\ f.job \in {"flush", "evict_all"} => Len(resident_order_) <= Budget
  BY <1>1, FlushingFacts, Zenon
<1>3. \A q \in Pages : state'[q] # "ABSENT" => q \in Listed(resident_order_)
  BY <1>2, Zenon DEF Tracked
<1>4. CASE f.job = "flush"
  <2>1. Proceed(t, f, resident_order_, frame)
    BY <1>4, Zenon DEF AfterFlush
  <2>2. /\ Listed(f.todo) \subseteq Listed(resident_order_)
        /\ \A q \in Listed(resident_order_) : OnPeer(q)' \/ q \in Listed(f.todo)
    <3>1. PushedOK(t)
      BY Zenon DEF IInv
    <3> QED  BY <1>4, <3>1, Zenon DEF PushedOK, OnPeer
  <2>3. Ready(f, resident_order_)
    BY <1>2, <1>3, <2>2, Zenon DEF Ready
  <2> QED  BY <1>2, <2>1, <2>3, ProceedStep, Zenon DEF Pushes
<1>5. CASE f.job # "flush"
  <2>1. Goto(t, "evict") /\ resident_order_' = resident_order_ /\ heap_mutex_' = heap_mutex_
    BY <1>5, Zenon DEF AfterFlush, heapVars
  <2>2. Typed' /\ Goes(f, frame'[t], "evict")
    BY <1>2, <2>1, GotoStep, Zenon
  <2>3. "evict" \in Flushing
    BY Zenon DEF Flushing
  <2>4. Tracked' /\ LockOK(t)' /\ FaultOK(t)'
    BY <1>1, <2>1, <2>2, <2>3, FlushingLocks, Zenon DEF Steady
  <2>5. /\ frame'[t].pc = "evict" /\ frame'[t].job = f.job /\ frame'[t].victim = v
    BY <2>2, Zenon DEF Goes
  <2>6. FlushOK(t)'
    BY <1>2, <1>5, <2>1, <2>5 DEF FlushOK, OnPeer, Flushing
  <2>7. PushedOK(t)'
    BY <1>5, <2>5, Zenon DEF PushedOK, OnPeer
  <2>8. PagesOK(t)'
    BY Zenon DEF PagesOK, Whole
  <2>9. IInv'
    BY <2>2, <2>4, <2>6, <2>7, <2>8, Together, Zenon
  <2> QED  BY <1>5, <2>9, Zenon DEF Pushes, OnPeer
<1> QED  BY <1>4, <1>5, Zenon

\* A page that could not be evicted goes to the back.
LEMMA KeepVictimStep ==
  ASSUME Sequential, IInv, Steady, Whole, NEW t \in Apps, frame[t].pc \in Flushing,
         frame[t].job # "flush", state' = state, KeepVictim(t)
  PROVE  IInv' /\ Pushes(t)
<1> DEFINE v == frame[t].victim
           f == [frame[t] EXCEPT !.kept = TRUE]
           rest == Erase(resident_order_, v)
           order == Append(Erase(resident_order_, v), v)
<1>1. /\ Typed /\ Tracked /\ IsFrame(frame[t])
      /\ resident_order_ \in Seq(Pages) /\ v \in Listed(resident_order_) /\ v \in Pages
      /\ frame[t].job \in {"fault", "flush", "evict_all"}
      /\ frame[t].job = "fault" => frame[t].page \in Pages
      /\ frame[t].job \in {"flush", "evict_all"} => Len(resident_order_) <= Budget
  BY FlushingFacts, Zenon
<1>2. IsFrame(f) /\ f.job = frame[t].job /\ f.page = frame[t].page /\ f.victim = v
  BY <1>1, IdleFrame, Zenon DEF IsFrame
<1>3. /\ rest \in Seq(Pages) /\ Len(rest) = Len(resident_order_) - 1
      /\ \A q \in Listed(resident_order_) : q # v => q \in Listed(rest)
  BY <1>1, EraseListed, Zenon
<1>4. /\ order \in Seq(Pages) /\ Len(order) = Len(rest) + 1
      /\ Listed(rest) \subseteq Listed(order) /\ v \in Listed(order)
  <2> HIDE DEF v
  <2>1. rest \in Seq(Pages) /\ order = Append(rest, v)
    BY <1>3, Zenon
  <2> HIDE DEF rest, order
  <2> QED  BY <1>1, <2>1, AppendListed, Zenon
<1>5. IF f.job = "evict_all" THEN Return(t, f, order, frame) ELSE Proceed(t, f, order, frame)
  <2>1. order = Append(Erase(resident_order_, f.victim), f.victim)
    BY <1>2, Zenon
  <2> QED  BY <2>1, Zenon DEF KeepVictim
<1> HIDE DEF f, rest, order
<1>6. Len(order) = Len(resident_order_)
  <2>1. Len(resident_order_) \in Nat
    BY <1>1
  <2>2. Len(rest) = Len(resident_order_) - 1 /\ Len(order) = Len(rest) + 1
    BY <1>3, <1>4, Zenon
  <2> QED  BY <2>1, <2>2
<1>7. \A q \in Pages : state'[q] # "ABSENT" => q \in Listed(order)
  BY <1>1, <1>3, <1>4, Zenon DEF Tracked
<1>8. f.job \in {"fault", "evict_all"} /\ f.job # "flush"
  BY <1>1, <1>2, Zenon
<1>9. f.job \in {"flush", "evict_all"} => Len(order) <= Budget
  BY <1>1, <1>2, <1>6, Zenon
<1>10. Ready(f, order)
  BY <1>1, <1>2, <1>4, <1>7, <1>8, <1>9, Zenon DEF Ready
<1>11. IInv'
  <2>1. CASE f.job = "evict_all"
    <3>1. Return(t, f, order, frame) /\ Len(order) <= Budget
      BY <1>5, <1>9, <2>1, Zenon
    <3> QED  BY <1>1, <1>10, <3>1, ReturnStep, Zenon
  <2>2. CASE f.job # "evict_all"
    BY <1>1, <1>5, <1>10, <2>2, ProceedStep, Zenon
  <2> QED  BY <2>1, <2>2, Zenon
<1> QED  BY <1>11, Zenon DEF Pushes, OnPeer

\* flush_page() skips a page that is not dirty.
LEMMA IsDirtyStep ==
  ASSUME Sequential, IInv, NEW t \in Apps, IsDirty(t)
  PROVE  IInv' /\ Pushes(t)
<1> DEFINE v == frame[t].victim
<1>1. frame[t].pc = "is_dirty" /\ Still
  BY Zenon DEF IsDirty, At, mapVars, worldVars, netVars, fateVars, programVars, Still
<1>2. frame[t].pc \in Flushing
  BY <1>1, Zenon DEF Flushing
<1>3. /\ Typed /\ resident_order_ \in Seq(Pages)
      /\ v \in Listed(resident_order_) /\ v \in Pages
      /\ frame[t].job \in {"fault", "flush", "evict_all"}
  BY <1>2, FlushingFacts, Zenon
<1>4. \A q \in Pages : Kept(q)
  BY <1>1, AllKept, Zenon
<1>5. Steady /\ Whole
  BY <1>1, <1>3, <1>4, StillSteady, StillWhole, Zenon
<1>6. CASE state[v] # "DIRTY"
  <2>1. AfterFlush(t)
    BY <1>6, Zenon DEF IsDirty
  <2>2. OnPeer(v)
    BY <1>3, <1>4, <1>6, Zenon DEF Kept, OnPeer
  <2> QED  BY <1>1, <1>5, <2>1, <2>2, AfterFlushStep, Zenon DEF Still
<1>7. CASE state[v] = "DIRTY"
  <2>1. Goto(t, "copy") /\ resident_order_' = resident_order_ /\ heap_mutex_' = heap_mutex_
    BY <1>7, Zenon DEF IsDirty, heapVars
  <2>2. Typed' /\ Goes(frame[t], frame'[t], "copy")
    BY <1>3, <1>5, <2>1, GotoStep, Zenon
  <2>3. "copy" \in Flushing
    BY Zenon DEF Flushing
  <2>4. Tracked' /\ LockOK(t)' /\ FaultOK(t)'
    BY <1>1, <1>2, <2>1, <2>2, <2>3, FlushingLocks, Zenon DEF Still
  <2>5. /\ frame'[t].pc = "copy" /\ frame'[t].job = frame[t].job /\ frame'[t].victim = v
        /\ frame'[t].todo = frame[t].todo
    BY <2>2, Zenon DEF Goes
  <2>6. FlushOK(t)'
    BY <1>1, <1>3, <1>7, <2>1, <2>5, Zenon DEF FlushOK, OnPeer, Flushing, Still
  <2>7. PushedOK(t)'
    <3>1. PushedOK(t)
      BY Zenon DEF IInv
    <3> QED  BY <1>1, <2>1, <2>5, <3>1, Zenon DEF PushedOK, OnPeer, Still
  <2>8. PagesOK(t)'
    BY <1>5, Zenon DEF PagesOK, Whole
  <2>9. IInv'
    BY <2>2, <2>4, <2>6, <2>7, <2>8, Together, Zenon
  <2>10. frame'[t] # Idle
    BY <2>5, IdleFrame, Zenon
  <2> QED  BY <2>9, <2>10, Zenon DEF Pushes, OnPeer
<1> QED  BY <1>6, <1>7, Zenon

\* The frame f of a write-back that has copied d.
Copied(f, g, d) ==
  /\ IsFrame(g) /\ g.pc = "write" /\ g.data = d
  /\ g.page = f.page /\ g.job = f.job /\ g.victim = f.victim /\ g.todo = f.todo

\* The fields flush_page() sets when it has copied the page.
LEMMA CopyFrame ==
  ASSUME NEW f, IsFrame(f), NEW d
  PROVE  Copied(f, [f EXCEPT !.pc = "write", !.data = d], d)
<1> DEFINE g == [f EXCEPT !.pc = "write", !.data = d]
<1>1. f = [x \in DOMAIN Idle |-> f[x]] /\ f.todo \in Seq(Pages)
  BY Zenon DEF IsFrame
<1>2. /\ g = [x \in DOMAIN Idle |-> g[x]] /\ g.pc = "write" /\ g.data = d
      /\ g.page = f.page /\ g.job = f.job /\ g.victim = f.victim /\ g.todo = f.todo
  BY <1>1, IdleFrame, Zenon
<1> HIDE DEF g
<1>3. Copied(f, g, d)
  BY <1>1, <1>2, Zenon DEF IsFrame, Copied
<1> QED  BY <1>3, Zenon DEF g

\* What flush_page() copies is the last store.
LEMMA CopyStep ==
  ASSUME Sequential, IInv, NEW t \in Apps, Copy(t)
  PROVE  IInv' /\ Pushes(t)
<1> DEFINE v == frame[t].victim
           g == [frame[t] EXCEPT !.pc = "write", !.data = mem[v]]
<1>1. /\ frame[t].pc = "copy" /\ Still
      /\ frame' = [frame EXCEPT ![t].pc = "write", ![t].data = mem[v]]
      /\ resident_order_' = resident_order_ /\ heap_mutex_' = heap_mutex_
  BY Zenon DEF Copy, At, mapVars, heapVars, worldVars, netVars, fateVars, programVars, Still
<1>2. frame[t].pc \in Flushing
  BY <1>1, Zenon DEF Flushing
<1>3. /\ Typed /\ Tracked /\ resident_order_ \in Seq(Pages) /\ IsFrame(frame[t])
      /\ v \in Listed(resident_order_) /\ v \in Pages /\ heap_mutex_ = t /\ t # None
      /\ frame[t].job \in {"fault", "flush", "evict_all"}
      /\ frame[t].job = "fault" => frame[t].page \in Pages
      /\ frame[t].job \in {"flush", "evict_all"} => Len(resident_order_) <= Budget
  BY <1>2, FlushingFacts, Zenon
<1>4. \A q \in Pages : Kept(q)
  BY <1>1, AllKept, Zenon
<1>5. Steady /\ Whole
  BY <1>1, <1>3, <1>4, StillSteady, StillWhole, Zenon
<1>6. state[v] = "DIRTY" /\ mem[v] = last[v]
  <2>1. FlushOK(t)
    BY Zenon DEF IInv
  <2>2. state[v] = "DIRTY"
    BY <1>1, <2>1, Zenon DEF FlushOK, OnPeer
  <2> QED  BY <1>3, <1>4, <2>2, Zenon DEF Kept, OnPeer
<1>7. frame' = [frame EXCEPT ![t] = g]
  BY <1>1, <1>3, IdleFrame, Zenon DEF Typed, Workers, IsFrame
<1>8. Copied(frame[t], g, mem[v])
  BY <1>3, CopyFrame, Zenon
<1> HIDE DEF g
<1>9. Typed' /\ frame'[t] = g
  <2>1. IsFrame(g) /\ resident_order_' \in Seq(Pages)
    BY <1>1, <1>3, <1>8, Zenon DEF Copied
  <2> QED  BY <1>3, <1>5, <1>7, <2>1, TypedStep, Zenon
<1>10. /\ frame'[t].pc = "write" /\ frame'[t].job = frame[t].job /\ frame'[t].victim = v
       /\ frame'[t].todo = frame[t].todo /\ frame'[t].data = last[v]
       /\ frame'[t].page = frame[t].page
  BY <1>6, <1>8, <1>9, Zenon DEF Copied
<1>11. Tracked'
  BY <1>1, <1>3, Zenon DEF Tracked, Still
<1>12. LockOK(t)'
  <2>1. Budget' = Budget
    BY <1>1, Zenon DEF Budget, Still
  <2> QED  BY <1>1, <1>3, <1>10, <2>1, Zenon DEF LockOK
<1>13. FaultOK(t)'
  BY <1>3, <1>10, Zenon DEF FaultOK, OnPeer, Mapping
<1>14. FlushOK(t)'
  BY <1>1, <1>3, <1>6, <1>10, Zenon DEF FlushOK, OnPeer, Flushing, Still
<1>15. PushedOK(t)'
  <2>1. PushedOK(t)
    BY Zenon DEF IInv
  <2> QED  BY <1>1, <1>10, <2>1, Zenon DEF PushedOK, OnPeer, Still
<1>16. PagesOK(t)'
  BY <1>5, Zenon DEF PagesOK, Whole
<1>17. IInv'
  BY <1>9, <1>11, <1>12, <1>13, <1>14, <1>15, <1>16, Together, Zenon
<1>18. frame'[t] # Idle
  BY <1>10, IdleFrame, Zenon
<1> QED  BY <1>17, <1>18, Zenon DEF Pushes, OnPeer

\* After the write of a dirty page every other page is on the peer if it was.
LEMMA PushedPeer ==
  ASSUME Typed, NEW v \in Pages, state[v] = "DIRTY", \A q \in Pages : Kept(q),
         peer' = [p \in Pages |-> peer'[p]],
         \A q \in Pages : q # v => (OnPeer(q) => OnPeer(q)'),
         prot' = prot, state' = state, mem' = mem, last' = last,
         setup' = setup, zeroed' = zeroed
  PROVE  Steady /\ Whole
<1>1. Steady
  BY SteadySame, Zenon DEF Steady
<1>2. ASSUME NEW q \in Pages  PROVE Kept(q)'
  <2>1. CASE q = v
    BY <2>1, Zenon DEF Kept
  <2>2. CASE q # v
    <3>1. OnPeer(q) => OnPeer(q)'
      BY <2>2, Zenon
    <3> QED  BY <3>1, Zenon DEF Kept
  <2> QED  BY <2>1, <2>2, Zenon
<1> QED  BY <1>1, <1>2, Zenon DEF Whole

\* flush() lets the exception of client_.write() through.
LEMMA ThrewOutside == Outside([Idle EXCEPT !.job = "threw"])
                        /\ [Idle EXCEPT !.job = "threw"] # Idle
BY IdleFrame, Zenon DEF Outside, IsFrame

\* client_.write() reaches memoryd, or is lost with the connection and the block;
\* if it throws, the page stays dirty.
LEMMA WriteStep ==
  ASSUME Sequential, IInv, NEW t \in Apps, Write(t)
  PROVE  IInv' /\ Pushes(t)
<1> DEFINE v == frame[t].victim
           pushed == [peer EXCEPT ![v] = frame[t].data]
           sent == backed' = backed /\ peer' = IF backed THEN pushed ELSE peer
           gone == backed' = FALSE /\ peer' = [p \in Pages |-> 0]
           same == backed' = backed /\ peer' = peer
<1>1. /\ frame[t].pc = "write"
      /\ prot' = prot /\ state' = state /\ mem' = mem /\ last' = last
      /\ setup' = setup /\ zeroed' = zeroed
  BY Zenon DEF Write, At, mapVars, fateVars, programVars
<1>2. \/ /\ sent \/ gone
         /\ Goto(t, "clear") /\ resident_order_' = resident_order_ /\ heap_mutex_' = heap_mutex_
      \/ (sent \/ same) /\ Threw(t)
  BY Zenon DEF Write, Sent, Lose, heapVars, netVars
<1>threw. Threw(t) =>
         \/ /\ frame[t].job = "flush"
            /\ heap_mutex_' = None /\ resident_order_' = resident_order_
            /\ frame' = [frame EXCEPT ![t] = [Idle EXCEPT !.job = "threw"]]
         \/ frame[t].job # "flush" /\ KeepVictim(t)
  BY Zenon DEF Threw
<1>3. frame[t].pc \in Flushing
  BY <1>1, Zenon DEF Flushing
<1>4. /\ Typed /\ Tracked /\ resident_order_ \in Seq(Pages)
      /\ v \in Listed(resident_order_) /\ v \in Pages
      /\ frame[t].job \in {"fault", "flush", "evict_all"}
      /\ frame[t].job \in {"flush", "evict_all"} => Len(resident_order_) <= Budget
  BY <1>3, FlushingFacts, Zenon
<1>5. \A q \in Pages : Kept(q)
  BY <1>1, AllKept, Zenon
<1>6. state[v] = "DIRTY" /\ frame[t].data = last[v]
  <2>1. FlushOK(t)
    BY Zenon DEF IInv
  <2> QED  BY <1>1, <2>1, Zenon DEF FlushOK, OnPeer
<1>7. /\ Steady /\ Whole /\ \A q \in Pages : OnPeer(q) => OnPeer(q)'
      /\ sent \/ gone => \A q \in Pages : q = v => OnPeer(q)'
  <2>1. sent \/ gone \/ same
    BY <1>2, Zenon
  <2>2. peer' = [p \in Pages |-> peer'[p]]
    BY <1>4, <2>1, Zenon DEF Typed
  <2>3. ASSUME NEW q \in Pages, OnPeer(q)  PROVE OnPeer(q)'
    <3>1. CASE gone
      BY <3>1, Zenon DEF OnPeer
    <3>2. CASE same \/ ~ backed
      BY <1>1, <2>1, <2>3, <3>2, Zenon DEF OnPeer
    <3>3. CASE sent /\ backed
      <4>1. peer'[q] = IF q = v THEN last[v] ELSE peer[q]
        BY <1>4, <1>6, <3>3, Zenon DEF Typed
      <4> QED  BY <1>1, <2>3, <3>3, <4>1, Zenon DEF OnPeer
    <3> QED  BY <2>1, <3>1, <3>2, <3>3, Zenon
  <2>4. ASSUME sent \/ gone, NEW q \in Pages, q = v  PROVE OnPeer(q)'
    <3>1. CASE gone \/ ~ backed
      BY <2>4, <3>1, Zenon DEF OnPeer
    <3>2. CASE sent /\ backed
      <4>1. peer'[q] = last[q]
        BY <1>4, <1>6, <2>4, <3>2, Zenon DEF Typed
      <4> QED  BY <1>1, <4>1, Zenon DEF OnPeer
    <3> QED  BY <2>4, <3>1, <3>2, Zenon
  <2>5. Steady /\ Whole
    BY <1>1, <1>4, <1>5, <1>6, <2>2, <2>3, PushedPeer, Zenon
  <2> QED  BY <2>3, <2>4, <2>5, Zenon
<1> HIDE DEF sent, gone, same
<1>8. CASE /\ sent \/ gone
           /\ Goto(t, "clear") /\ resident_order_' = resident_order_ /\ heap_mutex_' = heap_mutex_
  <2>1. Typed' /\ Goes(frame[t], frame'[t], "clear")
    BY <1>4, <1>7, <1>8, GotoStep, Zenon
  <2>2. "clear" \in Flushing
    BY Zenon DEF Flushing
  <2>3. Tracked' /\ LockOK(t)' /\ FaultOK(t)'
    BY <1>1, <1>3, <1>8, <2>1, <2>2, FlushingLocks, Zenon
  <2>4. /\ frame'[t].pc = "clear" /\ frame'[t].job = frame[t].job /\ frame'[t].victim = v
        /\ frame'[t].todo = frame[t].todo
    BY <2>1, Zenon DEF Goes
  <2>5. \A q \in Pages : q = v => OnPeer(q)'
    BY <1>7, <1>8, Zenon
  <2>6. FlushOK(t)'
    BY <1>1, <1>4, <1>6, <1>8, <2>4, <2>5, Zenon DEF FlushOK, OnPeer, Flushing
  <2>7. PushedOK(t)'
    <3>1. PushedOK(t)
      BY Zenon DEF IInv
    <3> SUFFICES ASSUME frame[t].job = "flush"
                 PROVE  /\ Listed(frame[t].todo) \subseteq Listed(resident_order_)
                        /\ \A q \in Listed(resident_order_) :
                             OnPeer(q)' \/ q \in Listed(frame[t].todo)
      BY <1>1, <1>8, <2>4, Zenon DEF PushedOK, OnPeer
    <3>2. \A q \in Listed(resident_order_) : q \in Pages
      BY <1>4 DEF Listed
    <3> QED  BY <1>1, <1>7, <2>5, <3>1, <3>2, Zenon DEF PushedOK
  <2>8. PagesOK(t)'
    BY <1>7, Zenon DEF PagesOK, Whole
  <2>9. IInv'
    BY <2>1, <2>3, <2>6, <2>7, <2>8, Together, Zenon
  <2>10. frame'[t] # Idle
    BY <2>4, IdleFrame, Zenon
  <2> QED  BY <2>9, <2>10, Zenon DEF Pushes, OnPeer
<1>9. CASE /\ frame[t].job = "flush"
           /\ heap_mutex_' = None /\ resident_order_' = resident_order_
           /\ frame' = [frame EXCEPT ![t] = [Idle EXCEPT !.job = "threw"]]
  <2> DEFINE g == [Idle EXCEPT !.job = "threw"]
  <2>1. Outside(g) /\ g # Idle
    BY ThrewOutside, Zenon
  <2>2. frame' = [frame EXCEPT ![t] = g]
    BY <1>9, Zenon
  <2> HIDE DEF g
  <2>3. Tracked' /\ resident_order_' \in Seq(Pages) /\ Len(resident_order_') <= Budget
    <3>1. frame[t].job \in {"flush", "evict_all"}
      BY <1>9, Zenon
    <3> QED  BY <1>1, <1>4, <1>9, <3>1, Zenon DEF Tracked
  <2>4. IInv' /\ frame'[t] = g
    BY <1>4, <1>7, <2>1, <2>2, <2>3, OutsideStep, Zenon
  <2> QED  BY <2>1, <2>4, Zenon DEF Pushes, OnPeer
<1>10. CASE frame[t].job # "flush" /\ KeepVictim(t)
  BY <1>1, <1>3, <1>7, <1>10, KeepVictimStep, Zenon
<1> QED  BY <1>2, <1>threw, <1>8, <1>9, <1>10, Zenon

\* clear_dirty() write-protects the page once it is on the peer ...
LEMMA ClearStep ==
  ASSUME Sequential, IInv, NEW t \in Apps, Clear(t)
  PROVE  IInv' /\ Pushes(t)
<1> DEFINE v == frame[t].victim
<1>1. /\ frame[t].pc = "clear"
      /\ state' = state /\ mem' = mem /\ peer' = peer /\ backed' = backed /\ last' = last
      /\ setup' = setup /\ zeroed' = zeroed
  BY Zenon DEF Clear, At, worldVars, netVars, fateVars, programVars
<1>2. \/ /\ prot' = [prot EXCEPT ![v] = "ro"] /\ Goto(t, "cleared")
         /\ resident_order_' = resident_order_ /\ heap_mutex_' = heap_mutex_
      \/ AfterFlush(t) /\ prot' = prot
  BY Zenon DEF Clear, heapVars
<1>3. frame[t].pc \in Flushing
  BY <1>1, Zenon DEF Flushing
<1>4. /\ Typed /\ resident_order_ \in Seq(Pages)
      /\ v \in Listed(resident_order_) /\ v \in Pages
      /\ frame[t].job \in {"fault", "flush", "evict_all"}
  BY <1>3, FlushingFacts, Zenon
<1>5. \A q \in Pages : Kept(q)
  BY <1>1, AllKept, Zenon
<1>6. state[v] = "DIRTY" /\ OnPeer(v) /\ mem[v] = last[v]
  <2>1. FlushOK(t)
    BY Zenon DEF IInv
  <2>2. state[v] = "DIRTY" /\ OnPeer(v)
    BY <1>1, <2>1, Zenon DEF FlushOK, OnPeer
  <2> QED  BY <1>4, <1>5, <2>2, Zenon DEF Kept, OnPeer
<1>7. CASE AfterFlush(t) /\ prot' = prot
  <2>1. Still
    BY <1>1, <1>7, Zenon DEF Still
  <2>2. Steady /\ Whole
    BY <1>4, <1>5, <2>1, StillSteady, StillWhole, Zenon
  <2> QED  BY <1>1, <1>6, <1>7, <2>2, AfterFlushStep, Zenon
<1>8. CASE /\ prot' = [prot EXCEPT ![v] = "ro"] /\ Goto(t, "cleared")
           /\ resident_order_' = resident_order_ /\ heap_mutex_' = heap_mutex_
  <2>1. /\ prot' \in [Pages -> {"none", "ro", "rw"}] /\ prot'[v] = "ro"
        /\ \A q \in Pages : q # v => prot'[q] = prot[q]
    BY <1>4, <1>8, Zenon DEF Typed
  <2>2. Steady
    BY <1>1, <1>4, <2>1, SteadySame, Zenon DEF Steady
  <2>3. Typed' /\ Goes(frame[t], frame'[t], "cleared")
    BY <1>4, <1>8, <2>2, GotoStep, Zenon
  <2>4. "cleared" \in Flushing
    BY Zenon DEF Flushing
  <2>5. Tracked' /\ LockOK(t)' /\ FaultOK(t)'
    BY <1>1, <1>3, <1>8, <2>3, <2>4, FlushingLocks, Zenon
  <2>6. /\ frame'[t].pc = "cleared" /\ frame'[t].job = frame[t].job /\ frame'[t].victim = v
        /\ frame'[t].todo = frame[t].todo
    BY <2>3, Zenon DEF Goes
  <2>7. FlushOK(t)'
    BY <1>1, <1>4, <1>6, <1>8, <2>1, <2>6, Zenon DEF FlushOK, OnPeer, Flushing
  <2>8. PushedOK(t)'
    <3>1. PushedOK(t)
      BY Zenon DEF IInv
    <3> QED  BY <1>1, <1>6, <1>8, <2>6, <3>1, Zenon DEF PushedOK, OnPeer
  <2>9. PagesOK(t)'
    <3>1. Moving(t)' = {v}
      BY <2>6, Zenon DEF Moving
    <3>2. ASSUME NEW q \in Pages, q # v  PROVE Kept(q)'
      <4>1. prot'[q] = prot[q] /\ mem'[q] = mem[q]
        BY <1>1, <2>1, <3>2, Zenon
      <4>2. Kept(q)
        BY <1>5, <3>2, Zenon
      <4> QED  BY <1>1, <4>1, <4>2, Zenon DEF Kept, OnPeer
    <3> QED  BY <3>1, <3>2, Zenon DEF PagesOK
  <2>10. IInv'
    BY <2>3, <2>5, <2>7, <2>8, <2>9, Together, Zenon
  <2>11. frame'[t] # Idle
    BY <2>6, IdleFrame, Zenon
  <2> QED  BY <2>10, <2>11, Zenon DEF Pushes, OnPeer
<1> QED  BY <1>2, <1>7, <1>8, Zenon

\* ... and then calls it clean.
LEMMA ClearedStep ==
  ASSUME Sequential, IInv, NEW t \in Apps, Cleared(t)
  PROVE  IInv' /\ Pushes(t)
<1> DEFINE v == frame[t].victim
<1>1. /\ frame[t].pc = "cleared" /\ AfterFlush(t)
      /\ state' = [state EXCEPT ![v] = IF @ = "DIRTY" THEN "RESIDENT" ELSE @]
      /\ mem' = mem /\ peer' = peer /\ backed' = backed /\ last' = last /\ prot' = prot
      /\ setup' = setup /\ zeroed' = zeroed
  BY Zenon DEF Cleared, At, mapVars, worldVars, netVars, fateVars, programVars
<1>2. frame[t].pc \in Flushing
  BY <1>1, Zenon DEF Flushing
<1>3. Typed /\ v \in Pages
  BY <1>2, FlushingFacts, Zenon
<1>4. state[v] = "DIRTY" /\ OnPeer(v) /\ mem[v] = last[v] /\ prot[v] = "ro"
  <2>1. FlushOK(t)
    BY Zenon DEF IInv
  <2> QED  BY <1>1, <2>1, Zenon DEF FlushOK, OnPeer
<1>5. /\ state' \in [Pages -> {"ABSENT", "RESIDENT", "DIRTY"}] /\ state'[v] = "RESIDENT"
      /\ \A q \in Pages : q # v => state'[q] = state[q]
  BY <1>1, <1>3, <1>4, Zenon DEF Typed
<1>6. Steady
  BY <1>1, <1>3, <1>5, SteadySame, Zenon DEF Steady
<1>7. Whole
  <2> SUFFICES ASSUME NEW q \in Pages  PROVE Kept(q)'
    BY Zenon DEF Whole
  <2>1. CASE q = v
    BY <1>1, <1>4, <1>5, <2>1, Zenon DEF Kept, OnPeer
  <2>2. CASE q # v
    <3>1. PagesOK(t) /\ Moving(t) = {v}
      BY <1>1, Zenon DEF IInv, Moving
    <3>2. Kept(q)
      BY <2>2, <3>1, Zenon DEF PagesOK
    <3> QED  BY <1>1, <1>5, <2>2, <3>2, Zenon DEF Kept, OnPeer
  <2> QED  BY <2>1, <2>2, Zenon
<1>8. \A q \in Pages : state'[q] # "ABSENT" => state[q] # "ABSENT"
  BY <1>4, <1>5, Zenon
<1>9. frame[t].pc \in {"is_dirty", "clear", "cleared"}
  BY <1>1, Zenon
<1> QED  BY <1>1, <1>4, <1>6, <1>7, <1>8, <1>9, AfterFlushStep, Zenon

\* evict_pages() drops a page that is on the peer, or fails and keeps it.
LEMMA EvictStep ==
  ASSUME Sequential, IInv, NEW t \in Apps, Evict(t)
  PROVE  IInv' /\ Pushes(t)
<1> DEFINE v == frame[t].victim
<1>1. /\ frame[t].pc = "evict"
      /\ state' = state /\ peer' = peer /\ backed' = backed /\ last' = last
      /\ setup' = setup /\ zeroed' = zeroed
  BY Zenon DEF Evict, At, worldVars, netVars, fateVars, programVars
<1>2. \/ /\ prot' = [prot EXCEPT ![v] = "none"] /\ mem' = [mem EXCEPT ![v] = Blank]
         /\ Goto(t, "forget")
         /\ resident_order_' = resident_order_ /\ heap_mutex_' = heap_mutex_
      \/ KeepVictim(t) /\ prot' = prot /\ mem' = mem
  BY Zenon DEF Evict, heapVars, mapVars
<1>3. frame[t].pc \in Flushing
  BY <1>1, Zenon DEF Flushing
<1>4. /\ Typed /\ resident_order_ \in Seq(Pages)
      /\ v \in Listed(resident_order_) /\ v \in Pages
      /\ frame[t].job \in {"fault", "flush", "evict_all"}
  BY <1>3, FlushingFacts, Zenon
<1>5. \A q \in Pages : Kept(q)
  BY <1>1, AllKept, Zenon
<1>6. frame[t].job # "flush" /\ OnPeer(v)
  <2>1. FlushOK(t)
    BY Zenon DEF IInv
  <2> QED  BY <1>1, <2>1, Zenon DEF FlushOK, OnPeer
<1>7. CASE KeepVictim(t) /\ prot' = prot /\ mem' = mem
  <2>1. Still
    BY <1>1, <1>7, Zenon DEF Still
  <2>2. Steady /\ Whole
    BY <1>4, <1>5, <2>1, StillSteady, StillWhole, Zenon
  <2> QED  BY <1>1, <1>3, <1>6, <1>7, <2>2, KeepVictimStep, Zenon
<1>8. CASE /\ prot' = [prot EXCEPT ![v] = "none"] /\ mem' = [mem EXCEPT ![v] = Blank]
           /\ Goto(t, "forget")
           /\ resident_order_' = resident_order_ /\ heap_mutex_' = heap_mutex_
  <2>1. /\ prot' \in [Pages -> {"none", "ro", "rw"}] /\ prot'[v] = "none"
        /\ mem' = [p \in Pages |-> mem'[p]]
        /\ \A q \in Pages : q # v => prot'[q] = prot[q] /\ mem'[q] = mem[q]
    BY <1>4, <1>8, Zenon DEF Typed
  <2>2. Steady
    BY <1>1, <1>4, <2>1, SteadySame, Zenon DEF Steady
  <2>3. Typed' /\ Goes(frame[t], frame'[t], "forget")
    BY <1>4, <1>8, <2>2, GotoStep, Zenon
  <2>4. "forget" \in Flushing
    BY Zenon DEF Flushing
  <2>5. Tracked' /\ LockOK(t)' /\ FaultOK(t)'
    BY <1>1, <1>3, <1>8, <2>3, <2>4, FlushingLocks, Zenon
  <2>6. /\ frame'[t].pc = "forget" /\ frame'[t].job = frame[t].job /\ frame'[t].victim = v
    BY <2>3, Zenon DEF Goes
  <2>7. FlushOK(t)'
    BY <1>1, <1>4, <1>6, <1>8, <2>1, <2>6 DEF FlushOK, OnPeer, Flushing
  <2>8. PushedOK(t)'
    BY <1>6, <2>6, Zenon DEF PushedOK, OnPeer
  <2>9. PagesOK(t)'
    <3>1. Moving(t)' = {v}
      BY <2>6, Zenon DEF Moving
    <3>2. ASSUME NEW q \in Pages, q # v  PROVE Kept(q)'
      <4>1. prot'[q] = prot[q] /\ mem'[q] = mem[q]
        BY <2>1, <3>2, Zenon
      <4>2. Kept(q)
        BY <1>5, <3>2, Zenon
      <4> QED  BY <1>1, <4>1, <4>2, Zenon DEF Kept, OnPeer
    <3> QED  BY <3>1, <3>2, Zenon DEF PagesOK
  <2>10. IInv'
    BY <2>3, <2>5, <2>7, <2>8, <2>9, Together, Zenon
  <2> QED  BY <1>6, <2>10, Zenon DEF Pushes, OnPeer
<1> QED  BY <1>2, <1>7, <1>8, Zenon

\* The dropped page is absent and leaves the list.
LEMMA ForgetStep ==
  ASSUME Sequential, IInv, NEW t \in Apps, Forget(t)
  PROVE  IInv' /\ Pushes(t)
<1> DEFINE v == frame[t].victim
           order == Erase(resident_order_, v)
<1>1. /\ frame[t].pc = "forget" /\ Proceed(t, frame[t], order, frame)
      /\ state' = [state EXCEPT ![v] = "ABSENT"]
      /\ mem' = mem /\ peer' = peer /\ backed' = backed /\ last' = last /\ prot' = prot
      /\ setup' = setup /\ zeroed' = zeroed
  BY Zenon DEF Forget, At, mapVars, worldVars, netVars, fateVars, programVars
<1>2. frame[t].pc \in Flushing
  BY <1>1, Zenon DEF Flushing
<1>3. /\ Typed /\ Tracked /\ resident_order_ \in Seq(Pages) /\ IsFrame(frame[t])
      /\ v \in Listed(resident_order_) /\ v \in Pages
      /\ frame[t].job \in {"fault", "flush", "evict_all"}
      /\ frame[t].job = "fault" => frame[t].page \in Pages
      /\ frame[t].job \in {"flush", "evict_all"} => Len(resident_order_) <= Budget
  BY <1>2, FlushingFacts, Zenon
<1>4. frame[t].job # "flush" /\ OnPeer(v) /\ prot[v] = "none"
  <2>1. FlushOK(t)
    BY Zenon DEF IInv
  <2> QED  BY <1>1, <2>1, Zenon DEF FlushOK, OnPeer
<1>5. /\ state' \in [Pages -> {"ABSENT", "RESIDENT", "DIRTY"}] /\ state'[v] = "ABSENT"
      /\ \A q \in Pages : q # v => state'[q] = state[q]
  BY <1>1, <1>3, Zenon DEF Typed
<1>6. Steady
  BY <1>1, <1>3, <1>5, SteadySame, Zenon DEF Steady
<1>7. Whole
  <2> SUFFICES ASSUME NEW q \in Pages  PROVE Kept(q)'
    BY Zenon DEF Whole
  <2>1. CASE q = v
    BY <1>1, <1>4, <1>5, <2>1, Zenon DEF Kept, OnPeer
  <2>2. CASE q # v
    <3>1. PagesOK(t) /\ Moving(t) = {v}
      BY <1>1, Zenon DEF IInv, Moving
    <3>2. Kept(q)
      BY <2>2, <3>1, Zenon DEF PagesOK
    <3> QED  BY <1>1, <1>5, <2>2, <3>2, Zenon DEF Kept, OnPeer
  <2> QED  BY <2>1, <2>2, Zenon
<1>8. /\ order \in Seq(Pages) /\ Len(order) = Len(resident_order_) - 1
      /\ \A q \in Listed(resident_order_) : q # v => q \in Listed(order)
  BY <1>3, EraseListed, Zenon
<1> HIDE DEF order
<1>9. \A q \in Pages : state'[q] # "ABSENT" => q \in Listed(order)
  BY <1>3, <1>5, <1>8, Zenon DEF Tracked
<1>10. frame[t].job \in {"flush", "evict_all"} => Len(order) <= Budget
  <2>1. Budget \in Nat
    BY <1>3, BudgetType, Zenon
  <2>2. Len(resident_order_) <= Budget => Len(order) <= Budget
    BY <1>3, <1>8, <2>1
  <2> QED  BY <1>3, <2>2, Zenon
<1>11. Ready(frame[t], order)
  BY <1>3, <1>4, <1>8, <1>9, <1>10, Zenon DEF Ready
<1>12. IInv'
  BY <1>1, <1>3, <1>6, <1>7, <1>11, ProceedStep, Zenon
<1> QED  BY <1>4, <1>12, Zenon DEF Pushes, OnPeer

\* The frame of a flush() or flush_and_evict_all() that begins.
LEMMA JobFrame ==
  ASSUME NEW s \in Seq(Pages)
  PROVE  /\ IsFrame([Idle EXCEPT !.job = "flush", !.todo = s])
         /\ [Idle EXCEPT !.job = "flush", !.todo = s].job = "flush"
         /\ [Idle EXCEPT !.job = "flush", !.todo = s].todo = s
         /\ IsFrame([Idle EXCEPT !.job = "evict_all"])
         /\ [Idle EXCEPT !.job = "evict_all"].job = "evict_all"
BY IdleFrame, Zenon DEF IsFrame

\* What the two begin with.
LEMMA RunFacts ==
  ASSUME IInv, NEW t \in Apps, frame[t].pc = "run", heap_mutex_ = None, Still
  PROVE  /\ Typed /\ Steady /\ Whole /\ frame[t].job # "flush"
         /\ resident_order_ \in Seq(Pages) /\ Len(resident_order_) <= Budget
         /\ \A q \in Pages : state'[q] # "ABSENT" => q \in Listed(resident_order_)
<1>1. Typed /\ Tracked /\ LockOK(t) /\ FlushOK(t)
  BY Zenon DEF IInv
<1>2. \A q \in Pages : Kept(q)
  BY AllKept, Zenon
<1>3. Steady /\ Whole
  BY <1>1, <1>2, StillSteady, StillWhole, Zenon
<1>4. frame[t].job # "flush"
  BY <1>1, Zenon DEF FlushOK, OnPeer, Flushing
<1>5. Len(resident_order_) <= Budget
  BY <1>1, Zenon DEF LockOK
<1>6. \A q \in Pages : state'[q] # "ABSENT" => q \in Listed(resident_order_)
  BY <1>1, Zenon DEF Still, Tracked
<1> QED  BY <1>1, <1>3, <1>4, <1>5, <1>6, Zenon DEF Typed

\* flush() begins with everything listed still to visit.
LEMMA flushStep ==
  ASSUME Sequential, IInv, NEW t \in Apps, flush(t)
  PROVE  IInv' /\ Pushes(t)
<1> DEFINE f == [Idle EXCEPT !.job = "flush", !.todo = resident_order_]
<1>1. /\ frame[t].pc = "run" /\ heap_mutex_ = None /\ Still
      /\ Proceed(t, f, resident_order_, frame)
  BY Zenon DEF flush, At, mapVars, worldVars, netVars, fateVars, programVars, Still
<1>2. /\ Typed /\ Steady /\ Whole /\ frame[t].job # "flush"
      /\ resident_order_ \in Seq(Pages) /\ Len(resident_order_) <= Budget
      /\ \A q \in Pages : state'[q] # "ABSENT" => q \in Listed(resident_order_)
  BY <1>1, RunFacts, Zenon
<1>3. IsFrame(f) /\ f.job = "flush" /\ f.todo = resident_order_
  BY <1>2, JobFrame, Zenon
<1> HIDE DEF f
<1>4. Ready(f, resident_order_)
  BY <1>2, <1>3, Zenon DEF Ready
<1>5. IInv'
  BY <1>1, <1>2, <1>4, ProceedStep, Zenon
<1> QED  BY <1>2, <1>5, Zenon DEF Pushes, OnPeer

\* flush_and_evict_all() begins.
LEMMA EvictAllStep ==
  ASSUME Sequential, IInv, NEW t \in Apps, flush_and_evict_all(t)
  PROVE  IInv' /\ Pushes(t)
<1> DEFINE f == [Idle EXCEPT !.job = "evict_all"]
<1>1. /\ frame[t].pc = "run" /\ heap_mutex_ = None /\ Still
      /\ Proceed(t, f, resident_order_, frame)
  BY Zenon DEF flush_and_evict_all, At, mapVars, worldVars, netVars, fateVars, programVars, Still
<1>2. /\ Typed /\ Steady /\ Whole /\ frame[t].job # "flush"
      /\ resident_order_ \in Seq(Pages) /\ Len(resident_order_) <= Budget
      /\ \A q \in Pages : state'[q] # "ABSENT" => q \in Listed(resident_order_)
  BY <1>1, RunFacts, Zenon
<1>3. IsFrame(f) /\ f.job = "evict_all"
  BY <1>2, JobFrame, Zenon
<1> HIDE DEF f
<1>4. Ready(f, resident_order_)
  BY <1>2, <1>3, Zenon DEF Ready
<1>5. IInv'
  BY <1>1, <1>2, <1>4, ProceedStep, Zenon
<1> QED  BY <1>2, <1>5, Zenon DEF Pushes, OnPeer
-----------------------------------------------------------------------------
\* Every step inside the backend and the heap.
LEMMA ServiceStep ==
  ASSUME Sequential, IInv, NEW t \in Apps, Service(t)
  PROVE  IInv' /\ Pushes(t)
<1>1. frame[t].pc \notin {"zero", "blocked", "uffdio_copy"}
  BY Zenon DEF IInv, Typed, IsFrame
<1>2. ~ UffdioCopy(t) /\ ~ Zero(t)
  BY <1>1, Zenon DEF UffdioCopy, Zero, At
<1>3. Unresolved(t) => IInv' /\ Pushes(t)
  BY CrashStep, Zenon DEF Unresolved
<1>4. \/ Trap(t) \/ Promote(t) \/ Promoted(t) \/ Fetch(t) \/ Lock(t) \/ Commit(t)
      => IInv' /\ Pushes(t)
  BY TrapStep, PromoteStep, PromotedStep, FetchStep, LockStep, CommitStep, Zenon
<1>5. Fill(t) \/ Protect(t) \/ Settle(t) \/ IsDirty(t) \/ Copy(t) \/ Write(t)
      => IInv' /\ Pushes(t)
  BY FillStep, ProtectStep, SettleStep, IsDirtyStep, CopyStep, WriteStep, Zenon
<1>6. Clear(t) \/ Cleared(t) \/ Evict(t) \/ Forget(t) => IInv' /\ Pushes(t)
  BY ClearStep, ClearedStep, EvictStep, ForgetStep, Zenon
<1> QED  BY <1>2, <1>3, <1>4, <1>5, <1>6, Zenon DEF Service

\* The fault thread has nothing to do: only Linux has one.
LEMMA FaultThreadIdle ==
  ASSUME Sequential, IInv
  PROVE  ~ Service(FaultThread) /\ ~ Poll
<1>1. Typed
  BY Zenon DEF IInv
<1>2. frame[FaultThread].pc = "run"
  BY <1>1, IdleFrame, Zenon DEF Typed
<1>3. ~ Poll
  BY <1>1, BudgetType, Zenon DEF Poll
<1>4. \A x : At(FaultThread, x) => x = "run"
  BY <1>2, Zenon DEF At
<1>5. /\ ~ Trap(FaultThread) /\ ~ Promote(FaultThread) /\ ~ Promoted(FaultThread)
      /\ ~ Fetch(FaultThread) /\ ~ Lock(FaultThread) /\ ~ Commit(FaultThread)
      /\ ~ Fill(FaultThread) /\ ~ Protect(FaultThread) /\ ~ Settle(FaultThread)
      /\ ~ Unresolved(FaultThread) /\ ~ UffdioCopy(FaultThread) /\ ~ Zero(FaultThread)
  BY <1>4, Zenon DEF Trap, Promote, Promoted, Fetch, Lock, Commit, Fill, Protect, Settle,
              Unresolved, UffdioCopy, Zero
<1>6. /\ ~ IsDirty(FaultThread) /\ ~ Copy(FaultThread) /\ ~ Write(FaultThread)
      /\ ~ Clear(FaultThread) /\ ~ Cleared(FaultThread) /\ ~ Evict(FaultThread)
      /\ ~ Forget(FaultThread)
  BY <1>4, Zenon DEF IsDirty, Copy, Write, Clear, Cleared, Evict, Forget
<1> QED  BY <1>3, <1>5, <1>6, Zenon DEF Service

\* Every step keeps the invariant, and a flush() that ends in it has pushed everything.
LEMMA NextStep ==
  ASSUME Sequential, IInv, [Next]_vars
  PROVE  IInv' /\ \A t \in Apps : Pushes(t)
<1>1. ASSUME NEW t \in Apps, IInv' /\ Pushes(t)  PROVE IInv' /\ \A u \in Apps : Pushes(u)
  <2>1. \A u \in Apps : u = t
    BY Zenon DEF Sequential
  <2> QED  BY <1>1, <2>1, Zenon
<1>2. ASSUME NEW t \in Workers, Service(t)  PROVE IInv' /\ \A u \in Apps : Pushes(u)
  <2>1. t \in Apps
    BY <1>2, FaultThreadIdle, Zenon DEF Workers
  <2> QED  BY <1>1, <1>2, <2>1, ServiceStep, Zenon
<1>3. ASSUME NEW t \in Apps, NEW p \in Pages, NEW w \in BOOLEAN, Touch(t, p, w) \/ Fault(t, p, w)
      PROVE  IInv' /\ \A u \in Apps : Pushes(u)
  BY <1>1, <1>3, TouchStep, FaultStep, Zenon
<1>4. ASSUME NEW t \in Apps, flush(t) \/ flush_and_evict_all(t)
      PROVE  IInv' /\ \A u \in Apps : Pushes(u)
  BY <1>1, <1>4, flushStep, EvictAllStep, Zenon
<1>5. ASSUME Reconnect \/ UNCHANGED vars
      PROVE  IInv' /\ \A u \in Apps : Pushes(u)
  BY <1>5, SameStep, Zenon DEF Reconnect, vars, mapVars, heapVars, worldVars, netVars, fateVars,
                              programVars
<1>6. ASSUME PeerDrops
      PROVE  IInv' /\ \A u \in Apps : Pushes(u)
  <2>1. /\ backed' = FALSE /\ peer' = [p \in Pages |-> 0]
        /\ UNCHANGED <<setup, prot, mem, state, last, resident_order_, heap_mutex_, frame, zeroed>>
    BY <1>6, Zenon DEF PeerDrops, Lose, mapVars, heapVars, fateVars, programVars
  <2>2. peer' = [p \in Pages |-> peer'[p]]
    BY <2>1, Zenon
  <2> QED  BY <2>1, <2>2, DropStep, Zenon
<1> QED  BY <1>2, <1>3, <1>4, <1>5, <1>6, FaultThreadIdle, Zenon DEF Next

\* A new heap has no page mapped and nothing to push.
LEMMA InitIInv ==
  ASSUME Sequential, Init
  PROVE  IInv
<1>1. /\ setup \in Setups
      /\ prot = [p \in Pages |-> "none"] /\ mem = [p \in Pages |-> Blank]
      /\ state = [p \in Pages |-> "ABSENT"] /\ peer = [p \in Pages |-> 0]
      /\ last = [p \in Pages |-> 0] /\ resident_order_ = <<>>
      /\ frame = [t \in Workers |-> Idle] /\ zeroed = {}
  BY Zenon DEF Init
<1>2. \A t \in Workers : frame[t] = Idle
  BY <1>1, Zenon
<1>3. FaultThread \in Workers /\ Apps \subseteq Workers
  BY Zenon DEF Workers
<1>4. Typed
  <2>1. frame = [u \in Workers |-> frame[u]]
    BY <1>1, Zenon
  <2>2. \A t \in Apps : IsFrame(frame[t])
    BY <1>2, <1>3, IdleFrame, Zenon
  <2>3. /\ prot \in [Pages -> {"none", "ro", "rw"}]
        /\ state \in [Pages -> {"ABSENT", "RESIDENT", "DIRTY"}]
        /\ mem = [p \in Pages |-> mem[p]] /\ peer = [p \in Pages |-> peer[p]]
        /\ last = [p \in Pages |-> last[p]] /\ resident_order_ \in Seq(Pages)
    BY <1>1
  <2> QED  BY <1>1, <1>2, <1>3, <2>1, <2>2, <2>3, Zenon DEF Typed
<1>5. Tracked
  BY <1>1, Zenon DEF Tracked
<1>6. ASSUME NEW t \in Apps  PROVE FaultOK(t) /\ FlushOK(t) /\ PushedOK(t)
  <2>1. frame[t].pc = "run" /\ frame[t].job = "none"
    BY <1>2, <1>3, IdleFrame, Zenon
  <2> QED  BY <2>1, Zenon DEF FaultOK, OnPeer, FlushOK, PushedOK, Mapping, Flushing
<1>7. ASSUME NEW t \in Apps  PROVE LockOK(t)
  <2>1. frame[t].pc = "run" /\ frame[t].job = "none"
    BY <1>2, <1>3, IdleFrame, Zenon
  <2>2. Len(resident_order_) = 0 /\ Budget \in Nat
    BY <1>1, <1>4, BudgetType, Zenon
  <2> QED  BY <2>1, <2>2 DEF LockOK, Mapping, Flushing
<1>8. ASSUME NEW t \in Apps  PROVE PagesOK(t)
  BY <1>1, Zenon DEF PagesOK, Kept, OnPeer
<1> QED  BY <1>4, <1>5, <1>6, <1>7, <1>8, Zenon DEF IInv

-----------------------------------------------------------------------------
\* A list of n pages names at most n.
LEMMA ListedCardinality ==
  ASSUME NEW s \in Seq(Pages)
  PROVE  IsFiniteSet(Listed(s)) /\ Cardinality(Listed(s)) <= Len(s)
<1> DEFINE D == 1 .. Len(s)
<1>1. Len(s) \in Nat /\ DOMAIN s = D
  OBVIOUS
<1>2. IsFiniteSet(D) /\ Cardinality(D) = Len(s)
  BY <1>1, FS_Interval, SMTT(30)
<1>3. Listed(s) = {s[x] : x \in D}
  BY <1>1, Zenon DEF Listed
<1>4. PICK f : f \in Surjection(D, Listed(s))
  <2>1. [x \in D |-> s[x]] \in Surjection(D, Listed(s))
    BY <1>3, Zenon DEF Surjection
  <2> QED  BY <2>1, Zenon
<1> HIDE DEF D
<1>5. IsFiniteSet(Listed(s)) /\ Cardinality(Listed(s)) <= Cardinality(D)
  BY <1>2, <1>4, FS_Surjection, Zenon
<1> QED  BY <1>2, <1>5, Zenon

\* Outside heap_mutex_ only a page in the list is mapped.
LEMMA MappedListed ==
  ASSUME Sequential, IInv, heap_mutex_ = None, NEW p \in Pages, prot[p] # "none"
  PROVE  p \in Listed(resident_order_) /\ Len(resident_order_) <= Budget
<1> PICK t \in Apps : TRUE
  BY Zenon DEF Sequential
<1>1. Typed /\ Tracked /\ LockOK(t) /\ FaultOK(t) /\ PagesOK(t)
  BY Zenon DEF IInv
<1>2. heap_mutex_ # t
  BY RemoteHeapAssumption, Zenon DEF Sequential, Workers
<1>3. frame[t].pc \notin Mapping \cup Flushing /\ Len(resident_order_) <= Budget
  BY <1>1, <1>2, Zenon DEF LockOK
<1>4. CASE p \in Moving(t)
  BY <1>1, <1>3, <1>4, Zenon DEF Moving, Mapping, Flushing, FaultOK, OnPeer, Tracked
<1>5. CASE p \notin Moving(t)
  <2>1. Kept(p)
    BY <1>1, <1>5, Zenon DEF PagesOK
  <2> QED  BY <1>1, <1>3, <2>1, Zenon DEF Kept, OnPeer, Tracked
<1> QED  BY <1>4, <1>5, Zenon

\* What the invariant says of the budget,
LEMMA BudgetKept ==
  ASSUME Sequential, IInv
  PROVE  WithinBudget
<1> SUFFICES ASSUME heap_mutex_ = None
             PROVE  Cardinality({p \in Pages : prot[p] # "none"}) <= Budget
  BY Zenon DEF WithinBudget
<1> DEFINE M == {p \in Pages : prot[p] # "none"}
<1>1. resident_order_ \in Seq(Pages) /\ Budget \in Nat
  BY BudgetType, Zenon DEF IInv, Typed
<1>2. M \subseteq Listed(resident_order_)
  BY MappedListed, Zenon
<1>3. /\ IsFiniteSet(Listed(resident_order_))
      /\ Cardinality(Listed(resident_order_)) <= Len(resident_order_)
  BY <1>1, ListedCardinality, Zenon
<1>4. IsFiniteSet(M) /\ Cardinality(M) <= Cardinality(Listed(resident_order_))
  BY <1>2, <1>3, FS_Subset, Zenon
<1>5. Cardinality(M) \in Nat /\ Cardinality(Listed(resident_order_)) \in Nat
  BY <1>3, <1>4, FS_CardinalityType, Zenon
<1>6. CASE M = {}
  BY <1>1, <1>6, FS_EmptySet
<1>7. CASE M # {}
  <2>1. Len(resident_order_) <= Budget
    BY <1>7, MappedListed, Zenon
  <2>2. Len(resident_order_) \in Nat
    BY <1>1
  <2> HIDE DEF M
  <2>3. Cardinality(M) <= Budget
    BY <1>1, <1>3, <1>4, <1>5, <2>1, <2>2
  <2> QED  BY <2>3, Zenon DEF M
<1> QED  BY <1>6, <1>7, Zenon

\* of what the program reads,
LEMMA ReadsKept ==
  ASSUME Sequential, IInv
  PROVE  ReadsSeeLastStore
<1> SUFFICES ASSUME NEW t \in Apps, NEW p \in Pages, frame[t].pc = "run", prot[p] # "none"
             PROVE  mem[p] = last[p]
  BY Zenon DEF ReadsSeeLastStore
<1>1. Kept(p)
  BY AllKept, Zenon
<1> QED  BY <1>1, Zenon DEF Kept, OnPeer

\* and of what is on the peer.
LEMMA PeerKept ==
  ASSUME Sequential, IInv
  PROVE  NotDirtyIsOnPeer
<1> SUFFICES ASSUME NEW p \in Pages, state[p] # "DIRTY"
             PROVE  OnPeer(p)
  BY Zenon DEF NotDirtyIsOnPeer, OnPeer
<1> PICK t \in Apps : TRUE
  BY Zenon DEF Sequential
<1>1. FaultOK(t) /\ FlushOK(t) /\ PagesOK(t)
  BY Zenon DEF IInv
<1>2. CASE p \in Moving(t)
  BY <1>1, <1>2, Zenon DEF Moving, Mapping, FaultOK, OnPeer, FlushOK
<1>3. CASE p \notin Moving(t)
  <2>1. Kept(p)
    BY <1>1, <1>3, Zenon DEF PagesOK
  <2> QED  BY <2>1, Zenon DEF Kept, OnPeer
<1> QED  BY <1>2, <1>3, Zenon

\* A thread inside flush() stores nothing.
LEMMA FlushStores ==
  ASSUME Sequential, IInv, [Next]_vars, NEW t \in Apps, frame[t].job = "flush"
  PROVE  last' = last
<1>1. frame[t].pc \in Flushing
  BY Zenon DEF IInv, FlushOK, OnPeer
<1>2. frame[t].pc # "run" /\ frame[t].pc # "access"
  BY <1>1, Zenon DEF Flushing
<1>3. ASSUME NEW u \in Apps, NEW p \in Pages, NEW w \in BOOLEAN  PROVE ~ Touch(u, p, w)
  <2>1. u = t
    BY DEF Sequential
  <2> QED  BY <1>2, <2>1, Zenon DEF Touch, At
<1>4. ASSUME NEW u, Service(u)  PROVE last' = last
  <2>1. Trap(u) \/ Promote(u) \/ Promoted(u) \/ Fetch(u) \/ Unresolved(u) => last' = last
    BY Zenon DEF Trap, Promote, Promoted, Fetch, Unresolved, Crash, programVars
  <2>2. Lock(u) \/ Commit(u) \/ Fill(u) \/ Protect(u) \/ Settle(u) => last' = last
    BY Zenon DEF Lock, Commit, Fill, Protect, Settle, programVars
  <2>3. UffdioCopy(u) \/ Zero(u) \/ IsDirty(u) \/ Copy(u) \/ Write(u) => last' = last
    BY Zenon DEF UffdioCopy, Zero, IsDirty, Copy, Write, programVars
  <2>4. Clear(u) \/ Cleared(u) \/ Evict(u) \/ Forget(u) => last' = last
    BY Zenon DEF Clear, Cleared, Evict, Forget, programVars
  <2> QED  BY <1>4, <2>1, <2>2, <2>3, <2>4, Zenon DEF Service
<1>5. \A u, p, w : Fault(u, p, w) => last' = last
  BY Zenon DEF Fault, programVars
<1>6. \A u : flush(u) \/ flush_and_evict_all(u) => last' = last
  BY Zenon DEF flush, flush_and_evict_all, programVars
<1>7. Poll \/ PeerDrops \/ Reconnect \/ UNCHANGED vars => last' = last
  BY Zenon DEF Poll, PeerDrops, Reconnect, vars, programVars
<1> QED  BY <1>3, <1>4, <1>5, <1>6, <1>7, Zenon DEF Next

\* Through every fault, write-back, eviction and failure a page is in its place
\* (Kept), or it is the one page a handler or flush_page() has in hand.
LEMMA HeapInvariant ==
  ASSUME Sequential
  PROVE  Spec => []IInv
<1>1. Init => IInv
  BY InitIInv, Zenon
<1>2. IInv /\ [Next]_vars => IInv'
  BY NextStep, Zenon
<1> QED  BY <1>1, <1>2, PTL DEF Spec

\* The program's plain pointer accesses see its last store in every mapped page,
\* whatever was evicted, fetched again or failed in between: a page whose push was
\* lost can not be fetched again.
THEOREM SeesLastStore ==
  ASSUME Sequential
  PROVE  Spec => []ReadsSeeLastStore
<1>1. IInv => ReadsSeeLastStore
  BY ReadsKept, Zenon
<1> QED  BY <1>1, HeapInvariant, PTL

\* While memoryd has the block, what the backend does not call dirty is on the
\* peer, so that flush_page() may skip it and evict_pages() may drop it.
THEOREM CleanIsOnPeer ==
  ASSUME Sequential
  PROVE  Spec => []NotDirtyIsOnPeer
<1>1. IInv => NotDirtyIsOnPeer
  BY PeerKept, Zenon
<1> QED  BY <1>1, HeapInvariant, PTL

\* Whenever heap_mutex_ is free, the pages the OS backs fit local_budget_bytes_:
\* enforce_budget() leaves no page over, and no page is mapped outside its list.
THEOREM KeepsBudget ==
  ASSUME Sequential
  PROVE  Spec => []WithinBudget
<1>1. IInv => WithinBudget
  BY BudgetKept, Zenon
<1> QED  BY <1>1, HeapInvariant, PTL

\* flush() that returns without an exception has pushed every store, if memoryd
\* still has the block.
THEOREM FlushReachesPeer ==
  ASSUME Sequential
  PROVE  Spec => FlushPushes
<1>1. IInv /\ [Next]_vars
      => \A t \in Apps : frame[t].job = "flush" /\ frame'[t] = Idle /\ backed'
                           => \A p \in Pages \ zeroed : peer'[p] = last[p]
  <2> SUFFICES ASSUME IInv, [Next]_vars, NEW t \in Apps, backed',
                      frame[t].job = "flush", frame'[t] = Idle, NEW p \in Pages
               PROVE  peer'[p] = last[p]
    BY Zenon
  <2>1. Pushes(t)
    BY NextStep, Zenon
  <2>2. last' = last
    BY FlushStores, Zenon
  <2>3. peer'[p] = last'[p]
    BY <2>1, Zenon DEF Pushes, OnPeer
  <2> QED  BY <2>2, <2>3, Zenon
<1> QED  BY <1>1, HeapInvariant, PTL DEF Spec, FlushPushes
=============================================================================
