---------------------------------- MODULE Hook ----------------------------------
(***************************************************************************)
(* meminfo_hook.dll: the detours it puts over each C runtime's malloc,     *)
(* calloc, realloc, free and _msize, the lazy construction of the client,  *)
(* the heap and the arena, and the DLL's own life cycle.                   *)
(*                                                                         *)
(* The arena is modelled by HeapArena and the heap by RemoteHeap.  Here an *)
(* arena is what it is to the hook: a place that may refuse, whose blocks  *)
(* carry what an earlier owner left, and whose memory faults when touched. *)
(* A construction and a fault both wait for the client's network thread,   *)
(* which allocates through the same hooks.                                 *)
(*                                                                         *)
(* A block's contents are abstracted to `data', the number of its leading  *)
(* bytes that hold what the program expects there.                         *)
(***************************************************************************)
EXTENDS Integers, FiniteSets, FiniteSetsExt

CONSTANTS
  Apps,            \* threads of the host program
  Crts,            \* the C runtimes of kCrtModules
  NoMsize,         \* those without an _msize
  Blocks,          \* names for blocks
  Sizes, Counts,   \* sizes and calloc counts the program asks for
  Word,            \* SIZE_MAX + 1
  PageBytes,       \* MEMINFO_PAGE
  EnvThreshold,    \* MEMINFO_THRESHOLD
  HelperSizes,     \* what the fault path and the network thread allocate
  BuildSizes,      \* what constructing client, heap and arena allocates
  MaxOps,          \* calls a thread makes
  MayUnload,       \* the host may FreeLibrary the DLL
  None

\* What is known of a block: who issued it (a runtime, or an arena by its number),
\* which runtime's malloc the program called, how large it is, and its `data'.
BlockRecords ==
  [from : {"crt", "arena"} \X (Crts \cup Nat), crt : Crts, size : Nat, data : Nat]

ASSUME HookAssumption ==
  /\ Sizes \cup Counts \cup HelperSizes \cup BuildSizes \subseteq 0 .. Word - 1
  /\ {Word, PageBytes, EnvThreshold, MaxOps} \subseteq Nat /\ Word > 0
  /\ MayUnload \in BOOLEAN /\ NoMsize \subseteq Crts
  /\ None \notin Apps \cup Blocks \cup Nat \cup BlockRecords

VARIABLES
  thr,        \* the call each thread is in
  live,       \* the program's blocks
  state,      \* g_state: "new", "ready" or "failed", and init_mutex's holder
  arena,      \* which construction g_state.arena comes from, None when null
  net,        \* threads the network thread owes an answer, and whether it hangs
  hooked,     \* C runtimes with their detours attached
  slots,      \* C runtimes that occupy a slot
  loaded,     \* C runtimes in the process
  dll,        \* "attached", "released" or "removed"
  handed      \* history: <<issuer of a block, who it was handed back to>>

vars == <<thr, live, state, arena, net, hooked, slots, loaded, dll, handed>>

Idle == [pc |-> "idle", op |-> "malloc", crt |-> None, bytes |-> 0, old |-> None,
         res |-> None, owned |-> FALSE, want |-> 0, g_depth |-> 0, servicing |-> FALSE,
         ops |-> 0]

Init ==
  /\ thr = [t \in Apps |-> Idle]
  /\ live = [b \in Blocks |-> None]
  /\ state = [init |-> "new", owner |-> None, builds |-> 0]
  /\ arena = None
  /\ net = [asked |-> {}, stuck |-> FALSE]
  /\ \E m \in Crts : loaded = {m} /\ hooked = {m} /\ slots = {m}
  /\ dll = "attached"
  /\ handed = {}

(***************************************************************************)
(* What the hooks decide.                                                  *)
(***************************************************************************)
\* load_config: a page buffer must stay below the threshold.
Threshold == LET floor == (PageBytes * 8) % Word
             IN  IF EnvThreshold < floor THEN floor ELSE EnvThreshold

should_pass_through(g_depth, servicing) == g_depth > 0 \/ servicing

Redirects(bytes, g_depth, servicing) ==
  ~(bytes < Threshold \/ should_pass_through(g_depth, servicing))

Crt(m) == <<"crt", m>>
Arena(k) == <<"arena", k>>

arena_owns(b) == state.init = "ready" /\ arena # None /\ live[b].from = Arena(arena)

\* Seeded fault: a product that does not fit is not refused.
Overflows_Never(count, size) == FALSE

Overflows(count, size) == count # 0 /\ size > (Word - 1) \div count

(***************************************************************************)
(* The program: an idle thread calls a loaded C runtime, and hands a block *)
(* only to the runtime it got it from and only while no call is using it.  *)
(***************************************************************************)
CanCall(t, m) == thr[t].pc = "idle" /\ thr[t].ops < MaxOps /\ m \in loaded

Usable(b, m) ==
  /\ live[b] # None /\ live[b].crt = m
  /\ \A t \in Apps : thr[t].pc # "idle" => b \notin {thr[t].old, thr[t].res}

Spare == {b \in Blocks : live[b] = None}

Block(from, m, size, data) == [from |-> from, crt |-> m, size |-> size, data |-> data]

Finished(t) == [thr EXCEPT ![t] = [Idle EXCEPT !.ops = thr[t].ops + 1]]

\* real_malloc and real_calloc (`data' leading bytes are what the caller
\* expects), which may return null.
RealAlloc(m, size, data) ==
  \/ UNCHANGED live
  \/ \E b \in Spare : live' = [live EXCEPT ![b] = Block(Crt(m), m, size, data)]

RealFree(b, m) ==
  /\ live' = [live EXCEPT ![b] = None]
  /\ handed' = handed \cup {<<live[b].from, Crt(m)>>}

Kept(b, bytes) == Min({live[b].data, bytes})

\* real_realloc resizes the block, or returns null and leaves it as it was.
RealRealloc(b, m, bytes) ==
  /\ live' = [live EXCEPT ![b] = Block(live[b].from, m, bytes, Kept(b, bytes))]
  /\ handed' = handed \cup {<<live[b].from, Crt(m)>>}

RealReallocFails(b, m) ==
  /\ handed' = handed \cup {<<live[b].from, Crt(m)>>}
  /\ UNCHANGED live

\* A hook starts to redirect: Reentry raises g_depth until the call ends.
Enter(t, op, m, bytes, old, want) ==
  thr' = [thr EXCEPT ![t] =
            [Idle EXCEPT !.pc = "ensure", !.op = op, !.crt = m, !.bytes = bytes, !.old = old,
                         !.owned = old # None /\ arena_owns(old), !.want = want,
                         !.g_depth = 1, !.ops = thr[t].ops]]

Hooked(m, bytes) == m \in hooked /\ Redirects(bytes, 0, FALSE)

\* malloc, through hooked_malloc when the runtime is hooked.
Malloc(t, m, bytes) ==
  /\ CanCall(t, m)
  /\ IF Hooked(m, bytes)
     THEN Enter(t, "malloc", m, bytes, None, 0) /\ UNCHANGED live
     ELSE RealAlloc(m, bytes, 0) /\ thr' = Finished(t)
  /\ UNCHANGED <<state, arena, net, hooked, slots, loaded, dll, handed>>

\* calloc, through hooked_calloc when the runtime is hooked.  A product that
\* does not fit is refused, by the hook "the way the CRT does".
Calloc(t, m, count, size) ==
  LET bytes == (count * size) % Word IN
  /\ CanCall(t, m)
  /\ CASE Overflows(count, size) -> thr' = Finished(t) /\ UNCHANGED live
       [] ~Overflows(count, size) /\ Hooked(m, bytes) ->
            Enter(t, "calloc", m, bytes, None, count * size) /\ UNCHANGED live
       [] ~Overflows(count, size) /\ ~Hooked(m, bytes) ->
            RealAlloc(m, bytes, bytes) /\ thr' = Finished(t)
  /\ UNCHANGED <<state, arena, net, hooked, slots, loaded, dll, handed>>

\* free, and realloc to nothing: the arena takes back what lies inside it, the
\* runtime anything else.
Free(t, m, b) ==
  /\ CanCall(t, m) /\ Usable(b, m)
  /\ thr' = Finished(t)
  /\ IF m \in hooked /\ arena_owns(b)
     THEN /\ live' = [live EXCEPT ![b] = None]
          /\ handed' = handed \cup {<<live[b].from, Arena(arena)>>}
     ELSE RealFree(b, m)
  /\ UNCHANGED <<state, arena, net, hooked, slots, loaded, dll>>

\* _msize.
Msize(t, m, b) ==
  /\ CanCall(t, m) /\ Usable(b, m) /\ m \notin NoMsize
  /\ thr' = Finished(t)
  /\ handed' = handed \cup {<<live[b].from,
                              IF m \in hooked /\ arena_owns(b) THEN Arena(arena) ELSE Crt(m)>>}
  /\ UNCHANGED <<live, state, arena, net, hooked, slots, loaded, dll>>

\* realloc of a block to at least one byte.  A foreign block moves into the arena
\* only if its runtime can tell its size.
Realloc(t, m, b, bytes) ==
  LET mine == m \in hooked /\ arena_owns(b) IN
  /\ CanCall(t, m) /\ Usable(b, m) /\ bytes > 0
  /\ IF mine \/ (Hooked(m, bytes) /\ m \notin NoMsize)
     THEN /\ Enter(t, "realloc", m, bytes, b, Kept(b, bytes))
          /\ UNCHANGED <<live, handed>>
     ELSE (RealRealloc(b, m, bytes) \/ RealReallocFails(b, m)) /\ thr' = Finished(t)
  /\ UNCHANGED <<state, arena, net, hooked, slots, loaded, dll>>

\* The program fills a block; the pages of an arena block fault.
Fill(t, b) ==
  /\ thr[t].pc = "idle" /\ thr[t].ops < MaxOps
  /\ live[b] # None /\ Usable(b, live[b].crt) /\ live[b].data < live[b].size
  /\ IF live[b].from[1] = "arena"
     THEN /\ thr' = [thr EXCEPT ![t].pc = "touch", ![t].op = "fill", ![t].res = b]
          /\ UNCHANGED live
     ELSE /\ live' = [live EXCEPT ![b].data = live[b].size]
          /\ thr' = Finished(t)
  /\ UNCHANGED <<state, arena, net, hooked, slots, loaded, dll, handed>>

(***************************************************************************)
(* Inside a redirecting hook.                                              *)
(***************************************************************************)
\* ensure_initialized, before the lock.
EnsureFast(t) ==
  /\ thr[t].pc = "ensure" /\ state.init # "new"
  /\ thr' = [thr EXCEPT ![t].pc = IF state.init = "ready" THEN "arena" ELSE "fallback"]
  /\ UNCHANGED <<live, state, arena, net, hooked, slots, loaded, dll, handed>>

\* The thread found neither flag set and goes for init_mutex.
EnsureSlow(t) ==
  /\ thr[t].pc = "ensure" /\ state.init = "new"
  /\ thr' = [thr EXCEPT ![t].pc = "lock"]
  /\ UNCHANGED <<live, state, arena, net, hooked, slots, loaded, dll, handed>>

\* Seeded fault: the flags are not looked at again under the lock.
EnsureLocked_NoRecheck(t) ==
  /\ thr[t].pc = "lock" /\ state.owner = None
  /\ thr' = [thr EXCEPT ![t].pc = "build"] /\ state' = [state EXCEPT !.owner = t]
  /\ UNCHANGED <<live, arena, net, hooked, slots, loaded, dll, handed>>

\* init_mutex is taken and the flags are looked at again.
EnsureLocked(t) ==
  /\ thr[t].pc = "lock" /\ state.owner = None
  /\ CASE state.init = "ready"  -> thr' = [thr EXCEPT ![t].pc = "arena"] /\ UNCHANGED state
       [] state.init = "failed" -> thr' = [thr EXCEPT ![t].pc = "fallback"] /\ UNCHANGED state
       [] state.init = "new"    -> /\ thr' = [thr EXCEPT ![t].pc = "build"]
                                   /\ state' = [state EXCEPT !.owner = t]
  /\ UNCHANGED <<live, arena, net, hooked, slots, loaded, dll, handed>>

\* The constructors allocate, through these hooks, and RemoteHeap's asks the
\* peer for memory.  A redirected allocation would need init_mutex again.
Build(t, bytes) ==
  /\ thr[t].pc = "build"
  /\ IF Redirects(bytes, thr[t].g_depth, FALSE)
     THEN thr' = [thr EXCEPT ![t].pc = "stuck"] /\ UNCHANGED net
     ELSE /\ thr' = [thr EXCEPT ![t].pc = "await"]
          /\ net' = [net EXCEPT !.asked = @ \cup {t}]
  /\ UNCHANGED <<live, state, arena, hooked, slots, loaded, dll, handed>>

\* The constructors return, or one of them throws.
Built(t) ==
  /\ thr[t].pc = "built"
  /\ \/ /\ state' = [init |-> "ready", owner |-> None, builds |-> state.builds + 1]
        /\ arena' = state.builds + 1
        /\ thr' = [thr EXCEPT ![t].pc = "arena"]
     \/ /\ state' = [state EXCEPT !.init = "failed", !.owner = None]
        /\ arena' = None
        /\ thr' = [thr EXCEPT ![t].pc = "fallback"]
  /\ UNCHANGED <<live, net, hooked, slots, loaded, dll, handed>>

\* remote_allocate's call of the arena, which may be full or fragmented.
ArenaAllocate(t) ==
  /\ thr[t].pc = "arena" /\ arena # None
  /\ \/ thr' = [thr EXCEPT ![t].pc = "fallback"] /\ UNCHANGED live
     \/ \E b \in Spare :
          /\ live' = [live EXCEPT ![b] = Block(Arena(arena), thr[t].crt, thr[t].bytes, 0)]
          /\ thr' = [thr EXCEPT ![t].res = b,
                       ![t].pc = IF thr[t].op = "malloc" THEN "done" ELSE "touch"]
  /\ UNCHANGED <<state, arena, net, hooked, slots, loaded, dll, handed>>

\* The DLL is being unloaded: ready is still set, but g_state.arena is null.
NullArena(t) ==
  /\ thr[t].pc = "arena" /\ arena = None
  /\ thr' = [thr EXCEPT ![t].pc = "crashed"]
  /\ UNCHANGED <<live, state, arena, net, hooked, slots, loaded, dll, handed>>

\* remote_allocate returned null.  realloc moves a block out of the arena, and
\* leaves any other with the runtime that owns it.
Fallback(t) ==
  LET c == thr[t] IN
  /\ c.pc = "fallback"
  /\ CASE c.op \in {"malloc", "calloc"} ->
            /\ RealAlloc(c.crt, c.bytes, c.want) /\ thr' = Finished(t) /\ UNCHANGED handed
       [] c.op = "realloc" /\ c.owned ->
            \/ thr' = Finished(t) /\ UNCHANGED <<live, handed>>
            \/ \E b \in Spare :
                 /\ live' = [live EXCEPT ![b] = Block(Crt(c.crt), c.crt, c.bytes, 0)]
                 /\ thr' = [thr EXCEPT ![t].res = b, ![t].pc = "touch"]
                 /\ UNCHANGED handed
       [] c.op = "realloc" /\ ~c.owned ->
            \/ /\ RealRealloc(c.old, c.crt, c.bytes)
               /\ thr' = [thr EXCEPT ![t].res = c.old, ![t].pc = "done"]
            \/ RealReallocFails(c.old, c.crt) /\ thr' = Finished(t)
  /\ UNCHANGED <<state, arena, net, hooked, slots, loaded, dll>>

\* memset, memcpy or the program touches arena memory: the fault handler
\* allocates a page buffer on this thread and asks the peer for the page.
Touch(t, bytes) ==
  /\ thr[t].pc = "touch"
  /\ IF Redirects(bytes, thr[t].g_depth, TRUE)
     THEN thr' = [thr EXCEPT ![t].pc = "stuck"] /\ UNCHANGED net
     ELSE /\ thr' = [thr EXCEPT ![t].pc = "fault", ![t].servicing = TRUE]
          /\ net' = [net EXCEPT !.asked = @ \cup {t}]
  /\ UNCHANGED <<live, state, arena, hooked, slots, loaded, dll, handed>>

\* The network thread buffers the answer and passes it on.  That thread is in
\* no hook and serves no fault: were its buffer redirected, it would wait for
\* init_mutex, or for a page that only it can deliver.
Answer(t, bytes) ==
  /\ t \in net.asked /\ ~net.stuck
  /\ IF Redirects(bytes, 0, FALSE)
     THEN net' = [net EXCEPT !.stuck = TRUE] /\ UNCHANGED thr
     ELSE /\ net' = [net EXCEPT !.asked = @ \ {t}]
          /\ thr' = [thr EXCEPT ![t].servicing = FALSE,
                       ![t].pc = IF thr[t].pc = "await" THEN "built" ELSE "copy"]
  /\ UNCHANGED <<live, state, arena, hooked, slots, loaded, dll, handed>>

\* The memset of calloc, the memcpy of realloc, the program's own store.
Copy(t) ==
  LET c == thr[t] IN
  /\ c.pc = "copy"
  /\ live' = [live EXCEPT ![c.res].data =
                CASE c.op = "calloc"  -> c.bytes
                  [] c.op = "fill"    -> live[c.res].size
                  [] c.op = "realloc" ->
                       Min({live[c.old].data, Min({live[c.old].size, c.bytes})})]
  /\ thr' = [thr EXCEPT ![t].pc = IF c.op = "realloc" THEN "release" ELSE "done"]
  /\ UNCHANGED <<state, arena, net, hooked, slots, loaded, dll, handed>>

\* realloc gives the old block back to the arena or to its runtime.
Release(t) ==
  LET c == thr[t] IN
  /\ c.pc = "release"
  /\ live' = [live EXCEPT ![c.old] = None]
  /\ handed' = handed \cup {<<live[c.old].from, IF c.owned THEN Arena(arena) ELSE Crt(c.crt)>>}
  /\ thr' = [thr EXCEPT ![t].pc = "done", ![t].old = None]
  /\ UNCHANGED <<state, arena, net, hooked, slots, loaded, dll>>

Return(t) ==
  /\ thr[t].pc = "done"
  /\ thr' = Finished(t)
  /\ UNCHANGED <<live, state, arena, net, hooked, slots, loaded, dll, handed>>

(***************************************************************************)
(* The DLL.                                                                *)
(***************************************************************************)
\* LoadLibraryExW brings in another C runtime ...
LoadLibrary(t, m) ==
  /\ thr[t].pc = "idle" /\ m \notin loaded
  /\ loaded' = loaded \cup {m}
  /\ thr' = [thr EXCEPT ![t].pc = IF dll = "removed" THEN "idle" ELSE "scan"]
  /\ UNCHANGED <<live, state, arena, net, hooked, slots, dll, handed>>

\* ... and its hook runs scan_and_attach: every loaded runtime without a slot
\* gets one, and its detours in one transaction.  One that fails is not tried
\* again, because the slot stays taken.
ScanAndAttach(t) ==
  /\ thr[t].pc = "scan"
  /\ slots' = loaded
  /\ \/ hooked' = hooked \cup (loaded \ slots)
     \/ hooked' = hooked
  /\ thr' = [thr EXCEPT ![t].pc = "idle"]
  /\ UNCHANGED <<live, state, arena, net, loaded, dll, handed>>

\* DLL_PROCESS_DETACH of a DLL unloaded by itself (reserved is null), while no
\* thread is inside a hook: the arena is let go of, then the hooks are removed.
ReleaseState ==
  /\ MayUnload /\ dll = "attached"
  /\ \A t \in Apps : thr[t].pc = "idle"
  /\ dll' = "released" /\ arena' = None
  /\ UNCHANGED <<thr, live, state, net, hooked, slots, loaded, handed>>

RemoveHooks ==
  /\ dll = "released"
  /\ dll' = "removed" /\ hooked' = {}
  /\ UNCHANGED <<thr, live, state, arena, net, slots, loaded, handed>>

Program(t) ==
  \/ \E m \in Crts :
       \/ \E s \in Sizes : Malloc(t, m, s) \/ \E n \in Counts : Calloc(t, m, n, s)
       \/ \E b \in Blocks :
            Free(t, m, b) \/ Msize(t, m, b) \/ \E s \in Sizes : Realloc(t, m, b, s)
       \/ LoadLibrary(t, m)
  \/ \E b \in Blocks : Fill(t, b)

InHook(t) ==
  \/ EnsureFast(t) \/ EnsureSlow(t) \/ EnsureLocked(t) \/ Built(t)
  \/ ArenaAllocate(t) \/ NullArena(t) \/ Fallback(t) \/ Copy(t) \/ Release(t) \/ Return(t) \/ ScanAndAttach(t)
  \/ \E s \in BuildSizes : Build(t, s)
  \/ \E s \in HelperSizes : Touch(t, s)

Network(t) == \E s \in HelperSizes : Answer(t, s)

Next ==
  \/ \E t \in Apps : Program(t) \/ InHook(t) \/ Network(t)
  \/ ReleaseState \/ RemoveHooks

Spec == Init /\ [][Next]_vars

\* Threads in a hook are scheduled, init_mutex is granted to a waiter that keeps
\* asking, and the network thread serves every request.
FairSpec ==
  /\ Spec
  /\ \A t \in Apps : SF_vars(InHook(t)) /\ WF_vars(Network(t))
-------------------------------------------------------------------------------
\* A call: the step it is at, its arguments and what it has found out.
Calls ==
  [pc : {"idle", "ensure", "lock", "build", "await", "built", "arena", "fallback",
         "touch", "fault", "copy", "release", "done", "scan", "stuck", "crashed"},
   op : {"malloc", "calloc", "realloc", "fill"}, crt : Crts \cup {None},
   bytes : 0 .. Word - 1, old : Blocks \cup {None}, res : Blocks \cup {None},
   owned : BOOLEAN, want : Nat, g_depth : {0, 1}, servicing : BOOLEAN, ops : 0 .. MaxOps]

\* The shape of the state.
TypeOK ==
  /\ thr \in [Apps -> Calls]
  /\ live \in [Blocks -> BlockRecords \cup {None}]
  /\ \A b \in Blocks : live[b] # None => live[b].data <= live[b].size
  /\ state \in [init : {"new", "ready", "failed"}, owner : Apps \cup {None}, builds : Nat]
  /\ arena \in Nat \cup {None}
  /\ net \in [asked : SUBSET Apps, stuck : BOOLEAN]
  /\ hooked \subseteq slots /\ slots \subseteq loaded /\ loaded \subseteq Crts
  /\ dll \in {"attached", "released", "removed"}

\* "a block from one CRT's malloc must be returned to that same CRT's free": free,
\* realloc and _msize take a block to the allocator that issued it, the arena of
\* that time included, whichever hooks were attached in between.  The DLL's own
\* unload drops the arena while the program holds blocks of it; the promise is
\* for as long as the DLL is attached.
FreedWhereIssued == dll = "attached" => \A h \in handed : h[1] = h[2]

\* A block a call returns holds what its caller may rely on: calloc's zeroes for
\* the whole of count * size, realloc's old bytes up to the smaller of the two
\* sizes, whether the block stayed, moved into the arena or was moved out of it.
ContentsKept ==
  \A t \in Apps : thr[t].pc = "done" => live[thr[t].res].data >= thr[t].want

\* "Keeping the threshold well above the page size means none of them qualify for
\* redirection, so the fault path cannot allocate out of the heap it is servicing"
\* (load_config).  It holds while every buffer of the network thread is below
\* eight pages; libuv asks for 64 KiB at a time whatever the page size is.
NeverReentered == ~net.stuck /\ \A t \in Apps : thr[t].pc # "stuck"

\* Every call of the program returns, whoever is building the heap at the time.
CallReturns == \A t \in Apps : thr[t].pc # "idle" ~> thr[t].pc = "idle"
===============================================================================
