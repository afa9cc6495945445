------------------------------ MODULE RemoteHeap ------------------------------
(***************************************************************************)
(* RemoteHeap: memory whose pages live on a peer, are fetched when touched *)
(* and pushed back to keep the local budget, on top of one of the three    *)
(* page-fault backends.                                                    *)
(*                                                                         *)
(* prot is what the hardware enforces, state what the backend believes.    *)
(* Threads read and write mem whenever prot lets them, without a lock, so  *)
(* every system call and every access to state is a step of its own;       *)
(* what only heap_mutex_ protects changes together with such a step.       *)
(*                                                                         *)
(* On Windows and macOS the faulting thread services its own fault.  On    *)
(* Linux it blocks, the fault thread services it, and UFFDIO_COPY lets it  *)
(* run again while the fault thread goes on to enforce the budget.         *)
(*                                                                         *)
(* A page is one OS page, and holds one value.  The backing block is too   *)
(* large for MemoryClient's cache and on one peer, so client_.read() and   *)
(* client_.write() are one round trip each: read_remote() throws unless it *)
(* gets the bytes, write_remote() throws when the peer is not connected or *)
(* the call times out, and takes any other outcome for a success.  memoryd *)
(* frees the block when the connection ends.                               *)
(***************************************************************************)
EXTENDS Integers, Sequences, FiniteSets

CONSTANTS
  Setups,      \* the builds and constructor arguments considered
  Apps,        \* threads of the program
  Pages,
  MaxStores,   \* bound on stores
  MaxLost,     \* bound on lost connections and calls without an answer
  None         \* no thread

FaultThread == "uffd"
Workers == Apps \cup {FaultThread}

\* budget is local_budget_bytes_, in pages; osFails says whether commit, protect
\* and release calls may fail.
ASSUME RemoteHeapAssumption ==
  /\ Setups \subseteq [backend : {"windows", "macos", "linux"},
                       budget : Nat \ {0}, osFails : BOOLEAN]
  /\ FaultThread \notin Apps
  /\ None \notin Workers \cup Pages

VARIABLES
  setup,            \* the build and its heap's arguments; never changes
  prot,             \* page -> "none" | "ro" | "rw"
  mem,              \* page -> the value in local memory
  state,            \* page -> "ABSENT" | "RESIDENT" | "DIRTY"
  peer,             \* page -> the value the peer holds
  resident_order_,  \* pages of the heap's accounting, oldest first
  heap_mutex_,      \* its holder
  frame,            \* thread -> what it is executing
  events,           \* faults userfaultfd has not reported yet
  link,             \* the connection to the peer: "up" | "down" | "spoiled"
  backed,           \* memoryd still has the block
  lost,             \* connections and answers lost so far
  crashed,          \* the access violation was let through
  zeroed,           \* pages zero_page() supplied in place of the peer's
  last, stores      \* page -> the last value stored; how many were

mapVars == <<prot, mem>>
heapVars == <<resident_order_, heap_mutex_>>
netVars == <<link, backed, lost>>
worldVars == <<setup, netVars>>
fateVars == <<crashed, zeroed>>
programVars == <<last, stores>>
vars == <<mapVars, state, peer, heapVars, frame, events, worldVars, fateVars,
          programVars>>

Backend == setup.backend
Budget == setup.budget
OsFails == setup.osFails

Blank == -1   \* a page the OS has just supplied

\* page and write are the access; job is the heap operation in progress, victim
\* the page it is flushing or evicting, todo what flush() has yet to visit, kept
\* whether an eviction of this job has failed.
Idle == [pc |-> "run", page |-> None, write |-> FALSE, resolved |-> FALSE, kept |-> FALSE,
         job |-> "none", victim |-> None, data |-> Blank, todo |-> <<>>]

Init ==
  /\ setup \in Setups
  /\ prot = [p \in Pages |-> "none"]
  /\ mem = [p \in Pages |-> Blank]
  /\ state = [p \in Pages |-> "ABSENT"]
  /\ peer = [p \in Pages |-> 0]
  /\ resident_order_ = <<>>
  /\ heap_mutex_ = None
  /\ frame = [t \in Workers |-> Idle]
  /\ events = <<>>
  /\ link = "up"
  /\ backed = TRUE
  /\ lost = 0
  /\ crashed = FALSE
  /\ zeroed = {}
  /\ last = [p \in Pages |-> 0]
  /\ stores = 0

At(t, pc) == ~crashed /\ frame[t].pc = pc
Goto(t, pc) == frame' = [frame EXCEPT ![t].pc = pc]
OsCall == IF OsFails THEN BOOLEAN ELSE {TRUE}

-----------------------------------------------------------------------------
(* The program's accesses.                                                  *)

\* A load or a store the mapping allows; `p' and `w' are fixed when the thread
\* is re-executing an instruction that faulted.
Touch(t, p, w) ==
  /\ t \in Apps
  /\ \/ At(t, "run") /\ (w => stores < MaxStores)
     \/ At(t, "access") /\ frame[t].page = p /\ frame[t].write = w
  /\ prot[p] \in (IF w THEN {"rw"} ELSE {"ro", "rw"})
  /\ IF w THEN /\ mem' = [mem EXCEPT ![p] = stores + 1]
               /\ last' = [last EXCEPT ![p] = stores + 1]
               /\ stores' = stores + 1
          ELSE UNCHANGED <<mem, programVars>>
  /\ frame' = [frame EXCEPT ![t] = Idle]
  /\ UNCHANGED <<prot, state, peer, heapVars, events, worldVars, fateVars>>

\* One it does not: an exception on this thread, or an event for the fault
\* thread.
Fault(t, p, w) ==
  /\ t \in Apps
  /\ \/ At(t, "run") /\ (w => stores < MaxStores)
     \/ At(t, "access") /\ frame[t].page = p /\ frame[t].write = w
  /\ prot[p] \notin (IF w THEN {"rw"} ELSE {"ro", "rw"})
  /\ frame' = [frame EXCEPT ![t] =
       [Idle EXCEPT !.pc = IF Backend = "linux" THEN "blocked" ELSE "trap",
                    !.page = p, !.write = w]]
  /\ events' = IF Backend = "linux" THEN Append(events, p) ELSE events
  /\ UNCHANGED <<mapVars, state, peer, heapVars, worldVars, fateVars, programVars>>

Crash(t) ==
  /\ crashed' = TRUE
  /\ UNCHANGED <<mapVars, state, peer, heapVars, frame, events, worldVars, zeroed,
                 programVars>>

\* VectoredHandler and segv_handler look the page up.  A resident page needs
\* its protection lifted, but Windows takes a load of one for a real crash.
Trap(t) ==
  /\ At(t, "trap")
  /\ LET p == frame[t].page IN
     IF state[p] # "ABSENT" /\ Backend = "windows" /\ ~frame[t].write
     THEN Crash(t)
     ELSE /\ Goto(t, IF state[p] = "ABSENT" THEN "fetch" ELSE "promote")
          /\ UNCHANGED <<mapVars, state, peer, heapVars, events, worldVars, fateVars,
                         programVars>>

\* VirtualProtect fails on a page that is no longer committed; mprotect works.
Promote(t) ==
  /\ At(t, "promote")
  /\ LET p == frame[t].page IN
     \E ok \in OsCall :
       IF ok /\ (Backend = "windows" => prot[p] # "none")
       THEN /\ prot' = [prot EXCEPT ![p] = "rw"]
            /\ Goto(t, "promoted")
            /\ UNCHANGED <<mem, state, peer, heapVars, events, worldVars, fateVars,
                           programVars>>
       ELSE Crash(t)

Promoted(t) ==
  /\ At(t, "promoted")
  /\ state' = [state EXCEPT ![frame[t].page] = "DIRTY"]
  /\ Goto(t, "access")
  /\ UNCHANGED <<mapVars, peer, heapVars, events, worldVars, fateVars, programVars>>

\* fault_handler_thread() reads the next event.
Poll ==
  /\ Backend = "linux"
  /\ At(FaultThread, "run")
  /\ events # <<>>
  /\ frame' = [frame EXCEPT ![FaultThread] =
                 [Idle EXCEPT !.pc = "fetch", !.page = Head(events)]]
  /\ events' = Tail(events)
  /\ UNCHANGED <<mapVars, state, peer, heapVars, worldVars, fateVars, programVars>>

-----------------------------------------------------------------------------
(* handle_fault                                                             *)

\* Seeded fault: a failed read yields the zeroes `result' was created with.
Fetch_Unchecked(t) ==
  /\ At(t, "fetch")
  /\ frame' = [frame EXCEPT ![t].pc = "lock", ![t].job = "fault",
                            ![t].data = IF link = "up" /\ backed
                                        THEN peer[frame[t].page] ELSE 0]
  /\ UNCHANGED <<mapVars, state, peer, heapVars, events, worldVars, fateVars, programVars>>

\* client_.read(), before heap_mutex_ is taken.  It throws without a connection,
\* on an error status (memoryd has freed the block), on an empty answer (some
\* connection was lost) and after ten seconds; then nothing is resolved, and
\* Windows and macOS let the violation through.
Fetch(t) ==
  /\ At(t, "fetch")
  /\ \/ /\ link = "up" /\ backed
        /\ frame' = [frame EXCEPT ![t].pc = "lock", ![t].data = peer[frame[t].page],
                                  ![t].job = "fault"]
        /\ UNCHANGED <<mapVars, state, peer, heapVars, events, worldVars, fateVars,
                       programVars>>
     \/ /\ link # "up" \/ ~backed \/ lost < MaxLost
        /\ lost' = IF link = "up" /\ backed THEN lost + 1 ELSE lost
        /\ IF Backend = "linux" THEN Goto(t, "zero") /\ UNCHANGED crashed
                                ELSE crashed' = TRUE /\ UNCHANGED frame
        /\ UNCHANGED <<mapVars, state, peer, heapVars, events, setup, link, backed, zeroed,
                       programVars>>

Lock(t) ==
  /\ At(t, "lock")
  /\ heap_mutex_ = None
  /\ heap_mutex_' = t
  /\ Goto(t, IF Backend = "linux" THEN "uffdio_copy" ELSE "commit")
  /\ UNCHANGED <<mapVars, state, peer, resident_order_, events, worldVars, fateVars,
                 programVars>>

-----------------------------------------------------------------------------
(* What the holder of heap_mutex_ goes on with.                             *)

\* Seeded fault: one page too many is kept.
NextVictim_OffByOne(f, order) ==
  CASE f.job = "fault" /\ Len(order) > Budget + 1 -> Head(order)
    [] f.job = "flush" /\ f.todo # <<>> -> Head(f.todo)
    [] f.job = "evict_all" /\ order # <<>> -> Head(order)
    [] OTHER -> None

\* The page the loop of `f.job' visits next: enforce_budget(), flush() or
\* flush_and_evict_all().
NextVictim(f, order) ==
  CASE f.job = "fault" /\ Len(order) > Budget /\ Len(order) > 1 -> Head(order)
    [] f.job = "flush" /\ f.todo # <<>> -> Head(f.todo)
    [] f.job = "evict_all" /\ order # <<>> -> Head(order)
    [] OTHER -> None

\* The frame once the job has returned.  An unresolved fault is let through,
\* or zero-filled by the fault thread.
Returned(t, f) ==
  CASE f.job # "fault" -> Idle
    [] t = FaultThread -> IF f.resolved THEN Idle ELSE [f EXCEPT !.pc = "zero"]
    [] OTHER -> [Idle EXCEPT !.pc = IF f.resolved THEN "access" ELSE "unresolved",
                             !.page = f.page, !.write = f.write]

Return(t, f, order, frames) ==
  /\ resident_order_' = order
  /\ heap_mutex_' = None
  /\ frame' = [frames EXCEPT ![t] = Returned(t, f)]

Proceed(t, f, order, frames) ==
  LET v == NextVictim(f, order) IN
  IF v = None THEN Return(t, f, order, frames)
  ELSE /\ resident_order_' = order
       /\ heap_mutex_' = t
       /\ frame' = [frames EXCEPT ![t] =
            [f EXCEPT !.pc = "is_dirty", !.victim = v,
                      !.todo = IF f.job = "flush" THEN Tail(f.todo) ELSE <<>>]]

\* handle_fault() accounts for the page whether or not the backend mapped it.
Track(t, resolved, frames) ==
  LET p == frame[t].page
      order == IF \E i \in DOMAIN resident_order_ : resident_order_[i] = p
               THEN resident_order_ ELSE Append(resident_order_, p)
  IN  Proceed(t, [frame[t] EXCEPT !.resolved = resolved], order, frames)

\* resident_order_.erase(it->second): p is in the list.
Erase(order, p) ==
  LET at == CHOOSE i \in DOMAIN order : order[i] = p
  IN  [i \in 1 .. Len(order) - 1 |-> order[IF i < at THEN i ELSE i + 1]]

\* evict_page() failed: the page goes to the back of the order.
\* flush_and_evict_all() then stops, enforce_budget() goes on.
KeepVictim(t) ==
  LET f == [frame[t] EXCEPT !.kept = TRUE]
      order == Append(Erase(resident_order_, f.victim), f.victim)
  IN  IF f.job = "evict_all" THEN Return(t, f, order, frame)
                             ELSE Proceed(t, f, order, frame)

AfterFlush(t) ==
  IF frame[t].job = "flush" THEN Proceed(t, frame[t], resident_order_, frame)
  ELSE Goto(t, "evict") /\ UNCHANGED heapVars

-----------------------------------------------------------------------------
(* resolve_fault                                                            *)

\* VirtualAlloc(MEM_COMMIT), mprotect(PROT_READ | PROT_WRITE).
Commit(t) ==
  /\ At(t, "commit")
  /\ \E ok \in OsCall :
       LET p == frame[t].page IN
       IF ok THEN /\ prot' = [prot EXCEPT ![p] = "rw"]
                  /\ mem' = [mem EXCEPT ![p] = IF prot[p] = "none" THEN Blank ELSE @]
                  /\ Goto(t, "fill")
                  /\ UNCHANGED heapVars
             ELSE Track(t, FALSE, frame) /\ UNCHANGED mapVars
  /\ UNCHANGED <<state, peer, events, worldVars, fateVars, programVars>>

\* macOS cannot tell a store from a load, and takes every fault for a load.
Fill(t) ==
  /\ At(t, "fill")
  /\ mem' = [mem EXCEPT ![frame[t].page] = frame[t].data]
  /\ Goto(t, IF frame[t].write /\ Backend = "windows" THEN "settle_dirty" ELSE "protect")
  /\ UNCHANGED <<prot, state, peer, heapVars, events, worldVars, fateVars, programVars>>

Protect(t) ==
  /\ At(t, "protect")
  /\ \E ok \in OsCall :
       /\ prot' = IF ok THEN [prot EXCEPT ![frame[t].page] = "ro"] ELSE prot
       /\ Goto(t, IF ok THEN "settle_clean" ELSE "settle_dirty")
  /\ UNCHANGED <<mem, state, peer, heapVars, events, worldVars, fateVars, programVars>>

\* Seeded fault: the page of a store fault is recorded clean.
Settle_AlwaysClean(t) ==
  /\ At(t, "settle_clean") \/ At(t, "settle_dirty")
  /\ state' = [state EXCEPT ![frame[t].page] = "RESIDENT"]
  /\ Track(t, TRUE, frame)
  /\ UNCHANGED <<mapVars, peer, events, worldVars, fateVars, programVars>>

Settle(t) ==
  /\ At(t, "settle_clean") \/ At(t, "settle_dirty")
  /\ state' = [state EXCEPT ![frame[t].page] =
                 IF frame[t].pc = "settle_dirty" THEN "DIRTY" ELSE "RESIDENT"]
  /\ Track(t, TRUE, frame)
  /\ UNCHANGED <<mapVars, peer, events, worldVars, fateVars, programVars>>

Unresolved(t) == At(t, "unresolved") /\ Crash(t)

\* Threads blocked on a page that is now present run again; events of theirs
\* that were not read yet are withdrawn.
Awake(p) ==
  [t \in Workers |-> IF frame[t].pc = "blocked" /\ frame[t].page = p
                     THEN [frame[t] EXCEPT !.pc = "access"] ELSE frame[t]]

Without(faults, p) == SelectSeq(faults, LAMBDA q : q # p)

\* On Linux a resident page counts as dirty.  mark_resident() and the ioctl
\* are one step: nobody reads state without heap_mutex_.
UffdioCopy(t) ==
  /\ At(t, "uffdio_copy")
  /\ \E ok \in OsCall :
       LET p == frame[t].page
           copied == ok /\ prot[p] = "none"
       IN  /\ state' = [state EXCEPT ![p] = IF copied THEN "DIRTY" ELSE "ABSENT"]
           /\ IF copied THEN /\ mem' = [mem EXCEPT ![p] = frame[t].data]
                             /\ prot' = [prot EXCEPT ![p] = "rw"]
                             /\ events' = Without(events, p)
                        ELSE UNCHANGED <<mapVars, events>>
           /\ Track(t, copied, IF copied THEN Awake(p) ELSE frame)
  /\ UNCHANGED <<peer, worldVars, fateVars, programVars>>

\* Seeded fault: an unresolved fault is dropped.
Zero_Dropped(t) ==
  /\ At(t, "zero")
  /\ frame' = [frame EXCEPT ![t] = Idle]
  /\ UNCHANGED <<mapVars, state, events, peer, heapVars, worldVars, fateVars, programVars>>

\* zero_page(), without heap_mutex_: the last resort for an unresolved fault.
Zero(t) ==
  /\ At(t, "zero")
  /\ LET p == frame[t].page
         filled == prot[p] = "none"
     IN  /\ state' = [state EXCEPT ![p] = IF filled THEN "DIRTY" ELSE "ABSENT"]
         /\ IF filled THEN /\ prot' = [prot EXCEPT ![p] = "rw"]
                           /\ events' = Without(events, p)
                      ELSE UNCHANGED <<prot, events>>
         /\ zeroed' = IF filled THEN zeroed \cup {p} ELSE zeroed
         /\ frame' = [(IF filled THEN Awake(p) ELSE frame) EXCEPT ![t] = Idle]
  /\ UNCHANGED <<mem, peer, heapVars, worldVars, crashed, programVars>>

-----------------------------------------------------------------------------
(* flush_page and evict_page                                                *)

IsDirty(t) ==
  /\ At(t, "is_dirty")
  /\ IF state[frame[t].victim] = "DIRTY" THEN Goto(t, "copy") /\ UNCHANGED heapVars
                                         ELSE AfterFlush(t)
  /\ UNCHANGED <<mapVars, state, peer, events, worldVars, fateVars, programVars>>

Copy(t) ==
  /\ At(t, "copy")
  /\ frame' = [frame EXCEPT ![t].pc = "write", ![t].data = mem[frame[t].victim]]
  /\ UNCHANGED <<mapVars, state, peer, heapVars, events, worldVars, fateVars, programVars>>

\* The write throws: flush() passes the exception on, evict_page() keeps the page.
Threw(t) ==
  IF frame[t].job = "flush"
  THEN /\ heap_mutex_' = None
       /\ frame' = [frame EXCEPT ![t] = [Idle EXCEPT !.job = "threw"]]
       /\ UNCHANGED resident_order_
  ELSE KeepVictim(t)

\* The request reaches memoryd, which stores the page if it has the block.
Sent(t) == peer' = IF backed THEN [peer EXCEPT ![frame[t].victim] = frame[t].data] ELSE peer

\* The connection is lost, and memoryd frees what its session had.
Lose ==
  /\ link = "up" /\ lost < MaxLost
  /\ link' = "down" /\ backed' = FALSE /\ lost' = lost + 1
  /\ peer' = [p \in Pages |-> 0]

\* client_.write().  It returns when it is answered, whatever the status, and
\* when it gets the empty buffer of a lost connection.  It throws without a
\* connection and after ten seconds, when a late request is carried out all the
\* same, before any later one.
Write(t) ==
  /\ At(t, "write")
  /\ \/ /\ link = "up"
        /\ Sent(t) /\ Goto(t, "clear")
        /\ UNCHANGED <<heapVars, netVars>>
     \/ /\ Lose
        /\ Goto(t, "clear")
        /\ UNCHANGED heapVars
     \/ /\ link = "up" /\ lost < MaxLost
        /\ Sent(t) /\ Threw(t)
        /\ lost' = lost + 1
        /\ UNCHANGED <<link, backed>>
     \/ /\ link # "up"
        /\ Threw(t)
        /\ UNCHANGED <<peer, netVars>>
  /\ UNCHANGED <<mapVars, state, events, setup, fateVars, programVars>>

\* Seeded fault: the page stays writable, so the next store is not seen.
Clear_Writable(t) ==
  /\ At(t, "clear")
  /\ Goto(t, "cleared")
  /\ UNCHANGED <<heapVars, mapVars, state, peer, events, worldVars, fateVars, programVars>>

\* clear_dirty(): the protection first, the state under mutex_ after it.  A
\* no-op on Linux.
Clear(t) ==
  /\ At(t, "clear")
  /\ \E ok \in OsCall :
       IF ok /\ Backend # "linux"
       THEN /\ prot' = [prot EXCEPT ![frame[t].victim] = "ro"]
            /\ Goto(t, "cleared")
            /\ UNCHANGED heapVars
       ELSE AfterFlush(t) /\ UNCHANGED prot
  /\ UNCHANGED <<mem, state, peer, events, worldVars, fateVars, programVars>>

Cleared(t) ==
  /\ At(t, "cleared")
  /\ state' = [state EXCEPT ![frame[t].victim] = IF @ = "DIRTY" THEN "RESIDENT" ELSE @]
  /\ AfterFlush(t)
  /\ UNCHANGED <<mapVars, peer, events, worldVars, fateVars, programVars>>

\* evict_pages(): VirtualFree, mprotect(PROT_NONE) or madvise, then the state.
Evict(t) ==
  /\ At(t, "evict")
  /\ \E ok \in OsCall :
       IF ok THEN /\ prot' = [prot EXCEPT ![frame[t].victim] = "none"]
                  /\ mem' = [mem EXCEPT ![frame[t].victim] = Blank]
                  /\ Goto(t, "forget")
                  /\ UNCHANGED heapVars
             ELSE KeepVictim(t) /\ UNCHANGED mapVars
  /\ UNCHANGED <<state, peer, events, worldVars, fateVars, programVars>>

Forget(t) ==
  /\ At(t, "forget")
  /\ state' = [state EXCEPT ![frame[t].victim] = "ABSENT"]
  /\ Proceed(t, frame[t], Erase(resident_order_, frame[t].victim), frame)
  /\ UNCHANGED <<mapVars, peer, events, worldVars, fateVars, programVars>>

-----------------------------------------------------------------------------
flush(t) ==
  /\ t \in Apps
  /\ At(t, "run")
  /\ heap_mutex_ = None
  /\ Proceed(t, [Idle EXCEPT !.job = "flush", !.todo = resident_order_],
             resident_order_, frame)
  /\ UNCHANGED <<mapVars, state, peer, events, worldVars, fateVars, programVars>>

flush_and_evict_all(t) ==
  /\ t \in Apps
  /\ At(t, "run")
  /\ heap_mutex_ = None
  /\ Proceed(t, [Idle EXCEPT !.job = "evict_all"], resident_order_, frame)
  /\ UNCHANGED <<mapVars, state, peer, events, worldVars, fateVars, programVars>>

\* The connection is lost between two calls.
PeerDrops ==
  /\ ~crashed
  /\ Lose
  /\ UNCHANGED <<setup, mapVars, state, heapVars, frame, events, fateVars,
                 programVars>>

\* The discovery thread connects again.  What a torn response left in the read
\* buffer spoils the new connection: it counts as connected and answers nothing.
Reconnect ==
  /\ ~crashed
  /\ link = "down"
  /\ link' \in {"up", "spoiled"}
  /\ UNCHANGED <<setup, mapVars, state, peer, heapVars, frame, events, backed, lost,
                 fateVars, programVars>>

\* What thread `t' does inside the backend and the heap.
Service(t) ==
  \/ Trap(t) \/ Promote(t) \/ Promoted(t)
  \/ Fetch(t) \/ Lock(t) \/ Commit(t) \/ Fill(t) \/ Protect(t) \/ Settle(t)
  \/ Unresolved(t) \/ UffdioCopy(t) \/ Zero(t)
  \/ IsDirty(t) \/ Copy(t) \/ Write(t) \/ Clear(t) \/ Cleared(t)
  \/ Evict(t) \/ Forget(t)

Next ==
  \/ \E t \in Workers : Service(t)
  \/ \E t \in Apps, p \in Pages, w \in BOOLEAN : Touch(t, p, w) \/ Fault(t, p, w)
  \/ \E t \in Apps : flush(t) \/ flush_and_evict_all(t)
  \/ Poll
  \/ PeerDrops
  \/ Reconnect

Spec == Init /\ [][Next]_vars

\* A thread that can run eventually does; so an instruction that faulted is
\* eventually executed again.  The discovery thread goes on connecting.
Retry(t) ==
  /\ frame[t].pc = "access"
  /\ \E p \in Pages, w \in BOOLEAN : Touch(t, p, w) \/ Fault(t, p, w)

Fairness ==
  /\ \A t \in Workers : WF_vars(Service(t))
  /\ \A t \in Apps : WF_vars(Retry(t))
  /\ WF_vars(Poll)
  /\ WF_vars(Reconnect)

LiveSpec == Spec /\ Fairness

-----------------------------------------------------------------------------
(* Properties                                                               *)

Values == {Blank} \cup (0 .. MaxStores + Cardinality(Apps))
Steps == {"run", "access", "blocked", "trap", "promote", "promoted", "fetch", "lock",
          "commit", "fill", "protect", "settle_clean", "settle_dirty", "unresolved",
          "uffdio_copy", "zero", "is_dirty", "copy", "write", "clear", "cleared",
          "evict", "forget"}

\* Every variable has its type, and resident_order_ lists no page twice: it is
\* the list resident_ keeps an iterator into for each page.
TypeOK ==
  /\ prot \in [Pages -> {"none", "ro", "rw"}]
  /\ mem \in [Pages -> Values]
  /\ state \in [Pages -> {"ABSENT", "RESIDENT", "DIRTY"}]
  /\ peer \in [Pages -> Values]
  /\ resident_order_ \in Seq(Pages)
  /\ \A i, j \in DOMAIN resident_order_ :
       resident_order_[i] = resident_order_[j] => i = j
  /\ heap_mutex_ \in Workers \cup {None}
  /\ \A t \in Workers : frame[t].pc \in Steps
  /\ events \in Seq(Pages)
  /\ link \in {"up", "down", "spoiled"}
  /\ backed \in BOOLEAN /\ lost \in 0 .. MaxLost
  /\ crashed \in BOOLEAN
  /\ last \in [Pages -> Values] /\ stores \in Nat

\* A plain pointer access sees the last store: a thread that is running finds
\* it in every page it can read without a fault (RemoteHeap, the class comment:
\* "Reads and writes are plain pointer accesses").  A write-back that was lost
\* with the connection counts as done, but the page can then not be fetched
\* again, so nobody runs on an older value of it.  A page that Linux had to
\* zero-fill has lost its contents.
ReadsSeeLastStore ==
  \A t \in Apps, p \in Pages \ zeroed :
    frame[t].pc = "run" /\ prot[p] # "none" => mem[p] = last[p]

\* As long as memoryd has the block, what the backend does not call dirty is on
\* the peer, through every timeout, failed write-back, protection or release:
\* flush_page() and evict_page() may skip it.
NotDirtyIsOnPeer ==
  backed => \A p \in Pages \ zeroed : state[p] # "DIRTY" => peer[p] = last[p]

\* "The process holds no more than the budget at any point": outside
\* heap_mutex_, the pages the OS backs fit local_budget_bytes_.
WithinBudget ==
  heap_mutex_ = None => Cardinality({p \in Pages : prot[p] # "none"}) <= Budget

\* flush() that returns has pushed every store to the peer, if memoryd still has
\* the block at that time: one that timed out makes flush() throw.
FlushPushes ==
  [][\A t \in Apps : frame[t].job = "flush" /\ frame'[t] = Idle /\ backed'
                       => \A p \in Pages \ zeroed : peer'[p] = last[p]]_vars

\* The same without the condition (remote_heap.h: "Pushes every dirty page to the
\* peer, leaving the region resident").
FlushAlwaysPushes ==
  [][\A t \in Apps : frame[t].job = "flush" /\ frame'[t] = Idle
                       => backed' /\ \A p \in Pages : peer'[p] = last[p]]_vars

\* flush_and_evict_all() that returns leaves "the region's whole contents" on
\* the peer and nothing in local memory.
EvictAllPushes ==
  [][\A t \in Apps : frame[t].job = "evict_all" /\ frame'[t] = Idle
                       => \A p \in Pages : peer'[p] = last[p] /\ prot'[p] = "none"]_vars

\* The violation is let through only when the page cannot be fetched or mapped:
\* without a failure, no access to the region crashes the program.
NeverCrashes == ~crashed

\* A thread never resumes into a page that was not filled from the peer.
NeverBlank ==
  \A p \in Pages : prot[p] # "none" => mem[p] # Blank

\* handle_fault() and the access it is for come to an end.  enforce_budget() goes
\* round the pages it cannot write back, with heap_mutex_ held, for as long as
\* the peer is away; once there is a connection again it ends.  Not so on a
\* connection that was spoiled, or while the OS refuses to release a page.
AccessEnds ==
  \A t \in Apps :
    frame[t].page # None ~>
      \/ crashed \/ frame[t].page = None
      \/ link = "spoiled"
      \/ OsFails /\ \E u \in Workers : frame[u].kept
=============================================================================
