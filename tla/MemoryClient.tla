----------------------------- MODULE MemoryClient -----------------------------
(***************************************************************************)
(* memclient's MemoryClient: a write-back LRU cache of blocks in front of  *)
(* the memory that peers lend.  Application threads call allocate, free,   *)
(* read and write; the memory monitor's thread evicts under pressure.  A   *)
(* block is in cache_ or on peers (remote_handles_), and moves between the *)
(* two in several steps: each section under cache_'s or remote_mutex_'s    *)
(* lock is one step and each round trip to a peer is one step, so threads  *)
(* interleave exactly where the code holds no lock.                        *)
(*                                                                         *)
(* Bytes are abstracted to cells; an application access covers one cell,   *)
(* eviction and loading move whole blocks.  A peer is memoryd as its       *)
(* clients see it (module MemoryPool), together with the connection to it. *)
(***************************************************************************)
EXTENDS Integers, Sequences, FiniteSets, LruCache

CONSTANTS
  Setups,       \* the networks, machines and programs considered, see below
  Capacity,     \* Capacity[p]: cells the memoryd behind p lends
  Apps,         \* application threads
  Monitor,      \* the memory monitor's thread
  Restarts,     \* BOOLEAN: can a memoryd restart and count handles from 1 again
  Values,       \* what is written to a cell; disjoint between handles
  MaxHandles,   \* bound on next_local_handle_
  MaxRemote,    \* bound on a memoryd's next_handle_: it then refuses to allocate
  MaxFaults     \* bound on timeouts and lost connections

\* peers: RemotePeer objects, one per ip:port; sizes: of blocks, in cells;
\* pressure: can the machine run short of memory; discovery: does discoveryd
\* report capacities; hangs: can it stop answering the requests it accepts.
ASSUME MemoryClientAssumption ==
  /\ Setups \subseteq [peers : SUBSET DOMAIN Capacity, sizes : SUBSET (Nat \ {0}),
                       pressure : BOOLEAN, discovery : BOOLEAN, hangs : BOOLEAN]
  /\ Monitor \notin Apps
  /\ Restarts \in BOOLEAN
  /\ {MaxHandles, MaxRemote, MaxFaults} \subseteq Nat

VARIABLES
  setup,               \* never changes
  cache_,
  remote_handles_,     \* handle -> sequence of stripes, their lengths adding up
  remote_mutex_,       \* thread that holds it across a network call, or NoThread
  next_local_handle_,
  peer,                \* peer -> connection, memory and cached capacity
  frame,               \* thread -> its call in progress
  faults,              \* timeouts and lost connections so far
  hung,                \* discoveryd accepts requests and does not answer
  terminated,          \* std::terminate was called
  contents             \* live handle -> what the program may expect in each cell

remoteVars == <<remote_handles_, remote_mutex_>>
netVars == <<peer, faults, hung>>
programVars == <<setup, next_local_handle_, terminated, contents>>
vars == <<cache_, remoteVars, netVars, programVars, frame>>

NoThread == "none"
Threads == Apps \cup {Monitor}
Peers == setup.peers
Pressure == setup.pressure
Handles == 1 .. MaxHandles
Zero == <<0, 0>>
Zeros(n) == [i \in 1 .. n |-> Zero]
Unknown == MaxRemote + 1000   \* !capacity_known

\* The call a thread is in.  `ev' is the block evict_if_needed has in hand,
\* `need' what it makes room for and `ret' where it returns to; `all' are the
\* candidate peers and `cands' those still to be tried, `stripes' and `rem' what
\* is placed and still to be placed; `src' is the allocation load_to_local
\* copied and `todo' the stripes a transfer has left.
Idle == [op |-> "none", pc |-> "idle", h |-> 0, off |-> 0, v |-> Zero,
         size |-> 0, need |-> 0, pressure |-> FALSE, ret |-> "", ev |-> NoBlock,
         all |-> <<>>, cands |-> <<>>, rem |-> 0, stripes |-> <<>>,
         src |-> <<>>, todo |-> <<>>, data |-> <<>>, res |-> ""]

\* A single allocation is one stripe that is not `striped'.
Stripe(p, r, offset, length, striped) ==
  [peer |-> p, rh |-> r, offset |-> offset, length |-> length, striped |-> striped]

AllocSize(stripes) == FoldSeq(LAMBDA s, n : n + s.length, 0, stripes)

\* The stripes that hold cell `off' of a block.
Covering(stripes, off) ==
  SelectSeq(stripes, LAMBDA s : off > s.offset /\ off <= s.offset + s.length)

Init ==
  /\ setup \in Setups
  /\ cache_ = EmptyCache
  /\ remote_handles_ = [h \in {} |-> <<>>]
  /\ remote_mutex_ = NoThread
  /\ next_local_handle_ = 1
  /\ peer = [p \in Peers |-> [connected |-> TRUE, free_ram_bytes |-> Unknown,
                              next |-> 1, blocks |-> [r \in {} |-> <<>>]]]
  /\ frame = [t \in Threads |-> Idle]
  /\ faults = 0
  /\ hung = FALSE
  /\ terminated = FALSE
  /\ contents = [h \in {} |-> <<>>]

-------------------------------------------------------------------------------
(***************************************************************************)
(* A round trip to a peer.  memoryd executes the request in `Execute'; the *)
(* caller of sync_remote_call sees the answer, an empty buffer, or the     *)
(* exception of the ten-second timeout.                                    *)
(***************************************************************************)
Held(p) == LET B == peer[p].blocks IN FoldSet(LAMBDA r, n : n + Len(B[r]), 0, DOMAIN B)

\* What memoryd does with a request of this client's session and answers.
Execute(p, req) ==
  LET P == peer[p]
      known == req.rh \in DOMAIN P.blocks
  IN  CASE /\ req.op = "ALLOC"
           /\ Held(p) + req.size <= Capacity[p]
           /\ P.next <= MaxRemote ->
             [status |-> "OK", rh |-> P.next, data |-> <<>>,
              peer |-> [P EXCEPT !.next = @ + 1,
                                 !.blocks = (P.next :> Zeros(req.size)) @@ @]]
        [] req.op = "FREE" /\ known ->
             [status |-> "OK", rh |-> 0, data |-> <<>>,
              peer |-> [P EXCEPT !.blocks =
                          [r \in DOMAIN P.blocks \ {req.rh} |-> P.blocks[r]]]]
        [] req.op = "WRITE" /\ known /\ req.off + Len(req.data) <= Len(P.blocks[req.rh]) ->
             [status |-> "OK", rh |-> 0, data |-> <<>>,
              peer |-> [P EXCEPT !.blocks[req.rh] =
                          [i \in DOMAIN @ |-> IF i - req.off \in DOMAIN req.data
                                              THEN req.data[i - req.off] ELSE @[i]]]]
        [] req.op = "READ" /\ known /\ req.off + req.size <= Len(P.blocks[req.rh]) ->
             [status |-> "OK", rh |-> 0, peer |-> P,
              data |-> SubSeq(P.blocks[req.rh], req.off + 1, req.off + req.size)]
        [] OTHER -> [status |-> "ERROR", rh |-> 0, data |-> <<>>, peer |-> P]

\* Seeded fault: a memoryd that outlives the session hands out its handles again.
Dropped_Reused(P) == [P EXCEPT !.connected = FALSE, !.blocks = [r \in {} |-> <<>>],
                               !.next = 1]

\* A lost connection ends the session, and memoryd frees what it owned.
Dropped(P) == [P EXCEPT !.connected = FALSE, !.blocks = [r \in {} |-> <<>>],
                        !.next = IF Restarts THEN 1 ELSE @]

\* What sync_remote_call can do: the answer; an empty buffer because some
\* connection (not necessarily p's) was lost; a timeout, because the answer
\* is late or because the message to a peer that is not connected is dropped.
\* Requests reach a peer in order, so a late one counts as executed here.
Outcomes(p, req) ==
  LET up == peer[p].connected
      done == Execute(p, req)
      after == IF up THEN [peer EXCEPT ![p] = done.peer] ELSE peer
      Unanswered(res, peers, fault) ==
        [res |-> res, rh |-> 0, data |-> <<>>, peer |-> peers, fault |-> fault]
  IN  {[res |-> done.status, rh |-> done.rh, data |-> done.data, peer |-> after,
        fault |-> 0] : x \in {y \in {0} : up}}
      \cup {Unanswered("timeout", after, x) :
              x \in {y \in {0, 1} : IF up THEN y = 1 /\ faults < MaxFaults ELSE y = 0}}
      \cup {Unanswered("empty", [after EXCEPT ![q] = Dropped(@)], 1) :
              q \in {q \in Peers : faults < MaxFaults /\ peer[q].connected}}

Request(op, r, off, size, data) ==
  [op |-> op, rh |-> r, off |-> off, size |-> size, data |-> data]

At(t, label) == frame[t].pc = label
Goto(t, f) == frame' = [frame EXCEPT ![t] = f]

\* One sync_remote_call of thread t; After(o) is its frame for outcome o.
RoundTrip(t, p, req, After(_)) ==
  \E o \in Outcomes(p, req) :
    /\ peer' = o.peer
    /\ faults' = faults + o.fault
    /\ Goto(t, After(o))
    /\ UNCHANGED hung

\* The call of thread t returns (res "ok") or throws (res "error").
Returned(t, res, data) ==
  [Idle EXCEPT !.op = frame[t].op, !.h = frame[t].h, !.off = frame[t].off,
               !.v = frame[t].v, !.size = frame[t].size,
               !.pc = "returned", !.res = res, !.data = data]
Done(t) == Returned(t, "ok", <<>>)

\* An exception: evict_if_needed catches it if it has a block in hand.
Thrown(t) == IF frame[t].ev # NoBlock THEN [frame[t] EXCEPT !.pc = "rollback"]
             ELSE Returned(t, "error", <<>>)

\* The same for a stripe that is read or written: "Peer not connected" is thrown
\* at once for a single allocation, while stripes are not looked at.
StripeTrip(t, s, req, After(_)) ==
  IF s.striped \/ peer[s.peer].connected THEN RoundTrip(t, s.peer, req, After)
  ELSE Goto(t, Thrown(t)) /\ UNCHANGED netVars

Erased(h) == [g \in DOMAIN remote_handles_ \ {h} |-> remote_handles_[g]]

-------------------------------------------------------------------------------
(***************************************************************************)
(* The public methods, up to their first network call.                     *)
(***************************************************************************)
allocate(t, n) ==
  LET f == [Idle EXCEPT !.op = "allocate", !.h = next_local_handle_, !.size = n, !.need = n]
  IN  /\ next_local_handle_ \in Handles
      /\ next_local_handle_' = next_local_handle_ + 1
      /\ Goto(t, IF n > CacheMax THEN [f EXCEPT !.pc = "allocRemote"]
                 ELSE [f EXCEPT !.pc = "evictStart", !.ret = "allocPut"])
      /\ UNCHANGED cache_

\* The cached half of allocate, once evict_if_needed has made room.
AllocPut(t) ==
  /\ At(t, "allocPut")
  /\ cache_' = put(cache_, [handle |-> frame[t].h, data |-> Zeros(frame[t].size),
                            dirty |-> FALSE])
  /\ Goto(t, Done(t))

\* free: a block in the cache is removed from it and that is all.
free(t, h) ==
  /\ cache_' = remove(cache_, h)
  /\ Goto(t, [Idle EXCEPT !.op = "free", !.h = h, !.res = "ok",
                !.pc = IF Cached(cache_, h) THEN "returned" ELSE "freeRemote"])
  /\ UNCHANGED next_local_handle_

\* Otherwise remote_mutex_ is kept while the peers are told.
FreeRemote(t) ==
  LET h == frame[t].h
  IN  /\ At(t, "freeRemote")
      /\ UNCHANGED remote_handles_
      /\ IF h \in DOMAIN remote_handles_
         THEN /\ remote_mutex_' = t
              /\ Goto(t, [frame[t] EXCEPT !.pc = "freeing", !.todo = remote_handles_[h]])
         ELSE Goto(t, Done(t)) /\ UNCHANGED remote_mutex_

FreeDone(t) ==
  /\ At(t, "freeing") /\ frame[t].todo = <<>>
  /\ remote_handles_' = Erased(frame[t].h)
  /\ remote_mutex_' = NoThread
  /\ Goto(t, Done(t))

\* read and write begin alike.
access(t, op, h, off, v) ==
  /\ Goto(t, [Idle EXCEPT !.op = op, !.h = h, !.off = off, !.v = v, !.pc = "get"])
  /\ UNCHANGED <<cache_, next_local_handle_>>

\* cache_.get: a read returns the cell, a write changes its copy of the block.
Get(t) ==
  LET f == frame[t]
      block == BlockOf(cache_, f.h).data
  IN  /\ f.pc \in {"get", "getAgain"}
      /\ IF Cached(cache_, f.h)
         THEN /\ cache_' = get(cache_, f.h)
              /\ Goto(t, IF f.op = "read" THEN Returned(t, "ok", <<block[f.off]>>)
                         ELSE [f EXCEPT !.pc = "put", !.data = [block EXCEPT ![f.off] = f.v]])
         ELSE /\ Goto(t, IF f.pc = "get" THEN [f EXCEPT !.pc = "lookup"] ELSE Thrown(t))
              /\ UNCHANGED cache_

\* The other half of write: its copy replaces the block.
PutBack(t) ==
  /\ At(t, "put")
  /\ cache_' = put(cache_, [handle |-> frame[t].h, data |-> frame[t].data, dirty |-> TRUE])
  /\ Goto(t, Done(t))

\* The program takes note of the result.
Return(t) ==
  LET f == frame[t]
  IN  /\ At(t, "returned")
      /\ Goto(t, Idle)
      /\ contents' =
           CASE f.op = "allocate" /\ f.res = "ok" ->
                  (f.h :> [by |-> t, cells |-> [i \in 1 .. f.size |-> {Zero}]]) @@ contents
             [] f.op = "free" -> [h \in DOMAIN contents \ {f.h} |-> contents[h]]
             [] f.op = "write" ->
                  [contents EXCEPT ![f.h].cells[f.off] =
                     {f.v} \cup (IF f.res = "ok" THEN {} ELSE @)]
             [] OTHER -> contents
      /\ UNCHANGED <<cache_, remoteVars, netVars, setup, next_local_handle_, terminated>>

-------------------------------------------------------------------------------
(***************************************************************************)
(* read and write of a block too large for the cache go to its stripe.     *)
(***************************************************************************)
oversized_remote_alloc(h) ==
  h \in DOMAIN remote_handles_ /\ AllocSize(remote_handles_[h]) > CacheMax

Lookup(t) ==
  LET f == frame[t]
  IN  /\ At(t, "lookup")
      /\ Goto(t, IF oversized_remote_alloc(f.h)
                 THEN [f EXCEPT !.pc = "direct",
                                !.todo = Covering(remote_handles_[f.h], f.off)]
                 ELSE [f EXCEPT !.pc = "load"])
      /\ UNCHANGED remoteVars

\* Seeded fault: a failed read yields the zeros `result' was created with.
read_remote_Unchecked(o) == IF o.res = "OK" THEN o.data ELSE Zeros(1)

\* read_remote throws unless it got the data; <<>> stands for the exception.
read_remote(o) == IF o.res = "OK" THEN o.data ELSE <<>>

\* write_remote throws on a timeout only: it looks at no response.
write_remote(o) == o.res # "timeout"

Direct(t) ==
  LET f == frame[t]
      s == Head(f.todo)
      cell == f.off - s.offset - 1
      AfterRead(o) == IF read_remote(o) = <<>> THEN Thrown(t)
                      ELSE Returned(t, "ok", read_remote(o))
      AfterWrite(o) == IF write_remote(o) THEN Done(t) ELSE Thrown(t)
  IN  /\ At(t, "direct")
      /\ IF f.op = "read"
         THEN StripeTrip(t, s, Request("READ", s.rh, cell, 1, <<>>), AfterRead)
         ELSE StripeTrip(t, s, Request("WRITE", s.rh, cell, 1, <<f.v>>), AfterWrite)

-------------------------------------------------------------------------------
(***************************************************************************)
(* load_to_local: copy the allocation, make room, pull and release the     *)
(* stripes one by one, forget the allocation, cache the block.             *)
(***************************************************************************)
load_to_local(t) ==
  LET f == frame[t]
  IN  /\ At(t, "load")
      /\ Goto(t, IF f.h \in DOMAIN remote_handles_
                 THEN [f EXCEPT !.pc = "evictStart", !.ret = "loadRead",
                                !.src = remote_handles_[f.h],
                                !.need = AllocSize(remote_handles_[f.h])]
                 ELSE Thrown(t))
      /\ UNCHANGED remoteVars

LoadRead(t) ==
  LET f == frame[t]
      s == Head(f.src)
      After(o) == IF read_remote(o) = <<>> THEN Thrown(t)
                  ELSE [f EXCEPT !.data = @ \o read_remote(o), !.pc = "loadRelease"]
  IN  /\ At(t, "loadRead")
      /\ StripeTrip(t, s, Request("READ", s.rh, 0, s.length, <<>>), After)

LoadRelease(t) ==
  LET f == frame[t]
      s == Head(f.src)
      After(o) == IF o.res = "timeout" THEN Thrown(t)
                  ELSE [f EXCEPT !.src = Tail(@),
                          !.pc = IF Len(f.src) > 1 THEN "loadRead" ELSE "loadErase"]
  IN  /\ At(t, "loadRelease")
      /\ RoundTrip(t, s.peer, Request("FREE", s.rh, 0, 0, <<>>), After)

\* Seeded fault: the allocation stays on record after it was released.
LoadErase_Forgotten(t) ==
  /\ At(t, "loadErase")
  /\ Goto(t, [frame[t] EXCEPT !.pc = "loadPut"])
  /\ UNCHANGED remoteVars

LoadErase(t) ==
  /\ At(t, "loadErase")
  /\ remote_handles_' = Erased(frame[t].h)
  /\ Goto(t, [frame[t] EXCEPT !.pc = "loadPut"])
  /\ UNCHANGED remote_mutex_

LoadPut(t) ==
  /\ At(t, "loadPut")
  /\ cache_' = put(cache_, [handle |-> frame[t].h, data |-> frame[t].data, dirty |-> FALSE])
  /\ Goto(t, [frame[t] EXCEPT !.pc = "getAgain", !.data = <<>>])

-------------------------------------------------------------------------------
(***************************************************************************)
(* evict_if_needed, called by allocate, load_to_local and the monitor.     *)
(***************************************************************************)
EvictStart(t) ==
  /\ At(t, "evictStart")
  /\ \E p \in {FALSE, Pressure} : Goto(t, [frame[t] EXCEPT !.pc = "evict", !.pressure = p])
  /\ UNCHANGED cache_

\* evict_if_needed returns.
Resumed(t) ==
  IF frame[t].ret = "done" THEN Done(t)
  ELSE [frame[t] EXCEPT !.pc = frame[t].ret, !.need = 0, !.pressure = FALSE, !.ret = ""]

EvictCheck(t) ==
  /\ At(t, "evict")
  /\ Goto(t, IF needs_eviction(cache_, frame[t].need) \/ frame[t].pressure
             THEN [frame[t] EXCEPT !.pc = "evictOne"] ELSE Resumed(t))
  /\ UNCHANGED cache_

\* Seeded fault: an empty cache does not end the loop.
EvictOne_NoBreak(t) ==
  /\ At(t, "evictOne")
  /\ IF cache_.list_ = <<>>
     THEN Goto(t, [frame[t] EXCEPT !.pc = "evict"]) /\ UNCHANGED cache_
     ELSE /\ cache_' = evict_one(cache_)
          /\ Goto(t, [frame[t] EXCEPT !.pc = "allocRemote", !.ev = victim(cache_)])

EvictOne(t) ==
  /\ At(t, "evictOne")
  /\ IF cache_.list_ = <<>> THEN Goto(t, Resumed(t)) /\ UNCHANGED cache_
     ELSE /\ cache_' = evict_one(cache_)
          /\ Goto(t, [frame[t] EXCEPT !.pc = "allocRemote", !.ev = victim(cache_)])

\* The allocation that was stored is looked up again before the push.
PushLookup(t) ==
  LET f == frame[t]
  IN  /\ At(t, "pushLookup")
      /\ Goto(t, IF f.ev.handle \in DOMAIN remote_handles_
                 THEN [f EXCEPT !.pc = "push", !.todo = remote_handles_[f.ev.handle]]
                 ELSE Thrown(t))
      /\ UNCHANGED remoteVars

StripeData(f, s) == SubSeq(f.ev.data, s.offset + 1, s.offset + s.length)

Push(t) ==
  LET f == frame[t]
      s == Head(f.todo)
      After(o) == CASE ~ write_remote(o) -> Thrown(t)
                    [] write_remote(o) /\ Len(f.todo) > 1 -> [f EXCEPT !.todo = Tail(@)]
                    [] OTHER -> [f EXCEPT !.todo = <<>>, !.ev = NoBlock, !.pc = "evict"]
  IN  /\ At(t, "push")
      /\ StripeTrip(t, s, Request("WRITE", s.rh, 0, s.length, StripeData(f, s)), After)

\* The handler: take the reservation off the record, release it, ...
Rollback(t) ==
  LET h == frame[t].ev.handle
  IN  /\ At(t, "rollback")
      /\ remote_handles_' = Erased(h)
      /\ Goto(t, [frame[t] EXCEPT !.pc = "rollbackFree",
                    !.todo = IF h \in DOMAIN remote_handles_
                             THEN remote_handles_[h] ELSE <<>>])
      /\ UNCHANGED remote_mutex_

\* Seeded fault: the handler rethrows without restoring the block.
RollbackDone_NoRestore(t) ==
  /\ At(t, "rollbackFree") /\ frame[t].todo = <<>>
  /\ UNCHANGED cache_
  /\ Goto(t, Returned(t, "error", <<>>))
  /\ terminated' = (t = Monitor)

\* ... restore the block and rethrow.  Nothing catches it in the monitor's thread.
RollbackDone(t) ==
  /\ At(t, "rollbackFree") /\ frame[t].todo = <<>>
  /\ cache_' = put(cache_, frame[t].ev)
  /\ Goto(t, Returned(t, "error", <<>>))
  /\ terminated' = (t = Monitor)

-------------------------------------------------------------------------------
(***************************************************************************)
(* allocate_remote, for the block in hand or for the caller's own, and     *)
(* free_remote.                                                            *)
(***************************************************************************)
capacity_known(p) == peer[p].free_ram_bytes # Unknown

\* The order std::sort puts candidates in; unknown capacities last.
SortsBefore(p, q) ==
  IF capacity_known(p) # capacity_known(q) THEN capacity_known(p)
  ELSE capacity_known(p) /\ peer[p].free_ram_bytes > peer[q].free_ram_bytes

Candidates ==
  {c \in SetToSeqs({p \in Peers : peer[p].connected}) :
     \A i, j \in DOMAIN c : i < j => ~ SortsBefore(c[j], c[i])}

Target(f) == IF f.ev # NoBlock THEN f.ev.handle ELSE f.h
TargetSize(f) == IF f.ev # NoBlock THEN Len(f.ev.data) ELSE f.need

\* The peers to be tried are fixed.
Choose(t) ==
  \E c \in Candidates :
    Goto(t, [frame[t] EXCEPT !.pc = "allocSingle", !.all = c, !.cands = c])

allocate_remote(t) ==
  /\ At(t, "allocRemote")
  /\ IF \E p \in Peers : peer[p].connected
     THEN Choose(t) ELSE Goto(t, [frame[t] EXCEPT !.pc = "waitPeer"])
  /\ UNCHANGED netVars

\* wait_for_connected_peer: ends when a peer is connected or the deadline has
\* passed, but each round asks discoveryd, and send_request has no timeout.
wait_for_connected_peer(t) ==
  /\ At(t, "waitPeer")
  /\ ~ hung
  /\ Choose(t)
  /\ UNCHANGED netVars

may_fit(p, size) == ~ capacity_known(p) \/ peer[p].free_ram_bytes >= size

\* First try: the whole block on one peer.
AllocSingle(t) ==
  LET f == frame[t]
      p == Head(f.cands)
      size == TargetSize(f)
      After(o) == IF o.res = "OK"
                  THEN [f EXCEPT !.stripes = <<Stripe(p, o.rh, 0, size, FALSE)>>,
                                 !.cands = <<>>, !.pc = "allocStore"]
                  ELSE [f EXCEPT !.cands = Tail(@)]
  IN  /\ At(t, "allocSingle") /\ f.cands # <<>>
      /\ IF may_fit(p, size)
         THEN RoundTrip(t, p, Request("ALLOC", 0, 0, size, <<>>), After)
         ELSE Goto(t, [f EXCEPT !.cands = Tail(@)]) /\ UNCHANGED netVars

\* No single peer took it: stripe it, if there are two candidates.
AllocSingleFailed(t) ==
  LET f == frame[t]
  IN  /\ At(t, "allocSingle") /\ f.cands = <<>>
      /\ Goto(t, IF Len(f.all) > 1
                 THEN [f EXCEPT !.pc = "allocStripe", !.cands = f.all, !.rem = TargetSize(f)]
                 ELSE Thrown(t))
      /\ UNCHANGED netVars

current_offset(f) == TargetSize(f) - f.rem

chunk_size(f, p) == IF capacity_known(p) /\ peer[p].free_ram_bytes < f.rem
                    THEN peer[p].free_ram_bytes ELSE f.rem

AllocStripe(t) ==
  LET f == frame[t]
      p == Head(f.cands)
      chunk == chunk_size(f, p)
      After(o) ==
        IF o.res = "OK"
        THEN [f EXCEPT !.stripes = Append(@, Stripe(p, o.rh, current_offset(f), chunk, TRUE)),
                       !.rem = @ - chunk, !.cands = Tail(@)]
        ELSE [f EXCEPT !.cands = Tail(@)]
  IN  /\ At(t, "allocStripe") /\ f.cands # <<>> /\ f.rem > 0
      /\ IF chunk > 0 THEN RoundTrip(t, p, Request("ALLOC", 0, 0, chunk, <<>>), After)
         ELSE Goto(t, [f EXCEPT !.cands = Tail(@)]) /\ UNCHANGED netVars

\* Seeded fault: stripes that do not add up are stranded.
Striped_Stranding(t) ==
  IF frame[t].rem = 0 THEN [frame[t] EXCEPT !.pc = "allocStore", !.cands = <<>>]
  ELSE Thrown(t)

\* Complete stripes are an allocation, incomplete ones are released.
Striped(t) ==
  LET f == frame[t]
  IN  CASE f.rem = 0 -> [f EXCEPT !.pc = "allocStore", !.cands = <<>>]
        [] f.rem # 0 /\ f.stripes # <<>> ->
             [f EXCEPT !.pc = "partialFree", !.todo = f.stripes, !.stripes = <<>>]
        [] OTHER -> Thrown(t)

AllocStriped(t) ==
  /\ At(t, "allocStripe") /\ (frame[t].cands = <<>> \/ frame[t].rem = 0)
  /\ Goto(t, Striped(t))
  /\ UNCHANGED netVars

PartialFreed(t) ==
  /\ At(t, "partialFree") /\ frame[t].todo = <<>>
  /\ Goto(t, Thrown(t))
  /\ UNCHANGED netVars

AllocStore(t) ==
  LET f == frame[t]
  IN  /\ At(t, "allocStore")
      /\ remote_handles_' = (Target(f) :> f.stripes) @@ remote_handles_
      /\ Goto(t, IF f.ev # NoBlock
                 THEN [f EXCEPT !.pc = "pushLookup", !.stripes = <<>>, !.all = <<>>]
                 ELSE Done(t))
      /\ UNCHANGED remote_mutex_

Freed(f) == [f EXCEPT !.todo = Tail(@)]

\* One stripe of free_remote: skipped if its peer is away; no answer matters.
free_remote(t) ==
  LET f == frame[t]
      s == Head(f.todo)
      After(o) == Freed(f)
  IN  /\ f.pc \in {"freeing", "partialFree", "rollbackFree"} /\ f.todo # <<>>
      /\ IF peer[s.peer].connected
         THEN RoundTrip(t, s.peer, Request("FREE", s.rh, 0, 0, <<>>), After)
         ELSE Goto(t, Freed(f)) /\ UNCHANGED netVars

-------------------------------------------------------------------------------
(***************************************************************************)
(* The memory monitor, the connections and discoveryd.                     *)
(***************************************************************************)
\* The pressure callback evicts half of what is cached, but at least MinEvict
\* cells (one megabyte in the code).
MinEvict == 1

PressureCallback ==
  LET half == cache_.current_bytes_ \div 2
  IN  /\ Pressure
      /\ At(Monitor, "idle")
      /\ Goto(Monitor, [Idle EXCEPT !.op = "pressure", !.pc = "evictStart", !.ret = "done",
                          !.need = IF half > MinEvict THEN half ELSE MinEvict])
      /\ UNCHANGED <<cache_, remoteVars, netVars, programVars>>

\* A connection is lost while no request of this client is in flight.
PeerDrops(p) ==
  /\ peer[p].connected
  /\ faults < MaxFaults
  /\ peer' = [peer EXCEPT ![p] = Dropped(@)]
  /\ faults' = faults + 1
  /\ UNCHANGED hung

\* connect_to_peers queues the peers discoveryd names that are not connected.
Reconnect(p) ==
  /\ ~ hung
  /\ ~ peer[p].connected
  /\ peer' = [peer EXCEPT ![p].connected = TRUE]
  /\ UNCHANGED <<faults, hung>>

\* discoveryd reports what p had free when it last announced itself.
connect_to_peers(p) ==
  /\ setup.discovery /\ ~ hung
  /\ peer[p].free_ram_bytes # Capacity[p] - Held(p)
  /\ peer' = [peer EXCEPT ![p].free_ram_bytes = Capacity[p] - Held(p)]
  /\ UNCHANGED <<faults, hung>>

\* discoveryd keeps its connections open and answers no more.
DiscoverydHangs ==
  /\ setup.hangs /\ ~ hung
  /\ hung' = TRUE
  /\ UNCHANGED <<cache_, remoteVars, peer, faults, programVars, frame>>

-------------------------------------------------------------------------------
\* A thread of the program uses the handles it allocated.
AppCall(t) ==
  /\ At(t, "idle")
  /\ \/ \E n \in setup.sizes : allocate(t, n)
     \/ \E h \in DOMAIN contents :
          /\ contents[h].by = t
          /\ \/ free(t, h)
             \/ \E off \in DOMAIN contents[h].cells :
                  \/ access(t, "read", h, off, Zero)
                  \/ \E v \in Values : access(t, "write", h, off, <<h, v>>)
  /\ UNCHANGED <<remoteVars, netVars, setup, terminated, contents>>

\* A section under LRUCache's lock.
CacheStep(t) ==
  /\ \/ /\ AllocPut(t) \/ Get(t) \/ PutBack(t) \/ LoadPut(t)
           \/ EvictStart(t) \/ EvictCheck(t) \/ EvictOne(t)
        /\ UNCHANGED terminated
     \/ RollbackDone(t)
  /\ UNCHANGED <<remoteVars, netVars, setup, next_local_handle_, contents>>

\* A section under remote_mutex_; FreeDone is the end of one.
LockedStep(t) ==
  /\ \/ /\ remote_mutex_ = NoThread
        /\ FreeRemote(t) \/ Lookup(t) \/ load_to_local(t) \/ LoadErase(t)
           \/ PushLookup(t) \/ Rollback(t) \/ AllocStore(t)
     \/ FreeDone(t)
  /\ UNCHANGED <<cache_, netVars, programVars>>

\* A step of a thread that is talking to peers.
NetworkStep(t) ==
  /\ \/ Direct(t) \/ LoadRead(t) \/ LoadRelease(t) \/ Push(t) \/ allocate_remote(t)
     \/ wait_for_connected_peer(t) \/ AllocSingle(t) \/ AllocSingleFailed(t) \/ AllocStripe(t) \/ AllocStriped(t)
     \/ PartialFreed(t) \/ free_remote(t)
  /\ UNCHANGED <<cache_, remoteVars, programVars>>

ThreadStep(t) ==
  ~ terminated /\ (CacheStep(t) \/ LockedStep(t) \/ NetworkStep(t) \/ Return(t))

PeerStep(p) ==
  /\ PeerDrops(p) \/ Reconnect(p) \/ connect_to_peers(p)
  /\ UNCHANGED <<cache_, remoteVars, programVars, frame>>

Next ==
  \/ \E t \in Threads : ThreadStep(t)
  \/ ~ terminated /\ (PressureCallback \/ \E t \in Apps : AppCall(t))
  \/ ~ terminated /\ (DiscoverydHangs \/ \E p \in Peers : PeerStep(p))

Spec == Init /\ [][Next]_vars

FairSpec == Spec /\ \A t \in Threads : WF_vars(ThreadStep(t))

-------------------------------------------------------------------------------
(***************************************************************************)
(* Properties.                                                             *)
(***************************************************************************)
\* Types: handles are those handed out so far, a frame is a call of a thread.
TypeOK ==
  /\ cache_.current_bytes_ \in 0 .. CacheMax
  /\ \A i \in DOMAIN cache_.list_ : cache_.list_[i].handle \in Handles
  /\ DOMAIN remote_handles_ \subseteq 1 .. next_local_handle_ - 1
  /\ DOMAIN contents \subseteq 1 .. next_local_handle_ - 1
  /\ remote_mutex_ \in Threads \cup {NoThread}
  /\ next_local_handle_ \in 1 .. MaxHandles + 1
  /\ \A t \in Threads : frame[t].h \in 0 .. MaxHandles
  /\ faults \in 0 .. MaxFaults
  /\ hung \in BOOLEAN
  /\ terminated \in BOOLEAN

\* LRUCache keeps its books: a handle is cached once, current_bytes_ is the
\* sum of what is cached, and that never exceeds max_bytes_, whoever puts,
\* evicts and removes in whatever order.
CacheAccounted ==
  /\ cache_.current_bytes_ = SizeOf(cache_.list_)
  /\ cache_.current_bytes_ <= CacheMax
  /\ \A i, j \in DOMAIN cache_.list_ :
       cache_.list_[i].handle = cache_.list_[j].handle => i = j

\* A read that returns gives what the last write to the cell stored (either
\* value after a write that threw): through the cache, the peers, any number
\* of evictions and reloads, single or striped.  Not while the pressure callback
\* can run: a block it is pushing is for a moment neither cached nor whole.
ReadsSeeLastWrite ==
  ~ Pressure => \A t \in Apps :
    LET f == frame[t]
    IN  f.pc = "returned" /\ f.op = "read" /\ f.res = "ok"
          => f.data[1] \in contents[f.h].cells[f.off]

\* A read never returns what was written through another handle, even when
\* evictions, reloads and lost connections interleave: handles of a memoryd
\* that keeps running are never handed out twice.
NeverForeign ==
  \A t \in Apps :
    LET f == frame[t]
    IN  f.pc = "returned" /\ f.op = "read" /\ f.res = "ok"
          => f.data[1] = Zero \/ f.data[1][1] = f.h

Quiet == ~ terminated /\ \A t \in Threads : frame[t].pc = "idle"

\* What the stripes of an allocation hold on the peers; <<>> if some are gone.
StoredAt(stripes) ==
  IF \E i \in DOMAIN stripes : stripes[i].rh \notin DOMAIN peer[stripes[i].peer].blocks
  THEN <<>>
  ELSE FoldLeft(LAMBDA data, s : data \o peer[s.peer].blocks[s.rh], <<>>, stripes)

\* Where a block is found by read(): the cache first, then the peers.
Found(h) == CASE Cached(cache_, h) -> BlockOf(cache_, h).data
              [] ~ Cached(cache_, h) /\ h \in DOMAIN remote_handles_ ->
                   StoredAt(remote_handles_[h])
              [] OTHER -> <<>>

\* Between calls every live block is in the cache or whole on the peers, with
\* the bytes last written: eviction, reload, striping and the rollback of a
\* failed eviction move blocks without losing one.  A lost connection or a
\* timeout may lose a block: write_remote ignores the answer; so may the pressure
\* callback, when a call of the program overtakes its push.
NothingLost ==
  Quiet /\ ~ Pressure /\ faults = 0 => \A h \in DOMAIN contents :
             LET cells == contents[h].cells
             IN  /\ Len(Found(h)) = Len(cells)
                 /\ \A i \in DOMAIN cells : Found(h)[i] \in cells[i]

\* Between calls every block this client holds on a peer is on record for
\* exactly one handle: partial stripes, rollbacks, reloads and frees leave
\* nothing reserved that no one will release.  An ALLOC that is carried out
\* after its caller timed out may.
NothingStranded ==
  Quiet /\ ~ Pressure /\ faults = 0 => \A p \in Peers : \A r \in DOMAIN peer[p].blocks :
             Cardinality({h \in DOMAIN remote_handles_ :
               \E i \in DOMAIN remote_handles_[h] :
                  remote_handles_[h][i].peer = p /\ remote_handles_[h][i].rh = r}) = 1

\* free() frees a handle completely, local and remote: once it has returned
\* the handle is neither cached nor on record.  free() misses a block that the
\* pressure callback has in hand.
FreedIsGone ==
  Quiet /\ ~ Pressure => \A h \in 1 .. next_local_handle_ - 1 :
             h \notin DOMAIN contents =>
               ~ Cached(cache_, h) /\ h \notin DOMAIN remote_handles_

\* A block evict_if_needed lets go of is on the peer: a push that is taken for
\* done has left the bytes there, else the exception handler restores them.
PushedBeforeForgotten ==
  [][\A t \in Threads :
       LET f == frame[t]
           s == Head(f.todo)
       IN  f.pc = "push" /\ frame'[t].pc \in {"push", "evict"} /\ frame'[t] # f
             => /\ s.rh \in DOMAIN peer'[s.peer].blocks
                /\ peer'[s.peer].blocks[s.rh] = StripeData(f, s)]_vars

\* Every call of the program returns or throws, whatever peers and the
\* pressure callback do: no lock is kept, no loop in eviction runs for ever.
\* One wait has no timeout: a call that finds no connected peer asks discoveryd,
\* and stays there if discoveryd does not answer.
CallsReturn ==
  \A t \in Apps : frame[t].pc # "idle" ~>
    \/ frame[t].pc = "idle" \/ terminated
    \/ hung /\ frame[t].pc = "waitPeer"
===============================================================================
