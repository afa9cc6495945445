# A TLA+ verification of Ram_VRam_Sharing

The program lets a machine use the RAM and the GPU of others on its LAN. This
directory holds TLA+ models of its components, the TLC instances that check them
and TLAPS proofs about nine of them. `PROJECT.json` relates every definition to
the source lines it models and lists runs, seeded faults, hazards and theorems.

## 1. The system

| Part | Source | Module | State |
|---|---|---|---|
| memoryd: slab allocator, page tracker, protocol, sessions | `memoryd/` | `Memoryd`, abstract `MemoryPool` | modelled |
| Arena for malloc over the paged region | `memclient/src/heap_arena.cpp` | `HeapArena` | modelled |
| Write-back client and its LRU cache | `memclient/src/client_api.cpp`, `lru_cache.cpp` | `MemoryClient`, `LruCache` | partly |
| Connections, request ids, promises | `memclient/src/client_api.cpp` | `PeerConnection` | partly |
| Paged heap and the three page-fault backends | `memclient/src/remote_heap.cpp`, `platform/src/*/page_fault_*.cpp` | `RemoteHeap` | partly |
| discoveryd: announcements, peer table, pool probe, control socket | `discoveryd/` | `Discovery` | partly |
| gpud and GpuClient | `gpud/` | `Gpu` | partly |
| malloc interposer | `hook/meminfo_hook.cpp` | `Hook` | partly |
| Local IPC (control sockets and pipes) | `platform/src/*/local_ipc_*.cpp` | `LocalIpc` | modelled |
| Life of a MemoryClient: constructor, discovery thread, memory monitor, destructor | `memclient/src/client_api.cpp`, `platform/src/*/memory_monitor_*.cpp` | `ClientLifetime` | partly |
| windows-lan-sharing: paging over TCP, CUDA proxy | `windows-lan-sharing/` | `LanPaging`, `LanGpu`, composed in `LanSharing` | partly |
| HTTP status, common library, launcher, tools, dashboard | | none | not modelled |

discoveryd announces what memoryd's pool has free. MemoryClient reads the peer
list from its local discoveryd, keeps recently used blocks in LRUCache and pushes
others to memoryd. RemoteHeap turns page faults into MemoryClient reads and
writes, HeapArena divides that region into blocks, and the hook routes large
mallocs to the arena. gpud and GpuClient are a parallel path for GPU calls.
Clients and daemons of one machine talk over local IPC. windows-lan-sharing is a
prototype of both paths with code of its own.

`ClientLifetime` composes a MemoryClient's threads with `LocalIpc` and the daemon
behind it. The other modules meet at these interfaces and are not composed into
one specification. `MemoryClient` has its own short model of a peer's blocks,
`RemoteHeap` treats the client as one remote block that is read and written
over a connection that can be lost, and `Hook` treats the arena as an allocator that may refuse. `MemoryClient` uses
the operators of `LruCache`; `Memoryd` is shown to implement `MemoryPool`.

## 2. Modules

**Memoryd.** `free_list_`, `page_states_`, `buffer_` (SlabAllocator);
`allocations_`, `next_handle_` (PageTracker); `session`, `busy` (sockets). One
action per request of `process_request` and per libuv callback. memoryd runs one
loop: while `busy` names a session its read callback works through the received
requests, a step each, and no other callback runs. A second malformed frame of
one buffer closes a handle that is already closing, which libuv answers by ending
the process (`server = "gone"`). Sizes are bounded by `SizeMax` (SIZE_MAX), so
the rounding and the bound checks meet their wrap-around cases. **MemoryPool**
is what a client may rely on: private, zeroed blocks that vanish with the session.

**HeapArena.** `free_blocks_`, `live_blocks_`, `in_use_bytes_`; `allocate` and
`deallocate` are single steps under `mutex_`. Addresses wrap at `Word`.

**MemoryClient.** A frame per thread records the call and its position; every
network round trip, lock and cache operation is a step. The pressure callback is
a second thread. A round trip is answered, refused, lost or times out, and a
request that timed out may still be carried out. A message to a peer that is not
connected is dropped and times out, except where the code looks first (a block on
a single peer). Without a connected peer `allocate_remote` waits for one by asking
discoveryd, which may have stopped answering (`hung`).

**PeerConnection.** The same calls one level down: `pending_requests_`,
`outbound_queue_` (one queue in the code, always taken as a whole; here one per
peer, since only the order towards a peer matters), `pending_connects_`, `read_buffer`, `connected`, and the promise
of each request. Connections break between or inside responses.

**RemoteHeap.** Page protection and contents, the backend's page state,
`resident_order_`, `heap_mutex_`, and the peer's copy. A write to the peer is
answered, times out although it was carried out, or is lost with the connection;
`write_remote` returns normally in the first and the last case. With the connection
memoryd's session ends and the block is gone (`backed`): later writes are answered
with an error nobody looks at, later reads throw. A new connection may be spoiled by
bytes of a torn answer (`link`). Each system call of a
backend is a step of its own, because other threads run in between. `setup`, one
of `Setups`, selects Windows, macOS or Linux, the budget, and whether system
calls fail.

**Discovery.** One watcher and the nodes that announce to it, in seconds: each
timer fires once per second, in any order; announcements are lost, repeated or
reordered. A restart takes a new node id.

**Gpu.** Clients, their libuv threads, sessions and the stub executor. The
increment of `next_request_id_` is a load and a store, since nothing locks it.

**Hook.** Detours per C runtime, lazy construction, helper allocations made while
building and while serving a fault, runtimes hooked later, unload. The arena and
the runtimes may refuse.

**LocalIpc.** Servers on one name and clients that call it: the path or the pipe
instance, the listening object and its thread (`server`), the backlog (`queue`),
and the position of each client in `send_request`. Servers crash, leaving the
path behind; clients die at any point. Nothing in the program ignores SIGPIPE, so
on POSIX a write to a closed connection ends the writer's process (`reply`,
`write_fails`). The three implementations are told apart by `Platform`.

**ClientLifetime.** The owner's thread in the constructor and the destructor, the
discovery thread (whose queries are the calls of `LocalIpc`), the libuv loop and
its three async handles, and the monitor's thread. Each join of the destructor is
a step; members are destroyed in the reverse of their order in `client_api.h`.

**LanPaging.** Processes whose vectored handler commits a cluster and fetches it,
another thread of the process that commits differences or shuts the backend
down, and the server's threads, one per connection: a process may connect again
while the server still works on its former connection. A header and a payload are
separate pieces of a stream; a connection that is lost delivers some of them, and
either reports it or falls silent. `close_socket` locks a mutex its callers hold:
undefined for std::mutex, so `lan.relock` says whether the lock counts or waits.
When the server's vector of connections grows, the references given to earlier
threads dangle and the thread may read either the old bytes or a dead socket.

**LanGpu.** Threads behind the CUDA proxy, its mutex, connection and pointer
tracker, and the server's device memory. When the reply to a free is lost,
cudaFree returns 1 and the tracker keeps the pointer (`kept`); `reused` records that
a program used such a pointer again. The proxy exchanges source and
destination of a device-to-host copy; whether the device refuses that (`d2h =
"error"`) or carries it out (`"success"`) depends on the machine. In a run, a
behaviour of `LanSharing` exercises one of the two halves, which share no state.

Operators named `X_Something` with the comment "Seeded fault" are deliberate
errors. Each listed property is violated when one replaces `X`.

## 3. Runs

| Run | What it checks | Bounds |
|---|---|---|
| `memoryd` | Pages are free or in one allocation (`PoolPartition`), allocations have pages for their size (`FullyBacked`), owners are live sessions (`OwnedByLiveSession`), refinement (`RefinesMemoryPool`) | 3 pages of 2 cells, 2 sessions, 2 handles; sizes 0, 1, 3 and SizeMax |
| `heap_arena` | `Tiles`, `Coalesced`, `FailsOnlyWhenFull` | 8 bytes at base 7, alignments 1 to 16 |
| `client_sequential` | `ReadsSeeLastWrite` and `FreedIsGone` for a single thread; `NothingLost` and `NothingStranded` as long as no fault happened; `NeverForeign` with the pressure callback too | one fault; cache of 2; 2 peers of 1 cell and blocks of 1 and 2 cells (a block of 2 is pushed and reloaded striped), 2 peers and blocks of 3 cells (striped and used in place), or 1 peer and the callback; 2 handles |
| `client_live` | `CallsReturn` (unless discoveryd stops answering a call that waits for a peer) | 1 peer, 1 handle, blocks of 1 and 2 cells, cache of 1, one fault, pressure callback, a discoveryd that may hang |
| `client_push_lost` | `PushedBeforeForgotten` is violated | see section 6 |
| `peer_connection` | `SetOnce`, `ExecutedInOrder`, `AnswersAreReal`, `Reconnects` | 2 threads, 2 peers, 2 requests, 1 break |
| `heap` | `ReadsSeeLastStore`, `NotDirtyIsOnPeer`, `WithinBudget`, `FlushPushes`, `AccessEnds` (unless the connection is spoiled or the OS refuses to release a page); the second and the fourth while memoryd has the block; pages that Linux filled with zeroes are left out | 1 thread, 3 pages, 2 stores, 2 lost answers or connections; Windows with failing system calls and macOS with a budget of 2, Linux with one of 3 |
| `discovery` | `SilentExpire`, `LivingStay`, `LeaverOffersNothing`, `OfferIsThePool` | 1 announcing node, 2 starts, two pool figures, TTL 2, one loss in a row, repeats one second late, 2 changes |
| `gpu` | `ReadBack`, `PointersExclusive`, `NoLeakWhileOpen` | 2 clients, 2 buffers, 3 calls each |
| `hook` | `ContentsKept`, `FreedWhereIssued` | 2 threads, 2 runtimes, 2 blocks, 2 operations each; helpers below and above the threshold |
| `client_lifetime` | `StartedIsReachable`, `PostsToOpenHandle`; `StopEnds`, `RequestReturns`, `DestructorEnds` | 1 client and a competitor, 1 daemon that restarts; a crash and a death on Linux, a crash or a death on Windows, failing system calls on both, macOS |
| `lan_sharing` | `HeldIsBacked`, `DiffsAreKept` | 1 process with two threads and a break, or 2 processes; 2 connections, 2 clusters, 2 diffs, 2 pieces in a connection; 2 CUDA threads, 2 pointers, 1 break |

The bounds are the smallest at which each case occurs: a recycled page, an
allocation over two pages, an eviction caused by another block, a striped block, a page that must be
evicted for another, a copy followed by a read, a restart over the path of a
crashed daemon, a vector that grows, an address that is freed and given out
again. On Linux the budget of `heap` holds all pages, so the run says nothing of
eviction there; it has one program thread, since with two, properties fail
(section 6).

`memoryd` and `discovery` use a VIEW that leaves out a variable no guard reads
(the last reply, the capacity the client last read). Symmetry is used in `gpu` and
`hook` only, which check invariants. Deadlock checking is off where the
counters that bound an instance, or a program that makes no more calls, let it stop.

**Fairness.** `client_live`: a thread inside a call is scheduled; a call to a peer has a
timeout of ten seconds in the code, the wait for a peer a deadline. A request to discoveryd
has neither: `wait_for_connected_peer` is not enabled while discoveryd hangs, and
`CallsReturn` excepts that case. `peer_connection`: the libuv loop runs its callbacks, the
discovery thread keeps calling `connect_to_peers`, memoryd serves, and an attempt
to connect that is repeated for ever succeeds at some time (strong fairness; it
assumes a peer that is reachable). `heap`: threads and the fault
thread are scheduled, a faulting instruction is executed again, and the discovery
thread connects again to a peer that is reachable.
`client_lifetime`: every thread is scheduled, poll() times out, the loop delivers
stop_async_ once it is sent (weak fairness), and the pressure callback returns,
which assumes that it does not wait for a discoveryd that hangs (`client_live`).
`lan_sharing` checks invariants only. Nothing obliges a program to start a call, to construct or destroy
a client, or a daemon to stop, crash or start.

## 4. Proofs

Each theorem holds for every value of the constants that satisfies the named
assumption of its module: any number of threads, peers, pages, requests, faults.
The bounds of section 3 (`MaxRequests`, `MaxChanges`, ...) are constants here.

`Memoryd_proofs` (`MemorydAssumption`) shows that
`MemorydInv` is an invariant: `TypeOK`, `PoolPartition`, `FullyBacked`,
`OwnedByLiveSession` and `SessionsInOrder`. The conjuncts need each other: that
freed pages go back exactly once rests on the partition, and that the owner an
ALLOC records is a live session rests on `SessionsInOrder`: a read callback runs
for an accepted session only, and ids not yet given out have no session. The theorems `TypeCorrect`,
`PagesPartitioned`, `AllocationsBacked` and `NoOrphans` follow, and
`StatsAreAccurate`: the figures of GET_MEMORY_STATS agree with the allocations.
`ImplementsMemoryPool` is the refinement: `Blocks` reads each allocation's bytes
out of its pages, and every step of memoryd is a step of `MemoryPool` or leaves
the blocks alone. A write changes one block only because no page is held twice;
a new block is zero because `allocate_pages` clears what it hands out; a refusal
is honest because the bounds are tested without wrapping.

`HeapArena_proofs` (`ArenaAssumption`) shows that
`ArenaInv` (`TypeOK`, `Tiles`, `Coalesced`) is an invariant, hence `RegionTiled`
and `AlwaysCoalesced`. `insert_free` merges with at most one neighbour on each
side; that this suffices needs the free blocks to be coalesced before, and
disjoint, so the two are proved together. `NullMeansFull` uses all of it: a run of
free bytes lies inside a single free block, since blocks tile the region and no two
free ones touch, and the first aligned address in that block is not later than
the run's.

`Client_proofs` holds the proofs about `PeerConnection` and `ClientLifetime`, two
specifications of parts of a MemoryClient that share no state.
For the first (`PeerConnectionAssumption`) it shows `PromisesSetOnce` from
`Promised` (ids not yet given out have unset promises), `RequestsKeepOrder` from
`Lined`, and `AnswersBelong` from `Answering`. `Lined` says for each peer that
what it executed, what is on the connection and what is queued are each in
order, one before the other, and older than what a thread is about to queue;
order of the executed requests alone is not inductive. `Answering` says that every
fragment on the way back or in `read_buffer` belongs to a request that was
executed.

`Discovery_proofs` (`DiscoveryAssumption`) shows one inductive invariant per
property, each on top of `Typed`. `Timely`: ages are within the limits of the
last tick, plus the second that passes before the next (`SilentNodesExpire`).
`Beating`: the age of a running node's entry is at most the announcements lost in a
row, plus the one awaited, and ids of later starts are in no table and no message
(`LivingNodesStay`). `Leaving`: an offer still on the wire, or in the table, is
not younger than the second the node left (`LeaversOfferNothing`).
`Offering`: the probe, the tick and the announcer follow a memoryd that answers
within one, two and three seconds, each with its timer's delay
(`OffersAreThePool`).

`Gpu_proofs` (`GpuAssumption`) shows `TypeCorrect` for any threads, and
`ReadsBack`, `NeverShared` and `NothingLeaks` under
`OneThreadEach`: each thread has a GpuClient of its own. Without that hypothesis
`AnswerIsOwn` is false (section 6), because nothing locks `next_request_id_`. The
invariant has two halves. `Placed` says where a call is: not yet queued, queued,
sent, answered, resolved or lost, and in each place that nothing else of that
client is under way. `Device` says what that implies for gpud: a call that was
executed and not yet returned answers for memory (`Claim`), claims are
allocated, hold what was stored (`Served`) and are disjoint (`Exclusive`), and while nothing is
closed every allocation is in a claim or about to be freed (`Accounted`). The
properties themselves are not inductive: between execution and return a buffer is known only
to an answer on its way.

`LanGpu_proofs` (`NoThreadAssumption`) shows that `ProxyInv` is an invariant for every set of threads
and device addresses, hence `HeldStaysBacked`. That a
pointer is not given out twice is not inductive: between the server's reply and
the tracker an address is known only to a call. `Claims(t)` is the memory thread
t answers for in that time, and `Claimed` says that held pointers and claims are
allocated and disjoint. It is kept because a reply belongs to the thread that
takes it: the holder of the mutex is the one that waits (`Waits`) and nothing
but its command or the reply to it is on the wire (`Paired`), since a connection
is made only when nobody waits (`Connects`). A free whose reply is lost leaves a
pointer in the tracker that may name memory no more; it is not held, and the
invariant is kept as long as nobody uses it (`~ reused`). The theorem is about devices
that refuse the exchanged copy (`d2h = "error"`).

For `ClientLifetime`, `Client_proofs` (`MeAssumption`) shows `PostsWhileOpen` from `HandlesInOrder`, which ties
the state of the handles to the position of the destructor, and `StartedStaysReachable` from `OneServer`: one server at a time is not down, while
it binds the path is free, while it runs the path names it. The latter assumes
that no two servers of one name overlap; then it covers any number of servers,
clients, crashes and deaths. Without the assumption it is false (section 6).

`Hook_proofs` (`HookAssumption`) shows `TypesHold`, `FreesWhereIssued` and
`KeepsContents` from one inductive invariant, `IInv`, which TLC checked on the
`hook` run's instance first. None of the properties is inductive. That free reaches the
issuer needs `BlocksOK`: while the DLL is attached a block is its runtime's, or
the one arena's and its runtime is hooked; and that there is one arena needs
`CallerOK`, the protocol of `init_mutex`. That a realloc keeps the old bytes needs
`OldOK` and `ResOK`, which follow its two blocks through the fallbacks, and
`Exclusive`: no other call holds either of them in the steps between.

`RemoteHeap_proofs` (`RemoteHeapAssumption`) shows `SeesLastStore`,
`CleanIsOnPeer`, `KeepsBudget` and `FlushReachesPeer` under `Sequential`: one
program thread, on Windows or macOS. With two threads, or on Linux
when the fault thread evicts beside the program, `ReadsSeeLastStore` is false
(section 6). Pages, budget, stores,
lost answers and connections and failing system calls are arbitrary. The inductive invariant is
`IInv`, which TLC checked first (1,121,130 states: both backends, budgets of one and
two, three pages, failing system calls). In every state each page is `Kept`, that is,
its protection, its state, its contents and the peer's copy agree, except the one
page in hand (`Moving`), whose protection a system call has changed and whose state is
not recorded yet. For that page `FaultOK` says that until it is settled the peer
has the last store, and `FlushOK` that it is on the peer before it loses its dirty
state, its protection or its memory; so a failure at any of these steps loses
nothing. "On the peer" (`OnPeer`) is said for as long as memoryd has the block. Once the
connection is lost it never has it again, and a page that is not in local memory can
no longer be read: that is why `SeesLastStore` needs no such condition. The budget needs `Tracked` (what is mapped is in `resident_order_`) and
`LockOK` (the list fits the budget when `heap_mutex_` is released); the theorem
then compares the number of mapped pages with the length of the list. What
`flush()` promises needs `PushedOK`: a listed page is on the peer, still to be
visited, or being written.

Only model-checked: all properties of `MemoryClient` and `LanPaging`, those of
`RemoteHeap` on Linux, and all liveness. Liveness under fairness, ENABLED, and induction
over what a recursive definition computes are out of the prover's reach.

## 5. Assumptions of the models

TCP delivers in order until it breaks. The C++ memory model is sequentially
consistent except where a race is modelled as separate steps (`Gpu`). Message
contents are abstracted to what the properties tell apart; a checksum passes or
fails. System calls fail where `osFails` allows it. The backlog of a local socket
is not filled. An announcement is repeated at most one second late (`Discovery`).
Ages are whole seconds, as `duration_cast<seconds>` gives them.

ShutdownProxy runs when no CUDA call is in progress: DllMain, when the DLL is
unloaded, is its only caller in the repository. It is exported, and a program that calls it
beside other CUDA calls is not covered. memoryd is modelled with the requests its clients
build, plus frames that do not parse. gpud is modelled with the requests a GpuClient builds;
its paths for oversized, malformed and foreign-version frames end a session or answer with
an error and change no allocation. Programs that use gpud copy within and free
only buffers they were given and have not freed (`Sensible`): the stub checks neither whose
a pointer is nor how large, so `ReadBack` and `PointersExclusive` say nothing of other programs.
`HeldIsBacked` is about programs that leave a pointer alone once its cudaFree has failed.

## 6. Where code and documentation disagree

`client_push_lost` is a listed run: evict_if_needed promises to restore a block
whose push fails, and write_remote ignores the answer, so a push that failed
counts as done.

### Further instances

These instances were checked with TLC by hand. They are not listed in
`PROJECT.json` and have no `.cfg` here; the constants below, with those not named
as in the listed run of the module, give them again. For modules with `Setups` the
first words name the one record of that set; its faults are 0 and its flags FALSE
unless given.

| Module, property | Constants | TLC | Statement and behaviour |
|---|---|---|---|
| MemoryClient `ReadsSeeLastWrite` without `~ Pressure` | Setups: 2 peers, sizes {1}, pressure; mcRoomy, CacheMax 1, MaxHandles 1, MaxRemote 3, MaxFaults 0 | violated | `memclient/README.md:9`, evicted blocks are read back. allocate_remote publishes the handle before write_remote has sent the bytes |
| MemoryClient `FreedIsGone` without `~ Pressure` | as above | violated | `client_api.h:32`, "Free a handle completely". free() misses a block the pressure callback has in hand |
| MemoryClient `NothingStranded` without `faults = 0` | Setups: 2 peers, sizes {1}; mcRoomy, CacheMax 1, MaxRemote 3 | violated | `client_api.cpp:904`. An ALLOC answered after the timeout stays reserved |
| MemoryClient `ReadsSeeLastWrite` | Restarts = TRUE; Setups: 2 peers, sizes {2}; mcRoomy, CacheMax 1, MaxRemote 3 | violated | `DEMO_RUNBOOK.md:288`. After a restart an old remote handle names a newer block |
| MemoryClient `ReadsSeeLastWrite` | Setups: 2 peers, sizes {1, 2}; mcRoomy, CacheMax 1, MaxFaults 2 | holds | Two faults |
| MemoryClient `CallsReturn` without its last disjunct | as in `client_live` | violated | `client_api.cpp:222`, a wait with a deadline. Each round asks discoveryd, and that request has no timeout |
| PeerConnection `Reconnects` without `socket[p] = "closed"` | FairSpec, 1 peer, 1 caller | violated | `client_api.cpp:335`. Bytes of a torn response spoil the next connection, which stays marked connected |
| PeerConnection `OnlyLostAreFailed` | Torn = FALSE | violated | `client_api.cpp:1003`. Losing one peer fails the requests to all |
| RemoteHeap `NeverCrashes` | windows, budget 1; 2 threads, 1 page, no stores, no losses | violated | `remote_heap.h:42`, faults queue. The second handler finds the page resident and lets the fault through |
| RemoteHeap `ReadsSeeLastStore` | windows, budget 1; 2 threads, 2 pages, no losses | violated | As above. The page is accessible before its contents are copied in |
| RemoteHeap `ReadsSeeLastStore` | linux, budget 1; 2 pages, no losses | violated | `remote_heap.h:35`. A store between the copy for write-back and madvise is lost |
| RemoteHeap `NeverBlank` | linux, budget 1; 2 pages, no stores, 1 loss | violated | `remote_heap.cpp:126`. A page that cannot be fetched is zero-filled; it counts as dirty and can be written back over the good copy |
| RemoteHeap `FlushAlwaysPushes` | windows, budget 2; 2 pages, 1 store, 1 loss | violated | `remote_heap.h:73`, flush() "pushes every dirty page to the peer". write_remote takes the empty answer of a lost connection for success |
| RemoteHeap `NotDirtyIsOnPeer` without `backed` | windows, budget 2; 2 pages, 1 store, 1 loss | violated | As above: clear_dirty follows a write that never arrived |
| RemoteHeap `AccessEnds` without the last two disjuncts | windows, budget 1; 2 pages, 1 loss | violated | `remote_heap.cpp:196`. enforce_budget goes round pages that cannot be written back; on a spoiled connection it never stops |
| RemoteHeap `EvictAllPushes` | windows, budget 2; 2 pages, 1 store, 1 loss | violated | `remote_heap.h:76`. flush_and_evict_all returns normally after giving up |
| RemoteHeap `ReadsSeeLastStore`, `WithinBudget` | linux, budget 2; 2 threads, no stores, no losses | hold | Readers only |
| Discovery `SnapshotIsCurrent` | Ttl 1, MaxChanges 3 | violated | `CONTROL_API.md:51`. The entry of a former node id can set the capacity |
| Discovery `FirstCarriesPool` | Ttl 1, MaxBoots 1, MaxChanges 1, MaxLost 0 | violated | `discovery_daemon.cpp:132`. The first announcement carries 0 |
| Discovery `AvailableIsAnswering` | as above, MaxChanges 2 | violated | `pool_probe.h:37`. A memoryd that never answers blocks the probe |
| Gpu `CallReturns` | FairSpec, 1 thread, WaitForConnect FALSE, StopAllowed FALSE, MaxCalls 1 | violated | `gpud/README.md:14`. A call before the connect callback is dropped |
| Gpu `AnswerIsOwn` | 2 threads of one client, WaitForConnect TRUE, StopAllowed FALSE, MaxCalls 1 | violated | `gpud/README.md:14`, "thread-safe". Two threads can draw one request id |
| Gpu `CallReturns`, `StopEnds` | FairSpec, WaitForConnect TRUE, MaxCalls 1, 1 buffer | hold | |
| Hook `FreedWhereIssued` without `dll = "attached"` | 1 thread, 1 runtime, 1 block, Sizes {9} | violated | `meminfo_hook.cpp:240`. After the unload an arena block goes to the C runtime |
| Hook `CallReturns` | FairSpec, 1 runtime, Counts {1}, HelperSizes {2}, MayUnload FALSE | holds | |
| Hook `NeverReentered` | 1 thread, 1 runtime | violated | `meminfo_hook.cpp:125`, "the fault path cannot allocate out of the heap it is servicing". A buffer of the network thread can reach the threshold: libuv asks for 64 KiB, and eight configured pages may be less |
| Hook `NeverReentered` | HelperSizes {2} | holds | As long as helpers stay below the threshold; the heap's builder is kept out by g_depth whatever it allocates |
| LocalIpc `StartedIsReachable` | linux, overlap; Servers {d1, d2} | violated | `stop()` of one server removes the path of another, and a bind() between two unlinks fails |
| LocalIpc `RequestReturns` without `~ setup.osFails` | linux, osFails | violated | `local_ipc_linux.cpp:202`. accept() fails, the loop ends, the socket goes on listening |
| LocalIpc `ServerSurvives` | linux, 1 death | violated | A client dies before its answer is written; SIGPIPE ends the daemon |
| LocalIpc `ServerSurvives` | windows, 1 death | holds | |
| LocalIpc `StopEndsOnWindows` | windows | violated | `local_ipc_win.cpp:25`, the dummy connection breaks out of ConnectNamedPipe. It fails when the one instance is not listening at that moment |
| LocalIpc `AlwaysReachable` | windows | violated | While a client is served every other CreateFile fails |
| ClientLifetime `CallbackUsesLiveMembers` | linux | violated | `client_api.h:163`. Members declared after memory_monitor_ are destroyed before it is joined |
| LanPaging `FaultAlwaysEnds` | FairSpec, 1 cluster; relock waits, 1 process with two threads, 1 break | violated | The error path waits for a mutex its own thread holds |
| LanPaging `FaultAlwaysEnds` | FairSpec, 1 cluster; relock counts, 2 processes, no break | violated | `paging_server.cpp:142`. The vector grows, a server thread loses its client |
| LanPaging `FaultAlwaysEnds` | FairSpec, 1 cluster; relock counts, 1 process, 1 break | violated | `TcpPageFaultBackend.cpp:86`. On a connection that falls silent recv_exact waits for ever: no timeout, no keepalive |
| LanPaging `FaultAlwaysEnds` | FairSpec, 1 cluster; relock counts, 1 process with two threads, no break | holds | |
| LanPaging `LastDiffIsKept` | 1 cluster; relock counts, 1 process with two threads, 1 break | violated | The server still copies a diff of the former connection when the client has connected again and committed the next |
| LanPaging `CommittedIsFetched` | 1 cluster; relock counts, 1 process | violated | `client/RemoteHeap.cpp:64`. The cluster is accessible before it is fetched |
| LanGpu `GpuCallsReturn` | FairSpec, GpuSetups {"success"} | violated | `tests/win_integration_test.cpp:74`, a device-to-host copy returns the data. The proxy waits for bytes the server does not send |
| LanGpu `GpuCallsReturn` | FairSpec, GpuSetups {"error"} | holds | |
| LanGpu `HeldIsBacked` without `~ reused` | GpuSetups {"error"} | violated | `cuda_proxy.cpp:122`. A free whose reply was lost is carried out on the device; the tracker keeps the pointer, and another free of it takes the memory of a newer one |
| Memoryd `SessionMemoryReturns` | FairSpec, 2 pages, size 1, offset 0 | holds | |

The conditions named in this table (`~ Pressure`, `faults = 0`, `socket[p] =
"closed"`, `dll = "attached"`, `~ setup.osFails`, `backed`, `~ reused`, the last
disjuncts of `AccessEnds` and `CallsReturn`), the one connection of `DiffsAreKept` and
`d2h = "error"` are in the listed properties because the code does not keep the
promise without them.

## 7. Not modelled

- HTTP status server: read-only pages; no request changes protocol state.
- windows-lan-sharing: destruction of the heap, the GPU server's list of
  connections, calls of the proxy that do not use the connection.
- MemoryClient: the direct-peer mode without discoveryd, and two program threads
  that write one block.
- Composition of `Memoryd` with `PeerConnection`: the state space of both is out
  of TLC's reach in five minutes; `MemoryPool` is the interface between them.
- Proofs that are left: the invariants of `MemoryClient`, and those of `RemoteHeap`
  on Linux with a budget that holds all pages.
- Configuration, logging, identifiers, random numbers, generated schema code,
  launcher, probes, command line and dashboard hold no protocol state; the real
  CUDA executor forwards to the CUDA runtime; get_stats of the memory monitors
  only reads the operating system.
