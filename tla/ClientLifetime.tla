--------------------------- MODULE ClientLifetime ---------------------------
(***************************************************************************)
(* The construction and destruction of a MemoryClient (client_api.cpp),    *)
(* with the threads that live beside it: the libuv loop, the discovery     *)
(* thread, which calls discoveryd over LocalIpc, and the thread or queue   *)
(* of the memory monitor, which calls evict_if_needed().                   *)
(***************************************************************************)
EXTENDS LocalIpc

CONSTANT Me     \* the client of LocalIpc that is this MemoryClient

ASSUME MeAssumption == Me \in Clients

VARIABLES
    life,       \* where the thread is that constructs and destroys the client
    discovery,  \* discovery_thread_
    network,    \* network_thread_, in uv_run()
    async,      \* stop_async_, wakeup_async_ and connect_async_
    stopSent,   \* uv_async_send(&stop_async_) has been called
    pending,    \* pending_connects_ is not empty
    monitor     \* the memory monitor

lifeVars == <<life, discovery, network, async, stopSent, pending, monitor>>
lifetimeVars == <<ipcVars, lifeVars>>

LifetimeTypes ==
    /\ LocalIpcTypeOK
    /\ life \in {"none", "query", "start", "use", "join discovery", "join network",
                  "drain", "members", "join monitor", "gone"}
    /\ discovery \in {"none", "check", "query", "post", "sleep", "done"}
    /\ network \in {"none", "run", "done"}
    /\ async \in {"none", "open", "closing", "closed"}
    /\ stopSent \in BOOLEAN /\ pending \in BOOLEAN
    /\ monitor \in {"none", "wait", "sample", "callback", "done"}

LifetimeInit ==
    /\ IpcInit
    /\ life = "none" /\ discovery = "none" /\ network = "none" /\ monitor = "none"
    /\ async = "none" /\ stopSent = FALSE /\ pending = FALSE

Runs == Me \in alive

-----------------------------------------------------------------------------
(* The constructor: the monitor and its callback, the loop and its handles,*)
(* a first query of discoveryd on the caller's thread, then the threads.   *)
Construct ==
    /\ Runs /\ life = "none"
    /\ life' = "query"
    /\ monitor' = "wait"
    /\ async' = "open"
    /\ UNCHANGED <<ipcVars, discovery, network, stopSent, pending>>

(* query_discovery(): the call over LocalIpc, made by the constructor or   *)
(* by the discovery thread.  Peers that are new are queued (pending).      *)
Querying == life = "query" \/ discovery = "query"

Answered(new) ==
    /\ pending' = (pending \/ new)
    /\ life' = IF life = "query" THEN "start" ELSE life
    /\ discovery' = IF discovery # "query" THEN discovery
                    ELSE IF new THEN "post" ELSE "sleep"

query_discovery ==
    /\ Querying
    /\ \/ /\ connect(Me) \/ write(Me)
          /\ UNCHANGED lifeVars
       \/ /\ refused(Me) \/ write_fails(Me)
          /\ Answered(FALSE)
          /\ UNCHANGED <<network, async, stopSent, monitor>>
       \/ /\ receive(Me)
          /\ \E new \in {FALSE, request[Me].at = "answered"} : Answered(new)
          /\ UNCHANGED <<network, async, stopSent, monitor>>

(* drain_pending_connects() on the caller's thread, then both threads.     *)
StartThreads ==
    /\ Runs /\ life = "start"
    /\ life' = "use"
    /\ pending' = FALSE
    /\ network' = "run" /\ discovery' = "check"
    /\ UNCHANGED <<ipcVars, async, stopSent, monitor>>

-----------------------------------------------------------------------------
(* discovery_loop(): while (discovery_running_) connect_to_peers(), sleep. *)
discovery_running_ == life = "use"

DiscoveryCheck ==
    /\ Runs /\ discovery \in {"check", "sleep"}
    /\ discovery' = IF ~ discovery_running_ THEN "done"
                    ELSE IF discovery = "check" THEN "query" ELSE "check"
    /\ UNCHANGED <<ipcVars, life, network, async, stopSent, pending, monitor>>

(* connect_to_peers() ends with uv_async_send(&connect_async_).            *)
Post ==
    /\ Runs /\ discovery = "post"
    /\ discovery' = "sleep"
    /\ UNCHANGED <<ipcVars, life, network, async, stopSent, pending, monitor>>

(* The loop: connect_async_ opens the sockets of queued peers ...          *)
DrainConnects ==
    /\ Runs /\ network = "run" /\ pending
    /\ pending' = FALSE
    /\ UNCHANGED <<ipcVars, life, discovery, network, async, stopSent, monitor>>

(* Seeded fault: the stop callback only stops the loop.                    *)
StopCallback_KeepsHandles ==
    /\ Runs /\ network = "run" /\ stopSent
    /\ network' = "done"
    /\ UNCHANGED <<ipcVars, life, discovery, async, stopSent, pending, monitor>>

(* ... and stop_async_ closes every handle and stops the loop.             *)
StopCallback ==
    /\ Runs /\ network = "run" /\ stopSent
    /\ async' = "closing"
    /\ network' = "done"
    /\ UNCHANGED <<ipcVars, life, discovery, stopSent, pending, monitor>>

-----------------------------------------------------------------------------
(* The destructor, one wait after the other.                               *)
Owner(from, to) == Runs /\ life = from /\ life' = to

Destroy ==
    /\ Owner("use", "join discovery")
    /\ UNCHANGED <<ipcVars, discovery, network, async, stopSent, pending, monitor>>

(* Seeded fault: the loop is stopped before discovery has been joined.     *)
JoinDiscovery_Late ==
    /\ Owner("join discovery", "join network")
    /\ stopSent' = TRUE
    /\ UNCHANGED <<ipcVars, discovery, network, async, pending, monitor>>

JoinDiscovery ==
    /\ Owner("join discovery", "join network")
    /\ discovery = "done"
    /\ stopSent' = TRUE
    /\ UNCHANGED <<ipcVars, discovery, network, async, pending, monitor>>

JoinNetwork ==
    /\ Owner("join network", "drain")
    /\ network = "done"
    /\ UNCHANGED <<ipcVars, discovery, network, async, stopSent, pending, monitor>>

(* uv_run() returns once no handle is open; then uv_loop_close().          *)
Drain ==
    /\ Owner("drain", "members")
    /\ async = "closing"
    /\ async' = "closed"
    /\ UNCHANGED <<ipcVars, discovery, network, stopSent, pending, monitor>>

(* The members are destroyed in the reverse of their order in client_api.h:*)
(* peers_, remote_handles_ and the mutexes first, memory_monitor_ later.   *)
DestroyMembers ==
    /\ Owner("members", "join monitor")
    /\ UNCHANGED <<ipcVars, discovery, network, async, stopSent, pending, monitor>>

(* ~MemoryMonitor joins its thread; on macOS it cancels the source and does*)
(* not wait for a handler that runs.  Then cache_ and the rest go.         *)
JoinMonitor ==
    /\ Owner("join monitor", "gone")
    /\ Platform # "macos" => monitor = "done"
    /\ UNCHANGED <<ipcVars, discovery, network, async, stopSent, pending, monitor>>

-----------------------------------------------------------------------------
(* The monitor.  Linux waits on cv_ with the lock held, so it sees         *)
(* running_ when it wakes; Windows sleeps, and reads running_ only before  *)
(* the sleep; on macOS the system calls the handler until the source is    *)
(* cancelled.                                                              *)
running_monitor == life \notin {"join monitor", "gone"}

MonitorWake ==
    /\ Runs /\ monitor = "wait"
    /\ \/ /\ Platform = "linux"
          /\ monitor' = IF running_monitor THEN "sample" ELSE "done"
       \/ /\ Platform = "windows"
          /\ monitor' = "sample"
       \/ /\ Platform = "macos"
          /\ running_monitor
          /\ monitor' = "callback"
    /\ UNCHANGED <<ipcVars, life, discovery, network, async, stopSent, pending>>

(* Memory is short and the callback is called, or it is not.               *)
Sample ==
    /\ Runs /\ monitor = "sample"
    /\ \/ monitor' = "callback"
       \/ monitor' = IF running_monitor THEN "wait" ELSE "done"
    /\ UNCHANGED <<ipcVars, life, discovery, network, async, stopSent, pending>>

CallbackReturns ==
    /\ Runs /\ monitor = "callback"
    /\ monitor' = IF running_monitor THEN "wait" ELSE "done"
    /\ UNCHANGED <<ipcVars, life, discovery, network, async, stopSent, pending>>

-----------------------------------------------------------------------------
OwnerStep ==
    \/ life = "query" /\ query_discovery
    \/ StartThreads \/ JoinDiscovery \/ JoinNetwork \/ Drain \/ DestroyMembers \/ JoinMonitor

DiscoveryStep ==
    \/ discovery = "query" /\ query_discovery
    \/ DiscoveryCheck \/ Post

NetworkStep == DrainConnects \/ StopCallback

MonitorStep == MonitorWake \/ Sample \/ CallbackReturns

Others ==
    /\ \/ ServerNext
       \/ \E c \in Clients \ {Me} : connect(c) \/ InCall(c)
       \/ \E c \in Clients : Die(c)
    /\ UNCHANGED lifeVars

LifetimeNext ==
    \/ Construct \/ Destroy
    \/ OwnerStep \/ DiscoveryStep \/ NetworkStep \/ MonitorStep
    \/ Others

LifetimeSpec == LifetimeInit /\ [][LifetimeNext]_lifetimeVars

(* The program's threads are scheduled.  The waits of the callback end: a  *)
(* call of a peer has a timeout, and a query of discoveryd made by         *)
(* evict_if_needed() ends like every request here (RequestReturns).        *)
(* Nothing obliges a program to construct or destroy a client, or a daemon *)
(* to stop or to crash.                                                    *)
LifetimeFairSpec ==
    /\ LifetimeSpec
    /\ IpcFairness
    /\ WF_lifetimeVars(OwnerStep) /\ WF_lifetimeVars(DiscoveryStep)
    /\ WF_lifetimeVars(NetworkStep) /\ WF_lifetimeVars(StopCallback) /\ WF_lifetimeVars(MonitorStep)

-----------------------------------------------------------------------------
(* "Discovery must stop before the loop does: it posts to connect_async_,  *)
(* and the stop callback is about to close that handle" (~MemoryClient):   *)
(* whenever the discovery thread is about to post, the handle is open.     *)
PostsToOpenHandle == discovery = "post" => async = "open"

(* ~MemoryClient returns: each join and the drain of the loop end, although*)
(* the discovery thread may be inside a request without a timeout.         *)
DestructorEnds ==
    (~ setup.osFails /\ life = "join discovery") ~> (life = "gone" \/ ~ Runs)

(* The pressure callback runs only while the members it uses exist: peers_,*)
(* remote_handles_ and the mutexes are destroyed before ~MemoryMonitor     *)
(* joins the thread that calls it.                                         *)
CallbackUsesLiveMembers ==
    Runs /\ monitor = "callback" => life \notin {"members", "join monitor", "gone"}
=============================================================================
