------------------------------- MODULE LanGpu -------------------------------
(***************************************************************************)
(* windows-lan-sharing, the CUDA half: the proxy DLL that sends CUDA calls *)
(* over one TCP connection (client/cuda_proxy.cpp, DevicePointerTracker)   *)
(* and the server that executes them (server/gpu_server.cu).  A reply      *)
(* carries a sequence id which the proxy does not look at: g_socket_mutex  *)
(* alone pairs commands and replies.                                       *)
(***************************************************************************)
EXTENDS Naturals, Sequences, FiniteSets, Functions

CONSTANTS
    Threads,    \* threads of the program that calls CUDA
    DevicePtrs, \* addresses cudaMalloc() of the server can return
    MaxPtrs,    \* bound on the pointers the proxy hands out
    MaxLost,    \* bound on connections to the GPU server that break
    NoThread    \* holds no mutex

ASSUME NoThreadAssumption == NoThread \notin Threads

VARIABLES
    d2h,                \* what the device does with a device-to-host copy
    g_initialized,
    g_gpu_socket,       \* "invalid", "open", or "broken"
    g_socket_mutex,     \* its holder
    map_,               \* synthetic pointer -> remote pointer
    next_synthetic_,
    held,               \* pointers the program got and has not passed to cudaFree
    kept,               \* pointers whose cudaFree failed: the program still has them
    reused,             \* history: such a pointer was passed to a call again
    call,               \* position of each thread
    commands, replies,  \* the two directions of the connection
    device,             \* addresses allocated on the device
    lost

gpuVars == <<d2h, g_initialized, g_gpu_socket, g_socket_mutex, map_, next_synthetic_,
             held, kept, reused, call, commands, replies, device, lost>>

Ops == {"malloc", "free", "h2d", "d2h", "sync"}
NoCall == [at |-> "run", op |-> "sync", ptr |-> 0, remote |-> 0]

GpuTypeOK ==
    /\ g_initialized \in BOOLEAN
    /\ g_gpu_socket \in {"invalid", "open", "broken"}
    /\ g_socket_mutex \in Threads \cup {NoThread}
    /\ next_synthetic_ \in 1..(MaxPtrs + 1)
    /\ DOMAIN map_ \subseteq 1..MaxPtrs
    /\ held \subseteq 1..MaxPtrs /\ kept \subseteq 1..MaxPtrs /\ reused \in BOOLEAN
    /\ call \in [Threads ->
         [at : {"run", "init", "connect", "cmd", "reply", "track", "copy"},
          op : Ops, ptr : 0..MaxPtrs, remote : {0} \cup DevicePtrs]]
    /\ device \subseteq DevicePtrs
    /\ lost \in 0..MaxLost

GpuInit(copies) ==
    /\ d2h = copies
    /\ g_initialized = FALSE
    /\ g_gpu_socket = "invalid"
    /\ g_socket_mutex = NoThread
    /\ map_ = <<>>
    /\ next_synthetic_ = 1
    /\ held = {} /\ kept = {} /\ reused = FALSE
    /\ call = [t \in Threads |-> NoCall]
    /\ commands = <<>> /\ replies = <<>>
    /\ device = {}
    /\ lost = 0

At(t, a) == call' = [call EXCEPT ![t].at = a]
Return(t) == call' = [call EXCEPT ![t] = NoCall]

\* The call returns 1: a pointer that was to be freed stays with the program, and
\* in the tracker.
Fails(t) ==
    /\ Return(t)
    /\ kept' = IF call[t].op = "free" THEN kept \cup {call[t].ptr} ELSE kept
    /\ UNCHANGED reused
socketVars == <<g_initialized, g_gpu_socket, g_socket_mutex>>
trackerVars == <<map_, next_synthetic_>>
doubtVars == <<kept, reused>>
wires == <<commands, replies>>

-----------------------------------------------------------------------------
(* A call begins.  cudaMalloc and cudaMemcpy initialise the proxy first;   *)
(* the others fail unless that has been done.  A program frees and copies  *)
(* with pointers it has; get_remote() looks them up.                       *)
Begin(t, op, ptr) ==
    /\ call[t].at = "run"
    /\ g_initialized \/ op \in {"malloc", "h2d", "d2h"}
    /\ op = "malloc" => next_synthetic_ + Cardinality({u \in Threads : call[u].op = "malloc"}) <= MaxPtrs
    /\ call' = [call EXCEPT ![t] =
                  [at |-> IF g_initialized THEN "cmd" ELSE "init", op |-> op, ptr |-> ptr,
                   remote |-> IF ptr = 0 THEN 0 ELSE map_[ptr]]]

cudaMalloc(t) ==
    /\ Begin(t, "malloc", 0)
    /\ UNCHANGED <<d2h, socketVars, trackerVars, held, doubtVars, wires, device, lost>>

cudaFree(t) ==
    /\ \E x \in held \cup kept :
         /\ Begin(t, "free", x)
         /\ held' = held \ {x}
         /\ kept' = kept \ {x}
         /\ reused' = (reused \/ x \in kept)
    /\ UNCHANGED <<d2h, socketVars, trackerVars, wires, device, lost>>

cudaMemcpy(t) ==
    /\ \E x \in held \cup kept, op \in {"h2d", "d2h"} :
         /\ Begin(t, op, x)
         /\ reused' = (reused \/ x \in kept)
    /\ UNCHANGED <<d2h, socketVars, trackerVars, held, kept, wires, device, lost>>

cudaDeviceSynchronize(t) ==
    /\ Begin(t, "sync", 0)
    /\ UNCHANGED <<d2h, socketVars, trackerVars, held, doubtVars, wires, device, lost>>

(* InitializeProxy(): the first caller sets g_initialized, then connects;  *)
(* others go on at once.  A connect that fails is not tried again.         *)
InitializeProxy(t) ==
    /\ \/ /\ call[t].at = "init"
          /\ g_initialized' = TRUE
          /\ At(t, IF g_initialized THEN "cmd" ELSE "connect")
          /\ UNCHANGED <<g_gpu_socket, wires>>
       \/ /\ call[t].at = "connect"
          /\ g_gpu_socket' = "open"
          /\ commands' = <<>> /\ replies' = <<>>
          /\ At(t, "cmd")
          /\ UNCHANGED g_initialized
       \/ /\ call[t].at = "connect"
          /\ g_gpu_socket' = "invalid"
          /\ Return(t)
          /\ UNCHANGED <<g_initialized, wires>>
    /\ UNCHANGED <<d2h, g_socket_mutex, trackerVars, held, doubtVars, device, lost>>

(* send_gpu_cmd(): the command goes out under the mutex, ...               *)
Command(t) == [op |-> call[t].op, ptr |-> call[t].remote]

(* Seeded fault: the mutex is held for the command only.                   *)
send_gpu_cmd_Unlocks(t) ==
    /\ call[t].at = "cmd" /\ g_socket_mutex = NoThread
    /\ IF g_gpu_socket = "open"
       THEN /\ commands' = Append(commands, Command(t))
            /\ At(t, "reply")
            /\ UNCHANGED doubtVars
       ELSE Fails(t) /\ UNCHANGED commands
    /\ UNCHANGED <<d2h, socketVars, trackerVars, held, replies, device, lost>>

send_gpu_cmd(t) ==
    /\ call[t].at = "cmd" /\ g_socket_mutex = NoThread
    /\ IF g_gpu_socket = "open"
       THEN /\ commands' = Append(commands, Command(t))
            /\ g_socket_mutex' = t
            /\ At(t, "reply")
            /\ UNCHANGED doubtVars
       ELSE Fails(t) /\ UNCHANGED <<commands, g_socket_mutex>>
    /\ UNCHANGED <<d2h, g_initialized, g_gpu_socket, trackerVars, held, replies, device, lost>>

(* ... and the next reply is taken, whatever it answers: an error or a lost*)
(* connection fails the call; cudaMalloc takes the pointer from the reply, *)
(* or from its own stack (0 here) when the reply has no payload.           *)
recv_gpu_reply(t) ==
    /\ call[t].at = "reply"
    /\ g_socket_mutex' = NoThread
    /\ \/ /\ replies # <<>>
          /\ replies' = Tail(replies)
          /\ LET r == Head(replies) IN
             IF r.error
             THEN Fails(t)
             ELSE /\ CASE call[t].op = "malloc" ->
                            call' = [call EXCEPT ![t].at = "track", ![t].remote = r.ptr]
                       [] call[t].op = "free" -> At(t, "track")
                       [] call[t].op = "d2h" -> At(t, "copy")
                       [] OTHER -> Return(t)
                  /\ UNCHANGED doubtVars
       \/ /\ replies = <<>> /\ g_gpu_socket # "open"
          /\ Fails(t)
          /\ UNCHANGED replies
    /\ UNCHANGED <<d2h, g_initialized, g_gpu_socket, trackerVars, held, commands, device, lost>>

(* DevicePointerTracker::allocate() and free(), after the reply.           *)
Track(t) ==
    /\ call[t].at = "track"
    /\ IF call[t].op = "malloc"
       THEN /\ map_' = [x \in DOMAIN map_ \cup {next_synthetic_} |->
                          IF x = next_synthetic_ THEN call[t].remote ELSE map_[x]]
            /\ next_synthetic_' = next_synthetic_ + 1
            /\ held' = held \cup {next_synthetic_}
       ELSE /\ map_' = Restrict(map_, DOMAIN map_ \ {call[t].ptr})
            /\ UNCHANGED <<next_synthetic_, held>>
    /\ Return(t)
    /\ UNCHANGED <<d2h, socketVars, doubtVars, wires, device, lost>>

(* After a device-to-host copy: recv_exact(count) without the mutex, though*)
(* the server sends nothing after the header.  It takes the next bytes on  *)
(* the connection, whosever reply they are (here, the whole of it).        *)
CopyBack(t) ==
    /\ call[t].at = "copy"
    /\ \/ replies # <<>> /\ replies' = Tail(replies)
       \/ replies = <<>> /\ g_gpu_socket # "open" /\ UNCHANGED replies
    /\ Return(t)
    /\ UNCHANGED <<d2h, socketVars, trackerVars, held, doubtVars, commands, device, lost>>

(* ShutdownProxy(), as DllMain, its only caller in the repository, calls it*)
(* at DLL_PROCESS_DETACH: no call into the DLL is in progress then.  The   *)
(* tracker keeps its pointers.                                             *)
ShutdownProxy ==
    /\ g_initialized /\ \A t \in Threads : call[t].at = "run"
    /\ g_initialized' = FALSE
    /\ g_gpu_socket' = "invalid"
    /\ UNCHANGED <<d2h, g_socket_mutex, trackerVars, held, doubtVars, call, wires, device, lost>>

GpuBreak ==
    /\ g_gpu_socket = "open" /\ lost < MaxLost
    /\ lost' = lost + 1
    /\ g_gpu_socket' = "broken"
    /\ commands' = <<>> /\ replies' = <<>>
    /\ UNCHANGED <<d2h, g_initialized, g_socket_mutex, trackerVars, held, doubtVars, call, device>>

-----------------------------------------------------------------------------
(* The server's thread.  It executes a command and replies.  Memory is not *)
(* freed when a connection ends.  A copy from the host is made with the    *)
(* client's address, in the server's process, and may fail; one to the host*)
(* has source and destination exchanged by the proxy.                      *)
Reply(error, ptr) == replies' = Append(replies, [error |-> error, ptr |-> ptr])

ExecuteGpu ==
    /\ commands # <<>>
    /\ commands' = Tail(commands)
    /\ LET c == Head(commands) IN
       \/ /\ c.op = "malloc"
          /\ \E a \in DevicePtrs \ device :
               device' = device \cup {a} /\ Reply(FALSE, a)
       \/ /\ c.op = "malloc" /\ device = DevicePtrs
          /\ Reply(TRUE, 0) /\ UNCHANGED device
       \/ /\ c.op = "free"
          /\ device' = device \ {c.ptr}
          /\ Reply(c.ptr \notin device, 0)
       \/ /\ c.op = "h2d"
          /\ \E error \in BOOLEAN : Reply(error, 0)
          /\ UNCHANGED device
       \/ /\ c.op = "d2h"
          /\ Reply(d2h = "error", 0)
          /\ UNCHANGED device
       \/ /\ c.op = "sync"
          /\ Reply(FALSE, 0)
          /\ UNCHANGED device
    /\ UNCHANGED <<d2h, socketVars, trackerVars, held, doubtVars, call, lost>>

-----------------------------------------------------------------------------
ProxyStep(t) ==
    \/ InitializeProxy(t) \/ send_gpu_cmd(t) \/ recv_gpu_reply(t)
    \/ Track(t) \/ CopyBack(t)

GpuNext ==
    \/ \E t \in Threads :
         \/ cudaMalloc(t) \/ cudaFree(t) \/ cudaMemcpy(t) \/ cudaDeviceSynchronize(t)
         \/ ProxyStep(t)
    \/ ShutdownProxy \/ ExecuteGpu \/ GpuBreak

-----------------------------------------------------------------------------
(* Every pointer the program has not passed to cudaFree names device memory*)
(* that is allocated, and no other such pointer names the same: replies    *)
(* reach the call they answer, a pointer freed by one thread and given to  *)
(* another is not confused, a free whose reply was lost harms no other     *)
(* pointer, and what the tracker holds survives a new connection.  Stated  *)
(* for devices that refuse the device-to-host copies of the proxy, and for *)
(* programs that leave a pointer alone once cudaFree has returned 1 for it:*)
(* its memory may be gone, and somebody else's by now.                     *)
HeldIsBacked ==
    d2h = "error" /\ ~ reused =>
        \A x \in held :
            /\ map_[x] \in device
            /\ \A y \in held \ {x} : map_[x] # map_[y]

(* Why: the invariant of the proxy.  The thread with the mutex is the one  *)
(* that waits for a reply, and nothing but its command or the reply to it  *)
(* is on the wire; a connection is made when nobody waits.                 *)
Waits == \A t \in Threads : g_socket_mutex = t <=> call[t].at = "reply"

Connects ==
    /\ ~ g_initialized =>
         /\ g_gpu_socket = "invalid"
         /\ \A t \in Threads : call[t].at \in {"run", "init"}
    /\ \A t \in Threads : call[t].at = "connect" =>
         /\ g_gpu_socket = "invalid" /\ g_socket_mutex = NoThread
         /\ \A u \in Threads \ {t} : call[u].at # "connect"

Paired ==
    /\ g_socket_mutex = NoThread \/ g_gpu_socket # "open" => commands = <<>> /\ replies = <<>>
    /\ \A t \in Threads : call[t].at = "reply" =>
         \/ commands = <<>> /\ replies = <<>>
         \/ commands = <<Command(t)>> /\ replies = <<>>
         \/ /\ commands = <<>>
            /\ \E r \in [error : BOOLEAN, ptr : {0} \cup DevicePtrs] :
                 /\ replies = <<r>>
                 /\ call[t].op = "d2h" => r.error
    /\ \A t \in Threads : call[t].at # "copy"

(* Device memory that thread t answers for: what its cudaMalloc has been   *)
(* given and has not tracked yet, what its cudaFree has yet to release.    *)
Claims(t) ==
    IF call[t].op = "malloc"
    THEN IF call[t].at = "track" THEN {call[t].remote}
         ELSE IF call[t].at = "reply" /\ replies # <<>> /\ ~ Head(replies).error
         THEN {Head(replies).ptr} ELSE {}
    ELSE IF /\ call[t].op = "free"
            /\ call[t].at \in {"init", "connect", "cmd"} \/ (call[t].at = "reply" /\ commands # <<>>)
    THEN {call[t].remote} ELSE {}

(* Everything a thread answers for or the program holds is allocated, and  *)
(* is answered for once.                                                   *)
Claimed ==
    /\ \A t \in Threads : Claims(t) \subseteq device
    /\ \A t \in Threads : \A u \in Threads \ {t} : Claims(t) \cap Claims(u) = {}
    /\ \A x \in held : /\ map_[x] \in device
                       /\ \A y \in held \ {x} : map_[x] # map_[y]
                       /\ \A t \in Threads : map_[x] \notin Claims(t)

Tracked ==
    /\ next_synthetic_ \in Nat \ {0}
    /\ map_ \in [DOMAIN map_ -> {0} \cup DevicePtrs]
    /\ DOMAIN map_ \subseteq 1..(next_synthetic_ - 1)
    /\ held \subseteq DOMAIN map_
    /\ \A t \in Threads : call[t].op = "free" =>
         call[t].ptr \in 1..(next_synthetic_ - 1) /\ call[t].ptr \notin held
    /\ \A t \in Threads : call[t].at = "track" => call[t].op \in {"malloc", "free"}

ProxyTypes ==
    /\ call \in [Threads ->
         [at : {"run", "init", "connect", "cmd", "reply", "track", "copy"},
          op : Ops, ptr : Nat, remote : {0} \cup DevicePtrs]]
    /\ g_socket_mutex \in Threads \cup {NoThread}
    /\ g_initialized \in BOOLEAN
    /\ device \subseteq DevicePtrs

ProxyInv ==
    d2h = "error" /\ ~ reused => ProxyTypes /\ Waits /\ Connects /\ Paired /\ Tracked /\ Claimed

(* A call of the proxy returns.  Not so on a device that carries out a     *)
(* device-to-host copy: the proxy waits for bytes that the server does not *)
(* send, or takes those of another thread's reply.                         *)
GpuCallsReturn == \A t \in Threads : (call[t].at # "run") ~> (call[t].at = "run")
=============================================================================
