---------------------------- MODULE LanGpu_proofs ----------------------------
(***************************************************************************)
(* For any number of threads, devices and pointers: every pointer the      *)
(* program holds names allocated device memory of its own (HeldIsBacked).  *)
(* The mutex makes commands and replies alternate (Waits, Connects,        *)
(* Paired), so every reply goes to the call it answers; then each device   *)
(* address has one owner at a time (Claimed): a reply, a thread, or a      *)
(* pointer in the tracker.                                                 *)
(***************************************************************************)
EXTENDS LanSharing, TLAPS

Inv == ProxyTypes /\ Waits /\ Connects /\ Paired /\ Tracked /\ Claimed

(* A call begins: nobody but its thread moves, and a free takes over the   *)
(* claim on a pointer the program held.                                    *)
LEMMA MallocBegins ==
    ASSUME Inv, d2h = "error", NEW t \in Threads,
           cudaMalloc(t) \/ cudaDeviceSynchronize(t)
    PROVE  Inv'
<1> USE DEF cudaMalloc, cudaDeviceSynchronize, Begin, Inv, socketVars, trackerVars, wires
<1>1. PICK op \in {"malloc", "sync"} : Begin(t, op, 0)
  BY Zenon
<1>2. call' = [call EXCEPT ![t] = [at |-> IF g_initialized THEN "cmd" ELSE "init",
                                   op |-> op, ptr |-> 0, remote |-> 0]]
  BY <1>1, Zenon
<1>3. UNCHANGED <<socketVars, trackerVars, held, wires, device>>
  BY Zenon
<1>4. ProxyTypes'
  BY <1>2, <1>3, Zenon DEF ProxyTypes, Ops
<1>5. Waits'
  BY <1>1, <1>2, <1>3 DEF ProxyTypes, Waits
<1>6. Connects'
  BY <1>1, <1>2, <1>3 DEF ProxyTypes, Connects
<1>7. Paired'
  BY <1>1, <1>2, <1>3 DEF ProxyTypes, Paired, Command
<1>8. Tracked'
  BY <1>1, <1>2, <1>3 DEF ProxyTypes, Tracked
<1>9. \A u \in Threads : Claims(u)' \subseteq Claims(u)
  BY <1>1, <1>2, <1>3 DEF ProxyTypes, Claims
<1>10. Claimed'
  BY <1>3, <1>9, Zenon DEF Claimed
<1> QED BY <1>4, <1>5, <1>6, <1>7, <1>8, <1>10, Zenon

LEMMA MemcpyBegins ==
    ASSUME Inv, d2h = "error", ~ reused', NEW t \in Threads, cudaMemcpy(t)
    PROVE  Inv'
<1> USE DEF Inv, socketVars, trackerVars, wires
<1>1. PICK x \in held, op \in {"h2d", "d2h"} : Begin(t, op, x)
  <2>1. PICK x \in held \cup kept, op \in {"h2d", "d2h"} :
          Begin(t, op, x) /\ reused' = (reused \/ x \in kept)
    BY Zenon DEF cudaMemcpy
  <2>2. x \in held
    BY <2>1, Zenon
  <2> QED BY <2>1, <2>2, Zenon
<1>2. x \in Nat \ {0} /\ map_[x] \in {0} \cup DevicePtrs
  BY DEF Tracked
<1>3. /\ call[t].at = "run"
      /\ call' = [call EXCEPT ![t] = [at |-> IF g_initialized THEN "cmd" ELSE "init",
                                      op |-> op, ptr |-> x, remote |-> map_[x]]]
  BY <1>1, <1>2, Zenon DEF Begin
<1>4. UNCHANGED <<socketVars, trackerVars, held, wires, device>>
  BY Zenon DEF cudaMemcpy
<1>5. ProxyTypes'
  BY <1>2, <1>3, <1>4, Zenon DEF ProxyTypes, Ops
<1>6. Waits'
  BY <1>3, <1>4, Zenon DEF ProxyTypes, Waits
<1>7. Connects'
  BY <1>3, <1>4 DEF ProxyTypes, Connects
<1>8. Paired'
  BY <1>3, <1>4, Zenon DEF ProxyTypes, Paired, Command
<1>9. Tracked'
  BY <1>3, <1>4, Zenon DEF ProxyTypes, Tracked
<1>10. \A u \in Threads : Claims(u)' \subseteq Claims(u)
  BY <1>3, <1>4 DEF ProxyTypes, Claims
<1>11. Claimed'
  BY <1>4, <1>10, Zenon DEF Claimed
<1> QED BY <1>5, <1>6, <1>7, <1>8, <1>9, <1>11, Zenon

LEMMA FreeBegins ==
    ASSUME Inv, d2h = "error", ~ reused', NEW t \in Threads, cudaFree(t)
    PROVE  Inv'
<1> USE DEF Inv, socketVars, trackerVars, wires
<1>1. PICK x \in held : Begin(t, "free", x) /\ held' = held \ {x}
  <2>1. PICK x \in held \cup kept :
          /\ Begin(t, "free", x) /\ held' = held \ {x}
          /\ reused' = (reused \/ x \in kept)
    BY Zenon DEF cudaFree
  <2>2. x \in held
    BY <2>1, Zenon
  <2> QED BY <2>1, <2>2, Zenon
<1>2. x \in Nat \ {0} /\ map_[x] \in {0} \cup DevicePtrs /\ x \in 1..(next_synthetic_ - 1)
  BY DEF Tracked
<1>3. /\ call[t].at = "run" /\ g_initialized
      /\ call' = [call EXCEPT ![t] = [at |-> "cmd", op |-> "free", ptr |-> x,
                                      remote |-> map_[x]]]
  BY <1>1, <1>2, Zenon DEF Begin
<1>4. UNCHANGED <<socketVars, trackerVars, wires, device>>
  BY Zenon DEF cudaFree
<1>5. ProxyTypes'
  BY <1>2, <1>3, <1>4, Zenon DEF ProxyTypes, Ops
<1>6. Waits'
  BY <1>3, <1>4, Zenon DEF ProxyTypes, Waits
<1>7. Connects'
  BY <1>3, <1>4, Zenon DEF ProxyTypes, Connects
<1>8. Paired'
  BY <1>3, <1>4, Zenon DEF ProxyTypes, Paired, Command
<1>9. Tracked'
  BY <1>1, <1>2, <1>3, <1>4, Zenon DEF ProxyTypes, Tracked
<1>10. Claims(t)' = {map_[x]}
  BY <1>3, <1>4, Zenon DEF ProxyTypes, Claims
<1>11. \A u \in Threads \ {t} : Claims(u)' = Claims(u)
  BY <1>3, <1>4, Zenon DEF ProxyTypes, Claims
<1>12. Claimed'
  BY <1>1, <1>4, <1>10, <1>11 DEF Claimed
<1> QED BY <1>5, <1>6, <1>7, <1>8, <1>9, <1>12, Zenon

(* Connecting empties the wire, which is empty: nobody waits for a reply.  *)
LEMMA Initializes ==
    ASSUME Inv, d2h = "error", NEW t \in Threads, InitializeProxy(t)
    PROVE  Inv'
<1> USE DEF Inv, trackerVars, wires
<1>1. UNCHANGED <<g_socket_mutex, trackerVars, held, device>>
  BY Zenon DEF InitializeProxy
<1>2. call[t].at \in {"init", "connect"}
  BY Zenon DEF InitializeProxy
<1>3. /\ commands' = commands /\ replies' = replies
      /\ g_gpu_socket' = g_gpu_socket \/ (commands = <<>> /\ replies = <<>>)
  BY Zenon DEF InitializeProxy, Connects, Paired
<1>4. PICK a \in {"cmd", "connect", "run"} :
         \/ call' = [call EXCEPT ![t].at = a] /\ a # "run"
         \/ call' = [call EXCEPT ![t] = NoCall] /\ a = "run"
  BY Zenon DEF InitializeProxy, At, Return
<1>5. ProxyTypes'
  <2>1. g_initialized' \in BOOLEAN
    BY Zenon DEF ProxyTypes, InitializeProxy
  <2> QED BY <1>1, <1>4, <2>1 DEF ProxyTypes, Ops, NoCall
<1>6. Waits'
  BY <1>1, <1>2, <1>4 DEF ProxyTypes, Waits, NoCall
<1>7. Connects'
  <2>1. CASE call[t].at = "init" /\ g_initialized
    BY <1>1, <2>1 DEF ProxyTypes, Connects, InitializeProxy, At
  <2>2. CASE call[t].at = "init" /\ ~ g_initialized
    <3>1. g_socket_mutex = NoThread
      BY <2>2, Zenon DEF ProxyTypes, Waits, Connects
    <3> QED
      BY <1>1, <2>2, <3>1 DEF ProxyTypes, Connects, InitializeProxy, At
  <2>3. CASE call[t].at = "connect"
    BY <1>1, <2>3, Zenon DEF ProxyTypes, Connects, InitializeProxy, At, Return, NoCall
  <2> QED BY <1>2, <2>1, <2>2, <2>3, Zenon
<1>8. Paired'
  <2>1. g_socket_mutex = NoThread \/ g_gpu_socket' # "open" => commands = <<>> /\ replies = <<>>
    BY <1>3, Zenon DEF Paired
  <2>2. \A u \in Threads : call'[u].at \in {"reply", "copy"} => call'[u] = call[u]
    BY <1>2, <1>4 DEF ProxyTypes, NoCall
  <2> QED BY <1>1, <1>3, <2>1, <2>2, Zenon DEF Paired, Command
<1>9. Tracked'
  BY <1>1, <1>4 DEF ProxyTypes, Tracked, NoCall
<1>10. \A u \in Threads : Claims(u)' \subseteq Claims(u)
  BY <1>1, <1>2, <1>3, <1>4 DEF ProxyTypes, Claims, NoCall
<1>11. Claimed'
  BY <1>1, <1>10, Zenon DEF Claimed
<1> QED BY <1>5, <1>6, <1>7, <1>8, <1>9, <1>11, Zenon

(* The command is sent on an empty wire, under the mutex.                  *)
LEMMA Sends ==
    ASSUME Inv, d2h = "error", NEW t \in Threads, send_gpu_cmd(t)
    PROVE  Inv'
<1> USE DEF Inv, trackerVars
<1>1. /\ call[t].at = "cmd" /\ g_socket_mutex = NoThread
      /\ commands = <<>> /\ replies = <<>>
      /\ \A u \in Threads : call[u].at # "reply"
  BY NoThreadAssumption, Zenon DEF send_gpu_cmd, Paired, Waits
<1>2. UNCHANGED <<g_initialized, g_gpu_socket, trackerVars, held, replies, device>>
  BY Zenon DEF send_gpu_cmd
<1>3. CASE g_gpu_socket = "open"
  <2>1. /\ commands' = <<Command(t)>>
        /\ g_socket_mutex' = t
        /\ call' = [call EXCEPT ![t].at = "reply"]
    BY <1>1, <1>3 DEF send_gpu_cmd, At
  <2>2. ProxyTypes'
    BY <1>2, <2>1, Zenon DEF ProxyTypes
  <2>3. Waits'
    BY <1>1, <2>1, Zenon DEF ProxyTypes, Waits
  <2>4. Connects'
    BY <1>1, <1>2, <1>3, <2>1, Zenon DEF ProxyTypes, Connects
  <2>5. Paired'
    BY <1>1, <1>2, <1>3, <2>1, NoThreadAssumption, Zenon DEF ProxyTypes, Paired, Command
  <2>6. Tracked'
    BY <1>2, <2>1 DEF ProxyTypes, Tracked
  <2>7. \A u \in Threads : Claims(u)' \subseteq Claims(u)
    BY <1>1, <1>2, <2>1 DEF ProxyTypes, Claims
  <2>8. Claimed'
    BY <1>2, <2>7, Zenon DEF Claimed
  <2> QED BY <2>2, <2>3, <2>4, <2>5, <2>6, <2>8, Zenon
<1>4. CASE g_gpu_socket # "open"
  <2>1. /\ UNCHANGED <<commands, g_socket_mutex>>
        /\ call' = [call EXCEPT ![t] = NoCall]
    BY <1>4, Zenon DEF send_gpu_cmd, Fails, Return
  <2>2. ProxyTypes'
    BY <1>2, <2>1, Zenon DEF ProxyTypes, NoCall, Ops
  <2>3. Waits'
    BY <1>1, <2>1, Zenon DEF ProxyTypes, Waits, NoCall
  <2>4. Connects'
    BY <1>1, <1>2, <2>1, Zenon DEF ProxyTypes, Connects, NoCall
  <2>5. Paired'
    BY <1>1, <1>2, <2>1, Zenon DEF ProxyTypes, Paired, Command, NoCall
  <2>6. Tracked'
    BY <1>2, <2>1, Zenon DEF ProxyTypes, Tracked, NoCall
  <2>7. \A u \in Threads : Claims(u)' \subseteq Claims(u)
    BY <1>1, <1>2, <2>1, Zenon DEF ProxyTypes, Claims, NoCall
  <2>8. Claimed'
    BY <1>2, <2>7, Zenon DEF Claimed
  <2> QED BY <2>2, <2>3, <2>4, <2>5, <2>6, <2>8, Zenon
<1> QED BY <1>3, <1>4, Zenon

(* The reply on the wire is the one to this thread's command.              *)
LEMMA Receives ==
    ASSUME Inv, d2h = "error", NEW t \in Threads, recv_gpu_reply(t)
    PROVE  Inv'
<1> USE DEF Inv, trackerVars
<1>1. /\ call[t].at = "reply" /\ g_socket_mutex = t /\ g_socket_mutex' = NoThread
      /\ \A u \in Threads \ {t} : call[u].at # "reply"
      /\ \A u \in Threads : call[u].at # "connect"
  BY NoThreadAssumption, Zenon DEF recv_gpu_reply, Waits, Connects
<1>2. UNCHANGED <<g_initialized, g_gpu_socket, trackerVars, held, commands, device>>
  BY Zenon DEF recv_gpu_reply
<1>3. CASE replies # <<>>
  <2>1. PICK r \in [error : BOOLEAN, ptr : {0} \cup DevicePtrs] :
          /\ replies = <<r>> /\ commands = <<>>
          /\ call[t].op = "d2h" => r.error
    BY <1>1, <1>3, Zenon DEF Paired
  <2>2. Head(replies) = r /\ replies' = <<>>
    BY <1>3, <2>1 DEF recv_gpu_reply
  <2>3. PICK c \in [at : {"run", "track"}, op : Ops, ptr : Nat, remote : {0} \cup DevicePtrs] :
          /\ call' = [call EXCEPT ![t] = c]
          /\ \/ c = NoCall
             \/ c = [call[t] EXCEPT !.at = "track"] /\ call[t].op = "free"
             \/ /\ c = [call[t] EXCEPT !.at = "track", !.remote = r.ptr]
                /\ call[t].op = "malloc" /\ ~ r.error
    <3>1. CASE r.error \/ call[t].op \in {"h2d", "d2h", "sync"}
      <4>1. call' = [call EXCEPT ![t] = NoCall]
        BY <1>3, <2>1, <2>2, <3>1, Zenon DEF recv_gpu_reply, Fails, Return
      <4> QED BY <4>1, Zenon DEF NoCall, Ops
    <3>2. CASE ~ r.error /\ call[t].op = "free"
      <4>1. call' = [call EXCEPT ![t] = [call[t] EXCEPT !.at = "track"]]
        BY <1>3, <2>1, <2>2, <3>2, Zenon DEF recv_gpu_reply, At, ProxyTypes
      <4> QED BY <3>2, <4>1, Zenon DEF ProxyTypes
    <3>3. CASE ~ r.error /\ call[t].op = "malloc"
      <4>1. call' = [call EXCEPT ![t] = [call[t] EXCEPT !.at = "track", !.remote = r.ptr]]
        BY <1>3, <2>1, <2>2, <3>3, Zenon DEF recv_gpu_reply, ProxyTypes
      <4> QED BY <3>3, <4>1, Zenon DEF ProxyTypes
    <3> QED BY <3>1, <3>2, <3>3, Zenon DEF ProxyTypes, Ops
  <2>4. ProxyTypes'
    BY <1>1, <1>2, <2>3, Zenon DEF ProxyTypes
  <2>5. Waits'
    BY <1>1, <2>3, NoThreadAssumption, Zenon DEF ProxyTypes, Waits
  <2>6. Connects'
    BY <1>1, <1>2, <2>3 DEF ProxyTypes, Connects
  <2>7. Paired'
    BY <1>1, <1>2, <2>1, <2>2, <2>3, Zenon DEF ProxyTypes, Paired, Command
  <2>8. Tracked'
    <3>1. /\ c.op = "free" => c.ptr = call[t].ptr /\ call[t].op = "free"
          /\ c.at = "track" => c.op \in {"malloc", "free"}
      <4>1. call[t] \in [at : {"run", "init", "connect", "cmd", "reply", "track", "copy"},
                         op : Ops, ptr : Nat, remote : {0} \cup DevicePtrs]
        BY Zenon DEF ProxyTypes
      <4>2. CASE c = NoCall
        BY <4>2, Zenon DEF NoCall
      <4>3. CASE c = [call[t] EXCEPT !.at = "track"] /\ call[t].op = "free"
        BY <4>1, <4>3, Zenon
      <4>4. CASE c = [call[t] EXCEPT !.at = "track", !.remote = r.ptr] /\ call[t].op = "malloc"
        BY <4>1, <4>4, Zenon
      <4> QED BY <2>3, <4>2, <4>3, <4>4, Zenon
    <3>2. \A u \in Threads : call'[u] = IF u = t THEN c ELSE call[u]
      BY <2>3, Zenon DEF ProxyTypes
    <3> QED BY <1>2, <3>1, <3>2 DEF Tracked
  <2>9. \A u \in Threads : Claims(u)' \subseteq Claims(u)
    <3>1. Claims(t)' \subseteq Claims(t)
      <4>1. call'[t] = c
        BY <2>3, Zenon DEF ProxyTypes
      <4>2. CASE c = NoCall
        BY <4>1, <4>2 DEF Claims, NoCall
      <4>3. CASE c = [call[t] EXCEPT !.at = "track"] /\ call[t].op = "free"
        <5>1. c.op = "free" /\ c.at = "track"
          BY <4>3, Zenon DEF ProxyTypes
        <5> QED BY <4>1, <5>1, Zenon DEF Claims
      <4>4. CASE /\ c = [call[t] EXCEPT !.at = "track", !.remote = r.ptr]
                 /\ call[t].op = "malloc" /\ ~ r.error
        <5>1. c.op = "malloc" /\ c.at = "track" /\ c.remote = r.ptr
          BY <4>4, Zenon DEF ProxyTypes
        <5>2. Claims(t) = {r.ptr}
          BY <1>1, <1>3, <2>2, <4>4, Zenon DEF Claims
        <5> QED BY <4>1, <5>1, <5>2, Zenon DEF Claims
      <4> QED BY <2>3, <4>2, <4>3, <4>4, Zenon
    <3>2. \A u \in Threads \ {t} : Claims(u)' \subseteq Claims(u)
      BY <1>1, <1>2, <2>3 DEF ProxyTypes, Claims
    <3> QED BY <3>1, <3>2, Zenon
  <2>10. Claimed'
    BY <1>2, <2>9, Zenon DEF Claimed
  <2> QED BY <2>4, <2>5, <2>6, <2>7, <2>8, <2>10, Zenon
<1>4. CASE replies = <<>>
  <2>1. replies' = replies /\ call' = [call EXCEPT ![t] = NoCall] /\ g_gpu_socket # "open"
    BY <1>4, Zenon DEF recv_gpu_reply, Fails, Return
  <2>2. commands = <<>>
    BY <2>1, Zenon DEF Paired
  <2>3. ProxyTypes'
    BY <1>1, <1>2, <2>1, Zenon DEF ProxyTypes, NoCall, Ops
  <2>4. Waits'
    BY <1>1, <2>1, NoThreadAssumption, Zenon DEF ProxyTypes, Waits, NoCall
  <2>5. Connects'
    BY <1>1, <1>2, <2>1, Zenon DEF ProxyTypes, Connects, NoCall
  <2>6. Paired'
    BY <1>1, <1>2, <1>4, <2>1, <2>2, Zenon DEF ProxyTypes, Paired, Command, NoCall
  <2>7. Tracked'
    BY <1>2, <2>1, Zenon DEF ProxyTypes, Tracked, NoCall
  <2>8. \A u \in Threads : Claims(u)' \subseteq Claims(u)
    BY <1>2, <2>1, Zenon DEF ProxyTypes, Claims, NoCall
  <2>9. Claimed'
    BY <1>2, <2>8, Zenon DEF Claimed
  <2> QED BY <2>3, <2>4, <2>5, <2>6, <2>7, <2>9, Zenon
<1> QED BY <1>3, <1>4, Zenon

(* The tracker takes over the claim of a cudaMalloc, under a new pointer;  *)
(* it forgets a pointer the program has given up.                          *)
LEMMA Tracks ==
    ASSUME Inv, d2h = "error", NEW t \in Threads, Track(t)
    PROVE  Inv'
<1> USE DEF Inv, socketVars, wires
<1>1. /\ call[t].at = "track" /\ call' = [call EXCEPT ![t] = NoCall]
      /\ UNCHANGED <<socketVars, wires, device>>
  BY Zenon DEF Track, Return
<1>2. ProxyTypes'
  BY <1>1, Zenon DEF ProxyTypes, NoCall, Ops
<1>3. Waits'
  BY <1>1, Zenon DEF ProxyTypes, Waits, NoCall
<1>4. Connects'
  BY <1>1, Zenon DEF ProxyTypes, Connects, NoCall
<1>5. Paired'
  BY <1>1, Zenon DEF ProxyTypes, Paired, Command, NoCall
<1>6. /\ Claims(t)' = {}
      /\ \A u \in Threads \ {t} : Claims(u)' = Claims(u)
  BY <1>1 DEF ProxyTypes, Claims, NoCall
<1>7. \A u \in Threads :
        call'[u].op = "free" \/ call'[u].at = "track" => u # t /\ call'[u] = call[u]
  BY <1>1, Zenon DEF ProxyTypes, NoCall
<1>8. CASE call[t].op = "malloc"
  <2>1. /\ map_' = [x \in DOMAIN map_ \cup {next_synthetic_} |->
                      IF x = next_synthetic_ THEN call[t].remote ELSE map_[x]]
        /\ next_synthetic_' = next_synthetic_ + 1
        /\ held' = held \cup {next_synthetic_}
    BY <1>8, Zenon DEF Track
  <2>2. call[t].remote \in {0} \cup DevicePtrs
    BY Zenon DEF ProxyTypes
  <2>3. next_synthetic_ \notin held
    BY DEF Tracked
  <2>4. Tracked'
    BY <1>7, <2>1, <2>2 DEF Tracked
  <2>5. Claims(t) = {call[t].remote}
    BY <1>1, <1>8, Zenon DEF Claims
  <2>6. \A x \in held : map_'[x] = map_[x]
    BY <2>1, <2>3, Zenon DEF Tracked
  <2>7. map_'[next_synthetic_] = call[t].remote
    BY <2>1, Zenon
  <2>8. Claimed'
    <3>1. \A u \in Threads : Claims(u)' \subseteq device'
      BY <1>1, <1>6, Zenon DEF Claimed
    <3>2. \A u \in Threads : \A v \in Threads \ {u} : Claims(u)' \cap Claims(v)' = {}
      BY <1>6, Zenon DEF Claimed
    <3>3. ASSUME NEW x \in held' PROVE map_'[x] \in device'
      BY <1>1, <2>1, <2>5, <2>6, <2>7, SMTT(30) DEF Claimed
    <3>4. ASSUME NEW x \in held', NEW y \in held' \ {x} PROVE map_'[x] # map_'[y]
      BY <2>1, <2>3, <2>5, <2>6, <2>7, Zenon DEF Claimed
    <3>5. ASSUME NEW x \in held', NEW u \in Threads PROVE map_'[x] \notin Claims(u)'
      BY <1>6, <2>1, <2>5, <2>6, <2>7 DEF Claimed
    <3> QED BY <3>1, <3>2, <3>3, <3>4, <3>5, Zenon DEF Claimed
  <2> QED BY <1>2, <1>3, <1>4, <1>5, <2>4, <2>8, Zenon
<1>9. CASE call[t].op # "malloc"
  <2>1. /\ map_' = [x \in DOMAIN map_ \ {call[t].ptr} |-> map_[x]]
        /\ UNCHANGED <<next_synthetic_, held>>
    BY <1>9, Zenon DEF Track, Restrict
  <2>2. call[t].ptr \notin held
    BY <1>1, <1>9, Zenon DEF Tracked
  <2>3. Tracked'
    BY <1>7, <2>1, <2>2, Zenon DEF Tracked
  <2>4. \A x \in held : map_'[x] = map_[x]
    BY <2>1, <2>2, Zenon DEF Tracked
  <2>5. Claimed'
    BY <1>1, <1>6, <2>1, <2>4 DEF Claimed
  <2> QED BY <1>2, <1>3, <1>4, <1>5, <2>3, <2>5, Zenon
<1> QED BY <1>8, <1>9, Zenon

(* Shutdown and a lost connection leave nothing on the wire.               *)
LEMMA Disconnects ==
    ASSUME Inv, d2h = "error", ShutdownProxy \/ GpuBreak
    PROVE  Inv'
<1> USE DEF Inv, trackerVars, wires
<1>1. UNCHANGED <<g_socket_mutex, trackerVars, held, call, device>>
  BY Zenon DEF ShutdownProxy, GpuBreak
<1>2. CASE ShutdownProxy
  <2>1. /\ \A t \in Threads : call[t].at = "run"
        /\ g_initialized' = FALSE /\ g_gpu_socket' = "invalid"
        /\ UNCHANGED <<commands, replies>>
    BY <1>2, Zenon DEF ShutdownProxy
  <2>2. g_socket_mutex = NoThread
    BY <2>1, Zenon DEF ProxyTypes, Waits
  <2>3. ProxyTypes' /\ Waits' /\ Connects' /\ Paired' /\ Tracked'
    BY <1>1, <2>1, <2>2, Zenon DEF ProxyTypes, Waits, Connects, Paired, Tracked, Command
  <2>4. \A t \in Threads : Claims(t)' = Claims(t)
    BY <1>1, <2>1, Zenon DEF Claims
  <2>5. Claimed'
    BY <1>1, <2>4 DEF Claimed
  <2> QED BY <2>3, <2>5, Zenon
<1>3. CASE GpuBreak
  <2>1. /\ g_gpu_socket = "open" /\ g_gpu_socket' = "broken"
        /\ commands' = <<>> /\ replies' = <<>> /\ g_initialized' = g_initialized
    BY <1>3, Zenon DEF GpuBreak
  <2>2. ProxyTypes' /\ Waits' /\ Connects' /\ Paired' /\ Tracked'
    BY <1>1, <2>1, Zenon DEF ProxyTypes, Waits, Connects, Paired, Tracked, Command
  <2>3. \A t \in Threads : Claims(t)' \subseteq Claims(t)
    BY <1>1, <2>1, Zenon DEF Claims
  <2>4. Claimed'
    BY <1>1, <2>3, Zenon DEF Claimed
  <2> QED BY <2>2, <2>4, Zenon
<1> QED BY <1>2, <1>3, Zenon

(* The server answers the one command on the wire.  What it allocates no   *)
(* one answers for yet; what it frees only the caller of cudaFree did.     *)
LEMMA Executes ==
    ASSUME Inv, d2h = "error", ExecuteGpu
    PROVE  Inv'
<1> USE DEF Inv, socketVars, trackerVars
<1>1. UNCHANGED <<socketVars, trackerVars, held, call>>
  BY Zenon DEF ExecuteGpu
<1>2. PICK t \in Threads : g_socket_mutex = t
  BY Zenon DEF ExecuteGpu, Paired, ProxyTypes
<1>3. call[t].at = "reply" /\ \A u \in Threads \ {t} : call[u].at # "reply"
  BY <1>2, Zenon DEF Waits
<1>4. commands = <<Command(t)>> /\ replies = <<>> /\ g_gpu_socket = "open"
  BY <1>3, Zenon DEF ExecuteGpu, Paired
<1>5. commands' = <<>> /\ Head(commands) = Command(t)
  BY <1>4 DEF ExecuteGpu
<1>6. /\ call[t].op \in Ops /\ call[t].remote \in {0} \cup DevicePtrs
      /\ Command(t).op = call[t].op /\ Command(t).ptr = call[t].remote
  BY Zenon DEF ProxyTypes, Command
<1>7. PICK r \in [error : BOOLEAN, ptr : {0} \cup DevicePtrs] :
        /\ replies' = <<r>>
        /\ \/ /\ call[t].op = "malloc" /\ ~ r.error
              /\ r.ptr \notin device /\ device' = device \cup {r.ptr} /\ r.ptr \in DevicePtrs
           \/ call[t].op = "malloc" /\ r.error /\ device' = device
           \/ call[t].op = "free" /\ device' = device \ {call[t].remote}
           \/ call[t].op \in {"h2d", "sync"} /\ device' = device
           \/ call[t].op = "d2h" /\ r.error /\ device' = device
  <2>1. \A error \in BOOLEAN, ptr \in {0} \cup DevicePtrs :
          Reply(error, ptr) => replies' = <<[error |-> error, ptr |-> ptr]>>
    BY <1>4 DEF Reply
  <2>2. CASE call[t].op = "malloc"
    <3>1. CASE \E a \in DevicePtrs \ device : device' = device \cup {a} /\ Reply(FALSE, a)
      <4>1. PICK a \in DevicePtrs \ device : device' = device \cup {a} /\ Reply(FALSE, a)
        BY <3>1, Zenon
      <4> DEFINE r == [error |-> FALSE, ptr |-> a]
      <4>2. replies' = <<r>> /\ r \in [error : BOOLEAN, ptr : {0} \cup DevicePtrs]
        BY <2>1, <4>1, Zenon
      <4> QED BY <2>2, <4>1, <4>2, Zenon
    <3>2. CASE Reply(TRUE, 0) /\ device' = device
      <4> DEFINE r == [error |-> TRUE, ptr |-> 0]
      <4>1. replies' = <<r>> /\ r \in [error : BOOLEAN, ptr : {0} \cup DevicePtrs]
        BY <2>1, <3>2, Zenon
      <4> QED BY <2>2, <3>2, <4>1, Zenon
    <3> QED BY <1>5, <1>6, <2>2, <3>1, <3>2, Zenon DEF ExecuteGpu
  <2>3. CASE call[t].op # "malloc"
    <3>1. PICK e \in BOOLEAN :
            /\ Reply(e, 0)
            /\ \/ call[t].op = "free" /\ device' = device \ {call[t].remote}
               \/ call[t].op \in {"h2d", "sync"} /\ device' = device
               \/ call[t].op = "d2h" /\ e /\ device' = device
      <4>1. CASE call[t].op = "free"
        <5>1. Reply(call[t].remote \notin device, 0) /\ device' = device \ {call[t].remote}
          BY <1>5, <1>6, <4>1, Zenon DEF ExecuteGpu
        <5> QED BY <4>1, <5>1, Zenon
      <4>2. CASE call[t].op = "h2d"
        BY <1>5, <1>6, <4>2, Zenon DEF ExecuteGpu
      <4>3. CASE call[t].op = "sync"
        <5>1. Reply(FALSE, 0) /\ device' = device
          BY <1>5, <1>6, <4>3, Zenon DEF ExecuteGpu
        <5> QED BY <4>3, <5>1, Zenon
      <4>4. CASE call[t].op = "d2h"
        <5>1. Reply(d2h = "error", 0) /\ device' = device
          BY <1>5, <1>6, <4>4, Zenon DEF ExecuteGpu
        <5>2. Reply(TRUE, 0)
          BY <5>1, Zenon
        <5> QED BY <4>4, <5>1, <5>2, Zenon
      <4> QED BY <1>6, <2>3, <4>1, <4>2, <4>3, <4>4, Zenon DEF Ops
    <3> DEFINE r == [error |-> e, ptr |-> 0]
    <3>2. replies' = <<r>> /\ r \in [error : BOOLEAN, ptr : {0} \cup DevicePtrs]
      BY <2>1, <3>1, Zenon
    <3> QED BY <2>3, <3>1, <3>2, Zenon
  <2> QED BY <2>2, <2>3, Zenon
<1>8. ProxyTypes'
  BY <1>1, <1>7, Zenon DEF ProxyTypes
<1>9. Waits' /\ Connects' /\ Tracked'
  BY <1>1, Zenon DEF Waits, Connects, Tracked
<1>10. Paired'
  BY <1>1, <1>2, <1>3, <1>4, <1>5, <1>7, NoThreadAssumption, Zenon DEF Paired
<1>11. \A u \in Threads \ {t} : Claims(u)' = Claims(u)
  BY <1>1, <1>3, Zenon DEF Claims
<1>12. Claims(t) = IF call[t].op = "free" THEN {call[t].remote} ELSE {}
  BY <1>3, <1>4, Zenon DEF Claims
<1>13. Claims(t)' = IF call[t].op = "malloc" /\ ~ r.error THEN {r.ptr} ELSE {}
  BY <1>1, <1>3, <1>5, <1>7 DEF Claims
<1>14. Claimed'
  <2>1. CASE call[t].op = "malloc" /\ ~ r.error
    BY <1>1, <1>7, <1>11, <1>12, <1>13, <2>1 DEF Claimed
  <2>2. CASE call[t].op = "free"
    BY <1>1, <1>7, <1>11, <1>12, <1>13, <2>2 DEF Claimed
  <2>3. CASE call[t].op # "free" /\ (call[t].op = "malloc" => r.error)
    BY <1>1, <1>7, <1>11, <1>12, <1>13, <2>3 DEF Claimed
  <2> QED BY <2>1, <2>2, <2>3, Zenon
<1> QED BY <1>8, <1>9, <1>10, <1>14, Zenon

(* The invariant of the proxy, for any number of threads, any device that  *)
(* refuses device-to-host copies and any program that does not use a       *)
(* pointer again after a failed cudaFree: it holds initially and every step*)
(* of cuda_proxy.cpp and gpu_server.cu keeps it.                           *)
THEOREM ProxySafe == Spec => []ProxyInv
<1>1. Init => ProxyInv
  <2> SUFFICES ASSUME Init, d2h = "error" PROVE ProxyInv
    BY Zenon DEF ProxyInv
  <2>1. PICK s \in GpuSetups : GpuInit(s)
    BY Zenon DEF Init
  <2>2. ProxyTypes /\ Waits /\ Connects
    BY <2>1, NoThreadAssumption, Zenon DEF GpuInit, NoCall, Ops, ProxyTypes, Waits, Connects
  <2>3. Paired
    BY <2>1, Zenon DEF GpuInit, NoCall, Paired
  <2>4. Tracked
    BY <2>1 DEF GpuInit, NoCall, Tracked
  <2>5. held = {} /\ \A t \in Threads : Claims(t) = {}
    BY <2>1, Zenon DEF GpuInit, NoCall, Claims
  <2>6. Claimed
    BY <2>5, Zenon DEF Claimed
  <2> QED BY <2>2, <2>3, <2>4, <2>6, Zenon DEF ProxyInv
<1>2. ProxyInv /\ [Next]_vars => ProxyInv'
  <2> SUFFICES ASSUME ProxyInv, [Next]_vars, d2h' = "error", ~ reused' PROVE ProxyInv'
    BY Zenon DEF ProxyInv
  <2>1. CASE GpuNext
    <3>1. d2h' = d2h /\ ~ reused
      <4>1. d2h' = d2h
        BY <2>1, Zenon DEF GpuNext, ProxyStep, cudaMalloc, cudaFree, cudaMemcpy,
                    cudaDeviceSynchronize, InitializeProxy, send_gpu_cmd, recv_gpu_reply, Track,
                    CopyBack, ShutdownProxy, ExecuteGpu, GpuBreak
      <4>2. ASSUME NEW t \in Threads, cudaFree(t) \/ cudaMemcpy(t)  PROVE ~ reused
        BY <4>2, Zenon DEF cudaFree, cudaMemcpy
      <4>3. ASSUME NEW t \in Threads,
                   cudaMalloc(t) \/ cudaDeviceSynchronize(t) \/ ProxyStep(t)
            PROVE  reused' = reused
        BY <4>3, Zenon DEF ProxyStep, cudaMalloc, cudaDeviceSynchronize, InitializeProxy,
                    send_gpu_cmd, recv_gpu_reply, Fails, Track, CopyBack, doubtVars
      <4>4. ShutdownProxy \/ ExecuteGpu \/ GpuBreak => reused' = reused
        BY Zenon DEF ShutdownProxy, ExecuteGpu, GpuBreak, doubtVars
      <4>5. reused' = reused => ~ reused
        OBVIOUS
      <4> QED BY <2>1, <4>1, <4>2, <4>3, <4>4, <4>5, Zenon DEF GpuNext
    <3>2. Inv /\ d2h = "error"
      BY <3>1, Zenon DEF ProxyInv, Inv
    <3>3. \A t \in Threads : ~ CopyBack(t)
      BY <3>2, Zenon DEF Inv, Paired, CopyBack
    <3>4. Inv'
      BY <2>1, <3>2, <3>3, MallocBegins, MemcpyBegins, FreeBegins, Initializes, Sends,
         Receives, Tracks, Disconnects, Executes, Zenon DEF GpuNext, ProxyStep
    <3> QED BY <3>4, Zenon DEF ProxyInv, Inv
  <2>2. CASE UNCHANGED gpuVars
    <3> USE <2>2 DEF gpuVars
    <3>1. ProxyTypes /\ Waits /\ Connects => ProxyTypes' /\ Waits' /\ Connects'
      BY Zenon DEF ProxyTypes, Waits, Connects
    <3>2. Paired => Paired'
      BY Zenon DEF Paired, Command
    <3>3. Tracked => Tracked'
      BY Zenon DEF Tracked
    <3>4. \A t \in Threads : Claims(t)' = Claims(t)
      BY Zenon DEF Claims
    <3>5. Claimed => Claimed'
      BY <3>4 DEF Claimed
    <3> QED BY <3>1, <3>2, <3>3, <3>5, Zenon DEF ProxyInv
  <2> QED BY <2>1, <2>2, Zenon DEF Next, vars
<1> QED BY <1>1, <1>2, PTL DEF Spec

(* Every pointer the program got from cudaMalloc and has not passed to     *)
(* cudaFree names device memory that is allocated and that no other such   *)
(* pointer names, whatever the threads, the order of their calls, the      *)
(* connections that break and the frees that fail (cuda_proxy.cpp,         *)
(* DevicePointerTracker, gpu_server.cu), as long as the program leaves a   *)
(* pointer alone once cudaFree has failed for it.                          *)
THEOREM HeldStaysBacked == Spec => []HeldIsBacked
<1>1. ProxyInv => HeldIsBacked
  BY Zenon DEF ProxyInv, Claimed, HeldIsBacked
<1> QED BY <1>1, ProxySafe, PTL
=============================================================================
