---------------------------------- MODULE Gpu ----------------------------------
(***************************************************************************)
(* GPU sharing: GpuClient objects, whose threads issue CUDA-like calls,    *)
(* the libuv thread inside each client, and the gpud they share.           *)
(*                                                                         *)
(* thr[t]  what the application thread t is doing inside a call, and the   *)
(*         device buffer it owns;                                          *)
(* cli[c]  next_request_id_, pending_requests_, outbound_queue_, the       *)
(*         wakeup_async_ signal and the state of the connection;           *)
(* toD, toC  the two directions of the connection;                         *)
(* sess[c] gpud's session for c;  dev, the executor all sessions share.    *)
(*                                                                         *)
(* next_request_id_ is a plain integer that callers increment without a    *)
(* lock, so the increment is a load and a store.                           *)
(***************************************************************************)
EXTENDS Integers, Sequences, FiniteSets

CONSTANTS
  Clients, Threads,
  ClientOf,          \* the GpuClient each thread calls
  Ptrs,              \* device addresses the executor can hand out
  Data,              \* contents of a buffer
  MaxCalls,          \* calls a thread makes
  WaitForConnect,    \* the program waits for the connection before it calls
  StopAllowed,       \* gpud may receive SIGINT/SIGTERM
  None

Ops == {"malloc", "free", "htod", "dtoh", "props"}

\* GpuRequest and GpuResponse.  `by', the calling thread, is not in the message:
\* only the properties read it.
Requests == [id : Nat, op : Ops, ptr : Ptrs \cup {None}, data : Data \cup {None}, by : Threads]
Responses == [id : Nat, err : {0, 2, 11}, ptr : Ptrs \cup {None},
              data : Data \cup {None}, by : Threads]

ASSUME GpuAssumption ==
  /\ ClientOf \in [Threads -> Clients]
  /\ MaxCalls \in Nat
  /\ WaitForConnect \in BOOLEAN /\ StopAllowed \in BOOLEAN
  /\ None \notin Ptrs \cup Data \cup Responses

VARIABLES thr, cli, toD, toC, sess, dev, gpud

vars == <<thr, cli, toD, toC, sess, dev, gpud>>

NoRequest == [id |-> 0, op |-> "props", ptr |-> None, data |-> None, by |-> None]

Init ==
  /\ thr = [t \in Threads |->
              [pc |-> "idle", req |-> NoRequest, promise |-> None, calls |-> 0,
               ptr |-> None, wrote |-> None, seen |-> None]]
  /\ cli = [c \in Clients |->
              [net |-> "connecting", next_request_id_ |-> 1, pending |-> <<>>,
               outbound |-> <<>>, wakeup |-> FALSE]]
  /\ toD = [c \in Clients |-> <<>>] /\ toC = [c \in Clients |-> <<>>]
  /\ sess = [c \in Clients |-> "none"]
  /\ dev \in [allocations_ : {{}}, mem : [Ptrs -> Data]]   \* memory holds anything
  /\ gpud = "running"

(***************************************************************************)
(* A call on an application thread.                                        *)
(***************************************************************************)
\* A program without a bug of its own: it frees and copies only through a
\* pointer it was given and has not freed, copies no more than the buffer holds,
\* and asks for a second buffer only once the first is freed.  gpud relies on it:
\* the stub looks a pointer up in allocations_, but not whose it is, and copies
\* size bytes without comparing them with the size of the buffer.
Sensible(t, op, d) ==
  /\ op = "malloc" => thr[t].ptr = None
  /\ op \in {"free", "htod", "dtoh"} => thr[t].ptr # None
  /\ (op = "htod") <=> (d # None)

\* next_request_id_++, the load, and the request built around it.
BeginCall(t, op, d) ==
  LET c == ClientOf[t] IN
  /\ thr[t].pc = "idle" /\ thr[t].calls < MaxCalls
  /\ cli[c].net # "gone"
  /\ WaitForConnect => cli[c].net = "connected"
  /\ Sensible(t, op, d)
  /\ thr' = [thr EXCEPT ![t].pc = "bump", ![t].calls = @ + 1, ![t].promise = None,
               ![t].req = [id |-> cli[c].next_request_id_, op |-> op,
                           ptr |-> IF op \in {"free", "htod", "dtoh"} THEN thr[t].ptr ELSE None,
                           data |-> d, by |-> t]]
  /\ UNCHANGED <<cli, toD, toC, sess, dev, gpud>>

\* next_request_id_++, the store.
BumpId(t) ==
  /\ thr[t].pc = "bump"
  /\ thr' = [thr EXCEPT ![t].pc = "register"]
  /\ cli' = [cli EXCEPT ![ClientOf[t]].next_request_id_ = thr[t].req.id + 1]
  /\ UNCHANGED <<toD, toC, sess, dev, gpud>>

\* pending_requests_[request_id] = req_ctx, under requests_mutex_: an entry
\* already there is replaced.
RegisterPending(t) ==
  LET c == ClientOf[t] IN
  /\ thr[t].pc = "register"
  /\ thr' = [thr EXCEPT ![t].pc = "queue"]
  /\ cli' = [cli EXCEPT ![c].pending =
               [i \in DOMAIN @ \cup {thr[t].req.id} |->
                  IF i = thr[t].req.id THEN t ELSE @[i]]]
  /\ UNCHANGED <<toD, toC, sess, dev, gpud>>

\* outbound_queue_.push, under queue_mutex_.
PushOutbound(t) ==
  /\ thr[t].pc = "queue"
  /\ thr' = [thr EXCEPT ![t].pc = "signal"]
  /\ cli' = [cli EXCEPT ![ClientOf[t]].outbound = Append(@, thr[t].req)]
  /\ UNCHANGED <<toD, toC, sess, dev, gpud>>

\* uv_async_send: signals that arrive before the callback runs are one signal.
Signal(t) ==
  /\ thr[t].pc = "signal"
  /\ thr' = [thr EXCEPT ![t].pc = "wait"]
  /\ cli' = [cli EXCEPT ![ClientOf[t]].wakeup = TRUE]
  /\ UNCHANGED <<toD, toC, sess, dev, gpud>>

\* future.get() returns and the call hands its result to the program.
Return(t) ==
  LET ok == thr[t].promise.err = 0
      op == thr[t].req.op
  IN
  /\ thr[t].pc = "wait" /\ thr[t].promise # None
  /\ thr' = [thr EXCEPT
       ![t].pc    = "idle",
       ![t].ptr   = IF ok /\ op = "malloc" THEN thr[t].promise.ptr
                    ELSE IF ok /\ op = "free" THEN None ELSE @,
       ![t].wrote = IF ok /\ op = "htod" THEN thr[t].req.data
                    ELSE IF op \in {"malloc", "free"} THEN None ELSE @,
       ![t].seen  = IF ok /\ op = "dtoh" THEN thr[t].promise.data ELSE None]
  /\ UNCHANGED <<cli, toD, toC, sess, dev, gpud>>

(***************************************************************************)
(* The client's network thread.                                            *)
(***************************************************************************)
\* The connect callback.  A failed connect is logged and never retried.
OnConnect(c) ==
  /\ cli[c].net = "connecting" /\ sess[c] \in {"open", "closed"}
  /\ cli' = [cli EXCEPT ![c].net = "connected"]
  /\ UNCHANGED <<thr, toD, toC, sess, dev, gpud>>

OnConnectFailed(c) ==
  /\ cli[c].net = "connecting" /\ sess[c] = "none" /\ gpud = "down"
  /\ cli' = [cli EXCEPT ![c].net = "failed"]
  /\ UNCHANGED <<thr, toD, toC, sess, dev, gpud>>

\* Seeded fault: the queue is copied instead of swapped out, so the next wakeup
\* writes its messages again.
OnWakeup_KeepsQueue(c) ==
  /\ cli[c].wakeup /\ cli[c].net # "gone"
  /\ cli' = [cli EXCEPT ![c].wakeup = FALSE]
  /\ toD' = IF cli[c].net = "connected" /\ sess[c] # "closed"
            THEN [toD EXCEPT ![c] = @ \o cli[c].outbound] ELSE toD
  /\ UNCHANGED <<thr, toC, sess, dev, gpud>>

\* The wakeup_async_ callback swaps the queue out and writes every message, or
\* drops it when there is no connection.  What is written to a connection the
\* other side closed reaches nobody.
OnWakeup(c) ==
  /\ cli[c].wakeup /\ cli[c].net # "gone"
  /\ cli' = [cli EXCEPT ![c].wakeup = FALSE, ![c].outbound = <<>>]
  /\ toD' = IF cli[c].net = "connected" /\ sess[c] # "closed"
            THEN [toD EXCEPT ![c] = @ \o cli[c].outbound] ELSE toD
  /\ UNCHANGED <<thr, toC, sess, dev, gpud>>

\* on_peer_read, one response of the read: the entry of its id is taken out of
\* pending_requests_ and its promise set.  EOF and errors change nothing.
OnPeerRead(c) ==
  LET resp == Head(toC[c])
      known == resp.id \in DOMAIN cli[c].pending
  IN
  /\ cli[c].net = "connected" /\ toC[c] # <<>>
  /\ toC' = [toC EXCEPT ![c] = Tail(@)]
  /\ cli' = [cli EXCEPT ![c].pending = [i \in DOMAIN @ \ {resp.id} |-> @[i]]]
  /\ thr' = IF known THEN [thr EXCEPT ![cli[c].pending[resp.id]].promise = resp] ELSE thr
  /\ UNCHANGED <<toD, sess, dev, gpud>>

\* ~GpuClient, which the program may run once its calls have returned.
DestroyClient(c) ==
  /\ cli[c].net # "gone"
  /\ \A t \in Threads : ClientOf[t] = c => thr[t].pc = "idle"
  /\ cli' = [cli EXCEPT ![c].net = "gone", ![c].outbound = <<>>, ![c].wakeup = FALSE]
  /\ toC' = [toC EXCEPT ![c] = <<>>]
  /\ UNCHANGED <<thr, toD, sess, dev, gpud>>

(***************************************************************************)
(* gpud: one loop thread for every session.                                *)
(***************************************************************************)
\* on_connection: the session starts to read, or closes when uv_accept fails.
OnConnection(c) ==
  /\ gpud # "down" /\ sess[c] = "none" /\ cli[c].net = "connecting"
  /\ \E s \in {"open", "closed"} : sess' = [sess EXCEPT ![c] = s]
  /\ UNCHANGED <<thr, cli, toD, toC, dev, gpud>>

Resp(req, err, p, d) == [id |-> req.id, err |-> err, ptr |-> p, data |-> d, by |-> req.by]

Done(d, resp) == [dev |-> d, resp |-> resp]

\* Seeded fault: an address that is still allocated may be handed out again.
Allocate_Reuses(req) ==
  {Done([dev EXCEPT !.allocations_ = @ \cup {p}], Resp(req, 0, p, None)) : p \in Ptrs}

\* The executor.  malloc may always fail; a fresh block keeps what the memory
\* held before.
Allocate(req) ==
  {Done(dev, Resp(req, 2, None, None))} \cup
  {Done([dev EXCEPT !.allocations_ = @ \cup {p}], Resp(req, 0, p, None)) :
     p \in Ptrs \ dev.allocations_}

Invalid(req) == {Done(dev, Resp(req, 11, None, None))}

Free(req) ==
  IF req.ptr \notin dev.allocations_ THEN Invalid(req)
  ELSE {Done([dev EXCEPT !.allocations_ = @ \ {req.ptr}], Resp(req, 0, None, None))}

\* Seeded fault: the copy is answered before it is done.
MemcpyHtoD_Skipped(req) ==
  IF req.ptr \notin dev.allocations_ THEN Invalid(req)
  ELSE {Done(dev, Resp(req, 0, None, None))}

MemcpyHtoD(req) ==
  IF req.ptr \notin dev.allocations_ THEN Invalid(req)
  ELSE {Done([dev EXCEPT !.mem[req.ptr] = req.data], Resp(req, 0, None, None))}

MemcpyDtoH(req) ==
  IF req.ptr \notin dev.allocations_ THEN Invalid(req)
  ELSE {Done(dev, Resp(req, 0, None, dev.mem[req.ptr]))}

\* process_request, for the requests a GpuClient builds.
process_request(req) ==
  CASE req.op = "malloc" -> Allocate(req)
    [] req.op = "free"   -> Free(req)
    [] req.op = "htod"   -> MemcpyHtoD(req)
    [] req.op = "dtoh"   -> MemcpyDtoH(req)
    [] req.op = "props"  -> {Done(dev, Resp(req, 0, None, None))}

\* on_read, process_buffer and handle_request, for one request of the buffer.
\* The paths for frames a GpuClient never builds (over the size limit, not
\* parsing, of another protocol version) are left out: they end the session or
\* answer with an error, and change no allocation.
HandleRequest(c) ==
  /\ gpud # "down" /\ sess[c] = "open" /\ toD[c] # <<>>
  /\ toD' = [toD EXCEPT ![c] = Tail(@)]
  /\ \E done \in process_request(Head(toD[c])) :
       /\ dev' = done.dev
       /\ toC' = IF cli[c].net = "gone" THEN toC
                 ELSE [toC EXCEPT ![c] = Append(@, done.resp)]
  /\ UNCHANGED <<thr, cli, sess, gpud>>

\* on_read with EOF: the session deletes itself.  Its allocations stay.
SessionEof(c) ==
  /\ gpud # "down" /\ sess[c] = "open" /\ toD[c] = <<>> /\ cli[c].net = "gone"
  /\ sess' = [sess EXCEPT ![c] = "closed"]
  /\ UNCHANGED <<thr, cli, toD, toC, dev, gpud>>

\* stop(), from the signal loop's thread.
Stop ==
  /\ StopAllowed /\ gpud = "running"
  /\ gpud' = "stopping"
  /\ UNCHANGED <<thr, cli, toD, toC, sess, dev>>

\* The stop_async_ callback: every session and the listening socket are closed
\* and the loop ends.  Answers already written may or may not arrive.
OnStop ==
  /\ gpud = "stopping"
  /\ gpud' = "down"
  /\ sess' = [c \in Clients |-> IF sess[c] = "open" THEN "closed" ELSE sess[c]]
  /\ toD' = [c \in Clients |-> <<>>]
  /\ \E arrives \in SUBSET Clients :
       toC' = [c \in Clients |-> IF c \in arrives THEN toC[c] ELSE <<>>]
  /\ UNCHANGED <<thr, cli, dev>>

Call(t) == \E op \in Ops, d \in Data \cup {None} : BeginCall(t, op, d)

InCall(t) == BumpId(t) \/ RegisterPending(t) \/ PushOutbound(t) \/ Signal(t) \/ Return(t)

Network(c) == OnConnect(c) \/ OnConnectFailed(c) \/ OnWakeup(c) \/ OnPeerRead(c)

Daemon(c) == OnConnection(c) \/ HandleRequest(c) \/ SessionEof(c)

Next ==
  \/ \E t \in Threads : Call(t) \/ InCall(t)
  \/ \E c \in Clients : Network(c) \/ DestroyClient(c) \/ Daemon(c)
  \/ Stop \/ OnStop

Spec == Init /\ [][Next]_vars

\* Threads are scheduled, both loops run every callback that is ready.  Nobody
\* is obliged to start a call, destroy a client or stop gpud.
FairSpec ==
  /\ Spec
  /\ \A t \in Threads : WF_vars(InCall(t))
  /\ \A c \in Clients :
       WF_vars(OnConnect(c) \/ OnConnectFailed(c)) /\ WF_vars(OnWakeup(c))
       /\ WF_vars(OnPeerRead(c)) /\ WF_vars(Daemon(c))
  /\ WF_vars(OnStop)
-------------------------------------------------------------------------------
\* The shape of the state.
TypeOK ==
  /\ \A t \in Threads :
       /\ thr[t].pc \in {"idle", "bump", "register", "queue", "signal", "wait"}
       /\ thr[t].req \in Requests \cup {NoRequest}
       /\ thr[t].promise \in Responses \cup {None}
       /\ thr[t].calls \in 0 .. MaxCalls
       /\ thr[t].ptr \in Ptrs \cup {None}
       /\ {thr[t].wrote, thr[t].seen} \subseteq Data \cup {None}
  /\ \A c \in Clients :
       /\ cli[c].net \in {"connecting", "connected", "failed", "gone"}
       /\ cli[c].next_request_id_ \in Nat /\ cli[c].wakeup \in BOOLEAN
       /\ \A i \in DOMAIN cli[c].pending : i \in Nat /\ cli[c].pending[i] \in Threads
       /\ \A i \in DOMAIN cli[c].outbound : cli[c].outbound[i] \in Requests
       /\ \A i \in DOMAIN toD[c] : toD[c][i] \in Requests
       /\ \A i \in DOMAIN toC[c] : toC[c][i] \in Responses
       /\ sess[c] \in {"none", "open", "closed"}
  /\ dev.allocations_ \subseteq Ptrs /\ dev.mem \in [Ptrs -> Data]
  /\ gpud \in {"running", "stopping", "down"}

\* The answer future.get() hands to a thread is the answer to that thread's own
\* request: sync_remote_call pairs them by request_id only.
AnswerIsOwn ==
  \A t \in Threads : thr[t].promise # None =>
    thr[t].promise.by = t /\ thr[t].promise.id = thr[t].req.id

\* cudaMemcpyDtoH gives a program back the bytes it last copied into its buffer
\* with cudaMemcpyHtoD, whatever the other clients of the same gpud, each using
\* its own pointers (Sensible), allocate, copy and free in between.
ReadBack ==
  \A t \in Threads : thr[t].seen # None /\ thr[t].wrote # None => thr[t].seen = thr[t].wrote

\* The pointers that programs hold are allocated, and no two programs hold the
\* same one: allocations_ is shared by all the sessions of a gpud.
Freeing(t) == thr[t].pc # "idle" /\ thr[t].req.op = "free"
PointersExclusive ==
  \A t \in Threads : thr[t].ptr # None =>
    /\ ~Freeing(t) => thr[t].ptr \in dev.allocations_
    /\ \A u \in Threads \ {t} : thr[u].ptr = thr[t].ptr => Freeing(t) \/ Freeing(u)

\* gpud loses track of a buffer only with its session, or with the gpud itself:
\* while every session is open and every client lives, each entry of
\* allocations_ is held by a program or on its way to one.
Arriving(p) ==
  \/ \E c \in Clients : \E i \in DOMAIN toC[c] : toC[c][i].ptr = p
  \/ \E t \in Threads : thr[t].pc = "wait" /\ thr[t].promise # None /\ thr[t].promise.ptr = p
NoLeakWhileOpen ==
  (gpud # "down" /\ \A c \in Clients : sess[c] # "closed" /\ cli[c].net # "gone") =>
    \A p \in dev.allocations_ : Arriving(p) \/ \E t \in Threads : thr[t].ptr = p

\* A call returns as long as its session stays open: "waits for the remote gpud
\* to respond" (gpud/README.md).
CallReturns ==
  \A t \in Threads :
    thr[t].pc = "wait" ~>
      (thr[t].pc = "idle" \/ sess[ClientOf[t]] = "closed" \/ gpud = "down")

\* A stop() request ends gpud's loop, whatever the sessions are doing.
StopEnds == gpud = "stopping" ~> gpud = "down"
===============================================================================
