------------------------------ MODULE Gpu_proofs ------------------------------
(***************************************************************************)
(* When every thread has a GpuClient of its own: for every number of       *)
(* programs and calls, an answer is the answer to the call that waits for  *)
(* it, programs never share a device pointer, each reads back what it      *)
(* wrote, and no allocation is forgotten while the sessions are open.      *)
(***************************************************************************)
EXTENDS Gpu, TLAPS

\* next_request_id_ is not locked: a GpuClient serves one calling thread.
OneThreadEach == \A t, u \in Threads : ClientOf[t] = ClientOf[u] => t = u

-------------------------------------------------------------------------------
(***************************************************************************)
(* Types.                                                                  *)
(***************************************************************************)
Partial == UNION {[S -> Threads] : S \in SUBSET Nat}

\* A copy to the device carries data.
Sane == {r \in Requests : r.op = "htod" => r.data \in Data}

ThreadStates ==
  [pc : {"idle", "bump", "register", "queue", "signal", "wait"},
   req : Requests \cup {NoRequest}, promise : Responses \cup {None},
   calls : 0 .. MaxCalls, ptr : Ptrs \cup {None},
   wrote : Data \cup {None}, seen : Data \cup {None}]

ClientStates ==
  [net : {"connecting", "connected", "failed", "gone"}, next_request_id_ : Nat,
   pending : Partial, outbound : Seq(Sane), wakeup : BOOLEAN]

\* The types, and that a thread inside a call has built its request.
Shape ==
  /\ thr \in [Threads -> ThreadStates]
  /\ cli \in [Clients -> ClientStates]
  /\ toD \in [Clients -> Seq(Sane)]
  /\ toC \in [Clients -> Seq(Responses)]
  /\ sess \in [Clients -> {"none", "open", "closed"}]
  /\ dev \in [allocations_ : SUBSET Ptrs, mem : [Ptrs -> Data]]
  /\ gpud \in {"running", "stopping", "down"}
  /\ \A t \in Threads : thr[t].pc # "idle" => thr[t].req \in Sane

\* pending_requests_ stays a map from ids to threads.
LEMMA PartialFacts ==
  /\ <<>> \in Partial
  /\ \A f \in Partial, i \in Nat, t \in Threads :
       [j \in DOMAIN f \cup {i} |-> IF j = i THEN t ELSE f[j]] \in Partial
  /\ \A f \in Partial : \A i : [j \in DOMAIN f \ {i} |-> f[j]] \in Partial
  /\ \A f \in Partial : DOMAIN f \in SUBSET Nat /\ \A i \in DOMAIN f : f[i] \in Threads
<1>1. \A f \in Partial : DOMAIN f \in SUBSET Nat /\ f \in [DOMAIN f -> Threads]
  BY Zenon DEF Partial
<1>2. \A S \in SUBSET Nat : [S -> Threads] \subseteq Partial
  BY Zenon DEF Partial
<1>3. <<>> \in Partial
  <2>1. <<>> \in [{} -> Threads]
    OBVIOUS
  <2> QED  BY <1>2, <2>1, Zenon
<1>4. ASSUME NEW f \in Partial, NEW i \in Nat, NEW t \in Threads
      PROVE  [j \in DOMAIN f \cup {i} |-> IF j = i THEN t ELSE f[j]] \in Partial
  <2>1. DOMAIN f \cup {i} \in SUBSET Nat
    BY <1>1, Zenon
  <2>2. [j \in DOMAIN f \cup {i} |-> IF j = i THEN t ELSE f[j]]
          \in [DOMAIN f \cup {i} -> Threads]
    BY <1>1, Zenon
  <2> QED  BY <1>2, <2>1, <2>2, Zenon
<1>5. ASSUME NEW f \in Partial, NEW i
      PROVE  [j \in DOMAIN f \ {i} |-> f[j]] \in Partial
  <2>1. DOMAIN f \ {i} \in SUBSET Nat
    BY <1>1, Zenon
  <2>2. [j \in DOMAIN f \ {i} |-> f[j]] \in [DOMAIN f \ {i} -> Threads]
    BY <1>1, Zenon
  <2> QED  BY <1>2, <2>1, <2>2, Zenon
<1> QED
  BY <1>1, <1>3, <1>4, <1>5, Zenon

LEMMA InitShape == Init => Shape
<1> SUFFICES ASSUME Init  PROVE Shape
  BY Zenon
<1>1. NoRequest \in Requests \cup {NoRequest} /\ 0 \in 0 .. MaxCalls
  BY GpuAssumption
<1>2. thr \in [Threads -> ThreadStates]
  BY <1>1, Zenon DEF Init, ThreadStates
<1>3. cli \in [Clients -> ClientStates]
  BY PartialFacts DEF Init, ClientStates
<1>4. dev \in [allocations_ : SUBSET Ptrs, mem : [Ptrs -> Data]]
  BY Zenon DEF Init
<1> QED
  BY <1>2, <1>3, <1>4 DEF Init, Shape

\* What gpud answers is an answer to the request it took, and the executor's
\* state stays an executor's state.
LEMMA ProcessShape ==
  ASSUME NEW req \in Sane, NEW done \in process_request(req),
         dev \in [allocations_ : SUBSET Ptrs, mem : [Ptrs -> Data]]
  PROVE  /\ done.dev \in [allocations_ : SUBSET Ptrs, mem : [Ptrs -> Data]]
         /\ done.resp \in Responses
         /\ done.resp.id = req.id /\ done.resp.by = req.by
<1> USE DEF Done, Resp, Sane, Requests, Responses
<1>1. CASE req.op = "malloc"
  BY <1>1 DEF process_request, Allocate
<1>2. CASE req.op = "free"
  BY <1>2 DEF process_request, Free, Invalid
<1>3. CASE req.op = "htod"
  <2>1. req.data \in Data
    BY <1>3, Zenon
  <2> QED  BY <1>3, <2>1 DEF process_request, MemcpyHtoD, Invalid
<1>4. CASE req.op = "dtoh"
  BY <1>4 DEF process_request, MemcpyDtoH, Invalid
<1>5. CASE req.op = "props"
  BY <1>5 DEF process_request
<1> QED
  BY <1>1, <1>2, <1>3, <1>4, <1>5, Zenon DEF Ops

\* A thread's record with some of its fields replaced is a thread's record.
LEMMA ThreadUpdate ==
  ASSUME NEW th \in ThreadStates
  PROVE  /\ \A pc \in {"idle", "bump", "register", "queue", "signal", "wait"} :
              [th EXCEPT !.pc = pc] \in ThreadStates
         /\ \A x \in Responses \cup {None} : [th EXCEPT !.promise = x] \in ThreadStates
         /\ \A r \in Requests, n \in 0 .. MaxCalls :
              [th EXCEPT !.pc = "bump", !.calls = n, !.promise = None, !.req = r]
                \in ThreadStates
         /\ \A p \in Ptrs \cup {None}, w \in Data \cup {None}, x \in Data \cup {None} :
              [th EXCEPT !.pc = "idle", !.ptr = p, !.wrote = w, !.seen = x] \in ThreadStates
BY ZenonT(30) DEF ThreadStates

LEMMA ClientUpdate ==
  ASSUME NEW cl \in ClientStates
  PROVE  /\ \A n \in Nat : [cl EXCEPT !.next_request_id_ = n] \in ClientStates
         /\ \A f \in Partial : [cl EXCEPT !.pending = f] \in ClientStates
         /\ \A q \in Seq(Sane) : [cl EXCEPT !.outbound = q] \in ClientStates
         /\ \A n \in {"connected", "failed"} : [cl EXCEPT !.net = n] \in ClientStates
         /\ \A b \in BOOLEAN : [cl EXCEPT !.wakeup = b] \in ClientStates
         /\ \A b \in BOOLEAN, q \in Seq(Sane) :
              [cl EXCEPT !.wakeup = b, !.outbound = q] \in ClientStates
         /\ \A b \in BOOLEAN, q \in Seq(Sane) :
              [cl EXCEPT !.net = "gone", !.outbound = q, !.wakeup = b] \in ClientStates
BY Zenon DEF ClientStates

LEMMA ShapeStep == Shape /\ [Next]_vars => Shape'
<1> SUFFICES ASSUME Shape, [Next]_vars  PROVE Shape'
  BY Zenon
<1>0. /\ \A t \in Threads : thr[t] \in ThreadStates
      /\ \A c \in Clients : cli[c] \in ClientStates
      /\ \A t \in Threads, th \in ThreadStates :
           [thr EXCEPT ![t] = th] \in [Threads -> ThreadStates]
      /\ \A c \in Clients, cl \in ClientStates :
           [cli EXCEPT ![c] = cl] \in [Clients -> ClientStates]
  BY Zenon DEF Shape
<1> DEFINE Calls == \A t \in Threads : thr[t].pc # "idle" => thr[t].req \in Sane
<1>1. CASE UNCHANGED vars
  BY <1>1, Zenon DEF vars, Shape
<1>2. ASSUME NEW t \in Threads, NEW op \in Ops, NEW d \in Data \cup {None}, BeginCall(t, op, d)
      PROVE  Shape'
  <2> DEFINE r == [id |-> cli[ClientOf[t]].next_request_id_, op |-> op,
                   ptr |-> IF op \in {"free", "htod", "dtoh"} THEN thr[t].ptr ELSE None,
                   data |-> d, by |-> t]
  <2>1. ClientOf[t] \in Clients
    BY GpuAssumption, Zenon
  <2>2. thr[t].ptr \in Ptrs \cup {None} /\ cli[ClientOf[t]].next_request_id_ \in Nat
    BY <2>1, Zenon DEF Shape, ThreadStates, ClientStates
  <2>3. r \in Sane
    BY <1>2, <2>2, Zenon DEF BeginCall, Sensible, Sane, Requests
  <2>4. /\ thr' = [thr EXCEPT ![t].pc = "bump", ![t].calls = @ + 1, ![t].promise = None,
                     ![t].req = r]
        /\ thr[t].calls < MaxCalls
        /\ UNCHANGED <<cli, toD, toC, sess, dev, gpud>>
    BY <1>2, Zenon DEF BeginCall
  <2> HIDE DEF r
  <2>5. r \in Requests
    BY <2>3, Zenon DEF Sane
  <2>6. thr[t].calls + 1 \in 0 .. MaxCalls
    BY <2>4, GpuAssumption DEF Shape, ThreadStates
  <2>7. thr' \in [Threads -> ThreadStates]
    <3>1. thr' = [thr EXCEPT ![t] = [thr[t] EXCEPT !.pc = "bump", !.calls = thr[t].calls + 1,
                                       !.promise = None, !.req = r]]
      BY <2>4, Zenon
    <3> QED  BY <3>1, <2>5, <2>6, <1>0, ThreadUpdate, Zenon
  <2>8. Calls'
    BY <2>3, <2>4 DEF Shape, ThreadStates
  <2> QED  BY <2>4, <2>7, <2>8, Zenon DEF Shape
<1>3. ASSUME NEW t \in Threads, BumpId(t) \/ RegisterPending(t) \/ PushOutbound(t) \/ Signal(t)
      PROVE  Shape'
  <2> DEFINE c == ClientOf[t]
  <2>1. c \in Clients
    BY GpuAssumption, Zenon
  <2>2. thr[t].req \in Sane /\ thr[t].req.id \in Nat
    BY <1>3, Zenon DEF Shape, Sane, Requests, BumpId, RegisterPending, PushOutbound, Signal
  <2>3. \E pc \in {"register", "queue", "signal", "wait"} : thr' = [thr EXCEPT ![t].pc = pc]
    BY <1>3, Zenon DEF BumpId, RegisterPending, PushOutbound, Signal
  <2>4. thr' \in [Threads -> ThreadStates]
    <3>1. PICK pc \in {"register", "queue", "signal", "wait"} :
            thr' = [thr EXCEPT ![t] = [thr[t] EXCEPT !.pc = pc]]
      BY <2>3, Zenon
    <3> QED  BY <3>1, <1>0, ThreadUpdate, Zenon
  <2>5. Calls'
    BY <2>2, <2>3 DEF Shape, ThreadStates
  <2>6. cli' \in [Clients -> ClientStates]
    <3>1. CASE BumpId(t)
      <4>1. cli' = [cli EXCEPT ![c] = [cli[c] EXCEPT !.next_request_id_ = thr[t].req.id + 1]]
        BY <3>1, Zenon DEF BumpId
      <4>2. thr[t].req.id + 1 \in Nat
        BY <2>2
      <4> QED  BY <4>1, <4>2, <2>1, <1>0, ClientUpdate, Zenon
    <3>2. CASE RegisterPending(t)
      <4>1. [i \in DOMAIN cli[c].pending \cup {thr[t].req.id} |->
               IF i = thr[t].req.id THEN t ELSE cli[c].pending[i]] \in Partial
        <5>1. cli[c].pending \in Partial
          BY <2>1, <1>0, Zenon DEF ClientStates
        <5> QED  BY <5>1, <2>2, PartialFacts, Zenon
      <4>2. cli' = [cli EXCEPT ![c] = [cli[c] EXCEPT !.pending =
               [i \in DOMAIN cli[c].pending \cup {thr[t].req.id} |->
                  IF i = thr[t].req.id THEN t ELSE cli[c].pending[i]]]]
        BY <3>2, Zenon DEF RegisterPending
      <4> QED  BY <4>1, <4>2, <2>1, <1>0, ClientUpdate, Zenon
    <3>3. CASE PushOutbound(t)
      <4>1. Append(cli[c].outbound, thr[t].req) \in Seq(Sane)
        BY <2>1, <2>2, <1>0 DEF ClientStates
      <4>2. cli' = [cli EXCEPT ![c] =
                      [cli[c] EXCEPT !.outbound = Append(cli[c].outbound, thr[t].req)]]
        BY <3>3, Zenon DEF PushOutbound
      <4> QED  BY <4>1, <4>2, <2>1, <1>0, ClientUpdate, Zenon
    <3>4. CASE Signal(t)
      <4>1. cli' = [cli EXCEPT ![c] = [cli[c] EXCEPT !.wakeup = TRUE]]
        BY <3>4, Zenon DEF Signal
      <4> QED  BY <4>1, <2>1, <1>0, ClientUpdate, Zenon
    <3> QED  BY <1>3, <3>1, <3>2, <3>3, <3>4, Zenon
  <2>7. UNCHANGED <<toD, toC, sess, dev, gpud>>
    BY <1>3, Zenon DEF BumpId, RegisterPending, PushOutbound, Signal
  <2> QED  BY <2>4, <2>5, <2>6, <2>7, Zenon DEF Shape
<1>4. ASSUME NEW t \in Threads, Return(t)
      PROVE  Shape'
  <2>1. /\ thr[t].promise \in Responses /\ thr[t].req \in Sane
        /\ thr[t] \in ThreadStates
    BY <1>4, Zenon DEF Return, Shape, ThreadStates
  <2> DEFINE ok == thr[t].promise.err = 0
             op == thr[t].req.op
             p == IF ok /\ op = "malloc" THEN thr[t].promise.ptr
                  ELSE IF ok /\ op = "free" THEN None ELSE thr[t].ptr
             w == IF ok /\ op = "htod" THEN thr[t].req.data
                  ELSE IF op \in {"malloc", "free"} THEN None ELSE thr[t].wrote
             x == IF ok /\ op = "dtoh" THEN thr[t].promise.data ELSE None
  <2>2. /\ p \in Ptrs \cup {None} /\ w \in Data \cup {None} /\ x \in Data \cup {None}
    BY <2>1, Zenon DEF ThreadStates, Responses, Sane, Requests
  <2>3. thr' = [thr EXCEPT ![t] = [thr[t] EXCEPT !.pc = "idle", !.ptr = p, !.wrote = w,
                                                !.seen = x]]
    BY <1>4, Zenon DEF Return
  <2> HIDE DEF p, w, x
  <2>4. thr' \in [Threads -> ThreadStates]
    BY <2>2, <2>3, <1>0, ThreadUpdate, Zenon
  <2>5. Calls'
    BY <2>3 DEF Shape, ThreadStates
  <2>6. UNCHANGED <<cli, toD, toC, sess, dev, gpud>>
    BY <1>4, Zenon DEF Return
  <2> QED  BY <2>4, <2>5, <2>6, Zenon DEF Shape
<1>5. ASSUME NEW c \in Clients, OnConnect(c) \/ OnConnectFailed(c)
      PROVE  Shape'
  <2>1. PICK n \in {"connected", "failed"} : cli' = [cli EXCEPT ![c] = [cli[c] EXCEPT !.net = n]]
    BY <1>5, Zenon DEF OnConnect, OnConnectFailed
  <2>2. cli' \in [Clients -> ClientStates]
    BY <2>1, <1>0, ClientUpdate, Zenon
  <2> QED  BY <1>5, <2>2, Zenon DEF OnConnect, OnConnectFailed, Shape
<1>6. ASSUME NEW c \in Clients, OnWakeup(c)
      PROVE  Shape'
  <2>1. cli' = [cli EXCEPT ![c] = [cli[c] EXCEPT !.wakeup = FALSE, !.outbound = <<>>]]
    BY <1>6, Zenon DEF OnWakeup
  <2>2. cli' \in [Clients -> ClientStates]
    <3>1. FALSE \in BOOLEAN /\ <<>> \in Seq(Sane)
      OBVIOUS
    <3> QED  BY <2>1, <3>1, <1>0, ClientUpdate, Zenon
  <2>3. toD[c] \o cli[c].outbound \in Seq(Sane)
    BY DEF Shape, ClientStates
  <2>4. toD' \in [Clients -> Seq(Sane)]
    BY <1>6, <2>3, Zenon DEF OnWakeup, Shape
  <2>5. UNCHANGED <<thr, toC, sess, dev, gpud>>
    BY <1>6, Zenon DEF OnWakeup
  <2> QED  BY <2>2, <2>4, <2>5, Zenon DEF Shape
<1>7. ASSUME NEW c \in Clients, OnPeerRead(c)
      PROVE  Shape'
  <2> DEFINE resp == Head(toC[c])
             rest == [i \in DOMAIN cli[c].pending \ {resp.id} |-> cli[c].pending[i]]
             u == cli[c].pending[resp.id]
  <2>1. toC[c] \in Seq(Responses) /\ toC[c] # <<>>
    BY <1>7, Zenon DEF OnPeerRead, Shape
  <2>2. resp \in Responses /\ Tail(toC[c]) \in Seq(Responses)
    BY <2>1
  <2>3. cli[c].pending \in Partial /\ rest \in Partial
    BY PartialFacts, Zenon DEF Shape, ClientStates
  <2>4. /\ toC' = [toC EXCEPT ![c] = Tail(toC[c])]
        /\ cli' = [cli EXCEPT ![c] = [cli[c] EXCEPT !.pending = rest]]
        /\ thr' = IF resp.id \in DOMAIN cli[c].pending
                     THEN [thr EXCEPT ![u] = [thr[u] EXCEPT !.promise = resp]] ELSE thr
        /\ UNCHANGED <<toD, sess, dev, gpud>>
    BY <1>7, Zenon DEF OnPeerRead
  <2>5. resp.id \in DOMAIN cli[c].pending => u \in Threads
    BY <2>3, PartialFacts, Zenon
  <2> HIDE DEF resp, rest, u
  <2>6. cli' \in [Clients -> ClientStates]
    BY <2>3, <2>4, <1>0, ClientUpdate, Zenon
  <2>7. thr' \in [Threads -> ThreadStates]
    BY <2>2, <2>4, <2>5, <1>0, ThreadUpdate, Zenon DEF Shape
  <2>8. Calls'
    BY <2>4, <2>5 DEF Shape, ThreadStates
  <2>9. toC' \in [Clients -> Seq(Responses)]
    BY <2>2, <2>4, Zenon DEF Shape
  <2> QED  BY <2>4, <2>6, <2>7, <2>8, <2>9, Zenon DEF Shape
<1>8. ASSUME NEW c \in Clients, DestroyClient(c)
      PROVE  Shape'
  <2>1. cli' = [cli EXCEPT ![c] = [cli[c] EXCEPT !.net = "gone", !.outbound = <<>>,
                                                !.wakeup = FALSE]]
    BY <1>8, Zenon DEF DestroyClient
  <2>2. cli' \in [Clients -> ClientStates]
    <3>1. FALSE \in BOOLEAN /\ <<>> \in Seq(Sane)
      OBVIOUS
    <3> QED  BY <2>1, <3>1, <1>0, ClientUpdate, Zenon
  <2>3. toC' \in [Clients -> Seq(Responses)]
    BY <1>8 DEF DestroyClient, Shape
  <2> QED  BY <1>8, <2>2, <2>3, Zenon DEF DestroyClient, Shape
<1>9. ASSUME NEW c \in Clients, OnConnection(c) \/ SessionEof(c)
      PROVE  Shape'
  BY <1>9, Zenon DEF OnConnection, SessionEof, Shape
<1>10. ASSUME NEW c \in Clients, HandleRequest(c)
       PROVE  Shape'
  <2>1. toD[c] \in Seq(Sane) /\ toD[c] # <<>>
    BY <1>10, Zenon DEF HandleRequest, Shape
  <2>2. Head(toD[c]) \in Sane /\ Tail(toD[c]) \in Seq(Sane)
    BY <2>1
  <2>3. PICK done \in process_request(Head(toD[c])) :
          /\ dev' = done.dev
          /\ toC' = IF cli[c].net = "gone" THEN toC
                    ELSE [toC EXCEPT ![c] = Append(@, done.resp)]
    BY <1>10, Zenon DEF HandleRequest
  <2>4. /\ done.dev \in [allocations_ : SUBSET Ptrs, mem : [Ptrs -> Data]]
        /\ done.resp \in Responses
    BY <2>2, ProcessShape, Zenon DEF Shape
  <2>5. Append(toC[c], done.resp) \in Seq(Responses)
    BY <2>4 DEF Shape
  <2>6. toC' \in [Clients -> Seq(Responses)]
    BY <2>3, <2>5, Zenon DEF Shape
  <2>7. toD' \in [Clients -> Seq(Sane)]
    BY <1>10, <2>2, Zenon DEF HandleRequest, Shape
  <2> QED  BY <1>10, <2>3, <2>4, <2>6, <2>7, Zenon DEF HandleRequest, Shape
<1>11. CASE Stop
  BY <1>11, Zenon DEF Stop, Shape
<1>12. CASE OnStop
  <2>1. toC' \in [Clients -> Seq(Responses)]
    BY <1>12 DEF OnStop, Shape
  <2>2. toD' \in [Clients -> Seq(Sane)] /\ sess' \in [Clients -> {"none", "open", "closed"}]
    BY <1>12 DEF OnStop, Shape
  <2> QED  BY <1>12, <2>1, <2>2, Zenon DEF OnStop, Shape
<1> QED
  BY <1>1, <1>2, <1>3, <1>4, <1>5, <1>6, <1>7, <1>8, <1>9, <1>10, <1>11, <1>12, Zenon
     DEF Next, Call, InCall, Network, Daemon

-------------------------------------------------------------------------------
(***************************************************************************)
(* Where a call is.  th is the thread t, cl its client, d and a the two    *)
(* directions of the client's connection.                                  *)
(***************************************************************************)
\* Nothing of the client's is on its way.
Rest(cl, d, a) == cl.outbound = <<>> /\ d = <<>> /\ a = <<>> /\ ~cl.wakeup

Before(th, cl, d, a) ==
  th.pc \in {"idle", "bump", "register", "queue"} /\ Rest(cl, d, a)

Queued(th, cl, d, a) ==
  /\ th.pc \in {"signal", "wait"} /\ th.promise = None
  /\ cl.outbound = <<th.req>> /\ d = <<>> /\ a = <<>>
  /\ cl.wakeup <=> th.pc = "wait"

Sent(th, cl, d, a) ==
  /\ th.pc = "wait" /\ th.promise = None
  /\ cl.outbound = <<>> /\ d = <<th.req>> /\ a = <<>> /\ ~cl.wakeup

Answered(t, th, cl, d, a) ==
  /\ th.pc = "wait" /\ th.promise = None
  /\ cl.outbound = <<>> /\ d = <<>> /\ ~cl.wakeup
  /\ \E x \in Responses : a = <<x>> /\ x.id = th.req.id /\ x.by = t

Resolved(th, cl, d, a) == th.pc = "wait" /\ th.promise # None /\ Rest(cl, d, a)

\* The request was dropped, or its answer was: the call never returns.
Lost(th, cl, d, a) == th.pc = "wait" /\ th.promise = None /\ Rest(cl, d, a)

Flight(t, th, cl, d, a) ==
  \/ Before(th, cl, d, a)
  \/ Queued(th, cl, d, a)
  \/ Sent(th, cl, d, a)
  \/ Answered(t, th, cl, d, a)
  \/ Resolved(th, cl, d, a)
  \/ Lost(th, cl, d, a)

\* A call waits under its id until its promise is set, and only its own answer
\* sets it.
Waiting(t, th, cl) ==
  /\ th.pc \in {"queue", "signal", "wait"} /\ th.promise = None =>
       th.req.id \in DOMAIN cl.pending /\ cl.pending[th.req.id] = t
  /\ th.pc \in {"bump", "register", "queue"} => th.promise = None
  /\ th.promise # None => th.promise.by = t /\ th.promise.id = th.req.id
  /\ th.pc # "idle" => th.req.by = t /\ cl.net # "gone"

\* What the program asks for, and what it remembers.
Program(th) ==
  /\ th.pc # "idle" =>
       /\ th.req.op = "malloc" => th.ptr = None
       /\ th.req.op \in {"free", "htod", "dtoh"} => th.ptr # None /\ th.req.ptr = th.ptr
       /\ th.req.op = "htod" => th.req.data # None
  /\ th.wrote # None => th.ptr # None

CallOK(t, th, cl, d, a) == Flight(t, th, cl, d, a) /\ Waiting(t, th, cl) /\ Program(th)

Called == \A t \in Threads :
  CallOK(t, thr[t], cli[ClientOf[t]], toD[ClientOf[t]], toC[ClientOf[t]])

\* A client that no thread calls has nothing to do.
Unused == \A c \in Clients :
  (\A t \in Threads : ClientOf[t] # c) => Rest(cli[c], toD[c], toC[c])

\* Sequences of one element.
LEMMA One ==
  ASSUME NEW x
  PROVE  /\ <<x>> # <<>> /\ Head(<<x>>) = x /\ Tail(<<x>>) = <<>>
         /\ <<>> \o <<x>> = <<x>> /\ Append(<<>>, x) = <<x>>
         /\ \A y : <<x>> = <<y>> => x = y
OBVIOUS

\* A step that leaves a thread and its client alone leaves its call where it was.
LEMMA CallKept ==
  ASSUME Called, NEW t \in Threads,
         thr'[t] = thr[t], cli'[ClientOf[t]] = cli[ClientOf[t]],
         toD'[ClientOf[t]] = toD[ClientOf[t]], toC'[ClientOf[t]] = toC[ClientOf[t]]
  PROVE  CallOK(t, thr'[t], cli'[ClientOf[t]], toD'[ClientOf[t]], toC'[ClientOf[t]])
BY Zenon DEF Called

\* A step of one thread or of its client moves that thread's call and no other.
LEMMA OneCallMoves ==
  ASSUME OneThreadEach, Called, Unused, NEW t \in Threads,
         \A u \in Threads \ {t} : thr'[u] = thr[u],
         \A c \in Clients \ {ClientOf[t]} :
           cli'[c] = cli[c] /\ toD'[c] = toD[c] /\ toC'[c] = toC[c],
         CallOK(t, thr'[t], cli'[ClientOf[t]], toD'[ClientOf[t]], toC'[ClientOf[t]])
  PROVE  Called' /\ Unused'
<1>1. \A u \in Threads : ClientOf[u] \in Clients
  BY GpuAssumption, Zenon
<1>2. ASSUME NEW u \in Threads, u # t
      PROVE  CallOK(u, thr'[u], cli'[ClientOf[u]], toD'[ClientOf[u]], toC'[ClientOf[u]])
  <2>1. ClientOf[u] # ClientOf[t]
    BY <1>2, Zenon DEF OneThreadEach
  <2> QED  BY <1>1, <1>2, <2>1, CallKept, Zenon
<1>3. Called'
  BY <1>2, Zenon DEF Called
<1>4. Unused'
  BY <1>1, Zenon DEF Unused
<1> QED
  BY <1>3, <1>4, Zenon

\* The steps of a call on the application's thread.
LEMMA CallSteps ==
  ASSUME OneThreadEach, Shape, Called, Unused, NEW t \in Threads, Call(t) \/ InCall(t)
  PROVE  Called' /\ Unused'
<1> DEFINE c == ClientOf[t]
           th == thr[t]
           cl == cli[c]
           thn == thr'[t]
           cln == cli'[c]
<1>1. c \in Clients /\ th \in ThreadStates /\ cl \in ClientStates
  BY GpuAssumption, Zenon DEF Shape
<1>2. CallOK(t, th, cl, toD[c], toC[c])
  BY Zenon DEF Called
<1>3. /\ toD' = toD /\ toC' = toC
      /\ \A u \in Threads \ {t} : thr'[u] = thr[u]
      /\ \A k \in Clients \ {c} : cli'[k] = cli[k]
  BY Zenon DEF Call, InCall, BeginCall, BumpId, RegisterPending, PushOutbound, Signal, Return, Shape
<1>4. SUFFICES CallOK(t, thn, cln, toD[c], toC[c])
  BY <1>3, OneCallMoves, Zenon
<1>5. CASE Call(t)
  <2>1. PICK op \in Ops, d \in Data \cup {None} : BeginCall(t, op, d)
    BY <1>5, Zenon DEF Call
  <2>2. /\ thn.pc = "bump" /\ thn.promise = None /\ thn.ptr = th.ptr /\ thn.wrote = th.wrote
        /\ thn.req.op = op /\ thn.req.data = d /\ thn.req.by = t
        /\ op \in {"free", "htod", "dtoh"} => thn.req.ptr = th.ptr
        /\ th.pc = "idle" /\ cl.net # "gone" /\ Sensible(t, op, d)
        /\ cln = cl
    BY <2>1, <1>1, Zenon DEF BeginCall, Shape, ThreadStates
  <2>3. Rest(cl, toD[c], toC[c])
    BY <1>2, <2>2, Zenon DEF CallOK, Flight, Before, Queued, Sent, Answered, Resolved, Lost
  <2> HIDE DEF th, cl, thn, cln, c
  <2>4. Flight(t, thn, cln, toD[c], toC[c])
    BY <2>2, <2>3, Zenon DEF Flight, Before
  <2>5. Waiting(t, thn, cln)
    BY <2>2, Zenon DEF Waiting
  <2>6. Program(thn)
    BY <1>2, <2>2, Zenon DEF Program, Sensible, CallOK, th
  <2> QED  BY <2>4, <2>5, <2>6, Zenon DEF CallOK
<1>6. CASE BumpId(t) \/ RegisterPending(t) \/ PushOutbound(t) \/ Signal(t)
  <2>1. /\ thn.promise = th.promise /\ thn.req = th.req
        /\ thn.ptr = th.ptr /\ thn.wrote = th.wrote
    BY <1>6, <1>1 DEF BumpId, RegisterPending, PushOutbound, Signal, Shape, ThreadStates
  <2>2. th.pc \in {"bump", "register", "queue", "signal"}
    BY <1>6, Zenon DEF BumpId, RegisterPending, PushOutbound, Signal
  <2>3. CASE BumpId(t)
    <3>1. /\ th.pc = "bump" /\ thn.pc = "register" /\ cln.outbound = cl.outbound
          /\ cln.wakeup = cl.wakeup /\ cln.pending = cl.pending /\ cln.net = cl.net
      BY <2>3, <1>1, Zenon DEF BumpId, Shape, ThreadStates, ClientStates
    <3> HIDE DEF th, cl, thn, cln, c
    <3> QED  BY <1>2, <2>1, <3>1, Zenon
             DEF CallOK, Flight, Before, Queued, Sent, Answered, Resolved, Lost, Rest, Waiting, Program
  <2>4. CASE RegisterPending(t)
    <3>1. /\ th.pc = "register" /\ thn.pc = "queue" /\ cln.outbound = cl.outbound
          /\ cln.wakeup = cl.wakeup /\ cln.net = cl.net
          /\ th.req.id \in DOMAIN cln.pending /\ cln.pending[th.req.id] = t
      BY <2>4, <1>1, Zenon DEF RegisterPending, Shape, ThreadStates, ClientStates
    <3> HIDE DEF th, cl, thn, cln, c
    <3> QED  BY <1>2, <2>1, <3>1, Zenon
             DEF CallOK, Flight, Before, Queued, Sent, Answered, Resolved, Lost, Rest, Waiting, Program
  <2>5. CASE PushOutbound(t)
    <3>1. /\ th.pc = "queue" /\ thn.pc = "signal"
          /\ cln.outbound = Append(cl.outbound, th.req)
          /\ cln.wakeup = cl.wakeup /\ cln.pending = cl.pending /\ cln.net = cl.net
      BY <2>5, <1>1, Zenon DEF PushOutbound, Shape, ThreadStates, ClientStates
    <3> HIDE DEF th, cl, thn, cln, c
    <3>2. Rest(cl, toD[c], toC[c]) /\ th.promise = None
      BY <1>2, <3>1, Zenon
         DEF CallOK, Flight, Before, Queued, Sent, Answered, Resolved, Lost, Waiting
    <3>3. cln.outbound = <<th.req>>
      BY <3>1, <3>2, One, Zenon DEF Rest
    <3>4. Queued(thn, cln, toD[c], toC[c])
      BY <2>1, <3>1, <3>2, <3>3, Zenon DEF Queued, Rest
    <3> QED  BY <1>2, <2>1, <3>1, <3>4, Zenon DEF CallOK, Flight, Waiting, Program
  <2>6. CASE Signal(t)
    <3>1. /\ th.pc = "signal" /\ thn.pc = "wait" /\ cln.outbound = cl.outbound
          /\ cln.wakeup = TRUE /\ cln.pending = cl.pending /\ cln.net = cl.net
      BY <2>6, <1>1, Zenon DEF Signal, Shape, ThreadStates, ClientStates
    <3> HIDE DEF th, cl, thn, cln, c
    <3>2. Queued(th, cl, toD[c], toC[c])
      BY <1>2, <3>1, Zenon DEF CallOK, Flight, Before, Sent, Answered, Resolved, Lost
    <3>3. Queued(thn, cln, toD[c], toC[c])
      BY <2>1, <3>1, <3>2, Zenon DEF Queued
    <3> QED  BY <1>2, <2>1, <3>1, <3>3, Zenon DEF CallOK, Flight, Waiting, Program
  <2> QED  BY <1>6, <2>3, <2>4, <2>5, <2>6, Zenon
<1>7. CASE Return(t)
  <2>1. /\ th.pc = "wait" /\ th.promise # None
        /\ thn.pc = "idle" /\ thn.promise = th.promise /\ thn.req = th.req
        /\ cln = cl
    BY <1>7, <1>1, Zenon DEF Return, Shape, ThreadStates
  <2>2. /\ thn.ptr = IF th.promise.err = 0 /\ th.req.op = "malloc" THEN th.promise.ptr
                     ELSE IF th.promise.err = 0 /\ th.req.op = "free" THEN None ELSE th.ptr
        /\ thn.wrote = IF th.promise.err = 0 /\ th.req.op = "htod" THEN th.req.data
                       ELSE IF th.req.op \in {"malloc", "free"} THEN None ELSE th.wrote
    BY <1>7, <1>1, Zenon DEF Return, Shape, ThreadStates
  <2> HIDE DEF th, cl, thn, cln, c
  <2>3. Rest(cl, toD[c], toC[c])
    BY <1>2, <2>1, Zenon DEF CallOK, Flight, Before, Queued, Sent, Answered, Resolved, Lost
  <2>4. Flight(t, thn, cln, toD[c], toC[c])
    BY <2>1, <2>3, Zenon DEF Flight, Before
  <2>5. Waiting(t, thn, cln)
    BY <1>2, <2>1, Zenon DEF CallOK, Waiting
  <2>6. Program(thn)
    BY <1>2, <2>1, <2>2, Zenon DEF CallOK, Program
  <2> QED  BY <2>4, <2>5, <2>6, Zenon DEF CallOK
<1> QED
  BY <1>5, <1>6, <1>7, Zenon DEF InCall

\* A step that leaves all calls where they are.
LEMMA NothingMoves ==
  ASSUME Called, Unused, UNCHANGED <<thr, cli, toD, toC>>
  PROVE  Called' /\ Unused'
BY Zenon DEF Called, Unused

\* The steps of the client's network thread, and of its destructor.
LEMMA ClientSteps ==
  ASSUME OneThreadEach, Shape, Called, Unused, NEW c \in Clients,
         Network(c) \/ DestroyClient(c)
  PROVE  Called' /\ Unused'
<1> DEFINE cl == cli[c]
           cln == cli'[c]
<1>1. cl \in ClientStates
  BY Zenon DEF Shape
<1>2. \A k \in Clients \ {c} : cli'[k] = cli[k] /\ toD'[k] = toD[k] /\ toC'[k] = toC[k]
  BY Zenon DEF Network, DestroyClient, OnConnect, OnConnectFailed, OnWakeup, OnPeerRead, Shape
<1>3. CASE \A t \in Threads : ClientOf[t] # c
  <2>1. Rest(cl, toD[c], toC[c])
    BY <1>3, Zenon DEF Unused
  <2>2. ~OnWakeup(c) /\ ~OnPeerRead(c)
    BY <2>1, Zenon DEF OnWakeup, OnPeerRead, Rest
  <2>3. UNCHANGED thr
    BY <2>2, Zenon DEF Network, OnConnect, OnConnectFailed, DestroyClient
  <2>4. Called'
    <3>1. \A t \in Threads : ClientOf[t] \in Clients \ {c}
      BY <1>3, GpuAssumption, Zenon
    <3> QED  BY <1>2, <2>3, <3>1, CallKept, Zenon DEF Called
  <2>5. Rest(cln, toD'[c], toC'[c])
    <3>1. CASE DestroyClient(c)
      BY <3>1, <2>1, <1>1, Zenon DEF DestroyClient, Rest, Shape, ClientStates
    <3>2. CASE OnConnect(c) \/ OnConnectFailed(c)
      <4>1. /\ cln.outbound = cl.outbound /\ cln.wakeup = cl.wakeup
            /\ toD' = toD /\ toC' = toC
        BY <3>2, <1>1 DEF OnConnect, OnConnectFailed, Shape, ClientStates
      <4> QED  BY <2>1, <4>1, Zenon DEF Rest
    <3> QED  BY <2>2, <3>1, <3>2, Zenon DEF Network
  <2>6. Unused'
    BY <1>2, <2>5, Zenon DEF Unused
  <2> QED  BY <2>4, <2>6, Zenon
<1>4. ASSUME NEW t \in Threads, ClientOf[t] = c
      PROVE  Called' /\ Unused'
  <2> DEFINE th == thr[t]
             thn == thr'[t]
  <2>1. CallOK(t, th, cl, toD[c], toC[c]) /\ th \in ThreadStates
    BY <1>4, Zenon DEF Called, Shape
  <2>2. CASE DestroyClient(c)
    <3>1. /\ th.pc = "idle" /\ thr' = thr
          /\ cln.outbound = <<>> /\ ~cln.wakeup /\ toD' = toD /\ toC'[c] = <<>>
          /\ cln.pending = cl.pending
      BY <1>1, <1>4, <2>2, Zenon DEF DestroyClient, Shape, ClientStates
    <3>2. Rest(cl, toD[c], toC[c])
      BY <2>1, <3>1, Zenon DEF CallOK, Flight, Before, Queued, Sent, Answered, Resolved, Lost
    <3>3. CallOK(t, th, cln, toD'[c], toC'[c])
      <4> HIDE DEF th, cl, cln
      <4> QED  BY <2>1, <3>1, <3>2, Zenon DEF CallOK, Flight, Before, Rest, Waiting, Program
    <3> QED  BY <1>2, <1>4, <3>1, <3>3, OneCallMoves, Zenon
  <2>3. CASE OnConnect(c) \/ OnConnectFailed(c)
    <3>1. /\ thr' = thr /\ toD' = toD /\ toC' = toC
          /\ cln.outbound = cl.outbound /\ cln.wakeup = cl.wakeup /\ cln.pending = cl.pending
          /\ cln.net # "gone"
      BY <1>1, <2>3 DEF OnConnect, OnConnectFailed, Shape, ClientStates
    <3>2. CallOK(t, th, cln, toD'[c], toC'[c])
      <4> HIDE DEF th, cl, cln
      <4>1. Flight(t, th, cln, toD'[c], toC'[c])
        BY <2>1, <3>1, Zenon
           DEF CallOK, Flight, Before, Queued, Sent, Answered, Resolved, Lost, Rest
      <4> QED  BY <2>1, <3>1, <4>1, Zenon DEF CallOK, Waiting
    <3> QED  BY <1>2, <1>4, <3>1, <3>2, OneCallMoves, Zenon
  <2>4. CASE OnWakeup(c)
    <3>1. /\ cl.wakeup /\ thr' = thr /\ toC' = toC
          /\ ~cln.wakeup /\ cln.outbound = <<>> /\ cln.pending = cl.pending /\ cln.net = cl.net
          /\ toD'[c] = toD[c] \o cl.outbound \/ toD'[c] = toD[c]
      BY <1>1, <2>4, Zenon DEF OnWakeup, Shape, ClientStates
    <3>2. Queued(th, cl, toD[c], toC[c]) /\ th.pc = "wait"
      BY <2>1, <3>1, Zenon DEF CallOK, Flight, Before, Queued, Sent, Answered, Resolved, Lost, Rest
    <3>3. toD'[c] = <<th.req>> \/ toD'[c] = <<>>
      <4>1. cl.outbound = <<th.req>> /\ toD[c] = <<>>
        BY <3>2, Zenon DEF Queued
      <4> HIDE DEF cl, th
      <4> QED  BY <3>1, <4>1, One, Zenon
    <3>4. CallOK(t, th, cln, toD'[c], toC'[c])
      <4> HIDE DEF th, cl, cln
      <4>1. Sent(th, cln, toD'[c], toC'[c]) \/ Lost(th, cln, toD'[c], toC'[c])
        BY <3>1, <3>2, <3>3, Zenon DEF Queued, Sent, Lost, Rest
      <4> QED  BY <2>1, <3>1, <4>1, Zenon DEF CallOK, Flight, Waiting
    <3> QED  BY <1>2, <1>4, <3>1, <3>4, OneCallMoves, Zenon
  <2>5. CASE OnPeerRead(c)
    <3>1. toC[c] # <<>>
      BY <2>5, Zenon DEF OnPeerRead
    <3>2. Answered(t, th, cl, toD[c], toC[c])
      BY <2>1, <3>1, Zenon DEF CallOK, Flight, Before, Queued, Sent, Resolved, Lost, Rest
    <3>3. PICK x \in Responses : toC[c] = <<x>> /\ x.id = th.req.id /\ x.by = t
      BY <3>2, Zenon DEF Answered
    <3>4. Head(toC[c]) = x /\ Tail(toC[c]) = <<>>
      BY <3>3, One, Zenon
    <3>5. x.id \in DOMAIN cl.pending /\ cl.pending[x.id] = t
      BY <2>1, <3>2, <3>3, Zenon DEF CallOK, Waiting, Answered
    <3>6. /\ thr' = [thr EXCEPT ![t].promise = x]
          /\ toC' = [toC EXCEPT ![c] = <<>>] /\ toD' = toD
      BY <2>5, <3>4, <3>5, Zenon DEF OnPeerRead
    <3>7. cln.outbound = cl.outbound /\ cln.wakeup = cl.wakeup /\ cln.net = cl.net
      BY <1>1, <2>5, Zenon DEF OnPeerRead, Shape, ClientStates
    <3>8. /\ thn.promise = x /\ thn.pc = th.pc /\ thn.req = th.req
          /\ thn.ptr = th.ptr /\ thn.wrote = th.wrote
          /\ \A u \in Threads \ {t} : thr'[u] = thr[u]
          /\ toC'[c] = <<>>
      BY <2>1, <3>6, Zenon DEF Shape, ThreadStates
    <3>9. x # None
      BY GpuAssumption, Zenon
    <3>10. CallOK(t, thn, cln, toD'[c], toC'[c])
      <4> HIDE DEF th, cl, cln, thn
      <4>1. Resolved(thn, cln, toD'[c], toC'[c])
        BY <3>2, <3>6, <3>7, <3>8, <3>9, Zenon DEF Answered, Resolved, Rest
      <4>2. Waiting(t, thn, cln)
        BY <2>1, <3>2, <3>3, <3>7, <3>8, <3>9, Zenon DEF CallOK, Waiting, Answered
      <4> QED  BY <2>1, <3>8, <4>1, <4>2, Zenon DEF CallOK, Flight, Program
    <3> QED  BY <1>2, <1>4, <3>8, <3>10, OneCallMoves, Zenon
  <2> QED  BY <2>2, <2>3, <2>4, <2>5, Zenon DEF Network
<1> QED
  BY <1>3, <1>4, Zenon

\* The request gpud handles is the one of the thread that calls through this
\* client, and its answer is the only message on the way back.
LEMMA HandleFacts ==
  ASSUME OneThreadEach, Shape, Called, Unused, NEW c \in Clients, HandleRequest(c)
  PROVE  \E t \in Threads : \E done \in process_request(thr[t].req) :
           /\ ClientOf[t] = c
           /\ Sent(thr[t], cli[c], toD[c], toC[c])
           /\ dev' = done.dev
           /\ toD' = [toD EXCEPT ![c] = <<>>]
           /\ toC' = [toC EXCEPT ![c] = <<done.resp>>]
           /\ UNCHANGED <<thr, cli, sess, gpud>>
<1>1. toD[c] # <<>>
  BY Zenon DEF HandleRequest
<1>2. PICK t \in Threads : ClientOf[t] = c
  BY <1>1, Zenon DEF Unused, Rest
<1>3. CallOK(t, thr[t], cli[c], toD[c], toC[c])
  BY <1>2, Zenon DEF Called
<1>4. Sent(thr[t], cli[c], toD[c], toC[c])
  BY <1>1, <1>3, Zenon DEF CallOK, Flight, Before, Queued, Answered, Resolved, Lost, Rest
<1>5. toD[c] = <<thr[t].req>> /\ toC[c] = <<>> /\ cli[c].net # "gone"
  BY <1>3, <1>4, Zenon DEF Sent, CallOK, Waiting
<1>6. Head(toD[c]) = thr[t].req /\ Tail(toD[c]) = <<>>
  BY <1>5, One, Zenon
<1>7. PICK done \in process_request(thr[t].req) :
        dev' = done.dev /\ toC' = [toC EXCEPT ![c] = Append(toC[c], done.resp)]
  BY <1>5, <1>6, Zenon DEF HandleRequest
<1>8. toC' = [toC EXCEPT ![c] = <<done.resp>>]
  <2>1. Append(toC[c], done.resp) = <<done.resp>>
    BY <1>5, One, Zenon
  <2> QED  BY <1>7, <2>1, Zenon
<1>9. toD' = [toD EXCEPT ![c] = <<>>] /\ UNCHANGED <<thr, cli, sess, gpud>>
  BY <1>6, Zenon DEF HandleRequest
<1> QED
  BY <1>2, <1>4, <1>7, <1>8, <1>9, Zenon

\* The steps of gpud's loop.
LEMMA DaemonSteps ==
  ASSUME OneThreadEach, Shape, Called, Unused,
         Stop \/ OnStop \/ \E c \in Clients : Daemon(c)
  PROVE  Called' /\ Unused'
<1>1. CASE Stop \/ \E c \in Clients : OnConnection(c) \/ SessionEof(c)
  BY <1>1, NothingMoves, Zenon DEF Stop, OnConnection, SessionEof
<1>2. ASSUME NEW c \in Clients, HandleRequest(c)
      PROVE  Called' /\ Unused'
  <2>1. PICK t \in Threads : \E done \in process_request(thr[t].req) :
           /\ ClientOf[t] = c
           /\ Sent(thr[t], cli[c], toD[c], toC[c])
           /\ dev' = done.dev
           /\ toD' = [toD EXCEPT ![c] = <<>>]
           /\ toC' = [toC EXCEPT ![c] = <<done.resp>>]
           /\ UNCHANGED <<thr, cli, sess, gpud>>
    BY <1>2, HandleFacts, Zenon
  <2>2. PICK done \in process_request(thr[t].req) :
           /\ ClientOf[t] = c
           /\ Sent(thr[t], cli[c], toD[c], toC[c])
           /\ toD' = [toD EXCEPT ![c] = <<>>]
           /\ toC' = [toC EXCEPT ![c] = <<done.resp>>]
           /\ UNCHANGED <<thr, cli>>
    BY <2>1, Zenon
  <2>3. CallOK(t, thr[t], cli[c], toD[c], toC[c])
    BY <2>2, Zenon DEF Called
  <2>4. thr[t].req \in Sane /\ thr[t].req.by = t
    BY <2>2, <2>3, Zenon DEF Shape, Sent, CallOK, Waiting
  <2>5. done.resp \in Responses /\ done.resp.id = thr[t].req.id /\ done.resp.by = t
    BY <2>4, ProcessShape, Zenon DEF Shape
  <2>6. /\ toD'[c] = <<>> /\ toC'[c] = <<done.resp>>
        /\ \A k \in Clients \ {c} : toD'[k] = toD[k] /\ toC'[k] = toC[k]
    BY <2>2, Zenon DEF Shape
  <2>7. Answered(t, thr[t], cli[c], toD'[c], toC'[c])
    BY <2>2, <2>5, <2>6, Zenon DEF Sent, Answered
  <2>8. CallOK(t, thr'[t], cli'[c], toD'[c], toC'[c])
    BY <2>2, <2>3, <2>7, Zenon DEF CallOK, Flight
  <2> QED  BY <2>2, <2>6, <2>8, OneCallMoves, Zenon
<1>3. CASE OnStop
  <2>1. /\ UNCHANGED <<thr, cli>>
        /\ \A c \in Clients : toD'[c] = <<>> /\ (toC'[c] = toC[c] \/ toC'[c] = <<>>)
    BY <1>3, Zenon DEF OnStop
  <2>2. ASSUME NEW t \in Threads
        PROVE  CallOK(t, thr[t], cli[ClientOf[t]], toD'[ClientOf[t]], toC'[ClientOf[t]])
    <3> DEFINE c == ClientOf[t]
               th == thr[t]
               cl == cli[c]
    <3>1. c \in Clients
      BY GpuAssumption, Zenon
    <3>2. CallOK(t, th, cl, toD[c], toC[c])
      BY Zenon DEF Called
    <3>3. toD'[c] = <<>> /\ (toC'[c] = toC[c] \/ toC'[c] = <<>>)
      BY <2>1, <3>1, Zenon
    <3> HIDE DEF th, cl, c
    <3>4. Flight(t, th, cl, toD'[c], toC'[c])
      <4>1. CASE Sent(th, cl, toD[c], toC[c])
        BY <3>3, <4>1, Zenon DEF Flight, Sent, Lost, Rest
      <4>2. CASE Answered(t, th, cl, toD[c], toC[c])
        BY <3>3, <4>2, Zenon DEF Flight, Answered, Lost, Rest
      <4>3. CASE Before(th, cl, toD[c], toC[c])
        BY <3>3, <4>3, Zenon DEF Flight, Before, Rest
      <4>4. CASE Queued(th, cl, toD[c], toC[c])
        BY <3>3, <4>4, Zenon DEF Flight, Queued
      <4>5. CASE Resolved(th, cl, toD[c], toC[c]) \/ Lost(th, cl, toD[c], toC[c])
        BY <3>3, <4>5, Zenon DEF Flight, Resolved, Lost, Rest
      <4> QED  BY <3>2, <4>1, <4>2, <4>3, <4>4, <4>5, Zenon DEF CallOK, Flight
    <3>5. CallOK(t, th, cl, toD'[c], toC'[c])
      BY <3>2, <3>4, Zenon DEF CallOK
    <3> QED  BY <3>5, Zenon DEF th, cl, c
  <2>3. Called'
    BY <2>1, <2>2, Zenon DEF Called
  <2>4. Unused'
    BY <2>1, Zenon DEF Unused, Rest
  <2> QED  BY <2>3, <2>4, Zenon
<1> QED
  BY <1>1, <1>2, <1>3, Zenon DEF Daemon

\* The inductive invariant of the calls.
Placed == Shape /\ Called /\ Unused

LEMMA InitPlaced == Init => Placed
<1> SUFFICES ASSUME Init  PROVE Called /\ Unused
  BY InitShape, Zenon DEF Placed
<1>1. \A c \in Clients : Rest(cli[c], toD[c], toC[c])
  BY Zenon DEF Init, Rest
<1>2. \A t \in Threads : ClientOf[t] \in Clients
  BY GpuAssumption, Zenon
<1>3. \A t \in Threads : thr[t].pc = "idle" /\ thr[t].promise = None /\ thr[t].wrote = None
  BY Zenon DEF Init
<1>4. Called
  BY <1>1, <1>2, <1>3, Zenon DEF Called, CallOK, Flight, Before, Waiting, Program
<1> QED
  BY <1>1, <1>4, Zenon DEF Unused

LEMMA PlacedStep == OneThreadEach /\ Placed /\ [Next]_vars => Placed'
<1> SUFFICES ASSUME OneThreadEach, Placed, [Next]_vars  PROVE Placed'
  BY Zenon
<1>1. Shape'
  BY ShapeStep, Zenon DEF Placed
<1>2. CASE UNCHANGED vars
  BY <1>1, <1>2, NothingMoves, Zenon DEF vars, Placed
<1>3. CASE Next
  <2>1. CASE \E t \in Threads : Call(t) \/ InCall(t)
    BY <1>1, <2>1, CallSteps, Zenon DEF Placed
  <2>2. CASE \E c \in Clients : Network(c) \/ DestroyClient(c)
    BY <1>1, <2>2, ClientSteps, Zenon DEF Placed
  <2>3. CASE Stop \/ OnStop \/ \E c \in Clients : Daemon(c)
    BY <1>1, <2>3, DaemonSteps, Zenon DEF Placed
  <2> QED  BY <1>3, <2>1, <2>2, <2>3, Zenon DEF Next
<1> QED
  BY <1>2, <1>3, Zenon

-------------------------------------------------------------------------------
(***************************************************************************)
(* What a program has on the device.                                       *)
(***************************************************************************)
Doing(th, op) == th.pc # "idle" /\ th.req.op = op

\* gpud has carried out the request and its answer is on the way or here.
Executed(th, a) == th.pc = "wait" /\ (th.promise # None \/ a # <<>>)

Reply(th, a) == IF th.promise # None THEN th.promise ELSE Head(a)

Own(th) == {p \in Ptrs : th.ptr = p}

\* The pointer of an executed malloc is kept before the program holds it, the
\* one of an executed free no longer while it still does.
Keeps(th, a) ==
  {p \in Ptrs :
     IF Doing(th, "malloc") /\ Executed(th, a)
       THEN Reply(th, a).err = 0 /\ Reply(th, a).ptr = p
       ELSE th.ptr = p /\ ~(Doing(th, "free") /\ Executed(th, a))}

\* Whether a free that was lost had been executed is not known.
Claim(th, cl, d, a) ==
  IF Doing(th, "free") /\ Lost(th, cl, d, a) THEN {} ELSE Keeps(th, a)

\* What an answer says of the device.
Replied(th, a, dv) ==
  Executed(th, a) =>
    /\ th.req.op \in {"free", "htod", "dtoh"} => Reply(th, a).err = 0
    /\ th.req.op = "malloc" /\ Reply(th, a).err = 0 => Reply(th, a).ptr \in Ptrs
    /\ th.req.op = "htod" => dv.mem[th.ptr] = th.req.data
    /\ th.req.op = "dtoh" => Reply(th, a).data = dv.mem[th.ptr]

\* The device holds what the program wrote, unless a copy that may have been
\* carried out has not returned.
Stored(th, cl, d, a, dv) ==
  /\ th.wrote # None /\ th.ptr \in Claim(th, cl, d, a)
  /\ ~(Doing(th, "htod") /\ (Executed(th, a) \/ Lost(th, cl, d, a)))
  => dv.mem[th.ptr] = th.wrote

DeviceOK(th, cl, d, a, dv) ==
  /\ Claim(th, cl, d, a) \subseteq dv.allocations_
  /\ Replied(th, a, dv)
  /\ Stored(th, cl, d, a, dv)
  /\ th.seen # None /\ th.wrote # None => th.seen = th.wrote

ClaimOf(t) == Claim(thr[t], cli[ClientOf[t]], toD[ClientOf[t]], toC[ClientOf[t]])

Served == \A t \in Threads :
  DeviceOK(thr[t], cli[ClientOf[t]], toD[ClientOf[t]], toC[ClientOf[t]], dev)

Exclusive == \A t, u \in Threads : t # u => ClaimOf(t) \cap ClaimOf(u) = {}

Early(th, cl, d, a) == Before(th, cl, d, a) \/ Queued(th, cl, d, a) \/ Sent(th, cl, d, a)

\* Where a call is, in three parts.
LEMMA Stages ==
  ASSUME NEW t, NEW th, NEW cl, NEW d, NEW a, CallOK(t, th, cl, d, a)
  PROVE  Early(th, cl, d, a) \/ Executed(th, a) \/ Lost(th, cl, d, a)
<1>1. \A x : <<x>> # <<>>
  BY One, Zenon
<1>2. Answered(t, th, cl, d, a) => Executed(th, a)
  BY <1>1, Zenon DEF Answered, Executed
<1>3. Resolved(th, cl, d, a) => Executed(th, a)
  BY Zenon DEF Resolved, Executed
<1> QED
  BY <1>2, <1>3, Zenon DEF CallOK, Flight, Early

\* What a program claims before its request is carried out,
LEMMA ClaimEarly ==
  ASSUME NEW th, NEW cl, NEW d, NEW a, Early(th, cl, d, a)
  PROVE  /\ ~Executed(th, a) /\ ~Lost(th, cl, d, a)
         /\ Claim(th, cl, d, a) = Own(th) /\ Keeps(th, a) = Own(th)
<1>1. \A x : <<x>> # <<>>
  BY One, Zenon
<1>2. ~Executed(th, a) /\ ~Lost(th, cl, d, a)
  BY <1>1, Zenon DEF Early, Before, Queued, Sent, Executed, Lost, Rest
<1>3. Keeps(th, a) = Own(th)
  BY <1>2, Zenon DEF Keeps, Own
<1> QED
  BY <1>2, <1>3, Zenon DEF Claim

\* once it has been,
LEMMA ClaimExecuted ==
  ASSUME NEW th, NEW cl, NEW d, NEW a, Executed(th, a)
  PROVE  /\ Claim(th, cl, d, a) = Keeps(th, a)
         /\ th.req.op = "malloc" =>
              Keeps(th, a) = {p \in Ptrs : Reply(th, a).err = 0 /\ Reply(th, a).ptr = p}
         /\ th.req.op = "free" => Keeps(th, a) = {}
         /\ th.req.op \notin {"malloc", "free"} => Keeps(th, a) = Own(th)
<1>1. th.pc # "idle" /\ ~Lost(th, cl, d, a)
  BY Zenon DEF Executed, Lost, Rest
<1>2. Claim(th, cl, d, a) = Keeps(th, a)
  BY <1>1, Zenon DEF Claim
<1>3. th.req.op = "malloc" =>
        Keeps(th, a) = {p \in Ptrs : Reply(th, a).err = 0 /\ Reply(th, a).ptr = p}
  BY <1>1, Zenon DEF Keeps, Doing
<1>4. th.req.op = "free" => Keeps(th, a) = {}
  BY <1>1, Zenon DEF Keeps, Doing
<1>5. th.req.op \notin {"malloc", "free"} => Keeps(th, a) = Own(th)
  BY Zenon DEF Keeps, Doing, Own
<1> QED
  BY <1>2, <1>3, <1>4, <1>5, Zenon

\* and when it was lost.
LEMMA ClaimLost ==
  ASSUME NEW th, NEW cl, NEW d, NEW a, Lost(th, cl, d, a)
  PROVE  /\ ~Executed(th, a) /\ th.pc = "wait"
         /\ th.req.op = "free" => Claim(th, cl, d, a) = {}
         /\ th.req.op # "free" => Claim(th, cl, d, a) = Own(th)
<1>1. ~Executed(th, a) /\ th.pc = "wait"
  BY Zenon DEF Executed, Lost, Rest
<1>2. Keeps(th, a) = Own(th)
  BY <1>1, Zenon DEF Keeps, Own
<1>3. th.req.op = "free" => Claim(th, cl, d, a) = {}
  BY <1>1, Zenon DEF Claim, Doing
<1>4. th.req.op # "free" => Claim(th, cl, d, a) = Own(th)
  BY <1>2, Zenon DEF Claim, Doing
<1> QED
  BY <1>1, <1>3, <1>4, Zenon

LEMMA ClaimOther ==
  ASSUME NEW th, NEW cl, NEW d, NEW a, th.req.op \notin {"malloc", "free"}
  PROVE  Claim(th, cl, d, a) = Own(th)
BY Zenon DEF Claim, Keeps, Doing, Own

\* A step before the request is carried out.
LEMMA EarlyMove ==
  ASSUME NEW t, NEW th, NEW cl, NEW d, NEW a, CallOK(t, th, cl, d, a),
         NEW thn, NEW cln, NEW dn, NEW an, CallOK(t, thn, cln, dn, an),
         Early(th, cl, d, a), Early(thn, cln, dn, an),
         thn.ptr = th.ptr, thn.wrote = th.wrote, thn.seen = th.seen,
         NEW dv, DeviceOK(th, cl, d, a, dv)
  PROVE  /\ Claim(thn, cln, dn, an) \subseteq Claim(th, cl, d, a)
         /\ Keeps(thn, an) = Keeps(th, a)
         /\ DeviceOK(thn, cln, dn, an, dv)
<1>1. /\ ~Executed(th, a) /\ ~Lost(th, cl, d, a)
      /\ Claim(th, cl, d, a) = Own(th) /\ Keeps(th, a) = Own(th)
  BY ClaimEarly, Zenon
<1>2. /\ ~Executed(thn, an) /\ ~Lost(thn, cln, dn, an)
      /\ Claim(thn, cln, dn, an) = Own(thn) /\ Keeps(thn, an) = Own(thn)
  BY ClaimEarly, Zenon
<1>3. Own(thn) = Own(th)
  BY Zenon DEF Own
<1> QED
  BY <1>1, <1>2, <1>3, Zenon DEF DeviceOK, Replied, Stored

\* A step of the network that leaves the thread alone.  It may lose a request
\* or an answer.
LEMMA NetworkMove ==
  ASSUME NEW t, NEW th, NEW cl, NEW d, NEW a, CallOK(t, th, cl, d, a),
         NEW cln, NEW dn, NEW an, CallOK(t, th, cln, dn, an),
         an = a \/ an = <<>>,
         Early(th, cl, d, a) \/ ~Early(th, cln, dn, an),
         NEW dv, DeviceOK(th, cl, d, a, dv)
  PROVE  /\ Claim(th, cln, dn, an) \subseteq Claim(th, cl, d, a)
         /\ an = a => Keeps(th, an) = Keeps(th, a)
         /\ DeviceOK(th, cln, dn, an, dv)
<1>1. CASE Early(th, cln, dn, an)
  BY <1>1, EarlyMove
<1>2. CASE Executed(th, an)
  <2>0. Executed(th, a)
    BY <1>2, Zenon DEF Executed
  <2>1. Reply(th, an) = Reply(th, a) /\ Keeps(th, an) = Keeps(th, a)
    BY <1>2, Zenon DEF Executed, Reply, Keeps
  <2>2. Claim(th, cln, dn, an) = Claim(th, cl, d, a)
    <3>1. Claim(th, cln, dn, an) = Keeps(th, an)
      BY <1>2, ClaimExecuted, Zenon
    <3>2. Claim(th, cl, d, a) = Keeps(th, a)
      BY <2>0, ClaimExecuted, Zenon
    <3> QED  BY <2>1, <3>1, <3>2, Zenon
  <2> QED  BY <1>2, <2>0, <2>1, <2>2, Zenon DEF DeviceOK, Replied, Stored
<1>3. CASE Lost(th, cln, dn, an)
  <2>1. /\ ~Executed(th, an) /\ th.pc = "wait"
        /\ th.req.op = "free" => Claim(th, cln, dn, an) = {}
        /\ th.req.op # "free" => Claim(th, cln, dn, an) = Own(th)
    BY <1>3, ClaimLost, Zenon
  <2>2. th.req.op = "malloc" => Own(th) = {}
    BY <2>1, GpuAssumption, Zenon DEF CallOK, Program, Own
  <2>3. th.req.op \notin {"malloc", "free"} => Claim(th, cl, d, a) = Own(th)
    BY ClaimOther, Zenon
  <2>4. Claim(th, cln, dn, an) \subseteq Claim(th, cl, d, a)
    BY <2>1, <2>2, <2>3, Zenon
  <2>5. Stored(th, cln, dn, an, dv)
    <3>1. SUFFICES ASSUME th.wrote # None, th.ptr \in Claim(th, cln, dn, an),
                          th.req.op # "htod"
                   PROVE  dv.mem[th.ptr] = th.wrote
      BY <1>3, <2>1, Zenon DEF Stored, Doing
    <3> QED  BY <2>4, <3>1, Zenon DEF DeviceOK, Stored, Doing
  <2>6. an = a => Keeps(th, an) = Keeps(th, a)
    BY Zenon
  <2> QED  BY <2>1, <2>4, <2>5, <2>6, Zenon DEF DeviceOK, Replied
<1> QED
  BY <1>1, <1>2, <1>3, Stages, Zenon

\* on_peer_read moves the answer from the connection to the promise.
LEMMA AnswerMove ==
  ASSUME NEW t, NEW th, NEW cl, NEW d, NEW a, CallOK(t, th, cl, d, a),
         NEW thn, NEW cln, NEW dn, NEW an, CallOK(t, thn, cln, dn, an),
         Answered(t, th, cl, d, a), Resolved(thn, cln, dn, an),
         thn.promise = Head(a), thn.req = th.req,
         thn.ptr = th.ptr, thn.wrote = th.wrote, thn.seen = th.seen,
         NEW dv, DeviceOK(th, cl, d, a, dv)
  PROVE  /\ Claim(thn, cln, dn, an) \subseteq Claim(th, cl, d, a)
         /\ Keeps(thn, an) = Keeps(th, a)
         /\ DeviceOK(thn, cln, dn, an, dv)
<1>1. Executed(th, a) /\ Executed(thn, an)
  BY One, Zenon DEF Answered, Resolved, Executed
<1>2. Reply(thn, an) = Reply(th, a)
  BY Zenon DEF Answered, Resolved, Reply
<1>3. Doing(thn, "malloc") = Doing(th, "malloc") /\ Doing(thn, "free") = Doing(th, "free")
      /\ Doing(thn, "htod") = Doing(th, "htod")
  BY Zenon DEF Answered, Resolved, Doing
<1>4. Keeps(thn, an) = Keeps(th, a)
  BY <1>1, <1>2, <1>3, Zenon DEF Keeps
<1>5. Claim(thn, cln, dn, an) = Claim(th, cl, d, a)
  <2>1. Claim(thn, cln, dn, an) = Keeps(thn, an)
    BY <1>1, ClaimExecuted, Zenon
  <2>2. Claim(th, cl, d, a) = Keeps(th, a)
    BY <1>1, ClaimExecuted, Zenon
  <2> QED  BY <1>4, <2>1, <2>2, Zenon
<1> QED
  BY <1>1, <1>2, <1>3, <1>4, <1>5, Zenon DEF DeviceOK, Replied, Stored

\* The call returns: a program reads what its buffer held.
LEMMA ReturnMove ==
  ASSUME NEW t, NEW th, NEW cl, NEW d, NEW a, CallOK(t, th, cl, d, a),
         NEW thn, CallOK(t, thn, cl, d, a), th.req.op \in Ops,
         th.ptr \in Ptrs \cup {None},
         th.pc = "wait", th.promise # None, thn.pc = "idle",
         thn.ptr = IF th.promise.err = 0 /\ th.req.op = "malloc" THEN th.promise.ptr
                   ELSE IF th.promise.err = 0 /\ th.req.op = "free" THEN None ELSE th.ptr,
         thn.wrote = IF th.promise.err = 0 /\ th.req.op = "htod" THEN th.req.data
                     ELSE IF th.req.op \in {"malloc", "free"} THEN None ELSE th.wrote,
         thn.seen = IF th.promise.err = 0 /\ th.req.op = "dtoh" THEN th.promise.data
                    ELSE None,
         NEW dv, DeviceOK(th, cl, d, a, dv)
  PROVE  /\ Claim(thn, cl, d, a) \subseteq Claim(th, cl, d, a)
         /\ Keeps(thn, a) = Keeps(th, a)
         /\ DeviceOK(thn, cl, d, a, dv)
<1>1. Executed(th, a) /\ Reply(th, a) = th.promise
  BY Zenon DEF Executed, Reply
<1>2. Early(thn, cl, d, a)
  BY Zenon DEF CallOK, Flight, Early, Queued, Sent, Answered, Resolved, Lost
<1>3. /\ ~Executed(thn, a) /\ Claim(thn, cl, d, a) = Own(thn) /\ Keeps(thn, a) = Own(thn)
  BY <1>2, ClaimEarly, Zenon
<1>4. /\ th.req.op \in {"free", "htod", "dtoh"} => th.promise.err = 0
      /\ th.req.op = "malloc" /\ th.promise.err = 0 => th.promise.ptr \in Ptrs
      /\ th.req.op = "htod" => dv.mem[th.ptr] = th.req.data
      /\ th.req.op = "dtoh" => th.promise.data = dv.mem[th.ptr]
  BY <1>1, Zenon DEF DeviceOK, Replied
<1>5. /\ Claim(th, cl, d, a) = Keeps(th, a)
      /\ th.req.op = "malloc" =>
           Keeps(th, a) = {p \in Ptrs : Reply(th, a).err = 0 /\ Reply(th, a).ptr = p}
      /\ th.req.op = "free" => Keeps(th, a) = {}
      /\ th.req.op \notin {"malloc", "free"} => Keeps(th, a) = Own(th)
  BY <1>1, ClaimExecuted, Zenon
<1>6. Own(thn) = Keeps(th, a)
  <2>1. CASE th.req.op = "malloc"
    <3>1. th.ptr = None
      BY <2>1, Zenon DEF CallOK, Program
    <3>2. Keeps(th, a) = {p \in Ptrs : th.promise.err = 0 /\ th.promise.ptr = p}
      BY <1>1, <1>5, <2>1, Zenon
    <3>3. thn.ptr = IF th.promise.err = 0 THEN th.promise.ptr ELSE None
      BY <2>1, <3>1, Zenon
    <3> QED  BY <3>2, <3>3, GpuAssumption, Zenon DEF Own
  <2>2. CASE th.req.op = "free"
    <3>1. thn.ptr = None
      BY <1>4, <2>2, Zenon
    <3>2. Own(thn) = {}
      BY <3>1, GpuAssumption, Zenon DEF Own
    <3> QED  BY <1>5, <2>2, <3>2, Zenon
  <2>3. CASE th.req.op \notin {"malloc", "free"}
    <3>1. Own(thn) = Own(th)
      BY <2>3, Zenon DEF Own
    <3> QED  BY <1>5, <2>3, <3>1, Zenon
  <2> QED  BY <2>1, <2>2, <2>3, Zenon
<1>7. Replied(thn, a, dv)
  BY <1>3, Zenon DEF Replied
<1>8. thn.wrote # None => thn.ptr # None /\ dv.mem[thn.ptr] = thn.wrote
  <2>1. CASE th.req.op = "htod"
    BY <1>4, <2>1, Zenon DEF CallOK, Program
  <2>2. CASE th.req.op \in {"malloc", "free"}
    BY <2>2, Zenon
  <2>3. CASE th.req.op \in {"dtoh", "props"}
    <3>1. thn.ptr = th.ptr /\ thn.wrote = th.wrote
      BY <2>3, Zenon
    <3>2. th.wrote # None => th.ptr \in Claim(th, cl, d, a)
      <4>1. th.wrote # None => th.ptr \in Ptrs
        BY Zenon DEF CallOK, Program
      <4>2. Claim(th, cl, d, a) = Own(th)
        BY <2>3, ClaimOther, Zenon
      <4> QED  BY <4>1, <4>2, Zenon DEF Own
    <3>3. th.wrote # None => dv.mem[th.ptr] = th.wrote
      BY <2>3, <3>2, Zenon DEF DeviceOK, Stored, Doing
    <3> QED  BY <3>1, <3>3, Zenon DEF CallOK, Program
  <2> QED  BY <2>1, <2>2, <2>3, Zenon DEF Ops
<1>9. thn.seen # None /\ thn.wrote # None => thn.seen = thn.wrote
  BY <1>4, <1>8, Zenon
<1> QED
  BY <1>3, <1>5, <1>6, <1>7, <1>8, <1>9, Zenon DEF DeviceOK, Stored

-------------------------------------------------------------------------------
KeepsOf(t) == Keeps(thr[t], toC[ClientOf[t]])

Open == gpud # "down" /\ \A c \in Clients : sess[c] # "closed" /\ cli[c].net # "gone"

\* While nothing is closed, each allocation is some program's.
Accounted == Open => \A p \in dev.allocations_ : \E t \in Threads : p \in KeepsOf(t)

Device == Served /\ Exclusive /\ Accounted

Serves(t) ==
  DeviceOK(thr[t], cli[ClientOf[t]], toD[ClientOf[t]], toC[ClientOf[t]], dev)

\* A step that does not touch the device leaves t with what it had, or with less.
Moved(t) ==
  /\ ClaimOf(t)' \subseteq ClaimOf(t)
  /\ Open' => KeepsOf(t)' = KeepsOf(t)
  /\ Serves(t)'

\* What was closed stays closed.
LEMMA OpenBefore == ASSUME Shape, [Next]_vars, Open'  PROVE Open
<1>1. CASE UNCHANGED vars
  BY <1>1, Zenon DEF vars, Open
<1>2. ASSUME NEW t \in Threads, Call(t) \/ InCall(t)
      PROVE  Open
  <2>1. /\ UNCHANGED <<sess, gpud>>
        /\ \A c \in Clients : cli'[c].net = cli[c].net
    <3>1. CASE BumpId(t)
      BY <3>1 DEF BumpId, Shape, ClientStates
    <3>2. CASE RegisterPending(t)
      BY <3>2 DEF RegisterPending, Shape, ClientStates
    <3>3. CASE PushOutbound(t)
      BY <3>3 DEF PushOutbound, Shape, ClientStates
    <3>4. CASE Signal(t)
      BY <3>4 DEF Signal, Shape, ClientStates
    <3>5. CASE Call(t) \/ Return(t)
      BY <3>5, Zenon DEF Call, BeginCall, Return
    <3> QED  BY <1>2, <3>1, <3>2, <3>3, <3>4, <3>5, Zenon DEF InCall
  <2> QED  BY <2>1, Zenon DEF Open
<1>3. ASSUME NEW c \in Clients, Network(c) \/ DestroyClient(c)
      PROVE  Open
  <2>1. /\ UNCHANGED <<sess, gpud>>
        /\ \A k \in Clients : cli[k].net = "gone" => cli'[k].net = "gone"
    BY <1>3, Zenon DEF Network, DestroyClient, OnConnect, OnConnectFailed, OnWakeup, OnPeerRead,
                Shape, ClientStates
  <2> QED  BY <2>1, Zenon DEF Open
<1>4. ASSUME NEW c \in Clients, Daemon(c)
      PROVE  Open
  <2>1. /\ UNCHANGED <<cli, gpud>>
        /\ \A k \in Clients : sess[k] = "closed" => sess'[k] = "closed"
    BY <1>4, Zenon DEF Daemon, OnConnection, HandleRequest, SessionEof, Shape
  <2> QED  BY <2>1, Zenon DEF Open
<1>5. CASE Stop
  BY <1>5, Zenon DEF Stop, Open
<1>6. CASE OnStop
  BY <1>6, Zenon DEF OnStop, Open
<1> QED
  BY <1>1, <1>2, <1>3, <1>4, <1>5, <1>6, Zenon DEF Next

LEMMA AllMoved ==
  ASSUME Device, dev' = dev, Open' => Open, \A t \in Threads : Moved(t)
  PROVE  Device'
<1>1. Served'
  BY Zenon DEF Served, Moved, Serves
<1>2. Exclusive'
  BY Zenon DEF Device, Exclusive, Moved
<1>3. Accounted'
  BY Zenon DEF Device, Accounted, Moved
<1> QED
  BY <1>1, <1>2, <1>3, Zenon DEF Device

LEMMA StillMoved ==
  ASSUME Device, dev' = dev, NEW t \in Threads,
         thr'[t] = thr[t], cli'[ClientOf[t]] = cli[ClientOf[t]],
         toD'[ClientOf[t]] = toD[ClientOf[t]], toC'[ClientOf[t]] = toC[ClientOf[t]]
  PROVE  Moved(t)
BY Zenon DEF Device, Served, Moved, Serves, ClaimOf, KeepsOf

LEMMA OneMoved ==
  ASSUME OneThreadEach, Device, dev' = dev, Open' => Open, NEW t \in Threads,
         \A u \in Threads \ {t} : thr'[u] = thr[u],
         \A c \in Clients \ {ClientOf[t]} :
           cli'[c] = cli[c] /\ toD'[c] = toD[c] /\ toC'[c] = toC[c],
         Moved(t)
  PROVE  Device'
<1>1. ASSUME NEW u \in Threads, u # t
      PROVE  Moved(u)
  <2>1. ClientOf[u] \in Clients \ {ClientOf[t]}
    BY <1>1, GpuAssumption, Zenon DEF OneThreadEach
  <2> QED  BY <1>1, <2>1, StillMoved, Zenon
<1> QED
  BY <1>1, AllMoved, Zenon

\* The steps of a call leave the program with what it has on the device.
LEMMA CallDevice ==
  ASSUME OneThreadEach, Placed, Placed', Device, Open' => Open,
         NEW t \in Threads, Call(t) \/ InCall(t)
  PROVE  Device'
<1> DEFINE c == ClientOf[t]
           th == thr[t]
           cl == cli[c]
           thn == thr'[t]
           cln == cli'[c]
<1>1. c \in Clients /\ th \in ThreadStates /\ cl \in ClientStates
  BY GpuAssumption, SMTT(30) DEF Placed, Shape
<1>2. CallOK(t, th, cl, toD[c], toC[c]) /\ CallOK(t, thn, cln, toD'[c], toC'[c])
  BY Zenon DEF Placed, Called
<1>3. /\ toD' = toD /\ toC' = toC /\ dev' = dev
      /\ \A u \in Threads \ {t} : thr'[u] = thr[u]
      /\ \A k \in Clients \ {c} : cli'[k] = cli[k]
  BY ZenonT(30) DEF Call, InCall, BeginCall, BumpId, RegisterPending, PushOutbound, Signal, Return,
         Placed, Shape
<1>4. DeviceOK(th, cl, toD[c], toC[c], dev)
  BY Zenon DEF Device, Served
<1>5. SUFFICES /\ Claim(thn, cln, toD[c], toC[c]) \subseteq Claim(th, cl, toD[c], toC[c])
               /\ Keeps(thn, toC[c]) = Keeps(th, toC[c])
               /\ DeviceOK(thn, cln, toD[c], toC[c], dev)
  <2>1. Moved(t)
    BY <1>3, <1>5, Zenon DEF Moved, ClaimOf, KeepsOf, Serves
  <2> QED  BY <1>3, <2>1, OneMoved, Zenon
<1>6. CASE \/ Call(t)
           \/ BumpId(t) \/ RegisterPending(t) \/ PushOutbound(t) \/ Signal(t)
  <2>1. /\ thn.ptr = th.ptr /\ thn.wrote = th.wrote /\ thn.seen = th.seen
        /\ th.pc \in {"idle", "bump", "register", "queue", "signal"}
    <3>1. CASE Call(t)
      <4>1. PICK op \in Ops, d \in Data \cup {None} : BeginCall(t, op, d)
        BY <3>1, Zenon DEF Call
      <4> QED  BY <4>1, <1>1, Zenon DEF BeginCall, Placed, Shape, ThreadStates
    <3>2. CASE BumpId(t) \/ RegisterPending(t) \/ PushOutbound(t) \/ Signal(t)
      BY <1>1, <3>2, SMTT(30) DEF BumpId, RegisterPending, PushOutbound, Signal, Placed, Shape,
                        ThreadStates
    <3> QED  BY <1>6, <3>1, <3>2, Zenon
  <2>2. \/ thn.pc \in {"idle", "bump", "register", "queue", "signal"}
        \/ Signal(t)
    <3>1. CASE Call(t)
      <4>1. PICK op \in Ops, d \in Data \cup {None} : BeginCall(t, op, d)
        BY <3>1, Zenon DEF Call
      <4> QED  BY <4>1, <1>1, Zenon DEF BeginCall, Placed, Shape, ThreadStates
    <3>2. CASE BumpId(t) \/ RegisterPending(t) \/ PushOutbound(t)
      BY <1>1, <3>2 DEF BumpId, RegisterPending, PushOutbound, Placed, Shape, ThreadStates
    <3> QED  BY <1>6, <3>1, <3>2, Zenon
  <2>3. Signal(t) => cln.wakeup
    BY <1>1 DEF Signal, Placed, Shape, ClientStates
  <2> HIDE DEF th, cl, thn, cln, c
  <2>4. Early(th, cl, toD[c], toC[c])
    BY <1>2, <2>1, Zenon DEF CallOK, Flight, Early, Answered, Resolved, Lost
  <2>5. Early(thn, cln, toD[c], toC[c])
    BY <1>2, <1>3, <2>2, <2>3, Zenon DEF CallOK, Flight, Early, Answered, Resolved, Lost, Rest
  <2> QED  BY <1>2, <1>3, <1>4, <2>1, <2>4, <2>5, EarlyMove, Zenon
<1>7. CASE Return(t)
  <2>1. /\ th.pc = "wait" /\ th.promise # None /\ thn.pc = "idle" /\ cln = cl
        /\ th.ptr \in Ptrs \cup {None}
    BY <1>7, <1>1, Zenon DEF Return, Placed, Shape, ThreadStates
  <2>2. th.req.op \in Ops
    BY <2>1, Zenon DEF Placed, Shape, Sane, Requests
  <2>3. /\ thn.ptr = IF th.promise.err = 0 /\ th.req.op = "malloc" THEN th.promise.ptr
                     ELSE IF th.promise.err = 0 /\ th.req.op = "free" THEN None ELSE th.ptr
        /\ thn.wrote = IF th.promise.err = 0 /\ th.req.op = "htod" THEN th.req.data
                       ELSE IF th.req.op \in {"malloc", "free"} THEN None ELSE th.wrote
        /\ thn.seen = IF th.promise.err = 0 /\ th.req.op = "dtoh" THEN th.promise.data
                      ELSE None
    BY <1>7, <1>1, Zenon DEF Return, Placed, Shape, ThreadStates
  <2> HIDE DEF th, cl, thn, cln, c
  <2>4. CallOK(t, thn, cl, toD[c], toC[c])
    BY <1>2, <1>3, <2>1, Zenon
  <2>5. /\ Claim(thn, cl, toD[c], toC[c]) \subseteq Claim(th, cl, toD[c], toC[c])
        /\ Keeps(thn, toC[c]) = Keeps(th, toC[c])
        /\ DeviceOK(thn, cl, toD[c], toC[c], dev)
    BY <1>2, <1>4, <2>1, <2>2, <2>3, <2>4, ReturnMove, Zenon
  <2> QED  BY <2>1, <2>5, Zenon
<1> QED
  BY <1>6, <1>7, Zenon DEF InCall

\* The network thread of a client, and its destructor.
LEMMA ClientDevice ==
  ASSUME OneThreadEach, Placed, Placed', Device, Open' => Open,
         NEW c \in Clients, Network(c) \/ DestroyClient(c)
  PROVE  Device'
<1> DEFINE cl == cli[c]
           cln == cli'[c]
<1>1. cl \in ClientStates
  BY Zenon DEF Placed, Shape
<1>2. /\ \A k \in Clients \ {c} : cli'[k] = cli[k] /\ toD'[k] = toD[k] /\ toC'[k] = toC[k]
      /\ dev' = dev
  BY Zenon DEF Network, DestroyClient, OnConnect, OnConnectFailed, OnWakeup, OnPeerRead, Placed, Shape
<1>3. CASE \A t \in Threads : ClientOf[t] # c
  <2>1. Rest(cl, toD[c], toC[c])
    BY <1>3, Zenon DEF Placed, Unused
  <2>2. UNCHANGED thr
    BY <2>1, Zenon DEF Network, OnConnect, OnConnectFailed, OnWakeup, OnPeerRead, DestroyClient, Rest
  <2>3. \A t \in Threads : ClientOf[t] \in Clients \ {c}
    BY <1>3, GpuAssumption, Zenon
  <2>4. \A t \in Threads : Moved(t)
    BY <1>2, <2>2, <2>3, StillMoved, Zenon
  <2> QED  BY <1>2, <2>4, AllMoved, Zenon
<1>4. ASSUME NEW t \in Threads, ClientOf[t] = c
      PROVE  Device'
  <2> DEFINE th == thr[t]
             thn == thr'[t]
             d == toD[c]
             a == toC[c]
             dn == toD'[c]
             an == toC'[c]
  <2>1. th \in ThreadStates
    BY Zenon DEF Placed, Shape
  <2>2. CallOK(t, th, cl, d, a) /\ CallOK(t, thn, cln, dn, an)
    BY <1>4, Zenon DEF Placed, Called
  <2>3. DeviceOK(th, cl, d, a, dev)
    BY <1>4, Zenon DEF Device, Served
  <2>4. SUFFICES /\ Claim(thn, cln, dn, an) \subseteq Claim(th, cl, d, a)
                 /\ Open' => Keeps(thn, an) = Keeps(th, a)
                 /\ DeviceOK(thn, cln, dn, an, dev)
                 /\ \A u \in Threads \ {t} : thr'[u] = thr[u]
    <3>1. Moved(t)
      BY <1>2, <1>4, <2>4, Zenon DEF Moved, ClaimOf, KeepsOf, Serves
    <3> QED  BY <1>2, <1>4, <2>4, <3>1, OneMoved, Zenon
  <2>5. CASE DestroyClient(c)
    <3>1. /\ th.pc = "idle" /\ thr' = thr /\ an = <<>>
          /\ cln.net = "gone"
      BY <1>1, <1>4, <2>5, Zenon DEF DestroyClient, Placed, Shape, ClientStates
    <3>2. ~Open'
      BY <3>1, Zenon DEF Open
    <3>3. thn = th
      BY <3>1, Zenon
    <3> HIDE DEF th, thn, cl, cln, d, a, dn, an
    <3>4. Early(th, cl, d, a)
      BY <2>2, <3>1, Zenon DEF CallOK, Flight, Early, Queued, Sent, Answered, Resolved, Lost
    <3> QED  BY <2>2, <2>3, <3>1, <3>2, <3>3, <3>4, NetworkMove, Zenon
  <2>6. CASE OnConnect(c) \/ OnConnectFailed(c)
    <3>1. /\ thr' = thr /\ an = a /\ dn = d
          /\ cln.outbound = cl.outbound /\ cln.wakeup = cl.wakeup
      BY <1>1, <2>6, SMTT(30) DEF OnConnect, OnConnectFailed, Placed, Shape, ClientStates
    <3>2. thn = th
      BY <3>1, Zenon
    <3> HIDE DEF th, thn, cl, cln, d, a, dn, an
    <3>3. Early(th, cln, dn, an) = Early(th, cl, d, a)
      BY <3>1, Zenon DEF Early, Before, Queued, Sent, Rest
    <3> QED  BY <2>2, <2>3, <3>1, <3>2, <3>3, NetworkMove, Zenon
  <2>7. CASE OnWakeup(c)
    <3>1. cl.wakeup /\ thr' = thr /\ an = a
      BY <2>7, Zenon DEF OnWakeup
    <3>2. thn = th
      BY <3>1, Zenon
    <3> HIDE DEF th, thn, cl, cln, d, a, dn, an
    <3>3. Early(th, cl, d, a)
      BY <2>2, <3>1, Zenon DEF CallOK, Flight, Early, Answered, Resolved, Lost, Rest
    <3> QED  BY <2>2, <2>3, <3>1, <3>2, <3>3, NetworkMove, Zenon
  <2>8. CASE OnPeerRead(c)
    <3>1. a # <<>>
      BY <2>8, Zenon DEF OnPeerRead
    <3>2. Answered(t, th, cl, d, a)
      BY <2>2, <3>1, Zenon DEF CallOK, Flight, Before, Queued, Sent, Resolved, Lost, Rest
    <3>3. PICK x \in Responses : a = <<x>> /\ x.id = th.req.id /\ x.by = t
      BY <3>2, Zenon DEF Answered
    <3>4. Head(a) = x
      BY <3>3, One, Zenon
    <3>5. x.id \in DOMAIN cl.pending /\ cl.pending[x.id] = t
      BY <2>2, <3>2, <3>3, Zenon DEF CallOK, Waiting, Answered
    <3>6. thr' = [thr EXCEPT ![t].promise = x]
      BY <2>8, <3>4, <3>5, Zenon DEF OnPeerRead
    <3>7. /\ thn.promise = x /\ thn.pc = th.pc /\ thn.req = th.req
          /\ thn.ptr = th.ptr /\ thn.wrote = th.wrote /\ thn.seen = th.seen
          /\ \A u \in Threads \ {t} : thr'[u] = thr[u]
      BY <2>1, <3>6, Zenon DEF Placed, Shape, ThreadStates
    <3>8. x # None
      BY GpuAssumption, Zenon
    <3> HIDE DEF th, thn, cl, cln, d, a, dn, an
    <3>9. Resolved(thn, cln, dn, an)
      BY <2>2, <3>2, <3>7, <3>8, Zenon
         DEF CallOK, Flight, Before, Queued, Sent, Answered, Resolved, Lost
    <3>10. thn.promise = Head(a)
      BY <3>4, <3>7, Zenon
    <3>11. /\ Claim(thn, cln, dn, an) \subseteq Claim(th, cl, d, a)
           /\ Keeps(thn, an) = Keeps(th, a)
           /\ DeviceOK(thn, cln, dn, an, dev)
      BY <2>2, <2>3, <3>2, <3>7, <3>9, <3>10, AnswerMove, Zenon
    <3> QED  BY <3>7, <3>11, Zenon
  <2> QED  BY <2>5, <2>6, <2>7, <2>8, Zenon DEF Network
<1> QED
  BY <1>3, <1>4, Zenon

\* gpud ends: requests and answers on their way may be lost.
LEMMA StopDevice ==
  ASSUME OneThreadEach, Placed, Placed', Device, Open' => Open, OnStop
  PROVE  Device'
<1>1. dev' = dev /\ UNCHANGED <<thr, cli>> /\ ~Open'
  BY Zenon DEF OnStop, Open
<1>2. ASSUME NEW t \in Threads
      PROVE  Moved(t)
  <2> DEFINE c == ClientOf[t]
             th == thr[t]
             cl == cli[c]
             d == toD[c]
             a == toC[c]
             dn == toD'[c]
             an == toC'[c]
  <2>1. c \in Clients
    BY GpuAssumption, Zenon
  <2>2. dn = <<>> /\ (an = a \/ an = <<>>)
    BY <2>1, Zenon DEF OnStop
  <2>3. CallOK(t, th, cl, d, a) /\ CallOK(t, th, cl, dn, an)
    BY <1>1, Zenon DEF Placed, Called
  <2>4. DeviceOK(th, cl, d, a, dev)
    BY Zenon DEF Device, Served
  <2>5. /\ Claim(th, cl, dn, an) \subseteq Claim(th, cl, d, a)
        /\ DeviceOK(th, cl, dn, an, dev)
    <3> HIDE DEF th, cl, d, a, dn, an
    <3>1. Early(th, cl, d, a) \/ ~Early(th, cl, dn, an)
      BY <2>2, <2>3, One, Zenon
         DEF CallOK, Flight, Early, Before, Queued, Sent, Answered, Resolved, Lost, Rest
    <3> QED  BY <2>2, <2>3, <2>4, <3>1, NetworkMove
  <2> QED  BY <1>1, <2>5, Zenon DEF Moved, ClaimOf, Serves
<1> QED
  BY <1>1, <1>2, AllMoved, Zenon

\* gpud carries out a request: it touches the caller's own pointer, or one that
\* nobody has.
LEMMA Executes ==
  ASSUME NEW t, NEW th, NEW cl, NEW d, NEW a, CallOK(t, th, cl, d, a), Sent(th, cl, d, a),
         NEW dn, NEW an, CallOK(t, th, cl, dn, an),
         th.req \in Sane, th.ptr \in Ptrs \cup {None},
         dev \in [allocations_ : SUBSET Ptrs, mem : [Ptrs -> Data]],
         DeviceOK(th, cl, d, a, dev),
         NEW done \in process_request(th.req), an = <<done.resp>>
  PROVE  /\ DeviceOK(th, cl, dn, an, done.dev)
         /\ \A p \in Ptrs \ Claim(th, cl, d, a) :
              /\ done.dev.mem[p] = dev.mem[p]
              /\ p \in dev.allocations_ => p \in done.dev.allocations_
         /\ Claim(th, cl, dn, an) \subseteq
              Claim(th, cl, d, a) \cup (Ptrs \ dev.allocations_)
         /\ done.dev.allocations_ \subseteq dev.allocations_ \cup Keeps(th, an)
         /\ Keeps(th, a) \cap done.dev.allocations_ \subseteq Keeps(th, an)
<1> DEFINE x == done.resp
           n == done.dev
           C == Claim(th, cl, d, a)
           Cn == Claim(th, cl, dn, an)
           K == Keeps(th, an)
<1>1. th.pc = "wait" /\ th.promise = None /\ Early(th, cl, d, a)
  BY Zenon DEF Sent, Early
<1>2. C = Own(th) /\ Keeps(th, a) = Own(th) /\ ~Executed(th, a) /\ ~Lost(th, cl, d, a)
  BY <1>1, ClaimEarly, Zenon
<1>0. Reply(th, an) = x
  BY <1>1, One, Zenon DEF Reply
<1>3. Executed(th, an)
  BY <1>1, One, Zenon DEF Executed
<1>4. /\ Cn = K
      /\ th.req.op = "malloc" => K = {p \in Ptrs : x.err = 0 /\ x.ptr = p}
      /\ th.req.op = "free" => K = {}
      /\ th.req.op \notin {"malloc", "free"} => K = Own(th)
  <2>1. /\ Cn = K
        /\ th.req.op = "malloc" =>
             K = {p \in Ptrs : Reply(th, an).err = 0 /\ Reply(th, an).ptr = p}
        /\ th.req.op = "free" => K = {}
        /\ th.req.op \notin {"malloc", "free"} => K = Own(th)
    BY <1>3, ClaimExecuted, ZenonT(30)
  <2> QED  BY <1>0, <2>1, Zenon
<1>5. th.seen # None /\ th.wrote # None => th.seen = th.wrote
  BY Zenon DEF DeviceOK
<1>6. Own(th) \subseteq dev.allocations_
  BY <1>2, Zenon DEF DeviceOK
<1>7. th.wrote # None /\ th.ptr \in Own(th) => dev.mem[th.ptr] = th.wrote
  BY <1>2, Zenon DEF DeviceOK, Stored
<1>8. th.req.op \in {"free", "htod", "dtoh"} =>
        /\ th.ptr \in Ptrs /\ th.req.ptr = th.ptr /\ Own(th) = {th.ptr}
        /\ th.ptr \in dev.allocations_
  BY <1>1, <1>6, Zenon DEF CallOK, Program, Own
<1>9. SUFFICES /\ K \subseteq n.allocations_
               /\ th.req.op \in {"free", "htod", "dtoh"} => x.err = 0
               /\ th.req.op = "malloc" /\ x.err = 0 => x.ptr \in Ptrs
               /\ th.req.op = "htod" => n.mem[th.ptr] = th.req.data
               /\ th.req.op = "dtoh" => x.data = n.mem[th.ptr]
               /\ th.req.op # "htod" => n.mem = dev.mem
               /\ \A p \in Ptrs \ Own(th) :
                    /\ n.mem[p] = dev.mem[p]
                    /\ p \in dev.allocations_ => p \in n.allocations_
               /\ K \subseteq Own(th) \cup (Ptrs \ dev.allocations_)
               /\ n.allocations_ \subseteq dev.allocations_ \cup K
               /\ Own(th) \cap n.allocations_ \subseteq K
  <2> HIDE DEF x, n, C, Cn, K
  <2>1. Replied(th, an, n)
    BY <1>0, <1>3, <1>9, Zenon DEF Replied
  <2>2. Stored(th, cl, dn, an, n)
    <3>1. SUFFICES ASSUME th.wrote # None, th.ptr \in Cn, th.req.op # "htod"
                   PROVE  n.mem[th.ptr] = th.wrote
      BY <1>1, <1>3, Zenon DEF Stored, Doing, Cn
    <3>2. th.ptr \in Own(th)
      <4>1. th.ptr # None
        BY <3>1, Zenon DEF CallOK, Program
      <4> QED  BY <4>1, Zenon DEF Own
    <3> QED  BY <1>7, <1>9, <3>1, <3>2, Zenon
  <2>3. DeviceOK(th, cl, dn, an, n)
    BY <1>4, <1>5, <1>9, <2>1, <2>2, Zenon DEF DeviceOK, Cn
  <2> QED  BY <1>2, <1>4, <1>9, <2>3, Zenon DEF x, n, C, Cn, K
<1> HIDE DEF C, Cn, K
<1>10. CASE th.req.op = "malloc"
  <2>1. Own(th) = {}
    BY <1>1, <1>10, GpuAssumption, Zenon DEF CallOK, Program, Own
  <2>2. CASE done = Done(dev, Resp(th.req, 2, None, None))
    <3>1. n.allocations_ = dev.allocations_ /\ n.mem = dev.mem /\ x.err = 2
      BY <2>2, Zenon DEF Done, Resp
    <3> HIDE DEF n, x
    <3>2. x.err # 0
      BY <3>1
    <3>3. K = {}
      <4>1. K = {p \in Ptrs : x.err = 0 /\ x.ptr = p}
        BY <1>4, <1>10, Zenon
      <4> QED  BY <3>2, <4>1, Zenon
    <3> QED  BY <1>10, <2>1, <3>1, <3>2, <3>3, Zenon
  <2>3. CASE \E p \in Ptrs \ dev.allocations_ :
               done = Done([dev EXCEPT !.allocations_ = @ \cup {p}], Resp(th.req, 0, p, None))
    <3>1. PICK p \in Ptrs \ dev.allocations_ :
            done = Done([dev EXCEPT !.allocations_ = @ \cup {p}], Resp(th.req, 0, p, None))
      BY <2>3, Zenon
    <3>2. /\ n.allocations_ = dev.allocations_ \cup {p} /\ n.mem = dev.mem
          /\ x.err = 0 /\ x.ptr = p
      BY <3>1, Zenon DEF Done, Resp
    <3> HIDE DEF n, x
    <3>3. K = {p}
      BY <1>4, <1>10, <3>2, Zenon
    <3> QED  BY <1>10, <2>1, <3>2, <3>3, Zenon
  <2> QED  BY <1>10, <2>2, <2>3, Zenon DEF process_request, Allocate
<1>11. CASE th.req.op = "free"
  <2>1. done = Done([dev EXCEPT !.allocations_ = @ \ {th.ptr}], Resp(th.req, 0, None, None))
    BY <1>8, <1>11, Zenon DEF process_request, Free
  <2>2. /\ n.allocations_ = dev.allocations_ \ {th.ptr} /\ n.mem = dev.mem
        /\ x.err = 0
    BY <2>1, Zenon DEF Done, Resp
  <2> HIDE DEF n, x
  <2> QED  BY <1>4, <1>8, <1>11, <2>2, Zenon
<1>12. CASE th.req.op = "htod"
  <2>1. done = Done([dev EXCEPT !.mem[th.ptr] = th.req.data], Resp(th.req, 0, None, None))
    BY <1>8, <1>12, Zenon DEF process_request, MemcpyHtoD
  <2>2. /\ n.allocations_ = dev.allocations_
        /\ n.mem = [dev.mem EXCEPT ![th.ptr] = th.req.data]
        /\ x.err = 0
    BY <2>1, Zenon DEF Done, Resp
  <2>3. /\ n.mem[th.ptr] = th.req.data
        /\ \A p \in Ptrs \ Own(th) : n.mem[p] = dev.mem[p]
    BY <1>8, <1>12, <2>2, Zenon
  <2> HIDE DEF n, x
  <2> QED  BY <1>4, <1>6, <1>12, <2>2, <2>3, Zenon
<1>13. CASE th.req.op \in {"dtoh", "props"}
  <2>1. n = dev
    BY <1>8, <1>13 DEF process_request, MemcpyDtoH, Done
  <2>2. th.req.op = "dtoh" => x.err = 0 /\ x.data = dev.mem[th.ptr]
    BY <1>8, <1>13 DEF process_request, MemcpyDtoH, Done, Resp
  <2> HIDE DEF n, x
  <2> QED  BY <1>4, <1>6, <1>13, <2>1, <2>2, Zenon
<1> QED
  <2>1. th.req.op \in Ops
    BY Zenon DEF Sane, Requests
  <2> QED  BY <2>1, <1>10, <1>11, <1>12, <1>13, Zenon DEF Ops

\* A request carried out for one program leaves the others what they have.
LEMMA HandleDevice ==
  ASSUME OneThreadEach, Placed, Placed', Device, Open' => Open,
         NEW c \in Clients, HandleRequest(c)
  PROVE  Device'
<1>1. PICK t \in Threads : \E done \in process_request(thr[t].req) :
        /\ ClientOf[t] = c
        /\ Sent(thr[t], cli[c], toD[c], toC[c])
        /\ dev' = done.dev
        /\ toD' = [toD EXCEPT ![c] = <<>>]
        /\ toC' = [toC EXCEPT ![c] = <<done.resp>>]
        /\ UNCHANGED <<thr, cli, sess, gpud>>
  BY HandleFacts, Zenon DEF Placed
<1>2. PICK done \in process_request(thr[t].req) :
        /\ ClientOf[t] = c
        /\ Sent(thr[t], cli[c], toD[c], toC[c])
        /\ dev' = done.dev
        /\ toD' = [toD EXCEPT ![c] = <<>>]
        /\ toC' = [toC EXCEPT ![c] = <<done.resp>>]
        /\ UNCHANGED <<thr, cli, sess, gpud>>
  BY <1>1, Zenon
<1>3. toC'[c] = <<done.resp>> /\ thr'[t] = thr[t] /\ cli'[c] = cli[c]
  BY <1>2, Zenon DEF Placed, Shape
<1>4. /\ CallOK(t, thr[t], cli[c], toD[c], toC[c])
      /\ CallOK(t, thr[t], cli[c], toD'[c], toC'[c])
      /\ DeviceOK(thr[t], cli[c], toD[c], toC[c], dev)
  BY <1>2, <1>3, Zenon DEF Placed, Called, Device, Served
<1>5. /\ thr[t].req \in Sane /\ thr[t].ptr \in Ptrs \cup {None}
      /\ dev \in [allocations_ : SUBSET Ptrs, mem : [Ptrs -> Data]]
  BY <1>2, Zenon DEF Sent, Placed, Shape, ThreadStates
<1>6. /\ DeviceOK(thr[t], cli[c], toD'[c], toC'[c], done.dev)
      /\ \A p \in Ptrs \ Claim(thr[t], cli[c], toD[c], toC[c]) :
           /\ done.dev.mem[p] = dev.mem[p]
           /\ p \in dev.allocations_ => p \in done.dev.allocations_
      /\ Claim(thr[t], cli[c], toD'[c], toC'[c]) \subseteq
           Claim(thr[t], cli[c], toD[c], toC[c]) \cup (Ptrs \ dev.allocations_)
      /\ done.dev.allocations_ \subseteq dev.allocations_ \cup Keeps(thr[t], toC'[c])
      /\ Keeps(thr[t], toC[c]) \cap done.dev.allocations_ \subseteq Keeps(thr[t], toC'[c])
  <2>1. Sent(thr[t], cli[c], toD[c], toC[c]) /\ toC'[c] = <<done.resp>>
    BY <1>2, <1>3, Zenon
  <2> QED  BY <2>1, <1>4, <1>5, Executes, Zenon
<1>7. /\ Serves(t)'
      /\ \A p \in Ptrs \ ClaimOf(t) :
           /\ dev'.mem[p] = dev.mem[p]
           /\ p \in dev.allocations_ => p \in dev'.allocations_
      /\ ClaimOf(t)' \subseteq ClaimOf(t) \cup (Ptrs \ dev.allocations_)
      /\ dev'.allocations_ \subseteq dev.allocations_ \cup KeepsOf(t)'
      /\ KeepsOf(t) \cap dev'.allocations_ \subseteq KeepsOf(t)'
  BY <1>2, <1>3, <1>6, Zenon DEF Serves, ClaimOf, KeepsOf
<1>8. ASSUME NEW u \in Threads, u # t
      PROVE  ClaimOf(u)' = ClaimOf(u) /\ KeepsOf(u)' = KeepsOf(u) /\ Serves(u)'
  <2> DEFINE k == ClientOf[u]
             th == thr[u]
             cl == cli[k]
             d == toD[k]
             a == toC[k]
  <2>1. k \in Clients /\ k # c
    BY <1>2, <1>8, GpuAssumption, Zenon DEF OneThreadEach
  <2>2. thr'[u] = th /\ cli'[k] = cl /\ toD'[k] = d /\ toC'[k] = a
    BY <1>2, <2>1, Zenon DEF Placed, Shape
  <2>3. ClaimOf(u)' = ClaimOf(u) /\ KeepsOf(u)' = KeepsOf(u)
    BY <2>2, Zenon DEF ClaimOf, KeepsOf
  <2>4. CallOK(u, th, cl, d, a) /\ DeviceOK(th, cl, d, a, dev) /\ th.ptr \in Ptrs \cup {None}
    BY Zenon DEF Placed, Called, Device, Served, Shape, ThreadStates
  <2>5. \A p \in Claim(th, cl, d, a) :
          p \in Ptrs /\ dev'.mem[p] = dev.mem[p] /\ p \in dev'.allocations_
    <3>1. Claim(th, cl, d, a) \cap ClaimOf(t) = {}
      BY <1>8, Zenon DEF Device, Exclusive, ClaimOf
    <3>2. Claim(th, cl, d, a) \subseteq Ptrs
      BY Zenon DEF Claim, Keeps
    <3> QED  BY <1>7, <2>4, <3>1, <3>2, Zenon DEF DeviceOK
  <2>6. DeviceOK(th, cl, d, a, dev')
    <3> HIDE DEF th, cl, d, a
    <3>1. Executed(th, a) /\ th.req.op \in {"htod", "dtoh"} => th.ptr \in Claim(th, cl, d, a)
      <4>1. SUFFICES ASSUME Executed(th, a), th.req.op \in {"htod", "dtoh"}
                     PROVE  th.ptr \in Claim(th, cl, d, a)
        BY Zenon
      <4>2. th.ptr \in Own(th)
        BY <2>4, <4>1, Zenon DEF Executed, CallOK, Program, Own
      <4> QED  BY <4>1, <4>2, ClaimOther, Zenon
    <3>2. Replied(th, a, dev')
      BY <2>4, <2>5, <3>1, Zenon DEF DeviceOK, Replied
    <3>3. Stored(th, cl, d, a, dev')
      BY <2>4, <2>5, Zenon DEF DeviceOK, Stored
    <3> QED  BY <2>4, <2>5, <3>2, <3>3, Zenon DEF DeviceOK
  <2> QED  BY <2>2, <2>3, <2>6, Zenon DEF Serves
<1>9. Served'
  BY <1>7, <1>8, Zenon DEF Served, Serves
<1>10. Exclusive'
  <2>1. \A u \in Threads : ClaimOf(u) \subseteq dev.allocations_
    BY Zenon DEF Device, Served, DeviceOK, ClaimOf
  <2>2. ASSUME NEW u \in Threads, u # t
        PROVE  ClaimOf(t)' \cap ClaimOf(u)' = {}
    BY <1>7, <1>8, <2>1, <2>2, Zenon DEF Device, Exclusive
  <2> QED  BY <1>8, <2>2, Zenon DEF Device, Exclusive
<1>11. Accounted'
  <2>1. SUFFICES ASSUME Open, NEW p \in dev'.allocations_
                 PROVE  \E u \in Threads : p \in KeepsOf(u)'
    BY Zenon DEF Accounted
  <2>2. CASE p \in KeepsOf(t)'
    BY <2>2, Zenon
  <2>3. CASE p \in dev.allocations_
    <3>1. PICK u \in Threads : p \in KeepsOf(u)
      BY <2>1, <2>3, Zenon DEF Device, Accounted
    <3> QED  BY <1>7, <1>8, <2>1, <3>1, Zenon
  <2> QED  BY <1>7, <2>1, <2>2, <2>3, Zenon
<1> QED
  BY <1>9, <1>10, <1>11, Zenon DEF Device

-------------------------------------------------------------------------------
(***************************************************************************)
(* The invariant and the theorems.                                         *)
(***************************************************************************)
Inv == Placed /\ Device

LEMMA InitInv == OneThreadEach /\ Init => Inv
<1> SUFFICES ASSUME OneThreadEach, Init  PROVE Inv
  BY Zenon
<1>1. Placed
  BY InitPlaced, Zenon
<1>2. ASSUME NEW t \in Threads
      PROVE  Serves(t) /\ ClaimOf(t) = {}
  <2> DEFINE c == ClientOf[t]
             th == thr[t]
             cl == cli[c]
             d == toD[c]
             a == toC[c]
  <2>1. th.pc = "idle" /\ th.ptr = None /\ th.wrote = None
    BY Zenon DEF Init
  <2>2. CallOK(t, th, cl, d, a)
    BY <1>1, Zenon DEF Placed, Called
  <2> HIDE DEF th, cl, d, a
  <2>3. Early(th, cl, d, a)
    BY <2>1, <2>2, Zenon DEF CallOK, Flight, Early, Queued, Sent, Answered, Resolved, Lost
  <2>4. ~Executed(th, a) /\ Claim(th, cl, d, a) = {}
    <3>1. Own(th) = {}
      BY <2>1, GpuAssumption, Zenon DEF Own
    <3> QED  BY <2>3, <3>1, ClaimEarly, Zenon
  <2>5. DeviceOK(th, cl, d, a, dev)
    BY <2>1, <2>4, Zenon DEF DeviceOK, Replied, Stored
  <2> QED  BY <2>4, <2>5, Zenon DEF Serves, ClaimOf, th, cl, d, a
<1>3. Served /\ Exclusive
  BY <1>2, Zenon DEF Served, Serves, Exclusive
<1>4. Accounted
  BY Zenon DEF Init, Accounted
<1> QED
  BY <1>1, <1>3, <1>4, Zenon DEF Inv, Device

LEMMA InvStep == OneThreadEach /\ Inv /\ [Next]_vars => Inv'
<1> SUFFICES ASSUME OneThreadEach, Inv, [Next]_vars  PROVE Inv'
  BY Zenon
<1>1. Placed /\ Device /\ Placed'
  BY PlacedStep, Zenon DEF Inv
<1>2. Open' => Open
  BY <1>1, OpenBefore, Zenon DEF Placed
<1>3. CASE UNCHANGED <<thr, cli, toD, toC, dev>>
  <2>1. \A t \in Threads : Moved(t)
    BY <1>1, <1>3, StillMoved, Zenon
  <2> QED  BY <1>1, <1>2, <1>3, <2>1, AllMoved, Zenon DEF Inv
<1>4. ASSUME NEW t \in Threads, Call(t) \/ InCall(t)
      PROVE  Inv'
  BY <1>1, <1>2, <1>4, CallDevice, Zenon DEF Inv
<1>5. ASSUME NEW c \in Clients, Network(c) \/ DestroyClient(c)
      PROVE  Inv'
  BY <1>1, <1>2, <1>5, ClientDevice, Zenon DEF Inv
<1>6. ASSUME NEW c \in Clients, HandleRequest(c)
      PROVE  Inv'
  BY <1>1, <1>2, <1>6, HandleDevice, Zenon DEF Inv
<1>7. CASE OnStop
  BY <1>1, <1>2, <1>7, StopDevice, Zenon DEF Inv
<1>8. ASSUME NEW c \in Clients, OnConnection(c) \/ SessionEof(c)
      PROVE  Inv'
  BY <1>3, <1>8, Zenon DEF OnConnection, SessionEof
<1>9. CASE Stop
  BY <1>3, <1>9, Zenon DEF Stop
<1>10. CASE UNCHANGED vars
  BY <1>3, <1>10, Zenon DEF vars
<1> QED
  BY <1>4, <1>5, <1>6, <1>7, <1>8, <1>9, <1>10, Zenon DEF Next, Daemon

LEMMA InvAlways == ASSUME OneThreadEach  PROVE Spec => []Inv
<1>1. Init => Inv
  BY InitInv, Zenon
<1>2. Inv /\ [Next]_vars => Inv'
  BY InvStep, Zenon
<1> QED
  BY <1>1, <1>2, PTL DEF Spec

\* Types, whatever threads share a GpuClient.
THEOREM TypeCorrect == Spec => []TypeOK
<1>1. Shape => TypeOK
  <2> SUFFICES ASSUME Shape  PROVE TypeOK
    BY Zenon
  <2>1. ASSUME NEW t \in Threads
        PROVE  /\ thr[t].pc \in {"idle", "bump", "register", "queue", "signal", "wait"}
               /\ thr[t].req \in Requests \cup {NoRequest}
               /\ thr[t].promise \in Responses \cup {None}
               /\ thr[t].calls \in 0 .. MaxCalls
               /\ thr[t].ptr \in Ptrs \cup {None}
               /\ {thr[t].wrote, thr[t].seen} \subseteq Data \cup {None}
    BY DEF Shape, ThreadStates
  <2>2. ASSUME NEW c \in Clients
        PROVE  /\ cli[c].net \in {"connecting", "connected", "failed", "gone"}
               /\ cli[c].next_request_id_ \in Nat /\ cli[c].wakeup \in BOOLEAN
               /\ \A i \in DOMAIN cli[c].pending : i \in Nat /\ cli[c].pending[i] \in Threads
               /\ \A i \in DOMAIN cli[c].outbound : cli[c].outbound[i] \in Requests
               /\ \A i \in DOMAIN toD[c] : toD[c][i] \in Requests
               /\ \A i \in DOMAIN toC[c] : toC[c][i] \in Responses
               /\ sess[c] \in {"none", "open", "closed"}
    <3>1. /\ cli[c].net \in {"connecting", "connected", "failed", "gone"}
          /\ cli[c].next_request_id_ \in Nat /\ cli[c].wakeup \in BOOLEAN
          /\ cli[c].pending \in Partial /\ cli[c].outbound \in Seq(Sane)
          /\ toD[c] \in Seq(Sane) /\ toC[c] \in Seq(Responses)
          /\ sess[c] \in {"none", "open", "closed"}
      BY Zenon DEF Shape, ClientStates
    <3>2. \A i \in DOMAIN cli[c].pending : i \in Nat /\ cli[c].pending[i] \in Threads
      BY <3>1, PartialFacts, Zenon
    <3>3. \A q \in Seq(Sane) : \A i \in DOMAIN q : q[i] \in Requests
      BY DEF Sane
    <3>4. \A i \in DOMAIN toC[c] : toC[c][i] \in Responses
      BY <3>1
    <3> QED  BY <3>1, <3>2, <3>3, <3>4, Zenon
  <2>3. dev.allocations_ \subseteq Ptrs /\ dev.mem \in [Ptrs -> Data]
    BY Zenon DEF Shape
  <2> QED  BY <2>1, <2>2, <2>3, Zenon DEF Shape, TypeOK
<1> QED
  BY <1>1, InitShape, ShapeStep, PTL DEF Spec

\* cudaMemcpyDtoH gives a program back what it last copied into its buffer,
\* whatever the other programs of the same gpud do in between, as long as each
\* uses pointers it was given (Sensible).
THEOREM ReadsBack == ASSUME OneThreadEach  PROVE Spec => []ReadBack
<1>1. Inv => ReadBack
  BY Zenon DEF Inv, Device, Served, DeviceOK, ReadBack
<1> QED
  BY <1>1, InvAlways, PTL

\* The pointers programs hold are allocated and no two programs hold the same
\* one, although all sessions share allocations_.
THEOREM NeverShared == ASSUME OneThreadEach  PROVE Spec => []PointersExclusive
<1>1. Inv => PointersExclusive
  <2> SUFFICES ASSUME Inv, NEW t \in Threads, thr[t].ptr # None
               PROVE  /\ ~Freeing(t) => thr[t].ptr \in dev.allocations_
                      /\ \A u \in Threads \ {t} :
                           thr[u].ptr = thr[t].ptr => Freeing(t) \/ Freeing(u)
    BY Zenon DEF PointersExclusive
  <2>1. ASSUME NEW u \in Threads, thr[u].ptr # None, ~Freeing(u)
        PROVE  thr[u].ptr \in ClaimOf(u)
    <3> DEFINE c == ClientOf[u]
               th == thr[u]
               cl == cli[c]
               d == toD[c]
               a == toC[c]
    <3>1. CallOK(u, th, cl, d, a)
      BY Zenon DEF Inv, Placed, Called
    <3>2. th.ptr \in Ptrs
      BY <2>1, Zenon DEF Inv, Placed, Shape, ThreadStates
    <3>3. th.pc # "idle" => th.req.op # "free"
      BY <2>1, Zenon DEF Freeing
    <3>4. th.ptr # None
      BY <2>1, Zenon
    <3> HIDE DEF th, cl, d, a
    <3>5. th.pc # "idle" => th.req.op # "malloc"
      BY <3>1, <3>4, Zenon DEF CallOK, Program
    <3>6. th.ptr \in Claim(th, cl, d, a)
      BY <3>2, <3>3, <3>5, Zenon DEF Claim, Keeps, Doing
    <3> QED  BY <3>6, Zenon DEF ClaimOf, th, cl, d, a
  <2>2. ClaimOf(t) \subseteq dev.allocations_
    BY Zenon DEF Inv, Device, Served, DeviceOK, ClaimOf
  <2> QED  BY <2>1, <2>2, Zenon DEF Inv, Device, Exclusive
<1> QED
  BY <1>1, InvAlways, PTL

\* gpud loses track of a buffer only with a session or a client: until then each
\* entry of allocations_ is held by a program or in an answer on its way to one.
THEOREM NothingLeaks == ASSUME OneThreadEach  PROVE Spec => []NoLeakWhileOpen
<1>1. Inv => NoLeakWhileOpen
  <2> SUFFICES ASSUME Inv, Open, NEW p \in dev.allocations_
               PROVE  Arriving(p) \/ \E t \in Threads : thr[t].ptr = p
    BY Zenon DEF NoLeakWhileOpen, Open
  <2>1. PICK t \in Threads : p \in KeepsOf(t)
    BY Zenon DEF Inv, Device, Accounted
  <2> DEFINE c == ClientOf[t]
             th == thr[t]
             a == toC[c]
  <2>2. c \in Clients
    BY GpuAssumption, Zenon
  <2>3. CASE Executed(th, a) /\ Reply(th, a).ptr = p
    <3>1. CASE th.promise # None
      BY <2>3, <3>1, Zenon DEF Executed, Reply, Arriving
    <3>2. CASE th.promise = None
      <4>1. a # <<>> /\ Head(a).ptr = p
        BY <2>3, <3>2, Zenon DEF Executed, Reply
      <4>2. a \in Seq(Responses)
        BY <2>2, Zenon DEF Inv, Placed, Shape
      <4>3. 1 \in DOMAIN a /\ Head(a) = a[1]
        BY <4>1, <4>2
      <4> QED  BY <2>2, <4>1, <4>3, Zenon DEF Arriving
    <3> QED  BY <3>1, <3>2, Zenon
  <2>4. CASE th.ptr = p
    BY <2>4, Zenon
  <2> QED  BY <2>1, <2>3, <2>4, Zenon DEF KeepsOf, Keeps
<1> QED
  BY <1>1, InvAlways, PTL
===============================================================================
