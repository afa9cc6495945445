---------------------------- MODULE Client_proofs ----------------------------
(***************************************************************************)
(* The two halves of a MemoryClient, which are specified apart.            *)
(*                                                                         *)
(* PeerConnection:                                                         *)
(* What holds of a MemoryClient's requests for any number of threads,      *)
(* peers, requests and broken connections.                                 *)
(*                                                                         *)
(* ClientLifetime:                                                         *)
(* What holds of the lifetime of a MemoryClient and of the path of a local *)
(* server for any number of servers and clients, any pattern of crashes    *)
(* and any platform.                                                       *)
(***************************************************************************)
EXTENDS PeerConnection, ClientLifetime, TLAPS

-----------------------------------------------------------------------------
(* PeerConnection                                                           *)

(* Types.                                                                  *)

LEMMA IdTypes ==
  ASSUME TypeOK
  PROVE  /\ MaxRequests \in Nat /\ next_request_id_ \in Nat
         /\ 1 .. next_request_id_ - 1 \subseteq Ids
         /\ pending_requests_ \subseteq Ids
         /\ \A i \in Ids : i \in Nat
BY PeerConnectionAssumption DEF TypeOK, Ids

(* Sequences as a connection that breaks leaves them.                      *)
LEMMA CutOff ==
  ASSUME NEW S, NEW s \in Seq(S), NEW n \in 0 .. Len(s)
  PROVE  /\ SubSeq(s, 1, n) \in Seq(S)
         /\ \A i \in DOMAIN SubSeq(s, 1, n) : i \in DOMAIN s /\ SubSeq(s, 1, n)[i] = s[i]
OBVIOUS

LEMMA Joined ==
  ASSUME NEW S, NEW s \in Seq(S), NEW t \in Seq(S)
  PROVE  \A i \in DOMAIN (s \o t) :
           IF i <= Len(s) THEN i \in DOMAIN s /\ (s \o t)[i] = s[i]
           ELSE i - Len(s) \in DOMAIN t /\ (s \o t)[i] = t[i - Len(s)]
OBVIOUS

LEMMA Served ==
  ASSUME TypeOK, NEW p \in Peers, Serve(p)
  PROVE  /\ Head(toPeer[p]) \in Ids
         /\ toPeer' \in [Peers -> Seq(Ids)] /\ log' \in [Peers -> Seq(Ids)]
         /\ fromPeer' \in [Peers -> Seq(Fragments)]
<1>1. toPeer[p] \in Seq(Ids) /\ toPeer[p] # <<>>
  BY Zenon DEF TypeOK, Serve
<1>2. Head(toPeer[p]) \in Ids /\ Tail(toPeer[p]) \in Seq(Ids)
  BY <1>1
<1>3. \A k \in {1, 2} : [id |-> Head(toPeer[p]), part |-> k] \in Fragments
  BY <1>2, Zenon DEF Fragments
<1>4. <<[id |-> Head(toPeer[p]), part |-> 1], [id |-> Head(toPeer[p]), part |-> 2]>>
        \in Seq(Fragments)
  BY <1>3
<1>5. toPeer' \in [Peers -> Seq(Ids)] /\ log' \in [Peers -> Seq(Ids)]
  <2>1. /\ toPeer' = [toPeer EXCEPT ![p] = Tail(toPeer[p])]
        /\ log' = [log EXCEPT ![p] = Append(log[p], Head(toPeer[p]))]
    BY Zenon DEF Serve
  <2>2. toPeer \in [Peers -> Seq(Ids)] /\ log \in [Peers -> Seq(Ids)]
    BY Zenon DEF TypeOK
  <2>3. Append(log[p], Head(toPeer[p])) \in Seq(Ids)
    BY <1>2, <2>2
  <2> QED BY <1>2, <2>1, <2>2, <2>3, Zenon
<1>6. fromPeer' \in [Peers -> Seq(Fragments)]
  BY <1>4 DEF TypeOK, Serve
<1> QED BY <1>2, <1>5, <1>6, Zenon

(* A call that is about to be queued has drawn its id.                     *)
Called ==
  \A c \in Callers : call[c].pc = "enqueue" =>
    call[c].id \in 1 .. next_request_id_ - 1 /\ owner[call[c].id].caller = c

Typed == TypeOK /\ Called

LEMMA CallersType ==
  ASSUME Typed, NEW c \in Callers,
         Enqueue(c) \/ Wake(c) \/ \E p \in Peers : Register(c, p)
  PROVE  TypeOK'
<1>a. /\ MaxRequests \in Nat /\ next_request_id_ \in Nat
      /\ 1 .. next_request_id_ - 1 \subseteq Ids
  BY IdTypes, Zenon DEF Typed
<1>b. TypeOK /\ (call[c].pc = "enqueue" => call[c].id \in 1 .. next_request_id_ - 1)
  BY Zenon DEF Typed, Called
<1> USE <1>b DEF TypeOK
<1>1. CASE Enqueue(c)
  <2>1. call' \in [Callers -> [pc : {"idle", "enqueue", "wait"}, id : 0 .. MaxRequests]]
    <3> DEFINE Calls == [pc : {"idle", "enqueue", "wait"}, id : 0 .. MaxRequests]
    <3>1. call' = [call EXCEPT ![c] = [call[c] EXCEPT !.pc = "wait"]]
      BY <1>1, Zenon DEF Enqueue
    <3>2. call \in [Callers -> Calls]
      BY Zenon
    <3>3. \A x \in Calls : [x EXCEPT !.pc = "wait"] \in Calls
      BY Zenon
    <3> HIDE DEF Calls
    <3>4. call' \in [Callers -> Calls]
      BY <3>1, <3>2, <3>3, Zenon
    <3> QED BY <3>4, Zenon DEF Calls
  <2>2. outbound_queue_' \in [Peers -> Seq(Ids)]
    <3>1. call[c].id \in 1 .. next_request_id_ - 1
      BY <1>1, Zenon DEF Enqueue
    <3>2. call[c].id \in Ids /\ owner[call[c].id].peer \in Peers
      BY <1>a, <3>1, Zenon
    <3>3. /\ outbound_queue_ \in [Peers -> Seq(Ids)]
          /\ outbound_queue_' = [outbound_queue_ EXCEPT ![owner[call[c].id].peer] =
                                   Append(outbound_queue_[owner[call[c].id].peer], call[c].id)]
      BY <1>1, Zenon DEF Enqueue
    <3>4. \A s \in Seq(Ids), x \in Ids : Append(s, x) \in Seq(Ids)
      OBVIOUS
    <3> QED BY <3>2, <3>3, <3>4, Zenon
  <2> QED
    BY <1>1, <2>1, <2>2, Zenon DEF Enqueue, libuvVars, requestVars, wireVars
<1>2. CASE Wake(c)
  <2>1. NoCall \in [pc : {"idle", "enqueue", "wait"}, id : 0 .. MaxRequests]
    BY <1>a DEF NoCall
  <2> QED
    BY <1>2, <2>1, Zenon DEF Wake, libuvVars, queueVars, requestVars, wireVars
<1>3. ASSUME NEW p \in Peers, Register(c, p)
      PROVE  TypeOK'
  <2>1. next_request_id_ \in 1 .. MaxRequests /\ next_request_id_' = next_request_id_ + 1
    BY <1>3, Zenon DEF Register, next_id, Ids
  <2>2. [pc |-> "enqueue", id |-> next_request_id_]
          \in [pc : {"idle", "enqueue", "wait"}, id : 0 .. MaxRequests]
    BY <1>a, <2>1
  <2>3. call' \in [Callers -> [pc : {"idle", "enqueue", "wait"}, id : 0 .. MaxRequests]]
    BY <1>3, <2>2, Zenon DEF Register
  <2>4. next_request_id_' \in 1 .. MaxRequests + 1
    BY <1>a, <2>1
  <2>5. 1 .. next_request_id_' - 1 = (1 .. next_request_id_ - 1) \cup {next_request_id_}
    BY <1>a, <2>1, SMTT(30)
  <2>6. owner' \in [1 .. next_request_id_' - 1 -> [caller : Callers, peer : Peers]]
    BY <1>3, <2>5, Zenon DEF Register
  <2>7. pending_requests_' \subseteq 1 .. next_request_id_' - 1
    BY <1>3, <2>5, Zenon DEF Register
  <2> QED
    BY <1>3, <2>3, <2>4, <2>6, <2>7, Zenon DEF Register, libuvVars, queueVars, wireVars
<1> QED BY <1>1, <1>2, <1>3, Zenon

LEMMA ReadType ==
  ASSUME TypeOK, NEW p \in Peers, fromPeer[p] # <<>>
  PROVE  LET buffer == Append(read_buffer[p], Head(fromPeer[p]))
         IN  /\ buffer \in Seq(Fragments) /\ buffer[1] \in Fragments
             /\ Len(buffer) = Len(read_buffer[p]) + 1
             /\ read_buffer[p] = <<>> => buffer[1] = fromPeer[p][1]
             /\ read_buffer[p] # <<>> => buffer[1] = read_buffer[p][1]
             /\ \A i \in DOMAIN buffer :
                  \/ i \in DOMAIN read_buffer[p] /\ buffer[i] = read_buffer[p][i]
                  \/ buffer[i] = fromPeer[p][1]
             /\ Tail(fromPeer[p]) \in Seq(Fragments)
             /\ \A i \in DOMAIN Tail(fromPeer[p]) :
                  i + 1 \in DOMAIN fromPeer[p] /\ Tail(fromPeer[p])[i] = fromPeer[p][i + 1]
<1>1. fromPeer[p] \in Seq(Fragments) /\ read_buffer[p] \in Seq(Fragments)
  BY Zenon DEF TypeOK
<1> QED BY <1>1

LEMMA FailedType ==
  ASSUME TypeOK, fail_pending_requests
  PROVE  /\ promise' \in [Ids -> {"unset", "answer", "empty"}]
         /\ pending_requests_' = {}
BY Zenon DEF TypeOK, fail_pending_requests

LEMMA LibuvType ==
  ASSUME TypeOK, LibuvStep
  PROVE  TypeOK'
<1> USE DEF TypeOK
<1>1. CASE drain_pending_connects
  <2>1. socket' \in [Peers -> {"null", "connecting", "open", "closed"}]
    BY <1>1, Zenon DEF drain_pending_connects
  <2> QED
    BY <1>1, <2>1, Zenon DEF drain_pending_connects, requestVars, callVars, wireVars
<1>2. CASE OnWakeup
  <2>1. /\ outbound_queue_' \in [Peers -> Seq(Ids)]
        /\ toPeer' \in [Peers -> Seq(Ids)]
    BY <1>2 DEF OnWakeup, Sent
  <2> QED
    BY <1>2, <2>1, Zenon DEF OnWakeup, libuvVars, requestVars, callVars
<1>3. ASSUME NEW p \in Peers, OnPeerRead(p)
      PROVE  TypeOK'
  <2> DEFINE buffer == Append(read_buffer[p], Head(fromPeer[p]))
  <2>a. buffer \in Seq(Fragments) /\ Tail(fromPeer[p]) \in Seq(Fragments)
    BY <1>3, ReadType, Zenon DEF OnPeerRead
  <2>b. fromPeer' = [fromPeer EXCEPT ![p] = Tail(@)]
    BY <1>3, Zenon DEF OnPeerRead
  <2>c. \/ read_buffer' = [read_buffer EXCEPT ![p] = buffer]
        \/ read_buffer' = [read_buffer EXCEPT ![p] = <<>>]
    BY <1>3, Zenon DEF OnPeerRead
  <2>1. read_buffer' \in [Peers -> Seq(Fragments)] /\ fromPeer' \in [Peers -> Seq(Fragments)]
    <3> HIDE DEF buffer
    <3>1. <<>> \in Seq(Fragments)
      OBVIOUS
    <3>2. read_buffer' \in [Peers -> Seq(Fragments)]
      BY <2>a, <2>c, <3>1, Zenon
    <3>3. fromPeer' \in [Peers -> Seq(Fragments)]
      BY <2>a, <2>b, Zenon
    <3> QED BY <3>2, <3>3, Zenon
  <2>2. promise' \in [Ids -> {"unset", "answer", "empty"}]
    <3>1. PICK id : \/ UNCHANGED promise
                    \/ promise' = [promise EXCEPT ![id] =
                                      IF id \in pending_requests_ THEN "answer" ELSE @]
      BY <1>3, Zenon DEF OnPeerRead, requestVars
    <3>2. promise \in [Ids -> {"unset", "answer", "empty"}]
      BY Zenon DEF TypeOK
    <3>3. CASE UNCHANGED promise
      BY <3>2, <3>3, Zenon
    <3>4. CASE promise' = [promise EXCEPT ![id] =
                              IF id \in pending_requests_ THEN "answer" ELSE @]
      BY <3>2, <3>4, Zenon
    <3> QED BY <3>1, <3>3, <3>4, Zenon
  <2>3. pending_requests_' \subseteq pending_requests_
    BY <1>3, Zenon DEF OnPeerRead, requestVars
  <2> QED
    BY <1>3, <2>1, <2>2, <2>3, Zenon DEF OnPeerRead, queueVars, callVars
<1>4. ASSUME NEW p \in Peers, OnBadFrame(p)
      PROVE  TypeOK'
  <2>1. read_buffer' \in [Peers -> Seq(Fragments)]
    BY <1>4, ReadType, Zenon DEF OnBadFrame
  <2>2. /\ fromPeer' \in [Peers -> Seq(Fragments)] /\ toPeer' \in [Peers -> Seq(Ids)]
        /\ socket' \in [Peers -> {"null", "connecting", "open", "closed"}]
        /\ link' \in [Peers -> {"none", "up", "broken"}]
    BY <1>4 DEF OnBadFrame
  <2> QED
    BY <1>4, <2>1, <2>2, Zenon DEF OnBadFrame, queueVars, requestVars, callVars
<1>5. ASSUME NEW p \in Peers, OnPeerEof(p)
      PROVE  TypeOK'
  <2>1. /\ socket' \in [Peers -> {"null", "connecting", "open", "closed"}]
        /\ link' \in [Peers -> {"none", "up", "broken"}]
        /\ connected' \in [Peers -> BOOLEAN]
    BY <1>5, Zenon DEF OnPeerEof
  <2>2. /\ promise' \in [Ids -> {"unset", "answer", "empty"}]
        /\ pending_requests_' = {}
    BY <1>5, FailedType, Zenon DEF OnPeerEof
  <2> QED
    BY <1>5, <2>1, <2>2, Zenon DEF OnPeerEof, queueVars, callVars
<1>6. ASSUME NEW p \in Peers, NEW ok \in BOOLEAN, OnConnect(p, ok)
      PROVE  TypeOK'
  <2>1. /\ socket' \in [Peers -> {"null", "connecting", "open", "closed"}]
        /\ link' \in [Peers -> {"none", "up", "broken"}]
        /\ connected' \in [Peers -> BOOLEAN]
    BY <1>6, Zenon DEF OnConnect
  <2> QED
    BY <1>6, <2>1, Zenon DEF OnConnect, queueVars, requestVars, callVars
<1> QED
  BY <1>1, <1>2, <1>3, <1>4, <1>5, <1>6, Zenon DEF LibuvStep

LEMMA TypeStep == Typed /\ [Next]_vars => Typed'
<1> SUFFICES ASSUME Typed, [Next]_vars PROVE TypeOK' /\ Called'
  BY Zenon DEF Typed
<1>a. TypeOK /\ Called
  BY Zenon DEF Typed
<1>1. ASSUME NEW c \in Callers, Enqueue(c) \/ Wake(c) \/ \E p \in Peers : Register(c, p)
      PROVE  TypeOK' /\ Called'
  <2>1. TypeOK'
    BY <1>1, CallersType, Zenon
  <2>2. CASE Enqueue(c) \/ Wake(c)
    <3>1. UNCHANGED <<owner, next_request_id_>>
      BY <2>2, Zenon DEF Enqueue, Wake
    <3>2. call'[c].pc # "enqueue" /\ \A d \in Callers \ {c} : call'[d] = call[d]
      <4>1. call \in [Callers -> [pc : {"idle", "enqueue", "wait"}, id : 0 .. MaxRequests]]
        BY <1>a, Zenon DEF TypeOK
      <4>2. CASE Enqueue(c)
        BY <4>1, <4>2, Zenon DEF Enqueue
      <4>3. CASE Wake(c)
        BY <4>1, <4>3, Zenon DEF Wake, NoCall
      <4> QED BY <2>2, <4>2, <4>3, Zenon
    <3> QED BY <1>a, <2>1, <3>1, <3>2, Zenon DEF Called
  <2>3. ASSUME NEW p \in Peers, Register(c, p)
        PROVE  Called'
    <3>1. /\ next_request_id_ \in Nat /\ next_request_id_' = next_request_id_ + 1
          /\ 1 <= next_request_id_
      BY <1>a, <2>3, IdTypes DEF Register, next_id, TypeOK
    <3>2. /\ owner'[next_request_id_].caller = c
          /\ \A i \in 1 .. next_request_id_ - 1 : owner'[i] = owner[i]
      BY <1>a, <2>3, <3>1 DEF Register, TypeOK
    <3>3. /\ call'[c].id = next_request_id_
          /\ \A d \in Callers \ {c} : call'[d] = call[d]
      BY <1>a, <2>3, Zenon DEF Register, TypeOK
    <3> QED BY <1>a, <3>1, <3>2, <3>3 DEF Called
  <2> QED BY <1>1, <2>1, <2>2, <2>3, Zenon
<1>2. CASE LibuvStep
  <2>1. UNCHANGED callVars
    BY <1>2, Zenon
    DEF LibuvStep, drain_pending_connects, OnWakeup, OnPeerRead, OnBadFrame, OnPeerEof, OnConnect
  <2> QED BY <1>a, <1>2, <2>1, LibuvType, Zenon DEF Called, callVars
<1>3. ASSUME NEW p \in Peers, connect_to_peers(p)
      PROVE  TypeOK' /\ Called'
  BY <1>a, <1>3, Zenon
  DEF connect_to_peers, TypeOK, Called, libuvVars, requestVars, callVars, wireVars
<1>4. ASSUME NEW p \in Peers, Serve(p)
      PROVE  TypeOK' /\ Called'
  BY <1>a, <1>4, Served, Zenon DEF Serve, TypeOK, Called, libuvVars, queueVars, requestVars, callVars
<1>5. ASSUME NEW p \in Peers, NEW n \in 0 .. Len(fromPeer[p]), Break(p, n)
      PROVE  TypeOK' /\ Called'
  <2>1. SubSeq(fromPeer[p], 1, n) \in Seq(Fragments)
    BY <1>a, CutOff, Zenon DEF TypeOK
  <2>2. /\ fromPeer' \in [Peers -> Seq(Fragments)] /\ toPeer' \in [Peers -> Seq(Ids)]
        /\ link' \in [Peers -> {"none", "up", "broken"}]
    BY <1>a, <1>5, <2>1 DEF TypeOK, Break
  <2>3. breaks' \in 0 .. MaxBreaks
    BY <1>a, <1>5, PeerConnectionAssumption DEF TypeOK, Break
  <2> QED
    BY <1>a, <1>5, <2>2, <2>3, Zenon
    DEF TypeOK, Called, Break, libuvVars, queueVars, requestVars, callVars
<1>6. CASE UNCHANGED vars
  BY <1>a, <1>6, Zenon DEF TypeOK, Called, vars, libuvVars, queueVars, requestVars, callVars, wireVars
<1> QED
  BY <1>1, <1>2, <1>3, <1>4, <1>5, <1>6, Zenon DEF Next

LEMMA TypeInit == Init => Typed
<1> SUFFICES ASSUME Init PROVE Typed
  BY Zenon
<1>1. MaxRequests \in Nat /\ MaxBreaks \in Nat
  BY PeerConnectionAssumption, Zenon
<1>2. NoCall \in [pc : {"idle", "enqueue", "wait"}, id : 0 .. MaxRequests]
  BY <1>1 DEF NoCall
<1>3. owner \in [1 .. next_request_id_ - 1 -> [caller : Callers, peer : Peers]]
  BY DEF Init
<1>4. Called
  BY Zenon DEF Init, Called, NoCall
<1> QED BY <1>1, <1>2, <1>3, <1>4 DEF Init, TypeOK, Typed

(* Every variable has its type, and request ids are given out in order.    *)
THEOREM TypeCorrect == Spec => []TypeOK
<1>1. Typed => TypeOK
  BY Zenon DEF Typed
<1> QED BY <1>1, TypeInit, TypeStep, PTL DEF Spec

-----------------------------------------------------------------------------
(* Promises.  A request is on record from the moment its id is drawn until *)
(* its promise is set; ids not yet drawn have no promise.                  *)
Promised ==
  /\ SetOnce
  /\ \A i \in Ids : i >= next_request_id_ => promise[i] = "unset"

LEMMA PromisedStep == Typed /\ Promised /\ [Next]_vars => Promised'
<1> SUFFICES ASSUME TypeOK, Promised, [Next]_vars PROVE Promised'
  BY Zenon DEF Typed
<1>a. /\ MaxRequests \in Nat /\ next_request_id_ \in Nat
      /\ pending_requests_ \subseteq 1 .. next_request_id_ - 1
      /\ \A i \in Ids : i \in Nat
      /\ pending_requests_ \subseteq Ids
      /\ promise \in [Ids -> {"unset", "answer", "empty"}]
  BY IdTypes, Zenon DEF TypeOK
<1>1. CASE UNCHANGED <<pending_requests_, promise, next_request_id_>>
  BY <1>1, Zenon DEF Promised, SetOnce
<1>2. ASSUME NEW c \in Callers, NEW p \in Peers, Register(c, p)
      PROVE  Promised'
  <2>1. /\ next_request_id_ \in Ids /\ next_request_id_' = next_request_id_ + 1
        /\ pending_requests_' = pending_requests_ \cup {next_request_id_}
        /\ UNCHANGED promise
    BY <1>2, Zenon DEF Register, next_id
  <2> QED BY <1>a, <2>1 DEF Promised, SetOnce
<1>3. ASSUME NEW p \in Peers, OnPeerRead(p)
      PROVE  Promised'
  <2>1. UNCHANGED next_request_id_
    BY <1>3, Zenon DEF OnPeerRead, callVars
  <2>2. CASE UNCHANGED requestVars
    BY <1>1, <2>1, <2>2, Zenon DEF requestVars
  <2>3. ASSUME NEW id, pending_requests_' = pending_requests_ \ {id},
               promise' = [promise EXCEPT ![id] = IF id \in pending_requests_ THEN "answer" ELSE @]
        PROVE  Promised'
    <3>1. \A i \in Ids : i # id \/ i \notin pending_requests_ => promise'[i] = promise[i]
      BY <1>a, <2>3, Zenon
    <3> QED BY <1>a, <2>1, <2>3, <3>1 DEF Promised, SetOnce
  <2> QED BY <1>3, <2>2, <2>3, Zenon DEF OnPeerRead
<1>4. ASSUME NEW p \in Peers, OnPeerEof(p)
      PROVE  Promised'
  <2>1. UNCHANGED next_request_id_ /\ fail_pending_requests
    BY <1>4, Zenon DEF OnPeerEof, callVars
  <2>2. pending_requests_' = {}
    BY <2>1, Zenon DEF fail_pending_requests
  <2>3. \A i \in Ids : i \notin pending_requests_ => promise'[i] = promise[i]
    BY <2>1, Zenon DEF fail_pending_requests
  <2> QED BY <1>a, <2>1, <2>2, <2>3 DEF Promised, SetOnce
<1> QED
  BY <1>1, <1>2, <1>3, <1>4, Zenon
  DEF Next, LibuvStep, Enqueue, Wake, connect_to_peers, Serve, Break, drain_pending_connects,
      OnWakeup, OnBadFrame, OnConnect, vars, requestVars, callVars

(* on_peer_read and fail_pending_requests never set a promise that was set *)
(* before, however answers, timeouts and lost connections interleave:      *)
(* std::promise would throw in the libuv thread.                           *)
THEOREM PromisesSetOnce == Spec => []SetOnce
<1>1. Init => Promised
  BY Zenon DEF Init, Promised, SetOnce
<1>2. Promised => SetOnce
  BY Zenon DEF Promised
<1> QED BY <1>1, <1>2, TypeInit, TypeStep, PromisedStep, PTL DEF Spec

-----------------------------------------------------------------------------
(* The order of requests.  A request of a thread is queued, sent and       *)
(* executed; what is further on its way was made earlier.  own, next and   *)
(* calls stand for the variables owner, next_request_id_ and call.         *)
Ordered(own, s) ==
  \A i, j \in DOMAIN s : i < j /\ own[s[i]].caller = own[s[j]].caller => s[i] < s[j]

Before(own, s, t) ==
  \A i \in DOMAIN s, j \in DOMAIN t : own[s[i]].caller = own[t[j]].caller => s[i] < t[j]

(* What is on its way to p has been given out, for p.                      *)
For(own, next, p, s) ==
  s \in Seq(Ids) /\ \A i \in DOMAIN s : s[i] \in Ids /\ s[i] < next /\ own[s[i]].peer = p

(* The requests in s are older than those their threads are about to queue.*)
Older(own, calls, s) ==
  \A c \in Callers : calls[c].pc = "enqueue" =>
    \A i \in DOMAIN s : own[s[i]].caller = c => s[i] < calls[c].id

Line(own, next, calls, p, done, sent, queued) ==
  /\ For(own, next, p, done) /\ For(own, next, p, sent) /\ For(own, next, p, queued)
  /\ Ordered(own, done) /\ Ordered(own, sent) /\ Ordered(own, queued)
  /\ Before(own, done, sent) /\ Before(own, done, queued) /\ Before(own, sent, queued)
  /\ Older(own, calls, done) /\ Older(own, calls, sent) /\ Older(own, calls, queued)

Lined ==
  \A p \in Peers :
    Line(owner, next_request_id_, call, p, log[p], toPeer[p], outbound_queue_[p])

(* What a step may do to ids, owners and calls without moving a request.   *)
Follows(own, next, calls, own2, next2, calls2) ==
  /\ next \in Nat /\ (\A i \in Ids : i \in Nat)
  /\ next2 \in Nat /\ next <= next2
  /\ \A i \in Ids : i < next => own2[i] = own[i]
  /\ \A c \in Callers : calls2[c].pc = "enqueue" =>
       calls2[c] = calls[c] \/ calls2[c].id = next

(* `c' hands its request `id' over to the queue of `p'.                    *)
Joins(own, next, calls, calls2, p, id) ==
  /\ next \in Nat /\ (\A i \in Ids : i \in Nat)
  /\ id \in Ids /\ id < next /\ own[id].peer = p
  /\ \E c \in Callers :
       /\ own[id].caller = c /\ calls[c].pc = "enqueue" /\ calls[c].id = id
       /\ calls2[c].pc # "enqueue"
       /\ \A d \in Callers \ {c} : calls2[d] = calls[d]

(* A request that is given out, or a thread that goes on, changes nothing. *)
LEMMA LineStays ==
  ASSUME NEW own, NEW next, NEW calls, NEW p, NEW done, NEW sent, NEW queued,
         Line(own, next, calls, p, done, sent, queued),
         NEW own2, NEW next2, NEW calls2, Follows(own, next, calls, own2, next2, calls2)
  PROVE  Line(own2, next2, calls2, p, done, sent, queued)
<1> USE DEF Follows
<1>1. ASSUME NEW s, For(own, next, p, s)
      PROVE  /\ For(own2, next2, p, s)
             /\ \A i \in DOMAIN s : s[i] \in Nat /\ s[i] < next /\ own2[s[i]] = own[s[i]]
  BY <1>1 DEF For
<1>2. ASSUME NEW s, For(own, next, p, s), Ordered(own, s), Older(own, calls, s)
      PROVE  Ordered(own2, s) /\ Older(own2, calls2, s)
  BY <1>1, <1>2 DEF Ordered, Older
<1>3. ASSUME NEW s, For(own, next, p, s), NEW t, For(own, next, p, t), Before(own, s, t)
      PROVE  Before(own2, s, t)
  BY <1>1, <1>3 DEF Before
<1> QED BY <1>1, <1>2, <1>3, Zenon DEF Line

(* What Append adds to a queue and to a log, and what it leaves.           *)
LEMMA Appended ==
  ASSUME NEW s \in Seq(Ids), NEW x \in Ids
  PROVE  /\ Append(s, x) \in Seq(Ids) /\ Len(s) \in Nat
         /\ DOMAIN Append(s, x) = DOMAIN s \cup {Len(s) + 1}
         /\ Append(s, x)[Len(s) + 1] = x
         /\ \A i \in DOMAIN s : i \in Nat /\ i < Len(s) + 1 /\ Append(s, x)[i] = s[i]
<1>1. Append(s, x) \in Seq(Ids) /\ Len(s) \in Nat /\ DOMAIN s = 1 .. Len(s)
  OBVIOUS
<1>2. DOMAIN Append(s, x) = 1 .. Len(s) + 1
  OBVIOUS
<1>3. 1 .. Len(s) + 1 = (1 .. Len(s)) \cup {Len(s) + 1}
  BY <1>1
<1>4. Append(s, x)[Len(s) + 1] = x
  OBVIOUS
<1>5. \A i \in DOMAIN s : i \in Nat /\ i < Len(s) + 1
  BY <1>1
<1>6. \A i \in DOMAIN s : Append(s, x)[i] = s[i]
  OBVIOUS
<1> QED BY <1>1, <1>2, <1>3, <1>4, <1>5, <1>6, Zenon

(* A thread's next request joins the end of its queue.                     *)
LEMMA LineJoins ==
  ASSUME NEW own, NEW next, NEW calls, NEW p, NEW done, NEW sent, NEW queued,
         Line(own, next, calls, p, done, sent, queued),
         NEW calls2, NEW id, Joins(own, next, calls, calls2, p, id)
  PROVE  Line(own, next, calls2, p, done, sent, Append(queued, id))
<1> SUFFICES ASSUME next \in Nat, \A i \in Ids : i \in Nat,
                    id \in Ids, id < next, own[id].peer = p,
                    NEW c \in Callers, own[id].caller = c, calls[c].pc = "enqueue",
                    calls[c].id = id, calls2[c].pc # "enqueue",
                    \A d \in Callers \ {c} : calls2[d] = calls[d]
             PROVE  Line(own, next, calls2, p, done, sent, Append(queued, id))
  BY Zenon DEF Joins
<1> DEFINE longer == Append(queued, id)
<1>2. queued \in Seq(Ids) /\ done \in Seq(Ids) /\ sent \in Seq(Ids)
  BY Zenon DEF Line, For
<1>3. /\ longer \in Seq(Ids) /\ DOMAIN longer = DOMAIN queued \cup {Len(queued) + 1}
      /\ \A i \in DOMAIN queued : i < Len(queued) + 1 /\ longer[i] = queued[i]
      /\ longer[Len(queued) + 1] = id
      /\ Len(queued) \in Nat
      /\ \A i \in DOMAIN queued : i \in Nat
  <2>1. queued \in Seq(Ids) /\ id \in Ids
    BY <1>2, Zenon
  <2> QED BY <2>1, Appended
<1> HIDE DEF longer
<1>4. For(own, next, p, longer)
  BY <1>3, ZenonT(30) DEF Line, For
<1>5. Ordered(own, longer)
  BY <1>3 DEF Line, Ordered, Older
<1>6. Before(own, done, longer) /\ Before(own, sent, longer)
  BY <1>3 DEF Line, Before, Older
<1>7. Older(own, calls2, longer)
  <2>1. \A i \in DOMAIN longer :
          \/ i \in DOMAIN queued /\ longer[i] = queued[i]
          \/ longer[i] = id
    BY <1>3, Zenon
  <2>2. Older(own, calls, queued)
    BY Zenon DEF Line
  <2> QED BY <2>1, <2>2, Zenon DEF Older
<1>8. Older(own, calls2, done) /\ Older(own, calls2, sent)
  BY Zenon DEF Line, Older
<1> QED BY <1>4, <1>5, <1>6, <1>7, <1>8, Zenon DEF Line, longer

(* The batch is written behind what was sent.                              *)
LEMMA LineSent ==
  ASSUME NEW own, NEW next, NEW calls, NEW p, NEW done, NEW sent, NEW queued,
         Line(own, next, calls, p, done, sent, queued)
  PROVE  Line(own, next, calls, p, done, sent \o queued, <<>>)
<1> DEFINE all == sent \o queued
<1>1. queued \in Seq(Ids) /\ done \in Seq(Ids) /\ sent \in Seq(Ids)
  BY Zenon DEF Line, For
<1>2. /\ all \in Seq(Ids)
      /\ \A i \in DOMAIN all :
           /\ i \in Nat
           /\ IF i <= Len(sent) THEN i \in DOMAIN sent /\ all[i] = sent[i]
              ELSE i - Len(sent) \in DOMAIN queued /\ all[i] = queued[i - Len(sent)]
      /\ Len(sent) \in Nat
  BY <1>1
<1> HIDE DEF all
<1>3. For(own, next, p, all)
  BY <1>2 DEF Line, For
<1>4. Ordered(own, all)
  <2> SUFFICES ASSUME NEW i \in DOMAIN all, NEW j \in DOMAIN all, i < j,
                      own[all[i]].caller = own[all[j]].caller
               PROVE  all[i] < all[j]
    BY Zenon DEF Ordered
  <2>1. CASE j <= Len(sent)
    BY <1>2, <2>1 DEF Line, Ordered
  <2>2. CASE i <= Len(sent) /\ ~ j <= Len(sent)
    BY <1>2, <2>2, Zenon DEF Line, Before
  <2>3. CASE ~ i <= Len(sent)
    <3>1. /\ i - Len(sent) \in DOMAIN queued /\ j - Len(sent) \in DOMAIN queued
          /\ i - Len(sent) < j - Len(sent)
          /\ all[i] = queued[i - Len(sent)] /\ all[j] = queued[j - Len(sent)]
      BY <1>2, <2>3
    <3> QED BY <3>1, Zenon DEF Line, Ordered
  <2> QED BY <1>2, <2>1, <2>2, <2>3, Zenon
<1>5. Before(own, done, all)
  BY <1>2, Zenon DEF Line, Before
<1>6. Older(own, calls, all)
  BY <1>2, Zenon DEF Line, Older
<1>7. /\ For(own, next, p, <<>>) /\ Ordered(own, <<>>) /\ Older(own, calls, <<>>)
      /\ Before(own, done, <<>>) /\ Before(own, all, <<>>)
  BY DEF For, Ordered, Before, Older
<1> QED BY <1>3, <1>4, <1>5, <1>6, <1>7, Zenon DEF Line, all

(* The first request that was sent is executed.                            *)
LEMMA LineServed ==
  ASSUME NEW own, NEW next, NEW calls, NEW p, NEW done, NEW sent, NEW queued,
         Line(own, next, calls, p, done, sent, queued), sent # <<>>
  PROVE  Line(own, next, calls, p, Append(done, Head(sent)), Tail(sent), queued)
<1> DEFINE more == Append(done, Head(sent))
<1> DEFINE rest == Tail(sent)
<1>1. queued \in Seq(Ids) /\ done \in Seq(Ids) /\ sent \in Seq(Ids)
  BY Zenon DEF Line, For
<1>2. /\ more \in Seq(Ids) /\ DOMAIN more = DOMAIN done \cup {Len(done) + 1}
      /\ \A i \in DOMAIN done : i \in Nat /\ i < Len(done) + 1 /\ more[i] = done[i]
      /\ more[Len(done) + 1] = sent[1] /\ 1 \in DOMAIN sent /\ Len(done) \in Nat
  BY <1>1
<1>3. /\ rest \in Seq(Ids)
      /\ \A i \in DOMAIN rest : i \in Nat /\ i + 1 \in DOMAIN sent /\ rest[i] = sent[i + 1]
                               /\ 1 < i + 1
  BY <1>1
<1> HIDE DEF more, rest
<1>4. For(own, next, p, more) /\ For(own, next, p, rest)
  BY <1>2, <1>3 DEF Line, For
<1>5. Ordered(own, more)
  BY <1>2 DEF Line, Ordered, Before
<1>6. Ordered(own, rest)
  <2> SUFFICES ASSUME NEW i \in DOMAIN rest, NEW j \in DOMAIN rest, i < j,
                      own[rest[i]].caller = own[rest[j]].caller
               PROVE  rest[i] < rest[j]
    BY Zenon DEF Ordered
  <2>1. /\ i + 1 \in DOMAIN sent /\ j + 1 \in DOMAIN sent /\ i + 1 < j + 1
        /\ rest[i] = sent[i + 1] /\ rest[j] = sent[j + 1]
    BY <1>3
  <2> QED BY <2>1, Zenon DEF Line, Ordered
<1>7. Before(own, more, rest)
  BY <1>2, <1>3 DEF Line, Before, Ordered
<1>8. Before(own, more, queued) /\ Before(own, rest, queued)
  BY <1>2, <1>3, SMTT(30) DEF Line, Before
<1>9. Older(own, calls, more) /\ Older(own, calls, rest)
  BY <1>2, <1>3 DEF Line, Older
<1> QED BY <1>4, <1>5, <1>6, <1>7, <1>8, <1>9, Zenon DEF Line, more, rest

(* Requests that are lost leave the others in order.                       *)
LEMMA LineLost ==
  ASSUME NEW own, NEW next, NEW calls, NEW p, NEW done, NEW sent, NEW queued,
         Line(own, next, calls, p, done, sent, queued)
  PROVE  /\ Line(own, next, calls, p, done, <<>>, queued)
         /\ Line(own, next, calls, p, done, sent, <<>>)
<1>1. For(own, next, p, <<>>)
  BY DEF For
<1>2. DOMAIN <<>> = {}
  OBVIOUS
<1>3. Ordered(own, <<>>) /\ Older(own, calls, <<>>)
  BY <1>2, Zenon DEF Ordered, Older
<1>4. \A s : Before(own, s, <<>>) /\ Before(own, <<>>, s)
  BY <1>2, Zenon DEF Before
<1> QED BY <1>1, <1>3, <1>4, Zenon DEF Line

LEMMA LinedStep == Typed /\ Lined /\ [Next]_vars => Lined'
<1> SUFFICES ASSUME Typed, Lined, [Next]_vars, NEW p \in Peers
             PROVE  Line(owner', next_request_id_', call', p,
                         log'[p], toPeer'[p], outbound_queue_'[p])
  BY Zenon DEF Lined
<1>a. /\ next_request_id_ \in Nat /\ (\A i \in Ids : i \in Nat)
      /\ 1 .. next_request_id_ - 1 \subseteq Ids
  BY IdTypes, Zenon DEF Typed
<1>b. /\ toPeer \in [Peers -> Seq(Ids)] /\ log \in [Peers -> Seq(Ids)]
      /\ outbound_queue_ \in [Peers -> Seq(Ids)]
      /\ call \in [Callers -> [pc : {"idle", "enqueue", "wait"}, id : 0 .. MaxRequests]]
      /\ owner \in [1 .. next_request_id_ - 1 -> [caller : Callers, peer : Peers]]
  BY Zenon DEF Typed, TypeOK
<1>c. Line(owner, next_request_id_, call, p, log[p], toPeer[p], outbound_queue_[p])
  BY Zenon DEF Lined
<1>d. next_request_id_ <= next_request_id_
  BY <1>a
<1>1. CASE UNCHANGED <<log, toPeer, outbound_queue_, callVars>>
  BY <1>1, <1>c, Zenon DEF callVars
<1>2. ASSUME NEW c \in Callers, NEW r \in Peers, Register(c, r)
      PROVE  Line(owner', next_request_id_', call', p, log'[p], toPeer'[p], outbound_queue_'[p])
  <2>1. UNCHANGED <<log, toPeer, outbound_queue_>>
    BY <1>2, Zenon DEF Register, queueVars, wireVars
  <2>2. next_request_id_' = next_request_id_ + 1 /\ next_request_id_' \in Nat
    BY <1>2, <1>a DEF Register, next_id
  <2>3. \A i \in Ids : i < next_request_id_ => owner'[i] = owner[i]
    BY <1>2, <1>a, <1>b DEF Register, Ids
  <2>4. /\ call'[c].id = next_request_id_
        /\ \A d \in Callers \ {c} : call'[d] = call[d]
    BY <1>2, <1>b, Zenon DEF Register
  <2>5. next_request_id_ <= next_request_id_'
    BY <1>a, <2>2
  <2>6. Follows(owner, next_request_id_, call, owner', next_request_id_', call')
    BY <1>a, <2>2, <2>3, <2>4, <2>5, Zenon DEF Follows
  <2> QED BY <1>c, <2>1, <2>6, LineStays, Zenon
<1>3. ASSUME NEW c \in Callers, Enqueue(c)
      PROVE  Line(owner', next_request_id_', call', p, log'[p], toPeer'[p], outbound_queue_'[p])
  <2> DEFINE id == call[c].id
  <2>1. /\ UNCHANGED <<log, toPeer, owner, next_request_id_>> /\ call[c].pc = "enqueue"
        /\ outbound_queue_' = [outbound_queue_ EXCEPT ![owner[id].peer] = Append(@, id)]
    BY <1>3, Zenon DEF Enqueue, wireVars
  <2>2. call'[c].pc # "enqueue" /\ \A d \in Callers \ {c} : call'[d] = call[d]
    BY <1>3, <1>b, Zenon DEF Enqueue
  <2>3. id \in Ids /\ id < next_request_id_ /\ owner[id].caller = c /\ owner[id].peer \in Peers
    <3>1. id \in 1 .. next_request_id_ - 1 /\ owner[id].caller = c
      BY <2>1, Zenon DEF Typed, Called
    <3>2. id \in Ids /\ id < next_request_id_
      BY <1>a, <3>1
    <3>3. owner[id].peer \in Peers
      BY <1>b, <3>1, Zenon
    <3> QED BY <3>1, <3>2, <3>3, Zenon
  <2>4. CASE p = owner[id].peer
    <3>1. outbound_queue_'[p] = Append(outbound_queue_[p], id)
      BY <1>b, <2>1, <2>4, Zenon
    <3>2. Line(owner, next_request_id_, call', p, log[p], toPeer[p],
               Append(outbound_queue_[p], id))
      <4> HIDE DEF id
      <4>1. call[c].pc = "enqueue" /\ call[c].id = id
        BY <2>1, Zenon DEF id
      <4>2. id \in Ids /\ id < next_request_id_ /\ owner[id].caller = c /\ owner[id].peer = p
        BY <2>3, <2>4, Zenon
      <4>3. Joins(owner, next_request_id_, call, call', p, id)
        BY <1>a, <2>2, <4>1, <4>2, Zenon DEF Joins
      <4> QED BY <1>c, <4>3, LineJoins, Zenon
    <3> QED BY <2>1, <3>1, <3>2, Zenon
  <2>5. CASE p # owner[id].peer
    <3>1. outbound_queue_'[p] = outbound_queue_[p]
      BY <1>b, <2>1, <2>5, Zenon
    <3>2. Line(owner, next_request_id_, call', p, log[p], toPeer[p], outbound_queue_[p])
      <4>1. Follows(owner, next_request_id_, call, owner, next_request_id_, call')
        BY <1>a, <1>d, <2>2, Zenon DEF Follows
      <4> QED BY <1>c, <4>1, LineStays, Zenon
    <3> QED BY <2>1, <3>1, <3>2, Zenon
  <2> QED BY <2>4, <2>5, Zenon
<1>4. ASSUME NEW c \in Callers, Wake(c)
      PROVE  Line(owner', next_request_id_', call', p, log'[p], toPeer'[p], outbound_queue_'[p])
  <2>1. UNCHANGED <<log, toPeer, outbound_queue_, owner, next_request_id_>>
    BY <1>4, Zenon DEF Wake, queueVars, wireVars
  <2>2. call'[c].pc # "enqueue" /\ \A d \in Callers \ {c} : call'[d] = call[d]
    BY <1>4, <1>b, Zenon DEF Wake, NoCall
  <2>3. Line(owner, next_request_id_, call', p, log[p], toPeer[p], outbound_queue_[p])
    <3>1. Follows(owner, next_request_id_, call, owner, next_request_id_, call')
      BY <1>a, <1>d, <2>2, Zenon DEF Follows
    <3> QED BY <1>c, <3>1, LineStays, Zenon
  <2> QED BY <2>1, <2>3, Zenon
<1>5. CASE OnWakeup
  <2>1. /\ UNCHANGED <<log, owner, next_request_id_, call>>
        /\ outbound_queue_'[p] = <<>>
        /\ toPeer'[p] \in {toPeer[p], toPeer[p] \o outbound_queue_[p]}
    BY <1>5, Zenon DEF OnWakeup, Sent, callVars
  <2> QED BY <1>c, <2>1, LineSent, LineLost, Zenon
<1>6. ASSUME NEW r \in Peers, Serve(r)
      PROVE  Line(owner', next_request_id_', call', p, log'[p], toPeer'[p], outbound_queue_'[p])
  <2>1. UNCHANGED <<outbound_queue_, owner, next_request_id_, call>>
    BY <1>6, Zenon DEF Serve, queueVars, callVars
  <2>2. CASE r = p
    <3>1. /\ toPeer[p] # <<>> /\ toPeer'[p] = Tail(toPeer[p])
          /\ log'[p] = Append(log[p], Head(toPeer[p]))
      BY <1>6, <1>b, <2>2, Zenon DEF Serve
    <3> QED BY <1>c, <2>1, <3>1, LineServed, Zenon
  <2>3. CASE r # p
    <3>1. toPeer'[p] = toPeer[p] /\ log'[p] = log[p]
      BY <1>6, <1>b, <2>3, Zenon DEF Serve
    <3> QED BY <1>c, <2>1, <3>1, Zenon
  <2> QED BY <2>2, <2>3, Zenon
<1>7. ASSUME NEW r \in Peers, OnBadFrame(r) \/ \E n \in 0 .. Len(fromPeer[r]) : Break(r, n)
      PROVE  Line(owner', next_request_id_', call', p, log'[p], toPeer'[p], outbound_queue_'[p])
  <2>1. /\ UNCHANGED <<log, outbound_queue_, owner, next_request_id_, call>>
        /\ toPeer' = [toPeer EXCEPT ![r] = <<>>]
    BY <1>7, Zenon DEF OnBadFrame, Break, queueVars, callVars
  <2>2. toPeer'[p] \in {toPeer[p], <<>>}
    BY <1>b, <2>1, Zenon
  <2> QED BY <1>c, <2>1, <2>2, LineLost, Zenon
<1> QED
  BY <1>1, <1>2, <1>3, <1>4, <1>5, <1>6, <1>7, Zenon
  DEF Next, LibuvStep, connect_to_peers, drain_pending_connects, OnPeerRead, OnPeerEof,
      OnConnect, vars, queueVars, wireVars

LEMMA LinedInit == Init => Lined
BY DEF Init, Lined, Line, For, Ordered, Before, Older

(* sync_remote_call, the outbound queue, uv_write and memoryd keep the     *)
(* order in which a thread made its requests to a peer, and execute none   *)
(* twice, whatever times out, is dropped or is lost with a connection.     *)
THEOREM RequestsKeepOrder == Spec => []ExecutedInOrder
<1>1. Lined => ExecutedInOrder
  BY Zenon DEF Lined, Line, Ordered, ExecutedInOrder
<1> QED BY <1>1, TypeInit, TypeStep, LinedInit, LinedStep, PTL DEF Spec

-----------------------------------------------------------------------------
(* Answers.  Every fragment on its way back, or left in a read_buffer by a *)
(* connection that broke, belongs to a request its peer has executed.      *)
Executed(l, id) == \E k \in DOMAIN l : l[k] = id

Genuine(l, s) == \A i \in DOMAIN s : Executed(l, s[i].id)

Arriving ==
  \A p \in Peers : Genuine(log[p], fromPeer[p]) /\ Genuine(log[p], read_buffer[p])

Replied ==
  \A i \in Ids : promise[i] = "answer" =>
    i < next_request_id_ /\ Executed(log[owner[i].peer], i)

Answering == Arriving /\ Replied

LEMMA Longer ==
  ASSUME NEW l \in Seq(Ids), NEW x \in Ids, NEW id, Executed(l, id)
  PROVE  Executed(Append(l, x), id)
<1>1. PICK k \in DOMAIN l : l[k] = id
  BY Zenon DEF Executed
<1>2. k \in DOMAIN Append(l, x) /\ Append(l, x)[k] = l[k]
  OBVIOUS
<1> QED BY <1>1, <1>2, Zenon DEF Executed

LEMMA LogGrows ==
  ASSUME TypeOK, [Next]_vars, NEW p \in Peers
  PROVE  \A id : Executed(log[p], id) => Executed(log'[p], id)
<1>1. CASE UNCHANGED log
  BY <1>1, Zenon
<1>2. ASSUME NEW r \in Peers, Serve(r)
      PROVE  \A id : Executed(log[p], id) => Executed(log'[p], id)
  <2>1. PICK x \in Ids : log' = [log EXCEPT ![r] = Append(@, x)]
    BY <1>2, Served, Zenon DEF Serve
  <2>2. log[p] \in Seq(Ids) /\ log'[p] \in {log[p], Append(log[p], x)}
    BY <2>1, Zenon DEF TypeOK
  <2>3. \A id : Executed(log[p], id) => Executed(Append(log[p], x), id)
    BY <2>2, Longer, Zenon
  <2> QED BY <2>2, <2>3, Zenon
<1> QED
  BY <1>1, <1>2, Zenon
  DEF Next, LibuvStep, Enqueue, Wake, Register, connect_to_peers, Break, drain_pending_connects,
      OnWakeup, OnPeerRead, OnBadFrame, OnPeerEof, OnConnect, vars, wireVars

LEMMA AnsweringStep == Typed /\ Promised /\ Lined /\ Answering /\ [Next]_vars => Answering'
<1> SUFFICES ASSUME Typed, Promised, Lined, Answering, [Next]_vars
             PROVE  Answering'
  BY Zenon
<1>a. /\ TypeOK /\ next_request_id_ \in Nat /\ (\A i \in Ids : i \in Nat)
      /\ 1 .. next_request_id_ - 1 \subseteq Ids
  BY IdTypes, Zenon DEF Typed
<1>b. /\ fromPeer \in [Peers -> Seq(Fragments)] /\ read_buffer \in [Peers -> Seq(Fragments)]
      /\ promise \in [Ids -> {"unset", "answer", "empty"}]
      /\ owner \in [1 .. next_request_id_ - 1 -> [caller : Callers, peer : Peers]]
      /\ next_request_id_ \in 1 .. MaxRequests + 1
  BY <1>a, Zenon DEF TypeOK
<1>c. \A p \in Peers : \A id : Executed(log[p], id) => Executed(log'[p], id)
  BY <1>a, LogGrows, Zenon
<1>d. \A i \in Ids : i < next_request_id_ => owner[i].peer \in Peers
  BY <1>b DEF Ids
<1>e. ASSUME NEW p \in Peers, NEW id, Executed(log[p], id)
      PROVE  id \in Ids /\ id < next_request_id_ /\ owner[id].peer = p
  <2>1. For(owner, next_request_id_, p, log[p])
    BY Zenon DEF Lined, Line
  <2>2. PICK k \in DOMAIN log[p] : log[p][k] = id
    BY <1>e, Zenon DEF Executed
  <2> QED BY <2>1, <2>2, Zenon DEF For

<1>f. next_request_id_ <= next_request_id_
  BY <1>a
<1>1. ASSUME \A i \in Ids : promise'[i] = "answer" => promise[i] = "answer",
             \A i \in Ids : i < next_request_id_ => owner'[i] = owner[i],
             next_request_id_' \in Nat, next_request_id_ <= next_request_id_'
      PROVE  Replied'
  <2> SUFFICES ASSUME NEW i \in Ids, promise'[i] = "answer"
               PROVE  i < next_request_id_' /\ Executed(log'[owner'[i].peer], i)
    BY Zenon DEF Replied
  <2>1. i < next_request_id_ /\ Executed(log[owner[i].peer], i)
    BY <1>1, Zenon DEF Answering, Replied
  <2>2. i < next_request_id_'
    <3>1. i \in Nat
      BY <1>a, Zenon
    <3> QED BY <1>1, <1>a, <2>1, <3>1
  <2>3. owner'[i] = owner[i] /\ owner[i].peer \in Peers
    BY <1>1, <1>d, <2>1, Zenon
  <2>4. Executed(log'[owner[i].peer], i)
    BY <1>c, <2>1, <2>3, Zenon
  <2> QED BY <2>2, <2>3, <2>4, Zenon
<1>2. ASSUME UNCHANGED <<fromPeer, read_buffer>>
      PROVE  Arriving'
  BY <1>2, <1>c, Zenon DEF Answering, Arriving, Genuine
<1>g. ASSUME UNCHANGED <<promise, owner, next_request_id_>>
      PROVE  Replied'
  BY <1>1, <1>a, <1>f, <1>g, Zenon
<1>3. CASE UNCHANGED <<fromPeer, read_buffer, promise, owner, next_request_id_>>
  BY <1>2, <1>3, <1>g, Zenon DEF Answering
<1>4. ASSUME NEW c \in Callers, NEW r \in Peers, Register(c, r)
      PROVE  Answering'
  <2>1. UNCHANGED <<fromPeer, read_buffer, promise>>
    BY <1>4, Zenon DEF Register, libuvVars, wireVars
  <2>2. next_request_id_' = next_request_id_ + 1
    BY <1>4, Zenon DEF Register, next_id
  <2>3. \A i \in Ids : i < next_request_id_ => owner'[i] = owner[i]
    BY <1>4, <1>a, <1>b, SMTT(30) DEF Register, Ids
  <2>4. next_request_id_' \in Nat /\ next_request_id_ <= next_request_id_'
    BY <1>a, <2>2
  <2> QED BY <1>1, <1>2, <2>1, <2>3, <2>4, Zenon DEF Answering
<1>5. ASSUME NEW r \in Peers, Serve(r)
      PROVE  Answering'
  <2>1. UNCHANGED <<read_buffer, promise, owner, next_request_id_>>
    BY <1>5, Zenon DEF Serve, libuvVars, requestVars, callVars
  <2> DEFINE id == Head(toPeer[r])
  <2> DEFINE two == <<[id |-> id, part |-> 1], [id |-> id, part |-> 2]>>
  <2>2. Executed(log'[r], id)
    <3>1. log[r] \in Seq(Ids) /\ log'[r] = Append(log[r], id)
      BY <1>a, <1>5, Zenon DEF Serve, TypeOK
    <3>2. Len(log[r]) + 1 \in DOMAIN log'[r] /\ log'[r][Len(log[r]) + 1] = id
      BY <3>1, <1>a, <1>5, Served
    <3> QED BY <3>2, Zenon DEF Executed
  <2>3. ASSUME NEW p \in Peers
        PROVE  Genuine(log'[p], fromPeer'[p])
    <3>1. Genuine(log[p], fromPeer[p]) /\ fromPeer[p] \in Seq(Fragments)
      BY <1>b, Zenon DEF Answering, Arriving
    <3>2. CASE p # r
      <4>1. fromPeer'[p] = fromPeer[p]
        BY <1>5, <1>b, <3>2, Zenon DEF Serve
      <4> QED BY <1>c, <3>1, <4>1, Zenon DEF Genuine
    <3>3. CASE p = r
      <4>1. fromPeer'[p] = fromPeer[p] \o two
        BY <1>5, <1>b, <3>3, Zenon DEF Serve
      <4>2. id \in Ids
        BY <1>5, <1>a, Served, Zenon
      <4>3. two \in Seq(Fragments) /\ \A i \in DOMAIN two : two[i].id = id
        BY <4>2 DEF Fragments
      <4> HIDE DEF two
      <4>4. \A i \in DOMAIN fromPeer'[p] :
              IF i <= Len(fromPeer[p])
              THEN i \in DOMAIN fromPeer[p] /\ fromPeer'[p][i] = fromPeer[p][i]
              ELSE /\ i - Len(fromPeer[p]) \in DOMAIN two
                   /\ fromPeer'[p][i] = two[i - Len(fromPeer[p])]
        <5>1. fromPeer[p] \in Seq(Fragments) /\ two \in Seq(Fragments)
          BY <3>1, <4>3, Zenon
        <5> HIDE DEF two
        <5> QED BY <4>1, <5>1, Joined
      <4> HIDE DEF id
      <4> QED BY <1>c, <2>2, <3>1, <3>3, <4>3, <4>4, ZenonT(30) DEF Genuine
    <3> QED BY <3>2, <3>3, Zenon
  <2>4. ASSUME NEW p \in Peers
        PROVE  Genuine(log'[p], read_buffer'[p])
    <3>1. Genuine(log[p], read_buffer'[p])
      BY <2>1, Zenon DEF Answering, Arriving
    <3> QED BY <1>c, <3>1, Zenon DEF Genuine
  <2> QED BY <1>g, <2>1, <2>3, <2>4, Zenon DEF Answering, Arriving
<1>6. ASSUME NEW r \in Peers, OnPeerRead(r)
      PROVE  Answering'
  <2> DEFINE buffer == Append(read_buffer[r], Head(fromPeer[r]))
  <2>1. /\ fromPeer[r] # <<>> /\ UNCHANGED <<owner, next_request_id_, log>>
        /\ fromPeer' = [fromPeer EXCEPT ![r] = Tail(@)]
    BY <1>6, Zenon DEF OnPeerRead, callVars
  <2>2. /\ Genuine(log[r], buffer) /\ Executed(log[r], buffer[1].id)
        /\ Genuine(log[r], Tail(fromPeer[r]))
    <3>1. fromPeer[r] \in Seq(Fragments) /\ 1 \in DOMAIN fromPeer[r]
          /\ read_buffer[r] \in Seq(Fragments)
      BY <1>b, <2>1
    <3>2. Genuine(log[r], read_buffer[r]) /\ Genuine(log[r], fromPeer[r])
      BY Zenon DEF Answering, Arriving
    <3>3. Executed(log[r], fromPeer[r][1].id)
      BY <3>1, <3>2, Zenon DEF Genuine
    <3>4. Genuine(log[r], buffer)
      BY <1>a, <2>1, <3>2, <3>3, ReadType, Zenon DEF Genuine
    <3>5. 1 \in DOMAIN buffer
      BY <3>1, SMTT(30)
    <3>6. Genuine(log[r], Tail(fromPeer[r]))
      BY <1>a, <2>1, <3>2, ReadType, Zenon DEF Genuine
    <3> QED BY <3>4, <3>5, <3>6, Zenon DEF Genuine
  <2>3. \/ read_buffer' = [read_buffer EXCEPT ![r] = buffer] /\ UNCHANGED promise
        \/ /\ read_buffer' = [read_buffer EXCEPT ![r] = <<>>]
           /\ promise' = [promise EXCEPT ![buffer[1].id] =
                             IF buffer[1].id \in pending_requests_ THEN "answer" ELSE @]
    BY <1>6, Zenon DEF OnPeerRead, request_id, requestVars
  <2> HIDE DEF buffer
  <2>4. \A p \in Peers : Genuine(log'[p], fromPeer'[p])
    BY <1>b, <2>1, <2>2, Zenon DEF Answering, Arriving
  <2>5. Genuine(log[r], <<>>)
    BY DEF Genuine
  <2>6. \A p \in Peers : Genuine(log'[p], read_buffer'[p])
    BY <1>b, <2>1, <2>2, <2>3, <2>5, Zenon DEF Answering, Arriving
  <2>7. \A i \in Ids : promise'[i] = "answer" => promise[i] = "answer" \/ i = buffer[1].id
    BY <1>b, <2>3, Zenon
  <2>8. buffer[1].id < next_request_id_ /\ owner[buffer[1].id].peer = r
    BY <1>e, <2>2, Zenon
  <2> QED BY <2>1, <2>2, <2>4, <2>6, <2>7, <2>8, Zenon DEF Answering, Arriving, Replied
<1>7. ASSUME NEW r \in Peers, OnBadFrame(r)
      PROVE  Answering'
  <2> DEFINE buffer == Append(read_buffer[r], Head(fromPeer[r]))
  <2>1. /\ fromPeer[r] # <<>> /\ UNCHANGED <<owner, next_request_id_, log, promise>>
        /\ fromPeer' = [fromPeer EXCEPT ![r] = <<>>]
        /\ read_buffer' = [read_buffer EXCEPT ![r] = buffer]
    BY <1>7, Zenon DEF OnBadFrame, callVars, requestVars
  <2>2. Genuine(log[r], buffer)
    <3>1. fromPeer[r] \in Seq(Fragments) /\ 1 \in DOMAIN fromPeer[r]
      BY <1>b, <2>1, SMTT(30)
    <3>2. Genuine(log[r], read_buffer[r]) /\ Executed(log[r], fromPeer[r][1].id)
      BY <3>1, Zenon DEF Answering, Arriving, Genuine
    <3> QED BY <1>a, <2>1, <3>2, ReadType, Zenon DEF Genuine
  <2> HIDE DEF buffer
  <2>3. Genuine(log[r], <<>>)
    BY DEF Genuine
  <2>4. \A p \in Peers : Genuine(log'[p], fromPeer'[p]) /\ Genuine(log'[p], read_buffer'[p])
    BY <1>b, <2>1, <2>2, <2>3, Zenon DEF Answering, Arriving
  <2> QED BY <1>g, <2>1, <2>4, Zenon DEF Answering, Arriving
<1>8. ASSUME NEW r \in Peers, OnPeerEof(r)
      PROVE  Answering'
  <2>1. UNCHANGED <<fromPeer, read_buffer, owner, next_request_id_>> /\ fail_pending_requests
    BY <1>8, Zenon DEF OnPeerEof, callVars
  <2>2. \A i \in Ids : promise'[i] = "answer" => promise[i] = "answer"
    BY <2>1, Zenon DEF fail_pending_requests
  <2>3. next_request_id_' \in Nat /\ next_request_id_ <= next_request_id_'
    BY <1>a, <1>f, <2>1, Zenon
  <2>4. \A i \in Ids : i < next_request_id_ => owner'[i] = owner[i]
    BY <2>1, Zenon
  <2> QED BY <1>1, <1>2, <2>1, <2>2, <2>3, <2>4, Zenon DEF Answering
<1>9. ASSUME NEW r \in Peers, NEW n \in 0 .. Len(fromPeer[r]), Break(r, n)
      PROVE  Answering'
  <2>1. /\ UNCHANGED <<owner, next_request_id_, log, promise, read_buffer>>
        /\ fromPeer' = [fromPeer EXCEPT ![r] = SubSeq(@, 1, n)]
    BY <1>9, Zenon DEF Break, libuvVars, callVars, requestVars
  <2>2. Genuine(log[r], SubSeq(fromPeer[r], 1, n))
    <3>1. \A i \in DOMAIN SubSeq(fromPeer[r], 1, n) :
            i \in DOMAIN fromPeer[r] /\ SubSeq(fromPeer[r], 1, n)[i] = fromPeer[r][i]
      <4>1. fromPeer[r] \in Seq(Fragments)
        BY <1>b, Zenon
      <4> QED BY <4>1, CutOff, Zenon
    <3>2. Genuine(log[r], fromPeer[r])
      BY Zenon DEF Answering, Arriving
    <3> QED BY <3>1, <3>2, Zenon DEF Genuine
  <2>3. \A p \in Peers : Genuine(log'[p], fromPeer'[p]) /\ Genuine(log'[p], read_buffer'[p])
    BY <1>b, <2>1, <2>2, Zenon DEF Answering, Arriving
  <2> QED BY <1>g, <2>1, <2>3, Zenon DEF Answering, Arriving
<1> QED
  BY <1>3, <1>4, <1>5, <1>6, <1>7, <1>8, <1>9, Zenon
  DEF Next, LibuvStep, Enqueue, Wake, connect_to_peers, drain_pending_connects, OnWakeup,
      OnConnect, vars, libuvVars, requestVars, callVars, wireVars

(* on_peer_read hands a caller an answer only to a request that the peer    *)
(* it was sent to executed: also when bytes of a broken connection were     *)
(* left in read_buffer.                                                     *)
THEOREM AnswersBelong == Spec => []AnswersAreReal
<1>1. Init => Promised /\ Answering
  <2>1. Init => Promised
    BY DEF Init, Promised, SetOnce
  <2>2. Init => Arriving
    <3>1. \A l : Genuine(l, <<>>)
      BY DEF Genuine
    <3>2. Init => \A p \in Peers : fromPeer[p] = <<>> /\ read_buffer[p] = <<>>
      BY Zenon DEF Init
    <3> QED BY <3>1, <3>2, Zenon DEF Arriving
  <2>3. Init => Replied
    BY Zenon DEF Init, Replied
  <2> QED BY <2>1, <2>2, <2>3, Zenon DEF Answering
<1>2. Answering => AnswersAreReal
  BY Zenon DEF Answering, Replied, Executed, AnswersAreReal
<1> QED
  BY <1>1, <1>2, TypeInit, TypeStep, PromisedStep, LinedInit, LinedStep, AnsweringStep, PTL
  DEF Spec

-----------------------------------------------------------------------------
(* ClientLifetime                                                           *)


-----------------------------------------------------------------------------
(* The order of the destructor's waits: no discovery thread is left when   *)
(* stop_async_ is sent, and nothing but stop_async_ closes the handles.    *)
HandlesInOrder ==
    /\ discovery \notin {"none", "done"} => async = "open"
    /\ life = "none" => discovery = "none" /\ ~ stopSent
    /\ life \in {"query", "start"} => discovery = "none" /\ ~ stopSent /\ async = "open"
    /\ stopSent => discovery = "done"
    /\ async \in {"closing", "closed"} => stopSent

LEMMA HandlesStep == HandlesInOrder /\ [LifetimeNext]_lifetimeVars => HandlesInOrder'
<1> SUFFICES ASSUME HandlesInOrder, [LifetimeNext]_lifetimeVars PROVE HandlesInOrder'
  BY Zenon
<1> USE DEF HandlesInOrder
<1>1. CASE UNCHANGED lifeVars
  BY <1>1, Zenon DEF lifeVars
<1>2. CASE Construct
  BY <1>2, Zenon DEF Construct
<1>3. CASE query_discovery
  <2>1. UNCHANGED <<async, stopSent>>
    BY <1>3, Zenon DEF query_discovery, lifeVars
  <2>2. \/ UNCHANGED <<life, discovery>>
        \/ /\ life' = IF life = "query" THEN "start" ELSE life
           /\ discovery' = discovery \/ discovery = "query"
    BY <1>3, Zenon DEF query_discovery, Answered, lifeVars
  <2> QED BY <2>1, <2>2, Zenon
<1>4. CASE StartThreads
  BY <1>4, Zenon DEF StartThreads
<1>5. CASE DiscoveryCheck \/ Post
  BY <1>5 DEF DiscoveryCheck, Post
<1>6. CASE DrainConnects \/ StopCallback
  BY <1>6 DEF DrainConnects, StopCallback
<1>7. CASE Destroy \/ JoinNetwork \/ DestroyMembers \/ JoinMonitor
  <2>1. /\ UNCHANGED <<discovery, async, stopSent>>
        /\ life' \notin {"none", "query", "start"}
    BY <1>7, Zenon DEF Destroy, JoinNetwork, DestroyMembers, JoinMonitor, Owner
  <2> QED BY <2>1, Zenon
<1>8. CASE JoinDiscovery
  <2>1. /\ UNCHANGED <<discovery, async>> /\ discovery = "done"
        /\ stopSent' /\ life' = "join network"
    BY <1>8, Zenon DEF JoinDiscovery, Owner
  <2> QED BY <2>1, Zenon
<1>10. CASE Drain
  <2>1. /\ UNCHANGED <<discovery, stopSent>> /\ life' = "members"
        /\ async = "closing" /\ async' = "closed"
    BY <1>10, Zenon DEF Drain, Owner
  <2> QED BY <2>1, Zenon
<1>9. CASE MonitorStep
  BY <1>9 DEF MonitorStep, MonitorWake, Sample, CallbackReturns
<1> QED
  BY <1>1, <1>2, <1>3, <1>4, <1>5, <1>6, <1>7, <1>8, <1>9, <1>10
  DEF LifetimeNext, OwnerStep, DiscoveryStep, NetworkStep, Others, lifetimeVars

(* The discovery thread never posts to a handle that is closing: the       *)
(* promise of the comment in ~MemoryClient, on every platform and whatever *)
(* discoveryd does.                                                        *)
THEOREM PostsWhileOpen == LifetimeSpec => []PostsToOpenHandle
<1>1. LifetimeInit => HandlesInOrder
  BY Zenon DEF LifetimeInit, HandlesInOrder
<1>2. HandlesInOrder => PostsToOpenHandle
  BY Zenon DEF HandlesInOrder, PostsToOpenHandle
<1> QED BY <1>1, <1>2, HandlesStep, PTL DEF LifetimeSpec

-----------------------------------------------------------------------------
(* The path.  One server at a time is not down; while it binds the path is *)
(* free, while it runs the path names it.                                  *)
Places == {"down", "binding", "up", "deaf", "stopping", "joining", "unlinking"}
Stages == {"none", "loop", "wait", "pending", "woken", "serve", "reply", "flush", "done"}
Ends == Clients \cup {None, Dummy}
Objects == [Servers -> [life : Places, thread : Stages, client : Ends]]

Shapes == server \in Objects /\ queue \in [Servers -> Seq(Clients)]

(* Assignments to the fields of one server.                                *)
Client(s, c) == server' = [server EXCEPT ![s].client = c]
Serving(s, a, c) == server' = [server EXCEPT ![s].thread = a, ![s].client = c]
Starts(s) == server' = [server EXCEPT ![s].life = "up", ![s].thread = "loop"]
Wakes(s, r) == server' = [server EXCEPT ![s].life = "joining", ![r].client = Dummy]
Ended(s, l) == server' = [server EXCEPT ![s] = [Down EXCEPT !.life = l]]

Moves(s, l) ==
    /\ server' \in Objects
    /\ \A r \in Servers : server'[r].life = IF r = s THEN l ELSE server[r].life
Stays == server' \in Objects /\ \A r \in Servers : server'[r].life = server[r].life

LEMMA SetLife ==
    ASSUME server \in Objects, NEW s \in Servers, NEW l \in Places, Life(s, l)
    PROVE  Moves(s, l)
BY Zenon DEF Objects, Life, Moves

LEMMA SetThread ==
    ASSUME server \in Objects, NEW s \in Servers, NEW a \in Stages, Thread(s, a)
    PROVE  Stays
BY Zenon DEF Objects, Thread, Stays

LEMMA SetClient ==
    ASSUME server \in Objects, NEW s \in Servers, NEW c \in Ends, Client(s, c)
    PROVE  Stays
BY Zenon DEF Objects, Client, Stays

LEMMA SetThreadAndClient ==
    ASSUME server \in Objects, NEW s \in Servers, NEW a \in Stages, NEW c \in Ends,
           Serving(s, a, c)
    PROVE  Stays
BY Zenon DEF Objects, Serving, Stays

LEMMA SetLifeAndThread ==
    ASSUME server \in Objects, NEW s \in Servers, Starts(s)
    PROVE  Moves(s, "up")
<1>1. server' = [server EXCEPT ![s] = [server[s] EXCEPT !.life = "up", !.thread = "loop"]]
  BY Zenon DEF Objects, Starts
<1>2. server[s] \in [life : Places, thread : Stages, client : Ends]
  BY Zenon DEF Objects
<1>3. "up" \in Places /\ "loop" \in Stages
  BY Zenon DEF Places, Stages
<1>4. /\ [server[s] EXCEPT !.life = "up", !.thread = "loop"]
           \in [life : Places, thread : Stages, client : Ends]
      /\ [server[s] EXCEPT !.life = "up", !.thread = "loop"].life = "up"
  BY <1>2, <1>3, Zenon
<1> QED BY <1>1, <1>4, Zenon DEF Objects, Moves

LEMMA SetLifeAndClient ==
    ASSUME server \in Objects, NEW s \in Servers, NEW r \in Servers, Wakes(s, r)
    PROVE  Moves(s, "joining")
BY DEF Objects, Wakes, Moves, Places, Ends

LEMMA Reset ==
    ASSUME server \in Objects, NEW s \in Servers, NEW l \in Places, Ended(s, l)
    PROVE  Moves(s, l)
BY Zenon DEF Objects, Ended, Moves, Down, Stages, Ends

OneServer ==
    /\ Shapes
    /\ setup \in Setups
    /\ ~ setup.osFails =>
         /\ \A r \in Servers : \A s \in Servers \ {r} :
              server[r].life = "down" \/ server[s].life = "down"
         /\ \A s \in Servers :
              /\ server[s].life # "deaf"
              /\ server[s].life = "binding" => bound = None
              /\ Posix /\ server[s].life = "up" => bound = s

(* Steps of clients, and of a server that keeps its place, move no path    *)
(* and no server's life.                                                   *)
Steady ==
    /\ UNCHANGED <<setup, bound>>
    /\ \A s \in Servers : server'[s].life = server[s].life
    /\ Shapes'

LEMMA ClientsAreSteady ==
    ASSUME Shapes, NEW c \in Clients,
           connect(c) \/ refused(c) \/ InCall(c) \/ Die(c)
    PROVE  Steady
<1>1. CASE connect(c)
  <2>1. PICK s \in Servers :
          \/ queue' = [queue EXCEPT ![s] = Append(@, c)] /\ UNCHANGED server
          \/ Client(s, c) /\ UNCHANGED queue
    BY <1>1, Zenon DEF connect, Client
  <2>2. c \in Ends
    BY Zenon DEF Ends
  <2>3. server' \in Objects /\ \A r \in Servers : server'[r].life = server[r].life
    BY <2>1, <2>2, SetClient, Zenon DEF Shapes, Stays
  <2>4. queue' \in [Servers -> Seq(Clients)]
    <3>1. Append(queue[s], c) \in Seq(Clients)
      BY DEF Shapes
    <3> QED BY <2>1, <3>1, Zenon DEF Shapes
  <2> QED BY <1>1, <2>3, <2>4, Zenon DEF connect, Steady, Shapes
<1>2. CASE refused(c) \/ InCall(c) \/ Die(c)
  BY <1>2, Zenon DEF refused, InCall, write, write_fails, receive, Die, ipcVars, Steady, Shapes
<1> QED BY <1>1, <1>2, Zenon

LEMMA ThreadsAreSteady ==
    ASSUME Shapes, NEW s \in Servers,
           \/ Loop(s) \/ Timeout(s) \/ accept(s) \/ ConnectNamedPipe(s)
           \/ Woken(s) \/ read(s) \/ flush(s) \/ (reply(s) /\ ~ Killed(s))
    PROVE  Steady
<1>1. ASSUME NEW a \in Stages, Thread(s, a), UNCHANGED <<setup, bound, queue>>
      PROVE  Steady
  BY <1>1, SetThread, Zenon DEF Stays, Steady, Shapes
<1>2. CASE Loop(s) \/ Timeout(s) \/ Woken(s)
  BY <1>1, <1>2, Zenon DEF Loop, Timeout, Woken, Stages
<1>3. CASE accept(s)
  <2>1. CASE Thread(s, "done") /\ UNCHANGED queue
    BY <1>1, <1>3, <2>1, Zenon DEF accept, Stages
  <2>2. CASE /\ Serving(s, "serve", Head(queue[s])) /\ queue[s] # <<>>
             /\ queue' = [queue EXCEPT ![s] = Tail(@)]
    <3>1. Head(queue[s]) \in Ends /\ queue' \in [Servers -> Seq(Clients)]
      BY <1>3, <2>2 DEF accept, Shapes, Ends
    <3>2. "serve" \in Stages
      BY Zenon DEF Stages
    <3>3. Stays
      BY <2>2, <3>1, <3>2, SetThreadAndClient, Zenon DEF Shapes
    <3> QED BY <1>3, <3>1, <3>3, Zenon DEF accept, Stays, Steady, Shapes
  <2> QED BY <1>3, <2>1, <2>2, Zenon DEF accept, Serving
<1>4. CASE ConnectNamedPipe(s)
  BY <1>1, <1>4, Zenon DEF ConnectNamedPipe, Stages
<1>5. ASSUME Hangup(s), UNCHANGED <<setup, bound, queue>>
      PROVE  Steady
  <2>1. "loop" \in Stages /\ None \in Ends
    BY Zenon DEF Stages, Ends
  <2>2. Serving(s, "loop", None)
    BY <1>5, Zenon DEF Hangup, Serving
  <2> QED BY <1>5, <2>1, <2>2, SetThreadAndClient, Zenon DEF Stays, Steady, Shapes
<1>6. CASE read(s) \/ flush(s)
  BY <1>1, <1>5, <1>6, Zenon DEF read, flush, Stages
<1>7. CASE reply(s) /\ ~ Killed(s)
  BY <1>1, <1>5, <1>7, Zenon DEF reply, Stages
<1> QED BY <1>2, <1>3, <1>4, <1>6, <1>7, Zenon

(* A server's process that ends leaves the path as it is.                  *)
LEMMA KilledKeepsOne ==
    ASSUME OneServer, NEW s \in Servers, Killed(s)
    PROVE  OneServer'
<1>1. /\ server' = [server EXCEPT ![s] = Down]
      /\ queue' = [queue EXCEPT ![s] = <<>>] /\ UNCHANGED <<setup, bound>>
  BY Zenon DEF Killed, Closed
<1>2. Down = [Down EXCEPT !.life = "down"] /\ "down" \in Places
  BY DEF Down, Places
<1>3. Moves(s, "down")
  <2>1. Ended(s, "down")
    BY <1>1, <1>2, Zenon DEF Ended
  <2> QED BY <1>2, <2>1, Reset, Zenon DEF OneServer, Shapes
<1>4. queue' \in [Servers -> Seq(Clients)]
  BY <1>1 DEF OneServer, Shapes
<1> QED BY <1>1, <1>3, <1>4 DEF Moves, OneServer, Shapes, Posix, Platform

LEMMA SteadyKeepsOne ==
    ASSUME OneServer, Steady
    PROVE  OneServer'
BY Zenon DEF OneServer, Steady, Posix, Platform

(* The steps that change a server's place.                                 *)
LEMMA ServersKeepOne ==
    ASSUME \A x \in Setups : ~ x.overlap,
           OneServer, ServerNext
    PROVE  OneServer'
<1>1. PICK s \in Servers : listen(s) \/ stop(s) \/ Crash(s) \/ ServerStep(s)
  BY Zenon DEF ServerNext
<1> USE DEF Places
<1>a. server \in Objects /\ queue \in [Servers -> Seq(Clients)]
  BY Zenon DEF OneServer, Shapes
<1>2. CASE listen(s)
  <2>1. /\ \A r \in Servers : server[r].life = "down"
        /\ UNCHANGED <<setup, queue>>
    BY <1>2, Zenon DEF listen, OneServer
  <2>2. CASE Posix
    <3>1. bound' = None /\ Life(s, "binding")
      BY <1>2, <2>2, Zenon DEF listen
    <3>2. Moves(s, "binding")
      BY <1>a, <3>1, SetLife, Zenon
    <3> QED BY <2>1, <2>2, <3>1, <3>2, Zenon DEF OneServer, Shapes, Posix, Platform, Moves
  <2>3. CASE ~ Posix
    <3>1. Starts(s) \/ (setup.osFails /\ Life(s, "deaf"))
      BY <1>2, <2>3, Zenon DEF listen, Starts
    <3>2. Moves(s, "up") \/ (setup.osFails /\ Moves(s, "deaf"))
      BY <1>a, <3>1, SetLifeAndThread, SetLife, Zenon
    <3> QED BY <2>1, <2>3, <3>2, Zenon DEF OneServer, Shapes, Posix, Platform, Moves
  <2> QED BY <2>2, <2>3, Zenon
<1>3. CASE bind(s)
  <2>1. server[s].life = "binding" /\ UNCHANGED <<setup, queue>>
    BY <1>3, Zenon DEF bind
  <2>2. CASE bound' = s /\ Starts(s)
    <3>1. Moves(s, "up")
      BY <1>a, <2>2, SetLifeAndThread, Zenon
    <3> QED BY <2>1, <2>2, <3>1, ZenonT(30) DEF OneServer, Shapes, Posix, Platform, Moves
  <2>3. CASE (bound # None \/ setup.osFails) /\ Life(s, "deaf")
    <3>1. Moves(s, "deaf") /\ setup.osFails
      BY <1>a, <2>1, <2>3, SetLife, Zenon DEF OneServer
    <3> QED BY <2>1, <3>1, Zenon DEF OneServer, Shapes, Moves
  <2> QED BY <1>3, <2>2, <2>3, Zenon DEF bind, Starts
<1>4. CASE stop(s)
  <2>1. PICK l \in {"joining", "stopping", "down"} : Life(s, l)
    BY <1>4, Zenon DEF stop
  <2>2. UNCHANGED <<setup, bound, queue>> /\ server[s].life \in {"up", "deaf"}
    BY <1>4, Zenon DEF stop
  <2>3. Moves(s, l)
    BY <1>a, <2>1, SetLife, Zenon
  <2> QED BY <2>2, <2>3, Zenon DEF OneServer, Shapes, Posix, Platform, Moves
<1>5. CASE wake(s)
  <2>1. server[s].life = "stopping" /\ UNCHANGED <<setup, bound, queue>>
    BY <1>5, Zenon DEF wake
  <2>2. ASSUME Life(s, "joining")
        PROVE  Moves(s, "joining")
    BY <1>a, <2>2, SetLife, Zenon
  <2>3. ASSUME NEW r \in Servers,
               Wakes(s, r)
        PROVE  Moves(s, "joining")
    BY <1>a, <2>3, SetLifeAndClient, Zenon
  <2>4. Moves(s, "joining")
    BY <1>5, <2>2, <2>3, Zenon DEF wake, Wakes
  <2> QED BY <2>1, <2>4, Zenon DEF OneServer, Shapes, Posix, Platform, Moves
<1>6. CASE close(s)
  <2>1. PICK l \in {"unlinking", "down"} : Ended(s, l)
    BY <1>6, Zenon DEF close, Ended
  <2>2. /\ server[s].life = "joining" /\ UNCHANGED <<setup, bound>>
        /\ queue' = [queue EXCEPT ![s] = <<>>]
    BY <1>6, Zenon DEF close, Closed
  <2>3. Moves(s, l)
    BY <1>a, <2>1, Reset, Zenon
  <2>4. queue' \in [Servers -> Seq(Clients)]
    BY <1>a, <2>2
  <2> QED BY <2>2, <2>3, <2>4, Zenon DEF OneServer, Shapes, Posix, Platform, Moves
<1>7. CASE unlink(s)
  <2>1. /\ server[s].life = "unlinking" /\ bound' = None /\ UNCHANGED <<setup, queue>>
        /\ Life(s, "down")
    BY <1>7, Zenon DEF unlink
  <2>2. Moves(s, "down")
    BY <1>a, <2>1, SetLife, Zenon
  <2> QED BY <2>1, <2>2, Zenon DEF OneServer, Shapes, Posix, Platform, Moves
<1>8. CASE Crash(s)
  BY <1>8, KilledKeepsOne, Zenon DEF Crash
<1>9. CASE reply(s) /\ Killed(s)
  BY <1>9, KilledKeepsOne, Zenon
<1>10. CASE \/ Loop(s) \/ Timeout(s) \/ accept(s) \/ ConnectNamedPipe(s)
            \/ Woken(s) \/ read(s) \/ flush(s) \/ (reply(s) /\ ~ Killed(s))
  BY <1>10, ThreadsAreSteady, SteadyKeepsOne, Zenon DEF OneServer
<1> QED
  BY <1>1, <1>2, <1>3, <1>4, <1>5, <1>6, <1>7, <1>8, <1>9, <1>10, Zenon DEF ServerStep

(* A server that has started is reachable: after any number of crashes that*)
(* left the path behind, listen() of the next server ends with the path    *)
(* naming it, provided servers of one name do not run at the same time and *)
(* no system call fails (LocalIpcPosix::listen, stop).                     *)
THEOREM StartedStaysReachable ==
    ASSUME \A x \in Setups : ~ x.overlap
    PROVE  LifetimeSpec => []StartedIsReachable
<1>1. LifetimeInit => OneServer
  BY DEF LifetimeInit, IpcInit, OneServer, Shapes, Down, Objects, Places, Stages, Ends
<1>2. OneServer /\ [LifetimeNext]_lifetimeVars => OneServer'
  <2> SUFFICES ASSUME OneServer, [LifetimeNext]_lifetimeVars PROVE OneServer'
    BY Zenon
  <2>1. CASE UNCHANGED ipcVars
    BY <2>1, Zenon DEF ipcVars, OneServer, Shapes, Posix, Platform
  <2>2. CASE ServerNext
    BY <2>2, ServersKeepOne, Zenon
  <2>3. CASE \E c \in Clients : connect(c) \/ refused(c) \/ InCall(c) \/ Die(c)
    BY <2>3, ClientsAreSteady, SteadyKeepsOne, Zenon DEF OneServer
  <2>4. query_discovery => \E c \in Clients : connect(c) \/ refused(c) \/ InCall(c) \/ Die(c)
    BY MeAssumption, Zenon DEF query_discovery, InCall
  <2>5. Construct \/ Destroy \/ StartThreads \/ JoinDiscovery \/ JoinNetwork \/ Drain
          \/ DestroyMembers \/ JoinMonitor \/ DiscoveryCheck \/ Post \/ NetworkStep \/ MonitorStep
        => UNCHANGED ipcVars
    BY Zenon DEF Construct, Destroy, StartThreads, JoinDiscovery, JoinNetwork, Drain,
           DestroyMembers, JoinMonitor, DiscoveryCheck, Post, NetworkStep, MonitorStep,
           DrainConnects, StopCallback, MonitorWake, Sample, CallbackReturns
  <2> QED
    BY <2>1, <2>2, <2>3, <2>4, <2>5, Zenon DEF LifetimeNext, OwnerStep, DiscoveryStep, Others, lifetimeVars
<1>3. OneServer => StartedIsReachable
  BY Zenon DEF OneServer, StartedIsReachable, running_
<1> QED BY <1>1, <1>2, <1>3, PTL DEF LifetimeSpec
=============================================================================
