---------------------------- MODULE PeerConnection ----------------------------
(***************************************************************************)
(* How MemoryClient reaches its peers: threads hand requests to the libuv  *)
(* thread and wait for a promise, the libuv thread connects, writes, reads *)
(* and matches answers to requests, the discovery thread queues peers that *)
(* are not connected.  One callback of the libuv thread is one step.       *)
(*                                                                         *)
(* A response crosses TCP as two fragments, so that a read can end inside  *)
(* one.  A connection that breaks loses what was in flight from some point *)
(* on; if Torn, that point may be inside a response.                       *)
(***************************************************************************)
EXTENDS Integers, Sequences, FiniteSets

CONSTANTS
  Peers,        \* RemotePeer objects
  Callers,      \* threads that call sync_remote_call
  Torn,         \* BOOLEAN: can a connection break inside a response
  MaxRequests,  \* bound on next_request_id_
  MaxBreaks     \* bound on broken connections

ASSUME PeerConnectionAssumption ==
  Torn \in BOOLEAN /\ MaxRequests \in Nat /\ MaxBreaks \in Nat

VARIABLES
  socket,             \* peer -> "null" | "connecting" | "open" | "closed"
  connected,          \* peer -> BOOLEAN, read by every thread
  read_buffer,        \* peer -> fragments not yet parsed
  pending_connects_,  \* peers queued for the libuv thread
  outbound_queue_,    \* peer -> its messages queued for the libuv thread: one
                      \* queue in the code, always taken as a whole
  pending_requests_,  \* ids whose promise nobody has set yet
  promise,            \* id -> "unset" | "answer" | "empty"
  call,               \* caller -> its sync_remote_call
  next_request_id_,
  toPeer, fromPeer,   \* peer -> what TCP still has to deliver
  link,               \* peer -> "none" | "up" | "broken": the TCP connection
  log,                \* peer -> ids its memoryd has executed, in order
  owner,              \* id -> its caller and peer
  breaks

libuvVars == <<socket, connected, read_buffer>>
queueVars == <<pending_connects_, outbound_queue_>>
requestVars == <<pending_requests_, promise>>
callVars == <<call, next_request_id_, owner>>
wireVars == <<toPeer, fromPeer, link, log, breaks>>
vars == <<libuvVars, queueVars, requestVars, callVars, wireVars>>

Ids == 1 .. MaxRequests
NoCall == [pc |-> "idle", id |-> 0]

Init ==
  /\ socket = [p \in Peers |-> "null"]
  /\ connected = [p \in Peers |-> FALSE]
  /\ read_buffer = [p \in Peers |-> <<>>]
  /\ pending_connects_ = {}
  /\ outbound_queue_ = [p \in Peers |-> <<>>]
  /\ pending_requests_ = {}
  /\ promise = [i \in Ids |-> "unset"]
  /\ call = [c \in Callers |-> NoCall]
  /\ next_request_id_ = 1
  /\ toPeer = [p \in Peers |-> <<>>]
  /\ fromPeer = [p \in Peers |-> <<>>]
  /\ link = [p \in Peers |-> "none"]
  /\ log = [p \in Peers |-> <<>>]
  /\ owner = [i \in {} |-> NoCall]
  /\ breaks = 0

-------------------------------------------------------------------------------
(***************************************************************************)
(* sync_remote_call: register, enqueue, wait.                              *)
(***************************************************************************)
next_id == next_request_id_ + 1

Register(c, p) ==
  /\ call[c].pc = "idle"
  /\ next_request_id_ \in Ids
  /\ next_request_id_' = next_id
  /\ pending_requests_' = pending_requests_ \cup {next_request_id_}
  /\ owner' = [i \in DOMAIN owner \cup {next_request_id_} |->
                 IF i = next_request_id_ THEN [caller |-> c, peer |-> p] ELSE owner[i]]
  /\ call' = [call EXCEPT ![c] = [pc |-> "enqueue", id |-> next_request_id_]]
  /\ UNCHANGED <<libuvVars, queueVars, promise, wireVars>>

Enqueue(c) ==
  /\ call[c].pc = "enqueue"
  /\ outbound_queue_' = [outbound_queue_ EXCEPT ![owner[call[c].id].peer] =
                            Append(@, call[c].id)]
  /\ call' = [call EXCEPT ![c].pc = "wait"]
  /\ UNCHANGED <<libuvVars, pending_connects_, requestVars, next_request_id_, owner,
                 wireVars>>

\* wait_for found the promise set, or ten seconds have passed: the request
\* stays in pending_requests_ and on its way.
Wake(c) ==
  /\ call[c].pc = "wait"
  /\ call' = [call EXCEPT ![c] = NoCall]
  /\ UNCHANGED <<libuvVars, queueVars, requestVars, next_request_id_, owner, wireVars>>

-------------------------------------------------------------------------------
(***************************************************************************)
(* The discovery thread, and the callbacks of the libuv thread.            *)
(***************************************************************************)
connect_to_peers(p) ==
  /\ ~ connected[p]
  /\ p \notin pending_connects_
  /\ pending_connects_' = pending_connects_ \cup {p}
  /\ UNCHANGED <<libuvVars, outbound_queue_, requestVars, callVars, wireVars>>

\* connect_async_: start_connect for every queued peer that has no socket.
drain_pending_connects ==
  /\ pending_connects_ # {}
  /\ pending_connects_' = {}
  /\ socket' = [p \in Peers |-> IF p \in pending_connects_ /\ socket[p] = "null"
                                THEN "connecting" ELSE socket[p]]
  /\ UNCHANGED <<connected, read_buffer, outbound_queue_, requestVars, callVars, wireVars>>

\* Seeded fault: the socket of a failed attempt stays set.
OnConnect_KeepsSocket(p, ok) ==
  /\ socket[p] = "connecting"
  /\ socket' = [socket EXCEPT ![p] = IF ok THEN "open" ELSE "closed"]
  /\ connected' = [connected EXCEPT ![p] = ok]
  /\ link' = [link EXCEPT ![p] = IF ok THEN "up" ELSE "none"]
  /\ UNCHANGED <<read_buffer, queueVars, requestVars, callVars, toPeer, fromPeer, log,
                 breaks>>

\* The connect callback.  read_buffer keeps what an earlier connection left.
OnConnect(p, ok) ==
  /\ socket[p] = "connecting"
  /\ socket' = [socket EXCEPT ![p] = IF ok THEN "open" ELSE "null"]
  /\ connected' = [connected EXCEPT ![p] = ok]
  /\ link' = [link EXCEPT ![p] = IF ok THEN "up" ELSE "none"]
  /\ UNCHANGED <<read_buffer, queueVars, requestVars, callVars, toPeer, fromPeer, log,
                 breaks>>

\* Seeded fault: the batch is sent last in, first out.
Sent_Reversed(p) ==
  LET sent == outbound_queue_[p] IN [k \in DOMAIN sent |-> sent[Len(sent) + 1 - k]]

Sent(p) == outbound_queue_[p]

\* wakeup_async_: the whole queue is written; what is for a peer that is not
\* connected is dropped, and uv_write fails on a socket that is closing.
OnWakeup ==
  /\ \E p \in Peers : outbound_queue_[p] # <<>>
  /\ outbound_queue_' = [p \in Peers |-> <<>>]
  /\ toPeer' = [p \in Peers |-> IF connected[p] /\ socket[p] = "open" /\ link[p] = "up"
                                THEN toPeer[p] \o Sent(p) ELSE toPeer[p]]
  /\ UNCHANGED <<libuvVars, pending_connects_, requestVars, callVars, fromPeer, link, log,
                 breaks>>

\* A frame is well formed if its fragments belong together.
WellFormed(buffer) == buffer[1].id = buffer[2].id /\ buffer[1].part < buffer[2].part

\* Seeded fault: an answer is taken for the oldest request on record.
request_id_Oldest(buffer) ==
  IF pending_requests_ = {} THEN buffer[1].id
  ELSE CHOOSE i \in pending_requests_ : \A j \in pending_requests_ : i <= j

request_id(buffer) == buffer[1].id

\* on_peer_read with data that completes no frame, or a good one.
OnPeerRead(p) ==
  LET buffer == Append(read_buffer[p], Head(fromPeer[p]))
      id == request_id(buffer)
  IN  /\ socket[p] = "open" /\ fromPeer[p] # <<>>
      /\ fromPeer' = [fromPeer EXCEPT ![p] = Tail(@)]
      /\ \/ /\ Len(buffer) < 2
            /\ read_buffer' = [read_buffer EXCEPT ![p] = buffer]
            /\ UNCHANGED requestVars
         \/ /\ Len(buffer) = 2 /\ WellFormed(buffer)
            /\ read_buffer' = [read_buffer EXCEPT ![p] = <<>>]
            /\ pending_requests_' = pending_requests_ \ {id}
            /\ promise' = [promise EXCEPT ![id] =
                 IF id \in pending_requests_ THEN "answer" ELSE @]
      /\ UNCHANGED <<socket, connected, queueVars, callVars, toPeer, link, log, breaks>>

\* on_peer_read with a frame that does not verify: the handle is closed, and
\* nothing else is told so.
OnBadFrame(p) ==
  LET buffer == Append(read_buffer[p], Head(fromPeer[p]))
  IN  /\ socket[p] = "open" /\ fromPeer[p] # <<>>
      /\ Len(buffer) = 2 /\ ~ WellFormed(buffer)
      /\ read_buffer' = [read_buffer EXCEPT ![p] = buffer]
      /\ socket' = [socket EXCEPT ![p] = "closed"]
      /\ link' = [link EXCEPT ![p] = "none"]
      /\ toPeer' = [toPeer EXCEPT ![p] = <<>>]
      /\ fromPeer' = [fromPeer EXCEPT ![p] = <<>>]
      /\ UNCHANGED <<connected, queueVars, requestVars, callVars, log, breaks>>

\* Seeded fault: the promises are set, their requests stay on record.
fail_pending_requests_Kept ==
  /\ promise' = [i \in Ids |-> IF i \in pending_requests_ THEN "empty" ELSE promise[i]]
  /\ UNCHANGED pending_requests_

\* Every request in flight is failed, whichever peer it went to.
fail_pending_requests ==
  /\ promise' = [i \in Ids |-> IF i \in pending_requests_ THEN "empty" ELSE promise[i]]
  /\ pending_requests_' = {}

\* on_peer_read with an error or the end of the stream.
OnPeerEof(p) ==
  /\ socket[p] = "open" /\ fromPeer[p] = <<>> /\ link[p] = "broken"
  /\ connected' = [connected EXCEPT ![p] = FALSE]
  /\ fail_pending_requests
  /\ socket' = [socket EXCEPT ![p] = "null"]
  /\ link' = [link EXCEPT ![p] = "none"]
  /\ UNCHANGED <<read_buffer, queueVars, callVars, toPeer, fromPeer, log, breaks>>

-------------------------------------------------------------------------------
(***************************************************************************)
(* The other side: memoryd answers in order; a connection breaks.          *)
(***************************************************************************)
Serve(p) ==
  LET id == Head(toPeer[p])
  IN  /\ toPeer[p] # <<>>
      /\ toPeer' = [toPeer EXCEPT ![p] = Tail(@)]
      /\ log' = [log EXCEPT ![p] = Append(@, id)]
      /\ fromPeer' = [fromPeer EXCEPT ![p] =
           @ \o <<[id |-> id, part |-> 1], [id |-> id, part |-> 2]>>]
      /\ UNCHANGED <<libuvVars, queueVars, requestVars, callVars, link, breaks>>

\* `n' fragments still arrive.
Break(p, n) ==
  /\ link[p] = "up"
  /\ breaks < MaxBreaks
  /\ Torn \/ (Len(fromPeer[p]) - n) % 2 = 0
  /\ breaks' = breaks + 1
  /\ link' = [link EXCEPT ![p] = "broken"]
  /\ toPeer' = [toPeer EXCEPT ![p] = <<>>]
  /\ fromPeer' = [fromPeer EXCEPT ![p] = SubSeq(@, 1, n)]
  /\ UNCHANGED <<libuvVars, queueVars, requestVars, callVars, log>>

LibuvStep ==
  \/ drain_pending_connects
  \/ OnWakeup
  \/ \E p \in Peers : \/ OnPeerRead(p) \/ OnBadFrame(p) \/ OnPeerEof(p)
                      \/ \E ok \in BOOLEAN : OnConnect(p, ok)

Next ==
  \/ \E c \in Callers : Enqueue(c) \/ Wake(c) \/ \E p \in Peers : Register(c, p)
  \/ \E p \in Peers : connect_to_peers(p) \/ Serve(p)
  \/ LibuvStep
  \/ \E p \in Peers : \E n \in 0 .. Len(fromPeer[p]) : Break(p, n)

Spec == Init /\ [][Next]_vars

\* The libuv loop and the discovery thread keep running, memoryd answers, and
\* an attempt to connect to a peer that is there does not fail for ever.
FairSpec ==
  /\ Spec
  /\ WF_vars(drain_pending_connects) /\ WF_vars(OnWakeup)
  /\ \A p \in Peers :
       /\ WF_vars(connect_to_peers(p)) /\ WF_vars(Serve(p))
       /\ WF_vars(OnPeerRead(p) \/ OnBadFrame(p)) /\ WF_vars(OnPeerEof(p))
       /\ SF_vars(OnConnect(p, TRUE)) /\ WF_vars(\E ok \in BOOLEAN : OnConnect(p, ok))

-------------------------------------------------------------------------------
(***************************************************************************)
(* Properties.                                                             *)
(***************************************************************************)
\* Every variable has its type; ids are given out once, in order.
Fragments == [id : Ids, part : {1, 2}]
TypeOK ==
  /\ socket \in [Peers -> {"null", "connecting", "open", "closed"}]
  /\ connected \in [Peers -> BOOLEAN]
  /\ pending_connects_ \subseteq Peers
  /\ pending_requests_ \subseteq 1 .. next_request_id_ - 1
  /\ promise \in [Ids -> {"unset", "answer", "empty"}]
  /\ call \in [Callers -> [pc : {"idle", "enqueue", "wait"}, id : 0 .. MaxRequests]]
  /\ link \in [Peers -> {"none", "up", "broken"}]
  /\ next_request_id_ \in 1 .. MaxRequests + 1
  /\ owner \in [1 .. next_request_id_ - 1 -> [caller : Callers, peer : Peers]]
  /\ outbound_queue_ \in [Peers -> Seq(Ids)]
  /\ toPeer \in [Peers -> Seq(Ids)] /\ log \in [Peers -> Seq(Ids)]
  /\ read_buffer \in [Peers -> Seq(Fragments)] /\ fromPeer \in [Peers -> Seq(Fragments)]
  /\ breaks \in 0 .. MaxBreaks

\* A promise is set once: no request that is on record has been answered or
\* failed already (std::promise::set_value would throw in the libuv thread).
SetOnce == \A i \in pending_requests_ : promise[i] = "unset"

\* The write callback dereferences the socket of every peer that counts as
\* connected: there is one.
ConnectedHasSocket == \A p \in Peers : connected[p] => socket[p] \in {"open", "closed"}

\* Requests of a thread are executed by a peer in the order it made them, and
\* each at most once, also across timeouts and broken connections.
ExecutedInOrder ==
  \A p \in Peers : \A i, j \in DOMAIN log[p] :
    i < j /\ owner[log[p][i]].caller = owner[log[p][j]].caller => log[p][i] < log[p][j]

\* A caller is handed an answer only to a request its peer did execute, also
\* when bytes of a torn response are left in read_buffer or the answer is late.
AnswersAreReal ==
  \A i \in Ids : promise[i] = "answer" => \E k \in DOMAIN log[owner[i].peer] :
                                             log[owner[i].peer][k] = i

\* Only requests the lost peer can no longer answer are failed.
OnlyLostAreFailed ==
  [][\A i \in Ids : promise[i] = "unset" /\ promise'[i] = "empty"
        => ~ connected'[owner[i].peer]]_vars

\* A peer without connection, or whose connection broke, is connected again.
\* The one way out of it: on_peer_read closes the socket over a frame that does
\* not verify and leaves connected set.
Reconnects ==
  \A p \in Peers :
    (link[p] # "up") ~> (connected[p] /\ (link[p] = "up" \/ socket[p] = "closed"))
===============================================================================
