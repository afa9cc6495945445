----------------------------- MODULE LanPaging -----------------------------
(***************************************************************************)
(* windows-lan-sharing, the paging half: the heap whose vectored exception *)
(* handler fetches clusters over TCP (client/RemoteHeap.cpp and            *)
(* TcpPageFaultBackend.cpp), and the server with one thread per connection *)
(* (server/paging_server.cpp).                                             *)
(*                                                                         *)
(* A process may have two threads: the one that constructed the heap, which*)
(* alone has current_heap_ set, and another, which uses the backend.  The  *)
(* heaps of all processes lie over one pool, and the server may still work *)
(* on a connection after its client has opened the next.                   *)
(***************************************************************************)
EXTENDS Naturals, Sequences

CONSTANTS
    Procs,      \* client processes
    Clusters,   \* clusters of a heap
    Window,     \* pieces a connection holds before send() blocks
    MaxConnects,\* bound on the connections made
    MaxDiffs    \* bound on the diffs committed

Conns == 1..MaxConnects

\* Contents of a cluster: 0 as allocated, n after the nth diff, or a mixture.
Torn == MaxDiffs + 1
Contents == 0..Torn

VARIABLES
    lan,        \* [relock, procs, others, breaks]: what locking a std::mutex again
                \* does in this build, the processes that run, those of them with a
                \* second thread, how many connections break
    cluster,    \* state of each cluster of each heap
    backend,    \* [init, socket] of each TcpPageFaultBackend; 0: INVALID_SOCKET
    holder,     \* the thread that holds socket_mutex_, or "none"
    main, other,\* positions of the two threads
    conn,       \* the client's end of each connection
    stream,     \* what is on its way to the server, a header or a payload a piece
    answer,     \* what is on its way back
    served,     \* the server's thread for each connection
    clients,    \* [size, capacity] of the vector g_clients
    pool,       \* contents of g_pool, per cluster
    breaks,
    diffs,      \* number of diffs begun
    sent        \* history: the last diff of a cluster that went over a connection

pagingVars == <<lan, cluster, backend, holder, main, other, conn, stream, answer,
                served, clients, pool, breaks, diffs, sent>>

ServerThreads == [at : {"header", "payload", "copy"}, k : Clusters, v : Contents,
             ref : {"none", "ctx", "dangling", "lost", "ended"}]

PagingTypeOK ==
    /\ cluster \in [Procs -> [Clusters -> {"reserved", "zero", "fetched"}]]
    /\ backend \in [Procs -> [init : BOOLEAN, socket : 0..MaxConnects]]
    /\ holder \in [Procs -> {"none", "main", "other"}]
    /\ main \in [Procs -> [at : {"run", "init", "fetch", "lock", "send", "recv", "close",
                                 "stuck", "failed", "dead"}, k : Clusters]]
    /\ other \in [Procs -> [at : {"run", "diff", "header", "payload", "closed", "stuck"},
                            k : Clusters, v : Contents]]
    /\ conn \in [Conns -> {"unused", "open", "closed", "broken", "silent"}]
    /\ answer \in [Conns -> Seq(Contents)]
    /\ served \in [Conns -> ServerThreads]
    /\ pool \in [Clusters -> Contents]
    /\ breaks \in 0..lan.breaks
    /\ diffs \in 0..MaxDiffs
    /\ sent \in [Conns -> [Clusters -> 0..MaxDiffs]]

AnyCluster == CHOOSE k \in Clusters : TRUE

PagingInit(setup) ==
    /\ lan = setup
    /\ cluster = [p \in Procs |-> [k \in Clusters |-> "reserved"]]
    /\ backend = [p \in Procs |-> [init |-> FALSE, socket |-> 0]]
    /\ holder = [p \in Procs |-> "none"]
    /\ main = [p \in Procs |-> [at |-> "run", k |-> AnyCluster]]
    /\ other = [p \in Procs |-> [at |-> "run", k |-> AnyCluster, v |-> 0]]
    /\ conn = [c \in Conns |-> "unused"]
    /\ stream = [c \in Conns |-> <<>>]
    /\ answer = [c \in Conns |-> <<>>]
    /\ served = [c \in Conns |-> [ref |-> "none", at |-> "header", k |-> AnyCluster, v |-> 0]]
    /\ clients = [size |-> 0, capacity |-> 0]
    /\ pool = [k \in Clusters |-> 0]
    /\ breaks = 0 /\ diffs = 0
    /\ sent = [c \in Conns |-> [k \in Clusters |-> 0]]

serverVars == <<served, clients, pool>>
wireVars == <<conn, stream, answer>>
countVars == <<breaks, diffs, sent>>
Lives(p) == main[p].at # "dead"
Main(p, a) == main' = [main EXCEPT ![p].at = a]
Other(p, a) == other' = [other EXCEPT ![p].at = a]
Take(p, t) == holder' = [holder EXCEPT ![p] = t]

\* The connection of process p, when it has one.
Sock(p) == backend[p].socket

\* send() and recv() report a connection that is reset or that the server closed.
\* There is no timeout and no keepalive: a silent one is never reported.
Reported(c) == conn[c] = "broken" \/ served[c].ref = "ended"

\* send_exact() of one piece: bytes sent over a silent connection arrive nowhere.
Send(c, piece) ==
    /\ ~ Reported(c) /\ Len(stream[c]) < Window
    /\ stream' = IF conn[c] = "open" THEN [stream EXCEPT ![c] = Append(@, piece)] ELSE stream

\* The process ends, and the system closes its socket.
Dies(p) ==
    /\ Main(p, "dead")
    /\ conn' = IF Sock(p) # 0 /\ conn[Sock(p)] = "open"
               THEN [conn EXCEPT ![Sock(p)] = "closed"] ELSE conn

-----------------------------------------------------------------------------
(* initialize() on a backend that is not initialised: a connection is made *)
(* and stored under the mutex, then initialized_ is set.                   *)
initialize(p) ==
    /\ p \in lan.procs
    /\ \/ /\ main[p].at = "run" /\ ~ backend[p].init /\ holder[p] = "none"
          /\ \E c \in Conns :
               /\ conn[c] = "unused" /\ \A d \in 1..(c - 1) : conn[d] # "unused"
               /\ conn' = [conn EXCEPT ![c] = "open"]
               /\ backend' = [backend EXCEPT ![p].socket = c]
          /\ Main(p, "init")
       \/ /\ main[p].at = "init"
          /\ backend' = [backend EXCEPT ![p].init = TRUE]
          /\ Main(p, "run")
          /\ UNCHANGED conn
    /\ UNCHANGED <<lan, cluster, holder, other, stream, answer, serverVars, countVars>>

(* VectoredHandler: an access to a cluster that is not committed.  Only the*)
(* thread that constructed the heap finds it; there the cluster is         *)
(* committed, zeroed and writable, before it is fetched.  Every other way  *)
(* out continues the search for a handler, which ends the process.         *)
Fault(p, k) ==
    /\ p \in lan.procs /\ main[p].at = "run" /\ cluster[p][k] = "reserved"
    /\ \/ /\ main' = [main EXCEPT ![p] = [at |-> "fetch", k |-> k]]
          /\ cluster' = [cluster EXCEPT ![p][k] = "zero"]
          /\ UNCHANGED conn
       \/ Dies(p) /\ UNCHANGED cluster
    /\ UNCHANGED <<lan, backend, holder, other, stream, answer, serverVars, countVars>>

OtherFault(p, k) ==
    /\ p \in lan.others /\ Lives(p) /\ other[p].at = "run" /\ cluster[p][k] = "reserved"
    /\ Dies(p)
    /\ UNCHANGED <<lan, cluster, backend, holder, other, stream, answer, serverVars, countVars>>

(* fetch_page_cluster(): initialized_ is read before the lock is taken.    *)
fetch_page_cluster(p) ==
    LET c == Sock(p) IN
    /\ \/ /\ main[p].at = "fetch"
          /\ Main(p, IF backend[p].init THEN "lock" ELSE "failed")
          /\ UNCHANGED <<holder, stream, answer, cluster>>
       \/ /\ main[p].at = "lock" /\ holder[p] = "none"
          /\ IF c = 0 THEN Main(p, "failed") /\ UNCHANGED holder
                      ELSE Main(p, "send") /\ Take(p, "main")
          /\ UNCHANGED <<stream, answer, cluster>>
       \/ /\ main[p].at = "send"
          /\ Send(c, [op |-> "read", k |-> main[p].k])
          /\ Main(p, "recv")
          /\ UNCHANGED <<holder, answer, cluster>>
       \/ /\ main[p].at = "recv" /\ answer[c] # <<>>
          /\ cluster' = [cluster EXCEPT ![p][main[p].k] = "fetched"]
          /\ answer' = [answer EXCEPT ![c] = Tail(@)]
          /\ Take(p, "none")
          /\ Main(p, "run")
          /\ UNCHANGED stream
       \/ /\ main[p].at = "send" \/ (main[p].at = "recv" /\ answer[c] = <<>>)
          /\ Reported(c)
          /\ Main(p, "close")
          /\ UNCHANGED <<holder, stream, answer, cluster>>
    /\ UNCHANGED <<lan, backend, other, conn, serverVars, countVars>>

(* close_socket() locks socket_mutex_, which its caller holds.  What a     *)
(* std::mutex does then is undefined: it counts, or the thread waits for   *)
(* itself.                                                                 *)
Dropped(p) ==
    /\ backend' = [backend EXCEPT ![p] = [init |-> FALSE, socket |-> 0]]
    /\ conn' = [conn EXCEPT ![Sock(p)] = IF @ = "broken" THEN @ ELSE "closed"]
    /\ Take(p, "none")

close_socket(p) ==
    /\ main[p].at = "close"
    /\ IF lan.relock = "counts"
       THEN Main(p, "failed") /\ Dropped(p)
       ELSE Main(p, "stuck") /\ UNCHANGED <<backend, conn, holder>>
    /\ UNCHANGED <<lan, cluster, other, stream, answer, serverVars, countVars>>

(* The handler takes the cluster back and lets the fault through.          *)
Unhandled(p) ==
    /\ main[p].at = "failed"
    /\ Dies(p)
    /\ cluster' = [cluster EXCEPT ![p][main[p].k] = "reserved"]
    /\ UNCHANGED <<lan, backend, holder, other, stream, answer, serverVars, countVars>>

-----------------------------------------------------------------------------
(* commit_page_diff() by the other thread: a header and a payload, without *)
(* an answer, under the mutex.                                             *)
DiffHeader(p) ==
    /\ Send(Sock(p), [op |-> "diff", k |-> other[p].k])
    /\ Other(p, "payload")
    /\ UNCHANGED holder

DiffPayload(p) ==
    /\ Send(Sock(p), [op |-> "payload", v |-> other[p].v])
    /\ sent' = [sent EXCEPT ![Sock(p)][other[p].k] = other[p].v]
    /\ Other(p, "run")
    /\ Take(p, "none")

commit_page_diff(p, k) ==
    /\ p \in lan.others /\ Lives(p)
    /\ \/ /\ other[p].at = "run" /\ backend[p].init /\ diffs < MaxDiffs
          /\ diffs' = diffs + 1
          /\ other' = [other EXCEPT ![p] = [at |-> "diff", k |-> k, v |-> diffs + 1]]
          /\ UNCHANGED <<holder, stream, backend, conn, sent>>
       \/ /\ other[p].at = "diff" /\ holder[p] = "none"
          /\ IF Sock(p) = 0 THEN Other(p, "run") /\ UNCHANGED holder
                            ELSE Other(p, "header") /\ Take(p, "other")
          /\ UNCHANGED <<stream, backend, conn, diffs, sent>>
       \/ /\ other[p].at = "header"
          /\ DiffHeader(p)
          /\ UNCHANGED <<backend, conn, diffs, sent>>
       \/ /\ other[p].at = "payload"
          /\ DiffPayload(p)
          /\ UNCHANGED <<backend, conn, diffs>>
       \/ /\ other[p].at \in {"header", "payload"} /\ Reported(Sock(p))
          /\ IF lan.relock = "counts"
             THEN Other(p, "run") /\ Dropped(p)
             ELSE Other(p, "stuck") /\ UNCHANGED <<backend, conn, holder>>
          /\ UNCHANGED <<stream, diffs, sent>>
    /\ UNCHANGED <<lan, cluster, main, answer, serverVars, breaks>>

(* shutdown() by the other thread: close_socket(), then initialized_.      *)
shutdown(p) ==
    /\ p \in lan.others /\ Lives(p)
    /\ \/ /\ other[p].at = "run" /\ holder[p] = "none" /\ (Sock(p) # 0 \/ backend[p].init)
          /\ Other(p, "closed")
          /\ backend' = [backend EXCEPT ![p].socket = 0]
          /\ conn' = [c \in Conns |-> IF c = Sock(p) /\ conn[c] = "open" THEN "closed" ELSE conn[c]]
       \/ /\ other[p].at = "closed"
          /\ Other(p, "run")
          /\ backend' = [backend EXCEPT ![p].init = FALSE]
          /\ UNCHANGED conn
    /\ UNCHANGED <<lan, cluster, holder, main, stream, answer, serverVars, countVars>>

(* A connection is lost, with or without word of it.  The server may have  *)
(* received a part of what was under way.                                  *)
Break(c) ==
    /\ conn[c] = "open" /\ breaks < lan.breaks
    /\ breaks' = breaks + 1
    /\ \E how \in {"broken", "silent"} : conn' = [conn EXCEPT ![c] = how]
    /\ \E n \in 0..Len(stream[c]) : stream' = [stream EXCEPT ![c] = SubSeq(@, 1, n)]
    /\ answer' = [answer EXCEPT ![c] = <<>>]
    /\ UNCHANGED <<lan, cluster, backend, holder, main, other, serverVars, diffs, sent>>

-----------------------------------------------------------------------------
(* The server accepts a connection and appends a ClientContext.  When the  *)
(* vector grows its elements move, and the threads that were given a       *)
(* reference to one of them are left with a dangling one.                  *)
Accept(c) ==
    /\ conn[c] # "unused" /\ clients.size = c - 1
    /\ LET full == clients.size = clients.capacity
           half == clients.capacity + clients.capacity \div 2
       IN  /\ clients' = [size |-> clients.size + 1,
                          capacity |-> IF ~ full THEN clients.capacity
                                       ELSE IF half > clients.size THEN half
                                       ELSE clients.size + 1]
           /\ served' = [d \in Conns |->
                           [served[d] EXCEPT !.ref =
                              IF d = c THEN "ctx"
                              ELSE IF full /\ @ = "ctx" THEN "dangling" ELSE @]]
    /\ UNCHANGED <<lan, cluster, backend, holder, main, other, wireVars, pool, countVars>>

Working(c) == served[c].ref \in {"ctx", "dangling"}
Copying(c, k) == served[c].at = "copy" /\ served[c].k = k

(* handle_client(): recv_exact() of a header, then of what it calls a      *)
(* payload.  Bytes that are not what they are taken for spoil the contents *)
(* and, in the place of a header, end the thread.                          *)
TakePiece(c) ==
    LET piece == Head(stream[c])
        t == served[c]
    IN
    /\ Working(c) /\ t.at # "copy" /\ stream[c] # <<>>
    /\ stream' = [stream EXCEPT ![c] = Tail(@)]
    /\ CASE t.at = "header" /\ piece.op = "read" ->
              answer' = [answer EXCEPT ![c] = Append(@, pool[piece.k])] /\ UNCHANGED <<served, pool>>
         [] t.at = "header" /\ piece.op = "diff" ->
              /\ served' = [served EXCEPT ![c].at = "payload", ![c].k = piece.k]
              /\ UNCHANGED <<answer, pool>>
         [] t.at = "header" /\ piece.op = "payload" ->
              served' = [served EXCEPT ![c].ref = "ended"] /\ UNCHANGED <<answer, pool>>
         [] t.at = "payload" ->
              LET clash == \E d \in Conns \ {c} : Copying(d, t.k)
                  v == IF piece.op # "payload" \/ clash THEN Torn ELSE piece.v
              IN  /\ served' = [d \in Conns |->
                                  IF d = c THEN [t EXCEPT !.at = "copy", !.v = v]
                                  ELSE IF Copying(d, t.k) THEN [served[d] EXCEPT !.v = Torn]
                                  ELSE served[d]]
                  /\ pool' = [pool EXCEPT ![t.k] = Torn]
                  /\ UNCHANGED answer

(* The memcpy() into the pool, which holds no lock, is done.               *)
Copied(c) ==
    /\ Working(c) /\ served[c].at = "copy"
    /\ pool' = [pool EXCEPT ![served[c].k] = served[c].v]
    /\ served' = [served EXCEPT ![c].at = "header", ![c].v = 0]
    /\ UNCHANGED <<stream, answer>>

(* Seeded fault: the payload is copied although not all of it was received.*)
EndThread_Copies(c) ==
    /\ served[c].at # "copy"
    /\ Working(c) /\ stream[c] = <<>> /\ conn[c] \in {"closed", "broken"}
    /\ served' = [served EXCEPT ![c].ref = "ended"]
    /\ pool' = IF served[c].at = "payload" THEN [pool EXCEPT ![served[c].k] = Torn] ELSE pool
    /\ UNCHANGED <<stream, answer>>

(* With a dangling reference the thread may still find the old bytes, or a *)
(* socket that is none: then it ends, and the client's real socket stays   *)
(* open.  At the end of the stream it ends and closes the socket.          *)
EndThread(c) ==
    /\ served[c].at # "copy"
    /\ \/ /\ served[c].ref = "dangling"
          /\ served' = [served EXCEPT ![c].ref = "lost"]
       \/ /\ Working(c) /\ stream[c] = <<>> /\ conn[c] \in {"closed", "broken"}
          /\ served' = [served EXCEPT ![c].ref = "ended"]
    /\ UNCHANGED <<stream, answer, pool>>

handle_client(c) ==
    /\ TakePiece(c) \/ Copied(c) \/ EndThread(c)
    /\ UNCHANGED <<lan, cluster, backend, holder, main, other, conn, clients, countVars>>

-----------------------------------------------------------------------------
HandlerStep(p) == fetch_page_cluster(p) \/ close_socket(p) \/ Unhandled(p)
OtherStep(p) == shutdown(p) \/ \E k \in Clusters : commit_page_diff(p, k)
ServerThread(c) == Accept(c) \/ handle_client(c)

PagingNext ==
    \/ \E p \in Procs :
        \/ initialize(p) \/ HandlerStep(p) \/ OtherStep(p)
        \/ \E k \in Clusters : Fault(p, k) \/ OtherFault(p, k)
    \/ \E c \in Conns : ServerThread(c) \/ Break(c)

-----------------------------------------------------------------------------
(* As long as the diffs of a cluster all went over one connection, each is *)
(* applied whole or not at all, whenever the connection breaks, and a fetch*)
(* over that connection returns the last one committed.  socket_mutex_ is  *)
(* held from the header to the payload, and from a fetch to its answer.    *)
DiffsAreKept ==
    \A c \in Conns, k \in Clusters :
        (\A d \in Conns \ {c} : sent[d][k] = 0) =>
            /\ pool[k] = Torn => \E d \in Conns : Copying(d, k)
            /\ \A p \in Procs :
                 /\ Sock(p) = c /\ main[p].at = "recv" /\ main[p].k = k
                 /\ answer[c] # <<>>
                 => answer[c] = <<sent[c][k]>>

(* The same without the condition: a process that connects again finds the *)
(* diff it committed last.                                                 *)
LastDiffIsKept ==
    \A p \in Procs, c \in Conns :
        Sock(p) = c /\ main[p].at = "recv" /\ answer[c] # <<>> /\ sent[c][main[p].k] # 0
            => answer[c] = <<sent[c][main[p].k]>>

(* A fault is resolved or ends the process; it never hangs, although the   *)
(* exchange with the server has no timeout and the error path of           *)
(* fetch_page_cluster locks a mutex it holds.                              *)
FaultAlwaysEnds ==
    \A p \in Procs : (main[p].at = "fetch") ~> (main[p].at \in {"run", "dead"})

(* A thread that finds a cluster committed finds the server's contents.    *)
CommittedIsFetched ==
    \A p \in Procs, k \in Clusters : Lives(p) => cluster[p][k] # "zero"
=============================================================================
