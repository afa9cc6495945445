------------------------------ MODULE LocalIpc ------------------------------
(***************************************************************************)
(* The request/answer channel between processes of one machine, over a     *)
(* Unix-domain socket (local_ipc_linux.cpp, and local_ipc_mac.cpp which is *)
(* the same code) or a named pipe (local_ipc_win.cpp).  All servers here   *)
(* listen on one name; a server answers one client at a time.              *)
(*                                                                         *)
(* Nothing in the program changes the disposition of SIGPIPE, so on POSIX  *)
(* a process that writes on a connection whose other end is closed dies.   *)
(***************************************************************************)
EXTENDS Naturals, Sequences

CONSTANTS
    Setups,     \* records [platform, osFails, overlap, crashes, deaths]:
                \* system calls may fail; servers may run at the same time;
                \* bounds on servers that crash and clients that are killed
    Servers,    \* processes that may listen on the name
    Clients,    \* threads of other processes that send requests to it
    None

VARIABLES
    setup,
    bound,      \* POSIX: the server whose socket the path names, or None
    server,     \* the object and the listen thread of each server
    queue,      \* POSIX: connections waiting in the backlog of server_fd_
    pipe,       \* Windows: state of the instance server_pipe_
    request,    \* position of each client in send_request()
    alive,      \* clients whose process runs
    crashes, deaths

ipcVars == <<setup, bound, server, queue, pipe, request, alive, crashes, deaths>>

Platform == setup.platform
Posix == Platform # "windows"
Dummy == "dummy"    \* the connection ~LocalIpcWin opens to itself

Idle == [at |-> "idle", cut |-> FALSE]
Down == [life |-> "down", thread |-> "none", client |-> None]

LocalIpcTypeOK ==
    /\ setup \in Setups
    /\ bound \in Servers \cup {None}
    /\ server \in [Servers ->
         [life : {"down", "binding", "up", "deaf", "stopping", "joining", "unlinking"},
          thread : {"none", "loop", "wait", "pending", "woken", "serve",
                    "reply", "flush", "done"},
          client : Clients \cup {None, Dummy}]]
    /\ queue \in [Servers -> Seq(Clients)]
    /\ pipe \in [Servers -> {"none", "listening", "connected", "disconnected"}]
    /\ request \in [Clients ->
         [at : {"idle", "open", "sent", "answered"}, cut : BOOLEAN]]
    /\ alive \in SUBSET Clients
    /\ crashes \in 0..setup.crashes /\ deaths \in 0..setup.deaths

IpcInit ==
    /\ setup \in Setups
    /\ bound = None
    /\ server = [s \in Servers |-> Down]
    /\ queue = [s \in Servers |-> <<>>]
    /\ pipe = [s \in Servers |-> "none"]
    /\ request = [c \in Clients |-> Idle]
    /\ alive = Clients
    /\ crashes = 0 /\ deaths = 0

-----------------------------------------------------------------------------
(* running_, and the clients at the other ends of a server's connections.  *)
running_(s) == server[s].life = "up"
Attached(s) == {server[s].client} \cup {queue[s][i] : i \in 1..Len(queue[s])}

(* Clients whose connection the closing of s cuts; an answer that was      *)
(* already written stays readable.                                         *)
Cut(s) == [c \in Clients |->
             IF c \in Attached(s) /\ request[c].at \in {"open", "sent"}
             THEN [request[c] EXCEPT !.cut = TRUE] ELSE request[c]]

Thread(s, t) == server' = [server EXCEPT ![s].thread = t]
Life(s, l) == server' = [server EXCEPT ![s].life = l]

(* The operating system closes the descriptors of s.                       *)
Closed(s) ==
    /\ request' = Cut(s)
    /\ queue' = [queue EXCEPT ![s] = <<>>]
    /\ pipe' = [pipe EXCEPT ![s] = "none"]

-----------------------------------------------------------------------------
(* Seeded fault: listen() that leaves the path of a crashed server alone.  *)
listen_KeepsPath(s) ==
    /\ server[s].life = "down"
    /\ setup.overlap \/ \A r \in Servers : server[r].life = "down"
    /\ IF Posix
       THEN /\ Life(s, "binding")
            /\ UNCHANGED <<bound, pipe>>
       ELSE /\ \/ /\ server' = [server EXCEPT ![s].life = "up", ![s].thread = "loop"]
                  /\ pipe' = [pipe EXCEPT ![s] = "listening"]
               \/ setup.osFails /\ Life(s, "deaf") /\ UNCHANGED pipe
            /\ UNCHANGED bound
    /\ UNCHANGED <<setup, queue, request, alive, crashes, deaths>>

(* listen(): POSIX removes the path, then binds; Windows creates an        *)
(* instance of the pipe, which clients can open at once, or fails to.      *)
listen(s) ==
    /\ server[s].life = "down"
    /\ setup.overlap \/ \A r \in Servers : server[r].life = "down"
    /\ IF Posix
       THEN /\ bound' = None
            /\ Life(s, "binding")
            /\ UNCHANGED pipe
       ELSE /\ \/ /\ server' = [server EXCEPT ![s].life = "up", ![s].thread = "loop"]
                  /\ pipe' = [pipe EXCEPT ![s] = "listening"]
               \/ setup.osFails /\ Life(s, "deaf") /\ UNCHANGED pipe
            /\ UNCHANGED bound
    /\ UNCHANGED <<setup, queue, request, alive, crashes, deaths>>

(* bind() fails when the path exists; then listen() only logs the error    *)
(* and the daemon goes on without a control socket.                        *)
bind(s) ==
    /\ server[s].life = "binding"
    /\ \/ /\ bound = None
          /\ bound' = s
          /\ server' = [server EXCEPT ![s].life = "up", ![s].thread = "loop"]
       \/ /\ bound # None \/ setup.osFails
          /\ Life(s, "deaf")
          /\ UNCHANGED bound
    /\ UNCHANGED <<setup, queue, pipe, request, alive, crashes, deaths>>

(* stop(), or the destructor on Windows, up to the join.                   *)
stop(s) ==
    /\ \/ /\ server[s].life = "up"
          /\ Life(s, IF Posix THEN "joining" ELSE "stopping")
       \/ /\ server[s].life = "deaf"
          /\ Life(s, "down")
    /\ UNCHANGED <<setup, bound, queue, pipe, request, alive, crashes, deaths>>

(* ~LocalIpcWin opens and closes a connection so that ConnectNamedPipe     *)
(* returns; it does not look whether that succeeded.                       *)
wake(s) ==
    /\ server[s].life = "stopping"
    /\ \/ \E r \in Servers :
            /\ pipe[r] = "listening"
            /\ pipe' = [pipe EXCEPT ![r] = "connected"]
            /\ server' = [server EXCEPT ![s].life = "joining", ![r].client = Dummy]
       \/ /\ \A r \in Servers : pipe[r] # "listening"
          /\ Life(s, "joining")
          /\ UNCHANGED pipe
    /\ UNCHANGED <<setup, bound, queue, request, alive, crashes, deaths>>

(* Seeded fault: stop() that forgets to close server_fd_.                  *)
close_KeepsSocket(s) ==
    /\ server[s].life = "joining" /\ server[s].thread = "done"
    /\ server' = [server EXCEPT ![s] =
                    [Down EXCEPT !.life = IF Posix THEN "unlinking" ELSE "down"]]
    /\ UNCHANGED <<setup, bound, queue, pipe, request, alive, crashes, deaths>>

(* After the join: close the socket or pipe, which cuts off the clients    *)
(* that were still waiting, ...                                            *)
close(s) ==
    /\ server[s].life = "joining" /\ server[s].thread = "done"
    /\ server' = [server EXCEPT ![s] =
                    [Down EXCEPT !.life = IF Posix THEN "unlinking" ELSE "down"]]
    /\ Closed(s)
    /\ UNCHANGED <<setup, bound, alive, crashes, deaths>>

(* ... and remove the path, whichever server it names by now.              *)
unlink(s) ==
    /\ server[s].life = "unlinking"
    /\ bound' = None
    /\ Life(s, "down")
    /\ UNCHANGED <<setup, queue, pipe, request, alive, crashes, deaths>>

(* The server's process ends without stop(): the path stays.               *)
Killed(s) ==
    /\ server' = [server EXCEPT ![s] = Down]
    /\ Closed(s)
    /\ UNCHANGED <<setup, bound, alive, deaths>>

Crash(s) ==
    /\ server[s].life # "down" /\ crashes < setup.crashes
    /\ crashes' = crashes + 1
    /\ Killed(s)

-----------------------------------------------------------------------------
(* accept_loop() and the thread of LocalIpcWin: while (running_).          *)
Loop(s) ==
    /\ server[s].thread = "loop"
    /\ Thread(s, IF running_(s) THEN "wait" ELSE "done")
    /\ UNCHANGED <<setup, bound, queue, pipe, request, alive, crashes, deaths>>

(* Seeded fault: a plain accept() in place of poll() with a timeout.       *)
Timeout_Never(s) ==
    /\ Posix
    /\ server[s].thread = "wait" /\ queue[s] = <<>>
    /\ FALSE
    /\ UNCHANGED ipcVars

(* poll() returns after 100 ms without a connection.                       *)
Timeout(s) ==
    /\ Posix
    /\ server[s].thread = "wait" /\ queue[s] = <<>>
    /\ Thread(s, "loop")
    /\ UNCHANGED <<setup, bound, queue, pipe, request, alive, crashes, deaths>>

(* A connection is accepted; or poll() or accept() fails and the loop ends,*)
(* with running_ set and the socket still listening.                       *)
accept(s) ==
    /\ Posix
    /\ server[s].thread = "wait"
    /\ \/ /\ queue[s] # <<>>
          /\ server' = [server EXCEPT ![s].thread = "serve", ![s].client = Head(queue[s])]
          /\ queue' = [queue EXCEPT ![s] = Tail(@)]
       \/ /\ setup.osFails
          /\ Thread(s, "done")
          /\ UNCHANGED queue
    /\ UNCHANGED <<setup, bound, pipe, request, alive, crashes, deaths>>

(* A client whose end of the connection is closed.                         *)
Hung(c) == c = Dummy \/ c \notin alive

(* ConnectNamedPipe(): makes the instance available and waits, or finds a  *)
(* client already there.  When that client has closed its end the call     *)
(* fails, the instance is not disconnected, and the loop goes round.       *)
ConnectNamedPipe(s) ==
    /\ ~ Posix
    /\ \/ /\ server[s].thread = "wait" /\ pipe[s] \in {"listening", "disconnected"}
          /\ pipe' = [pipe EXCEPT ![s] = "listening"]
          /\ Thread(s, "pending")
       \/ /\ server[s].thread = "wait" /\ pipe[s] = "connected"
          /\ Thread(s, IF Hung(server[s].client) THEN "loop" ELSE "woken")
          /\ UNCHANGED pipe
       \/ /\ server[s].thread = "pending" /\ pipe[s] = "connected"
          /\ Thread(s, "woken")
          /\ UNCHANGED pipe
    /\ UNCHANGED <<setup, bound, queue, request, alive, crashes, deaths>>

(* running_ is read again before the client is served.                     *)
Woken(s) ==
    /\ server[s].thread = "woken"
    /\ Thread(s, IF running_(s) THEN "serve" ELSE "done")
    /\ UNCHANGED <<setup, bound, queue, pipe, request, alive, crashes, deaths>>

(* The connection is closed, or the pipe disconnected, after serve_client().*)
Hangup(s) ==
    /\ server' = [server EXCEPT ![s].thread = "loop", ![s].client = None]
    /\ pipe' = IF Posix THEN pipe ELSE [pipe EXCEPT ![s] = "disconnected"]

(* serve_client(): the request is read and handler_ called; a client that  *)
(* closed its end before it had written ends the service.                  *)
read(s) ==
    /\ server[s].thread = "serve"
    /\ LET c == server[s].client IN
       IF c # Dummy /\ request[c].at = "sent"
       THEN Thread(s, "reply") /\ UNCHANGED pipe
       ELSE Hung(c) /\ Hangup(s)
    /\ UNCHANGED <<setup, bound, queue, request, alive, crashes, deaths>>

(* The answer is written.  When the client is gone the write fails, and on *)
(* POSIX its signal ends the server.                                       *)
reply(s) ==
    /\ server[s].thread = "reply"
    /\ LET c == server[s].client IN
       \/ /\ c \in alive
          /\ request' = [request EXCEPT ![c].at = "answered"]
          /\ IF Posix THEN Hangup(s) ELSE Thread(s, "flush") /\ UNCHANGED pipe
          /\ UNCHANGED <<setup, bound, queue, alive, crashes, deaths>>
       \/ /\ c \notin alive /\ Posix
          /\ Killed(s)
          /\ UNCHANGED crashes
       \/ /\ c \notin alive /\ ~ Posix
          /\ Hangup(s)
          /\ UNCHANGED <<setup, bound, queue, request, alive, crashes, deaths>>

(* FlushFileBuffers() waits until the client has read, or is gone.         *)
flush(s) ==
    /\ server[s].thread = "flush"
    /\ LET c == server[s].client IN c \notin alive \/ request[c].at # "answered"
    /\ Hangup(s)
    /\ UNCHANGED <<setup, bound, queue, request, alive, crashes, deaths>>

-----------------------------------------------------------------------------
(* send_request().  The open descriptors of a server accept connections    *)
(* from bind() to close(), whether or not its thread still runs.           *)
Open(s) == server[s].life \in {"up", "joining"}

Reaches(s) ==
    IF Posix THEN bound = s /\ Open(s) ELSE pipe[s] = "listening"

connect(c) ==
    /\ c \in alive /\ request[c].at = "idle"
    /\ \E s \in Servers :
         /\ Reaches(s)
         /\ IF Posix
            THEN queue' = [queue EXCEPT ![s] = Append(@, c)] /\ UNCHANGED <<server, pipe>>
            ELSE /\ server' = [server EXCEPT ![s].client = c]
                 /\ pipe' = [pipe EXCEPT ![s] = "connected"]
                 /\ UNCHANGED queue
    /\ request' = [request EXCEPT ![c].at = "open"]
    /\ UNCHANGED <<setup, bound, alive, crashes, deaths>>

(* connect() or CreateFile() fails and send_request() returns nothing.     *)
refused(c) ==
    /\ c \in alive /\ request[c].at = "idle"
    /\ \A s \in Servers : ~ Reaches(s)
    /\ UNCHANGED ipcVars

write(c) ==
    /\ c \in alive /\ request[c].at = "open" /\ ~ request[c].cut
    /\ request' = [request EXCEPT ![c].at = "sent"]
    /\ UNCHANGED <<setup, bound, server, queue, pipe, alive, crashes, deaths>>

(* The connection is gone: on POSIX the signal ends the process, on Windows*)
(* send_request() returns nothing.                                         *)
write_fails(c) ==
    /\ c \in alive /\ request[c].at = "open" /\ request[c].cut
    /\ request' = [request EXCEPT ![c] = Idle]
    /\ alive' = IF Posix THEN alive \ {c} ELSE alive
    /\ UNCHANGED <<setup, bound, server, queue, pipe, crashes, deaths>>

(* The read has no timeout: it ends with the answer or with the connection.*)
receive(c) ==
    /\ c \in alive
    /\ request[c].at = "answered" \/ (request[c].at = "sent" /\ request[c].cut)
    /\ request' = [request EXCEPT ![c] = Idle]
    /\ UNCHANGED <<setup, bound, server, queue, pipe, alive, crashes, deaths>>

Die(c) ==
    /\ c \in alive /\ deaths < setup.deaths
    /\ deaths' = deaths + 1
    /\ alive' = alive \ {c}
    /\ UNCHANGED <<setup, bound, server, queue, pipe, request, crashes>>

-----------------------------------------------------------------------------
ServerStep(s) ==
    \/ bind(s) \/ wake(s) \/ close(s) \/ unlink(s)
    \/ Loop(s) \/ Timeout(s) \/ accept(s) \/ ConnectNamedPipe(s) \/ Woken(s)
    \/ read(s) \/ reply(s) \/ flush(s)

ServerNext == \E s \in Servers : listen(s) \/ stop(s) \/ Crash(s) \/ ServerStep(s)

(* Where a call is: connecting is left to the thread that makes the call.  *)
InCall(c) == write(c) \/ write_fails(c) \/ receive(c)

(* A daemon's threads are scheduled; so is a thread inside send_request(). *)
IpcFairness ==
    /\ \A s \in Servers : WF_ipcVars(ServerStep(s))
    /\ \A c \in Clients : WF_ipcVars(InCall(c))

-----------------------------------------------------------------------------
(* A server that has started can be reached: whatever earlier servers left *)
(* behind, listen() ends with the path naming this server, and it keeps    *)
(* doing so until stop().  (listen() unlinks the path before bind(), and   *)
(* stop() unlinks it after the join; one server at a time uses the name.)  *)
StartedIsReachable ==
    ~ setup.osFails => \A s \in Servers :
        /\ server[s].life # "deaf"
        /\ Posix /\ running_(s) => bound = s

(* stop() returns, although the listening socket stays open until the      *)
(* accept loop has ended (the comment before LocalIpcPosix::stop).         *)
StopEnds ==
    \A s \in Servers :
        (Posix /\ server[s].life = "joining") ~> (server[s].life = "down")

(* The same of ~LocalIpcWin.                                               *)
StopEndsOnWindows ==
    \A s \in Servers : (server[s].life = "stopping") ~> (server[s].life = "down")

(* send_request() returns or its process ends: it has no timeout, so it    *)
(* depends on the server to answer, to close the connection, or to go.     *)
RequestReturns ==
    \A c \in Clients :
        (~ setup.osFails /\ request[c].at # "idle")
            ~> (request[c].at = "idle" \/ c \notin alive)

(* A server runs until it is stopped or crashes by itself: a client that   *)
(* dies does not take it along.                                            *)
ServerSurvives ==
    [][\A s \in Servers :
         running_(s) /\ crashes' = crashes => server'[s].life # "down"]_ipcVars

(* While a server runs, a client that calls send_request() gets through.   *)
AlwaysReachable ==
    (\E s \in Servers : running_(s)) => \E s \in Servers : Reaches(s)
=============================================================================
