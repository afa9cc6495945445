------------------------------- MODULE Memoryd -------------------------------
(***************************************************************************)
(* memoryd: the daemon that lends its RAM.  A SlabAllocator of fixed-size  *)
(* pages, a PageTracker that maps handles to pages and handles to the      *)
(* session that owns them, and one ClientSession per TCP connection.       *)
(*                                                                         *)
(* One libuv loop thread runs every callback, so a callback is never       *)
(* interrupted by another: `busy' is the session whose on_read is running, *)
(* and each request taken from its read buffer is one step.  Bytes are     *)
(* abstracted to cells: a page has PageSize of them.  Sizes and offsets    *)
(* are size_t: they go up to SizeMax, and sums wrap at SizeMax + 1.        *)
(***************************************************************************)
EXTENDS Integers, Sequences, FiniteSets, Functions

CONSTANTS
  TotalPages,   \* pages of the slab
  PageSize,     \* cells of a page
  SizeMax,      \* std::numeric_limits<size_t>::max()
  MaxMessage,   \* MAX_MESSAGE_SIZE
  Values,       \* what a client can store in a cell
  Zero,         \* what memset leaves in a cell
  ReqSizes,     \* sizes a request carries (a subset of 0 .. SizeMax)
  ReqOffsets,   \* offsets a request carries (a subset of 0 .. SizeMax)
  MaxSessions,  \* bound on next_session_id_
  MaxHandles    \* bound on next_handle_

ASSUME MemorydAssumption ==
  /\ TotalPages \in Nat \ {0}
  /\ PageSize \in Nat \ {0}
  /\ SizeMax \in Nat
  /\ PageSize - 1 <= SizeMax
  /\ MaxMessage \in Nat
  /\ Zero \notin Values
  /\ ReqSizes \subseteq 0 .. SizeMax
  /\ ReqOffsets \subseteq 0 .. SizeMax
  /\ MaxSessions \in Nat
  /\ MaxHandles \in Nat

VARIABLES
  \* SlabAllocator
  free_list_,      \* the pages that can be handed out, popped at the end
  page_states_,    \* page -> "FREE" | "ALLOCATED"
  buffer_,         \* page -> cell of the page -> contents
  \* PageTracker
  allocations_,    \* handle -> [total_size, pages, owner_id]
  next_handle_,
  \* MemoryDaemon and ClientSession
  server,          \* the listening socket: "listening" | "closed"; "gone": the
                   \* process ended in the middle of a callback
  session,         \* session id -> state of its socket
  next_session_id_,
  busy,            \* session whose read callback the loop is running, or 0
  reply            \* the last response handed to uv_write

slabVars == <<free_list_, page_states_, buffer_>>
trackerVars == <<allocations_, next_handle_>>
socketVars == <<server, session, next_session_id_, busy>>
vars == <<free_list_, page_states_, buffer_, allocations_, next_handle_,
          server, session, next_session_id_, busy, reply>>

Pages == 0 .. TotalPages - 1
Cells == 0 .. PageSize - 1
Sessions == 1 .. MaxSessions
Handles == 1 .. MaxHandles
Cell == Values \cup {Zero}

\* "none": not accepted yet; "eof": the peer is gone and the loop has not been
\* told; "closing": uv_close was called; "deleted": the ClientSession is gone.
SessionStates == {"none", "open", "eof", "closing", "deleted"}

Statuses == {"OK", "ERROR_GENERIC", "CHECKSUM_MISMATCH", "INVALID_HANDLE",
             "OUT_OF_MEMORY", "VERSION_MISMATCH", "PERMISSION_DENIED"}

NoReply == [to |-> 0, op |-> "NONE", handle |-> 0, size |-> 0,
            status |-> "NONE", data |-> <<>>]

PageSet(a) == {a.pages[i] : i \in DOMAIN a.pages}

Init ==
  /\ free_list_ = [i \in 1 .. TotalPages |-> TotalPages - i]
  /\ page_states_ = [p \in Pages |-> "FREE"]
  /\ buffer_ = [p \in Pages |-> [o \in Cells |-> Zero]]
  /\ allocations_ = <<>>
  /\ next_handle_ = 1
  /\ server = "listening"
  /\ session = [s \in Sessions |-> "none"]
  /\ next_session_id_ = 1
  /\ busy = 0
  /\ reply = NoReply
-----------------------------------------------------------------------------
(***************************************************************************)
(* SlabAllocator.  allocate_pages pops from the end of the free list and   *)
(* clears each page; free_pages pushes back the pages that are still       *)
(* ALLOCATED.  The order in which one call pushes several pages is left    *)
(* open (for a whole session it is the order of an unordered_map).         *)
(***************************************************************************)
\* Seeded fault: the page is handed out without the memset.
AllocatePages_NoClear(pages) ==
  /\ free_list_' = SubSeq(free_list_, 1, Len(free_list_) - Len(pages))
  /\ page_states_' = [p \in Pages |->
       IF \E i \in DOMAIN pages : pages[i] = p THEN "ALLOCATED" ELSE page_states_[p]]
  /\ UNCHANGED buffer_

AllocatePages(pages) ==
  /\ free_list_' = SubSeq(free_list_, 1, Len(free_list_) - Len(pages))
  /\ page_states_' = [p \in Pages |->
       IF \E i \in DOMAIN pages : pages[i] = p THEN "ALLOCATED" ELSE page_states_[p]]
  /\ buffer_' = [p \in Pages |->
       IF \E i \in DOMAIN pages : pages[i] = p THEN [o \in Cells |-> Zero] ELSE buffer_[p]]

Popped(count) == [i \in 1 .. count |-> free_list_[Len(free_list_) - i + 1]]

Enumerations(S) == Bijection(1 .. Cardinality(S), S)

FreePages(P) ==
  LET returned == {p \in P : p \in Pages /\ page_states_[p] = "ALLOCATED"} IN
  /\ \E order \in Enumerations(returned) : free_list_' = free_list_ \o order
  /\ page_states_' = [p \in Pages |-> IF p \in returned THEN "FREE" ELSE page_states_[p]]
  /\ UNCHANGED buffer_

-----------------------------------------------------------------------------
(***************************************************************************)
(* PageTracker.                                                            *)
(***************************************************************************)
CheckOwnership(h, s) ==
  IF h \notin DOMAIN allocations_ THEN "INVALID_HANDLE"
  ELSE IF allocations_[h].owner_id # 0 /\ allocations_[h].owner_id # s
         THEN "PERMISSION_DENIED" ELSE "OK"

PagesNeeded(size) == ((size + PageSize - 1) % (SizeMax + 1)) \div PageSize

\* Seeded fault: allocate() without its overflow check.
RoundingOverflows_Unchecked(size) == FALSE

\* The rounding up in allocate() would wrap.
RoundingOverflows(size) == size > SizeMax - (PageSize - 1)

InBounds(h, offset, size) ==
  /\ offset <= allocations_[h].total_size
  /\ size <= allocations_[h].total_size - offset

\* Where logical cell c of an allocation is kept.
PageOf(a, c) == a.pages[(c \div PageSize) + 1]
OffsetInPage(c) == c % PageSize

\* The cells of page p that the range [offset, offset + size) of a covers.
Covered(a, offset, size, p) ==
  {OffsetInPage(c) : c \in {d \in offset .. offset + size - 1 : PageOf(a, d) = p}}

\* Seeded fault: the pages are given back and the handle stays.
Erase_Forgotten(H) == UNCHANGED allocations_

Erase(H) == allocations_' = [h \in DOMAIN allocations_ \ H |-> allocations_[h]]
-----------------------------------------------------------------------------
(***************************************************************************)
(* MemoryProtocol::process_request, one action per opcode, each run for a  *)
(* complete frame of the busy session's read buffer.  send_response drops  *)
(* the response when the socket is already closing; the requests that      *)
(* follow in the same buffer are carried out all the same.                 *)
(***************************************************************************)
Respond(s, op, h, size, status, data) ==
  reply' = IF session[s] = "closing" THEN reply
           ELSE [to |-> s, op |-> op, handle |-> h, size |-> size,
                 status |-> status, data |-> data]

Refused(s, op, h, size, status) ==
  /\ Respond(s, op, h, size, status, <<>>)
  /\ UNCHANGED <<slabVars, trackerVars>>

AllocZero(s) ==
  /\ Respond(s, "ALLOC", 0, 0, "OK", <<>>)
  /\ UNCHANGED <<slabVars, trackerVars>>

AllocFails(s, size) ==
  /\ size # 0
  /\ RoundingOverflows(size) \/ Len(free_list_) < PagesNeeded(size)
  /\ Refused(s, "ALLOC", 0, size, "OUT_OF_MEMORY")

NewAllocation(s, size, pages) ==
  [total_size |-> size, pages |-> pages, owner_id |-> s]

AllocGrants(s, size) ==
  /\ size # 0
  /\ ~RoundingOverflows(size)
  /\ Len(free_list_) >= PagesNeeded(size)
  /\ next_handle_ <= MaxHandles
  /\ LET pages == Popped(PagesNeeded(size)) IN
       /\ AllocatePages(pages)
       /\ allocations_' = [h \in DOMAIN allocations_ \cup {next_handle_} |->
            IF h = next_handle_
              THEN NewAllocation(s, size, pages)
              ELSE allocations_[h]]
  /\ next_handle_' = next_handle_ + 1
  /\ Respond(s, "ALLOC", next_handle_, size, "OK", <<>>)

Free(s, h) ==
  LET status == CheckOwnership(h, s) IN
  \/ status # "OK" /\ Refused(s, "FREE", h, 0, status)
  \/ /\ status = "OK"
     /\ FreePages(PageSet(allocations_[h]))
     /\ Erase({h})
     /\ Respond(s, "FREE", h, 0, "OK", <<>>)
     /\ UNCHANGED next_handle_

\* The outcome of PageTracker::write and read for a range of a handle.
AccessStatus(s, h, offset, size) ==
  IF size = 0 THEN "OK"
  ELSE IF CheckOwnership(h, s) # "OK" THEN CheckOwnership(h, s)
  ELSE IF ~InBounds(h, offset, size) THEN "ERROR_GENERIC"
  ELSE "OK"

WriteUnusable(s, h, size) ==
  \/ size = 0 /\ Refused(s, "WRITE", h, size, "ERROR_GENERIC")
  \/ Refused(s, "WRITE", h, size, "CHECKSUM_MISMATCH")

Write(s, h, offset, size, v) ==
  LET status == AccessStatus(s, h, offset, size) IN
  \/ status # "OK" /\ Refused(s, "WRITE", h, size, status)
  \/ /\ status = "OK"
     /\ buffer_' = IF size = 0 THEN buffer_
                   ELSE [p \in Pages |-> [o \in Cells |->
                          IF o \in Covered(allocations_[h], offset, size, p)
                            THEN v ELSE buffer_[p][o]]]
     /\ Respond(s, "WRITE", h, size, "OK", <<>>)
     /\ UNCHANGED <<free_list_, page_states_, trackerVars>>

Read(s, h, offset, size) ==
  LET status == IF size > MaxMessage THEN "ERROR_GENERIC"
                ELSE AccessStatus(s, h, offset, size)
  IN
  \/ status # "OK" /\ Refused(s, "READ", h, size, status)
  \/ /\ status = "OK"
     /\ Respond(s, "READ", h, size, "OK",
          [i \in 1 .. size |->
             LET c == offset + i - 1
             IN  buffer_[PageOf(allocations_[h], c)][OffsetInPage(c)]])
     /\ UNCHANGED <<slabVars, trackerVars>>

\* PING, an unknown opcode, a foreign protocol version.
Other(s) ==
  /\ \/ Respond(s, "PING", 0, 0, "OK", <<>>)
     \/ Respond(s, "OTHER", 0, 0, "ERROR_GENERIC", <<>>)
     \/ Respond(s, "OTHER", 0, 0, "VERSION_MISMATCH", <<>>)
  /\ UNCHANGED <<slabVars, trackerVars>>

\* The handles a client can name: any it was ever given, and some it was not.
NamedHandles == 0 .. MaxHandles

HandleRequest(s) ==
  /\ busy = s
  /\ \/ \E size \in ReqSizes :
          \/ size = 0 /\ AllocZero(s)
          \/ AllocFails(s, size)
          \/ AllocGrants(s, size)
     \/ Other(s)
     \/ \E h \in NamedHandles :
          \/ Free(s, h)
          \/ \E size \in ReqSizes :
               \/ WriteUnusable(s, h, size)
               \/ \E offset \in ReqOffsets :
                    \/ Read(s, h, offset, size)
                    \/ \E v \in Values : Write(s, h, offset, size, v)
  /\ UNCHANGED socketVars
-----------------------------------------------------------------------------
(***************************************************************************)
(* ClientSession and MemoryDaemon.                                         *)
(***************************************************************************)
\* on_connection builds the session; when uv_accept fails its constructor
\* closes the socket at once.
OnConnection ==
  /\ busy = 0
  /\ server = "listening"
  /\ next_session_id_ <= MaxSessions
  /\ \E state \in {"open", "closing"} :
       session' = [session EXCEPT ![next_session_id_] = state]
  /\ next_session_id_' = next_session_id_ + 1
  /\ UNCHANGED <<slabVars, trackerVars, server, busy, reply>>

\* The environment: the client closes its end, or its host disappears.
PeerCloses(s) ==
  /\ session[s] = "open"
  /\ session' = [session EXCEPT ![s] = "eof"]
  /\ UNCHANGED <<slabVars, trackerVars, server, next_session_id_, busy, reply>>

\* on_read with nread > 0.  Bytes sent before the end of the stream are
\* delivered before it.
OnRead(s) ==
  /\ busy = 0
  /\ session[s] \in {"open", "eof"}
  /\ busy' = s
  /\ UNCHANGED <<slabVars, trackerVars, server, session, next_session_id_, reply>>

\* process_buffer finds no further complete frame.
EndRead(s) ==
  /\ busy = s
  /\ busy' = 0
  /\ UNCHANGED <<slabVars, trackerVars, server, session, next_session_id_, reply>>

\* A frame that does not verify closes the socket and the loop of
\* process_buffer goes on (busy stays); an oversized one ends the callback.
\* Neither path asks uv_is_closing first: closing the same handle again breaks
\* libuv's contract (an assertion of uv_close), and the process ends there.
MalformedFrame(s) ==
  /\ busy = s
  /\ \/ /\ session[s] # "closing"
        /\ session' = [session EXCEPT ![s] = "closing"]
        /\ busy' \in {s, 0}
        /\ UNCHANGED server
     \/ /\ session[s] = "closing"
        /\ server' = "gone"
        /\ UNCHANGED <<session, busy>>
  /\ UNCHANGED <<slabVars, trackerVars, next_session_id_, reply>>

\* on_read with nread < 0.
OnReadError(s) ==
  /\ busy = 0
  /\ session[s] = "eof"
  /\ session' = [session EXCEPT ![s] = "closing"]
  /\ UNCHANGED <<slabVars, trackerVars, server, next_session_id_, busy, reply>>

Owned(s) == {h \in DOMAIN allocations_ : allocations_[h].owner_id = s}

\* Seeded fault: a destructor that does not free.
OnCloseHandle_Leaks(s) ==
  /\ busy = 0
  /\ session[s] = "closing"
  /\ session' = [session EXCEPT ![s] = "deleted"]
  /\ UNCHANGED <<slabVars, trackerVars, server, next_session_id_, busy, reply>>

\* on_close_handle deletes the session; its destructor frees what it owns.
OnCloseHandle(s) ==
  /\ busy = 0
  /\ session[s] = "closing"
  /\ session' = [session EXCEPT ![s] = "deleted"]
  /\ FreePages(UNION {PageSet(allocations_[h]) : h \in Owned(s)})
  /\ Erase(Owned(s))
  /\ UNCHANGED <<next_handle_, server, next_session_id_, busy, reply>>

\* The stop_async_ callback, and close_sockets of the destructor.
StopAsync ==
  /\ busy = 0
  /\ server = "listening"
  /\ server' = "closed"
  /\ session' = [s \in Sessions |->
       IF session[s] \in {"open", "eof"} THEN "closing" ELSE session[s]]
  /\ UNCHANGED <<slabVars, trackerVars, next_session_id_, busy, reply>>

Next ==
  /\ server # "gone"
  /\ \/ OnConnection
     \/ StopAsync
     \/ \E s \in Sessions :
          \/ PeerCloses(s)
          \/ OnRead(s)
          \/ HandleRequest(s)
          \/ EndRead(s)
          \/ MalformedFrame(s)
          \/ OnReadError(s)
          \/ OnCloseHandle(s)

Spec == Init /\ [][Next]_vars

(***************************************************************************)
(* libuv's loop: a read callback returns (its buffer is finite); a socket  *)
(* at its end is polled in every iteration, and only finitely many bytes   *)
(* come before the end; close callbacks run in every iteration.  The last  *)
(* two compete with the callbacks of other sessions, hence SF.             *)
(***************************************************************************)
Fairness ==
  \A s \in Sessions :
    /\ WF_vars(server # "gone" /\ EndRead(s))
    /\ SF_vars(server # "gone" /\ OnReadError(s))
    /\ SF_vars(server # "gone" /\ OnCloseHandle(s))

FairSpec == Spec /\ Fairness
-----------------------------------------------------------------------------
\* MemoryControlSocket::handle_request, GET_MEMORY_STATS: what discoveryd
\* is told of the pool.
MemoryStats ==
  LET total == TotalPages * PageSize
      free == Len(free_list_) * PageSize
  IN  [total_bytes |-> total, free_bytes |-> free, used_bytes |-> total - free]
-----------------------------------------------------------------------------
(***************************************************************************)
(* Properties.                                                             *)
(***************************************************************************)
Allocation ==
  [total_size : 1 .. SizeMax, pages : Seq(Pages), owner_id : Sessions]

\* The shape of the daemon's state.
TypeOK ==
  /\ free_list_ \in Seq(Pages)
  /\ page_states_ \in [Pages -> {"FREE", "ALLOCATED"}]
  /\ buffer_ \in [Pages -> [Cells -> Cell]]
  /\ next_handle_ \in 1 .. MaxHandles + 1
  /\ DOMAIN allocations_ \subseteq 1 .. next_handle_ - 1
  /\ \A h \in DOMAIN allocations_ : allocations_[h] \in Allocation
  /\ server \in {"listening", "closed", "gone"}
  /\ session \in [Sessions -> SessionStates]
  /\ next_session_id_ \in 1 .. MaxSessions + 1
  /\ busy \in 0 .. MaxSessions

FreeListMatchesStates ==
  /\ \A i, j \in DOMAIN free_list_ : free_list_[i] = free_list_[j] => i = j
  /\ \A p \in Pages :
       page_states_[p] = "FREE" <=> \E i \in DOMAIN free_list_ : free_list_[i] = p

PagesHeldOnce ==
  /\ \A h \in DOMAIN allocations_ : \A i, j \in DOMAIN allocations_[h].pages :
       allocations_[h].pages[i] = allocations_[h].pages[j] => i = j
  /\ \A h, k \in DOMAIN allocations_ :
       h # k => PageSet(allocations_[h]) \cap PageSet(allocations_[k]) = {}

NoPageLost ==
  \A p \in Pages :
    page_states_[p] = "ALLOCATED"
      <=> \E h \in DOMAIN allocations_ : p \in PageSet(allocations_[h])

\* Every page of the slab is in exactly one place: once in the free list, or in
\* one position of one allocation.  The allocator keeps three records of this
\* (free_list_, page_states_, PageTracker's page vectors); a double push, a lost
\* push or a page handed out twice makes them disagree.
PoolPartition == FreeListMatchesStates /\ PagesHeldOnce /\ NoPageLost

\* Every cell below total_size has a page: the index pages[page_idx] of read and
\* write is in range, whatever size was asked for and however its rounding up
\* would wrap.
FullyBacked ==
  \A h \in DOMAIN allocations_ :
    allocations_[h].total_size <= Len(allocations_[h].pages) * PageSize

\* No allocation belongs to a session that was never accepted or is gone: nobody
\* could free it any more.  Requests still in the buffer of a closing socket
\* allocate too, before the close callback sweeps them up.
OwnedByLiveSession ==
  \A h \in DOMAIN allocations_ :
    session[allocations_[h].owner_id] \in {"open", "eof", "closing"}

\* GET_MEMORY_STATS reports as used exactly the pages that handles hold.
StatsMatchAllocations ==
  MemoryStats.used_bytes =
    PageSize * Cardinality(UNION {PageSet(allocations_[h]) : h \in DOMAIN allocations_})

\* A read callback runs for an accepted session only, and sessions are accepted
\* in the order of their ids.
SessionsInOrder ==
  /\ busy # 0 => session[busy] \in {"open", "eof", "closing"}
  /\ \A s \in Sessions : s >= next_session_id_ => session[s] = "none"

\* The inductive invariant of the daemon.
MemorydInv ==
  TypeOK /\ PoolPartition /\ FullyBacked /\ OwnedByLiveSession /\ SessionsInOrder

\* An allocation as its client sees it: the cells of its pages, in order.
Contents(a, buffer) ==
  [c \in 0 .. a.total_size - 1 |-> buffer[PageOf(a, c)][OffsetInPage(c)]]

Blocks ==
  [h \in DOMAIN allocations_ |-> [owner |-> allocations_[h].owner_id,
                                 data |-> Contents(allocations_[h], buffer_)]]

\* The pool of private, zeroed blocks that clients see.
Pool == INSTANCE MemoryPool WITH
  Sizes <- ReqSizes \cup ReqOffsets,
  blocks <- Blocks,
  issued <- 1 .. next_handle_ - 1

\* memoryd implements the pool: recycled pages show no earlier contents, a
\* session reads back what it stored and nothing else, no one touches another
\* session's block, no handle is reused, a refusal changes nothing.
RefinesMemoryPool == Pool!PoolSpec

\* memoryd/README.md: a session whose connection ends, however abruptly, has all
\* its handles freed, as long as the daemon runs.
SessionMemoryReturns ==
  \A s \in Sessions :
    session[s] \in {"eof", "closing"}
      ~> server = "gone" \/ (session[s] = "deleted" /\ Owned(s) = {})
=============================================================================
