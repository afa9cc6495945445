------------------------------ MODULE Discovery ------------------------------
(***************************************************************************)
(* discoveryd: every node announces its capacity once a second over UDP    *)
(* multicast, and keeps a table of the announcements it hears.  The table  *)
(* of one node, the watcher, is modelled, with a MemoryClient that asks it *)
(* for peers: tables of different nodes do not affect each other.          *)
(*                                                                         *)
(* Time passes in seconds.  A second ends once every timer that is due has *)
(* fired (the loops are not stalled for a second) and the network has      *)
(* delivered or lost, possibly more than once and out of order, what was   *)
(* sent in it.                                                             *)
(***************************************************************************)
EXTENDS Integers, FiniteSets

CONSTANTS
  Nodes,         \* nodes that announce
  Ttl,           \* ttl_seconds_
  Free,          \* figures memoryd's pool can have
  OsFree,        \* IMemoryMonitor's figure
  MaxBoots,      \* bound on the starts of one daemon
  MaxLost,       \* announcements of a node lost in a row, at most
  MaxChanges,    \* bound on stops, joins, leaves and changes of memoryd
  None           \* no figure

MaxAge == 3 * Ttl + 2   \* ages are counted up to here
Enough == IF MaxLost < 4 THEN 4 ELSE MaxLost + 1   \* and other durations up to here
Ids == Nodes \X (1 .. MaxBoots)   \* local_id_: a fresh uuid for every start

Figures == Free \cup {0, OsFree}
Entries == [free : Figures, age : 0 .. MaxAge, state : {"ACTIVE", "STALE"}]   \* PeerInfo
Announcements == [id : Ids, free : Figures, heard : BOOLEAN, late : BOOLEAN]

ASSUME DiscoveryAssumption ==
  /\ Ttl \in Nat \ {0}
  /\ MaxBoots \in Nat \ {0}
  /\ MaxLost \in Nat /\ MaxChanges \in Nat
  /\ OsFree \notin Free \cup {0}
  /\ None \notin Figures \cup Entries

VARIABLES
  boot, up,               \* node -> starts so far, is its discoveryd running
  pool_joined_,           \* node -> BOOLEAN
  free_ram_,              \* node -> what Announcer would announce
  said,                   \* node -> its last announcement, None before one
  available_, free_bytes_,  \* node -> PoolProbe
  memoryd, pool,          \* node -> "up" | "down" | "wedged", its free bytes
  probing,                \* node -> PoolProbe waits for memoryd's answer
  due,                    \* node -> timers that will fire in this second
  wire,                   \* announcements under way to the watcher
  lost,                   \* node -> announcements lost in a row
  peers_,                 \* the watcher's table: id -> entry or None
  tickDue,                \* the watcher's own tick timer
  capacity,               \* node -> free_ram_bytes of the client's RemotePeer
  upFor, memorydFor, leftFor,  \* node -> seconds
  changes

daemonVars == <<boot, up, pool_joined_, free_ram_, said>>
probeVars == <<available_, free_bytes_, probing>>
poolVars == <<memoryd, pool>>
clockVars == <<upFor, memorydFor, leftFor>>
netVars == <<wire, lost>>
tableVars == <<peers_, tickDue, capacity>>
vars == <<daemonVars, probeVars, poolVars, clockVars, due, netVars, tableVars, changes>>

Init ==
  /\ boot = [n \in Nodes |-> 0]
  /\ up = [n \in Nodes |-> FALSE]
  /\ pool_joined_ = [n \in Nodes |-> TRUE]
  /\ free_ram_ = [n \in Nodes |-> 0]
  /\ said = [n \in Nodes |-> None]
  /\ available_ = [n \in Nodes |-> FALSE]
  /\ free_bytes_ = [n \in Nodes |-> 0]
  /\ probing = [n \in Nodes |-> FALSE]
  /\ memoryd = [n \in Nodes |-> "up"]
  /\ pool \in [Nodes -> Free]
  /\ due = [n \in Nodes |-> {}]
  /\ wire = {}
  /\ lost = [n \in Nodes |-> 0]
  /\ peers_ = [i \in Ids |-> None]
  /\ tickDue = TRUE
  /\ capacity = [n \in Nodes |-> None]
  /\ upFor = [n \in Nodes |-> 0]
  /\ memorydFor = [n \in Nodes |-> 0]
  /\ leftFor = [n \in Nodes |-> 0]
  /\ changes = 0

Id(n) == <<n, boot[n]>>

Change == changes < MaxChanges /\ changes' = changes + 1

-----------------------------------------------------------------------------
(* A node's daemon.                                                         *)

\* What a query leaves in PoolProbe: a memoryd that does not run answers
\* nothing, one that does answers with what is left of its pool.
Answered(n) ==
  /\ available_' = [available_ EXCEPT ![n] = memoryd[n] = "up"]
  /\ free_bytes_' = [free_bytes_ EXCEPT ![n] = IF memoryd[n] = "up" THEN pool[n] ELSE @]

\* run(): the announcer's timer starts at once, the tick timer in a second.
\* The synchronous poll_once() blocks when memoryd is wedged.
run(n) ==
  /\ ~up[n]
  /\ boot[n] < MaxBoots
  /\ memoryd[n] # "wedged"
  /\ up' = [up EXCEPT ![n] = TRUE]
  /\ boot' = [boot EXCEPT ![n] = @ + 1]
  /\ pool_joined_' = [pool_joined_ EXCEPT ![n] = TRUE]
  /\ free_ram_' = [free_ram_ EXCEPT ![n] = 0]
  /\ said' = [said EXCEPT ![n] = None]
  /\ Answered(n)
  /\ due' = [due EXCEPT ![n] = {"announce", "probe"}]
  /\ upFor' = [upFor EXCEPT ![n] = 0]
  /\ leftFor' = [leftFor EXCEPT ![n] = 0]
  /\ UNCHANGED <<probing, poolVars, memorydFor, netVars, tableVars, changes>>

Stops(n) ==
  /\ Change
  /\ up[n]
  /\ up' = [up EXCEPT ![n] = FALSE]
  /\ due' = [due EXCEPT ![n] = {}]
  /\ probing' = [probing EXCEPT ![n] = FALSE]
  /\ lost' = [lost EXCEPT ![n] = 0]
  /\ UNCHANGED <<boot, pool_joined_, free_ram_, said, available_, free_bytes_, poolVars,
                 clockVars, wire, tableVars>>

join_pool(n) ==
  /\ Change
  /\ up[n]
  /\ ~pool_joined_[n]
  /\ pool_joined_' = [pool_joined_ EXCEPT ![n] = TRUE]
  /\ leftFor' = [leftFor EXCEPT ![n] = 0]
  /\ UNCHANGED <<boot, up, free_ram_, said, probeVars, poolVars, upFor, memorydFor, due,
                 netVars, tableVars>>

leave_pool(n) ==
  /\ Change
  /\ up[n]
  /\ pool_joined_[n]
  /\ pool_joined_' = [pool_joined_ EXCEPT ![n] = FALSE]
  /\ UNCHANGED <<boot, up, free_ram_, said, probeVars, poolVars, clockVars, due,
                 netVars, tableVars>>

\* Seeded fault: the announcer is not told that the node left.
Announced_Regardless(n) == free_ram_[n]

\* Announcer::on_timer: nothing is offered by a node that left the pool.
Announced(n) == IF pool_joined_[n] THEN free_ram_[n] ELSE 0

OnAnnounce(n) ==
  /\ "announce" \in due[n]
  /\ due' = [due EXCEPT ![n] = @ \ {"announce"}]
  /\ said' = [said EXCEPT ![n] = Announced(n)]
  /\ wire' = wire \cup {[id |-> Id(n), free |-> Announced(n), heard |-> FALSE, late |-> FALSE]}
  /\ UNCHANGED <<boot, up, pool_joined_, free_ram_, probeVars, poolVars, clockVars, lost,
                 tableVars, changes>>

\* Seeded fault: the operating system's figure is announced.
current_free_ram_Os(n) == OsFree

current_free_ram(n) == IF available_[n] THEN free_bytes_[n] ELSE OsFree

\* The tick timer of the node; its own table is not modelled.
OnTick(n) ==
  /\ "tick" \in due[n]
  /\ due' = [due EXCEPT ![n] = @ \ {"tick"}]
  /\ free_ram_' = [free_ram_ EXCEPT ![n] = current_free_ram(n)]
  /\ UNCHANGED <<boot, up, pool_joined_, said, probeVars, poolVars, clockVars, netVars,
                 tableVars, changes>>

\* The PoolProbe thread sends its query, and gets the answer.  A wedged
\* memoryd accepts the query and never answers; send_request has no timeout.
OnProbe(n) ==
  /\ "probe" \in due[n]
  /\ due' = [due EXCEPT ![n] = @ \ {"probe"}]
  /\ IF memoryd[n] = "wedged"
     THEN probing' = [probing EXCEPT ![n] = TRUE] /\ UNCHANGED <<available_, free_bytes_>>
     ELSE Answered(n) /\ UNCHANGED probing
  /\ UNCHANGED <<daemonVars, poolVars, clockVars, netVars, tableVars, changes>>

-----------------------------------------------------------------------------
(* memoryd, seen through its control socket.                                *)

PoolChanges(n) ==
  /\ Change
  /\ memoryd[n] = "up"
  /\ \E f \in Free \ {pool[n]} : pool' = [pool EXCEPT ![n] = f]
  /\ UNCHANGED <<daemonVars, probeVars, memoryd, clockVars, due, netVars, tableVars>>

\* A query that waits for a memoryd that exits gets no bytes.
MemorydStops(n) ==
  /\ Change
  /\ memoryd[n] # "down"
  /\ memoryd' = [memoryd EXCEPT ![n] = "down"]
  /\ memorydFor' = [memorydFor EXCEPT ![n] = 0]
  /\ available_' = [available_ EXCEPT ![n] = @ /\ ~probing[n]]
  /\ probing' = [probing EXCEPT ![n] = FALSE]
  /\ UNCHANGED <<daemonVars, free_bytes_, pool, upFor, leftFor, due, netVars, tableVars>>

MemorydStarts(n) ==
  /\ Change
  /\ memoryd[n] = "down"
  /\ memoryd' = [memoryd EXCEPT ![n] = "up"]
  /\ memorydFor' = [memorydFor EXCEPT ![n] = 0]
  /\ UNCHANGED <<daemonVars, probeVars, pool, upFor, leftFor, due, netVars, tableVars>>

MemorydWedges(n) ==
  /\ Change
  /\ memoryd[n] = "up"
  /\ memoryd' = [memoryd EXCEPT ![n] = "wedged"]
  /\ memorydFor' = [memorydFor EXCEPT ![n] = 0]
  /\ UNCHANGED <<daemonVars, probeVars, pool, upFor, leftFor, due, netVars, tableVars>>

-----------------------------------------------------------------------------
(* The network and the watcher's daemon.                                    *)

\* PeerTable::update: the entry is replaced, and last_seen is the local clock.
update(table, m) == [table EXCEPT ![m.id] = [free |-> m.free, age |-> 0, state |-> "ACTIVE"]]

Heard(m) == [m EXCEPT !.heard = TRUE]
Late(m) == [m EXCEPT !.late = TRUE]

\* Listener::on_recv.  An announcement may arrive more than once.
OnRecv(m) ==
  /\ peers_' = update(peers_, m)
  /\ wire' = (wire \ {m}) \cup {Heard(m)}
  /\ lost' = [lost EXCEPT ![m.id[1]] = IF m.id = Id(m.id[1]) THEN 0 ELSE @]
  /\ UNCHANGED <<daemonVars, probeVars, poolVars, clockVars, due, tickDue, capacity, changes>>

Lose(m) ==
  /\ ~m.heard
  /\ IF m.id = Id(m.id[1])
     THEN /\ lost[m.id[1]] < MaxLost \/ ~up[m.id[1]]
          /\ lost' = [lost EXCEPT ![m.id[1]] = IF up[m.id[1]] THEN @ + 1 ELSE 0]
     ELSE UNCHANGED lost
  /\ wire' = wire \ {m}
  /\ UNCHANGED <<daemonVars, probeVars, poolVars, clockVars, due, tableVars, changes>>

\* Seeded faults: entries are kept for ever; erased when they should be demoted.
tick_Keeps(e) ==
  CASE e = None -> None
    [] e # None -> [e EXCEPT !.state = IF e.age > Ttl THEN "STALE" ELSE "ACTIVE"]

tick_Eager(e) ==
  CASE e = None -> None
    [] e # None /\ e.age >= Ttl -> None
    [] OTHER -> [e EXCEPT !.state = "ACTIVE"]

\* PeerTable::tick, for one entry.
tick(e) ==
  CASE e = None -> None
    [] e # None /\ e.age > 3 * Ttl -> None
    [] e # None /\ e.age > Ttl /\ e.age <= 3 * Ttl -> [e EXCEPT !.state = "STALE"]
    [] OTHER -> [e EXCEPT !.state = "ACTIVE"]

OnWatcherTick ==
  /\ tickDue
  /\ tickDue' = FALSE
  /\ peers_' = [i \in Ids |-> tick(peers_[i])]
  /\ UNCHANGED <<daemonVars, probeVars, poolVars, clockVars, due, netVars, capacity, changes>>

\* The entries of the node's address: one per start of its daemon.
EntriesOf(n) == {i \in Ids : i[1] = n /\ peers_[i] # None}

\* LIST_PEERS and connect_to_peers(): the client keys peers by address, so the
\* last entry of an address wins, and peers_ is an unordered map.
connect_to_peers ==
  /\ \E last \in [Nodes -> Ids] :
       /\ \A n \in Nodes : EntriesOf(n) # {} => last[n] \in EntriesOf(n)
       /\ capacity' = [n \in Nodes |-> IF EntriesOf(n) = {} THEN capacity[n]
                                       ELSE peers_[last[n]].free]
  /\ UNCHANGED <<daemonVars, probeVars, poolVars, clockVars, due, netVars, peers_, tickDue, changes>>

-----------------------------------------------------------------------------
UpTo(bound, seconds) == IF seconds < bound THEN seconds + 1 ELSE seconds

\* age is tick's elapsed, duration_cast<seconds>(now - last_seen): without its
\* fraction, so it grows by one with each second that passes.
Aged(e) == [e EXCEPT !.age = UpTo(MaxAge, @)]

\* Timers fire once a second; what arrived in this one may arrive once more.
Second ==
  /\ \A n \in Nodes : due[n] = {}
  /\ ~tickDue
  /\ \A m \in wire : m.heard
  /\ tickDue' = TRUE
  /\ due' = [n \in Nodes |-> IF ~up[n] THEN {}
                             ELSE {"announce", "tick"} \cup (IF probing[n] THEN {} ELSE {"probe"})]
  /\ wire' = {Late(m) : m \in {x \in wire : ~x.late}}
  /\ peers_' = [i \in Ids |-> IF peers_[i] = None THEN None ELSE Aged(peers_[i])]
  /\ upFor' = [n \in Nodes |-> IF up[n] THEN UpTo(Enough, upFor[n]) ELSE 0]
  /\ memorydFor' = [n \in Nodes |-> UpTo(Enough, memorydFor[n])]
  /\ leftFor' = [n \in Nodes |-> IF pool_joined_[n] THEN 0 ELSE UpTo(Enough, leftFor[n])]
  /\ UNCHANGED <<daemonVars, probeVars, poolVars, lost, capacity, changes>>

Node(n) ==
  \/ run(n) \/ Stops(n) \/ join_pool(n) \/ leave_pool(n)
  \/ OnAnnounce(n) \/ OnTick(n) \/ OnProbe(n)
  \/ PoolChanges(n) \/ MemorydStops(n) \/ MemorydStarts(n) \/ MemorydWedges(n)

Next ==
  \/ \E n \in Nodes : Node(n)
  \/ \E m \in wire : OnRecv(m) \/ Lose(m)
  \/ OnWatcherTick
  \/ connect_to_peers
  \/ Second

Spec == Init /\ [][Next]_vars

-----------------------------------------------------------------------------
(* Properties                                                               *)

\* Every variable has its type.
TypeOK ==
  /\ boot \in [Nodes -> 0 .. MaxBoots] /\ up \in [Nodes -> BOOLEAN]
  /\ pool_joined_ \in [Nodes -> BOOLEAN]
  /\ free_ram_ \in [Nodes -> Figures] /\ said \in [Nodes -> Figures \cup {None}]
  /\ available_ \in [Nodes -> BOOLEAN] /\ free_bytes_ \in [Nodes -> Free \cup {0}]
  /\ memoryd \in [Nodes -> {"up", "down", "wedged"}] /\ pool \in [Nodes -> Free]
  /\ probing \in [Nodes -> BOOLEAN]
  /\ due \in [Nodes -> SUBSET {"announce", "tick", "probe"}]
  /\ wire \subseteq Announcements
  /\ lost \in [Nodes -> 0 .. MaxLost]
  /\ peers_ \in [Ids -> Entries \cup {None}] /\ tickDue \in BOOLEAN
  /\ capacity \in [Nodes -> Figures \cup {None}]
  /\ {upFor, memorydFor, leftFor} \subseteq [Nodes -> 0 .. Enough]

\* A node that went silent is no longer called active one tick after its time
\* to live, and is gone one tick after three times that.
SilentExpire ==
  \A i \in Ids : peers_[i] # None =>
    /\ peers_[i].age <= 3 * Ttl + 1
    /\ peers_[i].state = "ACTIVE" => peers_[i].age <= Ttl + 1

\* A node that keeps announcing stays in the table and active, as long as
\* fewer announcements than the time to live are lost in a row.
LivingStay ==
  MaxLost < Ttl =>
    \A n \in Nodes : up[n] /\ upFor[n] > MaxLost =>
      peers_[Id(n)] # None /\ peers_[Id(n)].state = "ACTIVE"

\* An entry heard two seconds or more after its node left the pool offers
\* nothing, on a network that repeats a packet at most one second late.  The
\* listener applies what it hears whatever its heartbeat_ts, so the delay of the
\* network is what bounds how long a withdrawn offer can come back.
LeaverOffersNothing ==
  \A n \in Nodes : up[n] /\ ~pool_joined_[n] =>
    LET e == peers_[Id(n)] IN e # None /\ e.age + 2 <= leftFor[n] => e.free = 0

\* A node announces what is left of memoryd's pool, and not what the operating
\* system has free, once memoryd has run for four seconds (pool_probe.h).
OfferIsThePool ==
  \A n \in Nodes :
    up[n] /\ upFor[n] >= 4 /\ memoryd[n] = "up" /\ memorydFor[n] >= 4 => said[n] # OsFree

\* "Clients are guaranteed an up-to-date snapshot of the network state": the
\* capacity a client takes from LIST_PEERS is what the daemon that runs at that
\* address announced last.
SnapshotIsCurrent ==
  [][\A n \in Nodes : capacity'[n] # capacity[n] /\ up[n] /\ peers_[Id(n)] # None
                        => capacity'[n] = peers_[Id(n)].free]_vars

\* "The very first announcement already carries the pool figure": it does when
\* the synchronous sample succeeded.
FirstCarriesPool ==
  [][\A n \in Nodes : said[n] = None /\ said'[n] # None /\ pool_joined_[n] /\ available_[n]
                        => said'[n] = free_bytes_[n]]_vars

\* available() is true only while memoryd has not stopped answering, give or
\* take the probe's interval.
AvailableIsAnswering ==
  \A n \in Nodes : up[n] /\ memoryd[n] = "wedged" /\ memorydFor[n] >= 3 => ~available_[n]
=============================================================================
