-------------------------- MODULE Discovery_proofs --------------------------
(***************************************************************************)
(* What the watcher's table promises, for any number of nodes and starts,  *)
(* any time to live and any number of announcements lost in a row.         *)
(***************************************************************************)
EXTENDS Discovery, TLAPS

-----------------------------------------------------------------------------
(* Types.                                                                  *)

LEMMA UpToType ==
  ASSUME NEW bound \in Nat, NEW k \in 0 .. bound
  PROVE  UpTo(bound, k) \in 0 .. bound /\ UpTo(bound, k) <= k + 1 /\ k <= UpTo(bound, k)
BY DEF UpTo

LEMMA Exceeds == \A a, b \in Nat : a <= b => ~ (a > b)
OBVIOUS

LEMMA Bounds == MaxAge \in Nat /\ Enough \in Nat /\ 4 <= Enough
BY DiscoveryAssumption DEF MaxAge, Enough

LEMMA TickType ==
  ASSUME NEW e \in Entries \cup {None}
  PROVE  tick(e) \in Entries \cup {None}
<1>1. CASE e = None
  BY <1>1, Zenon DEF tick
<1>2. CASE e # None
  <2>1. e \in Entries
    BY <1>2, Zenon
  <2>2. \A s \in {"ACTIVE", "STALE"} : [e EXCEPT !.state = s] \in Entries
    BY <2>1, Zenon DEF Entries
  <2> QED BY <1>2, <2>2, Zenon DEF tick
<1> QED BY <1>1, <1>2, Zenon

LEMMA AgedType ==
  ASSUME NEW e \in Entries
  PROVE  /\ Aged(e) \in Entries
         /\ e.age \in Nat /\ Aged(e).age \in Nat
         /\ Aged(e).age = (IF e.age < MaxAge THEN e.age + 1 ELSE e.age)
         /\ Aged(e).free = e.free /\ Aged(e).state = e.state
<1>1. e.age \in 0 .. MaxAge /\ MaxAge \in Nat
  BY Bounds, Zenon DEF Entries
<1>2. /\ UpTo(MaxAge, e.age) \in 0 .. MaxAge
      /\ UpTo(MaxAge, e.age) = (IF e.age < MaxAge THEN e.age + 1 ELSE e.age)
  BY <1>1 DEF UpTo
<1>3. Aged(e) \in Entries /\ Aged(e).age = UpTo(MaxAge, e.age)
  BY <1>2, Zenon DEF Aged, Entries
<1>4. Aged(e).free = e.free /\ Aged(e).state = e.state
  BY <1>2, Zenon DEF Aged, Entries
<1> QED BY <1>1, <1>2, <1>3, <1>4

LEMMA WireType ==
  ASSUME NEW m \in Announcements
  PROVE  /\ Heard(m) \in Announcements /\ Heard(m).heard
         /\ Heard(m).id = m.id /\ Heard(m).free = m.free /\ Heard(m).late = m.late
         /\ Late(m) \in Announcements /\ Late(m).late
         /\ Late(m).id = m.id /\ Late(m).free = m.free /\ Late(m).heard = m.heard
BY Zenon DEF Announcements, Heard, Late

(* A daemon that runs has an id, and only one that runs has timers.        *)
Started == \A n \in Nodes : (due[n] # {} => up[n]) /\ (up[n] => boot[n] # 0)

Typed == TypeOK /\ Started

LEMMA AnsweredType ==
  ASSUME TypeOK, NEW n \in Nodes, Answered(n)
  PROVE  available_' \in [Nodes -> BOOLEAN] /\ free_bytes_' \in [Nodes -> Free \cup {0}]
BY Zenon DEF TypeOK, Answered

LEMMA NodeType ==
  ASSUME Typed, NEW n \in Nodes, Node(n)
  PROVE  TypeOK'
<1> USE DEF Typed, TypeOK
<1>1. CASE run(n)
  <2>1. boot[n] + 1 \in 0 .. MaxBoots
    BY <1>1, DiscoveryAssumption DEF run
  <2>2. available_' \in [Nodes -> BOOLEAN] /\ free_bytes_' \in [Nodes -> Free \cup {0}]
    BY <1>1, AnsweredType, Zenon DEF run
  <2>3. {upFor', memorydFor', leftFor'} \subseteq [Nodes -> 0 .. Enough]
    BY <1>1, Bounds DEF run
  <2> QED
    BY <1>1, <2>1, <2>2, <2>3, Zenon DEF run, poolVars, netVars, tableVars, Figures
<1>2. CASE Stops(n)
  <2>1. lost' \in [Nodes -> 0 .. MaxLost]
    BY <1>2, DiscoveryAssumption DEF Stops
  <2> QED BY <1>2, <2>1, Zenon DEF Stops, poolVars, clockVars, tableVars
<1>3. CASE join_pool(n)
  <2>1. leftFor' \in [Nodes -> 0 .. Enough]
    BY <1>3, Bounds DEF join_pool
  <2> QED BY <1>3, <2>1 DEF join_pool, probeVars, poolVars, netVars, tableVars
<1>4. CASE leave_pool(n)
  BY <1>4, Zenon DEF leave_pool, probeVars, poolVars, clockVars, netVars, tableVars
<1>5. CASE OnAnnounce(n)
  <2>1. Announced(n) \in Figures
    BY Zenon DEF Announced, Figures
  <2>2. Id(n) \in Ids
    BY <1>5 DEF OnAnnounce, Id, Ids, Started
  <2>3. wire' \subseteq Announcements
    <3>1. [id |-> Id(n), free |-> Announced(n), heard |-> FALSE, late |-> FALSE]
            \in Announcements
      BY <2>1, <2>2, Zenon DEF Announcements
    <3> QED BY <1>5, <3>1, Zenon DEF OnAnnounce
  <2>4. said' \in [Nodes -> Figures \cup {None}]
    BY <1>5, <2>1, Zenon DEF OnAnnounce
  <2> QED
    BY <1>5, <2>3, <2>4, Zenon DEF OnAnnounce, probeVars, poolVars, clockVars, tableVars
<1>6. CASE OnTick(n)
  <2>1. current_free_ram(n) \in Figures
    BY Zenon DEF current_free_ram, Figures
  <2> QED BY <1>6, <2>1, Zenon DEF OnTick, probeVars, poolVars, clockVars, netVars, tableVars
<1>7. CASE OnProbe(n)
  <2>1. /\ available_' \in [Nodes -> BOOLEAN] /\ free_bytes_' \in [Nodes -> Free \cup {0}]
        /\ probing' \in [Nodes -> BOOLEAN]
    BY <1>7, AnsweredType, Zenon DEF OnProbe
  <2> QED BY <1>7, <2>1, Zenon DEF OnProbe, daemonVars, poolVars, clockVars, netVars, tableVars
<1>8. CASE PoolChanges(n)
  BY <1>8 DEF PoolChanges, daemonVars, probeVars, clockVars, netVars, tableVars
<1>9. CASE MemorydStops(n)
  <2>1. memorydFor' \in [Nodes -> 0 .. Enough]
    BY <1>9, Bounds DEF MemorydStops
  <2>2. available_' \in [Nodes -> BOOLEAN]
    BY <1>9, Zenon DEF MemorydStops
  <2> QED
    BY <1>9, <2>1, <2>2 DEF MemorydStops, daemonVars, netVars, tableVars
<1>10. CASE MemorydStarts(n) \/ MemorydWedges(n)
  <2>1. memorydFor' \in [Nodes -> 0 .. Enough]
    BY <1>10, Bounds DEF MemorydStarts, MemorydWedges
  <2> QED
    BY <1>10, <2>1 DEF MemorydStarts, MemorydWedges, daemonVars, probeVars, netVars, tableVars
<1> QED
  BY <1>1, <1>2, <1>3, <1>4, <1>5, <1>6, <1>7, <1>8, <1>9, <1>10, Zenon DEF Node

LEMMA TypeStep == Typed /\ [Next]_vars => Typed'
<1> SUFFICES ASSUME Typed, [Next]_vars PROVE TypeOK' /\ Started'
  BY Zenon DEF Typed
<1>1. ASSUME NEW n \in Nodes, Node(n)
      PROVE  TypeOK'
  BY <1>1, NodeType, Zenon
<1> USE DEF Typed, TypeOK
<1>2. ASSUME NEW m \in wire, OnRecv(m)
      PROVE  TypeOK'
  <2>1. m \in Announcements /\ m.id[1] \in Nodes
    BY Zenon DEF Announcements, Ids
  <2>2. peers_' \in [Ids -> Entries \cup {None}]
    BY <1>2, <2>1, Bounds DEF OnRecv, update, Announcements, Entries
  <2>3. wire' \subseteq Announcements
    BY <1>2, <2>1, WireType DEF OnRecv
  <2>4. lost' \in [Nodes -> 0 .. MaxLost]
    BY <1>2, <2>1, DiscoveryAssumption DEF OnRecv
  <2> QED
    BY <1>2, <2>2, <2>3, <2>4, Zenon DEF OnRecv, daemonVars, probeVars, poolVars, clockVars
<1>3. ASSUME NEW m \in wire, Lose(m)
      PROVE  TypeOK'
  <2>1. m.id[1] \in Nodes
    BY Zenon DEF Announcements, Ids
  <2>2. lost' \in [Nodes -> 0 .. MaxLost]
    BY <1>3, <2>1, DiscoveryAssumption DEF Lose
  <2> QED
    BY <1>3, <2>2, Zenon DEF Lose, daemonVars, probeVars, poolVars, clockVars, tableVars
<1>4. ASSUME OnWatcherTick
      PROVE  TypeOK'
  <2>1. peers_' \in [Ids -> Entries \cup {None}]
    BY <1>4, TickType, Zenon DEF OnWatcherTick
  <2> QED
    BY <1>4, <2>1, Zenon DEF OnWatcherTick, daemonVars, probeVars, poolVars, clockVars, netVars
<1>5. ASSUME connect_to_peers
      PROVE  TypeOK'
  <2>1. capacity' \in [Nodes -> Figures \cup {None}]
    BY <1>5 DEF connect_to_peers, EntriesOf, Entries
  <2> QED
    BY <1>5, <2>1, Zenon DEF connect_to_peers, daemonVars, probeVars, poolVars, clockVars, netVars
<1>6. ASSUME Second
      PROVE  TypeOK'
  <2>1. {upFor', memorydFor', leftFor'} \subseteq [Nodes -> 0 .. Enough]
    BY <1>6, Bounds, UpToType DEF Second
  <2>2. peers_' \in [Ids -> Entries \cup {None}]
    BY <1>6, AgedType, Zenon DEF Second
  <2>3. wire' \subseteq Announcements
    BY <1>6, WireType DEF Second
  <2> QED
    BY <1>6, <2>1, <2>2, <2>3, Zenon DEF Second, daemonVars, probeVars, poolVars
<1>7. ASSUME UNCHANGED vars
      PROVE  TypeOK'
  BY <1>7, Zenon DEF vars, daemonVars, probeVars, poolVars, clockVars, netVars, tableVars
<1>8. Started'
  <2>1. ASSUME NEW n \in Nodes, Node(n)
        PROVE  Started'
    <3>1. CASE run(n)
      BY <3>1, DiscoveryAssumption DEF run, Started
    <3>2. CASE ~ run(n)
      <4>1. UNCHANGED boot
        BY <2>1, <3>2, Zenon
        DEF Node, Stops, join_pool, leave_pool, OnAnnounce, OnTick, OnProbe, PoolChanges,
            MemorydStops, MemorydStarts, MemorydWedges, daemonVars
      <4>2. \A k \in Nodes : due'[k] # {} => due[k] # {} /\ (up'[k] <=> up[k])
        BY <2>1, <3>2, SMTT(30)
        DEF Node, Stops, join_pool, leave_pool, OnAnnounce, OnTick, OnProbe, PoolChanges,
            MemorydStops, MemorydStarts, MemorydWedges, daemonVars
      <4>3. \A k \in Nodes : up'[k] => up[k]
        BY <2>1, <3>2, Zenon
        DEF Node, Stops, join_pool, leave_pool, OnAnnounce, OnTick, OnProbe, PoolChanges,
            MemorydStops, MemorydStarts, MemorydWedges, daemonVars
      <4> QED BY <4>1, <4>2, <4>3, Zenon DEF Started
    <3> QED BY <3>1, <3>2, Zenon
  <2>2. CASE Second
    BY <2>2, Zenon DEF Second, Started, daemonVars
  <2>3. CASE UNCHANGED <<due, up, boot>>
    BY <2>3, Zenon DEF Started
  <2> QED
    BY <2>1, <2>2, <2>3, Zenon
    DEF Next, OnRecv, Lose, OnWatcherTick, connect_to_peers, vars, daemonVars
<1> QED
  BY <1>1, <1>2, <1>3, <1>4, <1>5, <1>6, <1>7, <1>8, Zenon DEF Next

(* Every variable has its type in every state of discoveryd's model.       *)
THEOREM TypeCorrect == Spec => []TypeOK
<1>1. Init => Typed
  BY DiscoveryAssumption, Bounds DEF Init, TypeOK, Started, Typed, Figures
<1>2. Typed => TypeOK
  BY Zenon DEF Typed
<1> QED BY <1>1, <1>2, TypeStep, PTL DEF Spec

-----------------------------------------------------------------------------
(* The table.  A tick leaves nothing older than three times the time to    *)
(* live, and nothing active that is older than the time to live; until the *)
(* next tick everything ages by one second at most.                        *)
Grace == IF tickDue THEN 1 ELSE 0

Timely ==
  \A i \in Ids : peers_[i] # None =>
    /\ peers_[i].age <= 3 * Ttl + Grace
    /\ peers_[i].state = "ACTIVE" => peers_[i].age <= Ttl + Grace
    /\ peers_[i].state = "STALE" => peers_[i].age > Ttl

LEMMA TickFacts ==
  ASSUME NEW e \in Entries
  PROVE  /\ tick(e) # None =>
              /\ tick(e) \in Entries
              /\ tick(e).age = e.age /\ tick(e).free = e.free
              /\ e.age <= 3 * Ttl
              /\ tick(e).state = (IF e.age > Ttl THEN "STALE" ELSE "ACTIVE")
         /\ e.age <= 3 * Ttl => tick(e) # None
<1>1. e # None
  BY DiscoveryAssumption, Zenon
<1>2. e.age \in Nat /\ Ttl \in Nat
  BY DiscoveryAssumption DEF Entries
<1>3. ASSUME NEW s \in {"ACTIVE", "STALE"}
      PROVE  LET x == [e EXCEPT !.state = s]
             IN  x \in Entries /\ x.age = e.age /\ x.free = e.free /\ x.state = s
  BY Zenon DEF Entries
<1>4. \A s \in {"ACTIVE", "STALE"} : [e EXCEPT !.state = s] # None
  BY <1>3, DiscoveryAssumption, Zenon
<1>5. CASE e.age > 3 * Ttl
  BY <1>1, <1>2, <1>5 DEF tick
<1>6. CASE e.age > Ttl /\ e.age <= 3 * Ttl
  <2>1. tick(e) = [e EXCEPT !.state = "STALE"]
    BY <1>1, <1>2, <1>6 DEF tick
  <2> QED BY <1>2, <1>3, <1>4, <1>6, <2>1, Zenon
<1>7. CASE e.age <= Ttl
  <2>1. tick(e) = [e EXCEPT !.state = "ACTIVE"]
    BY <1>1, <1>2, <1>7 DEF tick
  <2> QED BY <1>2, <1>3, <1>4, <1>7, <2>1
<1> QED BY <1>2, <1>5, <1>6, <1>7

(* What a step does to the table and to the watcher's timer.               *)
LEMMA HeardEntry ==
  ASSUME Typed, NEW m \in wire, OnRecv(m)
  PROVE  /\ m \in Announcements /\ m.id \in Ids
         /\ peers_'[m.id] # None
         /\ peers_'[m.id].age = 0 /\ peers_'[m.id].free = m.free
         /\ peers_'[m.id].state = "ACTIVE"
         /\ \A i \in Ids \ {m.id} : peers_'[i] = peers_[i]
<1>1. m \in Announcements /\ m.id \in Ids
  BY Zenon DEF Typed, TypeOK, Announcements
<1>2. [free |-> m.free, age |-> 0, state |-> "ACTIVE"] \in Entries
  BY <1>1, Bounds DEF Announcements, Entries
<1> QED
  BY <1>1, <1>2, DiscoveryAssumption DEF OnRecv, update, Typed, TypeOK

LEMMA NodeLeavesTable ==
  ASSUME NEW n \in Nodes, Node(n)
  PROVE  UNCHANGED <<peers_, tickDue>>
BY Zenon DEF Node, run, Stops, join_pool, leave_pool, OnAnnounce, OnTick, OnProbe, PoolChanges,
       MemorydStops, MemorydStarts, MemorydWedges, tableVars

LEMMA TimelyStep == Typed /\ Timely /\ [Next]_vars => Timely'
<1> SUFFICES ASSUME Typed, Timely, [Next]_vars PROVE Timely'
  BY Zenon
<1>a. Ttl \in Nat /\ peers_ \in [Ids -> Entries \cup {None}]
  BY DiscoveryAssumption, Zenon DEF Typed, TypeOK
<1>1. CASE UNCHANGED <<peers_, tickDue>>
  BY <1>1, Zenon DEF Timely, Grace
<1>2. ASSUME NEW m \in wire, OnRecv(m)
      PROVE  Timely'
  <2>1. UNCHANGED tickDue
    BY <1>2, Zenon DEF OnRecv
  <2> QED
    BY <1>a, <1>2, <2>1, HeardEntry DEF Timely, Grace
<1>3. CASE OnWatcherTick
  <2>1. ~ tickDue' /\ \A i \in Ids : peers_'[i] = tick(peers_[i])
    BY <1>3, Zenon DEF OnWatcherTick
  <2>2. ASSUME NEW i \in Ids, peers_'[i] # None
        PROVE  /\ peers_'[i].age <= 3 * Ttl
               /\ peers_'[i].state = "ACTIVE" => peers_'[i].age <= Ttl
               /\ peers_'[i].state = "STALE" => peers_'[i].age > Ttl
    <3>1. peers_[i] \in Entries
      BY <1>a, <2>1, <2>2, Zenon DEF tick
    <3>2. peers_[i].age \in Nat
      BY <3>1 DEF Entries
    <3> QED BY <1>a, <2>1, <2>2, <3>1, <3>2, TickFacts
  <2> QED BY <1>a, <2>1, <2>2 DEF Timely, Grace
<1>4. CASE Second
  <2>1. tickDue' /\ ~ tickDue
    BY <1>4, Zenon DEF Second
  <2>2. \A i \in Ids : peers_'[i] = IF peers_[i] = None THEN None ELSE Aged(peers_[i])
    BY <1>4, Zenon DEF Second
  <2>3. ASSUME NEW i \in Ids, peers_'[i] # None
        PROVE  /\ peers_'[i].age <= 3 * Ttl + 1
               /\ peers_'[i].state = "ACTIVE" => peers_'[i].age <= Ttl + 1
               /\ peers_'[i].state = "STALE" => peers_'[i].age > Ttl
    <3>1. peers_[i] \in Entries /\ peers_[i] # None /\ peers_'[i] = Aged(peers_[i])
      BY <1>a, <2>2, <2>3, Zenon
    <3>2. /\ peers_[i].age \in Nat /\ peers_'[i].age \in {peers_[i].age, peers_[i].age + 1}
          /\ peers_'[i].state = peers_[i].state
      BY <3>1, AgedType, Zenon
    <3>4. /\ peers_[i].age <= 3 * Ttl
          /\ peers_[i].state = "ACTIVE" => peers_[i].age <= Ttl
          /\ peers_[i].state = "STALE" => peers_[i].age > Ttl
      BY <1>a, <2>1, <3>1, <3>2 DEF Timely, Grace
    <3> QED BY <1>a, <3>2, <3>4
  <2> QED BY <1>a, <2>1, <2>3, Zenon DEF Timely, Grace
<1>5. ASSUME NEW n \in Nodes, Node(n)
      PROVE  UNCHANGED <<peers_, tickDue>>
  BY <1>5, NodeLeavesTable, Zenon
<1> QED
  BY <1>1, <1>2, <1>3, <1>4, <1>5, Zenon DEF Next, Lose, connect_to_peers, vars, tableVars

(* PeerTable::tick: an entry that is no longer heard of is called stale one*)
(* tick after its time to live, and is erased one tick after three times   *)
(* that, whatever time to live is configured.                              *)
THEOREM SilentNodesExpire == Spec => []SilentExpire
<1>1. Init => Typed /\ Timely
  BY DiscoveryAssumption, Bounds DEF Init, TypeOK, Started, Typed, Figures, Timely
<1>2. Typed /\ Timely => SilentExpire
  <2> SUFFICES ASSUME Typed, Timely, NEW i \in Ids, peers_[i] # None
               PROVE  /\ peers_[i].age <= 3 * Ttl + 1
                      /\ peers_[i].state = "ACTIVE" => peers_[i].age <= Ttl + 1
    BY Zenon DEF SilentExpire
  <2>1. peers_[i] \in Entries
    BY Zenon DEF Typed, TypeOK
  <2>2. peers_[i].age \in Nat /\ Ttl \in Nat
    BY <2>1, DiscoveryAssumption DEF Entries
  <2> QED BY <2>2 DEF Timely, Grace
<1> QED BY <1>1, <1>2, TypeStep, TimelyStep, PTL DEF Spec

-----------------------------------------------------------------------------
(* A node that announces.  lost counts the announcements lost in a row, and*)
(* the age of the node's entry is at most that, give or take the one that  *)
(* is still expected in this second.                                       *)
Awaited(n) == "announce" \in due[n] \/ \E m \in wire : m.id = Id(n) /\ ~ m.heard

Beat(n) ==
  LET e == peers_[Id(n)] IN
  /\ e = None => upFor[n] + (IF Awaited(n) THEN 0 ELSE 1) <= lost[n]
  /\ e # None => e.age <= lost[n] + (IF Awaited(n) THEN 1 ELSE 0)

(* Ids of starts that have not happened are in no table and in no message. *)
FreshIds ==
  /\ \A i \in Ids : boot[i[1]] < i[2] => peers_[i] = None
  /\ \A m \in wire : m.id[2] <= boot[m.id[1]]

Beating ==
  /\ FreshIds
  /\ \A n \in Nodes : IF up[n] THEN Beat(n) ELSE lost[n] = 0

(* A step that leaves alone what a node's beat depends on, or improves it. *)
LEMMA BeatStays ==
  ASSUME NEW n \in Nodes, Beat(n), Id(n)' = Id(n), Awaited(n)' <=> Awaited(n),
         peers_'[Id(n)] = peers_[Id(n)], upFor'[n] = upFor[n], lost'[n] = lost[n]
  PROVE  Beat(n)'
BY Zenon DEF Beat

LEMMA IdsDiffer ==
  ASSUME Typed, NEW i \in Ids, NEW n \in Nodes
  PROVE  /\ i[1] \in Nodes /\ i[2] \in Nat
         /\ up[n] => Id(n) \in Ids
         /\ Id(n)[1] = n /\ Id(n)[2] = boot[n] /\ boot[n] \in Nat
         /\ i = Id(n) => i[1] = n
<1>1. boot[n] \in 0 .. MaxBoots /\ (up[n] => boot[n] # 0)
  BY Zenon DEF Typed, TypeOK, Started
<1>2. MaxBoots \in Nat
  BY DiscoveryAssumption, Zenon
<1> QED BY <1>1, <1>2 DEF Id, Ids

LEMMA RunningId ==
  ASSUME Typed, NEW n \in Nodes, up[n]
  PROVE  Id(n) \in Ids
BY DiscoveryAssumption DEF Typed, TypeOK, Started, Id, Ids

LEMMA FreshStep ==
  ASSUME Typed, FreshIds, [Next]_vars
  PROVE  FreshIds'
<1>a. /\ peers_ \in [Ids -> Entries \cup {None}] /\ wire \subseteq Announcements
      /\ boot \in [Nodes -> 0 .. MaxBoots] /\ MaxBoots \in Nat
      /\ \A i \in Ids : i[1] \in Nodes /\ i[2] \in Nat
      /\ \A m \in wire : m.id \in Ids
  BY DiscoveryAssumption DEF Typed, TypeOK, Announcements, Ids
<1>1. CASE UNCHANGED <<peers_, boot>> /\ wire' \subseteq wire
  BY <1>1, Zenon DEF FreshIds
<1>2. ASSUME NEW n \in Nodes, run(n)
      PROVE  FreshIds'
  <2>1. UNCHANGED <<peers_, wire>> /\ boot' = [boot EXCEPT ![n] = @ + 1]
    BY <1>2, Zenon DEF run, tableVars, netVars
  <2>2. \A k \in Nodes : boot[k] \in Nat /\ boot'[k] \in Nat /\ boot[k] <= boot'[k]
    BY <1>a, <2>1
  <2> QED BY <1>a, <2>1, <2>2 DEF FreshIds
<1>3. ASSUME NEW n \in Nodes, OnAnnounce(n)
      PROVE  FreshIds'
  <2>1. UNCHANGED <<peers_, boot>>
    BY <1>3, Zenon DEF OnAnnounce, tableVars
  <2>2. \A m \in wire' : m \in wire \/ m.id = Id(n)
    BY <1>3 DEF OnAnnounce
  <2>3. Id(n)[1] = n /\ Id(n)[2] = boot[n] /\ boot[n] \in Nat
    BY <1>a DEF Id
  <2> QED BY <2>1, <2>2, <2>3 DEF FreshIds
<1>4. ASSUME NEW m \in wire, OnRecv(m)
      PROVE  FreshIds'
  <2>1. UNCHANGED boot /\ \A x \in wire' : x \in wire \/ x.id = m.id
    BY <1>4, <1>a, WireType, Zenon DEF OnRecv, daemonVars
  <2>2. ~ boot[m.id[1]] < m.id[2]
    BY <1>a DEF FreshIds
  <2> QED BY <1>a, <1>4, <2>1, <2>2, HeardEntry, Zenon DEF FreshIds
<1>5. CASE OnWatcherTick
  <2>1. UNCHANGED <<boot, wire>> /\ \A i \in Ids : peers_'[i] = tick(peers_[i])
    BY <1>5, Zenon DEF OnWatcherTick, daemonVars, netVars
  <2>2. tick(None) = None
    BY Zenon DEF tick
  <2> QED BY <2>1, <2>2, Zenon DEF FreshIds
<1>6. CASE Second
  <2>1. UNCHANGED boot
    BY <1>6, Zenon DEF Second, daemonVars
  <2>2. \A i \in Ids : peers_[i] = None => peers_'[i] = None
    BY <1>6, Zenon DEF Second
  <2>3. \A x \in wire' : \E m \in wire : x.id = m.id
    BY <1>6, <1>a, WireType DEF Second
  <2> QED BY <2>1, <2>2, <2>3, Zenon DEF FreshIds
<1>7. ASSUME NEW n \in Nodes, Node(n), ~ run(n), ~ OnAnnounce(n)
      PROVE  UNCHANGED <<peers_, boot, wire>>
  BY <1>7, Zenon
  DEF Node, Stops, join_pool, leave_pool, OnTick, OnProbe, PoolChanges, MemorydStops,
      MemorydStarts, MemorydWedges, daemonVars, netVars, tableVars
<1> QED
  BY <1>1, <1>2, <1>3, <1>4, <1>5, <1>6, <1>7, Zenon
  DEF Next, Lose, connect_to_peers, vars, daemonVars, netVars, tableVars

LEMMA BeatingStep ==
  ASSUME MaxLost < Ttl, Typed, Beating, [Next]_vars
  PROVE  Beating'
<1> SUFFICES ASSUME NEW n \in Nodes
             PROVE  IF up'[n] THEN Beat(n)' ELSE lost'[n] = 0
  BY FreshStep, Zenon DEF Beating
<1>a. /\ peers_ \in [Ids -> Entries \cup {None}] /\ wire \subseteq Announcements
      /\ boot \in [Nodes -> 0 .. MaxBoots] /\ lost \in [Nodes -> 0 .. MaxLost]
      /\ up \in [Nodes -> BOOLEAN] /\ due \in [Nodes -> SUBSET {"announce", "tick", "probe"}]
      /\ upFor \in [Nodes -> 0 .. Enough]
  BY Zenon DEF Typed, TypeOK
<1>b. MaxBoots \in Nat /\ MaxLost \in Nat /\ Ttl \in Nat /\ Enough \in Nat
  BY DiscoveryAssumption, Bounds, Zenon
<1>c. IF up[n] THEN Beat(n) ELSE lost[n] = 0
  BY Zenon DEF Beating
<1>d. /\ \A i \in Ids : i[1] \in Nodes /\ (i = Id(n) => i[1] = n)
      /\ \A m \in wire : m.id \in Ids
      /\ up[n] => Id(n) \in Ids
  BY <1>a, IdsDiffer, RunningId, Zenon DEF Announcements
<1>e. lost[n] \in 0 .. MaxLost /\ upFor[n] \in Nat
  BY <1>a, <1>b, SMTT(30)
<1>1. CASE /\ up'[n] = up[n] /\ boot'[n] = boot[n] /\ lost'[n] = lost[n]
           /\ upFor'[n] = upFor[n] /\ UNCHANGED <<peers_, wire>>
           /\ "announce" \in due'[n] <=> "announce" \in due[n]
  BY <1>1, <1>c, BeatStays, Zenon DEF Id, Awaited
<1>2. ASSUME NEW k \in Nodes, run(k)
      PROVE  IF up'[n] THEN Beat(n)' ELSE lost'[n] = 0
  <2>1. CASE k # n
    BY <1>1, <1>2, <1>a, <2>1, Zenon DEF run, netVars, tableVars
  <2>2. CASE k = n
    <3>1. /\ ~ up[n] /\ up'[n] /\ lost'[n] = 0 /\ upFor'[n] = 0
          /\ UNCHANGED peers_ /\ "announce" \in due'[n]
          /\ boot'[n] = boot[n] + 1 /\ boot[n] < MaxBoots
      BY <1>2, <1>a, <1>c, <2>2, Zenon DEF run, netVars, tableVars
    <3>2. Id(n)' \in Ids /\ Id(n)'[1] = n /\ Id(n)'[2] = boot[n] + 1 /\ boot[n] \in Nat
      BY <1>a, <1>b, <3>1, SMTT(30) DEF Id, Ids
    <3>3. peers_'[Id(n)'] = None
      <4>1. boot[Id(n)'[1]] < Id(n)'[2]
        BY <3>2
      <4> QED BY <3>1, <3>2, <4>1, Zenon DEF Beating, FreshIds
    <3> QED BY <3>1, <3>3 DEF Beat, Awaited
  <2> QED BY <2>1, <2>2, Zenon
<1>3. ASSUME NEW k \in Nodes, Stops(k)
      PROVE  IF up'[n] THEN Beat(n)' ELSE lost'[n] = 0
  <2>1. CASE k # n
    BY <1>1, <1>3, <1>a, <2>1, Zenon DEF Stops, clockVars, tableVars
  <2>2. CASE k = n
    BY <1>3, <1>a, <2>2, Zenon DEF Stops
  <2> QED BY <2>1, <2>2, Zenon
<1>4. ASSUME NEW k \in Nodes, OnAnnounce(k)
      PROVE  IF up'[n] THEN Beat(n)' ELSE lost'[n] = 0
  <2>1. UNCHANGED <<up, boot, lost, upFor, peers_>>
    BY <1>4, Zenon DEF OnAnnounce, clockVars, tableVars
  <2>2. PICK m : /\ wire' = wire \cup {m} /\ m.id = Id(k) /\ ~ m.heard
    <3> DEFINE sent == [id |-> Id(k), free |-> Announced(k), heard |-> FALSE, late |-> FALSE]
    <3>1. wire' = wire \cup {sent} /\ sent.id = Id(k) /\ ~ sent.heard
      BY <1>4, Zenon DEF OnAnnounce
    <3> QED BY <3>1, Zenon
  <2>3. "announce" \in due[k] /\ due' = [due EXCEPT ![k] = @ \ {"announce"}]
    BY <1>4, Zenon DEF OnAnnounce
  <2>4. Awaited(n)' <=> Awaited(n)
    BY <1>a, <2>1, <2>2, <2>3 DEF Awaited, Id
  <2> QED BY <1>c, <2>1, <2>4, BeatStays, Zenon DEF Id
<1>5. ASSUME NEW m \in wire, OnRecv(m)
      PROVE  IF up'[n] THEN Beat(n)' ELSE lost'[n] = 0
  <2>1. UNCHANGED <<up, boot, upFor, due>>
    BY <1>5, Zenon DEF OnRecv, daemonVars, clockVars
  <2>2. CASE m.id = Id(n)
    <3>1. lost'[n] = 0
      BY <1>5, <1>a, <1>d, <2>2, Zenon DEF OnRecv
    <3> QED BY <1>5, <2>1, <2>2, <3>1, HeardEntry DEF Beat, Id
  <2>3. CASE m.id # Id(n)
    <3>1. lost'[n] = lost[n]
      BY <1>5, <1>a, <1>d, <2>3, Zenon DEF OnRecv
    <3>2. up[n] => peers_'[Id(n)] = peers_[Id(n)]
      BY <1>5, <1>d, <2>3, HeardEntry, Zenon
    <3>3. Heard(m).id = m.id /\ wire' = (wire \ {m}) \cup {Heard(m)}
      BY <1>5, <1>a, WireType, Zenon DEF OnRecv
    <3>4. Awaited(n)' <=> Awaited(n)
      BY <2>1, <2>3, <3>3, Zenon DEF Awaited, Id
    <3> QED BY <1>c, <2>1, <3>1, <3>2, <3>4, BeatStays, Zenon DEF Id
  <2> QED BY <2>2, <2>3, Zenon
<1>6. ASSUME NEW m \in wire, Lose(m)
      PROVE  IF up'[n] THEN Beat(n)' ELSE lost'[n] = 0
  <2>1. /\ UNCHANGED <<up, boot, upFor, due, peers_>> /\ wire' = wire \ {m}
        /\ ~ m.heard
    BY <1>6, Zenon DEF Lose, daemonVars, clockVars, tableVars
  <2>2. CASE m.id = Id(n)
    <3>1. lost'[n] = IF up[n] THEN lost[n] + 1 ELSE 0
      BY <1>6, <1>a, <1>d, <2>2, Zenon DEF Lose
    <3>2. Awaited(n)
      BY <2>1, <2>2, Zenon DEF Awaited
    <3>3. up[n] /\ peers_[Id(n)] # None => peers_[Id(n)].age \in Nat
      BY <1>a, <1>d DEF Entries
    <3> QED BY <1>c, <1>e, <2>1, <3>1, <3>2, <3>3 DEF Beat, Id
  <2>3. CASE m.id # Id(n)
    <3>1. lost'[n] = lost[n]
      BY <1>6, <1>a, <1>d, <2>3, Zenon DEF Lose
    <3>2. Awaited(n)' <=> Awaited(n)
      BY <2>1, <2>3, Zenon DEF Awaited, Id
    <3> QED BY <1>c, <2>1, <3>1, <3>2, BeatStays, Zenon DEF Id
  <2> QED BY <2>2, <2>3, Zenon
<1>7. CASE OnWatcherTick
  <2>1. /\ UNCHANGED <<up, boot, lost, upFor, due, wire>>
        /\ \A i \in Ids : peers_'[i] = tick(peers_[i])
    BY <1>7, Zenon DEF OnWatcherTick, daemonVars, clockVars, netVars
  <2>2. Id(n)' = Id(n) /\ (Awaited(n)' <=> Awaited(n))
    BY <2>1, Zenon DEF Id, Awaited
  <2>3. CASE ~ up[n]
    BY <1>c, <2>1, <2>3, Zenon
  <2>4. CASE up[n] /\ peers_[Id(n)] = None
    <3>1. peers_'[Id(n)] = None
      BY <1>d, <2>1, <2>4, Zenon DEF tick
    <3> QED BY <1>c, <2>1, <2>2, <2>4, <3>1, BeatStays, Zenon
  <2>5. CASE up[n] /\ peers_[Id(n)] # None
    <3>1. peers_[Id(n)] \in Entries /\ peers_[Id(n)].age \in Nat
      BY <1>a, <1>d, <2>5 DEF Entries
    <3>2. peers_[Id(n)].age <= lost[n] + 1
      BY <1>c, <1>e, <2>5, <3>1 DEF Beat
    <3>3. peers_[Id(n)].age <= 3 * Ttl
      BY <1>b, <1>e, <3>1, <3>2
    <3>4. peers_'[Id(n)] # None /\ peers_'[Id(n)].age = peers_[Id(n)].age
      BY <1>d, <2>1, <2>5, <3>1, <3>3, TickFacts, Zenon
    <3> QED BY <1>c, <2>1, <2>2, <2>5, <3>4, Zenon DEF Beat
  <2> QED BY <2>3, <2>4, <2>5, Zenon
<1>8. CASE Second
  <2>1. /\ UNCHANGED <<up, boot, lost>>
        /\ ~ Awaited(n)
        /\ upFor'[n] = IF up[n] THEN UpTo(Enough, upFor[n]) ELSE 0
        /\ up[n] => "announce" \in due'[n]
    BY <1>8, Zenon DEF Second, daemonVars, Awaited
  <2>2. \A i \in Ids : peers_'[i] = IF peers_[i] = None THEN None ELSE Aged(peers_[i])
    BY <1>8, Zenon DEF Second
  <2>3. CASE ~ up[n]
    BY <1>c, <2>1, <2>3, Zenon
  <2>4. CASE up[n]
    <3>1. Id(n)' = Id(n) /\ Awaited(n)' /\ Id(n) \in Ids
      BY <1>d, <2>1, <2>4, Zenon DEF Id, Awaited
    <3>2. upFor'[n] \in Nat /\ upFor'[n] <= upFor[n] + 1
      BY <1>a, <1>b, <2>1, <2>4, UpToType, SMTT(30)
    <3>3. CASE peers_[Id(n)] = None
      BY <1>c, <1>e, <2>1, <2>2, <2>4, <3>1, <3>2, <3>3 DEF Beat
    <3>4. CASE peers_[Id(n)] # None
      <4>1. /\ peers_[Id(n)] \in Entries
            /\ peers_'[Id(n)] = Aged(peers_[Id(n)])
        BY <1>a, <2>2, <3>1, <3>4, Zenon
      <4>2. /\ peers_'[Id(n)] # None /\ peers_[Id(n)].age \in Nat
            /\ peers_'[Id(n)].age \in {peers_[Id(n)].age, peers_[Id(n)].age + 1}
        BY <4>1, AgedType, DiscoveryAssumption, Zenon
      <4>3. peers_[Id(n)].age <= lost[n]
        BY <1>c, <1>e, <2>1, <2>4, <3>4, <4>2 DEF Beat
      <4>4. peers_'[Id(n)].age <= lost[n] + 1
        BY <1>e, <4>2, <4>3, SMTT(30)
      <4>5. peers_'[Id(n)'] = peers_'[Id(n)] /\ lost'[n] = lost[n] /\ up'[n]
        BY <2>1, <2>4, <3>1, Zenon
      <4> QED BY <3>1, <4>2, <4>4, <4>5, Zenon DEF Beat
    <3> QED BY <2>1, <2>4, <3>3, <3>4, Zenon
  <2> QED BY <2>3, <2>4, Zenon
<1>9. ASSUME NEW k \in Nodes, Node(k), ~ run(k), ~ Stops(k), ~ OnAnnounce(k)
      PROVE  IF up'[n] THEN Beat(n)' ELSE lost'[n] = 0
  <2>1. UNCHANGED <<up, boot, lost, upFor, peers_, wire>>
    BY <1>9, Zenon
    DEF Node, join_pool, leave_pool, OnTick, OnProbe, PoolChanges, MemorydStops,
        MemorydStarts, MemorydWedges, daemonVars, clockVars, netVars, tableVars
  <2>2. "announce" \in due'[n] <=> "announce" \in due[n]
    BY <1>9, <1>a, SMTT(30)
    DEF Node, join_pool, leave_pool, OnTick, OnProbe, PoolChanges, MemorydStops,
        MemorydStarts, MemorydWedges
  <2> QED BY <1>1, <2>1, <2>2, Zenon
<1> QED
  BY <1>1, <1>2, <1>3, <1>4, <1>5, <1>6, <1>7, <1>8, <1>9, Zenon
  DEF Next, connect_to_peers, vars, daemonVars, clockVars, netVars, tableVars

(* A node that keeps announcing stays in the table, and active, whatever   *)
(* MaxLost < Ttl allows the network to lose, repeat and reorder: once it   *)
(* has been up longer than announcements can be lost in a row.             *)
THEOREM LivingNodesStay == Spec => []LivingStay
<1>1. CASE MaxLost < Ttl
  <2>1. Init => Typed /\ Timely /\ Beating
    <3>1. Init => Typed
      BY DiscoveryAssumption, Bounds DEF Init, TypeOK, Started, Typed, Figures
    <3>2. Init => Timely /\ Beating
      BY DiscoveryAssumption, Bounds DEF Init, Started, Timely, Beating, FreshIds, Ids
    <3> QED BY <3>1, <3>2, Zenon
  <2>2. Typed /\ Timely /\ Beating => LivingStay
    <3> SUFFICES ASSUME Typed, Timely, Beating, NEW n \in Nodes, up[n], MaxLost < upFor[n]
                 PROVE  peers_[Id(n)] # None /\ peers_[Id(n)].state = "ACTIVE"
      BY DiscoveryAssumption, Zenon DEF LivingStay, Typed, TypeOK
    <3>1. lost[n] \in 0 .. MaxLost /\ upFor[n] \in Nat /\ MaxLost \in Nat /\ Ttl \in Nat
      BY DiscoveryAssumption, Bounds DEF Typed, TypeOK
    <3>2. Id(n) \in Ids
      BY RunningId, Zenon
    <3>3. Beat(n)
      BY Zenon DEF Beating
    <3>4. peers_[Id(n)] # None
      BY <3>1, <3>3, SMTT(30) DEF Beat
    <3>5. peers_[Id(n)] \in Entries
      BY <3>2, <3>4, Zenon DEF Typed, TypeOK
    <3>6. peers_[Id(n)].age \in Nat /\ peers_[Id(n)].state \in {"ACTIVE", "STALE"}
      BY <3>5 DEF Entries
    <3>7. peers_[Id(n)].age <= Ttl
      BY <1>1, <3>1, <3>3, <3>4, <3>6 DEF Beat
    <3>8. peers_[Id(n)].state = "STALE" => peers_[Id(n)].age > Ttl
      BY <3>2, <3>4, Zenon DEF Timely
    <3>9. peers_[Id(n)].state # "STALE"
      BY <3>1, <3>6, <3>7, <3>8, Exceeds, Zenon
    <3> QED BY <3>4, <3>6, <3>9, Zenon
  <2> QED BY <1>1, <2>1, <2>2, TypeStep, TimelyStep, BeatingStep, PTL DEF Spec
<1>2. CASE ~ (MaxLost < Ttl)
  <2>1. LivingStay
    BY <1>2, Zenon DEF LivingStay
  <2> QED BY <2>1, PTL
<1> QED BY <1>1, <1>2, Zenon

-----------------------------------------------------------------------------
(* A node that left.  What it said before it left may still be repeated in *)
(* the second after, and is as old in the table as the node is gone.       *)
Leaving ==
  \A n \in Nodes :
    /\ pool_joined_[n] => leftFor[n] = 0
    /\ up[n] /\ ~ pool_joined_[n] =>
         /\ \A m \in wire : m.id = Id(n) /\ m.free # 0 => leftFor[n] <= IF m.late THEN 1 ELSE 0
         /\ peers_[Id(n)] # None /\ peers_[Id(n)].free # 0
              => leftFor[n] <= peers_[Id(n)].age + 1

LEMMA LeavingStep ==
  ASSUME Typed, Timely, Leaving, [Next]_vars
  PROVE  Leaving'
<1> DEFINE Gone(n) ==
         /\ pool_joined_[n] => leftFor[n] = 0
         /\ up[n] /\ ~ pool_joined_[n] =>
              /\ \A m \in wire : m.id = Id(n) /\ m.free # 0
                              => leftFor[n] <= IF m.late THEN 1 ELSE 0
              /\ peers_[Id(n)] # None /\ peers_[Id(n)].free # 0
                   => leftFor[n] <= peers_[Id(n)].age + 1
<1> SUFFICES ASSUME NEW n \in Nodes
             PROVE  Gone(n)'
  BY Zenon DEF Leaving
<1>a. /\ peers_ \in [Ids -> Entries \cup {None}] /\ wire \subseteq Announcements
      /\ up \in [Nodes -> BOOLEAN] /\ pool_joined_ \in [Nodes -> BOOLEAN]
      /\ boot \in [Nodes -> 0 .. MaxBoots] /\ leftFor \in [Nodes -> 0 .. Enough]
  BY Zenon DEF Typed, TypeOK
<1>b. Ttl \in Nat /\ Enough \in Nat /\ MaxAge = 3 * Ttl + 2
  BY DiscoveryAssumption, Bounds, Zenon DEF MaxAge
<1>c. Gone(n)
  BY Zenon DEF Leaving
<1>d. /\ \A m \in wire : m \in Announcements /\ m.id \in Ids
      /\ up[n] => Id(n) \in Ids
  BY <1>a, RunningId, Zenon DEF Announcements
<1>e. leftFor[n] \in Nat
  BY <1>a, <1>b, SMTT(30)
<1>1. CASE /\ up'[n] = up[n] /\ boot'[n] = boot[n] /\ pool_joined_'[n] = pool_joined_[n]
           /\ leftFor'[n] = leftFor[n] /\ UNCHANGED peers_ /\ wire' \subseteq wire
  BY <1>1, <1>c, Zenon DEF Id
<1>2. ASSUME NEW k \in Nodes, run(k) \/ Stops(k) \/ join_pool(k)
      PROVE  Gone(n)'
  <2>1. CASE k # n
    <3>1. CASE run(k)
      BY <1>1, <1>a, <2>1, <3>1, Zenon DEF run, netVars, tableVars, clockVars
    <3>2. CASE Stops(k)
      BY <1>1, <1>a, <2>1, <3>2, Zenon DEF Stops, netVars, tableVars, clockVars
    <3>3. CASE join_pool(k)
      BY <1>1, <1>a, <2>1, <3>3, Zenon DEF join_pool, netVars, tableVars, clockVars
    <3> QED BY <1>2, <3>1, <3>2, <3>3, Zenon
  <2>2. CASE k = n
    <3>1. \/ pool_joined_'[n] /\ leftFor'[n] = 0
          \/ /\ ~ up'[n] /\ pool_joined_'[n] = pool_joined_[n]
             /\ leftFor'[n] = leftFor[n]
      BY <1>2, <1>a, <2>2, Zenon DEF run, Stops, join_pool, clockVars
    <3> QED BY <1>c, <3>1, Zenon
  <2> QED BY <2>1, <2>2, Zenon
<1>3. ASSUME NEW k \in Nodes, leave_pool(k)
      PROVE  Gone(n)'
  <2>1. CASE k # n
    BY <1>1, <1>3, <1>a, <2>1, Zenon DEF leave_pool, netVars, tableVars, clockVars
  <2>2. CASE k = n
    <3>1. /\ UNCHANGED <<peers_, wire, boot>> /\ up[n]
          /\ ~ pool_joined_'[n] /\ leftFor'[n] = 0
      BY <1>3, <1>a, <1>c, <2>2, Zenon DEF leave_pool, netVars, tableVars, clockVars
    <3>2. peers_[Id(n)] # None => peers_[Id(n)].age \in Nat
      BY <1>a, <1>d, <3>1, SMTT(30) DEF Entries
    <3>3. Id(n)' = Id(n)
      BY <3>1, Zenon DEF Id
    <3>4. \A m \in wire : 0 <= IF m.late THEN 1 ELSE 0
      OBVIOUS
    <3>5. peers_[Id(n)] # None => 0 <= peers_[Id(n)].age + 1
      BY <3>2
    <3> QED BY <3>1, <3>3, <3>4, <3>5, Zenon
  <2> QED BY <2>1, <2>2, Zenon
<1>4. ASSUME NEW k \in Nodes, OnAnnounce(k)
      PROVE  Gone(n)'
  <2>1. UNCHANGED <<up, boot, pool_joined_, leftFor, peers_>>
    BY <1>4, Zenon DEF OnAnnounce, clockVars, tableVars
  <2>2. PICK x : wire' = wire \cup {x} /\ x.id = Id(k) /\ x.free = Announced(k)
    <3> DEFINE sent == [id |-> Id(k), free |-> Announced(k), heard |-> FALSE, late |-> FALSE]
    <3>1. wire' = wire \cup {sent} /\ sent.id = Id(k) /\ sent.free = Announced(k)
      BY <1>4, Zenon DEF OnAnnounce
    <3> QED BY <3>1, Zenon
  <2>3. Id(k) = Id(n) /\ ~ pool_joined_[n] => Announced(k) = 0
    BY Zenon DEF Id, Announced
  <2> QED BY <1>c, <2>1, <2>2, <2>3, Zenon DEF Id
<1>5. ASSUME NEW m \in wire, OnRecv(m)
      PROVE  Gone(n)'
  <2>1. UNCHANGED <<up, boot, pool_joined_, leftFor>>
    BY <1>5, Zenon DEF OnRecv, daemonVars, clockVars
  <2>2. \A x \in wire' : \E y \in wire : x.id = y.id /\ x.free = y.free /\ x.late = y.late
    <3>1. Heard(m).id = m.id /\ Heard(m).free = m.free /\ Heard(m).late = m.late
      BY <1>d, WireType, Zenon
    <3> QED BY <1>5, <3>1, Zenon DEF OnRecv
  <2>3. up[n] /\ ~ pool_joined_[n] /\ peers_'[Id(n)] # None /\ peers_'[Id(n)].free # 0
          => leftFor[n] <= peers_'[Id(n)].age + 1
    <3>1. CASE m.id = Id(n)
      <4>1. peers_'[Id(n)].age = 0 /\ peers_'[Id(n)].free = m.free
        BY <1>5, <3>1, HeardEntry, Zenon
      <4>2. up[n] /\ ~ pool_joined_[n] /\ m.free # 0 => leftFor[n] <= 1
        BY <1>c, <1>e, <3>1
      <4> QED BY <4>1, <4>2
    <3>2. CASE m.id # Id(n)
      BY <1>5, <1>c, <1>d, <3>2, HeardEntry, Zenon
    <3> QED BY <3>1, <3>2, Zenon
  <2>4. up[n] /\ ~ pool_joined_[n] =>
          \A x \in wire' : x.id = Id(n) /\ x.free # 0
                           => leftFor[n] <= IF x.late THEN 1 ELSE 0
    BY <1>c, <2>2, Zenon
  <2> QED BY <1>c, <2>1, <2>3, <2>4, Zenon DEF Id
<1>6. CASE OnWatcherTick
  <2>1. /\ UNCHANGED <<up, boot, pool_joined_, leftFor, wire>>
        /\ \A i \in Ids : peers_'[i] = tick(peers_[i])
    BY <1>6, Zenon DEF OnWatcherTick, daemonVars, clockVars, netVars
  <2>2. tick(None) = None
    BY Zenon DEF tick
  <2>3. up[n] /\ peers_'[Id(n)] # None
          => /\ peers_[Id(n)] # None
             /\ peers_'[Id(n)].age = peers_[Id(n)].age
             /\ peers_'[Id(n)].free = peers_[Id(n)].free
    <3> SUFFICES ASSUME up[n], peers_'[Id(n)] # None
                 PROVE  /\ peers_[Id(n)] # None
                        /\ peers_'[Id(n)].age = peers_[Id(n)].age
                        /\ peers_'[Id(n)].free = peers_[Id(n)].free
      BY Zenon
    <3>1. peers_'[Id(n)] = tick(peers_[Id(n)])
      BY <1>a, <1>d, <2>1, Zenon
    <3>2. peers_[Id(n)] # None /\ peers_[Id(n)] \in Entries
      BY <1>a, <1>d, <2>2, <3>1, Zenon
    <3> QED BY <3>1, <3>2, TickFacts, Zenon
  <2>4. Id(n)' = Id(n)
    BY <2>1, Zenon DEF Id
  <2> QED BY <1>c, <2>1, <2>3, <2>4, Zenon
<1>7. CASE Second
  <2>1. /\ UNCHANGED <<up, boot, pool_joined_>> /\ ~ tickDue
        /\ leftFor'[n] = IF pool_joined_[n] THEN 0 ELSE UpTo(Enough, leftFor[n])
    BY <1>7, Zenon DEF Second, daemonVars
  <2>2. ~ pool_joined_[n] => leftFor'[n] \in Nat /\ leftFor'[n] <= leftFor[n] + 1
    BY <1>a, <1>b, <2>1, UpToType
  <2>3. \A x \in wire' : x.late /\ \E y \in wire : x.id = y.id /\ x.free = y.free /\ ~ y.late
    <3>1. \A y \in wire : Late(y).late /\ Late(y).id = y.id /\ Late(y).free = y.free
      BY <1>d, WireType, Zenon
    <3>2. \A x \in wire' : \E y \in wire : x = Late(y) /\ ~ y.late
      BY <1>7, Zenon DEF Second
    <3> QED BY <3>1, <3>2, Zenon
  <2>4. up[n] /\ ~ pool_joined_[n] =>
          \A x \in wire' : x.id = Id(n) /\ x.free # 0 => leftFor'[n] <= 1
    BY <1>c, <1>e, <2>2, <2>3, SMTT(30)
  <2>5. up[n] /\ ~ pool_joined_[n] /\ peers_'[Id(n)] # None /\ peers_'[Id(n)].free # 0
          => leftFor'[n] <= peers_'[Id(n)].age + 1
    <3> SUFFICES ASSUME up[n], ~ pool_joined_[n], peers_'[Id(n)] # None,
                        peers_'[Id(n)].free # 0
                 PROVE  leftFor'[n] <= peers_'[Id(n)].age + 1
      BY Zenon
    <3>1. /\ peers_[Id(n)] # None /\ peers_[Id(n)] \in Entries
          /\ peers_'[Id(n)] = Aged(peers_[Id(n)])
      BY <1>7, <1>a, <1>d, Zenon DEF Second
    <3>2. /\ peers_[Id(n)].age \in Nat
          /\ peers_'[Id(n)].age = (IF peers_[Id(n)].age < MaxAge THEN peers_[Id(n)].age + 1
                                    ELSE peers_[Id(n)].age)
          /\ peers_'[Id(n)].free = peers_[Id(n)].free
      BY <3>1, AgedType, Zenon
    <3>3. peers_[Id(n)].age <= 3 * Ttl
      <4>1. peers_[Id(n)].age <= 3 * Ttl + Grace
        BY <1>a, <1>d, <3>1, Zenon DEF Timely
      <4>2. Grace = 0 /\ Ttl \in Nat
        BY <2>1, DiscoveryAssumption, Zenon DEF Grace
      <4> QED BY <3>2, <4>1, <4>2
    <3>4. leftFor[n] <= peers_[Id(n)].age + 1
      BY <1>c, <3>1, <3>2, Zenon
    <3>5. peers_'[Id(n)].age = peers_[Id(n)].age + 1
      BY <1>b, <3>2, <3>3
    <3> QED BY <1>e, <2>2, <3>2, <3>4, <3>5, SMTT(30)
  <2>6. pool_joined_[n] => leftFor'[n] = 0
    BY <2>1, Zenon
  <2> QED BY <2>1, <2>3, <2>4, <2>5, <2>6, Zenon DEF Id
<1>8. ASSUME NEW k \in Nodes, Node(k), ~ run(k), ~ Stops(k), ~ join_pool(k),
             ~ leave_pool(k), ~ OnAnnounce(k)
      PROVE  UNCHANGED <<up, boot, pool_joined_, leftFor, peers_, wire>>
  BY <1>8, Zenon
  DEF Node, OnTick, OnProbe, PoolChanges, MemorydStops, MemorydStarts, MemorydWedges,
      daemonVars, clockVars, netVars, tableVars
<1> QED
  BY <1>1, <1>2, <1>3, <1>4, <1>5, <1>6, <1>7, <1>8, Zenon
  DEF Next, Lose, connect_to_peers, vars, daemonVars, clockVars, netVars, tableVars

(* Announcer::on_timer: two seconds after a node left the pool, nothing    *)
(* that the watcher still hears of it offers memory.                       *)
THEOREM LeaversOfferNothing == Spec => []LeaverOffersNothing
<1>1. Init => Typed /\ Timely /\ Leaving
  <2>1. Init => Typed
    BY DiscoveryAssumption, Bounds DEF Init, TypeOK, Started, Typed, Figures
  <2>2. Init => Timely /\ Leaving
    BY DEF Init, Started, Timely, Leaving
  <2> QED BY <2>1, <2>2, Zenon
<1>2. Typed /\ Leaving => LeaverOffersNothing
  <2> SUFFICES ASSUME Typed, Leaving, NEW n \in Nodes, up[n], ~ pool_joined_[n],
                      peers_[Id(n)] # None, peers_[Id(n)].age + 2 <= leftFor[n]
               PROVE  peers_[Id(n)].free = 0
    BY Zenon DEF LeaverOffersNothing
  <2>1. peers_[Id(n)] \in Entries
    BY RunningId, Zenon DEF Typed, TypeOK
  <2>2. peers_[Id(n)].age \in Nat /\ leftFor[n] \in Nat
    BY <2>1, Bounds DEF Entries, Typed, TypeOK
  <2>3. peers_[Id(n)].free # 0 => leftFor[n] <= peers_[Id(n)].age + 1
    BY Zenon DEF Leaving
  <2> QED BY <2>2, <2>3
<1> QED BY <1>1, <1>2, TypeStep, TimelyStep, LeavingStep, PTL DEF Spec

-----------------------------------------------------------------------------
(* The figure a node announces.  The probe learns within a second that     *)
(* memoryd runs, the tick takes the pool's figure in the next, and the     *)
(* announcement carries it in the one after: in between the second may     *)
(* have begun and the timer not have fired.                                *)
Follows(ok, n, seconds, timer) ==
  \/ ok
  \/ memorydFor[n] < seconds
  \/ memorydFor[n] = seconds /\ timer \in due[n]

Offering ==
  \A n \in Nodes :
    /\ probing[n] => memoryd[n] = "wedged"
    /\ up[n] /\ memoryd[n] = "up" =>
         /\ Follows(available_[n], n, 1, "probe")
         /\ Follows(free_ram_[n] # OsFree, n, 2, "tick")
         /\ Follows(said[n] # OsFree, n, 3, "announce")

LEMMA OfferingStep ==
  ASSUME Typed, Offering, [Next]_vars
  PROVE  Offering'
<1> DEFINE Told(n) ==
         /\ Follows(available_[n], n, 1, "probe")
         /\ Follows(free_ram_[n] # OsFree, n, 2, "tick")
         /\ Follows(said[n] # OsFree, n, 3, "announce")
<1> DEFINE Sound(n) ==
         /\ probing[n] => memoryd[n] = "wedged"
         /\ up[n] /\ memoryd[n] = "up" => Told(n)
<1> SUFFICES ASSUME NEW n \in Nodes
             PROVE  Sound(n)'
  BY Zenon DEF Offering
<1>a. /\ up \in [Nodes -> BOOLEAN] /\ probing \in [Nodes -> BOOLEAN]
      /\ available_ \in [Nodes -> BOOLEAN] /\ free_bytes_ \in [Nodes -> Free \cup {0}]
      /\ free_ram_ \in [Nodes -> Figures] /\ said \in [Nodes -> Figures \cup {None}]
      /\ memoryd \in [Nodes -> {"up", "down", "wedged"}]
      /\ memorydFor \in [Nodes -> 0 .. Enough]
      /\ due \in [Nodes -> SUBSET {"announce", "tick", "probe"}]
  BY Zenon DEF Typed, TypeOK
<1>b. Enough \in Nat /\ 4 <= Enough /\ memorydFor[n] \in 0 .. Enough
  BY <1>a, Bounds, Zenon
<1>c. Sound(n)
  BY Zenon DEF Offering
<1>d. OsFree # 0 /\ OsFree # None /\ OsFree \notin Free
  BY DiscoveryAssumption, Zenon DEF Figures
<1> DEFINE Same ==
         /\ up'[n] = up[n] /\ memoryd'[n] = memoryd[n] /\ probing'[n] = probing[n]
         /\ available_'[n] = available_[n] /\ free_ram_'[n] = free_ram_[n]
         /\ said'[n] = said[n] /\ memorydFor'[n] = memorydFor[n] /\ due'[n] = due[n]
<1>1. CASE Same
  BY <1>1, <1>c, Zenon DEF Follows
<1>2. ASSUME NEW k \in Nodes, Node(k), k # n
      PROVE  Sound(n)'
  <2>1. Same
    <3>1. CASE run(k)
      BY <1>2, <1>a, <3>1, Zenon DEF run, Answered, poolVars, clockVars
    <3>2. CASE Stops(k)
      BY <1>2, <1>a, <3>2, Zenon DEF Stops, probeVars, poolVars, clockVars
    <3>3. CASE join_pool(k) \/ leave_pool(k) \/ PoolChanges(k)
      BY <1>2, <3>3, Zenon DEF join_pool, leave_pool, PoolChanges, daemonVars, probeVars,
                               poolVars, clockVars
    <3>4. CASE OnAnnounce(k)
      BY <1>2, <1>a, <3>4, Zenon DEF OnAnnounce, probeVars, poolVars, clockVars
    <3>5. CASE OnTick(k)
      BY <1>2, <1>a, <3>5, Zenon DEF OnTick, probeVars, poolVars, clockVars
    <3>6. CASE OnProbe(k)
      BY <1>2, <1>a, <3>6, Zenon DEF OnProbe, Answered, daemonVars, poolVars, clockVars
    <3>7. CASE MemorydStops(k) \/ MemorydStarts(k) \/ MemorydWedges(k)
      BY <1>2, <1>a, <3>7, Zenon DEF MemorydStops, MemorydStarts, MemorydWedges, daemonVars,
                                     probeVars, poolVars, clockVars
    <3> QED BY <1>2, <3>1, <3>2, <3>3, <3>4, <3>5, <3>6, <3>7, Zenon DEF Node
  <2> QED BY <1>1, <2>1, Zenon
<1>3. CASE run(n)
  <2>1. /\ memoryd'[n] = memoryd[n] /\ probing'[n] = probing[n]
        /\ free_ram_'[n] = 0 /\ said'[n] = None
    BY <1>3, <1>a, Zenon DEF run, poolVars
  <2>2. memoryd[n] = "up" => available_'[n]
    BY <1>3, <1>a, Zenon DEF run, Answered
  <2> QED BY <1>c, <1>d, <2>1, <2>2, Zenon DEF Follows
<1>4. CASE Stops(n)
  BY <1>4, <1>a, Zenon DEF Stops
<1>5. CASE OnAnnounce(n)
  <2>1. /\ up'[n] = up[n] /\ memoryd'[n] = memoryd[n] /\ probing'[n] = probing[n]
        /\ available_'[n] = available_[n] /\ free_ram_'[n] = free_ram_[n]
        /\ memorydFor'[n] = memorydFor[n] /\ due'[n] = due[n] \ {"announce"}
        /\ said'[n] = Announced(n)
    BY <1>5, <1>a, Zenon DEF OnAnnounce, probeVars, poolVars, clockVars
  <2>2. said'[n] = OsFree => free_ram_[n] = OsFree
    BY <1>d, <2>1, Zenon DEF Announced
  <2>3. memorydFor[n] < 2 \/ memorydFor[n] = 2 => memorydFor[n] < 3
    BY <1>b
  <2>4. /\ "probe" \in due[n] => "probe" \in due'[n]
        /\ "tick" \in due[n] => "tick" \in due'[n]
    BY <2>1, Zenon
  <2> QED BY <1>c, <2>1, <2>2, <2>3, <2>4, Zenon DEF Follows
<1>6. CASE OnTick(n)
  <2>1. /\ up'[n] = up[n] /\ memoryd'[n] = memoryd[n] /\ probing'[n] = probing[n]
        /\ available_'[n] = available_[n] /\ said'[n] = said[n]
        /\ memorydFor'[n] = memorydFor[n] /\ due'[n] = due[n] \ {"tick"}
        /\ free_ram_'[n] = current_free_ram(n)
    BY <1>6, <1>a, Zenon DEF OnTick, probeVars, poolVars, clockVars
  <2>2. free_ram_'[n] = OsFree => ~ available_[n]
    <3>1. free_bytes_[n] # OsFree
      BY <1>a, <1>d
    <3> QED BY <2>1, <3>1, Zenon DEF current_free_ram
  <2>3. memorydFor[n] < 1 \/ memorydFor[n] = 1 => memorydFor[n] < 2
    BY <1>b
  <2>4. /\ "probe" \in due[n] => "probe" \in due'[n]
        /\ "announce" \in due[n] => "announce" \in due'[n]
    BY <2>1, Zenon
  <2> QED BY <1>c, <2>1, <2>2, <2>3, <2>4, Zenon DEF Follows
<1>7. CASE OnProbe(n)
  <2>1. /\ up'[n] = up[n] /\ memoryd'[n] = memoryd[n] /\ said'[n] = said[n]
        /\ free_ram_'[n] = free_ram_[n] /\ memorydFor'[n] = memorydFor[n]
        /\ due'[n] = due[n] \ {"probe"}
    BY <1>7, <1>a, Zenon DEF OnProbe, daemonVars, poolVars, clockVars
  <2>2. /\ probing'[n] => probing[n] \/ memoryd[n] = "wedged"
        /\ memoryd[n] = "up" => available_'[n]
    BY <1>7, <1>a, Zenon DEF OnProbe, Answered
  <2> QED BY <1>c, <2>1, <2>2, Zenon DEF Follows
<1>8. CASE MemorydStops(n)
  BY <1>8, <1>a, Zenon DEF MemorydStops
<1>9. CASE MemorydStarts(n)
  <2>1. probing'[n] = probing[n] /\ memoryd[n] = "down" /\ memorydFor'[n] = 0
    BY <1>9, <1>a, Zenon DEF MemorydStarts, probeVars
  <2>2. memorydFor'[n] < 1 /\ memorydFor'[n] < 2 /\ memorydFor'[n] < 3
    BY <2>1
  <2> QED BY <1>c, <2>1, <2>2, Zenon DEF Follows
<1>10. CASE MemorydWedges(n)
  BY <1>10, <1>a, Zenon DEF MemorydWedges
<1>11. CASE join_pool(n) \/ leave_pool(n) \/ PoolChanges(n)
  <2>1. Same
    BY <1>11, Zenon
    DEF join_pool, leave_pool, PoolChanges, daemonVars, probeVars, poolVars, clockVars
  <2> QED BY <1>1, <2>1, Zenon
<1>12. CASE Second
  <2>1. /\ up'[n] = up[n] /\ memoryd'[n] = memoryd[n] /\ probing'[n] = probing[n]
        /\ available_'[n] = available_[n] /\ free_ram_'[n] = free_ram_[n]
        /\ said'[n] = said[n] /\ due[n] = {}
    BY <1>12, Zenon DEF Second, daemonVars, probeVars, poolVars
  <2>2. up[n] /\ ~ probing[n] => due'[n] = {"announce", "tick", "probe"}
    BY <1>12, Zenon DEF Second
  <2>3. memorydFor'[n] = IF memorydFor[n] < Enough THEN memorydFor[n] + 1 ELSE memorydFor[n]
    BY <1>12, Zenon DEF Second, UpTo
  <2>4. /\ memorydFor[n] < 1 => memorydFor'[n] < 1 \/ memorydFor'[n] = 1
        /\ memorydFor[n] < 2 => memorydFor'[n] < 2 \/ memorydFor'[n] = 2
        /\ memorydFor[n] < 3 => memorydFor'[n] < 3 \/ memorydFor'[n] = 3
    BY <1>b, <2>3
  <2>5. up[n] /\ ~ probing[n] =>
          "announce" \in due'[n] /\ "tick" \in due'[n] /\ "probe" \in due'[n]
    BY <2>2, Zenon
  <2> QED BY <1>c, <2>1, <2>4, <2>5, Zenon DEF Follows
<1>13. ASSUME NEW k \in Nodes, Node(k)
       PROVE  Sound(n)'
  BY <1>2, <1>3, <1>4, <1>5, <1>6, <1>7, <1>8, <1>9, <1>10, <1>11, <1>13, Zenon DEF Node
<1>14. CASE (\E m \in wire : OnRecv(m) \/ Lose(m)) \/ OnWatcherTick \/ connect_to_peers
            \/ UNCHANGED vars
  <2>1. Same
    BY <1>14, Zenon
    DEF OnRecv, Lose, OnWatcherTick, connect_to_peers, vars, daemonVars, probeVars,
        poolVars, clockVars
  <2> QED BY <1>1, <2>1, Zenon
<1> QED
  BY <1>12, <1>13, <1>14, Zenon DEF Next

(* PoolProbe and current_free_ram(): once memoryd has answered for four    *)
(* seconds the node announces what is left of its pool, and never what the *)
(* operating system has free.                                              *)
THEOREM OffersAreThePool == Spec => []OfferIsThePool
<1>1. Init => Typed /\ Offering
  BY DiscoveryAssumption, Bounds DEF Init, TypeOK, Started, Typed, Figures, Offering
<1>2. Typed /\ Offering => OfferIsThePool
  <2> SUFFICES ASSUME Typed, Offering, NEW n \in Nodes, up[n], memoryd[n] = "up",
                      memorydFor[n] >= 4
               PROVE  said[n] # OsFree
    BY Zenon DEF OfferIsThePool
  <2>1. memorydFor[n] \in Nat
    BY Bounds DEF Typed, TypeOK
  <2>2. Follows(said[n] # OsFree, n, 3, "announce")
    BY Zenon DEF Offering
  <2> QED BY <2>1, <2>2 DEF Follows
<1> QED BY <1>1, <1>2, TypeStep, OfferingStep, PTL DEF Spec
=============================================================================
