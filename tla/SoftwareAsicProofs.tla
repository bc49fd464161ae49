-------------------------- MODULE SoftwareAsicProofs --------------------------
(***************************************************************************)
(* Proofs about SoftwareAsic, for every set of ports, VLANs, frames, fault *)
(* configurations and every capacity: the tables stay consistent, queues   *)
(* stay within their capacity and the transmit counters are exact.         *)
(***************************************************************************)
EXTENDS SoftwareAsic, FiniteSetTheorems, WellFoundedInduction, TLAPS

\* The fault injector makes frames of frames.
LEMMA InjectedType ==
    ASSUME NEW f \in Frame, NEW verdict
    PROVE  Injected(verdict, f) \in Frame
<1>1. FlipGroupBit(f.dst) \in Nat
  BY DEF Frame, FlipGroupBit, IsMulticast
<1>2. QED
  BY <1>1 DEF Injected, Frame

\* A drop result is told from the result "nothing yet" by its disposition.
LEMMA DropIsSomething ==
    ASSUME NEW reason, NEW counter
    PROVE  Dropped(reason, counter) # Nothing
<1>1. Dropped(reason, counter).disposition = "dropped" /\ Nothing.disposition = "none"
  BY DEF Dropped, Nothing
<1>2. QED
  BY <1>1

\* The encapsulation makes a frame of a packet that can be routed.
LEMMA EncapsulatedType ==
    ASSUME TypeOK, NEW f \in Frame, NEW now, RouteDrop(f, now) = Nothing
    PROVE  Encapsulated(f) \in Frame
<1>1. f.ttl > 1 /\ Operational(Route(f.ip).port) /\ NextHop(f.ip) \in DOMAIN neighbors
  BY DropIsSomething DEF RouteDrop, Resolved, Frame
<1>2. PortMac[Route(f.ip).port] \in Nat /\ neighbors[NextHop(f.ip)].mac \in Nat
  BY <1>1, AsicAssumption DEF TypeOK, Operational
<1>3. f.ttl - 1 \in Nat
  BY <1>1 DEF Frame
<1>4. QED
  BY <1>2, <1>3 DEF Encapsulated, Frame, NoVlan

\* What removing one entry of a duplicate-free list leaves.
LEMMA WithoutEntry ==
    ASSUME NEW S, NEW s \in Seq(S), NEW p, NoDuplicates(s)
    PROVE  /\ Without(s, p) \in Seq(S)
           /\ NoDuplicates(Without(s, p))
           /\ \A j \in DOMAIN Without(s, p) :
                 Without(s, p)[j] # p /\ \E i \in DOMAIN s : Without(s, p)[j] = s[i]
<1>1. CASE ~InSeq(p, s)
  BY <1>1 DEF InSeq, Without
<1>2. CASE InSeq(p, s)
  <2> DEFINE k == CHOOSE k \in DOMAIN s : s[k] = p
             w == [j \in 1 .. Len(s) - 1 |-> IF j < k THEN s[j] ELSE s[j + 1]]
  <2>1. k \in 1 .. Len(s) /\ s[k] = p
    BY <1>2 DEF InSeq
  <2>2. Without(s, p) = w
    BY <1>2 DEF Without
  <2> HIDE DEF k
  <2>3. Len(s) - 1 \in Nat /\ \A j \in 1 .. Len(s) - 1 :
           w[j] = s[IF j < k THEN j ELSE j + 1] /\ (IF j < k THEN j ELSE j + 1) \in 1 .. Len(s)
    BY <2>1
  <2>4. w \in Seq(S) /\ DOMAIN w = 1 .. Len(s) - 1
    BY <2>3
  <2>5. NoDuplicates(w)
    BY <2>1, <2>3, <2>4 DEF NoDuplicates
  <2>6. \A j \in DOMAIN w : w[j] # p /\ \E i \in DOMAIN s : w[j] = s[i]
    BY <2>1, <2>3, <2>4 DEF NoDuplicates
  <2>7. QED
    BY <2>2, <2>4, <2>5, <2>6
<1>3. QED
  BY <1>1, <1>2

-----------------------------------------------------------------------------
(* The inductive invariant.  Consistency of the tables alone is not          *)
(* inductive: enqueueing keeps the configuration of a port only because it   *)
(* has its type, and the counters are exact only for ports that have a queue *)

IInv ==
    /\ TypeOK
    /\ TablesConsistent
    /\ WithinCapacity /\ IsFiniteSet(DOMAIN macs)
    /\ TransmittedIsQueued

\* A switch without ports and VLANs is consistent.
LEMMA InitIInv == Init => IInv
<1> SUFFICES ASSUME Init PROVE IInv
  OBVIOUS
<1>1. DOMAIN Empty = {}
  BY DEF Empty
<1>2. IsFiniteSet(DOMAIN macs) /\ Cardinality(DOMAIN macs) = 0
  BY <1>1, FS_EmptySet DEF Init
<1>3. members \in [Vlans -> Seq(PortIds)]
  BY DEF Init
<1>4. TypeOK
  BY <1>1, <1>3 DEF Init, TypeOK
<1>5. TablesConsistent
  BY <1>1 DEF Init, TablesConsistent, NoDuplicates
<1>6. WithinCapacity /\ TransmittedIsQueued
  BY <1>1, <1>2, AsicAssumption DEF Init, WithinCapacity, TransmittedIsQueued
<1>7. QED
  BY <1>2, <1>4, <1>5, <1>6 DEF IInv

\* Calls that create, remove or switch ports.
LEMMA PortStep ==
    ASSUME IInv, NEW p \in PortIds,
           \/ \E c \in PortConfigs : CreatePort(p, c)
           \/ RemovePort(p)
           \/ \E a, l \in BOOLEAN : SetPortState(p, a, l)
    PROVE  IInv'
<1> USE DEF IInv, TypeOK, TablesConsistent, WithinCapacity, TransmittedIsQueued,
            portVars, l2Vars, l3Vars, pktVars
<1>1. ASSUME NEW c \in PortConfigs, CreatePort(p, c) PROVE IInv'
  <2>1. /\ DOMAIN ports' = DOMAIN ports \cup {p} /\ p \notin DOMAIN ports
        /\ DOMAIN queues' = DOMAIN queues \cup {p} /\ DOMAIN taken' = DOMAIN taken \cup {p}
        /\ \A q \in DOMAIN ports : /\ ports'[q] = ports[q] /\ queues'[q] = queues[q]
                                   /\ taken'[q] = taken[q]
        /\ queues'[p] = <<>> /\ taken'[p] = 0
        /\ ports'[p] \in Port /\ ports'[p].transmitted = 0
    BY <1>1 DEF CreatePort, Put, Port
  <2>2. UNCHANGED <<vlans, members, routers, routes, neighbors, faults, macs,
                    processed, last, lastSeen>>
    BY <1>1 DEF CreatePort
  <2>3. TypeOK'
    <3>1. ASSUME NEW q \in DOMAIN queues' PROVE queues'[q] \in Seq(Frame)
      <4>1. CASE q = p
        BY <2>1, <4>1
      <4>2. CASE q # p
        BY <2>1, <3>1, <4>2
      <4>3. QED
        BY <4>1, <4>2
    <3>2. \A q \in DOMAIN ports' : ports'[q] \in Port
      BY <2>1
    <3>3. DOMAIN taken' = DOMAIN ports' /\ \A q \in DOMAIN taken' : taken'[q] \in Nat
      BY <2>1
    <3>4. QED
      BY <2>1, <2>2, <3>1, <3>2, <3>3
  <2>4. TablesConsistent'
    BY <2>1, <2>2
  <2>5. WithinCapacity' /\ TransmittedIsQueued'
    BY <2>1, <2>2, AsicAssumption
  <2>6. QED
    BY <2>2, <2>3, <2>4, <2>5
<1>2. ASSUME RemovePort(p) PROVE IInv'
  <2>1. /\ DOMAIN ports' = DOMAIN ports \ {p} /\ DOMAIN queues' = DOMAIN queues \ {p}
        /\ DOMAIN taken' = DOMAIN taken \ {p}
        /\ \A q \in DOMAIN ports' : /\ ports'[q] = ports[q] /\ queues'[q] = queues[q]
                                    /\ taken'[q] = taken[q]
    BY <1>2 DEF RemovePort, Remove
  <2>2. UNCHANGED <<vlans, routers, routes, neighbors, faults, macs, processed,
                    last, lastSeen>>
    BY <1>2 DEF RemovePort
  <2>3. \A v \in Vlans : /\ members'[v] = Without(members[v], p)
                         /\ members[v] \in Seq(PortIds) /\ NoDuplicates(members[v])
    BY <1>2 DEF RemovePort
  <2>4. \A v \in Vlans :
           /\ members'[v] \in Seq(PortIds) /\ NoDuplicates(members'[v])
           /\ \A j \in DOMAIN members'[v] :
                 members'[v][j] # p /\ \E k \in DOMAIN members[v] : members'[v][j] = members[v][k]
    BY <2>3, WithoutEntry
  <2>5. \A v \in Vlans : members[v] = <<>> => members'[v] = <<>>
    BY <2>3 DEF Without, InSeq
  <2>6. DOMAIN members' = Vlans /\ members' \in [Vlans -> Seq(PortIds)]
    BY <1>2, <2>4 DEF RemovePort
  <2>7. TypeOK'
    BY <2>1, <2>2, <2>6
  <2>8. TablesConsistent'
    <3>1. (DOMAIN queues = DOMAIN ports)'
      BY <2>1
    <3>2. ASSUME NEW v \in Vlans, NEW j \in DOMAIN members'[v]
          PROVE  members'[v][j] \in DOMAIN ports' /\ v \in ports'[members'[v][j]].config.allowed
      <4>1. PICK k \in DOMAIN members[v] : members'[v][j] = members[v][k]
        BY <2>4, <3>2
      <4>2. members[v][k] \in DOMAIN ports /\ v \in ports[members[v][k]].config.allowed
        BY <4>1
      <4>3. QED
        BY <2>1, <2>4, <3>2, <4>1, <4>2
    <3>3. QED
      BY <2>2, <2>4, <2>5, <3>1, <3>2
  <2>9. WithinCapacity' /\ TransmittedIsQueued'
    BY <2>1, <2>2
  <2>10. QED
    BY <2>2, <2>7, <2>8, <2>9
<1>3. ASSUME NEW a \in BOOLEAN, NEW l \in BOOLEAN, SetPortState(p, a, l) PROVE IInv'
  <2>1. /\ DOMAIN ports' = DOMAIN ports
        /\ \A q \in DOMAIN ports : /\ ports'[q] \in Port
                                   /\ ports'[q].config = ports[q].config
                                   /\ ports'[q].transmitted = ports[q].transmitted
    <3>1. /\ DOMAIN ports' = DOMAIN ports
          /\ ports'[p] = [ports[p] EXCEPT !.admin = a, !.link = l]
          /\ \A q \in DOMAIN ports \ {p} : ports'[q] = ports[q]
      BY <1>3 DEF SetPortState
    <3>2. ports[p] \in Port
      BY <1>3 DEF SetPortState
    <3>3. /\ ports'[p] \in Port /\ ports'[p].config = ports[p].config
          /\ ports'[p].transmitted = ports[p].transmitted
      BY <3>1, <3>2 DEF Port
    <3>4. QED
      BY <3>1, <3>3
  <2>2. UNCHANGED <<queues, taken, vlans, members, routers, routes, neighbors, faults,
                    macs, processed, last, lastSeen>>
    BY <1>3 DEF SetPortState
  <2>3. QED
    BY <2>1, <2>2
<1>4. QED
  BY <1>1, <1>2, <1>3

\* Calls that program VLANs, router interfaces, routes, neighbours and faults,
\* and packets that leave ports, queues and VLAN tables alone.
LEMMA TableStep ==
    ASSUME IInv, UNCHANGED <<ports, queues, taken>>,
           TablesConsistent', members' \in [Vlans -> Seq(PortIds)],
           vlans' \subseteq Vlans, DOMAIN routers' \subseteq Vlans,
           \A ip \in DOMAIN neighbors' : neighbors'[ip].mac \in Nat,
           processed' \in Nat, UNCHANGED <<macs, lastSeen>>
    PROVE  IInv'
BY DEF IInv, TypeOK, WithinCapacity, TransmittedIsQueued

\* The calls that change VLANs, members and router interfaces
LEMMA VlanStep ==
    ASSUME IInv, NEW v \in Vlans,
           \/ CreateVlan(v)
           \/ RemoveVlan(v)
           \/ \E p \in PortIds : AddVlanMember(v, p)
           \/ \E m \in RouterMacs : SetRouterInterface(v, m)
    PROVE  IInv'
<1> USE DEF IInv, TypeOK, TablesConsistent, portVars, l3Vars, pktVars
<1>1. CASE CreateVlan(v)
  BY <1>1, TableStep DEF CreateVlan
<1>2. CASE RemoveVlan(v)
  BY <1>2, TableStep DEF RemoveVlan
<1>3. ASSUME NEW p \in PortIds, AddVlanMember(v, p) PROVE IInv'
  <2> DEFINE old == members[v]
  <2>1. /\ v \in vlans /\ p \in DOMAIN ports /\ ~InSeq(p, old)
        /\ v \in ports[p].config.allowed
        /\ UNCHANGED <<ports, queues, taken, vlans, routers, neighbors, processed,
                       macs, lastSeen>>
    BY <1>3 DEF AddVlanMember
  <2>2. /\ members' \in [Vlans -> Seq(PortIds)]
        /\ members'[v] = Append(old, p)
        /\ \A w \in Vlans \ {v} : members'[w] = members[w]
    BY <1>3 DEF AddVlanMember
  <2>3. /\ old \in Seq(PortIds) /\ DOMAIN Append(old, p) = 1 .. Len(old) + 1
        /\ DOMAIN old = 1 .. Len(old) /\ Len(old) \in Nat
        /\ \A k \in 1 .. Len(old) : Append(old, p)[k] = old[k]
        /\ Append(old, p)[Len(old) + 1] = p
    OBVIOUS
  <2>4. NoDuplicates(Append(old, p))
    <3>1. NoDuplicates(old)
      OBVIOUS
    <3>2. \A k \in 1 .. Len(old) : old[k] # p
      BY <2>1, <2>3 DEF InSeq
    <3>3. QED
      BY <2>3, <3>1, <3>2 DEF NoDuplicates
  <2>5. \A k \in DOMAIN Append(old, p) :
           /\ Append(old, p)[k] \in DOMAIN ports
           /\ v \in ports[Append(old, p)[k]].config.allowed
    BY <2>1, <2>3
  <2>6. TablesConsistent'
    BY <2>1, <2>2, <2>4, <2>5
  <2>7. QED
    BY <2>1, <2>2, <2>6, TableStep
<1>4. ASSUME NEW m \in RouterMacs, SetRouterInterface(v, m) PROVE IInv'
  <2>1. /\ v \in vlans /\ DOMAIN routers' = DOMAIN routers \cup {v}
        /\ UNCHANGED <<ports, queues, taken, vlans, members, neighbors, processed,
                       macs, lastSeen>>
    BY <1>4 DEF SetRouterInterface, Put
  <2>2. QED
    BY <2>1, TableStep
<1>5. QED
  BY <1>1, <1>2, <1>3, <1>4

\* ArpCache::add_or_replace keeps the type of the cache.
LEMMA NeighborsType ==
    ASSUME TypeOK, NEW ip, NEW m \in Nat, NEW t
    PROVE  \A x \in DOMAIN Neighbors(ip, m, t) : Neighbors(ip, m, t)[x].mac \in Nat
BY DEF TypeOK, Neighbors, Put

\* The calls that change routes, neighbours and the faults
LEMMA RoutingStep ==
    ASSUME IInv, RoutingPlane \/ \E c \in FaultConfigs : ConfigureFaults(c)
    PROVE  IInv'
<1> USE DEF IInv, portVars, l2Vars, l3Vars, pktVars
<1>1. /\ UNCHANGED <<ports, queues, taken, vlans, members, routers, processed,
                     macs, lastSeen>>
      /\ \A ip \in DOMAIN neighbors' : neighbors'[ip].mac \in Nat
  <2>1. ASSUME NEW x \in Prefixes, NEW p \in PortIds, NEW h \in NextHops,
               AddOrReplaceRoute(x, p, h)
        PROVE  <1>1!:
    BY <2>1 DEF AddOrReplaceRoute, TypeOK
  <2>2. ASSUME NEW x \in Prefixes, RemoveRoute(x) PROVE <1>1!:
    BY <2>2 DEF RemoveRoute, TypeOK
  <2>3. ASSUME NEW ip \in HostIps, NEW m \in NeighborMacs, NEW t \in Now,
               AddOrReplaceNeighbor(ip, m, t)
        PROVE  <1>1!:
    BY <2>3, AsicAssumption, NeighborsType DEF AddOrReplaceNeighbor
  <2>4. ASSUME NEW ip \in HostIps, RemoveNeighbor(ip) PROVE <1>1!:
    BY <2>4 DEF RemoveNeighbor, Remove, TypeOK
  <2>5. ASSUME NEW c \in FaultConfigs, ConfigureFaults(c) PROVE <1>1!:
    BY <2>5 DEF ConfigureFaults, TypeOK
  <2>6. QED
    BY <2>1, <2>2, <2>3, <2>4, <2>5 DEF RoutingPlane
<1>2. QED
  BY <1>1, TableStep DEF TypeOK, TablesConsistent

-----------------------------------------------------------------------------
(* The data plane *)

\* Learning adds at most the one key, and none to a full table.
LEMMA LearnBounded ==
    ASSUME NEW tbl, IsFiniteSet(DOMAIN tbl), Cardinality(DOMAIN tbl) <= MacCapacity,
           NEW v, NEW m, NEW port
    PROVE  LET new == Learn(tbl, MacCapacity, v, m, port)
           IN  /\ DOMAIN new \subseteq DOMAIN tbl \cup {<<v, m>>}
               /\ IsFiniteSet(DOMAIN new) /\ Cardinality(DOMAIN new) <= MacCapacity
<1> DEFINE new == Learn(tbl, MacCapacity, v, m, port)
           k == <<v, m>>
<1>1. Cardinality(DOMAIN tbl) \in Nat
  BY FS_CardinalityType
<1>2. CASE k \in DOMAIN tbl
  <2>1. DOMAIN new = DOMAIN tbl
    BY <1>2 DEF Learn
  <2>2. QED
    BY <2>1
<1>3. CASE k \notin DOMAIN tbl /\ Cardinality(DOMAIN tbl) >= MacCapacity
  BY <1>3 DEF Learn
<1>4. CASE k \notin DOMAIN tbl /\ ~(Cardinality(DOMAIN tbl) >= MacCapacity)
  <2>1. DOMAIN new = DOMAIN tbl \cup {k}
    BY <1>4 DEF Learn
  <2>2. IsFiniteSet(DOMAIN tbl \cup {k})
        /\ Cardinality(DOMAIN tbl \cup {k}) = Cardinality(DOMAIN tbl) + 1
    BY <1>4, FS_AddElement
  <2>3. QED
    BY <1>1, <1>4, <2>1, <2>2, AsicAssumption
<1>5. QED
  BY <1>2, <1>3, <1>4

\* The Layer-2 decision picks members of the VLAN other than the ingress port.
LEMMA L2OutputsMembers ==
    ASSUME NEW S, NEW s \in Seq(S), NoDuplicates(s),
           NEW tbl, NEW v, NEW dst, NEW i
    PROVE  LET out == L2Outputs(tbl, v, dst, i, s)
           IN  /\ out \in Seq(S)
               /\ \A k \in DOMAIN out : out[k] # i /\ \E j \in DOMAIN s : out[k] = s[j]
<1> DEFINE out == L2Outputs(tbl, v, dst, i, s)
           port == tbl[<<v, dst>>]
<1>1. CASE out = FloodPorts(s, i)
  BY <1>1, WithoutEntry DEF FloodPorts
<1>2. CASE out = <<>>
  BY <1>2
<1>3. CASE out = <<port>> /\ port # i /\ InSeq(port, s)
  <2>1. PICK j \in DOMAIN s : s[j] = port
    BY <1>3 DEF InSeq
  <2>2. port \in S
    BY <2>1
  <2>3. QED
    BY <1>3, <2>1, <2>2
<1>4. QED
  BY <1>1, <1>2, <1>3 DEF L2Outputs

\* How often the fault injector is drawn from is a number.
LEMMA DrawnType ==
    ASSUME NEW r, NEW k \in Nat
    PROVE  Drawn(r, k) \in Nat
<1>1. IsFiniteSet(1 .. k)
  BY FS_Interval
<1>2. IsFiniteSet({j \in 1 .. k : Operational(r[j])})
  BY <1>1, FS_Subset
<1>3. QED
  BY <1>2, FS_CardinalityType DEF Drawn

\* VirtualPort::transmit counts a sent frame and nothing else as transmitted.
LEMMA TransmitType ==
    ASSUME NEW port \in Port, NEW fate
    PROVE  /\ Transmit(port, fate) \in Port
           /\ Transmit(port, fate).config = port.config
           /\ Transmit(port, fate).transmitted =
                 IF fate = "sent" THEN port.transmitted + 1 ELSE port.transmitted
<1> DEFINE t == IF fate = "sent" THEN port.transmitted + 1 ELSE port.transmitted
           e == IF fate = "oversize" THEN port.transmitErrors + 1 ELSE port.transmitErrors
<1>1. t \in Nat /\ e \in Nat
  BY DEF Port
<1>2. Transmit(port, fate) = [port EXCEPT !.transmitted = t, !.transmitErrors = e]
  BY DEF Transmit
<1> HIDE DEF t, e
<1>3. /\ [port EXCEPT !.transmitted = t, !.transmitErrors = e] \in Port
      /\ [port EXCEPT !.transmitted = t, !.transmitErrors = e].config = port.config
      /\ [port EXCEPT !.transmitted = t, !.transmitErrors = e].transmitted = t
  BY <1>1 DEF Port
<1>4. QED
  BY <1>2, <1>3 DEF t

\* enqueue_outputs moves a queue and its transmit counter together, and only
\* while the queue has room.
LEMMA EnqueueEffect ==
    ASSUME IInv, NEW d, NEW r \in Seq(PortIds), NEW g \in Frame, NEW i, NEW f,
           EnqueueOutputs(d, r, g, i, f)
    PROVE  /\ DOMAIN ports' = DOMAIN ports /\ DOMAIN queues' = DOMAIN queues
           /\ processed' \in Nat /\ taken' = taken
           /\ \A p \in DOMAIN ports :
                 /\ ports'[p] \in Port /\ ports'[p].config = ports[p].config
                 /\ queues'[p] \in Seq(Frame) /\ Len(queues'[p]) <= QueueCapacity
                 /\ \/ /\ Len(queues'[p]) = Len(queues[p]) + 1
                       /\ ports'[p].transmitted = ports[p].transmitted + 1
                       /\ Operational(p) /\ \E k \in DOMAIN r : r[k] = p
                    \/ /\ queues'[p] = queues[p]
                       /\ ports'[p].transmitted = ports[p].transmitted
<1>1. /\ DOMAIN ports' = DOMAIN ports /\ DOMAIN queues' = DOMAIN queues
      /\ taken' = taken
  BY DEF EnqueueOutputs
<1>2. processed' \in Nat
  BY DrawnType DEF EnqueueOutputs, IInv, TypeOK
<1>3. ASSUME NEW p \in DOMAIN ports
      PROVE  /\ ports'[p] \in Port /\ ports'[p].config = ports[p].config
             /\ queues'[p] \in Seq(Frame) /\ Len(queues'[p]) <= QueueCapacity
             /\ \/ /\ Len(queues'[p]) = Len(queues[p]) + 1
                   /\ ports'[p].transmitted = ports[p].transmitted + 1
                   /\ Operational(p) /\ \E k \in DOMAIN r : r[k] = p
                \/ /\ queues'[p] = queues[p]
                   /\ ports'[p].transmitted = ports[p].transmitted
  <2> DEFINE fate == FateAt(r, p, g)
             copy == Injected(VerdictAt(r, p), g)
  <2>1. /\ p \in DOMAIN queues /\ ports[p] \in Port /\ queues[p] \in Seq(Frame)
        /\ Len(queues[p]) <= QueueCapacity
    BY DEF IInv, TypeOK, TablesConsistent, WithinCapacity
  <2>2. ports'[p] = Transmit(ports[p], fate)
    BY DEF EnqueueOutputs
  <2>3. queues'[p] = IF fate = "sent" THEN Append(queues[p], copy) ELSE queues[p]
    BY <2>1 DEF EnqueueOutputs
  <2>4. copy \in Frame
    BY InjectedType
  <2>5. /\ ports'[p] \in Port /\ ports'[p].config = ports[p].config
        /\ ports'[p].transmitted = IF fate = "sent" THEN ports[p].transmitted + 1
                                                    ELSE ports[p].transmitted
    BY <2>1, <2>2, TransmitType
  <2>6. fate = "sent" => Turn(r, p) # {} /\ EgressFate(p, VerdictAt(r, p), g) = "sent"
    BY DEF FateAt
  <2>7. fate = "sent" => ~(Len(queues[p]) >= QueueCapacity)
    BY <2>6 DEF EgressFate
  <2>8. fate = "sent" => Operational(p) /\ \E k \in DOMAIN r : r[k] = p
    BY <2>6 DEF Turn
  <2> HIDE DEF fate, copy
  <2>9. QED
    BY <2>1, <2>3, <2>4, <2>5, <2>7, <2>8, AsicAssumption
<1>4. QED
  BY <1>1, <1>2, <1>3

\* A packet that learns, whatever is done with it afterwards.
LEMMA AcceptEffect ==
    ASSUME IInv, NEW i, NEW f, Accept(i, f)
    PROVE  /\ DOMAIN macs' \subseteq DOMAIN lastSeen'
           /\ IsFiniteSet(DOMAIN macs') /\ Cardinality(DOMAIN macs') <= MacCapacity
<1> DEFINE v == VlanOf(i, f)
<1>1. macs' = Learn(macs, MacCapacity, v, f.src, i)
      /\ DOMAIN lastSeen' = DOMAIN lastSeen \cup {<<v, f.src>>}
  BY DEF Accept, Put
<1>2. /\ IsFiniteSet(DOMAIN macs) /\ Cardinality(DOMAIN macs) <= MacCapacity
      /\ DOMAIN macs \subseteq DOMAIN lastSeen
  BY DEF IInv, TypeOK, WithinCapacity
<1>3. /\ DOMAIN macs' \subseteq DOMAIN macs \cup {<<v, f.src>>}
      /\ IsFiniteSet(DOMAIN macs') /\ Cardinality(DOMAIN macs') <= MacCapacity
  BY <1>1, <1>2, LearnBounded
<1>4. QED
  BY <1>1, <1>2, <1>3

\* A packet that touches neither ports nor queues.
LEMMA QuietPacket ==
    ASSUME IInv, UNCHANGED <<ports, queues, taken, vlans, members, routers>>,
           processed' \in Nat,
           \A ip \in DOMAIN neighbors' : neighbors'[ip].mac \in Nat,
           DOMAIN macs' \subseteq DOMAIN lastSeen',
           IsFiniteSet(DOMAIN macs'), Cardinality(DOMAIN macs') <= MacCapacity
    PROVE  IInv'
BY DEF IInv, TypeOK, TablesConsistent, WithinCapacity, TransmittedIsQueued

\* A packet that goes through enqueue_outputs.
LEMMA QueuedPacket ==
    ASSUME IInv, NEW d, NEW r \in Seq(PortIds), NEW g \in Frame, NEW i, NEW f,
           EnqueueOutputs(d, r, g, i, f), Accept(i, f),
           UNCHANGED <<vlans, members, routers, neighbors>>
    PROVE  IInv'
<1>1. /\ DOMAIN ports' = DOMAIN ports /\ DOMAIN queues' = DOMAIN queues
      /\ processed' \in Nat /\ taken' = taken
      /\ \A p \in DOMAIN ports :
            /\ ports'[p] \in Port /\ ports'[p].config = ports[p].config
            /\ queues'[p] \in Seq(Frame) /\ Len(queues'[p]) <= QueueCapacity
            /\ \/ /\ Len(queues'[p]) = Len(queues[p]) + 1
                  /\ ports'[p].transmitted = ports[p].transmitted + 1
               \/ /\ queues'[p] = queues[p]
                  /\ ports'[p].transmitted = ports[p].transmitted
  BY EnqueueEffect
<1>2. DOMAIN queues = DOMAIN ports
  BY DEF IInv, TablesConsistent
<1>3. TypeOK'
  BY <1>1, <1>2, AcceptEffect DEF IInv, TypeOK
<1>4. TablesConsistent'
  BY <1>1 DEF IInv, TablesConsistent
<1>5. WithinCapacity' /\ IsFiniteSet(DOMAIN macs')
  BY <1>1, <1>2, AcceptEffect DEF WithinCapacity
<1>6. TransmittedIsQueued'
  <2>1. ASSUME NEW p \in DOMAIN ports
        PROVE  ports'[p].transmitted = Len(queues'[p]) + taken'[p]
    <3>1. /\ ports[p].transmitted = Len(queues[p]) + taken[p]
          /\ Len(queues[p]) \in Nat /\ taken[p] \in Nat
      BY <1>2 DEF IInv, TypeOK, TransmittedIsQueued
    <3>2. taken'[p] = taken[p]
      BY <1>1
    <3>3. CASE /\ Len(queues'[p]) = Len(queues[p]) + 1
               /\ ports'[p].transmitted = ports[p].transmitted + 1
      BY <3>1, <3>2, <3>3
    <3>4. CASE /\ queues'[p] = queues[p]
               /\ ports'[p].transmitted = ports[p].transmitted
      BY <3>1, <3>2, <3>4
    <3>5. QED
      BY <1>1, <3>3, <3>4
  <2>2. QED
    BY <1>1, <2>1 DEF TransmittedIsQueued
<1>7. QED
  BY <1>3, <1>4, <1>5, <1>6 DEF IInv

\* What the Layer-2 branch hands to enqueue_outputs.
LEMMA ArrivedType ==
    ASSUME NEW f \in Frame, NEW i
    PROVE  Arrived(i, f) \in Frame
BY InjectedType DEF Arrived

\* The VLAN of an accepted frame is one its ingress port allows.
LEMMA AcceptedVlan ==
    ASSUME TypeOK, NEW i, NEW f, Accept(i, f)
    PROVE  /\ i \in DOMAIN ports
           /\ VlanOf(i, f) \in ports[i].config.allowed
           /\ VlanOf(i, f) \in Vlans
<1>1. i \in DOMAIN ports /\ ports[i].config \in PortConfigs
  BY DEF Accept, Operational, TypeOK, Port
<1>2. VlanOf(i, f) # NoVlan
  BY DropIsSomething DEF Accept, IngressDrop
<1>3. ValidConfig(ports[i].config) /\ ports[i].config.allowed \subseteq Vlans
  BY <1>1, AsicAssumption
<1>4. VlanOf(i, f) \in ports[i].config.allowed
  BY <1>2, <1>3 DEF VlanOf, IngressVlan, ValidConfig, IsAccess, AccessPort
<1>5. QED
  BY <1>1, <1>3, <1>4

\* process_packet, whatever becomes of the packet
LEMMA PacketStep ==
    ASSUME IInv, NEW i \in PortIds, NEW f \in Frames, NEW now \in Now,
           ProcessPacket(i, f, now)
    PROVE  IInv'
<1> USE DEF portVars, l2Vars, l3Vars
<1>1. f \in Frame /\ TypeOK
  BY AsicAssumption DEF IInv
<1>2. /\ processed + 1 \in Nat /\ processed \in Nat
      /\ \A ip \in DOMAIN neighbors : neighbors[ip].mac \in Nat
      /\ DOMAIN macs \subseteq DOMAIN lastSeen
      /\ IsFiniteSet(DOMAIN macs) /\ Cardinality(DOMAIN macs) <= MacCapacity
  BY DEF IInv, TypeOK, WithinCapacity
<1>3. CASE RefusePacket(i)
  BY <1>2, <1>3, QuietPacket DEF RefusePacket
<1>4. CASE DropOnIngress(i, f)
  BY <1>2, <1>4, QuietPacket DEF DropOnIngress
<1>5. CASE SwitchPacket(i, f)
  <2> DEFINE v == VlanOf(i, f)
             g == Arrived(i, f)
             r == L2Outputs(macs', v, g.dst, i, members[v])
  <2>1. Accept(i, f) /\ UNCHANGED <<vlans, members, routers, neighbors>>
    BY <1>5 DEF SwitchPacket
  <2>2. v \in Vlans
    BY <1>1, <2>1, AcceptedVlan
  <2>3. members[v] \in Seq(PortIds) /\ NoDuplicates(members[v])
    BY <2>2 DEF IInv, TypeOK, TablesConsistent
  <2>4. r \in Seq(PortIds) /\ g \in Frame
    BY <1>1, <2>3, L2OutputsMembers, ArrivedType
  <2>5. CASE processed' = processed + 1 /\ UNCHANGED <<ports, queues, taken>>
    BY <1>2, <2>1, <2>5, AcceptEffect, QuietPacket
  <2>6. ASSUME NEW d, EnqueueOutputs(d, r, g, i, f) PROVE IInv'
    BY <2>1, <2>4, <2>6, QueuedPacket
  <2>7. QED
    BY <1>5, <2>5, <2>6 DEF SwitchPacket
<1>6. CASE ControlPacket(i, f, now)
  <2>1. Accept(i, f) /\ processed' = processed + 1
        /\ UNCHANGED <<ports, queues, taken, vlans, members, routers>>
    BY <1>6 DEF ControlPacket
  <2>2. \A ip \in DOMAIN neighbors' : neighbors'[ip].mac \in Nat
    <3>1. f.mac \in Nat
      BY <1>1 DEF Frame
    <3>2. neighbors' = neighbors \/ neighbors' = Neighbors(f.ip, f.mac, now)
      BY <1>6 DEF ControlPacket
    <3>3. QED
      BY <1>1, <1>2, <3>1, <3>2, NeighborsType
  <2>3. QED
    BY <1>2, <2>1, <2>2, AcceptEffect, QuietPacket
<1>7. CASE RoutePacket(i, f, now)
  <2> DEFINE r == <<Route(f.ip).port>>
  <2>1. Accept(i, f) /\ UNCHANGED <<vlans, members, routers, neighbors>>
    BY <1>7 DEF RoutePacket
  <2>2. CASE RouteDrop(f, now) # Nothing
    <3>1. processed' = processed + 1 /\ UNCHANGED <<ports, queues, taken>>
      BY <1>7, <2>2 DEF RoutePacket
    <3>2. QED
      BY <1>2, <2>1, <3>1, AcceptEffect, QuietPacket
  <2>3. CASE RouteDrop(f, now) = Nothing
    <3>1. EnqueueOutputs("routed", r, Encapsulated(f), i, f)
      BY <1>7, <2>3 DEF RoutePacket
    <3>2. Operational(Route(f.ip).port)
      BY <2>3, DropIsSomething DEF RouteDrop
    <3>3. r \in Seq(PortIds)
      BY <1>1, <3>2 DEF Operational, TypeOK
    <3>4. Encapsulated(f) \in Frame
      BY <1>1, <2>3, EncapsulatedType
    <3>5. QED
      BY <2>1, <3>1, <3>3, <3>4, QueuedPacket
  <2>4. QED
    BY <2>2, <2>3
<1>8. QED
  BY <1>3, <1>4, <1>5, <1>6, <1>7 DEF ProcessPacket

\* Taking a frame from a queue
LEMMA DequeueStep ==
    ASSUME IInv, NEW p \in PortIds, DequeuePacket(p)
    PROVE  IInv'
<1>1. /\ UNCHANGED <<ports, vlans, members, routers, neighbors, macs, processed, lastSeen>>
      /\ p \in DOMAIN queues /\ queues[p] # <<>>
      /\ DOMAIN queues' = DOMAIN queues /\ queues'[p] = Tail(queues[p])
      /\ \A q \in DOMAIN queues \ {p} : queues'[q] = queues[q]
  BY DEF DequeuePacket, l2Vars, l3Vars, pktVars
<1>2. /\ DOMAIN queues = DOMAIN ports /\ DOMAIN taken = DOMAIN ports
      /\ \A q \in DOMAIN queues : queues[q] \in Seq(Frame) /\ taken[q] \in Nat
  BY DEF IInv, TypeOK, TablesConsistent
<1>3. /\ DOMAIN taken' = DOMAIN taken /\ taken'[p] = taken[p] + 1
      /\ \A q \in DOMAIN queues \ {p} : taken'[q] = taken[q]
  BY <1>1, <1>2 DEF DequeuePacket
<1>4. /\ Tail(queues[p]) \in Seq(Frame) /\ Len(Tail(queues[p])) = Len(queues[p]) - 1
      /\ Len(queues[p]) \in Nat
  BY <1>1, <1>2
<1>5. TypeOK'
  <2>1. \A q \in DOMAIN queues' : queues'[q] \in Seq(Frame)
    BY <1>1, <1>2, <1>4
  <2>2. \A q \in DOMAIN taken' : taken'[q] \in Nat
    <3>1. taken[p] + 1 \in Nat
      BY <1>1, <1>2
    <3>2. QED
      BY <1>1, <1>2, <1>3, <3>1
  <2>3. DOMAIN taken' = DOMAIN ports'
    BY <1>1, <1>2, <1>3
  <2>4. QED
    BY <1>1, <2>1, <2>2, <2>3 DEF IInv, TypeOK
<1>6. TablesConsistent'
  BY <1>1 DEF IInv, TablesConsistent
<1>7. WithinCapacity' /\ IsFiniteSet(DOMAIN macs')
  BY <1>1, <1>2, <1>4, AsicAssumption DEF IInv, WithinCapacity
<1>8. TransmittedIsQueued'
  <2>1. ports[p].transmitted = Len(queues[p]) + taken[p] /\ taken[p] \in Nat
    BY <1>1, <1>2 DEF IInv, TransmittedIsQueued
  <2>2. ports'[p].transmitted = Len(queues'[p]) + taken'[p]
    BY <1>1, <1>3, <1>4, <2>1
  <2>3. \A q \in DOMAIN ports \ {p} : ports'[q].transmitted = Len(queues'[q]) + taken'[q]
    BY <1>1, <1>2, <1>3 DEF IInv, TransmittedIsQueued
  <2>4. QED
    BY <1>1, <2>2, <2>3 DEF TransmittedIsQueued
<1>9. QED
  BY <1>5, <1>6, <1>7, <1>8 DEF IInv

\* Every call keeps the invariant.
LEMMA IInvStep == IInv /\ [Next]_vars => IInv'
<1> SUFFICES ASSUME IInv, [Next]_vars PROVE IInv'
  OBVIOUS
<1>1. CASE UNCHANGED vars
  BY <1>1 DEF vars, portVars, l2Vars, l3Vars, pktVars, IInv, TypeOK,
              TablesConsistent, WithinCapacity, TransmittedIsQueued
<1>2. CASE ControlPlane
  BY <1>2, PortStep, VlanStep, RoutingStep DEF ControlPlane
<1>3. CASE RoutingPlane
  BY <1>3, RoutingStep
<1>4. CASE DataPlane
  BY <1>4, PacketStep, DequeueStep DEF DataPlane
<1>5. QED
  BY <1>1, <1>2, <1>3, <1>4 DEF Next

\* For every set of ports, VLANs, frames and faults, every capacity and every
\* sequence of control-plane calls and packets, the tables of SoftwareAsic fit
\* together, no queue and no MAC table outgrows its capacity, and the transmit
\* counters say exactly what was queued.
THEOREM AsicConsistent ==
    Spec => [](TypeOK /\ TablesConsistent /\ WithinCapacity /\ TransmittedIsQueued)
<1>1. IInv => TypeOK /\ TablesConsistent /\ WithinCapacity /\ TransmittedIsQueued
  BY DEF IInv
<1>2. QED
  BY InitIInv, IInvStep, <1>1, PTL DEF Spec

-----------------------------------------------------------------------------
(* VLAN isolation *)

\* The result of a packet that was enqueued names its VLAN and ingress port.
LEMMA EnqueueResult ==
    ASSUME NEW d, NEW r, NEW g, NEW i, NEW f, EnqueueOutputs(d, r, g, i, f)
    PROVE  /\ last'.vlan = VlanOf(i, f) /\ last'.ingress = {i}
           /\ last'.disposition \in {"dropped", d}
BY DEF EnqueueOutputs, Classified, Nothing

IsolatedStep ==
    \A p \in DOMAIN queues \cap DOMAIN queues' :
        Len(queues'[p]) > Len(queues[p]) =>
            /\ Operational(p)
            /\ Len(queues'[p]) = Len(queues[p]) + 1
            /\ last'.disposition \in {"switched", "flooded"} =>
                  /\ p \notin last'.ingress
                  /\ \A q \in last'.ingress \cup {p} :
                        last'.vlan \in ports[q].config.allowed

\* A step that lets no queue grow is isolated.
LEMMA NoGrowth ==
    ASSUME IInv,
           \A p \in DOMAIN queues \cap DOMAIN queues' :
               queues'[p] = queues[p] \/ (queues[p] # <<>> /\ queues'[p] = Tail(queues[p]))
    PROVE  IsolatedStep
<1> SUFFICES ASSUME NEW p \in DOMAIN queues \cap DOMAIN queues'
             PROVE  ~(Len(queues'[p]) > Len(queues[p]))
  BY DEF IsolatedStep
<1>1. queues[p] \in Seq(Frame)
  BY DEF IInv, TypeOK
<1>2. CASE queues'[p] = queues[p]
  BY <1>1, <1>2
<1>3. CASE queues[p] # <<>> /\ queues'[p] = Tail(queues[p])
  BY <1>1, <1>3
<1>4. QED
  BY <1>2, <1>3

\* A frame that is switched or flooded stays in its VLAN.
LEMMA SwitchIsolated ==
    ASSUME IInv, NEW i \in PortIds, NEW f \in Frame, SwitchPacket(i, f)
    PROVE  IsolatedStep
<1> DEFINE v == VlanOf(i, f)
           g == Arrived(i, f)
           r == L2Outputs(macs', v, g.dst, i, members[v])
<1>1. Accept(i, f) /\ TypeOK
  BY DEF SwitchPacket, IInv
<1>2. v \in Vlans /\ v \in ports[i].config.allowed
  BY <1>1, AcceptedVlan
<1>3. members[v] \in Seq(PortIds) /\ NoDuplicates(members[v])
  BY <1>2 DEF IInv, TypeOK, TablesConsistent
<1>4. /\ r \in Seq(PortIds)
      /\ \A k \in DOMAIN r : r[k] # i /\ \E j \in DOMAIN members[v] : r[k] = members[v][j]
  BY <1>3, L2OutputsMembers
<1>5. \A k \in DOMAIN r : r[k] # i /\ v \in ports[r[k]].config.allowed
  BY <1>2, <1>4 DEF IInv, TablesConsistent
<1>6. g \in Frame
  BY ArrivedType
<1>7. CASE UNCHANGED <<ports, queues, taken>>
  BY <1>7, NoGrowth
<1>8. ASSUME NEW d, EnqueueOutputs(d, r, g, i, f) PROVE IsolatedStep
  <2> HIDE DEF r, g, v
  <2>1. last'.vlan = v /\ last'.ingress = {i}
    BY <1>8, EnqueueResult DEF v
  <2>2. ASSUME NEW p \in DOMAIN queues, Len(queues'[p]) > Len(queues[p])
        PROVE  /\ Operational(p) /\ Len(queues'[p]) = Len(queues[p]) + 1
               /\ \E k \in DOMAIN r : r[k] = p
    <3>1. p \in DOMAIN ports /\ Len(queues[p]) \in Nat
      BY DEF IInv, TablesConsistent, TypeOK
    <3>2. \/ /\ Len(queues'[p]) = Len(queues[p]) + 1
             /\ Operational(p) /\ \E k \in DOMAIN r : r[k] = p
          \/ queues'[p] = queues[p]
      BY <1>4, <1>6, <1>8, <3>1, EnqueueEffect
    <3>3. QED
      BY <2>2, <3>1, <3>2
  <2>3. QED
    BY <1>2, <1>5, <2>1, <2>2 DEF IsolatedStep
<1>9. QED
  BY <1>7, <1>8 DEF SwitchPacket, portVars

\* A frame that is routed adds at most one frame to one operational port.
LEMMA RouteIsolated ==
    ASSUME IInv, NEW i \in PortIds, NEW f \in Frame, NEW now, RoutePacket(i, f, now)
    PROVE  IsolatedStep
<1> DEFINE r == <<Route(f.ip).port>>
<1>1. CASE RouteDrop(f, now) # Nothing
  BY <1>1, NoGrowth DEF RoutePacket, portVars
<1>2. CASE RouteDrop(f, now) = Nothing
  <2>1. EnqueueOutputs("routed", r, Encapsulated(f), i, f)
    BY <1>2 DEF RoutePacket
  <2>2. Operational(Route(f.ip).port)
    BY <1>2, DropIsSomething DEF RouteDrop
  <2>3. r \in Seq(PortIds)
    BY <2>2 DEF Operational, IInv, TypeOK
  <2>4. Encapsulated(f) \in Frame
    BY <1>2, EncapsulatedType DEF IInv
  <2> HIDE DEF r
  <2>5. last'.disposition \notin {"switched", "flooded"}
    BY <2>1, EnqueueResult
  <2>6. ASSUME NEW p \in DOMAIN queues, Len(queues'[p]) > Len(queues[p])
        PROVE  Operational(p) /\ Len(queues'[p]) = Len(queues[p]) + 1
    <3>1. p \in DOMAIN ports /\ Len(queues[p]) \in Nat
      BY DEF IInv, TablesConsistent, TypeOK
    <3>2. \/ Len(queues'[p]) = Len(queues[p]) + 1 /\ Operational(p)
          \/ queues'[p] = queues[p]
      BY <2>1, <2>3, <2>4, <3>1, EnqueueEffect
    <3>3. QED
      BY <2>6, <3>1, <3>2
  <2>7. QED
    BY <2>5, <2>6 DEF IsolatedStep
<1>3. QED
  BY <1>1, <1>2

\* Every step keeps VLANs apart.
LEMMA StepIsolated == IInv /\ [Next]_vars => IsolatedStep
<1> SUFFICES ASSUME IInv, [Next]_vars PROVE IsolatedStep
  OBVIOUS
<1> USE DEF portVars, l2Vars, l3Vars, pktVars
<1>1. CASE UNCHANGED vars
  BY <1>1, NoGrowth DEF vars
<1>2. CASE ControlPlane
  <2>1. ASSUME NEW p \in PortIds, NEW c \in PortConfigs, CreatePort(p, c) PROVE IsolatedStep
    BY <2>1, NoGrowth DEF CreatePort, Put, IInv, TablesConsistent
  <2>2. ASSUME NEW p \in PortIds, RemovePort(p) PROVE IsolatedStep
    BY <2>2, NoGrowth DEF RemovePort, Remove
  <2>3. ASSUME queues' = queues PROVE IsolatedStep
    BY <2>3, NoGrowth
  <2>4. QED
    BY <1>2, <2>1, <2>2, <2>3 DEF ControlPlane, SetPortState, CreateVlan, RemoveVlan,
        AddVlanMember, SetRouterInterface, ConfigureFaults
<1>3. CASE RoutingPlane
  <2>1. queues' = queues
    BY <1>3 DEF RoutingPlane, AddOrReplaceRoute, RemoveRoute, AddOrReplaceNeighbor,
        RemoveNeighbor
  <2>2. QED
    BY <2>1, NoGrowth
<1>4. CASE DataPlane
  <2>1. ASSUME NEW p \in PortIds, DequeuePacket(p) PROVE IsolatedStep
    BY <2>1, NoGrowth DEF DequeuePacket
  <2>2. ASSUME NEW i \in PortIds, NEW f \in Frames, NEW now \in Now,
               ProcessPacket(i, f, now)
        PROVE  IsolatedStep
    <3>1. f \in Frame
      BY AsicAssumption
    <3>2. CASE queues' = queues
      BY <3>2, NoGrowth
    <3>3. QED
      BY <2>2, <3>1, <3>2, SwitchIsolated, RouteIsolated
         DEF ProcessPacket, RefusePacket, DropOnIngress, ControlPacket
  <2>3. QED
    BY <1>4, <2>1, <2>2 DEF DataPlane
<1>5. QED
  BY <1>1, <1>2, <1>3, <1>4 DEF Next

\* VLAN isolation for every configuration: process_packet switches or floods a
\* frame only into queues of operational ports that allow the VLAN its ingress
\* port put it in, never back, and puts one copy at most into each queue.
THEOREM VlansIsolated == Spec => Isolation
<1>1. IInv /\ [Next]_vars => [IsolatedStep]_vars
  BY StepIsolated
<1>2. QED
  BY InitIInv, IInvStep, <1>1, PTL DEF Spec, Isolation, IsolatedStep

-----------------------------------------------------------------------------
(* Frames in the queues fit the MTU *)

\* Corruption on the way changes neither the size nor anything but dst.
LEMMA InjectedKeeps ==
    ASSUME NEW g \in Frame, NEW verdict
    PROVE  LET c == Injected(verdict, g) IN
           /\ FrameSize(c) = FrameSize(g) /\ c \in Frame
           /\ c.ip = g.ip /\ c.src = g.src /\ c.ttl = g.ttl
           /\ c.dst \in {g.dst, FlipGroupBit(g.dst)}
<1>1. CASE verdict = "corrupted"
  <2> DEFINE flipped == FlipGroupBit(g.dst)
  <2>1. Injected(verdict, g) = [g EXCEPT !.dst = flipped]
    BY <1>1 DEF Injected
  <2> HIDE DEF flipped
  <2>2. LET c == [g EXCEPT !.dst = flipped] IN
        /\ c.size = g.size /\ c.tag = g.tag
        /\ c.ip = g.ip /\ c.src = g.src /\ c.ttl = g.ttl /\ c.dst = flipped
    BY DEF Frame
  <2>3. QED
    BY <2>1, <2>2, InjectedType DEF FrameSize, flipped
<1>2. CASE verdict # "corrupted"
  BY <1>2 DEF Injected
<1>3. QED
  BY <1>1, <1>2

\* What enqueue_outputs appends to a queue, and where.
LEMMA EnqueueAppends ==
    ASSUME IInv, NEW d, NEW r, NEW g \in Frame, NEW i, NEW f,
           EnqueueOutputs(d, r, g, i, f), NEW p \in DOMAIN queues
    PROVE  \/ queues'[p] = queues[p]
           \/ /\ FrameSize(g) <= Mtu /\ \E k \in DOMAIN r : r[k] = p
              /\ \E verdict : queues'[p] = Append(queues[p], Injected(verdict, g))
<1> DEFINE fate == FateAt(r, p, g)
<1>1. p \in DOMAIN ports
  BY DEF IInv, TablesConsistent
<1>2. queues'[p] = IF fate = "sent"
                   THEN Append(queues[p], Injected(VerdictAt(r, p), g)) ELSE queues[p]
  BY <1>1 DEF EnqueueOutputs
<1>3. CASE fate = "sent"
  <2>1. Turn(r, p) # {} /\ EgressFate(p, VerdictAt(r, p), g) = "sent"
    BY <1>3 DEF FateAt
  <2>2. ~(FrameSize(g) > Mtu)
    BY <2>1 DEF EgressFate
  <2>3. FrameSize(g) \in Nat
    BY DEF FrameSize, Frame, HeaderSize, TaggedSize
  <2>4. \E k \in DOMAIN r : r[k] = p
    BY <2>1 DEF Turn
  <2>5. queues'[p] = Append(queues[p], Injected(VerdictAt(r, p), g))
    BY <1>2, <1>3
  <2>6. FrameSize(g) <= Mtu
    BY <2>2, <2>3, AsicAssumption
  <2>7. QED
    BY <2>4, <2>5, <2>6, Zenon
<1>4. CASE fate # "sent"
  BY <1>2, <1>4
<1>5. QED
  BY <1>3, <1>4

Fits(q) == \A k \in DOMAIN q : FrameSize(q[k]) <= Mtu

\* A queue of frames that fit, with one more
LEMMA FitsAppend ==
    ASSUME NEW q \in Seq(Frame), Fits(q), NEW g \in Frame, FrameSize(g) <= Mtu
    PROVE  Fits(Append(q, g))
BY DEF Fits

\* A queue of frames that fit, without its first
LEMMA FitsTail ==
    ASSUME NEW q \in Seq(Frame), Fits(q), q # <<>>
    PROVE  Fits(Tail(q))
BY DEF Fits

\* enqueue_outputs tests the size of the frame as it will be queued.
LEMMA EnqueueFits ==
    ASSUME IInv, QueuedFits, NEW d, NEW r, NEW g \in Frame, NEW i, NEW f,
           EnqueueOutputs(d, r, g, i, f)
    PROVE  QueuedFits'
<1>1. DOMAIN queues' = DOMAIN queues
  BY DEF EnqueueOutputs
<1>2. ASSUME NEW p \in DOMAIN queues
      PROVE  Fits(queues'[p])
  <2>1. queues[p] \in Seq(Frame) /\ Fits(queues[p])
    BY DEF IInv, TypeOK, QueuedFits, Fits
  <2>2. CASE queues'[p] = queues[p]
    BY <2>1, <2>2
  <2>3. ASSUME NEW verdict, FrameSize(g) <= Mtu,
               queues'[p] = Append(queues[p], Injected(verdict, g))
        PROVE  Fits(queues'[p])
    <3>1. Injected(verdict, g) \in Frame /\ FrameSize(Injected(verdict, g)) <= Mtu
      BY <2>3, InjectedKeeps
    <3>2. QED
      BY <2>1, <2>3, <3>1, FitsAppend, Zenon
  <2>4. QED
    BY <2>2, <2>3, EnqueueAppends, Zenon
<1>3. QED
  BY <1>1, <1>2 DEF QueuedFits, Fits

\* Every call keeps frames in the queues that fit.
LEMMA FitsStep == IInv /\ QueuedFits /\ [Next]_vars => QueuedFits'
<1> SUFFICES ASSUME IInv, QueuedFits, [Next]_vars PROVE QueuedFits'
  OBVIOUS
<1> USE DEF portVars, l2Vars, l3Vars, pktVars
<1>0. ASSUME queues' = queues PROVE QueuedFits'
  BY <1>0 DEF QueuedFits
<1>1. CASE UNCHANGED vars
  BY <1>0, <1>1 DEF vars
<1>2. CASE ControlPlane
  <2>1. ASSUME NEW p \in PortIds, NEW c \in PortConfigs, CreatePort(p, c)
        PROVE  QueuedFits'
    BY <2>1 DEF CreatePort, Put, QueuedFits
  <2>2. ASSUME NEW p \in PortIds, RemovePort(p) PROVE QueuedFits'
    BY <2>2 DEF RemovePort, Remove, QueuedFits
  <2>3. QED
    BY <1>0, <1>2, <2>1, <2>2 DEF ControlPlane, SetPortState, CreateVlan, RemoveVlan,
        AddVlanMember, SetRouterInterface, ConfigureFaults
<1>3. CASE RoutingPlane
  <2>1. queues' = queues
    BY <1>3 DEF RoutingPlane, AddOrReplaceRoute, RemoveRoute, AddOrReplaceNeighbor,
        RemoveNeighbor
  <2>2. QED
    BY <1>0, <2>1
<1>4. CASE DataPlane
  <2>1. ASSUME NEW p \in PortIds, DequeuePacket(p) PROVE QueuedFits'
    <3>1. /\ p \in DOMAIN queues /\ queues[p] # <<>>
          /\ DOMAIN queues' = DOMAIN queues /\ queues'[p] = Tail(queues[p])
          /\ \A q \in DOMAIN queues \ {p} : queues'[q] = queues[q]
      BY <2>1 DEF DequeuePacket
    <3>2. queues[p] \in Seq(Frame) /\ Fits(queues[p])
      BY <3>1 DEF IInv, TypeOK, QueuedFits, Fits
    <3>3. Fits(queues'[p])
      BY <3>1, <3>2, FitsTail
    <3>4. QED
      BY <3>1, <3>3 DEF QueuedFits, Fits
  <2>2. ASSUME NEW i \in PortIds, NEW f \in Frames, NEW now \in Now,
               ProcessPacket(i, f, now)
        PROVE  QueuedFits'
    <3>1. f \in Frame /\ Arrived(i, f) \in Frame
      BY AsicAssumption, ArrivedType
    <3>2. CASE SwitchPacket(i, f)
      <4>1. \/ queues' = queues
            \/ \E d, r : EnqueueOutputs(d, r, Arrived(i, f), i, f)
        BY <3>2, Zenon DEF SwitchPacket
      <4>2. QED
        BY <1>0, <3>1, <4>1, EnqueueFits, Zenon
    <3>3. CASE RoutePacket(i, f, now)
      <4>1. CASE RouteDrop(f, now) # Nothing
        BY <1>0, <3>3, <4>1 DEF RoutePacket
      <4>2. CASE RouteDrop(f, now) = Nothing
        <5>1. EnqueueOutputs("routed", <<Route(f.ip).port>>, Encapsulated(f), i, f)
          BY <3>3, <4>2 DEF RoutePacket
        <5>2. Encapsulated(f) \in Frame
          BY <3>1, <4>2, EncapsulatedType DEF IInv
        <5>3. QED
          BY <5>1, <5>2, EnqueueFits, Zenon
      <4>3. QED
        BY <4>1, <4>2
    <3>4. CASE RefusePacket(i) \/ DropOnIngress(i, f) \/ ControlPacket(i, f, now)
      BY <1>0, <3>4 DEF RefusePacket, DropOnIngress, ControlPacket
    <3>5. QED
      BY <2>2, <3>2, <3>3, <3>4 DEF ProcessPacket
  <2>3. QED
    BY <1>4, <2>1, <2>2 DEF DataPlane
<1>5. QED
  BY <1>1, <1>2, <1>3, <1>4 DEF Next

\* Whatever is switched, flooded, routed or corrupted: no queue holds a frame
\* longer than the MTU of its port, headers included.
THEOREM FramesFit == Spec => []QueuedFits
<1>1. Init => QueuedFits
  BY DEF Init, Empty, QueuedFits
<1>2. QED
  BY <1>1, InitIInv, IInvStep, FitsStep, PTL DEF Spec

-----------------------------------------------------------------------------
(* Unicast frames follow their destination *)

\* What the MAC table says of a host is where it was last heard, and a table
\* that has room misses no host.  A full table keeps following the hosts it
\* knows: that is what makes the first half inductive.
MacFollows ==
    /\ \A k \in DOMAIN macs : k \in DOMAIN lastSeen /\ macs[k] = lastSeen[k]
    /\ Cardinality(DOMAIN macs) < MacCapacity => DOMAIN macs = DOMAIN lastSeen

\* Learning keeps MAC entries where their hosts were last heard.
LEMMA AcceptFollows ==
    ASSUME IInv, MacFollows, NEW i, NEW f, Accept(i, f)
    PROVE  MacFollows'
<1> DEFINE key == <<VlanOf(i, f), f.src>>
<1>1. /\ macs' = IF key \notin DOMAIN macs /\ Cardinality(DOMAIN macs) >= MacCapacity
                 THEN macs
                 ELSE [k \in DOMAIN macs \cup {key} |-> IF k = key THEN i ELSE macs[k]]
      /\ lastSeen' = [k \in DOMAIN lastSeen \cup {key} |->
                          IF k = key THEN i ELSE lastSeen[k]]
  BY DEF Accept, Learn, Put
<1>2. /\ IsFiniteSet(DOMAIN macs) /\ Cardinality(DOMAIN macs) \in Nat
      /\ MacCapacity \in Nat
  BY FS_CardinalityType, AsicAssumption DEF IInv
<1> HIDE DEF key
<1>3. CASE key \notin DOMAIN macs /\ Cardinality(DOMAIN macs) >= MacCapacity
  <2>1. macs' = macs /\ ~(Cardinality(DOMAIN macs') < MacCapacity)
    BY <1>1, <1>2, <1>3
  <2>2. \A k \in DOMAIN macs : k # key
    BY <1>3
  <2>3. QED
    BY <1>1, <2>1, <2>2 DEF MacFollows
<1>4. CASE ~(key \notin DOMAIN macs /\ Cardinality(DOMAIN macs) >= MacCapacity)
  <2>1. macs' = [k \in DOMAIN macs \cup {key} |-> IF k = key THEN i ELSE macs[k]]
    BY <1>1, <1>4
  <2>2. \A k \in DOMAIN macs' : k \in DOMAIN lastSeen' /\ macs'[k] = lastSeen'[k]
    BY <1>1, <2>1 DEF MacFollows
  <2>3. ASSUME Cardinality(DOMAIN macs') < MacCapacity
        PROVE  DOMAIN macs' = DOMAIN lastSeen'
    <3>1. DOMAIN macs' = DOMAIN macs \cup {key}
      BY <2>1
    <3>2. Cardinality(DOMAIN macs')
            = IF key \in DOMAIN macs THEN Cardinality(DOMAIN macs)
              ELSE Cardinality(DOMAIN macs) + 1
      BY <1>2, <3>1, FS_AddElement, Zenon
    <3>3. Cardinality(DOMAIN macs) < MacCapacity
      BY <1>2, <2>3, <3>2
    <3>4. QED
      BY <1>1, <3>1, <3>3 DEF MacFollows
  <2>4. QED
    BY <2>2, <2>3 DEF MacFollows
<1>5. QED
  BY <1>3, <1>4

\* Drops are reported as drops.
LEMMA DropDisposition ==
    ASSUME NEW reason, NEW counter, NEW i, NEW f
    PROVE  /\ Dropped(reason, counter).disposition = "dropped"
           /\ Classified(Dropped(reason, counter), i, f).disposition = "dropped"
BY DEF Dropped, Nothing, Classified

\* The Layer-2 branch, when it enqueues.
LEMMA SwitchFollows ==
    ASSUME IInv, IInv', MacFollows', NEW i, NEW f,
           LET v == VlanOf(i, f)
               g == Arrived(i, f)
               r == L2Outputs(macs', v, g.dst, i, members[v])
           IN  /\ r # <<>>
               /\ EnqueueOutputs(IF IsKnownUnicast(macs', v, g.dst)
                                 THEN "switched" ELSE "flooded", r, g, i, f)
    PROVE  UnicastFollowsHost'
<1> DEFINE v == VlanOf(i, f)
           g == Arrived(i, f)
           r == L2Outputs(macs', v, g.dst, i, members[v])
           known == IsKnownUnicast(macs', v, g.dst)
           host == <<v, g.dst>>
           sent == {p \in DOMAIN ports : FateAt(r, p, g) = "sent"}
<1>1. /\ last'.vlan = v /\ last'.dst = g.dst /\ last'.outputs = sent
      /\ last'.disposition = IF sent = {} THEN "dropped"
                             ELSE IF known THEN "switched" ELSE "flooded"
  BY DEF EnqueueOutputs, Classified, Nothing
<1>2. \A p \in sent : \E k \in DOMAIN r : r[k] = p
  BY DEF FateAt, Turn
<1> HIDE DEF sent
<1>3. CASE known
  <2>1. ~IsMulticast(g.dst) /\ host \in DOMAIN macs'
    BY <1>3 DEF IsKnownUnicast
  <2>2. r = <<macs'[host]>>
    BY <2>1 DEF L2Outputs
  <2>3. host \in DOMAIN lastSeen' /\ macs'[host] = lastSeen'[host]
    BY <2>1 DEF MacFollows
  <2> HIDE DEF host, r, v, g, known
  <2>4. sent \subseteq {lastSeen'[host]}
    BY <1>2, <2>2, <2>3
  <2>5. QED
    BY <1>1, <1>3, <2>3, <2>4 DEF UnicastFollowsHost, host
<1>4. CASE ~known
  <2>1. IsMulticast(g.dst) \/ host \notin DOMAIN macs'
    BY <1>4 DEF IsKnownUnicast
  <2>2. ASSUME ~IsMulticast(g.dst), host \in DOMAIN lastSeen'
        PROVE  Cardinality(DOMAIN macs') = MacCapacity
    <3>1. ~(Cardinality(DOMAIN macs') < MacCapacity)
      BY <2>1, <2>2 DEF MacFollows
    <3>2. /\ Cardinality(DOMAIN macs') <= MacCapacity
          /\ Cardinality(DOMAIN macs') \in Nat /\ MacCapacity \in Nat
      BY FS_CardinalityType, AsicAssumption DEF IInv, WithinCapacity
    <3>3. QED
      BY <3>1, <3>2
  <2> HIDE DEF host, r, v, g, known
  <2>3. QED
    BY <1>1, <1>4, <2>2 DEF UnicastFollowsHost, host
<1>5. QED
  BY <1>3, <1>4

FollowInv == MacFollows /\ UnicastFollowsHost

\* Every call keeps MAC entries and the last decision where hosts were heard.
LEMMA FollowStep == IInv /\ IInv' /\ FollowInv /\ [Next]_vars => FollowInv'
<1> SUFFICES ASSUME IInv, IInv', FollowInv, [Next]_vars PROVE FollowInv'
  OBVIOUS
<1> USE DEF portVars, l2Vars, l3Vars, pktVars
<1>1. ASSUME UNCHANGED <<macs, last, lastSeen>> PROVE FollowInv'
  BY <1>1 DEF FollowInv, MacFollows, UnicastFollowsHost
<1>2. ASSUME MacFollows', last'.disposition \notin {"switched", "flooded"}
      PROVE  FollowInv'
  BY <1>2 DEF FollowInv, UnicastFollowsHost
<1>3. ASSUME NEW i \in PortIds, NEW f \in Frames, NEW now \in Now,
             ProcessPacket(i, f, now)
      PROVE  FollowInv'
  <2>1. CASE RefusePacket(i)
    <3>1. last'.disposition = "dropped" /\ UNCHANGED <<macs, lastSeen>>
      BY <2>1, DropDisposition DEF RefusePacket
    <3>2. QED
      BY <1>2, <3>1 DEF FollowInv, MacFollows
  <2>2. CASE DropOnIngress(i, f)
    <3>1. last'.disposition = "dropped" /\ UNCHANGED <<macs, lastSeen>>
      BY <2>2, DropDisposition DEF DropOnIngress, IngressDrop
    <3>2. QED
      BY <1>2, <3>1 DEF FollowInv, MacFollows
  <2>3. CASE SwitchPacket(i, f)
    <3>1. MacFollows'
      BY <2>3, AcceptFollows, Zenon DEF SwitchPacket, FollowInv
    <3>2. \/ last' = Classified(Dropped("vlan_rejected", "filtered_frames"), i, f)
          \/ UnicastFollowsHost'
      BY <2>3, <3>1, SwitchFollows, Zenon DEF SwitchPacket
    <3>3. QED
      BY <1>2, <3>1, <3>2, DropDisposition DEF FollowInv
  <2>4. CASE ControlPacket(i, f, now)
    <3>1. MacFollows'
      BY <2>4, AcceptFollows, Zenon DEF ControlPacket, FollowInv
    <3>2. last'.disposition \in {"delivered_to_control_plane", "dropped"}
      BY <2>4 DEF ControlPacket, Classified, Dropped, Nothing
    <3>3. QED
      BY <1>2, <3>1, <3>2
  <2>5. CASE RoutePacket(i, f, now)
    <3>1. MacFollows'
      BY <2>5, AcceptFollows, Zenon DEF RoutePacket, FollowInv
    <3>2. last'.disposition \in {"routed", "dropped"}
      <4>1. CASE RouteDrop(f, now) # Nothing
        BY <2>5, <4>1, DropDisposition DEF RoutePacket, RouteDrop
      <4>2. CASE RouteDrop(f, now) = Nothing
        BY <2>5, <4>2, EnqueueResult DEF RoutePacket
      <4>3. QED
        BY <4>1, <4>2
    <3>3. QED
      BY <1>2, <3>1, <3>2
  <2>6. QED
    BY <1>3, <2>1, <2>2, <2>3, <2>4, <2>5 DEF ProcessPacket
<1>4. CASE DataPlane
  BY <1>1, <1>3, <1>4 DEF DataPlane, DequeuePacket
<1>5. CASE ControlPlane
  BY <1>1, <1>5 DEF ControlPlane, CreatePort, RemovePort, SetPortState, CreateVlan,
      RemoveVlan, AddVlanMember, SetRouterInterface, ConfigureFaults
<1>6. CASE RoutingPlane
  BY <1>1, <1>6 DEF RoutingPlane, AddOrReplaceRoute, RemoveRoute,
      AddOrReplaceNeighbor, RemoveNeighbor
<1>7. CASE UNCHANGED vars
  BY <1>1, <1>7 DEF vars
<1>8. QED
  BY <1>4, <1>5, <1>6, <1>7 DEF Next

\* A frame that process_packet reports as switched went to the one port its
\* destination was last heard on in that VLAN, also after the host moved and
\* also with a full table; a frame to a host that was heard is flooded only
\* if the MAC table is full.
THEOREM UnicastFollows == Spec => []UnicastFollowsHost
<1>1. Init => FollowInv
  <2>1. DOMAIN Empty = {}
    BY DEF Empty
  <2>2. ASSUME Init PROVE MacFollows /\ UnicastFollowsHost
    BY <2>1, <2>2 DEF Init, MacFollows, UnicastFollowsHost, Nothing
  <2>3. QED
    BY <2>2 DEF FollowInv
<1>2. FollowInv => UnicastFollowsHost
  BY DEF FollowInv
<1>3. QED
  BY <1>1, <1>2, InitIInv, IInvStep, FollowStep, PTL DEF Spec

-----------------------------------------------------------------------------
(* Routed frames take the best route *)

\* Numbers up to b, one of them at least, have a largest one.
LEMMA Largest ==
    ASSUME NEW b \in Nat, NEW S \in SUBSET (0 .. b), S # {}
    PROVE  \E n \in S : \A k \in S : k <= n
<1> DEFINE R == {ss \in Nat \X Nat : ss[1] < ss[2]}
           T == {b - n : n \in S}
<1>1. IsWellFoundedOn(R, Nat)
  BY NatLessThanWellFounded, Zenon DEF OpToRel
<1>2. T \subseteq Nat /\ T # {}
  <2>1. \A n \in S : b - n \in Nat
    OBVIOUS
  <2>2. QED
    BY <2>1, Zenon
<1> HIDE DEF R
<1>3. PICK t \in T : \A u \in T : ~(<<u, t>> \in R)
  <2> HIDE DEF T
  <2>1. QED
    BY <1>1, <1>2, WFMin
<1>4. \A u \in T : ~(u < t)
  BY <1>2, <1>3 DEF R
<1>5. PICK n \in S : t = b - n
  OBVIOUS
<1>6. ASSUME NEW k \in S PROVE k <= n
  <2>1. b - k \in T
    OBVIOUS
  <2>2. ~(b - k < b - n)
    BY <1>4, <1>5, <2>1
  <2>3. k \in 0 .. b /\ n \in 0 .. b
    OBVIOUS
  <2>4. QED
    BY <2>2, <2>3
<1>7. QED
  BY <1>6

RoutesKnown == DOMAIN routes \subseteq Prefixes

\* Routes are given for known prefixes only.
LEMMA RoutesKnownStep == RoutesKnown /\ [Next]_vars => RoutesKnown'
<1> SUFFICES ASSUME RoutesKnown, [Next]_vars PROVE RoutesKnown'
  OBVIOUS
<1> USE DEF portVars, l2Vars, l3Vars, pktVars, RoutesKnown
<1>1. CASE ControlPlane
  BY <1>1 DEF ControlPlane, CreatePort, RemovePort, SetPortState, CreateVlan,
      RemoveVlan, AddVlanMember, SetRouterInterface, ConfigureFaults
<1>2. CASE RoutingPlane
  BY <1>2 DEF RoutingPlane, AddOrReplaceRoute, RemoveRoute,
      AddOrReplaceNeighbor, RemoveNeighbor, Put, Remove
<1>3. CASE DataPlane
  <2>1. UNCHANGED routes
    <3>1. ASSUME NEW i, NEW f, NEW now, ProcessPacket(i, f, now)
          PROVE  UNCHANGED routes
      <4>1. CASE RefusePacket(i) \/ DropOnIngress(i, f)
        BY <4>1 DEF RefusePacket, DropOnIngress
      <4>2. CASE SwitchPacket(i, f)
        BY <4>2 DEF SwitchPacket
      <4>3. CASE ControlPacket(i, f, now)
        BY <4>3 DEF ControlPacket
      <4>4. CASE RoutePacket(i, f, now)
        BY <4>4 DEF RoutePacket
      <4>5. QED
        BY <3>1, <4>1, <4>2, <4>3, <4>4 DEF ProcessPacket
    <3>2. QED
      BY <1>3, <3>1 DEF DataPlane, DequeuePacket
  <2>2. QED
    BY <2>1
<1>4. CASE UNCHANGED vars
  BY <1>4 DEF vars
<1>5. QED
  BY <1>1, <1>2, <1>3, <1>4 DEF Next

\* longest_prefix_match finds a route, and none that matches is longer.
LEMMA BestMatch ==
    ASSUME RoutesKnown, NEW ip, Matching(ip) # {}
    PROVE  LET x == LongestPrefixMatch(Matching(ip), PrefixLength) IN
           /\ x \in DOMAIN routes /\ ip \in PrefixAddresses[x]
           /\ \A y \in DOMAIN routes :
                 ip \in PrefixAddresses[y] => PrefixLength[y] <= PrefixLength[x]
<1> DEFINE M == Matching(ip)
           S == {PrefixLength[y] : y \in M}
<1>1. \A y \in M : PrefixLength[y] \in 0 .. 32
  BY AsicAssumption DEF Matching, RoutesKnown
<1>2. 32 \in Nat /\ S \in SUBSET (0 .. 32) /\ S # {}
  BY <1>1
<1>3. PICK n \in S : \A k \in S : k <= n
  <2> HIDE DEF S
  <2>1. QED
    BY <1>2, Largest
<1>4. \E x \in M : \A y \in M : PrefixLength[y] <= PrefixLength[x]
  <2> HIDE DEF M
  <2>1. QED
    BY <1>3
<1> HIDE DEF M
<1>5. LET x == LongestPrefixMatch(M, PrefixLength) IN
      x \in M /\ \A y \in M : PrefixLength[y] <= PrefixLength[x]
  BY <1>4, Zenon DEF LongestPrefixMatch
<1>6. QED
  BY <1>5, Zenon DEF M, Matching

BestRouteAt(p) ==
    LET g == queues'[p][Len(queues'[p])]
    IN  \E x \in DOMAIN routes :
           LET hop == IF routes[x].nextHop = NoIp THEN g.ip ELSE routes[x].nextHop
           IN  /\ routes[x].port = p /\ g.ip \in PrefixAddresses[x]
               /\ \A y \in DOMAIN routes :
                     g.ip \in PrefixAddresses[y] => PrefixLength[y] <= PrefixLength[x]
               /\ g.src = PortMac[p] /\ g.ttl >= 1
               /\ hop \in DOMAIN neighbors
               /\ g.dst \in {neighbors[hop].mac, FlipGroupBit(neighbors[hop].mac)}

RoutedStep ==
    \A p \in DOMAIN queues \cap DOMAIN queues' :
        Len(queues'[p]) > Len(queues[p]) /\ last'.disposition = "routed"
            => BestRouteAt(p)

\* The frame the router makes of a packet that it does not drop
LEMMA EncapsulatedFacts ==
    ASSUME IInv, NEW f \in Frame, NEW now, RouteDrop(f, now) = Nothing
    PROVE  /\ Matching(f.ip) # {} /\ NextHop(f.ip) \in DOMAIN neighbors
           /\ Encapsulated(f) \in Frame
           /\ Encapsulated(f).ip = f.ip /\ Encapsulated(f).ttl >= 1
           /\ Encapsulated(f).src = PortMac[Route(f.ip).port]
           /\ Encapsulated(f).dst = neighbors[NextHop(f.ip)].mac
<1>1. /\ ~(f.ttl <= 1) /\ Matching(f.ip) # {}
      /\ NextHop(f.ip) \in DOMAIN neighbors
  BY DropIsSomething DEF RouteDrop, Resolved
<1>2. Encapsulated(f) \in Frame
  BY EncapsulatedType DEF IInv
<1> DEFINE src == PortMac[Route(f.ip).port]
           dst == neighbors[NextHop(f.ip)].mac
<1>3. Encapsulated(f) = [f EXCEPT !.src = src, !.dst = dst, !.tag = NoVlan,
                                  !.ttl = f.ttl - 1]
  BY DEF Encapsulated
<1> HIDE DEF src, dst
<1>4. /\ Encapsulated(f).ip = f.ip /\ Encapsulated(f).ttl = f.ttl - 1
      /\ Encapsulated(f).src = src /\ Encapsulated(f).dst = dst
  BY <1>3 DEF Frame
<1>5. f.ttl \in Nat
  BY DEF Frame
<1>6. Encapsulated(f).ttl >= 1
  BY <1>1, <1>4, <1>5
<1>7. QED
  BY <1>1, <1>2, <1>4, <1>6 DEF src, dst

\* The route that forwarding chooses is a longest match.
LEMMA RouteIsBest ==
    ASSUME IInv, RoutesKnown, NEW i, NEW f \in Frame, NEW now,
           RoutePacket(i, f, now),
           NEW p \in DOMAIN queues, Len(queues'[p]) > Len(queues[p])
    PROVE  BestRouteAt(p)
<1>1. queues[p] \in Seq(Frame) /\ ~(queues'[p] = queues[p])
  BY DEF IInv, TypeOK
<1>2. RouteDrop(f, now) = Nothing
  BY <1>1 DEF RoutePacket, portVars
<1>3. EnqueueOutputs("routed", <<Route(f.ip).port>>, Encapsulated(f), i, f)
  BY <1>2 DEF RoutePacket
<1> DEFINE e == Encapsulated(f)
           x == LongestPrefixMatch(Matching(f.ip), PrefixLength)
           r == <<Route(f.ip).port>>
<1>4. /\ Matching(f.ip) # {} /\ NextHop(f.ip) \in DOMAIN neighbors
      /\ e \in Frame /\ e.ip = f.ip /\ e.ttl >= 1
      /\ e.src = PortMac[Route(f.ip).port]
      /\ e.dst = neighbors[NextHop(f.ip)].mac
  BY <1>2, EncapsulatedFacts, Zenon
<1>5. /\ x \in DOMAIN routes /\ f.ip \in PrefixAddresses[x]
      /\ \A y \in DOMAIN routes :
            f.ip \in PrefixAddresses[y] => PrefixLength[y] <= PrefixLength[x]
  BY <1>4, BestMatch, Zenon
<1>6. /\ \E k \in DOMAIN r : r[k] = p
      /\ \E verdict : queues'[p] = Append(queues[p], Injected(verdict, e))
  <2>1. ASSUME NEW d, NEW out, NEW g \in Frame, EnqueueOutputs(d, out, g, i, f)
        PROVE  /\ \E k \in DOMAIN out : out[k] = p
               /\ \E verdict : queues'[p] = Append(queues[p], Injected(verdict, g))
    <3>1. \/ queues'[p] = queues[p]
          \/ /\ FrameSize(g) <= Mtu /\ \E k \in DOMAIN out : out[k] = p
             /\ \E verdict : queues'[p] = Append(queues[p], Injected(verdict, g))
      BY <2>1, EnqueueAppends, Zenon
    <3>2. QED
      BY <1>1, <3>1, Zenon
  <2>2. e \in Frame /\ EnqueueOutputs("routed", r, e, i, f)
    BY <1>3, <1>4
  <2> HIDE DEF e, r
  <2>3. QED
    BY <2>1, <2>2, Zenon
<1>7. Route(f.ip).port = p /\ Route(f.ip) = routes[x]
  <2>1. Route(f.ip).port = p
    BY <1>6
  <2>2. QED
    BY <2>1, Zenon DEF Route
<1>8. NextHop(f.ip) = IF routes[x].nextHop = NoIp THEN f.ip ELSE routes[x].nextHop
  BY <1>7, Zenon DEF NextHop
<1> HIDE DEF e, x, r
<1>9. PICK verdict : queues'[p] = Append(queues[p], Injected(verdict, e))
  BY <1>6
<1> DEFINE c == Injected(verdict, e)
<1>10. /\ c \in Frame /\ c.ip = e.ip /\ c.src = e.src /\ c.ttl = e.ttl
       /\ c.dst \in {e.dst, FlipGroupBit(e.dst)}
  BY <1>4, InjectedKeeps, Zenon
<1> HIDE DEF c
<1>11. queues'[p][Len(queues'[p])] = c
  BY <1>1, <1>9, <1>10 DEF c
<1>12. QED
  BY <1>4, <1>5, <1>7, <1>8, <1>10, <1>11, Zenon DEF BestRouteAt

\* Every frame that is routed follows the best route.
LEMMA StepRouted == IInv /\ RoutesKnown /\ [Next]_vars => [RoutedStep]_vars
<1> SUFFICES ASSUME IInv, RoutesKnown, [Next]_vars,
                    NEW p \in DOMAIN queues \cap DOMAIN queues',
                    Len(queues'[p]) > Len(queues[p]), last'.disposition = "routed"
             PROVE  BestRouteAt(p)
  BY Zenon DEF RoutedStep
<1> USE DEF portVars, l2Vars, l3Vars, pktVars
<1>1. queues[p] \in Seq(Frame) /\ ~(queues'[p] = queues[p]) /\ queues' # queues
  BY DEF IInv, TypeOK
<1>2. ASSUME queues[p] # <<>>, queues'[p] = Tail(queues[p]) PROVE FALSE
  BY <1>1, <1>2
<1>3. ~ControlPlane /\ ~RoutingPlane /\ ~(UNCHANGED vars)
  <2>1. ASSUME NEW q \in PortIds, NEW c \in PortConfigs, CreatePort(q, c) PROVE FALSE
    BY <1>1, <2>1 DEF CreatePort, Put, IInv, TablesConsistent
  <2>2. ASSUME NEW q \in PortIds, RemovePort(q) PROVE FALSE
    BY <1>1, <2>2 DEF RemovePort, Remove
  <2>3. ~ControlPlane
    BY <1>1, <2>1, <2>2 DEF ControlPlane, SetPortState, CreateVlan, RemoveVlan,
        AddVlanMember, SetRouterInterface, ConfigureFaults
  <2>4. ~RoutingPlane
    BY <1>1 DEF RoutingPlane, AddOrReplaceRoute, RemoveRoute,
        AddOrReplaceNeighbor, RemoveNeighbor
  <2>5. QED
    BY <1>1, <2>3, <2>4 DEF vars
<1>4. ASSUME NEW q \in PortIds, DequeuePacket(q) PROVE FALSE
  BY <1>1, <1>2, <1>4 DEF DequeuePacket
<1>5. PICK i \in PortIds, f \in Frames, now \in Now : ProcessPacket(i, f, now)
  BY <1>3, <1>4 DEF Next, DataPlane
<1>6. f \in Frame
  BY AsicAssumption
<1>7. CASE RoutePacket(i, f, now)
  BY <1>6, <1>7, RouteIsBest, Zenon
<1>8. CASE SwitchPacket(i, f)
  \* Not reported as routed
  <2>1. \/ last' = Classified(Dropped("vlan_rejected", "filtered_frames"), i, f)
        \/ \E r : EnqueueOutputs("switched", r, Arrived(i, f), i, f)
        \/ \E r : EnqueueOutputs("flooded", r, Arrived(i, f), i, f)
    BY <1>8, Zenon DEF SwitchPacket
  <2>2. last'.disposition # "routed"
    BY <2>1, EnqueueResult, DropDisposition
  <2>3. QED
    BY <2>2
<1>9. CASE RefusePacket(i) \/ DropOnIngress(i, f) \/ ControlPacket(i, f, now)
  BY <1>1, <1>9 DEF RefusePacket, DropOnIngress, ControlPacket
<1>10. QED
  BY <1>5, <1>7, <1>8, <1>9 DEF ProcessPacket

\* Whatever routes, neighbours and ports come and go: a frame that
\* process_packet routes leaves through the port of the longest prefix that
\* holds its destination, addressed to the neighbour the next hop resolves to,
\* with a TTL of at least 1.
THEOREM RoutedBest == Spec => RoutedByBestRoute
<1>1. Init => RoutesKnown
  BY DEF Init, Empty, RoutesKnown
<1>2. QED
  BY <1>1, InitIInv, IInvStep, RoutesKnownStep, StepRouted, PTL
     DEF Spec, RoutedByBestRoute, RoutedStep, BestRouteAt
=============================================================================
