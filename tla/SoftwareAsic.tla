----------------------------- MODULE SoftwareAsic -----------------------------
(***************************************************************************)
(* asic/software_asic.cpp: the software switch behind the SwitchAsic       *)
(* interface.  The control-plane calls program ports, VLANs, router        *)
(* interfaces, routes, neighbours and faults; process_packet takes one     *)
(* frame from an ingress port through fault injection, parsing, VLAN       *)
(* classification, MAC learning, switching or routing into the egress      *)
(* queues.  A call that returns an error status changes nothing and is not *)
(* an action.  Byte counters, latencies and port speed are left out, and   *)
(* of the monotone traffic counters last keeps what one packet adds.       *)
(***************************************************************************)
EXTENDS SwitchForwarding

CONSTANTS
    PortIds, Vlans,      \* identifiers the caller may use
    PortConfigs,         \* VLAN configurations the caller may give a port
    PortMac,             \* port |-> its MAC address
    RouterMacs,          \* MAC addresses offered as router interfaces
    Mtu,                 \* MTU of every port
    QueueCapacity,       \* capacity of every egress queue
    MacCapacity,         \* mac_table_capacity
    Prefixes, PrefixAddresses, PrefixLength,   \* IPv4 prefixes
    NextHops,            \* gateways of routes; NoIp is a connected route
    HostIps,             \* addresses the ARP cache accepts
    NeighborMacs,        \* MAC addresses offered as neighbours
    ArpLifetime,         \* entry lifetime of the ARP cache
    FaultConfigs,        \* fault configurations the caller may set
    Frames,              \* frames that arrive
    Now,                 \* time points callers pass
    MaxProcessed         \* bound: packets counted by the fault injector

NoFaults == [failedPorts |-> {}, resourceExhausted |-> FALSE,
             dropEveryNth |-> 0, corruptEveryNth |-> 0]

ASSUME AsicAssumption ==
    /\ \A c \in PortConfigs : ValidConfig(c) /\ c.allowed \subseteq Vlans
    /\ NoVlan \notin Vlans
    /\ Frames \subseteq Frame
    /\ PortMac \in [PortIds -> Nat] /\ NeighborMacs \subseteq Nat
    /\ \A x \in Prefixes : PrefixLength[x] \in 0 .. 32
    /\ Mtu \in Nat
    /\ QueueCapacity \in Nat \ {0}
    /\ MacCapacity \in Nat \ {0}
    /\ MaxProcessed \in Nat

VARIABLES
    ports,       \* ports_: port |-> its VLAN configuration, state and counters
    queues,      \* queues_: port |-> frames waiting
    vlans,       \* vlans_
    members,     \* vlan_members_, <<>> for a VLAN without entry
    routers,     \* router_interfaces_: VLAN |-> MAC
    macs,        \* mac_table_
    routes,      \* route_table_: prefix |-> output port and next hop
    neighbors,   \* arp_cache_
    faults,      \* fault_injector_'s configuration
    processed,   \* fault_injector_'s processed_packets_
    last,        \* what process_packet returned last
    taken,       \* port |-> packets dequeued since the port was created
    lastSeen     \* <<vlan, mac>> |-> port its last accepted frame came in on

portVars == <<ports, queues, taken>>
l2Vars   == <<vlans, members, routers>>
l3Vars   == <<routes, neighbors>>
pktVars  == <<macs, processed, last, lastSeen>>
vars     == <<portVars, l2Vars, l3Vars, faults, pktVars>>

Counters == {"parse_errors", "route_misses", "ttl_expirations", "vlan_drops",
             "neighbor_misses", "filtered_frames", "queue_drops",
             "fault_drops", "resource_exhaustion"}

Port == [config: PortConfigs, admin: BOOLEAN, link: BOOLEAN,
         transmitted: Nat, transmitErrors: Nat]

\* A map with one key set, and a map without a key.
Put(map, key, value) ==
    [k \in DOMAIN map \cup {key} |-> IF k = key THEN value ELSE map[k]]
Remove(map, key) == [k \in DOMAIN map \ {key} |-> map[k]]

Empty == [k \in {} |-> {}]

Operational(p) == p \in DOMAIN ports /\ ports[p].admin /\ ports[p].link

\* What process_packet returns and what it adds to statistics_; vlan, dst and
\* ingress are those of the frame once it is classified.
Nothing == [disposition |-> "none", reason |-> "none", outputs |-> {},
            counted |-> [c \in Counters |-> 0],
            vlan |-> NoVlan, dst |-> 0, ingress |-> {}]

\* dropped(reason) after incrementing one counter, or none at all.
Dropped(reason, counter) ==
    [Nothing EXCEPT !.disposition = "dropped", !.reason = reason,
                    !.counted = [c \in Counters |-> IF c = counter THEN 1 ELSE 0]]

Init ==
    /\ ports = Empty /\ queues = Empty /\ taken = Empty
    /\ vlans = {} /\ members = [v \in Vlans |-> <<>>] /\ routers = Empty
    /\ macs = Empty /\ routes = Empty /\ neighbors = Empty
    /\ faults = NoFaults /\ processed = 0
    /\ last = Nothing
    /\ lastSeen = Empty

-----------------------------------------------------------------------------
(* The control plane *)

\* create_port; a VirtualPort starts disabled and without link.
CreatePort(p, c) ==
    /\ p \notin DOMAIN ports
    /\ ports' = Put(ports, p, [config |-> c, admin |-> FALSE, link |-> FALSE,
                               transmitted |-> 0, transmitErrors |-> 0])
    /\ queues' = Put(queues, p, <<>>)
    /\ taken' = Put(taken, p, 0)
    /\ UNCHANGED <<l2Vars, l3Vars, faults, pktVars>>

\* Mutant: the port stays in the member lists.
RemovePort_KeepMembers(p) ==
    /\ p \in DOMAIN ports
    /\ ports' = Remove(ports, p)
    /\ queues' = Remove(queues, p)
    /\ taken' = Remove(taken, p)
    /\ UNCHANGED <<l2Vars, l3Vars, faults, pktVars>>

\* remove_port: the port leaves the member lists and loses its queue; what the
\* MAC table, the routes and the neighbours say about it stays.
RemovePort(p) ==
    /\ p \in DOMAIN ports
    /\ members' = [v \in Vlans |-> Without(members[v], p)]
    /\ ports' = Remove(ports, p)
    /\ queues' = Remove(queues, p)
    /\ taken' = Remove(taken, p)
    /\ UNCHANGED <<vlans, routers, l3Vars, faults, pktVars>>

SetPortState(p, admin, link) ==
    /\ p \in DOMAIN ports
    /\ ports' = [ports EXCEPT ![p] = [@ EXCEPT !.admin = admin, !.link = link]]
    /\ UNCHANGED <<queues, taken, l2Vars, l3Vars, faults, pktVars>>

CreateVlan(v) ==
    /\ v \notin vlans
    /\ vlans' = vlans \cup {v}
    /\ UNCHANGED <<portVars, members, routers, l3Vars, faults, pktVars>>

\* remove_vlan: refused while the VLAN has members or a router interface.
RemoveVlan(v) ==
    /\ v \in vlans
    /\ members[v] = <<>>
    /\ v \notin DOMAIN routers
    /\ vlans' = vlans \ {v}
    /\ UNCHANGED <<portVars, members, routers, l3Vars, faults, pktVars>>

AddVlanMember(v, p) ==
    /\ v \in vlans /\ p \in DOMAIN ports
    /\ ~InSeq(p, members[v])
    /\ v \in ports[p].config.allowed
    /\ members' = [members EXCEPT ![v] = Append(@, p)]
    /\ UNCHANGED <<portVars, vlans, routers, l3Vars, faults, pktVars>>

SetRouterInterface(v, m) ==
    /\ v \in vlans
    /\ IsHostMac(m)
    /\ routers' = Put(routers, v, m)
    /\ UNCHANGED <<portVars, vlans, members, l3Vars, faults, pktVars>>

AddOrReplaceRoute(x, p, hop) ==
    /\ p \in DOMAIN ports
    /\ routes' = Put(routes, x, [port |-> p, nextHop |-> hop])
    /\ UNCHANGED <<portVars, l2Vars, neighbors, faults, pktVars>>

RemoveRoute(x) ==
    /\ x \in DOMAIN routes
    /\ routes' = Remove(routes, x)
    /\ UNCHANGED <<portVars, l2Vars, neighbors, faults, pktVars>>

\* ArpCache::add_or_replace, which rejects addresses no host can have.
Neighbors(ip, m, t) ==
    IF ip \in HostIps /\ IsHostMac(m)
    THEN Put(neighbors, ip, [mac |-> m, learnedAt |-> t])
    ELSE neighbors

AddOrReplaceNeighbor(ip, m, t) ==
    /\ neighbors' = Neighbors(ip, m, t)
    /\ UNCHANGED <<portVars, l2Vars, routes, faults, pktVars>>

RemoveNeighbor(ip) ==
    /\ ip \in DOMAIN neighbors
    /\ neighbors' = Remove(neighbors, ip)
    /\ UNCHANGED <<portVars, l2Vars, routes, faults, pktVars>>

\* configure_faults; the packet count of the injector goes on.
ConfigureFaults(c) ==
    /\ faults' = c
    /\ UNCHANGED <<portVars, l2Vars, l3Vars, pktVars>>

\* dequeue_packet from a queue that holds something.
DequeuePacket(p) ==
    /\ p \in DOMAIN queues /\ queues[p] # <<>>
    /\ queues' = [queues EXCEPT ![p] = Tail(@)]
    /\ taken' = [taken EXCEPT ![p] = @ + 1]
    /\ UNCHANGED <<ports, l2Vars, l3Vars, faults, pktVars>>

-----------------------------------------------------------------------------
(* The data plane: process_packet *)

IngressVerdict(i) == FaultVerdict(faults, i, processed + 1)

\* The frame the parser sees and the VLAN it is classified into.
Arrived(i, f) == Injected(IngressVerdict(i), f)
VlanOf(i, f)  == IngressVlan(ports[i].config, Arrived(i, f))

\* Why a frame gets no further than learning, and what counts it.  The MTU
\* is compared with the payload alone, and its drop shows only in the port's
\* own counters.
IngressDrop(i, f) ==
    LET g == Arrived(i, f)
    IN  CASE IngressVerdict(i) = "resource_exhaustion" ->
               Dropped("resource_exhaustion", "resource_exhaustion")
          [] IngressVerdict(i) \in {"failed_port", "packet_loss"} ->
               Dropped("injected_fault", "fault_drops")
          [] OTHER ->
        IF g.type = "malformed" THEN Dropped("malformed_frame", "parse_errors")
        ELSE IF g.size > Mtu THEN Dropped("ingress_port_unavailable", "none")
        ELSE IF VlanOf(i, f) = NoVlan THEN Dropped("vlan_rejected", "vlan_drops")
        ELSE IF ~IsHostMac(g.src) THEN Dropped("vlan_rejected", "filtered_frames")
        ELSE Nothing

\* The port is gone or down: nothing is touched, not even a counter.
RefusePacket(i) ==
    /\ ~Operational(i)
    /\ last' = Dropped("ingress_port_unavailable", "none")
    /\ UNCHANGED <<portVars, l2Vars, l3Vars, faults, macs, processed, lastSeen>>

DropOnIngress(i, f) ==
    /\ Operational(i)
    /\ IngressDrop(i, f) # Nothing
    /\ last' = IngressDrop(i, f)
    /\ processed' = processed + 1
    /\ UNCHANGED <<portVars, l2Vars, l3Vars, faults, macs, lastSeen>>

\* Classification and learning, which come before every later decision.
Accept(i, f) ==
    LET v == VlanOf(i, f)
    IN  /\ Operational(i)
        /\ IngressDrop(i, f) = Nothing
        /\ macs' = Learn(macs, MacCapacity, v, f.src, i)
        /\ lastSeen' = Put(lastSeen, <<v, f.src>>, i)

\* The same result, with the classification of the frame recorded.
Classified(result, i, f) ==
    [result EXCEPT !.vlan = VlanOf(i, f), !.dst = Arrived(i, f).dst,
                   !.ingress = {i}]

ForRouter(i, f) ==
    /\ VlanOf(i, f) \in DOMAIN routers
    /\ Arrived(i, f).dst = routers[VlanOf(i, f)]

-----------------------------------------------------------------------------
(* enqueue_outputs.  The ports are distinct, so each has a fate of its own; *)
(* each of them that is up draws the next number of the fault injector.     *)

\* The numbers drawn up to the k-th requested port, ports that are down skipped.
Drawn(requested, k) == Cardinality({j \in 1 .. k : Operational(requested[j])})

EgressVerdict(requested, k) ==
    FaultVerdict(faults, requested[k], processed + 1 + Drawn(requested, k))

\* Mutant: the size test of an egress port looks at the payload.
EgressFate_Payload(p, verdict, g) ==
    CASE verdict = "resource_exhaustion" -> "resource_exhaustion"
      [] verdict \in {"failed_port", "packet_loss"} -> "fault_drops"
      [] OTHER -> IF g.size > Mtu THEN "oversize"
                  ELSE IF Len(queues[p]) >= QueueCapacity THEN "queue_drops"
                  ELSE "sent"

\* What becomes of a copy of frame g at port p: the counter it adds to, "sent",
\* or "oversize", which only the port's transmit errors show.
EgressFate(p, verdict, g) ==
    CASE verdict = "resource_exhaustion" -> "resource_exhaustion"
      [] verdict \in {"failed_port", "packet_loss"} -> "fault_drops"
      [] OTHER -> IF FrameSize(g) > Mtu THEN "oversize"
                  ELSE IF Len(queues[p]) >= QueueCapacity THEN "queue_drops"
                  ELSE "sent"

\* Mutant: the port counts a frame before the queue has taken it.
Transmit_BeforeQueue(port, fate) ==
    [port EXCEPT !.transmitted = IF fate \in {"sent", "queue_drops"} THEN @ + 1 ELSE @,
                 !.transmitErrors = IF fate = "oversize" THEN @ + 1 ELSE @]

\* VirtualPort::transmit, called for an oversize frame or after enqueueing.
Transmit(port, fate) ==
    [port EXCEPT !.transmitted = IF fate = "sent" THEN @ + 1 ELSE @,
                 !.transmitErrors = IF fate = "oversize" THEN @ + 1 ELSE @]

Turn(requested, p) ==
    {k \in DOMAIN requested : requested[k] = p /\ Operational(p)}

VerdictAt(requested, p) ==
    EgressVerdict(requested, CHOOSE k \in Turn(requested, p) : TRUE)

FateAt(requested, p, g) ==
    IF Turn(requested, p) = {} THEN "none"
    ELSE EgressFate(p, VerdictAt(requested, p), g)

EnqueueOutputs(disposition, requested, g, i, f) ==
    LET sent == {p \in DOMAIN ports : FateAt(requested, p, g) = "sent"}
    IN  /\ processed' = processed + 1 + Drawn(requested, Len(requested))
        /\ queues' = [p \in DOMAIN queues |->
                         IF p \in sent
                         THEN Append(queues[p], Injected(VerdictAt(requested, p), g))
                         ELSE queues[p]]
        /\ ports' = [p \in DOMAIN ports |-> Transmit(ports[p], FateAt(requested, p, g))]
        /\ last' = Classified(
               [Nothing EXCEPT
                  !.disposition = IF sent = {} THEN "dropped" ELSE disposition,
                  !.reason = IF sent = {} THEN "queue_congestion" ELSE "none",
                  !.outputs = sent,
                  !.counted = [c \in Counters |->
                      Cardinality({p \in DOMAIN ports : FateAt(requested, p, g) = c})]], i, f)
        /\ UNCHANGED taken

\* The Layer-2 branch: the decision is taken on the updated table.
SwitchPacket(i, f) ==
    LET v       == VlanOf(i, f)
        g       == Arrived(i, f)
        outputs == L2Outputs(macs', v, g.dst, i, members[v])
    IN  /\ Accept(i, f)
        /\ ~ForRouter(i, f)
        /\ IF outputs = <<>>
           THEN /\ last' = Classified(Dropped("vlan_rejected", "filtered_frames"), i, f)
                /\ processed' = processed + 1
                /\ UNCHANGED portVars
           ELSE EnqueueOutputs(IF IsKnownUnicast(macs', v, g.dst)
                               THEN "switched" ELSE "flooded", outputs, g, i, f)
        /\ UNCHANGED <<l2Vars, l3Vars, faults>>

\* Frames to a router interface that are not IPv4: the sender of an ARP packet
\* becomes a neighbour if the cache takes it, anything else is filtered.  NoIp
\* stands for a message that does not parse; the sender 0.0.0.0 of a probe is
\* one of the addresses outside HostIps that the cache refuses.
ControlPacket(i, f, now) ==
    /\ Accept(i, f)
    /\ ForRouter(i, f) /\ f.type # "ipv4"
    /\ processed' = processed + 1
    /\ neighbors' = IF f.type = "arp" /\ f.ip # NoIp
                    THEN Neighbors(f.ip, f.mac, now) ELSE neighbors
    /\ last' = Classified(
           CASE f.type = "arp" /\ f.ip # NoIp ->
                  [Nothing EXCEPT !.disposition = "delivered_to_control_plane"]
             [] f.type = "arp" /\ f.ip = NoIp ->
                  Dropped("malformed_frame", "parse_errors")
             [] OTHER -> Dropped("vlan_rejected", "filtered_frames"), i, f)
    /\ UNCHANGED <<portVars, l2Vars, routes, faults>>

\* longest_prefix_match: the routes that contain ip, and the best of them.
Matching(ip) == {x \in DOMAIN routes : ip \in PrefixAddresses[x]}
Route(ip) == routes[LongestPrefixMatch(Matching(ip), PrefixLength)]

\* The next hop is the gateway, or the destination of a connected route.
NextHop(ip) == IF Route(ip).nextHop = NoIp THEN ip ELSE Route(ip).nextHop

\* ArpCache::lookup finds an entry that has not expired.
Resolved(ip, now) ==
    ip \in DOMAIN neighbors /\ ~IsExpired(neighbors[ip], now, ArpLifetime)

\* Why a packet is not routed; the TTL is looked at before the routes.  The
\* other failures of the encapsulation cannot happen here: a port has a unicast
\* MAC address of its own (invalid_source_mac), and a packet that came in an
\* Ethernet frame fits into one (packet_too_large).
RouteDrop(f, now) ==
    IF f.ip = NoIp THEN Dropped("malformed_ipv4", "parse_errors")
    ELSE IF f.ttl <= 1 THEN Dropped("ttl_expired", "ttl_expirations")
    ELSE IF Matching(f.ip) = {} THEN Dropped("route_miss", "route_misses")
    ELSE IF ~Operational(Route(f.ip).port)
         THEN Dropped("egress_port_unavailable", "none")
    ELSE IF ~Resolved(NextHop(f.ip), now)
         THEN Dropped("neighbor_miss", "neighbor_misses")
    ELSE Nothing

\* encapsulate_ipv4_in_ethernet: an untagged frame from the egress port.
Encapsulated(f) ==
    [f EXCEPT !.src = PortMac[Route(f.ip).port],
              !.dst = neighbors[NextHop(f.ip)].mac,
              !.tag = NoVlan, !.ttl = @ - 1]

RoutePacket(i, f, now) ==
    /\ Accept(i, f)
    /\ ForRouter(i, f) /\ f.type = "ipv4"
    /\ IF RouteDrop(f, now) # Nothing
       THEN /\ last' = Classified(RouteDrop(f, now), i, f)
            /\ processed' = processed + 1
            /\ UNCHANGED portVars
       ELSE EnqueueOutputs("routed", <<Route(f.ip).port>>, Encapsulated(f), i, f)
    /\ UNCHANGED <<l2Vars, l3Vars, faults>>

\* process_packet(i, f, now); processed is bounded for the model checker.
ProcessPacket(i, f, now) ==
    /\ processed < MaxProcessed
    /\ \/ RefusePacket(i)
       \/ DropOnIngress(i, f)
       \/ SwitchPacket(i, f)
       \/ ControlPacket(i, f, now)
       \/ RoutePacket(i, f, now)

-----------------------------------------------------------------------------
ControlPlane ==
    \/ \E p \in PortIds : \/ \E c \in PortConfigs : CreatePort(p, c)
                          \/ RemovePort(p)
                          \/ \E a, l \in BOOLEAN : SetPortState(p, a, l)
    \/ \E v \in Vlans : \/ CreateVlan(v)
                        \/ RemoveVlan(v)
                        \/ \E p \in PortIds : AddVlanMember(v, p)
                        \/ \E m \in RouterMacs : SetRouterInterface(v, m)
    \/ \E c \in FaultConfigs : ConfigureFaults(c)

RoutingPlane ==
    \/ \E x \in Prefixes : \/ \E p \in PortIds, h \in NextHops : AddOrReplaceRoute(x, p, h)
                           \/ RemoveRoute(x)
    \/ \E ip \in HostIps : \/ \E m \in NeighborMacs, t \in Now : AddOrReplaceNeighbor(ip, m, t)
                           \/ RemoveNeighbor(ip)

DataPlane ==
    \/ \E i \in PortIds, f \in Frames, now \in Now : ProcessPacket(i, f, now)
    \/ \E p \in PortIds : DequeuePacket(p)

Next == ControlPlane \/ RoutingPlane \/ DataPlane

Spec == Init /\ [][Next]_vars

-----------------------------------------------------------------------------
(* Properties *)

NoDuplicates(s) == \A i, j \in DOMAIN s : s[i] = s[j] => i = j

\* The types of the tables and counters.
TypeOK ==
    /\ DOMAIN ports \subseteq PortIds
    /\ \A p \in DOMAIN ports : ports[p] \in Port
    /\ \A p \in DOMAIN queues : queues[p] \in Seq(Frame)
    /\ DOMAIN taken = DOMAIN ports /\ \A p \in DOMAIN taken : taken[p] \in Nat
    /\ vlans \subseteq Vlans
    /\ members \in [Vlans -> Seq(PortIds)]
    /\ DOMAIN routers \subseteq Vlans
    /\ \A ip \in DOMAIN neighbors : neighbors[ip].mac \in Nat
    /\ processed \in Nat
    /\ DOMAIN macs \subseteq DOMAIN lastSeen

\* The tables fit together after any sequence of calls: every port has a
\* queue, a member list names existing ports that allow the VLAN, each once,
\* and only existing VLANs have members or a router interface (remove_port,
\* remove_vlan and add_vlan_member keep this between them).
TablesConsistent ==
    /\ DOMAIN queues = DOMAIN ports
    /\ \A v \in Vlans :
          /\ NoDuplicates(members[v])
          /\ \A k \in DOMAIN members[v] :
                /\ members[v][k] \in DOMAIN ports
                /\ v \in ports[members[v][k]].config.allowed
          /\ v \notin vlans => members[v] = <<>> /\ v \notin DOMAIN routers

\* No table or queue outgrows its capacity.
WithinCapacity ==
    /\ \A p \in DOMAIN queues : Len(queues[p]) <= QueueCapacity
    /\ Cardinality(DOMAIN macs) <= MacCapacity

\* transmitted_packets of a port counts the frames put in its queue, each once,
\* although enqueueing and counting are two calls that can each refuse.
TransmittedIsQueued ==
    \A p \in DOMAIN ports : ports[p].transmitted = Len(queues[p]) + taken[p]

\* A unicast frame switched to one port goes where its destination was last
\* heard in that VLAN, and is flooded although the destination was heard only
\* if the MAC table is full.
UnicastFollowsHost ==
    LET host == <<last.vlan, last.dst>>
    IN  /\ last.disposition = "switched" =>
              host \in DOMAIN lastSeen /\ last.outputs = {lastSeen[host]}
        /\ last.disposition = "flooded" /\ ~IsMulticast(last.dst)
              /\ host \in DOMAIN lastSeen
              => Cardinality(DOMAIN macs) = MacCapacity

\* A queued frame fits the MTU of its port, headers included.
QueuedFits ==
    \A p \in DOMAIN queues : \A k \in DOMAIN queues[p] :
        FrameSize(queues[p][k]) <= Mtu

\* VLAN isolation: a switched or flooded frame enters only queues of operational
\* ports that allow its VLAN, as the port it came from does, never the queue of
\* that port itself, and a queue grows by at most one frame per packet.
Isolation ==
    [][\A p \in DOMAIN queues \cap DOMAIN queues' :
          Len(queues'[p]) > Len(queues[p]) =>
             /\ Operational(p)
             /\ Len(queues'[p]) = Len(queues[p]) + 1
             /\ last'.disposition \in {"switched", "flooded"} =>
                   /\ p \notin last'.ingress
                   /\ \A q \in last'.ingress \cup {p} :
                         last'.vlan \in ports[q].config.allowed]_vars

\* A routed frame leaves through the port of the longest prefix that holds its
\* destination, from that port's address to the neighbour its next hop resolves
\* to, with a TTL that is still alive, or corrupted on the way out.
RoutedByBestRoute ==
    [][\A p \in DOMAIN queues \cap DOMAIN queues' :
          Len(queues'[p]) > Len(queues[p]) /\ last'.disposition = "routed" =>
             LET g == queues'[p][Len(queues'[p])]
             IN  \E x \in DOMAIN routes :
                    LET hop == IF routes[x].nextHop = NoIp THEN g.ip ELSE routes[x].nextHop
                    IN  /\ routes[x].port = p /\ g.ip \in PrefixAddresses[x]
                        /\ \A y \in DOMAIN routes :
                              g.ip \in PrefixAddresses[y] => PrefixLength[y] <= PrefixLength[x]
                        /\ g.src = PortMac[p] /\ g.ttl >= 1
                        /\ hop \in DOMAIN neighbors
                        /\ g.dst \in {neighbors[hop].mac, FlipGroupBit(neighbors[hop].mac)}]_vars

\* ARCHITECTURE.md: "unavailable ports, full queues, and injected resource
\* exhaustion are distinguishable".  A packet is reported as queue_congestion
\* only if some queue was full.
CongestionMeansFull ==
    last.reason = "queue_congestion" => last.counted["queue_drops"] > 0
=============================================================================
