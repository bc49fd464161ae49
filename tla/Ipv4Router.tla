------------------------------ MODULE Ipv4Router ------------------------------
(***************************************************************************)
(* The router's tables under any sequence of control-plane calls, ARP      *)
(* messages and aging passes, and a packet that passes through routers     *)
(* programmed like this one: each parses what arrives, decrements the time *)
(* to live, looks up the route, resolves the next hop and sends the packet *)
(* on.  On the way a bit of the header may be inverted.                    *)
(*                                                                         *)
(* The caller passes the time points, which need not be in order.          *)
(***************************************************************************)
EXTENDS RouterTables, Ipv4Header

CONSTANTS
    RouteOffers,     \* <<address, length, next hop, port>> given to add_route
    NeighborOffers,  \* <<address, MAC>> given to add_or_replace_neighbor
    ArpMessages,     \* ARP messages that arrive, as tuples; see Arp
    StationKeys,     \* <<vlan, mac>> heard or pinned
    StationPorts,    \* ports they are heard on or pinned to
    Times,           \* time points the callers pass
    Packets,         \* packets sent: source, destination, id, ttl, df, size
    Flips,           \* places <<word, bit>> of bits inverted on the way
    MaximumFrame     \* the largest payload of an Ethernet frame

ASSUME RouterAssumption ==
    /\ \A o \in RouteOffers : o[1] \in Addresses /\ o[2] \in 0 .. AddressBits
    /\ Times \subseteq Nat
    /\ \A p \in Packets :
          /\ {p[1], p[2], p[3], p[4]} \subseteq 0 .. WordLimit - 1
          /\ p[5] \in BOOLEAN /\ p[6] \in Nat
    /\ Flips \subseteq (1 .. HeaderWords) \X (0 .. WordBits - 1)

VARIABLES
    routes,      \* route_table_
    neighbors,   \* arp_cache_
    stations,    \* mac_table_
    pinned,      \* key |-> port of its last add_static (history)
    wire,        \* the header of the packet between two routers, or <<>>
    origin,      \* the packet as it was sent (history)
    hops,        \* how often it was forwarded (history)
    arrival      \* what became of the last header that arrived (history)

tableVars  == <<routes, neighbors, stations, pinned>>
packetVars == <<wire, origin, hops, arrival>>
vars       == <<tableVars, packetVars>>

Empty == [k \in {} |-> 0]

Init ==
    /\ routes = <<>> /\ neighbors = Empty /\ stations = Empty /\ pinned = Empty
    /\ wire = <<>> /\ origin = NoPacket /\ hops = 0
    /\ arrival = [intact |-> TRUE, outcome |-> "none"]

-----------------------------------------------------------------------------
(* Routes *)

AddRoute(o) ==
    /\ ValidNextHop(o[3])
    /\ routes' = AddOrReplaceRoute(routes, [prefix |-> Prefix(o[1], o[2]),
                                            hop |-> o[3], port |-> o[4]])
    /\ UNCHANGED <<neighbors, stations, pinned, packetVars>>

DeleteRoute(o) ==
    /\ routes' = EraseRoute(routes, Prefix(o[1], o[2]))
    /\ UNCHANGED <<neighbors, stations, pinned, packetVars>>

-----------------------------------------------------------------------------
(* Neighbours *)

AddNeighbor(a, mac, now) ==
    /\ neighbors' = AddOrReplaceNeighbor(neighbors, a, mac, now)
    /\ UNCHANGED <<routes, stations, pinned, packetVars>>

RemoveNeighbor(a) ==
    /\ neighbors' = Keep(neighbors, DOMAIN neighbors \ {a})
    /\ UNCHANGED <<routes, stations, pinned, packetVars>>

ExpireNeighbors(now) ==
    /\ neighbors' = FreshNeighbors(neighbors, now)
    /\ UNCHANGED <<routes, stations, pinned, packetVars>>

\* <<well formed, operation, sender MAC, sender address, target MAC>>
Arp(m) == [wellFormed |-> m[1], operation |-> m[2], senderMac |-> m[3],
           senderIp |-> m[4], targetMac |-> m[5]]

\* ArpPacket::parse with the validity tests of create_request, create_reply
ArpParses(m) ==
    /\ m.wellFormed /\ m.operation \in {"request", "reply"}
    /\ IsHostMac(m.senderMac)
    /\ IF m.operation = "request" THEN m.targetMac = 0
       ELSE IsHostMac(m.targetMac)

\* An ARP message for the control plane teaches its sender.
ArpArrives(m, now) ==
    /\ ArpParses(m)
    /\ AddNeighbor(m.senderIp, m.senderMac, now)

-----------------------------------------------------------------------------
(* Stations.  No program in the repository calls add_static or expire of   *)
(* the MAC table; they are its interface.                                  *)

LearnStation(key, port, now) ==
    /\ IsHostMac(key[2])
    /\ stations' = Updated(stations, key, port, "dynamic", now)
    /\ UNCHANGED <<routes, neighbors, pinned, packetVars>>

AddStatic(key, port) ==
    /\ IsHostMac(key[2])
    /\ stations' = Updated(stations, key, port, "static", 0)
    /\ pinned' = IF UpdateResult(stations, key, port, "static") = "table_full"
                 THEN pinned ELSE Put(pinned, key, port)
    /\ UNCHANGED <<routes, neighbors, packetVars>>

RemoveStation(key) ==
    /\ stations' = Keep(stations, DOMAIN stations \ {key})
    /\ pinned' = Keep(pinned, DOMAIN pinned \ {key})
    /\ UNCHANGED <<routes, neighbors, packetVars>>

ExpireStations(now) ==
    /\ stations' = FreshStations(stations, now)
    /\ UNCHANGED <<routes, neighbors, pinned, packetVars>>

-----------------------------------------------------------------------------
(* The packet *)

Packet(p) == [source |-> p[1], destination |-> p[2], identification |-> p[3],
              ttl |-> p[4], dontFragment |-> p[5], size |-> p[6]]

SendPacket(p) ==
    /\ wire = <<>> /\ ValidPacket(p)
    /\ wire' = Serialize(p) /\ origin' = p /\ hops' = 0
    /\ arrival' = [intact |-> TRUE, outcome |-> "none"]
    /\ UNCHANGED tableVars

\* Ipv4ForwardingEngine::forward and encapsulate_ipv4_in_ethernet, in the
\* order of their tests.
Outcome(packet, now) ==
    LET best == BestMatch(routes, packet.destination)
        hop  == IF routes[best].hop = NoIp THEN packet.destination
                ELSE routes[best].hop
    IN  IF packet = NoPacket THEN "malformed"
        ELSE IF DecrementTtl(packet) = NoPacket THEN "time_to_live_expired"
        ELSE IF best = 0 THEN "route_not_found"
        ELSE IF Resolve(neighbors, hop, now) = 0 THEN "neighbor_not_found"
        ELSE IF HeaderWords + packet.size > MaximumFrame THEN "packet_too_large"
        ELSE "forwarded"

\* A header arrives at the next router; whatever is not forwarded is dropped.
Arrive(words, intact, now) ==
    LET packet  == Parse(words, origin.size)
        outcome == Outcome(packet, now)
    IN
    /\ wire # <<>>
    /\ arrival' = [intact |-> intact, outcome |-> outcome]
    /\ IF outcome = "forwarded"
       THEN /\ wire' = Serialize(DecrementTtl(packet))
            /\ hops' = hops + 1
            /\ UNCHANGED origin
       ELSE wire' = <<>> /\ hops' = 0 /\ origin' = NoPacket
    /\ UNCHANGED tableVars

ControlStep ==
    \/ \E o \in RouteOffers : AddRoute(o) \/ DeleteRoute(o)
    \/ \E o \in NeighborOffers :
          RemoveNeighbor(o[1]) \/ \E now \in Times : AddNeighbor(o[1], o[2], now)
    \/ \E now \in Times :
          \/ ExpireNeighbors(now) \/ ExpireStations(now)
          \/ \E m \in ArpMessages : ArpArrives(Arp(m), now)
    \/ \E key \in StationKeys :
          \/ RemoveStation(key)
          \/ \E port \in StationPorts :
                \/ AddStatic(key, port)
                \/ \E now \in Times : LearnStation(key, port, now)

PacketStep ==
    \/ \E p \in Packets : SendPacket(Packet(p))
    \/ \E now \in Times :
          \/ Arrive(wire, TRUE, now)
          \/ \E f \in Flips : Arrive(Flip(wire, f), FALSE, now)

Next == ControlStep \/ PacketStep

Spec == Init /\ [][Next]_vars

-----------------------------------------------------------------------------
(* Properties *)

\* What the tables hold stays sound in any order of calls.  A route stands for
\* every address that agrees with what its caller gave in the first bits, also
\* when that had bits set beyond the prefix; nothing that arrives over ARP or
\* from the control plane makes a group address, the zero address or the
\* broadcast a next hop or a neighbour; the MAC table keeps to its capacity.
TablesSound ==
    /\ \A i \in DOMAIN routes :
          LET p == routes[i].prefix
              covered == {a \in Addresses : PrefixContains(p, a)}
          IN  /\ p.network \in covered
              /\ Cardinality(covered) = AddressPower[AddressBits - p.length]
              /\ routes[i].hop # NoIp => IsHostAddress(routes[i].hop)
    /\ \A a \in DOMAIN neighbors :
          IsHostAddress(a) /\ IsHostMac(neighbors[a].mac)
    /\ Cardinality(DOMAIN stations) <= MacCapacity

\* For every destination the one pass over the vector finds the longest
\* prefix that contains it, and finds nothing only if none does, in whatever
\* order routes were added, replaced and removed.
LookupIsBest ==
    \A a \in Addresses :
        LET matching == {i \in DOMAIN routes : PrefixContains(routes[i].prefix, a)}
        IN  IF matching = {} THEN BestMatch(routes, a) = 0
            ELSE /\ BestMatch(routes, a) \in matching
                 /\ \A i \in matching \ {BestMatch(routes, a)} :
                       routes[i].prefix.length
                           < routes[BestMatch(routes, a)].prefix.length

\* An aging pass is invisible: it changes no lookup at its own time or later,
\* also for entries learned later than the time it was given.
ExpiryIsInvisible ==
    [][\A now \in Times : ExpireNeighbors(now) =>
          \A later \in Times, a \in DOMAIN neighbors :
              later >= now =>
                  Resolve(neighbors', a, later) = Resolve(neighbors, a, later)]_vars

\* A static entry stays at its port until it is removed or pinned elsewhere:
\* neither hosts heard on other ports, nor aging, nor a full table move it.
PinnedStay ==
    \A key \in DOMAIN pinned :
        /\ key \in DOMAIN stations
        /\ stations[key].type = "static" /\ stations[key].port = pinned[key]

\* The header on the wire is that of the packet that was sent, with one off
\* its time to live for each router passed, and every router that gets it
\* intact accepts it: the packet is forwarded less often than its first time
\* to live, whatever loops the routes form.
HeaderKept ==
    /\ wire # <<>> => /\ hops < origin.ttl
                      /\ Parse(wire, origin.size)
                            = [origin EXCEPT !.ttl = @ - hops]
    /\ arrival.intact => arrival.outcome # "malformed"

\* A header that lost or gained one bit is never forwarded, nor taken for
\* another packet.
OneBitIsNoticed == ~arrival.intact => arrival.outcome = "malformed"
=============================================================================
