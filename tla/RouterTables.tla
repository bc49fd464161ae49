----------------------------- MODULE RouterTables -----------------------------
(***************************************************************************)
(* What the router looks things up in, as pure operators: IPv4 addresses   *)
(* and prefixes bit by bit, the route table as the vector it is searched   *)
(* as, the ARP cache and the MAC table with the times of their entries.    *)
(* MAC addresses and is_expired are those of SwitchForwarding.             *)
(***************************************************************************)
EXTENDS SwitchForwarding, PowersOfTwo, SequencesExt

CONSTANTS
    AddressBits,   \* width of an IPv4 address: 32
    ArpLifetime,   \* entry_lifetime_ of the ARP cache
    MacLifetime,   \* entry_lifetime_ of the MAC table
    MacCapacity    \* capacity_ of the MAC table

ASSUME TablesAssumption ==
    /\ AddressBits \in Nat /\ AddressBits >= 4
    /\ {ArpLifetime, MacLifetime, MacCapacity} \subseteq Nat \ {0}

AddressPower == PowersUpTo(AddressBits)
Addresses    == 0 .. AddressPower[AddressBits] - 1

-----------------------------------------------------------------------------
(* network/ipv4_address.hpp, network/ipv4_prefix.hpp *)

IsUnspecified(a)      == a = 0
IsMulticastAddress(a) == a \div AddressPower[AddressBits - 4] = 14
IsLimitedBroadcast(a) == a = AddressPower[AddressBits] - 1

\* The addresses routes and neighbours may name
IsHostAddress(a) ==
    ~IsUnspecified(a) /\ ~IsMulticastAddress(a) /\ ~IsLimitedBroadcast(a)

\* address & mask_value(length): the host bits are cleared.
NetworkPart(a, length) == a - (a % AddressPower[AddressBits - length])

Prefix(a, length) == [network |-> NetworkPart(a, length), length |-> length]

PrefixContains(p, a) == NetworkPart(a, p.length) = p.network

-----------------------------------------------------------------------------
(* routing/route_entry.hpp, routing/ipv4_route_table.cpp *)

\* RouteEntry::create; NoIp is the absent next hop of a connected route.
ValidNextHop(hop) == hop = NoIp \/ IsHostAddress(hop)

AddOrReplaceRoute(routes, entry) ==
    LET at == SelectInSeq(routes, LAMBDA e : e.prefix = entry.prefix) IN
    IF at = 0 THEN Append(routes, entry) ELSE ReplaceAt(routes, at, entry)

EraseRoute(routes, p) == RemoveFirstMatch(routes, LAMBDA e : e.prefix = p)

\* Mutant: of two routes that match, the later one wins.
Better_Latest(entry, best) == TRUE

Better(entry, best) == entry.prefix.length > best.prefix.length

\* longest_prefix_match: one pass over the vector; best_match is a position,
\* and 0 while it is null.
BestMatch(routes, a) ==
    LET best[i \in 0 .. Len(routes)] ==
            IF i = 0 THEN 0
            ELSE LET last == best[i - 1] IN
                 IF /\ PrefixContains(routes[i].prefix, a)
                    /\ last = 0 \/ Better(routes[i], routes[last])
                 THEN i ELSE last
    IN  best[Len(routes)]

-----------------------------------------------------------------------------
(* routing/arp_cache.cpp: address |-> [mac, learnedAt] *)

Put(map, key, value) ==
    [k \in DOMAIN map \cup {key} |-> IF k = key THEN value ELSE map[k]]

Keep(map, keys) == [k \in DOMAIN map \cap keys |-> map[k]]

\* Mutant: what a message says about its sender is taken as it is.
AcceptsNeighbor_Anything(a, mac) == TRUE

AcceptsNeighbor(a, mac) == IsHostAddress(a) /\ IsHostMac(mac)

\* add_or_replace: the time of the call becomes the entry's, also when it is
\* earlier than the one it replaces.
AddOrReplaceNeighbor(neighbors, a, mac, now) ==
    IF AcceptsNeighbor(a, mac)
    THEN Put(neighbors, a, [mac |-> mac, learnedAt |-> now])
    ELSE neighbors

\* lookup at a time point; the zero address stands for nullopt.
Resolve(neighbors, a, now) ==
    IF a \in DOMAIN neighbors /\ ~IsExpired(neighbors[a], now, ArpLifetime)
    THEN neighbors[a].mac ELSE 0

\* expire
FreshNeighbors(neighbors, now) ==
    Keep(neighbors, {a \in DOMAIN neighbors :
                        ~IsExpired(neighbors[a], now, ArpLifetime)})

-----------------------------------------------------------------------------
(* switching/mac_table.cpp: <<vlan, mac>> |-> [port, type, learnedAt] *)

\* The MacTableUpdate that update() returns
UpdateResult(table, key, port, type) ==
    CASE key \notin DOMAIN table ->
           IF Cardinality(DOMAIN table) >= MacCapacity THEN "table_full"
           ELSE "inserted"
      [] key \in DOMAIN table /\ table[key].type = "static"
                              /\ type = "dynamic" ->
           IF table[key].port # port THEN "static_conflict" ELSE "kept"
      [] OTHER ->
           IF table[key].port # port THEN "moved" ELSE "refreshed"

\* update: "kept" is the `refreshed` of a static entry, which stays as it is.
Updated(table, key, port, type, now) ==
    IF UpdateResult(table, key, port, type)
         \in {"table_full", "static_conflict", "kept"}
    THEN table
    ELSE Put(table, key, [port |-> port, type |-> type, learnedAt |-> now])

\* Mutant: static entries age like the others.
Ages_All(entry) == TRUE

Ages(entry) == entry.type = "dynamic"

\* expire
FreshStations(table, now) ==
    Keep(table, {k \in DOMAIN table :
                    ~(Ages(table[k]) /\ IsExpired(table[k], now, MacLifetime))})
=============================================================================
