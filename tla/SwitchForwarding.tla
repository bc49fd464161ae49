--------------------------- MODULE SwitchForwarding ---------------------------
(***************************************************************************)
(* The forwarding decisions of the software switch as pure operators:      *)
(* VLAN ingress classification, MAC learning, Layer-2 forwarding, router   *)
(* ownership, IPv4 longest-prefix match, TTL and fault injection.          *)
(*                                                                         *)
(* A MAC address is a number whose bit 0 is the group bit of its first     *)
(* octet; 0 is the unspecified address.  A frame is a record               *)
(*   dst, src   MAC addresses                                              *)
(*   tag        802.1Q VLAN, NoVlan when untagged                          *)
(*   type       "ipv4", "arp", "other", or "malformed" when the Ethernet   *)
(*              parser rejects the bytes                                   *)
(*   size       payload size; the headers add HeaderSize or TaggedSize     *)
(*   ip, ttl    IPv4 destination and TTL, or ARP sender address; NoIp when *)
(*              the IPv4 or ARP parser rejects the payload                 *)
(*   mac        ARP sender MAC                                             *)
(***************************************************************************)
EXTENDS Naturals, Sequences, FiniteSets

NoVlan == 0
NoIp == 0
Broadcast == 255
HeaderSize == 14
TaggedSize == 18

Frame == [dst: Nat, src: Nat, tag: Nat, type: {"ipv4", "arp", "other", "malformed"},
          size: Nat, ip: Nat, ttl: Nat, mac: Nat]

FrameSize(f) == f.size + (IF f.tag = NoVlan THEN HeaderSize ELSE TaggedSize)

-----------------------------------------------------------------------------
(* MAC addresses: network/mac_address.hpp and the validity tests that the  *)
(* tables share *)

IsMulticast(m) == m % 2 = 1

\* is_learnable, valid_router_mac, is_valid_mac_address: unicast and not zero.
IsHostMac(m) == m # 0 /\ ~IsMulticast(m)

\* packet.front() ^= 0x01: the first octet of a frame belongs to dst.
FlipGroupBit(m) == IF IsMulticast(m) THEN m - 1 ELSE m + 1

-----------------------------------------------------------------------------
(* switching/vlan_port_config.cpp, switching/vlan_ingress.cpp *)

AccessPort(v) == [access |-> v, allowed |-> {v}, native |-> NoVlan]

TrunkPort(vs, native) == [access |-> NoVlan, allowed |-> vs, native |-> native]

IsAccess(c) == c.access # NoVlan

\* What the factory functions let through.
ValidConfig(c) ==
    \/ IsAccess(c) /\ c = AccessPort(c.access)
    \/ ~IsAccess(c) /\ c.allowed # {} /\ c.native \in c.allowed \cup {NoVlan}

\* classify_vlan_ingress; NoVlan stands for the three reasons to drop: a tag
\* on an access port, no tag and no native VLAN, a tag that is not allowed.
IngressVlan(c, f) ==
    CASE IsAccess(c)                -> IF f.tag = NoVlan THEN c.access ELSE NoVlan
      [] ~IsAccess(c) /\ f.tag = NoVlan -> c.native
      [] OTHER                      -> IF f.tag \in c.allowed THEN f.tag ELSE NoVlan

-----------------------------------------------------------------------------
(* switching/mac_table.cpp, dynamic entries: <<vlan, mac>> |-> port *)

\* Mutant: a full table no longer follows a host that moves.
Learn_FullStuck(macs, capacity, v, m, port) ==
    IF Cardinality(DOMAIN macs) >= capacity
    THEN macs
    ELSE [k \in DOMAIN macs \cup {<<v, m>>} |->
             IF k = <<v, m>> THEN port ELSE macs[k]]

\* learn: a new entry only while there is room, a known one always follows.
Learn(macs, capacity, v, m, port) ==
    IF /\ <<v, m>> \notin DOMAIN macs
       /\ Cardinality(DOMAIN macs) >= capacity
    THEN macs
    ELSE [k \in DOMAIN macs \cup {<<v, m>>} |->
             IF k = <<v, m>> THEN port ELSE macs[k]]

-----------------------------------------------------------------------------
(* switching/l2_forwarding.cpp *)

InSeq(x, s) == \E i \in DOMAIN s : s[i] = x

\* A list without the entry p, which it holds at most once.
Without(s, p) ==
    IF InSeq(p, s)
    THEN LET k == CHOOSE k \in DOMAIN s : s[k] = p
         IN  [j \in 1 .. Len(s) - 1 |-> IF j < k THEN s[j] ELSE s[j + 1]]
    ELSE s

\* Mutant: the frame also goes back where it came from.
FloodPorts_WithIngress(vlanPorts, ingress) == vlanPorts

\* flood: every port of the VLAN but the ingress port, in order.
FloodPorts(vlanPorts, ingress) == Without(vlanPorts, ingress)

\* decide_l2_forwarding: the ports the frame goes to; <<>> is a drop
\* (same_ingress_port, destination_not_in_vlan, no_eligible_egress_port).
L2Outputs(macs, v, dst, ingress, vlanPorts) ==
    CASE IsMulticast(dst) \/ <<v, dst>> \notin DOMAIN macs ->
           FloodPorts(vlanPorts, ingress)
      [] OTHER ->
           IF macs[<<v, dst>>] # ingress /\ InSeq(macs[<<v, dst>>], vlanPorts)
           THEN <<macs[<<v, dst>>]>>
           ELSE <<>>

\* known_unicast as opposed to one of the three floods.
IsKnownUnicast(macs, v, dst) == ~IsMulticast(dst) /\ <<v, dst>> \in DOMAIN macs

-----------------------------------------------------------------------------
(* routing/ipv4_route_table.cpp, routing/arp_cache.cpp *)

\* Mutant: the comparison of the lengths is the wrong way round.
LongestPrefixMatch_Shortest(matching, length) ==
    CHOOSE x \in matching : \A y \in matching : length[x] <= length[y]

\* longest_prefix_match among the prefixes that contain the destination.  Two
\* different prefixes of one length share no address, so it is unique.
LongestPrefixMatch(matching, length) ==
    CHOOSE x \in matching : \A y \in matching : length[y] <= length[x]

\* Mutant: the test that the entry is not from the future is missing, and the
\* age is the distance of the two time points.
IsExpired_Distance(entry, now, lifetime) ==
    now >= entry.learnedAt + lifetime \/ entry.learnedAt >= now + lifetime

\* is_expired; an entry learned in the caller's future is still good.
IsExpired(entry, now, lifetime) ==
    now >= entry.learnedAt /\ now - entry.learnedAt >= lifetime

-----------------------------------------------------------------------------
(* asic/fault_injector.cpp *)

EveryNth(n, period) == period # 0 /\ n % period = 0

\* FaultInjector::process for the n-th packet since start.
FaultVerdict(config, port, n) ==
    IF port \in config.failedPorts THEN "failed_port"
    ELSE IF config.resourceExhausted THEN "resource_exhaustion"
    ELSE IF EveryNth(n, config.dropEveryNth) THEN "packet_loss"
    ELSE IF EveryNth(n, config.corruptEveryNth) THEN "corrupted"
    ELSE "pass"

\* The packet that comes out of the injector.
Injected(verdict, f) ==
    IF verdict = "corrupted" THEN [f EXCEPT !.dst = FlipGroupBit(@)] ELSE f
=============================================================================
