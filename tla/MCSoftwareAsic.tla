---------------------------- MODULE MCSoftwareAsic ----------------------------
(***************************************************************************)
(* Instances of SoftwareAsic for TLC: port 1 is an access port of VLAN 1,  *)
(* port 2 a trunk of both VLANs and port 3 an access port of VLAN 2.  The  *)
(* control-plane run starts from an empty switch; the data-plane run from  *)
(* the switch that the calls named at DataInit have programmed.            *)
(***************************************************************************)
EXTENDS SoftwareAsic, TLC

Access1 == AccessPort(1)
Access2 == AccessPort(2)
Trunk   == TrunkPort({1, 2}, 1)

MCPortMac == [p \in PortIds |-> 20 + 2 * p]

\* Address 1 is on the subnet, address 2 behind the gateway 1; "host" is the
\* longer prefix of the two that hold address 2.
MCPrefixes == {"net", "host"}
MCPrefixAddresses == [x \in MCPrefixes |-> IF x = "net" THEN {1, 2} ELSE {2}]
MCPrefixLength == [x \in MCPrefixes |-> IF x = "net" THEN 24 ELSE 32]

NewFrame(dst, src, tag, type, size, ip, ttl) ==
    [dst |-> dst, src |-> src, tag |-> tag, type |-> type, size |-> size,
     ip |-> ip, ttl |-> ttl, mac |-> src]

\* Hosts 2 and 4, router 10; Mtu is 20, so a payload of 20 passes the ingress
\* test and no egress test, and one of 21 passes neither.
ControlFrames == {NewFrame(4, 2, NoVlan, "other", 2, NoIp, 0),
                  NewFrame(2, 4, 2, "other", 2, NoIp, 0),
                  NewFrame(Broadcast, 4, NoVlan, "other", 2, NoIp, 0),
                  NewFrame(10, 2, NoVlan, "other", 2, NoIp, 0),
                  NewFrame(10, 3, NoVlan, "other", 2, NoIp, 0),
                  NewFrame(10, 4, NoVlan, "other", 21, NoIp, 0),
                  NewFrame(0, 0, NoVlan, "malformed", 0, NoIp, 0)}

SwitchFrames == {NewFrame(4, 2, NoVlan, "other", 2, NoIp, 0),
                 NewFrame(2, 4, 2, "other", 2, NoIp, 0),
                 NewFrame(2, 4, NoVlan, "other", 2, NoIp, 0),
                 NewFrame(Broadcast, 6, NoVlan, "other", 2, NoIp, 0),
                 NewFrame(2, 4, NoVlan, "other", 20, NoIp, 0)}

RouteFrames == {NewFrame(10, 2, NoVlan, "ipv4", 2, 2, 2),
                NewFrame(10, 2, NoVlan, "ipv4", 2, 1, 1),
                NewFrame(10, 2, NoVlan, "ipv4", 2, NoIp, 0),
                NewFrame(10, 4, NoVlan, "arp", 2, 1, 0),
                NewFrame(10, 4, NoVlan, "arp", 2, NoIp, 0),
                NewFrame(10, 4, NoVlan, "other", 2, NoIp, 0)}

MCFaultConfigs == {NoFaults,
                   [NoFaults EXCEPT !.resourceExhausted = TRUE],
                   [NoFaults EXCEPT !.failedPorts = {3}, !.dropEveryNth = 2,
                                    !.corruptEveryNth = 3]}

OnlyNoFaults == {NoFaults}

ControlConfigs == {Access1, Trunk}
DataConfigs == {Access1, Access2, Trunk}

Up(c) == [config |-> c, admin |-> TRUE, link |-> TRUE,
          transmitted |-> 0, transmitErrors |-> 0]

\* After create_port and set_port_state for the three ports, create_vlan for
\* both VLANs, add_vlan_member for all that are allowed, and
\* set_router_interface(1, 10).
DataInit ==
    /\ ports = (1 :> Up(Access1)) @@ (2 :> Up(Trunk)) @@ (3 :> Up(Access2))
    /\ queues = [p \in 1 .. 3 |-> <<>>] /\ taken = [p \in 1 .. 3 |-> 0]
    /\ vlans = {1, 2} /\ members = (1 :> <<1, 2>>) @@ (2 :> <<2, 3>>)
    /\ routers = (1 :> 10)
    /\ macs = Empty /\ routes = Empty /\ neighbors = Empty
    /\ faults = NoFaults /\ processed = 0
    /\ last = Nothing /\ lastSeen = Empty

\* Packets, dequeues, faults and one port that goes up and down.
SwitchSpec ==
    DataInit /\ [][\/ DataPlane
                   \/ \E up \in BOOLEAN : SetPortState(2, up, up)
                   \/ \E c \in FaultConfigs : ConfigureFaults(c)]_vars

\* Packets, dequeues, routes, neighbours and one port that goes up and down.
RouteSpec ==
    DataInit /\ [][\/ DataPlane \/ RoutingPlane
                   \/ \E up \in BOOLEAN : SetPortState(3, up, TRUE)]_vars
=============================================================================
