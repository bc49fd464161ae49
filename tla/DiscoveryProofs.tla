--------------------------- MODULE DiscoveryProofs ---------------------------
(***************************************************************************)
(* What discovery returns and what is entered into the configuration, for  *)
(* any hosts, any operators and any number of late, duplicated and foreign *)
(* datagrams.                                                              *)
(***************************************************************************)
EXTENDS Discovery, FiniteSetTheorems, TLAPS

-----------------------------------------------------------------------------
(* The configuration: LabConfiguration::add_or_update *)

\* An empty configuration is sound.
LEMMA EmptyIsSound == Sound(<<>>)
  BY DEF Sound, Distinct

\* add_or_update keeps a configuration sound, whatever it is given: machines
\* stay valid and no two of them share a node id, a name or an address.
LEMMA AddKeepsSound ==
    ASSUME NEW ms, Sound(ms), NEW m \in Machine
    PROVE  Sound(AddOrUpdate(ms, m))
<1>1. ms \in Seq(Machine)
  BY DEF Sound
<1>2. CASE ResultOfAdd(ms, m) = "added"
  <2>1. ~Invalid(m) /\ Conflicts(ms, m) = {} /\ SameNode(ms, m) = {}
    BY <1>2 DEF ResultOfAdd
  <2>1a. \A i \in DOMAIN ms : /\ ms[i].node_id # m.node_id
                             /\ ms[i].name # m.name
                             /\ ms[i].address # m.address
    BY <2>1, Zenon DEF Conflicts, SameNode
  <2>2. AddOrUpdate(ms, m) = Append(ms, m)
    BY <1>2 DEF AddOrUpdate
  <2> DEFINE new == Append(ms, m)
  <2>3. /\ new \in Seq(Machine)
        /\ \A i \in DOMAIN new : \/ i \in DOMAIN ms /\ new[i] = ms[i]
                                 \/ i = Len(ms) + 1 /\ new[i] = m
    BY <1>1
  <2> HIDE DEF new
  <2>4. \A i \in DOMAIN new : ~Invalid(new[i])
    BY <2>1, <2>3, Zenon DEF Sound
  <2>5. Distinct(new)
    BY <2>1a, <2>3, Zenon DEF Sound, Distinct
  <2> QED
    BY <2>2, <2>3, <2>4, <2>5 DEF Sound, new
<1>3. CASE ResultOfAdd(ms, m) = "updated"
  <2>1. /\ ~Invalid(m)
        /\ \A i \in DOMAIN ms : ms[i].node_id # m.node_id
                                 => ms[i].name # m.name /\ ms[i].address # m.address
    BY <1>3, Zenon DEF ResultOfAdd, Conflicts
  <2> DEFINE new == [i \in DOMAIN ms |-> IF i \in SameNode(ms, m) THEN m ELSE ms[i]]
  <2>2. AddOrUpdate(ms, m) = new
    BY <1>3 DEF AddOrUpdate
  <2>3. /\ DOMAIN new = DOMAIN ms
        /\ \A i \in DOMAIN ms : \/ ms[i].node_id = m.node_id /\ new[i] = m
                                \/ ms[i].node_id # m.node_id /\ new[i] = ms[i]
    BY DEF SameNode
  <2>4. new \in Seq(Machine)
    BY <1>1
  <2> HIDE DEF new
  <2>5. \A i \in DOMAIN new : ~Invalid(new[i])
    BY <2>1, <2>3, Zenon DEF Sound
  <2>6. Distinct(new)
    <3> SUFFICES ASSUME NEW i \in DOMAIN ms, NEW j \in DOMAIN ms, i # j
                 PROVE  /\ new[i].node_id # new[j].node_id
                        /\ new[i].name # new[j].name
                        /\ new[i].address # new[j].address
      BY <2>3, Zenon DEF Distinct
    <3>1. /\ ms[i].node_id # ms[j].node_id
          /\ ms[i].name # ms[j].name
          /\ ms[i].address # ms[j].address
      BY DEF Sound, Distinct
    <3> QED
      BY <2>1, <2>3, <3>1, Zenon
  <2> QED
    BY <2>2, <2>4, <2>5, <2>6 DEF Sound
<1>4. CASE ResultOfAdd(ms, m) \notin {"added", "updated"}
  BY <1>4 DEF AddOrUpdate
<1> QED
  BY <1>2, <1>3, <1>4

\* A complete lab has one leader and three observers, on four addresses.
LEMMA CompleteLab ==
    ASSUME NEW ms, Sound(ms), Complete(ms)
    PROVE  LET all == {Leader(ms)} \cup Observers(ms) IN
           /\ Leader(ms).control_port # 0
           /\ Cardinality({m.address : m \in all}) = 4
           /\ \A m \in all : m.state_port # 0
<1> DEFINE L == WithRole(ms, "leader")
           O == WithRole(ms, "observer")
           all == {Leader(ms)} \cup Observers(ms)
<1>1. /\ ms \in Seq(Machine) /\ DOMAIN ms = 1..4
      /\ \A i \in DOMAIN ms : ~Invalid(ms[i])
      /\ Distinct(ms)
  BY DEF Sound, Complete
<1>2. IsFiniteSet(1..4) /\ Cardinality(1..4) = 4
  <2>1. 1 \in Int /\ 4 \in Int /\ ~(1 > 4) /\ (4 - 1) + 1 = 4
    OBVIOUS
  <2> QED
    BY <2>1, FS_Interval
<1>3. /\ L \subseteq 1..4 /\ O \subseteq 1..4 /\ L \cap O = {}
  <2>1. DOMAIN ms = 1..4
    BY <1>1
  <2> QED
    BY <2>1 DEF WithRole
<1>4. IsFiniteSet(L) /\ IsFiniteSet(O)
  BY <1>2, <1>3, FS_Subset
<1>5. Cardinality(L) = 1 /\ Cardinality(O) = 3
  BY DEF Complete
<1>6. L \cup O = 1..4
  <2>1. IsFiniteSet(L \cup O) /\ Cardinality(L \cup O) = 4
    <3>1. /\ IsFiniteSet(L \cup O)
          /\ Cardinality(L \cup O)
               = Cardinality(L) + Cardinality(O) - Cardinality(L \cap O)
      BY <1>4, FS_Union, Zenon
    <3>2. Cardinality(L \cap O) = 0
      BY <1>3, FS_EmptySet, Zenon
    <3> HIDE DEF L, O
    <3> QED
      BY <3>1, <3>2, <1>5
  <2>2. L \cup O \subseteq 1..4
    BY <1>3
  <2> QED
    BY <1>2, <2>1, <2>2, FS_Subset, Zenon
<1>7. PICK k : L = {k}
  BY <1>4, <1>5, FS_Singleton, Zenon
<1>8. Leader(ms) = ms[k] /\ k \in 1..4
  <2>1. L # {} /\ k \in L
    BY <1>7
  <2>2. Min(L) = k
    BY <1>3, <1>7 DEF Min
  <2> QED
    BY <1>3, <2>1, <2>2 DEF Leader
<1>9. all = {ms[i] : i \in 1..4}
  <2> HIDE DEF O, L
  <2>1. Observers(ms) = {ms[i] : i \in O}
    BY DEF Observers, O
  <2> QED
    BY <1>6, <1>7, <1>8, <2>1, Zenon
<1>10. Leader(ms).control_port # 0
  <2>1. ms[k].role = "leader"
    BY <1>7, Zenon DEF WithRole
  <2> QED
    BY <1>1, <1>8, <2>1 DEF Invalid
<1>11. \A m \in all : m.state_port # 0
  BY <1>1, <1>9, Zenon DEF Invalid
<1>12. Cardinality({m.address : m \in all}) = 4
  <2> DEFINE f == [i \in 1..4 |-> ms[i].address]
             T == {m.address : m \in all}
  <2>1. T = {ms[i].address : i \in 1..4}
    BY <1>9, Zenon
  <2>2. f \in Surjection(1..4, T)
    BY <2>1, Zenon DEF Surjection
  <2>3. \A i, j \in 1..4 : f[i] = f[j] => i = j
    BY <1>1, Zenon DEF Distinct
  <2>4. f \in Injection(1..4, T)
    BY <2>2, <2>3, Zenon DEF Injection, Surjection, IsInjective
  <2> HIDE DEF f, T
  <2>5. Cardinality(T) = 4
    BY <1>2, <2>2, <2>4, FS_Surjection, Zenon
  <2> QED
    BY <2>5 DEF T
<1> QED
  BY <1>10, <1>11, <1>12

-----------------------------------------------------------------------------
(* Messages *)

\* Advertisements that create_advertisement lets through
Announcement == {Advertisement(r, c) : r \in Nat, c \in Advert} \ {NoMessage}

Payload == Announcement \cup {Garbage} \cup {Query(r) : r \in Nat}

\* An advertisement passes the checks again when it is parsed, and what it
\* says of a host is a machine the configuration accepts as valid.
LEMMA AnnouncementFacts ==
    ASSUME NEW a \in Announcement
    PROVE  /\ a.type = "advertisement" /\ a # NoMessage
           /\ Advertisement(a.request_id, a) = a
           /\ \A r \in Nat : Advertisement(r, a) \in Announcement \cup {NoMessage}
           /\ \A h \in Hosts : /\ Discovered(a, h) \in Machine
                              /\ ~Invalid(Discovered(a, h))
<1>1. PICK r \in Nat, c \in Advert : a = Advertisement(r, c) /\ a # NoMessage
  BY DEF Announcement
<1>2. /\ ~(\/ r = 0 \/ c.node_id = 0 \/ c.role = "unspecified" \/ c.name = ""
          \/ c.state_port = 0 \/ (c.role = "leader" /\ c.control_port = 0))
      /\ a = [type |-> "advertisement", request_id |-> r, node_id |-> c.node_id,
               role |-> c.role, control_port |-> c.control_port,
               state_port |-> c.state_port, name |-> c.name]
  BY <1>1, Zenon DEF Advertisement
<1>3. /\ a.type = "advertisement" /\ a.request_id = r /\ a.node_id = c.node_id
      /\ a.role = c.role /\ a.control_port = c.control_port
      /\ a.state_port = c.state_port /\ a.name = c.name
  BY <1>2
<1>4. Advertisement(a.request_id, a) = a
  BY <1>2, <1>3, Zenon DEF Advertisement
<1>5. ASSUME NEW q \in Nat
      PROVE  Advertisement(q, a) \in Announcement \cup {NoMessage}
  <2>1. Advertisement(q, a) = Advertisement(q, c)
    BY <1>3, Zenon DEF Advertisement
  <2> QED
    BY <2>1 DEF Announcement
<1>6. ASSUME NEW h \in Hosts
      PROVE  Discovered(a, h) \in Machine /\ ~Invalid(Discovered(a, h))
  <2> DEFINE m == Discovered(a, h)
  <2>1. m = [node_id |-> c.node_id, name |-> c.name, address |-> h,
             role |-> c.role, control_port |-> c.control_port,
             state_port |-> c.state_port]
    BY <1>3, Zenon DEF Discovered
  <2>2. h \in STRING /\ h # ""
    BY DiscoveryAssumption, Zenon
  <2>3. /\ c.node_id \in Nat /\ c.name \in STRING /\ c.role \in Role
        /\ c.control_port \in Nat /\ c.state_port \in Nat
    BY Zenon DEF Advert
  <2>4. m \in Machine
    <3> HIDE DEF m
    <3>1. ASSUME NEW T, NEW n \in Nat, NEW s \in T, NEW t \in T, NEW r1 \in Role,
                 NEW p1 \in Nat, NEW p2 \in Nat
          PROVE  [node_id |-> n, name |-> s, address |-> t, role |-> r1,
                  control_port |-> p1, state_port |-> p2]
                   \in [node_id : Nat, name : T, address : T, role : Role,
                       control_port : Nat, state_port : Nat]
      OBVIOUS
    <3> QED
      BY <2>1, <2>2, <2>3, <3>1, Zenon DEF Machine
  <2>5. /\ m.node_id = c.node_id /\ m.name = c.name /\ m.address = h
        /\ m.role = c.role /\ m.control_port = c.control_port
        /\ m.state_port = c.state_port
    BY <2>1
  <2>6. ~Invalid(m)
    BY <1>2, <2>2, <2>5, Zenon DEF Invalid
  <2> QED
    BY <2>4, <2>6
<1> QED
  BY <1>1, <1>3, <1>4, <1>5, <1>6, Zenon

\* What parse makes of the payloads that are under way
LEMMA ParseFacts ==
    ASSUME NEW p \in Payload
    PROVE  /\ Parse(p).type = "advertisement"
                => p \in Announcement /\ Parse(p) = p
           /\ Parse(p).type = "query" => Parse(p).request_id \in Nat
<1>1. CASE p \in Announcement
  <2>1. p.type = "advertisement" /\ Advertisement(p.request_id, p) = p
    BY <1>1, AnnouncementFacts
  <2>2. Parse(p) = p
    BY <2>1 DEF Parse
  <2> QED
    BY <1>1, <2>1, <2>2
<1>2. CASE p = Garbage
  <2>1. Parse(p) = NoMessage
    BY <1>2 DEF Parse, Garbage
  <2> QED
    BY <2>1 DEF NoMessage
<1>3. ASSUME NEW r \in Nat, p = Query(r)
      PROVE  /\ Parse(p).type # "advertisement"
             /\ Parse(p).type = "query" => Parse(p).request_id \in Nat
  <2>1. p.type = "query" /\ p.request_id = r
    BY <1>3 DEF Query
  <2>2. Parse(p) = Query(r) \/ Parse(p) = NoMessage
    BY <2>1 DEF Parse
  <2>3. /\ Query(r).type = "query" /\ Query(r).request_id = r
        /\ NoMessage.type = "none"
    BY DEF Query, NoMessage
  <2> QED
    BY <2>2, <2>3
<1> QED
  BY <1>1, <1>2, <1>3, Zenon DEF Payload

-----------------------------------------------------------------------------
(* The inductive invariant *)

\* The entry of the history that a responder's answer makes
Answer(a, source) == [request |-> a.request_id, machine |-> Discovered(a, source)]

\* A responder that runs announces something that passes the checks; every
\* advertisement that is under way was sent by the host it comes from.
NetworkInv ==
    /\ responder \in [Hosts -> Announcement \cup {NoMessage}]
    /\ \A d \in net :
         /\ d = Datagram(d.dst, d.src, d.payload)
         /\ d.payload \in Payload
         /\ d.payload \in Announcement
              => d.src \in Hosts /\ Answer(d.payload, d.src) \in answered

\* heard is finite: HeardNodesListedOnce counts it.
ClientInv ==
    /\ call.request \in Nat
    /\ call = [op |-> call.op, request |-> call.request]
    /\ machines \in Seq(Machine)
    /\ IsFiniteSet(heard)
    /\ FoundAnsweredThisCall
    /\ HeardNodesListedOnce

IInv == NetworkInv /\ ClientInv /\ Sound(configuration)

\* Nothing has been sent and nothing asked.
LEMMA InitInv == Init => IInv
<1> SUFFICES ASSUME Init PROVE IInv
  OBVIOUS
<1>1. NetworkInv
  BY DEF Init, NetworkInv
<1>2. ClientInv
  <2>1. IsFiniteSet(heard) /\ Cardinality(heard) = 0
    BY FS_EmptySet, Zenon DEF Init
  <2>2. machines = <<>> /\ heard = {} /\ Len(machines) = 0
    BY DEF Init
  <2>3. FoundAnsweredThisCall /\ HeardNodesListedOnce
    BY <2>1, <2>2 DEF FoundAnsweredThisCall, HeardNodesListedOnce
  <2>4. /\ call.request \in Nat
        /\ call = [op |-> call.op, request |-> call.request]
    BY DEF Init
  <2>5. machines \in Seq(Machine)
    BY <2>2
  <2> QED
    BY <2>1, <2>3, <2>4, <2>5 DEF ClientInv
<1>3. Sound(configuration)
  BY DiscoveryAssumption, Zenon DEF Init
<1> QED
  BY <1>1, <1>2, <1>3 DEF IInv

\* What every step of the client but a reception does to the collected
\* machines: it keeps them, and the request they answer, or drops them all.
LEMMA ClientKeeps ==
    ASSUME ClientInv, answered \subseteq answered',
           \/ UNCHANGED <<machines, heard>> /\ call'.request = call.request
           \/ machines' = <<>> /\ heard' = {},
           call'.request \in Nat,
           call' = [op |-> call'.op, request |-> call'.request]
    PROVE  ClientInv'
<1>1. CASE UNCHANGED <<machines, heard>> /\ call'.request = call.request
  <2>1. FoundAnsweredThisCall'
    BY <1>1, Zenon DEF ClientInv, FoundAnsweredThisCall
  <2>2. HeardNodesListedOnce'
    BY <1>1, Zenon DEF ClientInv, HeardNodesListedOnce
  <2>3. machines' \in Seq(Machine) /\ IsFiniteSet(heard')
    BY <1>1, Zenon DEF ClientInv
  <2> QED
    BY <2>1, <2>2, <2>3, Zenon DEF ClientInv
<1>2. CASE machines' = <<>> /\ heard' = {}
  <2>1. IsFiniteSet(heard') /\ Cardinality(heard') = 0
    BY <1>2, FS_EmptySet, Zenon
  <2>2. /\ machines' \in Seq(Machine) /\ Len(machines') = 0
        /\ DOMAIN machines' = {}
    BY <1>2
  <2>3. FoundAnsweredThisCall'
    BY <2>2, Zenon DEF FoundAnsweredThisCall
  <2>4. HeardNodesListedOnce'
    BY <1>2, <2>1, <2>2 DEF HeardNodesListedOnce
  <2> QED
    BY <2>1, <2>2, <2>3, <2>4, Zenon DEF ClientInv
<1> QED
  BY <1>1, <1>2

\* A datagram that recvfrom takes was in the network, and nothing is added.
LEMMA TakeFacts ==
    ASSUME NEW d, NEW rest, Take(d, rest)
    PROVE  d \in net /\ rest \subseteq net
  BY DEF Take

\* The network's part after a step that removes datagrams and adds ones that
\* are typed and, if they are advertisements, recorded.
LEMMA NetworkKeeps ==
    ASSUME NetworkInv, answered \subseteq answered', NEW new,
           responder' \in [Hosts -> Announcement \cup {NoMessage}],
           net' \subseteq net \cup new,
           \A d \in new :
             /\ d = Datagram(d.dst, d.src, d.payload)
             /\ d.payload \in Payload
             /\ d.payload \in Announcement
                  => d.src \in Hosts /\ Answer(d.payload, d.src) \in answered'
    PROVE  NetworkInv'
<1> SUFFICES ASSUME NEW d \in net'
             PROVE  /\ d = Datagram(d.dst, d.src, d.payload)
                    /\ d.payload \in Payload
                    /\ d.payload \in Announcement
                         => d.src \in Hosts /\ Answer(d.payload, d.src) \in answered'
  BY Zenon DEF NetworkInv
<1>1. CASE d \in net
  BY <1>1, Zenon DEF NetworkInv
<1>2. CASE d \in new
  BY <1>2, Zenon
<1> QED
  BY <1>1, <1>2

-----------------------------------------------------------------------------
(* The hosts and the network *)

\* What hosts do adds to the network only what they answered.
LEMMA HostStepInv ==
    ASSUME IInv, HostStep
    PROVE  NetworkInv' /\ answered \subseteq answered'
           /\ UNCHANGED <<client, configuration>>
<1> USE DEF IInv
<1>1. ASSUME NEW h \in Hosts, NEW c \in Adverts[h], StartAdvertise(h, c)
      PROVE  NetworkInv' /\ answered \subseteq answered'
             /\ UNCHANGED <<client, configuration>>
  <2>1. /\ UNCHANGED <<net, answered, client, configuration>>
        /\ Advertisement(1, c) # NoMessage
        /\ responder' = [responder EXCEPT ![h] = Advertisement(1, c)]
    BY <1>1, Zenon DEF StartAdvertise
  <2>2. c \in Advert
    BY DiscoveryAssumption, Zenon
  <2>3. Advertisement(1, c) \in Announcement
    <3>1. Advertisement(1, c) # NoMessage
      BY <2>1, Zenon
    <3> QED
      BY <2>2, <3>1 DEF Announcement
  <2>4. responder' \in [Hosts -> Announcement \cup {NoMessage}]
    <3>1. responder \in [Hosts -> Announcement \cup {NoMessage}]
      BY Zenon DEF NetworkInv
    <3> QED
      BY <2>1, <2>3, <3>1
  <2>5. NetworkInv'
    BY <2>1, <2>4, Zenon DEF NetworkInv
  <2> QED
    BY <2>1, <2>5
<1>2. ASSUME NEW h \in Hosts, NEW d \in net, RespondOnce(h, d)
      PROVE  NetworkInv' /\ answered \subseteq answered'
             /\ UNCHANGED <<client, configuration>>
  <2> DEFINE query == Parse(d.payload)
             reply == IF query.type = "query"
                      THEN Advertisement(query.request_id, responder[h])
                      ELSE NoMessage
             entry == [request |-> query.request_id,
                       machine |-> Discovered(reply, h)]
  <2>1. PICK rest :
          /\ Take(d, rest)
          /\ \/ /\ reply # NoMessage
                /\ net' = rest \cup {Datagram(d.src, h, reply)}
                /\ answered' = answered \cup {entry}
             \/ net' = rest /\ UNCHANGED answered
    BY <1>2, Zenon DEF RespondOnce
  <2>2. /\ responder' = [responder EXCEPT ![h] = NoMessage]
        /\ responder[h] # NoMessage
        /\ UNCHANGED <<client, configuration>>
    BY <1>2, Zenon DEF RespondOnce, Running
  <2>3. rest \subseteq net
    BY <2>1, TakeFacts, Zenon
  <2>4. answered \subseteq answered'
    BY <2>1, Zenon
  <2>5. responder' \in [Hosts -> Announcement \cup {NoMessage}]
    <3>1. responder \in [Hosts -> Announcement \cup {NoMessage}]
      BY Zenon DEF NetworkInv
    <3> QED
      BY <2>2, <3>1
  <2>6. CASE net' = rest
    <3>1. NetworkInv'
      BY <2>3, <2>4, <2>5, <2>6, Zenon DEF NetworkInv
    <3> QED
      BY <2>2, <2>4, <3>1
  <2>7. CASE /\ reply # NoMessage
             /\ net' = rest \cup {Datagram(d.src, h, reply)}
             /\ answered' = answered \cup {entry}
    <3>1. responder[h] \in Announcement
      BY <2>2, Zenon DEF NetworkInv
    <3>2. query.type = "query" /\ reply = Advertisement(query.request_id, responder[h])
      BY <2>7, Zenon
    <3>3. query.request_id \in Nat
      BY <3>2, ParseFacts, Zenon DEF NetworkInv
    <3>4. reply \in Announcement
      BY <2>7, <3>1, <3>2, <3>3, AnnouncementFacts, Zenon
    <3>5. reply.request_id = query.request_id
      BY <2>7, <3>2 DEF Advertisement
    <3>6. Answer(reply, h) = entry
      BY <3>5, Zenon DEF Answer
    <3> DEFINE e == Datagram(d.src, h, reply)
    <3>7. e.dst = d.src /\ e.src = h /\ e.payload = reply
      BY DEF Datagram
    <3> HIDE DEF reply, query, entry, e
    <3>8. /\ e = Datagram(e.dst, e.src, e.payload)
          /\ e.payload \in Payload
          /\ e.src \in Hosts /\ Answer(e.payload, e.src) \in answered'
      BY <2>7, <3>4, <3>6, <3>7, Zenon DEF Payload, e
    <3>9. net' \subseteq net \cup {e}
      BY <2>3, <2>7, Zenon DEF e
    <3> QED
      BY <2>2, <2>4, <2>5, <3>8, <3>9, NetworkKeeps, Zenon
  <2> QED
    BY <2>1, <2>6, <2>7, Zenon
<1>3. ASSUME NEW h \in Hosts, StopAdvertise(h)
      PROVE  NetworkInv' /\ answered \subseteq answered'
             /\ UNCHANGED <<client, configuration>>
  <2>1. /\ UNCHANGED <<net, answered, client, configuration>>
        /\ responder' = [responder EXCEPT ![h] = NoMessage]
    BY <1>3, Zenon DEF StopAdvertise
  <2>2. responder' \in [Hosts -> Announcement \cup {NoMessage}]
    <3>1. responder \in [Hosts -> Announcement \cup {NoMessage}]
      BY Zenon DEF NetworkInv
    <3> QED
      BY <2>1, <3>1
  <2>3. NetworkInv'
    BY <2>1, <2>2, Zenon DEF NetworkInv
  <2> QED
    BY <2>1, <2>3
<1>4. ASSUME NEW to \in Peers, NEW kind \in Foreign, ForeignDatagram(to, kind)
      PROVE  NetworkInv' /\ answered \subseteq answered'
             /\ UNCHANGED <<client, configuration>>
  <2> DEFINE e == Datagram(to, Elsewhere, ForeignPayload(kind))
  <2>1. /\ net' = net \cup {e}
        /\ UNCHANGED <<responder, answered, client, configuration>>
    BY <1>4, Zenon DEF ForeignDatagram
  <2>2. e.dst = to /\ e.src = Elsewhere /\ e.payload = ForeignPayload(kind)
    BY DEF Datagram
  <2>3. /\ ForeignPayload(kind) \in Payload
        /\ ForeignPayload(kind).type # "advertisement"
    BY DiscoveryAssumption DEF ForeignPayload, Payload, Query, Garbage
  <2>4. e.payload \notin Announcement
    BY <2>2, <2>3, AnnouncementFacts, Zenon
  <2>5. e = Datagram(e.dst, e.src, e.payload)
    BY <2>2, Zenon
  <2>6. responder' \in [Hosts -> Announcement \cup {NoMessage}]
    BY <2>1, Zenon DEF NetworkInv
  <2> HIDE DEF e
  <2>7. /\ net' \subseteq net \cup {e} /\ answered \subseteq answered'
        /\ e.payload \in Payload
    BY <2>1, <2>2, <2>3, Zenon
  <2>8. NetworkInv'
    <3>1. \A x \in {e} :
            /\ x = Datagram(x.dst, x.src, x.payload)
            /\ x.payload \in Payload
            /\ x.payload \in Announcement
                 => x.src \in Hosts /\ Answer(x.payload, x.src) \in answered'
      BY <2>4, <2>5, <2>7, Zenon
    <3> QED
      BY <2>6, <2>7, <3>1, NetworkKeeps, Zenon
  <2> QED
    BY <2>1, <2>7, <2>8
<1> QED
  BY <1>1, <1>2, <1>3, <1>4, Zenon DEF HostStep

-----------------------------------------------------------------------------
(* Receiving *)

\* A datagram that answers the call is an announcement its source made under
\* the request id of the call.
LEMMA AnswerFacts ==
    ASSUME NetworkInv, NEW d \in net, Answers(Parse(d.payload))
    PROVE  /\ Discovered(Parse(d.payload), d.src) \in Machine
           /\ ~Invalid(Discovered(Parse(d.payload), d.src))
           /\ [request |-> call.request,
               machine |-> Discovered(Parse(d.payload), d.src)] \in answered
           /\ Discovered(Parse(d.payload), d.src).node_id
                = Parse(d.payload).node_id
<1> DEFINE a == Parse(d.payload)
<1>1. a.type = "advertisement" /\ a.request_id = call.request
  BY Zenon DEF Answers
<1>2. d.payload \in Announcement /\ a = d.payload
  BY <1>1, ParseFacts, Zenon DEF NetworkInv
<1>3. d.src \in Hosts /\ Answer(a, d.src) \in answered
  BY <1>2, Zenon DEF NetworkInv
<1>4. Discovered(a, d.src) \in Machine /\ ~Invalid(Discovered(a, d.src))
  BY <1>2, <1>3, AnnouncementFacts, Zenon
<1>5. Discovered(a, d.src).node_id = a.node_id
  BY DEF Discovered
<1> QED
  BY <1>1, <1>3, <1>4, <1>5, Zenon DEF Answer

\* discover_one takes an answer only if it carries its request.
LEMMA ReceiveOneInv ==
    ASSUME IInv, NEW d \in net, ReceiveOne(d)
    PROVE  IInv'
<1> USE DEF IInv
<1> DEFINE a == Parse(d.payload)
           m == Discovered(a, d.src)
<1>1. /\ Take(d, net')
      /\ UNCHANGED <<responder, answered, configuration>>
      /\ \/ /\ Answers(a) /\ machines' = <<m>> /\ heard' = {a.node_id}
         \/ UNCHANGED <<machines, heard>>
      /\ \E what : Return(what)
  BY Zenon DEF ReceiveOne
<1>2. net' \subseteq net
  BY <1>1, TakeFacts, Zenon
<1>3. NetworkInv'
  BY <1>1, <1>2, Zenon DEF NetworkInv
<1>4. /\ call'.request = call.request
      /\ call' = [op |-> call'.op, request |-> call'.request]
  <2>1. call' = [call EXCEPT !.op = "none"]
    BY <1>1, Zenon DEF Return
  <2>2. call = [op |-> call.op, request |-> call.request]
    BY Zenon DEF ClientInv
  <2> QED
    BY <2>1, <2>2
<1>5. ClientInv'
  <2>1. CASE UNCHANGED <<machines, heard>>
    <3>1. answered \subseteq answered' /\ call'.request \in Nat
      BY <1>1, <1>4, Zenon DEF ClientInv
    <3> QED
      BY <1>4, <2>1, <3>1, ClientKeeps, Zenon
  <2>2. CASE Answers(a) /\ machines' = <<m>> /\ heard' = {a.node_id}
    <3>1. /\ m \in Machine /\ ~Invalid(m) /\ m.node_id = a.node_id
          /\ [request |-> call.request, machine |-> m] \in answered
      BY <2>2, AnswerFacts, Zenon
    <3> HIDE DEF a, m
    <3>2. /\ machines' \in Seq(Machine) /\ Len(machines') = 1
          /\ DOMAIN machines' = {1} /\ machines'[1] = m
      BY <2>2, <3>1
    <3>3. FoundAnsweredThisCall'
      BY <1>1, <1>4, <3>1, <3>2, Zenon DEF FoundAnsweredThisCall
    <3>4. IsFiniteSet(heard') /\ Cardinality(heard') = 1
      BY <2>2, FS_Singleton, Zenon
    <3>5. heard' = {machines'[i].node_id : i \in DOMAIN machines'}
      BY <2>2, <3>1, <3>2, Zenon
    <3>6. HeardNodesListedOnce'
      BY <3>2, <3>4, <3>5, Zenon DEF HeardNodesListedOnce
    <3>7. call'.request \in Nat
      BY <1>4, Zenon DEF ClientInv
    <3> QED
      BY <1>4, <3>2, <3>3, <3>4, <3>6, <3>7, Zenon DEF ClientInv
  <2> QED
    BY <1>1, <2>1, <2>2
<1>6. Sound(configuration)'
  BY <1>1, Zenon
<1> QED
  BY <1>3, <1>5, <1>6

\* A sequence and its extension by one element
LEMMA AppendOne ==
    ASSUME NEW T, NEW s \in Seq(T), NEW x \in T
    PROVE  /\ Append(s, x) \in Seq(T) /\ Len(Append(s, x)) = Len(s) + 1
           /\ DOMAIN Append(s, x) = DOMAIN s \cup {Len(s) + 1}
           /\ \A i \in DOMAIN s : Append(s, x)[i] = s[i]
           /\ Append(s, x)[Len(s) + 1] = x
  OBVIOUS

\* discover_all lists the sender of an answer unless it is listed already.
LEMMA ReceiveAllInv ==
    ASSUME IInv, NEW d \in net, ReceiveAll(d)
    PROVE  IInv'
<1> USE DEF IInv
<1> DEFINE a == Parse(d.payload)
           m == Discovered(a, d.src)
<1>1. /\ Take(d, net')
      /\ heard' = IF Answers(a) THEN heard \cup {a.node_id} ELSE heard
      /\ machines' = IF Answers(a) /\ ~IsDuplicate(a)
                     THEN Append(machines, m) ELSE machines
      /\ UNCHANGED <<responder, answered, call, configuration>>
  BY Zenon DEF ReceiveAll
<1>2. net' \subseteq net
  BY <1>1, TakeFacts, Zenon
<1>3. NetworkInv'
  BY <1>1, <1>2, Zenon DEF NetworkInv
<1>4. /\ machines \in Seq(Machine) /\ IsFiniteSet(heard)
      /\ call'.request \in Nat
      /\ call' = [op |-> call'.op, request |-> call'.request]
      /\ heard = {machines[i].node_id : i \in DOMAIN machines}
      /\ Len(machines) = Cardinality(heard)
  BY <1>1, Zenon DEF ClientInv, HeardNodesListedOnce
<1>5. ClientInv'
  <2>1. CASE UNCHANGED <<machines, heard>>
    <3>1. answered \subseteq answered' /\ call'.request = call.request
      BY <1>1, Zenon
    <3> QED
      BY <1>4, <2>1, <3>1, ClientKeeps, Zenon
  <2>2. CASE Answers(a) /\ IsDuplicate(a)
    \* The node is listed already.
    <3>1. a.node_id \in heard
      BY <1>4, <2>2, Zenon DEF IsDuplicate
    <3>2. UNCHANGED <<machines, heard>>
      BY <1>1, <2>2, <3>1, Zenon
    <3> QED
      BY <2>1, <3>2
  <2>3. CASE Answers(a) /\ ~IsDuplicate(a)
    <3>1. /\ m \in Machine /\ ~Invalid(m) /\ m.node_id = a.node_id
          /\ [request |-> call.request, machine |-> m] \in answered
      BY <2>3, AnswerFacts, Zenon
    <3>2. a.node_id \notin heard
      BY <1>4, <2>3, Zenon DEF IsDuplicate
    <3>3. machines' = Append(machines, m) /\ heard' = heard \cup {a.node_id}
      BY <1>1, <2>3, Zenon
    <3> HIDE DEF a, m
    <3>4. /\ machines' \in Seq(Machine) /\ Len(machines') = Len(machines) + 1
          /\ DOMAIN machines' = DOMAIN machines \cup {Len(machines) + 1}
          /\ \A i \in DOMAIN machines : machines'[i] = machines[i]
          /\ machines'[Len(machines) + 1] = m
      <4> DEFINE new == Append(machines, m)
      <4>1. /\ new \in Seq(Machine) /\ Len(new) = Len(machines) + 1
            /\ DOMAIN new = DOMAIN machines \cup {Len(machines) + 1}
            /\ \A i \in DOMAIN machines : new[i] = machines[i]
            /\ new[Len(machines) + 1] = m
        <5>1. machines \in Seq(Machine) /\ m \in Machine
          BY <1>4, <3>1, Zenon
        <5> HIDE DEF IInv
        <5> QED
          BY <5>1, AppendOne
      <4>2. machines' = new
        BY <3>3, Zenon
      <4> HIDE DEF new
      <4> QED
        BY <4>1, <4>2, Zenon
    <3>5. FoundAnsweredThisCall'
      <4> SUFFICES ASSUME NEW i \in DOMAIN machines'
                   PROVE  /\ [request |-> call.request, machine |-> machines'[i]]
                                \in answered
                          /\ ~Invalid(machines'[i])
        BY <1>1, Zenon DEF FoundAnsweredThisCall
      <4>1. CASE i \in DOMAIN machines
        <5>1. machines'[i] = machines[i]
          BY <3>4, <4>1, Zenon
        <5> QED
          BY <4>1, <5>1, Zenon DEF ClientInv, FoundAnsweredThisCall
      <4>2. CASE i = Len(machines) + 1
        BY <3>1, <3>4, <4>2, Zenon
      <4> QED
        BY <3>4, <4>1, <4>2, Zenon
    <3>6. IsFiniteSet(heard') /\ Cardinality(heard') = Cardinality(heard) + 1
      BY <1>4, <3>2, <3>3, FS_AddElement, Zenon
    <3>7. heard' = {machines'[i].node_id : i \in DOMAIN machines'}
      <4> DEFINE k == Len(machines) + 1
                 S == DOMAIN machines
      <4>1. heard' = {machines[i].node_id : i \in S} \cup {machines'[k].node_id}
        BY <1>4, <3>1, <3>3, <3>4, Zenon
      <4>2. \A i \in S : machines'[i] = machines[i]
        BY <3>4, Zenon
      <4>3. DOMAIN machines' = S \cup {k}
        BY <3>4, Zenon
      <4> HIDE DEF k, S
      <4> QED
        BY <4>1, <4>2, <4>3
    <3>8. HeardNodesListedOnce'
      BY <1>4, <3>4, <3>6, <3>7, Zenon DEF HeardNodesListedOnce
    <3> QED
      BY <1>4, <3>4, <3>5, <3>6, <3>8, Zenon DEF ClientInv
  <2>4. CASE ~Answers(a)
    BY <1>1, <2>1, <2>4, Zenon
  <2> QED
    BY <2>2, <2>3, <2>4
<1>6. Sound(configuration)'
  BY <1>1, Zenon
<1> QED
  BY <1>3, <1>5, <1>6

-----------------------------------------------------------------------------
(* The caller *)

\* Calls begin with an empty list, and end with the list as it is.
LEMMA CallerInv ==
    ASSUME IInv, LeaveAtLimit \/ ReceiveFails \/ CallerStep
    PROVE  IInv'
<1> USE DEF IInv
<1>0. /\ call.request \in Nat
      /\ call = [op |-> call.op, request |-> call.request]
  BY Zenon DEF ClientInv
<1>1. CASE LeaveAtLimit \/ ReceiveFails
  <2>1. UNCHANGED <<responder, net, answered, machines, heard, configuration>>
    BY <1>1, Zenon DEF LeaveAtLimit, ReceiveFails, world
  <2>2. call' = [call EXCEPT !.op = "none"]
    BY <1>1, Zenon DEF LeaveAtLimit, ReceiveFails, Return
  <2>3. /\ call'.request = call.request
        /\ call' = [op |-> call'.op, request |-> call'.request]
    BY <1>0, <2>2
  <2>4. answered \subseteq answered' /\ call'.request \in Nat
    BY <1>0, <2>1, <2>3, Zenon
  <2>5. ClientInv'
    BY <2>1, <2>3, <2>4, ClientKeeps, Zenon
  <2>6. NetworkInv' /\ Sound(configuration)'
    BY <2>1, Zenon DEF NetworkInv
  <2> QED
    BY <2>5, <2>6
<1>2. ASSUME NEW t \in BOOLEAN, OpenClient(t)
      PROVE  IInv'
  <2>1. /\ UNCHANGED <<responder, answered, call, configuration>>
        /\ machines' = <<>> /\ heard' = {}
        /\ net' = {IF d.src = Client THEN [d EXCEPT !.src = Elsewhere] ELSE d :
                      d \in {e \in net : e.dst # Client}}
    BY <1>2, Zenon DEF OpenClient
  <2>2. /\ answered \subseteq answered' /\ call'.request \in Nat
        /\ call' = [op |-> call'.op, request |-> call'.request]
    BY <1>0, <2>1, Zenon
  <2>3. ClientInv'
    BY <2>1, <2>2, ClientKeeps, Zenon
  <2>4. NetworkInv'
    <3> SUFFICES ASSUME NEW e \in net'
                 PROVE  /\ e = Datagram(e.dst, e.src, e.payload)
                        /\ e.payload \in Payload
                        /\ e.payload \in Announcement
                             => e.src \in Hosts /\ Answer(e.payload, e.src) \in answered'
      BY <2>1, Zenon DEF NetworkInv
    <3>1. PICK d \in net :
            e = IF d.src = Client THEN [d EXCEPT !.src = Elsewhere] ELSE d
      BY <2>1, Zenon
    <3>2. /\ d = Datagram(d.dst, d.src, d.payload)
          /\ d.payload \in Payload
          /\ d.payload \in Announcement
               => d.src \in Hosts /\ Answer(d.payload, d.src) \in answered
      BY Zenon DEF NetworkInv
    <3>3. CASE d.src = Client
      \* No host has the client's address: d is no advertisement.
      <4>1. Client \notin Hosts
        BY DiscoveryAssumption, Zenon
      <4>2. d.payload \notin Announcement
        BY <3>2, <3>3, <4>1, Zenon
      <4>3. /\ e.dst = d.dst /\ e.src = Elsewhere /\ e.payload = d.payload
            /\ e = Datagram(d.dst, Elsewhere, d.payload)
        BY <3>1, <3>2, <3>3 DEF Datagram
      <4> QED
        BY <3>2, <4>2, <4>3, Zenon
    <3>4. CASE d.src # Client
      BY <2>1, <3>1, <3>2, <3>4, Zenon
    <3> QED
      BY <3>3, <3>4
  <2>5. Sound(configuration)'
    BY <2>1, Zenon
  <2> QED
    BY <2>3, <2>4, <2>5
<1>3. ASSUME NEW op, NEW r \in RequestIds, NEW to, Begin(op, r, to)
      PROVE  IInv'
  <2> DEFINE new == {Datagram(h, Client, Query(r)) : h \in to}
  <2>1. /\ UNCHANGED <<responder, answered, configuration>>
        /\ machines' = <<>> /\ heard' = {}
        /\ call' = [op |-> op, request |-> r]
        /\ net' = net \cup new
    BY <1>3, Zenon DEF Begin
  <2>2. r \in Nat
    BY DiscoveryAssumption, Zenon
  <2>3. call'.request = r /\ call'.op = op
    BY <2>1
  <2>4. /\ answered \subseteq answered' /\ call'.request \in Nat
        /\ call' = [op |-> call'.op, request |-> call'.request]
    BY <2>1, <2>2, <2>3, Zenon
  <2>5. ClientInv'
    BY <2>1, <2>4, ClientKeeps, Zenon
  <2>6. NetworkInv'
    <3>1. Query(r) \in Payload /\ Query(r).type # "advertisement"
      BY <2>2 DEF Payload, Query
    <3>2. Query(r) \notin Announcement
      BY <3>1, AnnouncementFacts, Zenon
    <3>3. ASSUME NEW e \in new
          PROVE  /\ e = Datagram(e.dst, e.src, e.payload)
                 /\ e.payload \in Payload
                 /\ e.payload \in Announcement
                      => e.src \in Hosts /\ Answer(e.payload, e.src) \in answered'
      <4>1. PICK h \in to : e = Datagram(h, Client, Query(r))
        BY Zenon
      <4>2. e.dst = h /\ e.src = Client /\ e.payload = Query(r)
        BY <4>1 DEF Datagram
      <4> QED
        BY <3>1, <3>2, <4>1, <4>2, Zenon
    <3>4. responder' \in [Hosts -> Announcement \cup {NoMessage}]
      BY <2>1, Zenon DEF NetworkInv
    <3> HIDE DEF new
    <3>5. net' \subseteq net \cup new
      BY <2>1, Zenon
    <3> QED
      BY <2>4, <3>3, <3>4, <3>5, NetworkKeeps, Zenon
  <2>7. Sound(configuration)'
    BY <2>1, Zenon
  <2> QED
    BY <2>5, <2>6, <2>7
<1>4. ASSUME NEW r \in RequestIds, SendFails(r)
      PROVE  IInv'
  <2>1. /\ UNCHANGED <<responder, net, answered, configuration>>
        /\ machines' = <<>> /\ heard' = {}
        /\ call' = [call EXCEPT !.request = r]
    BY <1>4, Zenon DEF SendFails, world
  <2>2. r \in Nat
    BY DiscoveryAssumption, Zenon
  <2>3. call'.request = r /\ call' = [op |-> call'.op, request |-> call'.request]
    BY <1>0, <2>1
  <2>4. answered \subseteq answered' /\ call'.request \in Nat
    BY <2>1, <2>2, <2>3, Zenon
  <2>5. ClientInv'
    BY <2>1, <2>3, <2>4, ClientKeeps, Zenon
  <2>6. NetworkInv' /\ Sound(configuration)'
    BY <2>1, Zenon DEF NetworkInv
  <2> QED
    BY <2>5, <2>6
<1>5. ASSUME NEW i \in DOMAIN machines, EnterMachine(machines[i])
      PROVE  IInv'
  <2>1. /\ UNCHANGED <<responder, net, answered, call, machines, heard>>
        /\ configuration' = AddOrUpdate(configuration, machines[i])
    BY <1>5, Zenon DEF EnterMachine, world, client
  <2>2. machines[i] \in Machine
    <3>1. machines \in Seq(Machine)
      BY Zenon DEF ClientInv
    <3> QED
      BY <3>1
  <2>3. Sound(configuration)'
    BY <2>1, <2>2, AddKeepsSound, Zenon
  <2>4. NetworkInv'
    BY <2>1, Zenon DEF NetworkInv
  <2>5. answered \subseteq answered' /\ call' = call
    BY <2>1, Zenon
  <2>6. ClientInv'
    BY <1>0, <2>1, <2>5, ClientKeeps, Zenon
  <2> QED
    BY <2>3, <2>4, <2>6
<1> QED
  BY <1>1, <1>2, <1>3, <1>4, <1>5, Zenon
     DEF CallerStep, DiscoverOne, DiscoverAll

-----------------------------------------------------------------------------
\* Every step keeps the invariant.
LEMMA NextInv == IInv /\ [Next]_vars => IInv'
<1> SUFFICES ASSUME IInv, [Next]_vars PROVE IInv'
  OBVIOUS
<1>1. CASE HostStep
  <2>1. NetworkInv' /\ answered \subseteq answered'
        /\ UNCHANGED <<client, configuration>>
    BY <1>1, HostStepInv, Zenon
  <2>2. UNCHANGED <<call, machines, heard>>
    BY <2>1, Zenon DEF client
  <2>3. /\ call'.request \in Nat /\ call'.request = call.request
        /\ call' = [op |-> call'.op, request |-> call'.request]
    BY <2>2, Zenon DEF IInv, ClientInv
  <2>4. ClientInv'
    BY <2>1, <2>2, <2>3, ClientKeeps, Zenon DEF IInv
  <2>5. Sound(configuration)'
    BY <2>1, Zenon DEF IInv
  <2> QED
    BY <2>1, <2>4, <2>5, Zenon DEF IInv
<1>2. CASE CallStep
  BY <1>2, ReceiveOneInv, ReceiveAllInv, CallerInv, Zenon DEF CallStep
<1>3. CASE ReceiveFails \/ CallerStep
  BY <1>3, CallerInv, Zenon
<1>4. CASE UNCHANGED vars
  <2>1. UNCHANGED <<responder, net, answered, call, machines, heard, configuration>>
    BY <1>4, Zenon DEF vars, world, client
  <2>2. NetworkInv' /\ Sound(configuration)'
    BY <2>1, Zenon DEF IInv, NetworkInv
  <2>3. /\ answered \subseteq answered' /\ call'.request = call.request
        /\ call'.request \in Nat
        /\ call' = [op |-> call'.op, request |-> call'.request]
    BY <2>1, Zenon DEF IInv, ClientInv
  <2>4. ClientInv'
    BY <2>1, <2>3, ClientKeeps, Zenon DEF IInv
  <2> QED
    BY <2>2, <2>4, Zenon DEF IInv
<1> QED
  BY <1>1, <1>2, <1>3, <1>4, Zenon DEF Next

\* The invariant holds in every behaviour.
LEMMA InvHolds == Spec => []IInv
<1>1. Init => IInv
  BY InitInv
<1>2. IInv /\ [Next]_vars => IInv'
  BY NextInv
<1> QED
  BY <1>1, <1>2, PTL DEF Spec

\* Whatever is lost, late, duplicated or foreign, and however often hosts are
\* restarted under other announcements: a machine that discover_one or
\* discover_all returns answered the query of that call, from the address it
\* is listed under, and every node that was heard is listed once.
THEOREM DiscoverySafe ==
    Spec => [](FoundAnsweredThisCall /\ HeardNodesListedOnce)
<1>1. IInv => FoundAnsweredThisCall /\ HeardNodesListedOnce
  BY DEF IInv, ClientInv
<1> QED
  BY <1>1, InvHolds, PTL

\* The LabConfiguration that discovery feeds never holds two machines with a
\* node id, a name or an address in common, and a complete one has one leader
\* that can be controlled and three observers on addresses of their own.
THEOREM ConfigurationSafe == Spec => []ConfigurationSound
<1>1. IInv => ConfigurationSound
  BY CompleteLab, Zenon DEF IInv, Sound, ConfigurationSound
<1> QED
  BY <1>1, InvHolds, PTL
=============================================================================
