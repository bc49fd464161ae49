------------------------------ MODULE Discovery ------------------------------
(***************************************************************************)
(* The discovery service (discovery/, apps/discovery/main.cpp) over UDP.   *)
(* A client sends a query, by broadcast or to one host, and collects the   *)
(* advertisements that arrive before its socket's receive timeout.  Every  *)
(* host may run the `advertise` program, which answers one datagram and    *)
(* exits.  The machines found are entered into a LabConfiguration.         *)
(*                                                                         *)
(* The network keeps every datagram it has accepted: one that is lost is   *)
(* one that is never delivered, one that is late is delivered during a     *)
(* later call, and a delivery may leave a copy behind (a duplicate).       *)
(***************************************************************************)
EXTENDS LabConfiguration

CONSTANTS
    Hosts,           \* addresses
    Adverts,         \* what the operator of each host may advertise
    Prepared,        \* what the configuration may hold at the start
    Foreign,         \* kinds of payload other programs send to the port
    ForeignRequest,  \* the request id they use
    RequestIds,      \* what the steady clock gives callers as identifiers
    MaximumResults,  \* the argument of discover_all
    MaxRuns,         \* bound: runs of the advertise program
    MaxFaults        \* bound: duplicates and foreign datagrams

VARIABLES
    responder,      \* the message the advertise program of a host announces
    net,            \* datagrams accepted by the network
    call,           \* the call the client is in, and its last request id
    timeout,        \* the client's socket has a receive timeout
    machines,       \* the vector the call collects, kept as its result
    outcome,        \* what the last call returned
    configuration,  \* the LabConfiguration
    heard,          \* node ids the present call got an answer from (history)
    answered,       \* answers sent by responders, by request id (history)
    runs, faults    \* counters for the bounds

world  == <<responder, net, answered, runs, faults>>
client == <<call, timeout, machines, outcome, heard>>
vars   == <<world, client, configuration>>

-----------------------------------------------------------------------------
(* discovery_protocol.cpp.  A payload is the fields of a message; magic,   *)
(* version and lengths are abstracted to whether its type is known.        *)

Advert  == [node_id : Nat, name : STRING, role : Role, control_port : Nat,
            state_port : Nat]
NoMessage == [type |-> "none"]
Garbage   == [type |-> "unknown"]

Query(r) == [type |-> "query", request_id |-> r, node_id |-> 0,
             role |-> "unspecified", control_port |-> 0, state_port |-> 0,
             name |-> ""]

Advertisement(r, c) ==
    IF \/ r = 0 \/ c.node_id = 0 \/ c.role = "unspecified" \/ c.name = ""
       \/ c.state_port = 0 \/ (c.role = "leader" /\ c.control_port = 0)
    THEN NoMessage
    ELSE [type |-> "advertisement", request_id |-> r, node_id |-> c.node_id,
          role |-> c.role, control_port |-> c.control_port,
          state_port |-> c.state_port, name |-> c.name]

Parse(p) ==
    CASE p.type = "query" ->
            IF p.request_id # 0 /\ p = Query(p.request_id)
            THEN Query(p.request_id) ELSE NoMessage
      [] p.type = "advertisement" -> Advertisement(p.request_id, p)
      [] OTHER                    -> NoMessage

\* A DiscoveredMachine: what an advertisement says and where it came from
Discovered(a, source) ==
    [node_id |-> a.node_id, name |-> a.name, address |-> source,
     role |-> a.role, control_port |-> a.control_port,
     state_port |-> a.state_port]

-----------------------------------------------------------------------------
(* UDP *)

Client    == "client"
Elsewhere == "elsewhere"     \* some other machine of the network
Peers     == Hosts \cup {Client}

ASSUME DiscoveryAssumption ==
    /\ MaximumResults \in Nat /\ MaxRuns \in Nat /\ MaxFaults \in Nat
    /\ RequestIds \subseteq Nat \ {0}
    /\ Hosts \subseteq STRING \ {"", Client, Elsewhere}
    /\ Adverts \in [Hosts -> SUBSET Advert]
    /\ ForeignRequest \in Nat \ RequestIds
    /\ \A ms \in Prepared : Sound(ms)

Datagram(to, from, p) == [dst |-> to, src |-> from, payload |-> p]

\* recvfrom takes d from the network; a copy may arrive again later.
Take(d, rest) ==
    /\ d \in net
    /\ \/ rest = net \ {d} /\ UNCHANGED faults
       \/ rest = net /\ faults < MaxFaults /\ faults' = faults + 1

\* Some other program sends a datagram to one of the ports: the query of
\* somebody else's discovery, or something that is no message at all.
ForeignPayload(kind) ==
    IF kind = "query" THEN Query(ForeignRequest) ELSE Garbage

ForeignDatagram(to, kind) ==
    /\ faults < MaxFaults
    /\ faults' = faults + 1
    /\ net' = net \cup {Datagram(to, Elsewhere, ForeignPayload(kind))}
    /\ UNCHANGED <<responder, answered, runs, client, configuration>>

-----------------------------------------------------------------------------
(* The advertise program of a host *)

Running(h) == responder[h] # NoMessage

\* It starts if its own checks accept what it is told to announce, binds its
\* port and keeps the announcement as a message, under request id 1.
StartAdvertise(h, c) ==
    /\ ~Running(h) /\ runs < MaxRuns
    /\ Advertisement(1, c) # NoMessage
    /\ responder' = [responder EXCEPT ![h] = Advertisement(1, c)]
    /\ runs' = runs + 1
    /\ UNCHANGED <<net, answered, faults, client, configuration>>

\* respond_once: whatever arrives, the program ends; a well-formed query is
\* answered to its sender, unless the send fails.
RespondOnce(h, d) ==
    LET query  == Parse(d.payload)
        reply  == IF query.type = "query"
                  THEN Advertisement(query.request_id, responder[h])
                  ELSE NoMessage
    IN  /\ Running(h) /\ d.dst = h
        /\ \E rest \in {net, net \ {d}} :
             /\ Take(d, rest)
             /\ \/ /\ reply # NoMessage
                   /\ net' = rest \cup {Datagram(d.src, h, reply)}
                   /\ answered' = answered \cup
                        {[request |-> query.request_id,
                          machine |-> Discovered(reply, h)]}
                \/ net' = rest /\ UNCHANGED answered
        /\ responder' = [responder EXCEPT ![h] = NoMessage]
        /\ UNCHANGED <<runs, client, configuration>>

\* Its receive fails, or its operator ends it.
StopAdvertise(h) ==
    /\ Running(h)
    /\ responder' = [responder EXCEPT ![h] = NoMessage]
    /\ UNCHANGED <<net, answered, runs, faults, client, configuration>>

-----------------------------------------------------------------------------
(* The client *)

Calling == call.op # "none"

\* apps/discovery/main.cpp, discover: a new socket on a port of its own.
\* What was sent to the last one is dropped, and its queries that are still
\* under way will be answered to a port nobody reads.  That the receive
\* timeout could not be set is ignored.
OpenClient(t) ==
    /\ ~Calling
    /\ timeout' = t
    /\ machines' = <<>> /\ outcome' = "none" /\ heard' = {}
    /\ net' = {IF d.src = Client THEN [d EXCEPT !.src = Elsewhere] ELSE d :
                  d \in {e \in net : e.dst # Client}}
    /\ UNCHANGED <<responder, answered, runs, faults, call, configuration>>

\* Both calls begin by sending the query, under an identifier that was not
\* used before.
Begin(op, r, to) ==
    /\ ~Calling /\ call.request < r
    /\ call' = [op |-> op, request |-> r]
    /\ machines' = <<>> /\ heard' = {} /\ outcome' = "none"
    /\ net' = net \cup {Datagram(h, Client, Query(r)) : h \in to}
    /\ UNCHANGED <<responder, answered, runs, faults, timeout, configuration>>

DiscoverOne(h, r) == Begin("one", r, {h})
DiscoverAll(r)    == Begin("all", r, Hosts)

\* The query could not be sent.
SendFails(r) ==
    /\ ~Calling /\ call.request < r
    /\ call' = [call EXCEPT !.request = r]
    /\ machines' = <<>> /\ heard' = {} /\ outcome' = "network_error"
    /\ UNCHANGED <<world, timeout, configuration>>

Return(what) ==
    /\ call' = [call EXCEPT !.op = "none"]
    /\ outcome' = what

\* Mutant: the request id of the answer is not looked at.
Answers_AnyRequest(a) == a.type = "advertisement"

\* An advertisement that answers the query of this call
Answers(a) == a.type = "advertisement" /\ a.request_id = call.request

\* discover_one takes the first datagram that arrives, whatever it is.
ReceiveOne(d) ==
    LET a == Parse(d.payload) IN
    /\ call.op = "one" /\ d.dst = Client
    /\ Take(d, net')
    /\ IF Answers(a)
       THEN /\ machines' = <<Discovered(a, d.src)>>
            /\ heard' = {a.node_id}
            /\ Return("machine")
       ELSE /\ Return(IF a = NoMessage THEN "malformed_message"
                      ELSE IF a.type # "advertisement" THEN "unexpected_message"
                      ELSE "request_mismatch")
            /\ UNCHANGED <<machines, heard>>
    /\ UNCHANGED <<responder, answered, runs, timeout, configuration>>

\* Mutant: machines are told apart by their names.
IsDuplicate_ByName(a) == \E i \in DOMAIN machines : machines[i].name = a.name

IsDuplicate(a) == \E i \in DOMAIN machines : machines[i].node_id = a.node_id

LimitReached(ms) == Len(ms) >= MaximumResults

\* One turn of the loop of discover_all: anything but an answer to this call
\* is skipped, and the loop ends at its limit.
ReceiveAll(d) ==
    LET a == Parse(d.payload) IN
    /\ call.op = "all" /\ ~LimitReached(machines) /\ d.dst = Client
    /\ Take(d, net')
    /\ heard' = IF Answers(a) THEN heard \cup {a.node_id} ELSE heard
    /\ machines' = IF Answers(a) /\ ~IsDuplicate(a)
                   THEN Append(machines, Discovered(a, d.src)) ELSE machines
    /\ UNCHANGED <<responder, answered, runs, call, outcome, timeout,
                   configuration>>

\* The limit ends the loop; maximum_results may be 0.
LeaveAtLimit ==
    /\ call.op = "all" /\ LimitReached(machines)
    /\ Return("machines")
    /\ UNCHANGED <<world, timeout, machines, heard, configuration>>

\* Mutant: discover_all waits again until it has found a machine.
ReceiveFails_WaitsAgain ==
    /\ Calling /\ (call.op = "all" => ~LimitReached(machines))
    /\ IF call.op = "all" /\ machines = <<>> THEN UNCHANGED <<call, outcome>>
       ELSE Return(IF call.op = "one" THEN "network_error" ELSE "machines")
    /\ UNCHANGED <<world, timeout, machines, heard, configuration>>

\* receive() returns an error, in particular after the receive timeout:
\* discover_one gives up, discover_all returns what it has collected.
ReceiveFails ==
    /\ Calling /\ (call.op = "all" => ~LimitReached(machines))
    /\ Return(IF call.op = "one" THEN "network_error" ELSE "machines")
    /\ UNCHANGED <<world, timeout, machines, heard, configuration>>

\* The caller enters a machine it found into the configuration.
EnterMachine(m) ==
    /\ ~Calling
    /\ configuration' = AddOrUpdate(configuration, m)
    /\ UNCHANGED <<world, client>>

-----------------------------------------------------------------------------
Init ==
    /\ responder = [h \in Hosts |-> NoMessage]
    /\ net = {} /\ answered = {} /\ runs = 0 /\ faults = 0
    /\ call = [op |-> "none", request |-> 0] /\ timeout \in BOOLEAN
    /\ machines = <<>> /\ outcome = "none" /\ heard = {}
    /\ configuration \in Prepared

HostStep ==
    \/ \E h \in Hosts : \/ \E c \in Adverts[h] : StartAdvertise(h, c)
                         \/ \E d \in net : RespondOnce(h, d)
                         \/ StopAdvertise(h)
    \/ \E to \in Peers, kind \in Foreign : ForeignDatagram(to, kind)

\* The steps of a call once its query has been sent
CallStep ==
    \/ \E d \in net : ReceiveOne(d) \/ ReceiveAll(d)
    \/ LeaveAtLimit

CallerStep ==
    \/ \E t \in BOOLEAN : OpenClient(t)
    \/ \E r \in RequestIds : \/ \E h \in Hosts : DiscoverOne(h, r)
                             \/ DiscoverAll(r) \/ SendFails(r)
    \/ \E i \in DOMAIN machines : EnterMachine(machines[i])

Next == HostStep \/ CallStep \/ ReceiveFails \/ CallerStep

Spec == Init /\ [][Next]_vars

\* How a receive() ends: with a datagram, whatever it holds, or with an error.
ReceiveEnds == ReceiveFails \/ \E d \in net : ReceiveOne(d) \/ ReceiveAll(d)

\* A receive with a timeout ends, one way or the other; nothing else is
\* promised.  While datagrams are there to be taken the timeout need not fire,
\* and neither hosts nor the network have to make progress.
FairSpec == Spec /\ WF_vars(LeaveAtLimit) /\ WF_vars(timeout /\ ReceiveEnds)

-----------------------------------------------------------------------------
(* Properties *)

\* Every machine a call returns answered the query of that very call, from
\* the address it is listed under, and is one the configuration accepts as
\* valid: answers to earlier queries that arrive late, foreign datagrams and
\* hosts that were set up wrongly never show up in a result.
FoundAnsweredThisCall ==
    \A i \in DOMAIN machines :
        /\ [request |-> call.request, machine |-> machines[i]] \in answered
        /\ ~Invalid(machines[i])

\* A call lists every node it heard an answer from, and lists it once,
\* however often the answer is delivered.
HeardNodesListedOnce ==
    /\ heard = {machines[i].node_id : i \in DOMAIN machines}
    /\ Len(machines) = Cardinality(heard)

\* No sequence of additions and updates makes two machines of the lab share a
\* node id, a name or an address; and a complete lab has one leader that can
\* be controlled and, on three other addresses, observers that can be sent the
\* state, also while machines come back under other names, addresses and
\* roles.
ConfigurationSound ==
    /\ Distinct(configuration)
    /\ Complete(configuration) =>
        LET all == {Leader(configuration)} \cup Observers(configuration) IN
        /\ Leader(configuration).control_port # 0
        /\ Cardinality({m.address : m \in all}) = 4
        /\ \A m \in all : m.state_port # 0

\* With a receive timeout on the socket every call returns once the datagrams
\* that reach the socket have run out.  Every one of them starts the timeout
\* anew and only answers count toward the limit: late answers, duplicates and
\* foreign datagrams each cost discover_all one more turn of its loop.  They
\* are finitely many here (MaxRuns and MaxFaults); the code has no deadline of
\* its own, so an endless stream of them would keep it in the loop.
CallReturns == (Calling /\ timeout) ~> ~Calling
=============================================================================
