# Silicon Switch Lab in TLA+

TLA+ models of the systems the repository holds: scene replication from an
authoritative simulation server to OpenGL observers over UDP, a software switch
ASIC with its control plane, L2/L3 pipeline and bounded egress queues, and the
tools that run a lab of them: discovery, the control channel and the process
orchestrator. The modules are translated from the C++ and Python sources. TLC
checks them on small instances; TLAPS proves every safety property the runs
check, and the refinement, for every value of the constants.

`PROJECT.json` is the machine-readable index: components, runs, the mutant that
shows each property can fail, the source lines behind every definition, the
hazards and the theorems.

## 1. The system

| Component | State | Operations | Talks to |
|---|---|---|---|
| Authoritative server (`simulation/authoritative_server.cpp`, `apps/simulation_server`) | session id, sequence, revision, observer list | `next_update`, `publish_next`, main loop with signals and tick limit | backend (call), observers (UDP) |
| Simulation backends | topology, positions | `step(tick)` redraws every element | server |
| State-update protocol (`transport/state_update_protocol.cpp`) | none | `create`, `parse`, `serialize` | server, observer |
| Client synchronizer (`transport/client_synchronizer.cpp`) | session, sequence, revision, timestamp, two flags | `consume`, `reset` | observer client |
| Topology scene (`visualization/topology.cpp`) | nodes, links | `apply_delta`, `parse_snapshot`, `serialize_snapshot` | observer client, backends |
| Observer client (`visualization/observer_client.cpp`) | a synchronizer and a scene | `receive_next`, `consume_datagram` | UDP |
| Observer program (`apps/observer`) | shared scene under a mutex, atomics | receiver thread, render loop, shutdown | observer client, window |
| Bounded queue (`asic/bounded_queue.hpp`) | deque, capacity, closed flag, condition variable | `try_enqueue`, `try_dequeue`, `wait_dequeue`, `close` | software ASIC, any thread |
| Software ASIC (`asic/software_asic.cpp`) | ports, queues, VLANs, members, router interfaces, all tables, counters | the `SwitchAsic` calls and `process_packet` | pipeline, tables, injector |
| Pipeline and tables (`switching/`, `routing/`) | MAC table, route table, ARP cache | learning, VLAN classification, LPM, encapsulation | software ASIC |
| Fault injector, traffic statistics | a packet count and a configuration; counters | `process`; `increment`, `snapshot` | software ASIC |
| Packet codecs (`network/`) | none | `parse`, `serialize`, Internet checksum | pipeline, tables |
| Discovery (`discovery/`, `apps/discovery`) | a responder's announcement; a client's socket; the machines of the lab | `respond_once`, `discover_one`, `discover_all`, `add_or_update`, `complete` | UDP |
| Control channel (`control_protocol.cpp`, `tcp.cpp`, `control_client.py`) | socket, next request id | `connect`, `request`, `close`; `receive_frame`, `send_frame` | TCP |
| Lab orchestrator (`orchestrator.py`) | dict of child processes with their logs | `start`, `start_all`, `stop`, `stop_all` | processes, log files |

What is hard here, and what it takes to be right:

* **Replication over UDP.** Datagrams are lost, duplicated and reordered, both
  ends restart, datagrams of a dead server arrive late, and the code never asks
  for a retransmission. Correct: a synchronized observer draws exactly the
  scene of its revision; no observer draws a mixture; nothing it has gone
  through keeps a later snapshot from being drawn.
* **Two threads and a mutex** in the observer. Correct: whole frames that never
  step back, a shutdown that terminates with complete totals.
* **A condition variable** with one `notify_one` per element and consumers that
  do not wait. Correct: no consumer sleeps beside an element nobody is coming
  for, and `close()` releases everyone after draining.
* **Tables programmed in any order** while packets flow through capacity limits
  and injected faults. Correct: tables stay consistent, VLANs stay apart,
  unicast follows the host, routes follow the longest prefix, counters match
  queues.
* **Router tables with time points as arguments**, and headers that each router
  rewrites. Correct: the one pass of the lookup finds the longest prefix, aging
  removes exactly what no lookup would use, static entries stay put, a
  rewritten header is accepted by the next router and a damaged one is not.
* **Discovery over UDP.** Answers come late, twice, from hosts set up wrongly,
  or not at all. Correct: a call returns machines that answered *it*, each
  once; the configuration never holds two machines with one identity.
* **Requests over TCP with a timeout that leaves the socket open.** Correct: no
  response is taken for another request's, although what follows a timeout may
  be read from the middle of a frame.
* **Child processes** that exit by themselves or ignore `terminate()`, starts
  that fail half-way, and keyboard interrupts. Correct: no child and no log is
  forgotten, every call returns.

`SoftwareAsic` itself has no lock and no thread in the repository calls it
concurrently; its hazards are long call sequences and limits, not
interleavings.

## 2. Modules

| Module | Models | State and actions |
|---|---|---|
| `StateUpdate` | `state_update_protocol.cpp`, `TopologyScene::apply_delta` | constant level: update types, validity, merging |
| `ClientSynchronizer` | `client_synchronizer.cpp` | constant level: `Outcome` is the value `consume()` returns, `Consume` the state after it |
| `SceneSync` | server, UDP, observer clients | `server`, `sent`, `client`, `scene`, `result`; `Publish`, `PublishUnserialisable`, `StopServer`, `RestartServer`, `Deliver`, `ReceiveNothing`, `RestartObserver` |
| `ReplicatedView` | what replication promises | `latest`, `view`; `Publish`, `Advance`, `StartOver` |
| `BoundedQueue` | `bounded_queue.hpp` | the deque, `closed`, the waiting and the woken consumers; one action per member function, `Resume` for the return from `wait`, `SpuriousWakeup` |
| `ObserverApp` | `apps/observer/main.cpp` | program counters of both threads, mutex, atomics, three copies of the scene |
| `SwitchForwarding` | VLAN ingress, MAC learning, L2 decision, LPM, fault verdicts | constant level |
| `SoftwareAsic` | `software_asic.cpp` and the pipeline it calls | all tables; one action per control call; `ProcessPacket` = refused, dropped on ingress, switched, handed to the control plane, or routed |
| `PowersOfTwo` | the word sizes behind masks and limits | constant level: the table of powers of two, filled by doubling |
| `RouterTables` | `ipv4_prefix.hpp`, `ipv4_route_table.cpp`, `arp_cache.cpp`, `mac_table.cpp` | constant level: prefixes bit by bit, the lookup loop as a recursive function over the vector, updates and aging |
| `Ipv4Header` | `ipv4_packet.cpp`, `internet_checksum.cpp`, `ipv4_ttl.cpp` | constant level: headers as words, the checksum loop as a recursive function, parse, serialize, TTL |
| `Ipv4Router` | the tables under any sequence of calls, and a packet passing routers programmed alike | `routes`, `neighbors`, `stations`, `wire`; one action per member function, `ArpArrives`, `SendPacket`, `Arrive` |
| `LabConfiguration` | `lab_configuration.cpp` | constant level: `AddOrUpdate`, `Complete`, `Leader`, `Observers`; `Sound` is what `add_or_update` keeps true |
| `Discovery` | `discovery_service.cpp`, `discovery_protocol.cpp`, `apps/discovery` | `responder`, `net`, `call`, `machines`, `configuration`; `StartAdvertise`, `RespondOnce`, `DiscoverOne`, `DiscoverAll`, `ReceiveOne`, `ReceiveAll`, `ReceiveFails`, `EnterMachine` |
| `ControlChannel` | `control_client.py`, `tcp.cpp`, `control_protocol.cpp` | both directions of the stream and the request in progress; `Request`, `Recv`, `RecvFails`, `RequestInterrupted`, `ReceiveFrame`, `Send` |
| `LabOrchestrator` | `orchestrator.py` | `children`, `processes`, the call in progress; `StartNext`, `StartFails`, `StopNext`, `WaitTimesOut`, `WaitEnds`, the interrupts |
| `Lab` | a script that uses both | composes the two: a child is the server, its end closes the connection |
| `*Proofs` | | theorems of `SceneSync`, `BoundedQueue`, `ObserverApp`, `SoftwareAsic`, `Ipv4Router`, `Discovery` and `Lab` (with `ControlChannel` and `LabOrchestrator`) |
| `ProofFacts` | | lemmas about induction, remainders and sequences that several proofs use |
| `MC*` | | constants and initial states for TLC |

Names follow the source (`try_enqueue` is `TryEnqueue`). A definition whose
name carries an underscore suffix is a mutant: a plausible bug in the
definition after it, used to show that a property can fail.

### Abstractions

* A scene is a function from the elements a backend draws to the session and
  tick they were drawn for. A delta carries the whole scene, as in the code,
  and is *merged*, so that elements of another session would stay.
* The 60 KiB payload limit is `MaximumElements`; bytes that do not parse are
  `ReceiveNothing`. Session ids are the steady clock at start in the code; the
  model takes them to be fresh. Server clocks do not run back within a session
  and may restart between sessions.
* `sent[o]` only grows: what is never taken is lost, what is taken twice is a
  duplicate, and the order is free.
* A send failure on observer *k* ends the send loop and the program: observers
  1..*k*-1 got the update.
* In `ObserverApp` a scene is copied one element at a time, so an unprotected
  copy would be seen torn. Scenes are told apart by the number of updates the
  client has applied. The synchronizer's `revision` is kept beside it: it starts
  again with a session, is 0 after a datagram of another session, and is what
  the telemetry stores.
* In `SoftwareAsic` MAC addresses are numbers whose lowest bit is the group bit
  (corruption by the injector flips it, as it does in the first octet), sizes
  are numbers so that the MTU limits bite, and prefixes are sets of addresses
  with a length. All ports share one MTU and one queue capacity. `last`
  records what `process_packet` returned and which counters it added to;
  `taken` and `lastSeen` are history variables. A call that returns an error
  status changes nothing and is no action. Latencies, byte counters and the
  plain ingress/egress/corruption counters are left out.
* In `Ipv4Router` addresses have `AddressBits` and header words `WordBits` bits
  (both 4 in the run; 32 and 16 in the code), so every address and every bit of
  a header is tried. A flipped bit stands for damage on the way. That a port's
  own MAC address is valid (`invalid_source_mac`) is left out: a virtual port
  with another cannot be created. `pinned`, `origin`, `hops` and `arrival` are
  history variables.
* In `Discovery` a payload is the fields of a message, or garbage. `net` keeps
  what was sent until it is taken; a delivery may leave a copy. Request ids are
  fresh and increasing, as the steady clock gives them. A client that is opened
  again has another port, so answers to the old one are lost.
* In `ControlChannel` lengths and messages are sequences of units, so that a
  read or a write can stop inside either. A length that is read from the wrong
  place can be anything (`GarbageLengths`); a message that is not read from its
  beginning to its end does not decode, as its magic number and length field do
  not fit. The server program is not part of the repository; it is the loop of
  `receive_frame`, `parse` and `send_frame` that the library offers and hangs
  up on what it cannot read. It sends nothing but RESPONSE messages, so the
  client's test of the message type passes and is left out.
* In `LabOrchestrator` a child is the number of its start. What `start` does up
  to `Popen` is one step; `KeyboardInterrupt` can strike before the dict knows
  the child, in `start` as in `start_all`, and anywhere in a call. An interrupt
  in a control request loses no child: it leaves the socket as a failed `recv`
  does, and is not counted in `interrupts`.
* `add_or_replace_route` requires the port to exist when it is called and not
  later; routes and learned addresses survive `remove_port`, as in the code.

## 3. Runs

| Run | Shows | Bounds |
|---|---|---|
| `scene_sync` | A synchronized observer draws exactly its revision; no torn scene; the base-revision test never fires; within a session the position moves forward, by more than one only through a snapshot; a last datagram that is a snapshot comes to be drawn, whatever came before | 1 observer, 2 sessions of 4 ticks, snapshots at ticks 1 and 4, 2 clock readings |
| `scene_sync_view` | With one server process that publishes, the protocol implements `ReplicatedView` | 2 observers, so that a publish can reach only the first; 4 ticks; a second process whose scene is too large to publish |
| `scene_sync_stale` | **Violation**, see section 6 | 2 sessions of 2 ticks |
| `bounded_queue` | FIFO, capacity, no lost wake-up, `nullopt` only when closed and drained; `close()` releases every blocked consumer; the front element is taken while somebody is blocked | capacity 3, 5 consumers, 8 elements |
| `observer_app` | Whole frames; the window never steps back to an older or an empty scene; totals and revision complete at exit; closing the window ends the program; applied updates are shown | 2 elements, 4 updates, revisions 1 and 2 in any number of sessions, 2 resyncs |
| `asic_control` | Control calls in any order from an empty switch, with one packet anywhere between them: tables consistent, VLANs isolated | 2 ports, 2 VLANs, access and trunk configurations |
| `asic_switch` | Packet sequences through a programmed switch: the transmit counters match the queues, unicast follows a host that moves, queued frames fit the MTU | 3 ports, 2 VLANs, 3 hosts for 2 MAC entries, queues of 1, all fault kinds, 5 injector draws |
| `asic_route` | Packets to a router interface while routes, neighbours and a port change: every routed frame follows the longest prefix to a resolved next hop | 2 prefixes, one inside the other, a gateway, 2 time points, 2 packets |
| `asic_congestion` | **Violation**, see section 6 | as `asic_switch`, without faults |
| `ipv4_router` | The lookup loop finds the longest prefix for every address; a prefix given with host bits still stands for its network, and no ARP message makes a group or broadcast address a neighbour (`TablesSound`); an aging pass changes no lookup; static MAC entries stay; a header survives every rewrite and no single inverted bit goes unnoticed | 4-bit addresses and words, 3 prefixes one inside the other, 3 time points in any order with a lifetime of 2, 1 MAC entry for 2 stations, a routing loop longer than the time to live, every bit of the header |
| `discovery` | A call returns machines that answered this call, each once, and nothing the configuration calls invalid; identities in the configuration stay distinct and a complete lab has one leader that can be controlled (`ConfigurationSound`); with a receive timeout every call returns once the datagrams run out | 2 hosts with 6 announcements (a clone, a shared name, a changed role), 2 requests, limit 2, 2 responder runs, 1 duplicate or foreign datagram, 2 prepared configurations |
| `lab` | A response is taken for its own request only, unless it is a whole round of identifiers old; until a send or receive fails or is interrupted both ends agree on the framing; no child is forgotten unless it has ended and its log is closed; a failed `start_all` leaves nothing; the script talks to its own lab's server; every call returns | 3 requests with identifiers 1..2, so that they wrap around; frames of 2 + 1 units, misread lengths 0, 2 and 3; 2 children, 3 specs (one without a command), 1 interrupt in a start or stop, any in requests |

The types of `BoundedQueue`, `ObserverApp` and `SoftwareAsic`, `NetFaithful`,
`ResyncIffUnsynchronized` and the capacity of
the ASIC's tables and queues are parts of the inductive invariants of section 4
and are proved there.

Each run takes from a few seconds to about two and a half minutes (`lab`).

Why the bounds are enough to be interesting. Four ticks with an interval of 4
hold a snapshot, a gap between deltas and a snapshot that ends it; two sessions
share one element and differ in another, so a merge across sessions is visible;
two clock readings make the timestamp test meet reordered datagrams and a clock
that restarts. Five consumers are more than the queue's capacity of 3, so there
are always waiters left over when it is full. Two MAC entries for three hosts,
each heard in either VLAN, are a table with room at first and full after two
packets, in which a host it holds still moves; queues of length one fill in one
flood; the injector drops each second and corrupts each third packet, within
the five it draws, while one port fails. `asic_switch` and `asic_route` start
from a state that the control calls named at `DataInit` reach. In `discovery`
two requests are enough for an answer to arrive in the wrong call, and two
prepared configurations bring the lab to four machines and to a conflict over
an address. In `lab` three requests with two identifiers are the shortest
history in which an identifier is used again, and a length of two units is the
shortest that can be read in half.

Deadlock checking is on for `bounded_queue` (a refused `try_enqueue` remains
possible on a closed queue), `scene_sync*` (an observer can always time out),
`observer_app` (the exited program stutters explicitly), `discovery`, `lab` and
`ipv4_router` (a call can always be made). It is off for the ASIC runs: a
switch with no calls to make may stop, here at the bound on processed packets.

### Fairness

* `SceneSync`: weak fairness of *delivering the newest datagram*. UDP promises
  nothing and nobody retransmits; the property is only about what follows if
  the last snapshot does get through, which is the assumption the design
  states (periodic snapshots). No fairness on the server.
* `BoundedQueue`: weak fairness of `Resume`: a woken thread gets the mutex. No
  fairness of producers, of new calls or of spurious wake-ups.
* `ObserverApp`: weak fairness of each thread (both are scheduled, and
  `receive_next` has a timeout) and strong fairness of taking `scene_mutex`,
  which the other thread holds only during a copy. Nothing forces the user to
  close the window or the network to deliver.
* `Discovery`: weak fairness of a `receive` that ends, with a datagram or with
  an error, if the socket has a timeout, and of the loop's end at its limit.
  While datagrams are there the timeout need not fire. `discover_all` waits anew
  after each of them, and only answers to its own query count toward the limit:
  it returns because the datagrams that reach the socket are finitely many
  (`MaxRuns` answers and `MaxFaults` duplicates and foreign datagrams). An
  endless stream of datagrams that are no answers, each within the timeout of
  the last, would keep the code in its loop; `CallReturns` does not say
  otherwise. Hosts and network promise nothing.
* `Lab`: weak fairness of the steps a call takes by itself (`recv` returns or
  times out; `wait()` returns or times out) and of the end of a child that was
  killed. Children that were only told to terminate may ignore it, and servers
  may stay silent.

## 4. Proofs

Every invariant and every action property of the passing runs is a theorem, and
so is the refinement of `ReplicatedView`. The theorems hold for arbitrary
constants under the named assumptions next to the CONSTANTS; the bounds
(`MaxTicks`, `MaxSessions`, `MaxItems`, `MaxProcessed`, `MaxStarts`, ...) are
arbitrary naturals. The assumptions say no more than the code's own constructors
and limits guarantee:

* `AsicAssumption`: port configurations are those `VlanPortConfig` accepts,
  prefix lengths are 0..32, capacities are positive.
* `RouterAssumption`: routes are offered for addresses and lengths of the width
  in use, time points are numbers, the fields of a packet are words, a flipped
  bit is one of the header. `TablesAssumption` and `HeaderAssumption`: at least
  4 bits, the width of the class prefix and of the version field.
* `DiscoveryAssumption`: request ids are positive, a host is told apart from
  the client and from other machines, and the configurations a lab may begin
  with are `Sound`. They stand for configurations built with `add_or_update`
  earlier, which is the only way to put a machine into one; the empty
  configuration is `Sound`, and the proof shows that `add_or_update` keeps it so.
* `ControlAssumption`, `OrchestratorAssumption`: lengths and identifiers are
  positive, a message fits the maximum frame.

**`SceneSyncProofs`.** `TypeCorrect`: the types, with `Numbered` (sequence and
revision advance together), which the type of a published update needs.
`ReplicationSafe`: `NetFaithful /\ SceneFaithful /\ NeverTorn /\
ResyncIffUnsynchronized` is inductive on top of that. `SceneFaithful` alone is
not: that an applied delta leads to the scene of its revision needs to know
that the datagram carries that scene and names the revision before it
(`NetFaithful`), and that the scene it is merged into belongs to the same
session, which is what a *synchronized* client guarantees. `MergeInSession` is
the fact about `apply_delta`; `DeltaApplies`, `IgnoredChangesNothing` and
`DeliverFaithful` are the facts about `consume()`. `MismatchUnreachable` and
the action property `ProgressInSession` follow from the same invariant.

`Refinement`: `SceneSync` implements `ReplicatedView`, under the hypothesis
`OneServerPublishes`: of all the server processes only one has a scene that fits
into a datagram. One session is the simplest case, and `scene_sync_view` checks
one with a second process. With two that publish the statement is false, which
is the finding of `scene_sync_stale`. The strengthening `ViewInv` says that what
is in the network lies behind the server (`NetworkBehind`) and that an observer
draws the scene of its synchronizer's session and sequence number, also after it
has lost the stream (`DrawsPosition`); `DeliverMoves` turns a delivery into a
step forward or a stutter, and there is one step of `Simulates` per action.

**`BoundedQueueProofs`.** `QueueCorrect`: types, capacity, FIFO, no lost
wake-up, drained before `nullopt`. The conjunction is inductive. The core is
`NoLostWakeup`: while somebody waits there are at least as many woken consumers
as elements. An enqueue adds one of each; a consumer that resumes removes one
of each or finds the queue empty; a `try_dequeue` only removes an element; a
spurious wake-up only adds a woken consumer; `close()` leaves nobody waiting.

**`ObserverAppProofs`.** `ObserverSafe`: whole frames and complete totals;
`FramesNeverStepBack`: the action property `FramesAdvance`. The invariant
follows both threads through their critical sections: who holds `scene_mutex`
is where it copies (`MutexInv`); an element of the shared scene is one update
behind the client exactly while it is still to be copied (`SharedInv`); the
frame agrees with the shared scene as far as it is copied, and is of one update
outside the section (`FrameInv`); what is presented is no newer than the frame
about to replace it, nor that than what is shared (`OrderInv`); the telemetry
names the revision of the client's scene but from applying to announcing, when
the synchronizer still does, and counts all but the update on its way
(`StatsInv`); the program exits after its receiver (`ExitInv`).

**`SoftwareAsicProofs`.** `AsicConsistent`: types, consistent tables, capacity
and `TransmittedIsQueued`, strengthened by the finiteness of the MAC table's
domain, without which its cardinality says nothing. One lemma per call; a
removed port leaves every member list because lists hold a port at most once,
and a VLAN is removed only without members and router interface. `VlansIsolated`
is the action property `Isolation`: `L2Outputs` picks only members of the
frame's VLAN other than the ingress port, also when the MAC table still names a
port that was removed and created again, and members allow their VLAN by
`TablesConsistent`. `FramesFit`: `enqueue_outputs` tests the size of the frame
it queues. `UnicastFollows` rests on `MacFollows`: an entry of the MAC table is
where its host was last heard, and a table with room misses no host; a full one
keeps following the hosts it knows. `RoutedBest`: the route chosen is a longest
match among those programmed (`RoutesKnown`), and its neighbour is resolved.

**`Ipv4RouterProofs`.** The widths of addresses and header words are constants,
so the theorems include 32 and 16 bits.

* `TablesSafe` (`TablesSound`, `PinnedStay`) and `ExpiryUnseen`: the inductive
  invariant `TableInv` holds the routes without a repeated prefix, neighbours
  that are host addresses learned at some time, and the static entries. That a
  prefix of length *n* covers 2^(bits-*n*) addresses is `PrefixCovers`, from
  `Block`: the addresses that agree in the bits above a place are an interval,
  of the length of a power of two.
* `LookupCorrect`: `LoopFindsBest` is the invariant of the loop of
  `longest_prefix_match`: after *k* entries the best match is null if none
  of them matches, otherwise a longest that does. That it is the only longest
  follows from `RoutesGood`: two prefixes of one length that contain the same
  address are equal, and no two routes have equal prefixes.
* `HeaderSafe`: `ChecksumIs` describes the checksum loop as a chain of sums with
  end-around carry; `PlusIs`, `PlusSwap` and `PlusCancels` are the laws of that
  sum, which cancels but for the two representations of zero (`Alike`). So the
  checksum of a filled header is 0 (`FilledChecksum`), `parse` undoes
  `serialize` (`RoundTrip`), and a word that changed into one that is not
  `Alike` is noticed (`ChangeNoticed`); one inverted bit is never `Alike`
  (`FlipWord`, true of words of more than one bit). `WireInv` says that the
  header on the wire is the serialised packet `hops` routers later.

**`DiscoveryProofs`.** `DiscoverySafe`: every announcement in the network is the
answer of a host to the query it carries, recorded in `answered` (`NetworkInv`);
`discover_one` and `discover_all` take only what carries their own request id
and skip node ids they have (`ClientInv`). `ConfigurationSafe`: `Sound` is
preserved by `add_or_update` in each of its branches, and `CompleteLab` counts:
four distinct addresses, one of them the leader's.

**`LabProofs`.** One invariant for the composition, `OrchestratorInv /\
ControlInv /\ PortInv`.

* `OrchestratorSafe`: the dict and the victims of a stop hold every child once,
  and the child waited for is in neither (`DictInv`); `stop_all`, and a
  `start_all` that failed, have all that is in the dict as victims (`CallInv`).
  A child is forgotten only after `wait()` returned, or by an interrupt.
* `ControlSafe`: every unit of the stream carries the number of its request and
  the identifier that belongs to it, and requests with one identifier are a
  whole round apart (`IdRound`): that is `AnswerIsOwn`, for streams torn in any
  way. `FramingInv` says for an undisturbed connection that what was read, what
  is on its way and what is still to be sent are the response, in this order.
* `LabSafe`: the connection leads to the child that holds the port, and that is
  alive (`PortInv`); a living child that is not in the dict was forgotten, which
  takes an interrupt.

Recursive definitions are reasoned about through sets: `Induction` in
`ProofFacts` derives induction over a set of numbers from well-foundedness, and
`FiniteRecursion` the existence of a function given by a recursion on `0..n`.
Loops are therefore recursive functions (`BestMatch`, `Checksum`), and powers of
two a table filled by doubling instead of `^`, of which the provers know nothing.

### Checked by TLC only

* Liveness (`SnapshotRecovers`, `CloseReleases`, `FrontIsTaken`,
  `ShutdownCompletes`, `AppliedIsShown`, `CallReturns`, `CallsReturn`): fairness
  and ENABLED are outside the prover.
* The two violations of section 6, which are counterexamples.

## 5. Assumptions a reader should know

* Session ids are distinct. The code takes a clock reading.
* `receive_next` returns (its socket has a timeout) and the window system
  returns from polling.
* Discovery request ids are distinct and never 0; the code takes a clock
  reading.
* A lab script is one thread, and an orchestrator is used by one script.
* The condition variable is that of the standard: `notify_one` wakes some
  waiter, wake-ups may be spurious, waiting releases the mutex atomically.

## 6. Where code and documentation disagree

1. `ARCHITECTURE.md` says "Malformed, duplicate, stale, out-of-order, and
   revision-mismatched messages do not modify the rendered scene."
   `consume()` takes any other session id for a new session, so a snapshot of
   a dead server that arrives late replaces the scene of the running one
   (`scene_sync_stale`). The observer recovers at the next snapshot
   (`scene_sync`), and within one session the sentence holds
   (`scene_sync_view`).
2. `ARCHITECTURE.md` says "Malformed input, missing routes/neighbors, expired
   TTL, unavailable ports, full queues, and injected resource exhaustion are
   distinguishable and covered by retained tests." `enqueue_outputs` answers
   `queue_congestion` whenever no copy was enqueued, also when the only egress
   port is down, or when the frame with its headers exceeds an MTU its payload
   alone did not (`asic_congestion`).

Noted while modelling, without a run of their own: the root README speaks of
the client requesting a complete snapshot, while `resync_request` is never
sent (`ARCHITECTURE.md` agrees with the code: periodic snapshots); the MAC
table's aging is never invoked by `SoftwareAsic`; a VLAN with a router
interface can never be removed; the route table and ARP cache have no capacity
although the README announces one for every table; frames leave access and
trunk ports with the tag they came with.

The control client keeps its socket open after a timeout; the bytes of the late
response are then read by the next request, which fails, and so on until the
script closes the connection. No wrong answer comes of it (`AnswerIsOwn`), but
the connection does not recover by itself.

## 7. Plan

Done, in this order: replication, its abstract specification, the bounded
queue, the observer program, the software ASIC with its forwarding functions,
and the first theorems of each; then discovery with the lab configuration, the
control channel, the orchestrator and the lab that composes them, and the
router's tables and headers.

Then the proofs: the safety of the observer program, of the lab and its two
parts, of discovery and of the router, the rest of the software ASIC, and the
refinement of `ReplicatedView`. No safety property of a run is left without a
theorem.

Next:

1. Facts that the liveness properties rest on and that are safety: that a
   woken consumer can always resume, that a call in progress always has a step
   of its own, that what a stuck client lacks is a snapshot.
2. `RoutedByBestRoute` of the switch from the lookup loop of the router, with
   prefixes bit by bit in both.

### Not modelled

* The renderer and window code: no state of their own beyond OpenGL's.
* The benchmark, the demo, the integration observer and the command line: they
  drive the components above and print.
* The CUDA kernel (floating-point data on a device) and runtime selection (one
  choice among strings).
* The mock ASIC, a test double.
* Byte layouts, and the text parsing of addresses and arguments: no control
  state, covered by unit tests.
* A snapshot of the traffic statistics taken while another thread counts: the
  counters are atomic, but no program of the repository has that second thread.
* An exception between starting and joining the observer's receiver thread.
