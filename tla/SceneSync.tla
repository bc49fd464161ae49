------------------------------ MODULE SceneSync ------------------------------
(***************************************************************************)
(* Scene replication: one authoritative simulation server                  *)
(* (simulation/authoritative_server.cpp, apps/simulation_server/main.cpp), *)
(* UDP between it and the observers, and in every observer process one     *)
(* ObserverClient (visualization/observer_client.cpp).                     *)
(*                                                                         *)
(* UDP is the set sent[o] of the datagrams handed to the network for       *)
(* observer o, which only grows: a datagram that is never taken from it is *)
(* lost, one taken twice is duplicated, and the order of taking is free.   *)
(* A server that dies leaves its datagrams behind, and its successor runs  *)
(* under a fresh session id.                                               *)
(***************************************************************************)
EXTENDS ClientSynchronizer

CONSTANTS
    ObserverCount,      \* the --observer endpoints, in command-line order
    SnapshotInterval,   \* snapshot_interval_ as passed to the constructor
    MaximumElements,    \* scene elements that fit into one datagram
    ElementsOf,         \* session |-> the nodes and links its backend draws
    MaxSessions,        \* bound: server processes started
    MaxTicks,           \* bound: publish_next calls of one server process
    MaxClock            \* bound: distinct steady_clock readings

ASSUME SceneSyncAssumption ==
    /\ ObserverCount \in Nat
    /\ SnapshotInterval \in Nat
    /\ MaximumElements \in Nat
    /\ MaxSessions \in Nat \ {0}
    /\ MaxTicks \in Nat
    /\ MaxClock \in Nat
    /\ DOMAIN ElementsOf = 1..MaxSessions

Observers == 1..ObserverCount
Sessions  == 1..MaxSessions
Ticks     == 1..MaxTicks

VARIABLES
    server,   \* the AuthoritativeServer and the loop that drives it
    sent,     \* observer |-> datagrams sent to it
    client,   \* observer |-> ClientSynchronizer of its ObserverClient
    scene,    \* observer |-> scene_ of its ObserverClient
    result    \* observer |-> ObserverResult of its last receive_next

vars == <<server, sent, client, scene, result>>

ObserverResult ==
    {"none", "applied_snapshot", "applied_delta", "ignored",
     "resync_required", "malformed_update", "malformed_scene",
     "network_error"}

\* The scene a session's backend computes for a tick: SimulationBackend::step
\* redraws every node and link.
SceneAt(s, t) == [e \in ElementsOf[s] |-> <<s, t>>]

\* What next_update can get from its backend as a payload
PublishableScenes == {SceneAt(s, t) : s \in Sessions, t \in Ticks}

Update ==
    [type: UpdateType, session: Sessions, sequence: Ticks,
     timestamp: 0..MaxClock, base: 0..MaxTicks, revision: Ticks,
     payload: PublishableScenes]

\* The constructor turns an interval of 0 into 1.
Interval == IF SnapshotInterval = 0 THEN 1 ELSE SnapshotInterval

-----------------------------------------------------------------------------
(* The server process *)

\* A server process whose constructor has run but which has not ticked.
FreshServer(s, clock) ==
    [session |-> s, sequence |-> 0, revision |-> 0, clock |-> clock,
     running |-> TRUE]

IsSnapshotTick(n) == n = 1 \/ n % Interval = 0

\* Mutant: a delta names no base.
BaseRevision_Zero(srv, snapshot) == 0

BaseRevision(srv, snapshot) == IF snapshot THEN 0 ELSE srv.revision

\* next_update: both counters advance, the payload is the whole scene, the
\* first and every Interval-th update is a snapshot.
NextUpdate(srv, now) ==
    LET snapshot == IsSnapshotTick(srv.sequence + 1) IN
    [type      |-> IF snapshot THEN "snapshot" ELSE "delta",
     session   |-> srv.session,
     sequence  |-> srv.sequence + 1,
     timestamp |-> now,
     base      |-> BaseRevision(srv, snapshot),
     revision  |-> srv.revision + 1,
     payload   |-> SceneAt(srv.session, srv.revision + 1)]

\* Mutant: the sequence number does not advance with the revision.
Ticked_SequenceKept(now, running) ==
    [server EXCEPT !.revision = @ + 1, !.clock = now, !.running = running]

\* publish_next up to the send loop; the counters have advanced even when
\* there is nothing to send.
Ticked(now, running) ==
    [server EXCEPT !.sequence = @ + 1, !.revision = @ + 1, !.clock = now,
                   !.running = running]

\* One turn of the main loop.  The send loop goes through the observers in
\* order and its first failure ends the process, so the observers 1..reached
\* get the datagram and the others do not.
Publish(now, reached) ==
    LET u == NextUpdate(server, now) IN
    /\ server.running
    /\ server.sequence < MaxTicks
    /\ WellFormed(u, MaximumElements)
    /\ server' = Ticked(now, reached = ObserverCount)
    /\ sent' = [o \in Observers |->
                  IF o <= reached THEN sent[o] \cup {u} ELSE sent[o]]
    /\ UNCHANGED <<client, scene, result>>

\* A scene too large to serialise: serialization_failed ends the process.
PublishUnserialisable(now) ==
    /\ server.running
    /\ server.sequence < MaxTicks
    /\ ~WellFormed(NextUpdate(server, now), MaximumElements)
    /\ server' = Ticked(now, FALSE)
    /\ UNCHANGED <<sent, client, scene, result>>

\* SIGINT, SIGTERM, the --ticks limit, or a crash.
StopServer ==
    /\ server.running
    /\ server' = [server EXCEPT !.running = FALSE]
    /\ UNCHANGED <<sent, client, scene, result>>

\* A new server process: a fresh session id and fresh counters; its clock may
\* have restarted with the machine.
RestartServer(clock) ==
    /\ ~server.running
    /\ server.session < MaxSessions
    /\ server' = FreshServer(server.session + 1, clock)
    /\ UNCHANGED <<sent, client, scene, result>>

-----------------------------------------------------------------------------
(* The observer processes *)

\* Mutant: scene_ is assigned before the synchronizer has been asked.
SceneAfter_Eager(c, current, u) ==
    CASE u.type = "snapshot" -> u.payload
      [] u.type = "delta"    -> ApplyDelta(current, u.payload)
      [] OTHER               -> current

\* scene_ after consume_datagram: the candidate, if the update was applied.
SceneAfter(c, current, u) ==
    CASE Outcome(c, u) = "applied_snapshot" -> u.payload
      [] Outcome(c, u) = "applied_delta"    -> ApplyDelta(current, u.payload)
      [] OTHER                              -> current

ResultOf(outcome) ==
    CASE outcome \in {"applied_snapshot", "applied_delta"} -> outcome
      [] outcome \in {"accepted_heartbeat", "ignored_duplicate",
                      "ignored_stale"} -> "ignored"
      [] OTHER -> "resync_required"

\* consume_datagram of an update whose payload parses.
Deliver(o, u) ==
    /\ client' = [client EXCEPT ![o] = Consume(client[o], u)]
    /\ scene'  = [scene EXCEPT ![o] = SceneAfter(client[o], scene[o], u)]
    /\ result' = [result EXCEPT ![o] = ResultOf(Outcome(client[o], u))]
    /\ UNCHANGED <<server, sent>>

\* receive_next with nothing to consume: bytes that are no update, an update
\* whose payload is no scene (rejected before the synchronizer sees the
\* header), or the receive timeout.
ReceiveNothing(o, why) ==
    /\ result' = [result EXCEPT ![o] = why]
    /\ UNCHANGED <<server, sent, client, scene>>

\* The observer process ends and is started again on the same port.
RestartObserver(o) ==
    /\ client' = [client EXCEPT ![o] = Reset]
    /\ scene'  = [scene EXCEPT ![o] = EmptyScene]
    /\ result' = [result EXCEPT ![o] = "none"]
    /\ UNCHANGED <<server, sent>>

-----------------------------------------------------------------------------
Init ==
    /\ \E clock \in 0..MaxClock : server = FreshServer(1, clock)
    /\ sent   = [o \in Observers |-> {}]
    /\ client = [o \in Observers |-> Reset]
    /\ scene  = [o \in Observers |-> EmptyScene]
    /\ result = [o \in Observers |-> "none"]

ServerStep ==
    \/ \E now \in server.clock..MaxClock :
          \/ \E reached \in 0..ObserverCount : Publish(now, reached)
          \/ PublishUnserialisable(now)
    \/ StopServer
    \/ \E clock \in 0..MaxClock : RestartServer(clock)

ObserverStep(o) ==
    \/ \E u \in sent[o] : Deliver(o, u)
    \/ \E why \in {"malformed_update", "malformed_scene", "network_error"} :
          ReceiveNothing(o, why)
    \/ RestartObserver(o)

Next == ServerStep \/ \E o \in Observers : ObserverStep(o)

Spec == Init /\ [][Next]_vars

-----------------------------------------------------------------------------
(* Properties *)

\* Types of the state.
TypeOK ==
    /\ server \in [session: Sessions, sequence: 0..MaxTicks,
                   revision: 0..MaxTicks, clock: 0..MaxClock,
                   running: BOOLEAN]
    /\ sent \in [Observers -> SUBSET Update]
    /\ client \in [Observers -> Synchronizer]
    /\ DOMAIN scene = Observers
    /\ result \in [Observers -> ObserverResult]

\* Every datagram in the network is the one its session's server publishes
\* under its sequence number: revisions and sequence numbers agree, a delta
\* builds on the revision right before it, and the payload is the whole scene
\* of that revision.  A publish that fails half-way does not break the
\* numbering, because the server does not go on after it.
NetFaithful ==
    /\ server.revision = server.sequence
    /\ \A o \in Observers : \A u \in sent[o] :
          /\ u.type \in {"snapshot", "delta"}
          /\ u.revision = u.sequence
          /\ u.base = IF u.type = "snapshot" THEN 0 ELSE u.sequence - 1
          /\ u.payload = SceneAt(u.session, u.sequence)

\* A synchronized observer draws exactly the scene the server of its session
\* published under its revision: whatever was lost, duplicated, reordered or
\* left over from a dead server, no update was skipped or applied twice and
\* no element of another session is left in the scene.
SceneFaithful ==
    \A o \in Observers :
        client[o].synchronized =>
            /\ client[o].session # NoSession
            /\ client[o].revision = client[o].sequence
            /\ scene[o] = SceneAt(client[o].session, client[o].revision)

\* Even while it waits for a snapshot an observer draws one whole published
\* scene (or none yet), never elements of two of them.
NeverTorn ==
    \A o \in Observers :
        \/ scene[o] = EmptyScene
        \/ \E s \in Sessions, t \in Ticks : scene[o] = SceneAt(s, t)

\* The authoritative server numbers revisions and updates in step, so the
\* base-revision test of consume() never fires: every lost update is reported
\* as a sequence gap.
NoRevisionMismatch ==
    \A o \in Observers : \A u \in sent[o] :
        Outcome(client[o], u) # "revision_mismatch"

\* resync_required_ is redundant: it holds exactly while the client is not
\* synchronized, so a client can neither stay silent about a lost stream nor
\* ask for a snapshot while it is applying deltas.
ResyncIffUnsynchronized ==
    \A o \in Observers : client[o].resyncRequired = ~client[o].synchronized

\* While a client stays in one session (and its process is not restarted) its
\* position in the stream never moves back, and it moves on by more than one
\* update only by a snapshot.
InSessionProgress ==
    [][\A o \in Observers :
         (/\ client'[o].session = client[o].session
          /\ client'[o].sequence # client[o].sequence
          /\ result'[o] # "none")
         => /\ client'[o].sequence > client[o].sequence
            /\ \/ client'[o].sequence = client[o].sequence + 1
               \/ result'[o] = "applied_snapshot"]_vars

-----------------------------------------------------------------------------
(* Replication as the promise of ReplicatedView *)

\* What an observer draws, as session and tick; <<0, 0>> for the empty scene.
Drawn(o) ==
    IF scene[o] = EmptyScene
    THEN <<0, 0>>
    ELSE scene[o][CHOOSE e \in DOMAIN scene[o] : TRUE]

View == INSTANCE ReplicatedView WITH
    Scenes <- Sessions \X Ticks,
    latest <- <<server.session, server.revision>>,
    view   <- [o \in Observers |-> Drawn(o)]

\* Observers only ever move forward: with a single server process that gets to
\* publish, the whole system implements ReplicatedView.
ImplementsReplicatedView == View!Spec

\* ARCHITECTURE.md, "Malformed, duplicate, stale, out-of-order, and
\* revision-mismatched messages do not modify the rendered scene": no datagram
\* replaces the drawn scene by one that was published before it.
StaleNeverDrawn ==
    [][\A o \in Observers :
         result'[o] # "none" => ~View!Before(Drawn(o)', Drawn(o))]_vars

-----------------------------------------------------------------------------
(* Liveness *)

Newest(o) ==
    CHOOSE u \in sent[o] : \A v \in sent[o] :
        \/ v.session < u.session
        \/ v.session = u.session /\ v.sequence <= u.sequence

DeliverNewest(o) ==
    /\ sent[o] # {}
    /\ LET newest == Newest(o) IN Deliver(o, newest)

\* UDP promises nothing, and the code never asks for a retransmission: it
\* relies on the last snapshot getting through.
Fairness == \A o \in Observers : WF_vars(DeliverNewest(o))

FairSpec == Spec /\ Fairness

PublishingOver ==
    /\ server.session = MaxSessions
    /\ ~server.running \/ server.sequence = MaxTicks

\* Whatever an observer has been through (gaps, restarts of either side,
\* datagrams of a dead session), it comes to draw the last datagram it was
\* sent if that one is a snapshot: no state of the synchronizer is a trap.
SnapshotRecovers ==
    \A o \in Observers :
        (PublishingOver /\ sent[o] # {} /\ Newest(o).type = "snapshot")
        ~> (client[o].synchronized /\ scene[o] = Newest(o).payload)
=============================================================================
