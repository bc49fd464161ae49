--------------------------- MODULE SceneSyncProofs ---------------------------
(***************************************************************************)
(* Proofs about SceneSync for every number of observers, sessions and      *)
(* ticks, every snapshot interval and every set of scene elements.         *)
(***************************************************************************)
EXTENDS SceneSync, TLAPS

-----------------------------------------------------------------------------
(* Facts about the synchronizer and the scene *)

\* consume() returns one of the results the header declares.
LEMMA OutcomeType ==
    ASSUME NEW c, NEW u
    PROVE  Outcome(c, u) \in SynchronizationResult
BY DEF Outcome, IsStale, SynchronizationResult

\* consume() applies a delta only to a synchronized client of the same session
\* that stands right before it.
LEMMA DeltaApplies ==
    ASSUME NEW c, NEW u, Outcome(c, u) = "applied_delta"
    PROVE  /\ u.type = "delta"
           /\ ForSession(c, u) = c
           /\ c.session = u.session
           /\ c.synchronized
           /\ u.sequence = c.sequence + 1
BY DEF Outcome, IsStale, ForSession, IsNewSession

\* An ignored update belongs to the session the client is already in.
LEMMA IgnoredChangesNothing ==
    ASSUME NEW c, NEW u, Outcome(c, u) \in {"ignored_duplicate", "ignored_stale"}
    PROVE  Consume(c, u) = c
<1>1. ForSession(c, u) = c
  BY DEF Outcome, IsStale, ForSession, IsNewSession
<1>. QED
  BY <1>1 DEF Consume, Rejecting

\* consume() keeps the synchronizer well-typed.
LEMMA ConsumeType ==
    ASSUME NEW c \in Synchronizer, NEW u \in Update
    PROVE  Consume(c, u) \in Synchronizer
<1>0. u.session \in Nat
  BY SceneSyncAssumption DEF Update, Sessions
<1>1. ForSession(c, u) \in Synchronizer
  BY <1>0 DEF ForSession, Reset, NoSession, Synchronizer
<1>2. u.sequence \in Nat /\ u.revision \in Nat /\ u.timestamp \in Nat
  BY DEF Update, Ticks
<1>3. Outcome(c, u) \in SynchronizationResult
  BY OutcomeType
<1>. QED
  BY <1>1, <1>2, <1>3 DEF Consume, Rejecting, Synchronizer, SynchronizationResult

\* Merging a later scene of a session into an earlier one gives the later one:
\* the backend redraws the same elements on every tick.
LEMMA MergeInSession ==
    ASSUME NEW s, NEW t, NEW n
    PROVE  ApplyDelta(SceneAt(s, t), SceneAt(s, n)) = SceneAt(s, n)
BY DEF ApplyDelta, SceneAt

-----------------------------------------------------------------------------
(* Type correctness *)

\* An update the server creates is well-typed.
LEMMA NextUpdateType ==
    ASSUME TypeOK, NEW now \in 0..MaxClock, server.sequence < MaxTicks,
           server.revision = server.sequence
    PROVE  NextUpdate(server, now) \in Update
<1>1. server.session \in Sessions /\ server.sequence + 1 \in Ticks
      /\ server.revision + 1 \in Ticks /\ server.revision \in 0..MaxTicks
      /\ 0 \in 0..MaxTicks
  BY SceneSyncAssumption DEF TypeOK, Ticks
<1>2. SceneAt(server.session, server.revision + 1)
          \in PublishableScenes
  BY <1>1 DEF PublishableScenes
<1>. QED
  BY <1>1, <1>2 DEF NextUpdate, BaseRevision, Update, UpdateType

\* The numbering of the server: type correctness needs it, since revision_ is
\* bounded only through sequence_.
Numbered == server.revision = server.sequence

\* One turn of the server's loop keeps its state well-typed and numbered.
LEMMA TickedType ==
    ASSUME TypeOK, Numbered, server.sequence < MaxTicks,
           NEW now \in 0..MaxClock, NEW running \in BOOLEAN
    PROVE  /\ Ticked(now, running) \in
                [session: Sessions, sequence: 0..MaxTicks,
                 revision: 0..MaxTicks, clock: 0..MaxClock, running: BOOLEAN]
           /\ Ticked(now, running).revision = Ticked(now, running).sequence
<1>1. server.sequence + 1 \in 0..MaxTicks
  BY SceneSyncAssumption DEF TypeOK
<1>. QED
  BY <1>1 DEF Ticked, TypeOK, Numbered

\* The type invariant and the server's numbering hold in every behaviour of
\* server, network and observers.
THEOREM TypeCorrect == Spec => [](TypeOK /\ Numbered)
<1>1. Init => TypeOK /\ Numbered
  <2>. SUFFICES ASSUME Init PROVE TypeOK /\ Numbered
    OBVIOUS
  <2>. USE DEF Init
  <2>1. Reset \in Synchronizer
    BY DEF Reset, Synchronizer, NoSession
  <2>2. PICK clock \in 0..MaxClock : server = FreshServer(1, clock)
    OBVIOUS
  <2>. QED
    BY <2>1, <2>2, SceneSyncAssumption
    DEF TypeOK, Numbered, FreshServer, ObserverResult, Sessions
<1>2. TypeOK /\ Numbered /\ [Next]_vars => (TypeOK /\ Numbered)'
  <2>. SUFFICES ASSUME TypeOK, Numbered, [Next]_vars
                PROVE  TypeOK' /\ Numbered'
    OBVIOUS
  <2>. USE SceneSyncAssumption DEF Numbered
  <2>1. ASSUME NEW now \in server.clock..MaxClock,
               NEW reached \in 0..ObserverCount, Publish(now, reached)
        PROVE  TypeOK' /\ Numbered'
    <3>1. now \in 0..MaxClock
      BY DEF TypeOK
    <3>2. NextUpdate(server, now) \in Update
      BY <2>1, <3>1, NextUpdateType DEF Publish
    <3>3. sent' \in [Observers -> SUBSET Update]
      BY <2>1, <3>2 DEF Publish, TypeOK
    <3>. QED
      BY <2>1, <3>1, <3>3, TickedType DEF Publish, TypeOK
  <2>2. ASSUME NEW now \in server.clock..MaxClock, PublishUnserialisable(now)
        PROVE  TypeOK' /\ Numbered'
    <3>1. now \in 0..MaxClock
      BY DEF TypeOK
    <3>. QED
      BY <2>2, <3>1, TickedType DEF PublishUnserialisable, TypeOK
  <2>3. CASE StopServer
    BY <2>3 DEF StopServer, TypeOK
  <2>4. ASSUME NEW clock \in 0..MaxClock, RestartServer(clock)
        PROVE  TypeOK' /\ Numbered'
    BY <2>4 DEF RestartServer, FreshServer, TypeOK, Sessions
  <2>5. ASSUME NEW o \in Observers, NEW u \in sent[o], Deliver(o, u)
        PROVE  TypeOK' /\ Numbered'
    <3>1. u \in Update
      BY DEF TypeOK
    <3>2. Consume(client[o], u) \in Synchronizer
      BY <3>1, ConsumeType DEF TypeOK
    <3>3. ResultOf(Outcome(client[o], u)) \in ObserverResult
      BY OutcomeType DEF ResultOf, ObserverResult, SynchronizationResult
    <3>. QED
      BY <2>5, <3>2, <3>3 DEF Deliver, TypeOK
  <2>6. ASSUME NEW o \in Observers,
               NEW why \in {"malformed_update", "malformed_scene",
                            "network_error"},
               ReceiveNothing(o, why)
        PROVE  TypeOK' /\ Numbered'
    BY <2>6 DEF ReceiveNothing, TypeOK, ObserverResult
  <2>7. ASSUME NEW o \in Observers, RestartObserver(o)
        PROVE  TypeOK' /\ Numbered'
    BY <2>7 DEF RestartObserver, TypeOK, ObserverResult, Reset, Synchronizer,
                NoSession
  <2>8. CASE UNCHANGED vars
    BY <2>8 DEF vars, TypeOK
  <2>. QED
    BY <2>1, <2>2, <2>3, <2>4, <2>5, <2>6, <2>7, <2>8
    DEF Next, ServerStep, ObserverStep
<1>. QED
  BY <1>1, <1>2, PTL DEF Spec

-----------------------------------------------------------------------------
(* The safety of replication *)

\* The inductive invariant.  What an observer draws is right because what the
\* network holds is right (NetFaithful), and a delta is merged only into the
\* scene of the revision before it (SceneFaithful).
IInv == NetFaithful /\ SceneFaithful /\ NeverTorn /\ ResyncIffUnsynchronized

\* In a network that holds only what servers publish, an update is either the
\* whole scene or one the client stands right before; consume() never sees a
\* base revision other than its own.
LEMMA NoMismatch ==
    ASSUME TypeOK, NetFaithful, SceneFaithful,
           NEW o \in Observers, NEW u \in sent[o]
    PROVE  Outcome(client[o], u) # "revision_mismatch"
<1>. SUFFICES ASSUME Outcome(client[o], u) = "revision_mismatch"
              PROVE  FALSE
  OBVIOUS
<1>1. /\ ForSession(client[o], u) = client[o]
      /\ client[o].synchronized
      /\ u.sequence = client[o].sequence + 1
      /\ u.type = "delta"
      /\ u.base # client[o].revision
  BY DEF Outcome, IsStale, ForSession, IsNewSession
<1>2. u.base = u.sequence - 1
  BY <1>1 DEF NetFaithful
<1>3. client[o].revision = client[o].sequence
  BY <1>1 DEF SceneFaithful
<1>4. client[o].sequence \in Nat
  BY DEF TypeOK, Synchronizer
<1>. QED
  BY <1>1, <1>2, <1>3, <1>4

\* Delivering a datagram of the network keeps an observer faithful.
LEMMA DeliverFaithful ==
    ASSUME TypeOK, IInv, NEW o \in Observers, NEW u \in sent[o]
    PROVE  LET c == Consume(client[o], u)
               v == SceneAfter(client[o], scene[o], u)
           IN  /\ c.resyncRequired = ~c.synchronized
               /\ c.synchronized => /\ c.session # NoSession
                                    /\ c.revision = c.sequence
                                    /\ v = SceneAt(c.session, c.revision)
               /\ \/ v = EmptyScene
                  \/ \E s \in Sessions, t \in Ticks : v = SceneAt(s, t)
<1>. DEFINE c == client[o]
            d == Consume(c, u)
            v == SceneAfter(c, scene[o], u)
<1>1. /\ u \in Update /\ c \in Synchronizer
      /\ u.session \in Sessions /\ u.sequence \in Ticks
  BY DEF TypeOK, Update
<1>2. /\ u.type \in {"snapshot", "delta"}
      /\ u.revision = u.sequence
      /\ u.payload = SceneAt(u.session, u.sequence)
  BY DEF IInv, NetFaithful
<1>3. /\ c.resyncRequired = ~c.synchronized
      /\ c.synchronized => /\ c.session # NoSession
                           /\ c.revision = c.sequence
                           /\ scene[o] = SceneAt(c.session, c.revision)
      /\ \/ scene[o] = EmptyScene
         \/ \E s \in Sessions, t \in Ticks : scene[o] = SceneAt(s, t)
  BY DEF IInv, SceneFaithful, NeverTorn, ResyncIffUnsynchronized
<1>4. u.session # NoSession
  BY <1>1, SceneSyncAssumption DEF Sessions, NoSession
<1>5. ForSession(c, u) \in Synchronizer /\ ForSession(c, u).session = u.session
  <2>1. u.session \in Nat
    BY <1>1, SceneSyncAssumption DEF Sessions
  <2>. QED
    BY <1>1, <2>1
    DEF ForSession, IsNewSession, Reset, NoSession, Synchronizer
<1>6. CASE Outcome(c, u) = "applied_snapshot"
  <2>1. /\ d.session = u.session /\ d.sequence = u.sequence
        /\ d.revision = u.revision
        /\ d.synchronized = TRUE /\ d.resyncRequired = FALSE
    BY <1>5, <1>6 DEF Consume, Rejecting, Synchronizer
  <2>2. v = SceneAt(u.session, u.sequence)
    BY <1>2, <1>6 DEF SceneAfter
  <2>. QED
    BY <1>1, <1>2, <1>4, <2>1, <2>2
<1>7. CASE Outcome(c, u) = "applied_delta"
  <2>1. /\ ForSession(c, u) = c /\ c.session = u.session /\ c.synchronized
    BY <1>7, DeltaApplies
  <2>2. /\ d.session = u.session /\ d.sequence = u.sequence
        /\ d.revision = u.revision
        /\ d.synchronized = TRUE /\ d.resyncRequired = FALSE
    BY <1>1, <1>3, <1>7, <2>1 DEF Consume, Rejecting, Synchronizer
  <2>3. v = ApplyDelta(SceneAt(u.session, c.revision),
                       SceneAt(u.session, u.sequence))
    BY <1>2, <1>3, <1>7, <2>1 DEF SceneAfter
  <2>4. v = SceneAt(u.session, u.sequence)
    BY <2>3, MergeInSession
  <2>. QED
    BY <1>1, <1>2, <1>4, <2>2, <2>4
<1>8. CASE Outcome(c, u) \in {"ignored_duplicate", "ignored_stale"}
  <2>1. d = c /\ v = scene[o]
    BY <1>8, IgnoredChangesNothing DEF SceneAfter
  <2>. QED
    BY <1>3, <2>1
<1>9. CASE Outcome(c, u) \in {"needs_snapshot", "sequence_gap",
                              "revision_mismatch"}
  <2>1. d.synchronized = FALSE /\ d.resyncRequired = TRUE /\ v = scene[o]
    BY <1>5, <1>9 DEF Consume, Rejecting, SceneAfter, Synchronizer
  <2>. QED
    BY <1>3, <2>1
<1>10. Outcome(c, u) # "accepted_heartbeat"
  BY <1>2 DEF Outcome, IsStale
<1>. QED
  BY <1>6, <1>7, <1>8, <1>9, <1>10, OutcomeType DEF SynchronizationResult

\* Every step of server, network and observers keeps the invariant.
LEMMA IInvStep == TypeOK /\ IInv /\ [Next]_vars => IInv'
<1>. SUFFICES ASSUME TypeOK, IInv, [Next]_vars PROVE IInv'
  OBVIOUS
<1>. USE DEF IInv
<1>1. ASSUME UNCHANGED <<client, scene>>
      PROVE  SceneFaithful' /\ NeverTorn' /\ ResyncIffUnsynchronized'
  BY <1>1 DEF SceneFaithful, NeverTorn, ResyncIffUnsynchronized
<1>2. ASSUME UNCHANGED <<server, sent>> PROVE NetFaithful'
  BY <1>2 DEF NetFaithful
<1>3. ASSUME NEW now \in server.clock..MaxClock,
             NEW reached \in 0..ObserverCount, Publish(now, reached)
      PROVE  IInv'
  <2>. DEFINE u == NextUpdate(server, now)
  <2>1. server.sequence \in Nat /\ server.revision = server.sequence
    BY SceneSyncAssumption DEF TypeOK, NetFaithful
  <2>2. /\ u.type \in {"snapshot", "delta"}
        /\ u.revision = u.sequence
        /\ u.base = IF u.type = "snapshot" THEN 0 ELSE u.sequence - 1
        /\ u.payload = SceneAt(u.session, u.sequence)
    BY <2>1 DEF NextUpdate, BaseRevision
  <2>3. \A o \in Observers : sent'[o] \subseteq sent[o] \cup {u}
    BY <1>3 DEF Publish
  <2>4. server'.revision = server'.sequence
    BY <1>3, <2>1, SceneSyncAssumption DEF Publish, Ticked, TypeOK
  <2>5. NetFaithful'
    BY <2>2, <2>3, <2>4 DEF NetFaithful
  <2>. QED
    BY <1>1, <1>3, <2>5 DEF Publish
<1>4. ASSUME NEW now \in server.clock..MaxClock, PublishUnserialisable(now)
      PROVE  IInv'
  <2>1. server'.revision = server'.sequence
    BY <1>4, SceneSyncAssumption
    DEF PublishUnserialisable, Ticked, TypeOK, NetFaithful
  <2>2. NetFaithful'
    BY <1>4, <2>1 DEF PublishUnserialisable, NetFaithful
  <2>. QED
    BY <1>1, <1>4, <2>2 DEF PublishUnserialisable
<1>5. CASE StopServer
  <2>1. NetFaithful'
    BY <1>5 DEF StopServer, NetFaithful, TypeOK
  <2>. QED
    BY <1>1, <1>5, <2>1 DEF StopServer
<1>6. ASSUME NEW clock \in 0..MaxClock, RestartServer(clock)
      PROVE  IInv'
  <2>1. NetFaithful'
    BY <1>6 DEF RestartServer, FreshServer, NetFaithful
  <2>. QED
    BY <1>1, <1>6, <2>1 DEF RestartServer
<1>7. ASSUME NEW o \in Observers, NEW u \in sent[o], Deliver(o, u)
      PROVE  IInv'
  <2>1. NetFaithful'
    BY <1>2, <1>7 DEF Deliver
  <2>2. /\ client'[o] = Consume(client[o], u)
        /\ scene'[o] = SceneAfter(client[o], scene[o], u)
        /\ \A p \in Observers \ {o} : client'[p] = client[p]
                                      /\ scene'[p] = scene[p]
    BY <1>7 DEF Deliver, TypeOK
  <2>. QED
    BY <2>1, <2>2, DeliverFaithful
    DEF SceneFaithful, NeverTorn, ResyncIffUnsynchronized
<1>8. ASSUME NEW o \in Observers,
             NEW why \in {"malformed_update", "malformed_scene",
                          "network_error"},
             ReceiveNothing(o, why)
      PROVE  IInv'
  BY <1>1, <1>2, <1>8 DEF ReceiveNothing
<1>9. ASSUME NEW o \in Observers, RestartObserver(o)
      PROVE  IInv'
  <2>1. NetFaithful'
    BY <1>2, <1>9 DEF RestartObserver
  <2>2. /\ client'[o] = Reset /\ scene'[o] = EmptyScene
        /\ \A p \in Observers \ {o} : client'[p] = client[p]
                                      /\ scene'[p] = scene[p]
    BY <1>9 DEF RestartObserver, TypeOK
  <2>3. Reset.synchronized = FALSE /\ Reset.resyncRequired = TRUE
    BY DEF Reset
  <2>4. SceneFaithful' /\ ResyncIffUnsynchronized'
    BY <2>2, <2>3 DEF SceneFaithful, ResyncIffUnsynchronized
  <2>5. NeverTorn'
    BY <2>2 DEF NeverTorn
  <2>. QED
    BY <2>1, <2>4, <2>5
<1>10. CASE UNCHANGED vars
  BY <1>1, <1>2, <1>10 DEF vars
<1>. QED
  BY <1>3, <1>4, <1>5, <1>6, <1>7, <1>8, <1>9, <1>10
  DEF Next, ServerStep, ObserverStep

\* Replication is safe in every behaviour: what a synchronized observer draws
\* is what the server of its session published under its revision, no observer
\* ever draws a mixture of scenes, and the network holds only what a server
\* published.
THEOREM ReplicationSafe ==
    Spec => [](NetFaithful /\ SceneFaithful /\ NeverTorn
               /\ ResyncIffUnsynchronized)
<1>1. Init => IInv
  <2>. SUFFICES ASSUME Init PROVE IInv
    OBVIOUS
  <2>1. Reset.synchronized = FALSE /\ Reset.resyncRequired = TRUE
    BY DEF Reset
  <2>2. server.revision = server.sequence
    BY DEF Init, FreshServer
  <2>. QED
    BY <2>1, <2>2 DEF Init, IInv, NetFaithful, SceneFaithful, NeverTorn,
                      ResyncIffUnsynchronized
<1>2. IInv => NetFaithful /\ SceneFaithful /\ NeverTorn
              /\ ResyncIffUnsynchronized
  BY DEF IInv
<1>. QED
  BY <1>1, <1>2, IInvStep, TypeCorrect, PTL DEF Spec

\* A client of the authoritative server never reports a revision mismatch.
THEOREM MismatchUnreachable == Spec => []NoRevisionMismatch
<1>1. TypeOK /\ NetFaithful /\ SceneFaithful => NoRevisionMismatch
  BY NoMismatch DEF NoRevisionMismatch
<1>. QED
  BY <1>1, TypeCorrect, ReplicationSafe, PTL

-----------------------------------------------------------------------------
(* Progress inside a session *)

\* One consume() that stays in the session and moves the sequence number moves
\* it forward, by one unless the update is an applied snapshot.
LEMMA ConsumeProgress ==
    ASSUME NEW c \in Synchronizer, NEW u \in Update,
           Consume(c, u).session = c.session,
           Consume(c, u).sequence # c.sequence
    PROVE  /\ Consume(c, u).sequence > c.sequence
           /\ \/ Consume(c, u).sequence = c.sequence + 1
              \/ ResultOf(Outcome(c, u)) = "applied_snapshot"
<1>1. u.sequence \in Nat /\ u.session \in Nat /\ c.sequence \in Nat
  BY SceneSyncAssumption DEF Update, Ticks, Sessions, Synchronizer
<1>2. ForSession(c, u).session = u.session /\ ForSession(c, u) \in Synchronizer
  BY <1>1 DEF ForSession, IsNewSession, Reset, NoSession, Synchronizer
<1>3. Consume(c, u).session = u.session
  BY <1>2, OutcomeType DEF Consume, Rejecting, Synchronizer, SynchronizationResult
<1>4. ~IsNewSession(c, u) /\ ForSession(c, u) = c
  BY <1>3 DEF IsNewSession, ForSession
<1>5. Outcome(c, u) \in {"applied_snapshot", "applied_delta",
                         "accepted_heartbeat"}
  BY <1>4, OutcomeType DEF Consume, Rejecting, Synchronizer, SynchronizationResult
<1>6. Consume(c, u).sequence = u.sequence
  BY <1>4, <1>5 DEF Consume, Rejecting, Synchronizer
<1>7. u.sequence > c.sequence
  BY <1>1, <1>4, <1>5 DEF Outcome, IsStale
<1>8. CASE Outcome(c, u) = "applied_snapshot"
  BY <1>6, <1>7, <1>8 DEF ResultOf
<1>9. CASE Outcome(c, u) \in {"applied_delta", "accepted_heartbeat"}
  <2>1. u.sequence = c.sequence + 1
    BY <1>4, <1>9 DEF Outcome, IsStale
  <2>. QED
    BY <1>6, <1>7, <2>1
<1>. QED
  BY <1>5, <1>8, <1>9

\* No delivery, in whatever order, sets a client back inside its session or
\* lets it skip an update other than by a snapshot.
THEOREM ProgressInSession == Spec => InSessionProgress
<1>. DEFINE Moves(o) ==
              /\ client'[o].session = client[o].session
              /\ client'[o].sequence # client[o].sequence
              /\ result'[o] # "none"
            Forward(o) ==
              /\ client'[o].sequence > client[o].sequence
              /\ \/ client'[o].sequence = client[o].sequence + 1
                 \/ result'[o] = "applied_snapshot"
<1>1. TypeOK /\ [Next]_vars => [\A o \in Observers : Moves(o) => Forward(o)]_vars
  <2>. SUFFICES ASSUME TypeOK, [Next]_vars, NEW p \in Observers, Moves(p)
                PROVE  Forward(p)
    OBVIOUS
  <2>1. CASE UNCHANGED client
    BY <2>1
  <2>2. ASSUME NEW o \in Observers, NEW u \in sent[o], Deliver(o, u)
        PROVE  Forward(p)
    <3>1. client[p] \in Synchronizer /\ u \in Update
      BY DEF TypeOK
    <3>2. p = o
      BY <2>2 DEF Deliver, TypeOK
    <3>3. /\ client'[p] = Consume(client[p], u)
          /\ result'[p] = ResultOf(Outcome(client[p], u))
      BY <2>2, <3>2 DEF Deliver, TypeOK
    <3>. QED
      BY <3>1, <3>3, ConsumeProgress
  <2>3. ASSUME NEW o \in Observers, RestartObserver(o)
        PROVE  Forward(p)
    BY <2>3 DEF RestartObserver, TypeOK
  <2>. QED
    BY <2>1, <2>2, <2>3
    DEF Next, ServerStep, ObserverStep, Publish, PublishUnserialisable,
        StopServer, RestartServer, ReceiveNothing, vars
<1>. QED
  BY <1>1, TypeCorrect, PTL DEF Spec, InSessionProgress

-----------------------------------------------------------------------------
(* The refinement of ReplicatedView *)

\* The scenes of session s fit into a datagram.
Fits(s) == Cardinality(ElementsOf[s]) <= MaximumElements

\* Of all the server processes only one gets to publish: the scenes of the
\* others are too large to be sent.  (MaxSessions = 1 is a special case.)
OneServerPublishes == \A r, s \in Sessions : Fits(r) /\ Fits(s) => r = s

\* What is in the network was published by a server that could, and before
\* what the server publishes now.
NetworkBehind ==
    \A o \in Observers : \A u \in sent[o] :
        /\ Fits(u.session)
        /\ \/ u.session < server.session
           \/ u.session = server.session /\ u.sequence <= server.revision

\* An observer that draws something draws the scene of its synchronizer's
\* session and sequence number, also after it has lost the stream.
DrawsPosition ==
    \A o \in Observers :
        /\ client[o].session # NoSession
             => client[o].session \in Sessions /\ Fits(client[o].session)
        /\ \/ scene[o] = EmptyScene
           \/ /\ client[o].session # NoSession
              /\ scene[o] = SceneAt(client[o].session, client[o].sequence)

ViewInv == NetworkBehind /\ DrawsPosition

\* The refinement mapping as a function of the scene alone
DrawnOf(v) ==
    IF v = EmptyScene THEN <<0, 0>> ELSE v[CHOOSE e \in DOMAIN v : TRUE]

\* The refinement mapping of a published scene
LEMMA DrawnScene ==
    ASSUME NEW s, NEW t, ElementsOf[s] # {}
    PROVE  DrawnOf(SceneAt(s, t)) = <<s, t>>
<1>. DEFINE v == SceneAt(s, t)
<1>1. DOMAIN v = ElementsOf[s]
  BY DEF SceneAt
<1>2. v # EmptyScene
  <2>1. DOMAIN EmptyScene = {}
    BY DEF EmptyScene
  <2>. QED
    BY <1>1, <2>1
<1>3. (CHOOSE e \in DOMAIN v : TRUE) \in ElementsOf[s]
  BY <1>1
<1>. QED
  BY <1>2, <1>3 DEF DrawnOf, SceneAt

\* A backend without elements draws the empty scene.
LEMMA SceneWithoutElements ==
    ASSUME NEW s, NEW t, ElementsOf[s] = {}
    PROVE  SceneAt(s, t) = EmptyScene
BY DEF SceneAt, EmptyScene

\* What a delivery does to the position and to the scene of an observer, if
\* only one server publishes: nothing is drawn anew, or the scene moves on.
LEMMA DeliverMoves ==
    ASSUME TypeOK, IInv, ViewInv, OneServerPublishes,
           NEW o \in Observers, NEW u \in sent[o]
    PROVE  LET c == client[o]
               d == Consume(c, u)
               v == SceneAfter(c, scene[o], u)
           IN  /\ d.session = u.session
               /\ \/ v = scene[o] /\ (scene[o] # EmptyScene => d.sequence = c.sequence
                                                            /\ c.session = u.session)
                  \/ /\ v = SceneAt(u.session, u.sequence) /\ d.sequence = u.sequence
                     /\ \/ scene[o] = EmptyScene
                        \/ /\ scene[o] = SceneAt(u.session, c.sequence)
                           /\ u.sequence > c.sequence
<1>. DEFINE c == client[o]
            d == Consume(c, u)
            v == SceneAfter(c, scene[o], u)
            e == ForSession(c, u)
<1>1. /\ u \in Update /\ c \in Synchronizer
      /\ u.session \in Sessions /\ u.sequence \in Nat /\ c.sequence \in Nat
  BY DEF TypeOK, Update, Ticks, Synchronizer
<1>2. /\ u.type \in {"snapshot", "delta"}
      /\ u.payload = SceneAt(u.session, u.sequence)
  BY DEF IInv, NetFaithful
<1>3. e \in Synchronizer /\ e.session = u.session
  <2>1. u.session \in Nat
    BY <1>1, SceneSyncAssumption DEF Sessions
  <2>. QED
    BY <1>1, <2>1 DEF ForSession, IsNewSession, Reset, NoSession, Synchronizer
<1>4. IsNewSession(c, u) => scene[o] = EmptyScene
  <2>. SUFFICES ASSUME IsNewSession(c, u), scene[o] # EmptyScene PROVE FALSE
    OBVIOUS
  <2>1. c.session \in Sessions /\ Fits(c.session)
    BY DEF ViewInv, DrawsPosition
  <2>2. Fits(u.session)
    BY DEF ViewInv, NetworkBehind
  <2>3. c.session = u.session
    BY <1>1, <2>1, <2>2 DEF OneServerPublishes
  <2>. QED
    BY <2>3 DEF IsNewSession
<1>5. ~IsNewSession(c, u) => e = c /\ c.session = u.session
  BY DEF IsNewSession, ForSession
<1>6. scene[o] = EmptyScene \/ scene[o] = SceneAt(c.session, c.sequence)
  BY DEF ViewInv, DrawsPosition
<1>7. CASE Outcome(c, u) \in {"applied_snapshot", "applied_delta"}
  <2>1. d.session = u.session /\ d.sequence = u.sequence
    BY <1>3, <1>7 DEF Consume, Rejecting, Synchronizer
  <2>2. v = SceneAt(u.session, u.sequence)
    <3>1. CASE Outcome(c, u) = "applied_snapshot"
      BY <1>2, <3>1 DEF SceneAfter
    <3>2. CASE Outcome(c, u) = "applied_delta"
      <4>1. c.session = u.session /\ c.synchronized
        BY <3>2, DeltaApplies
      <4>2. scene[o] = SceneAt(u.session, c.revision)
        BY <4>1 DEF IInv, SceneFaithful
      <4>. QED
        BY <1>2, <3>2, <4>2, MergeInSession DEF SceneAfter
    <3>. QED
      BY <1>7, <3>1, <3>2
  <2>3. ~IsNewSession(c, u) => u.sequence > c.sequence
    <3>. SUFFICES ASSUME ~IsNewSession(c, u) PROVE u.sequence > c.sequence
      OBVIOUS
    <3>1. u.sequence # c.sequence /\ ~IsStale(c, u)
      BY <1>5, <1>7 DEF Outcome
    <3>. QED
      BY <1>1, <3>1 DEF IsStale
  <2>. HIDE DEF c, d, v, e
  <2>. QED
    BY <1>4, <1>5, <1>6, <2>1, <2>2, <2>3 DEF c, d, v
<1>8. CASE Outcome(c, u) \notin {"applied_snapshot", "applied_delta"}
  <2>1. v = scene[o]
    BY <1>8 DEF SceneAfter
  <2>2. Outcome(c, u) # "accepted_heartbeat"
    BY <1>2 DEF Outcome, IsStale
  <2>3. d.session = u.session /\ d.sequence = e.sequence
    <3>1. CASE Outcome(c, u) \in {"ignored_duplicate", "ignored_stale"}
      BY <1>3, <3>1 DEF Consume
    <3>2. CASE Outcome(c, u) \in {"needs_snapshot", "sequence_gap",
                                  "revision_mismatch"}
      BY <1>3, <3>2 DEF Consume, Rejecting, Synchronizer
    <3>. QED
      BY <1>8, <2>2, <3>1, <3>2, OutcomeType DEF SynchronizationResult
  <2>. HIDE DEF c, d, v, e
  <2>. QED
    BY <1>4, <1>5, <2>1, <2>3 DEF c, d, v
<1>. QED
  BY <1>7, <1>8

\* Every step keeps the two invariants of the refinement.
LEMMA ViewInvStep ==
    TypeOK /\ IInv /\ OneServerPublishes /\ ViewInv /\ [Next]_vars => ViewInv'
<1>. SUFFICES ASSUME TypeOK, IInv, OneServerPublishes, ViewInv, [Next]_vars
              PROVE  ViewInv'
  OBVIOUS
<1>1. ASSUME UNCHANGED <<client, scene>> PROVE DrawsPosition'
  BY <1>1 DEF ViewInv, DrawsPosition
<1>2. ASSUME UNCHANGED sent, server'.session = server.session,
             server'.revision \in Nat, server'.revision >= server.revision
      PROVE  NetworkBehind'
  BY <1>2, SceneSyncAssumption
  DEF ViewInv, NetworkBehind, TypeOK, Update, Ticks
<1>3. /\ server.session \in Nat /\ server.sequence \in Nat
      /\ server.revision = server.sequence
  BY SceneSyncAssumption DEF TypeOK, Sessions, IInv, NetFaithful
<1>4. ASSUME NEW now \in server.clock..MaxClock,
             NEW reached \in 0..ObserverCount, Publish(now, reached)
      PROVE  ViewInv'
  <2>. DEFINE w == NextUpdate(server, now)
  <2>1. /\ w.session = server.session
        /\ w.sequence = server.revision + 1
        /\ w.payload = SceneAt(server.session, server.revision + 1)
    BY <1>3 DEF NextUpdate
  <2>2. Fits(w.session)
    <3>1. DOMAIN w.payload = ElementsOf[w.session]
      BY <2>1 DEF SceneAt
    <3>. QED
      BY <1>4, <3>1 DEF Publish, WellFormed, Fits
  <2>3. /\ server'.session = server.session
        /\ server'.revision = server.revision + 1
    BY <1>4 DEF Publish, Ticked, TypeOK
  <2>4. \A o \in Observers : sent'[o] \subseteq sent[o] \cup {w}
    BY <1>4 DEF Publish
  <2>5. ASSUME NEW o \in Observers, NEW u \in sent'[o]
        PROVE  /\ Fits(u.session)
               /\ \/ u.session < server'.session
                  \/ /\ u.session = server'.session
                     /\ u.sequence <= server'.revision
    <3>1. CASE u = w
      <4>. HIDE DEF w
      <4>. QED
        BY <1>3, <2>1, <2>2, <2>3, <3>1
    <3>2. CASE u \in sent[o]
      <4>1. u.session \in Nat /\ u.sequence \in Nat
        BY <3>2 DEF TypeOK, Update, Ticks, Sessions
      <4>. QED
        BY <1>3, <2>3, <3>2, <4>1 DEF ViewInv, NetworkBehind
    <3>. QED
      BY <2>4, <3>1, <3>2
  <2>6. NetworkBehind'
    BY <2>5 DEF NetworkBehind
  <2>. QED
    BY <1>1, <1>4, <2>6 DEF Publish, ViewInv
<1>5. ASSUME NEW now \in server.clock..MaxClock, PublishUnserialisable(now)
      PROVE  ViewInv'
  <2>1. /\ server'.session = server.session
        /\ server'.revision = server.revision + 1
    BY <1>5 DEF PublishUnserialisable, Ticked, TypeOK
  <2>2. server'.revision \in Nat /\ server'.revision >= server.revision
    BY <1>3, <2>1
  <2>3. NetworkBehind'
    BY <1>2, <1>5, <2>1, <2>2 DEF PublishUnserialisable
  <2>. QED
    BY <1>1, <1>5, <2>3 DEF PublishUnserialisable, ViewInv
<1>6. CASE StopServer
  <2>1. /\ server'.session = server.session
        /\ server'.revision = server.revision
    BY <1>6 DEF StopServer, TypeOK
  <2>. QED
    BY <1>1, <1>2, <1>3, <1>6, <2>1 DEF StopServer, ViewInv
<1>7. ASSUME NEW clock \in 0..MaxClock, RestartServer(clock)
      PROVE  ViewInv'
  <2>1. server'.session = server.session + 1 /\ server'.revision = 0
    BY <1>7 DEF RestartServer, FreshServer
  <2>2. UNCHANGED <<sent, client, scene>>
    BY <1>7 DEF RestartServer
  <2>3. \A o \in Observers : \A u \in sent[o] : u.session \in Nat
    BY DEF TypeOK, Update, Sessions
  <2>4. NetworkBehind'
    BY <1>3, <2>1, <2>2, <2>3 DEF ViewInv, NetworkBehind
  <2>. QED
    BY <1>1, <2>2, <2>4 DEF ViewInv
<1>8. ASSUME NEW o \in Observers, NEW u \in sent[o], Deliver(o, u)
      PROVE  ViewInv'
  <2>. DEFINE c == client[o]
              d == Consume(c, u)
              v == SceneAfter(c, scene[o], u)
  <2>1. NetworkBehind'
    BY <1>8 DEF Deliver, ViewInv, NetworkBehind
  <2>2. /\ client'[o] = d /\ scene'[o] = v
        /\ \A p \in Observers \ {o} : client'[p] = client[p]
                                      /\ scene'[p] = scene[p]
    BY <1>8 DEF Deliver, TypeOK
  <2>3. /\ d.session = u.session
        /\ \/ v = scene[o] /\ (scene[o] # EmptyScene => d.sequence = c.sequence
                                                     /\ c.session = u.session)
           \/ v = SceneAt(u.session, u.sequence) /\ d.sequence = u.sequence
    BY DeliverMoves
  <2>4. u.session \in Sessions /\ u.session # NoSession /\ Fits(u.session)
    BY SceneSyncAssumption
    DEF TypeOK, Update, Sessions, NoSession, ViewInv, NetworkBehind
  <2>5. scene[o] = EmptyScene \/ scene[o] = SceneAt(c.session, c.sequence)
    BY DEF ViewInv, DrawsPosition
  <2>. HIDE DEF c, d, v
  <2>6. \/ v = EmptyScene
        \/ d.session # NoSession /\ v = SceneAt(d.session, d.sequence)
    BY <2>3, <2>4, <2>5
  <2>7. DrawsPosition'
    BY <2>2, <2>3, <2>4, <2>6 DEF ViewInv, DrawsPosition
  <2>. QED
    BY <2>1, <2>7 DEF ViewInv
<1>9. ASSUME NEW o \in Observers,
             NEW why \in {"malformed_update", "malformed_scene",
                          "network_error"},
             ReceiveNothing(o, why)
      PROVE  ViewInv'
  BY <1>9 DEF ReceiveNothing, ViewInv, NetworkBehind, DrawsPosition
<1>10. ASSUME NEW o \in Observers, RestartObserver(o)
       PROVE  ViewInv'
  <2>1. NetworkBehind'
    BY <1>10 DEF RestartObserver, ViewInv, NetworkBehind
  <2>2. /\ client'[o] = Reset /\ scene'[o] = EmptyScene
        /\ \A p \in Observers \ {o} : client'[p] = client[p]
                                      /\ scene'[p] = scene[p]
    BY <1>10 DEF RestartObserver, TypeOK
  <2>3. Reset.session = NoSession
    BY DEF Reset
  <2>4. DrawsPosition'
    BY <2>2, <2>3 DEF ViewInv, DrawsPosition
  <2>. QED
    BY <2>1, <2>4 DEF ViewInv
<1>11. CASE UNCHANGED vars
  BY <1>11 DEF vars, ViewInv, NetworkBehind, DrawsPosition
<1>. QED
  BY <1>4, <1>5, <1>6, <1>7, <1>8, <1>9, <1>10, <1>11
  DEF Next, ServerStep, ObserverStep

\* Nothing is in the network and nothing is drawn.
LEMMA InitView == Init => ViewInv
<1>1. Reset.session = NoSession
  BY DEF Reset
<1>. QED
  BY <1>1 DEF Init, ViewInv, NetworkBehind, DrawsPosition

\* The refinement mapping, and what a step that touches one observer does to it
MappedLatest == <<server.session, server.revision>>
MappedView == [o \in Observers |-> Drawn(o)]

\* The refinement mapping, before and after a step
LEMMA DrawnIs == \A o \in Observers : /\ Drawn(o) = DrawnOf(scene[o])
                                      /\ Drawn(o)' = DrawnOf(scene'[o])
BY DEF Drawn, DrawnOf

\* A step of one observer changes the view of that observer.
LEMMA ViewOfOne ==
    ASSUME NEW o \in Observers,
           \A p \in Observers \ {o} : scene'[p] = scene[p]
    PROVE  MappedView' = [MappedView EXCEPT ![o] = DrawnOf(scene'[o])]
<1>1. \A p \in Observers : MappedView'[p] = DrawnOf(scene'[p])
  BY DrawnIs DEF MappedView
<1>2. \A p \in Observers : MappedView[p] = DrawnOf(scene[p])
  BY DrawnIs DEF MappedView
<1>3. \A p \in Observers \ {o} : MappedView'[p] = MappedView[p]
  BY <1>1, <1>2
<1>. QED
  BY <1>1, <1>3 DEF MappedView

\* A step that draws nothing changes no view.
LEMMA ViewKept == UNCHANGED scene => UNCHANGED MappedView
BY DEF MappedView, Drawn

\* Every step of the system is a step of ReplicatedView or changes nothing
\* that ReplicatedView talks about.
LEMMA Simulates ==
    TypeOK /\ IInv /\ OneServerPublishes /\ ViewInv /\ [Next]_vars
    => [View!Next]_<<MappedLatest, MappedView>>
<1>. SUFFICES ASSUME TypeOK, IInv, OneServerPublishes, ViewInv, [Next]_vars
              PROVE  View!Next \/ UNCHANGED <<MappedLatest, MappedView>>
  OBVIOUS
<1>1. /\ server.session \in Nat /\ server.sequence \in Nat
      /\ server.revision = server.sequence
  BY SceneSyncAssumption DEF TypeOK, Sessions, IInv, NetFaithful
<1>2. ASSUME UNCHANGED scene, server'.session = server.session,
             server'.revision = server.revision + 1
      PROVE  View!Next
  <2>1. View!Publish
    BY <1>2, ViewKept DEF View!Publish, MappedView
  <2>. QED
    BY <2>1 DEF View!Next
<1>3. ASSUME NEW now \in server.clock..MaxClock,
             NEW reached \in 0..ObserverCount, Publish(now, reached)
      PROVE  View!Next
  <2>1. /\ server'.session = server.session
        /\ server'.revision = server.revision + 1
    BY <1>3 DEF Publish, Ticked, TypeOK
  <2>2. UNCHANGED scene
    BY <1>3 DEF Publish
  <2>. QED
    BY <1>2, <2>1, <2>2
<1>4. ASSUME NEW now \in server.clock..MaxClock, PublishUnserialisable(now)
      PROVE  View!Next
  <2>1. /\ server'.session = server.session
        /\ server'.revision = server.revision + 1
    BY <1>4 DEF PublishUnserialisable, Ticked, TypeOK
  <2>2. UNCHANGED scene
    BY <1>4 DEF PublishUnserialisable
  <2>. QED
    BY <1>2, <2>1, <2>2
<1>5. CASE StopServer
  <2>1. UNCHANGED MappedLatest
    BY <1>5 DEF StopServer, TypeOK, MappedLatest
  <2>2. UNCHANGED scene
    BY <1>5 DEF StopServer
  <2>. QED
    BY <2>1, <2>2, ViewKept
<1>6. ASSUME NEW clock \in 0..MaxClock, RestartServer(clock)
      PROVE  View!Next
  <2>1. server'.session = server.session + 1 /\ server'.revision = 0
    BY <1>6 DEF RestartServer, FreshServer
  <2>2. UNCHANGED scene
    BY <1>6 DEF RestartServer
  <2>3. View!Publish
    BY <2>1, <2>2, ViewKept DEF View!Publish, MappedView
  <2>. QED
    BY <2>3 DEF View!Next
<1>7. ASSUME NEW o \in Observers, NEW u \in sent[o], Deliver(o, u)
      PROVE  View!Next \/ UNCHANGED <<MappedLatest, MappedView>>
  <2>. DEFINE c == client[o]
              v == SceneAfter(c, scene[o], u)
  <2>1. /\ scene'[o] = v
        /\ \A p \in Observers \ {o} : scene'[p] = scene[p]
        /\ UNCHANGED MappedLatest
    BY <1>7 DEF Deliver, TypeOK, MappedLatest
  <2>2. \/ v = scene[o]
        \/ /\ v = SceneAt(u.session, u.sequence)
           /\ \/ scene[o] = EmptyScene
              \/ /\ scene[o] = SceneAt(u.session, c.sequence)
                 /\ u.sequence > c.sequence
    BY DeliverMoves
  <2>3. /\ u.session \in Sessions /\ u.session \in Nat \ {0}
        /\ u.sequence \in Ticks /\ u.sequence \in Nat
        /\ c.sequence \in Nat
    BY SceneSyncAssumption DEF TypeOK, Update, Sessions, Ticks, Synchronizer
  <2>4. \/ u.session < server.session
        \/ u.session = server.session /\ u.sequence <= server.revision
    BY DEF ViewInv, NetworkBehind
  <2>. HIDE DEF c, v
  <2>5. ASSUME v = scene[o] \/ (v = EmptyScene /\ scene[o] = EmptyScene)
        PROVE  UNCHANGED <<MappedLatest, MappedView>>
    <3>1. \A p \in Observers : scene'[p] = scene[p]
      BY <2>1, <2>5
    <3>2. \A p \in Observers : Drawn(p)' = Drawn(p)
      BY <3>1, DrawnIs
    <3>. QED
      BY <2>1, <3>2 DEF MappedView
  <2>6. ASSUME v = SceneAt(u.session, u.sequence), ElementsOf[u.session] # {},
               \/ scene[o] = EmptyScene
               \/ /\ scene[o] = SceneAt(u.session, c.sequence)
                  /\ u.sequence > c.sequence
        PROVE  View!Next
    <3>. DEFINE q == <<u.session, u.sequence>>
    <3>1. DrawnOf(scene'[o]) = q
      BY <2>1, <2>6, DrawnScene
    <3>2. MappedView' = [MappedView EXCEPT ![o] = q]
      BY <2>1, <3>1, ViewOfOne
    <3>3. \/ MappedView[o] = <<0, 0>>
          \/ /\ MappedView[o] = <<u.session, c.sequence>>
             /\ u.sequence > c.sequence
      <4>1. MappedView[o] = DrawnOf(scene[o])
        BY DrawnIs DEF MappedView
      <4>2. DrawnOf(EmptyScene) = <<0, 0>>
        BY DEF DrawnOf
      <4>3. \A t : DrawnOf(SceneAt(u.session, t)) = <<u.session, t>>
        BY <2>6, DrawnScene
      <4>. QED
        BY <2>6, <4>1, <4>2, <4>3
    <3>4. View!Before(MappedView[o], q)
      BY <2>3, <3>3 DEF View!Before
    <3>5. ~View!Before(MappedLatest, q)
      BY <1>1, <2>3, <2>4 DEF View!Before, MappedLatest
    <3>6. q \in Sessions \X Ticks
      BY <2>3
    <3>. HIDE DEF q
    <3>7. View!Advance(o, q)
      BY <2>1, <3>2, <3>4, <3>5 DEF View!Advance, MappedView, MappedLatest
    <3>. QED
      BY <3>6, <3>7 DEF View!Next
  <2>7. CASE ElementsOf[u.session] = {}
    <3>1. \A t : SceneAt(u.session, t) = EmptyScene
      BY <2>7, SceneWithoutElements
    <3>. QED
      BY <2>2, <2>5, <3>1
  <2>. QED
    BY <2>2, <2>5, <2>6, <2>7
<1>8. ASSUME NEW o \in Observers,
             NEW why \in {"malformed_update", "malformed_scene",
                          "network_error"},
             ReceiveNothing(o, why)
      PROVE  UNCHANGED <<MappedLatest, MappedView>>
  BY <1>8, ViewKept DEF ReceiveNothing, MappedLatest
<1>9. ASSUME NEW o \in Observers, RestartObserver(o)
      PROVE  View!Next
  <2>1. /\ scene'[o] = EmptyScene
        /\ \A p \in Observers \ {o} : scene'[p] = scene[p]
        /\ UNCHANGED MappedLatest
    BY <1>9 DEF RestartObserver, TypeOK, MappedLatest
  <2>2. DrawnOf(EmptyScene) = <<0, 0>>
    BY DEF DrawnOf
  <2>3. MappedView' = [MappedView EXCEPT ![o] = <<0, 0>>]
    BY <2>1, <2>2, ViewOfOne
  <2>4. View!StartOver(o)
    BY <2>1, <2>3 DEF View!StartOver, View!Nothing, MappedView, MappedLatest
  <2>. QED
    BY <2>4 DEF View!Next
<1>10. CASE UNCHANGED vars
  <2>1. UNCHANGED scene /\ UNCHANGED MappedLatest
    BY <1>10 DEF vars, MappedLatest
  <2>. QED
    BY <2>1, ViewKept
<1>. QED
  BY <1>3, <1>4, <1>5, <1>6, <1>7, <1>8, <1>9, <1>10
  DEF Next, ServerStep, ObserverStep

\* When only one server process gets to publish, scene replication implements
\* ReplicatedView: whatever the network loses, duplicates or reorders and
\* whichever process restarts, what an observer draws only moves forward among
\* the scenes published so far, until its own process starts over.
THEOREM Refinement ==
    ASSUME OneServerPublishes
    PROVE  Spec => ImplementsReplicatedView
<1>1. Init => View!Init
  <2>. SUFFICES ASSUME Init PROVE View!Init
    OBVIOUS
  <2>1. server.session = 1 /\ server.revision = 0
    BY DEF Init, FreshServer
  <2>2. \A o \in Observers : Drawn(o) = <<0, 0>>
    BY DEF Init, Drawn
  <2>. QED
    BY <2>1, <2>2 DEF View!Init, View!Nothing
<1>2. TypeOK /\ IInv /\ ViewInv /\ [Next]_vars
      => [View!Next]_<<MappedLatest, MappedView>>
  BY Simulates
<1>3. TypeOK /\ IInv /\ ViewInv /\ [Next]_vars => ViewInv'
  BY ViewInvStep
<1>4. Spec => [](TypeOK /\ IInv)
  BY TypeCorrect, ReplicationSafe, PTL DEF IInv
<1>5. Spec => View!Init /\ [][View!Next]_<<MappedLatest, MappedView>>
  BY <1>1, <1>2, <1>3, <1>4, InitView, PTL DEF Spec
<1>. QED
  BY <1>5, PTL
  DEF ImplementsReplicatedView, View!Spec, MappedLatest, MappedView
=============================================================================
