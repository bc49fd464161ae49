----------------------------- MODULE StateUpdate -----------------------------
(***************************************************************************)
(* The UDP state-update protocol (transport/state_update_protocol.cpp) and *)
(* the topology scene it carries (visualization/topology.cpp).             *)
(*                                                                         *)
(* A scene is a function from the identifiers of its nodes and links to    *)
(* what is drawn for them.  The drawn attributes of one element depend     *)
(* only on the backend's configuration, fixed for a session, and on the    *)
(* tick, so a stamp <<session, tick>> stands for them.  The byte layout    *)
(* of header and payload is left out.                                      *)
(***************************************************************************)
EXTENDS Naturals, FiniteSets

\* What a receiver gets out of the socket: bytes that hold an update, or not.
UpdateType == {"snapshot", "delta", "heartbeat", "resync_request"}

\* The scene of an observer that has received nothing: no node and no link.
EmptyScene == [e \in {} |-> <<0, 0>>]

\* revisions_are_valid: what a header must satisfy to be created or parsed.
RevisionsAreValid(type, base, revision) ==
    CASE type = "snapshot" -> base = 0 /\ revision > 0
      [] type = "delta"    -> revision > base
      [] OTHER             -> base <= revision

\* The condition under which StateUpdate::create yields an update and
\* StateUpdate::parse accepts its serialisation.  The payload limit of 60 KiB
\* is counted in scene elements.
WellFormed(u, maximumElements) ==
    /\ u.type \in UpdateType
    /\ u.session # 0
    /\ u.sequence # 0
    /\ Cardinality(DOMAIN u.payload) <= maximumElements
    /\ RevisionsAreValid(u.type, u.base, u.revision)

\* TopologyScene::apply_delta: every element of the payload is inserted or
\* overwritten, every other element of the scene stays.
ApplyDelta(scene, payload) ==
    [e \in DOMAIN scene \cup DOMAIN payload |->
        IF e \in DOMAIN payload THEN payload[e] ELSE scene[e]]
=============================================================================
