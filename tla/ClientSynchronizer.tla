-------------------------- MODULE ClientSynchronizer --------------------------
(***************************************************************************)
(* transport/client_synchronizer.cpp: the state a receiver keeps about the *)
(* stream of updates and what consume() makes of one more update.          *)
(*                                                                         *)
(* session_id_ is an optional; NoSession (0, which no update carries)      *)
(* stands for nullopt.  last_received_ feeds only disconnected(), which no *)
(* program of the repository calls, and is left out.                       *)
(***************************************************************************)
EXTENDS StateUpdate

NoSession == 0

SynchronizationResult ==
    {"applied_snapshot", "applied_delta", "accepted_heartbeat",
     "ignored_duplicate", "ignored_stale", "needs_snapshot", "sequence_gap",
     "revision_mismatch"}

Synchronizer ==
    [session: Nat, sequence: Nat, revision: Nat, timestamp: Nat,
     synchronized: BOOLEAN, resyncRequired: BOOLEAN]

\* The members' default initialisers, which are also what reset() restores.
Reset ==
    [session |-> NoSession, sequence |-> 0, revision |-> 0, timestamp |-> 0,
     synchronized |-> FALSE, resyncRequired |-> TRUE]

IsNewSession(c, u) == c.session # u.session

\* Mutant: the progress of the old session is kept.
ForSession_NoForget(c, u) ==
    IF IsNewSession(c, u) THEN [c EXCEPT !.session = u.session] ELSE c

\* consume() forgets the whole old session before it looks at the update.
ForSession(c, u) ==
    IF IsNewSession(c, u) THEN [Reset EXCEPT !.session = u.session] ELSE c

\* Mutant: only the timestamp tells an old update.
IsStale_ByTimestamp(d, u) == u.timestamp < d.timestamp

\* Older than the last update taken, by sequence number or by timestamp.
IsStale(d, u) == u.sequence < d.sequence \/ u.timestamp < d.timestamp

\* The value consume(u) returns, in the order of its tests.
Outcome(c, u) ==
    LET d == ForSession(c, u) IN
    IF IsNewSession(c, u) /\ u.type # "snapshot" THEN "needs_snapshot"
    ELSE IF ~IsNewSession(c, u) /\ u.sequence = d.sequence
         THEN "ignored_duplicate"
    ELSE IF ~IsNewSession(c, u) /\ IsStale(d, u) THEN "ignored_stale"
    ELSE IF u.type = "snapshot" THEN "applied_snapshot"
    ELSE IF ~d.synchronized THEN "needs_snapshot"
    ELSE IF u.sequence # d.sequence + 1 THEN "sequence_gap"
    ELSE IF u.type = "delta" /\ u.base # d.revision THEN "revision_mismatch"
    ELSE IF u.type = "delta" THEN "applied_delta"
    ELSE "accepted_heartbeat"

\* An update that cannot be applied costs the synchronization.
Rejecting(d) == [d EXCEPT !.synchronized = FALSE, !.resyncRequired = TRUE]

\* The synchronizer after consume(u).  An ignored update and a rejected one
\* leave sequence_, revision_ and timestamp_ alone.
Consume(c, u) ==
    LET d == ForSession(c, u) IN
    CASE Outcome(c, u) = "applied_snapshot" ->
           [d EXCEPT !.sequence = u.sequence, !.revision = u.revision,
                     !.timestamp = u.timestamp, !.synchronized = TRUE,
                     !.resyncRequired = FALSE]
      [] Outcome(c, u) = "applied_delta" ->
           [d EXCEPT !.sequence = u.sequence, !.revision = u.revision,
                     !.timestamp = u.timestamp]
      [] Outcome(c, u) = "accepted_heartbeat" ->
           [d EXCEPT !.sequence = u.sequence, !.timestamp = u.timestamp]
      [] Outcome(c, u) \in {"ignored_duplicate", "ignored_stale"} -> d
      [] Outcome(c, u) \in {"needs_snapshot", "sequence_gap",
                            "revision_mismatch"} -> Rejecting(d)
=============================================================================
