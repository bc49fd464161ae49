----------------------------- MODULE MCDiscovery -----------------------------
(* Instances of Discovery for TLC: two hosts that advertise, and others    *)
(* that were entered into the configuration by hand.                       *)
EXTENDS Discovery, SequencesExt

Announcing(id, role, control, name) ==
    [node_id |-> id, role |-> role, control_port |-> control,
     state_port |-> 8, name |-> name]

\* The first host may have been given no control port, and then does not
\* start.  The second may have been set up as a clone of the first, or under its
\* name, and may come back as a leader.
MCAdverts ==
    "h1" :> {Announcing(1, "leader", 7, "gpu"),
             Announcing(1, "leader", 0, "gpu")} @@
    "h2" :> {Announcing(2, "observer", 0, "mac"),
             Announcing(2, "leader", 7, "mac"),
             Announcing(1, "observer", 0, "mac"),
             Announcing(2, "observer", 0, "gpu")}

\* Configurations entered by hand: two more observers, or an observer under
\* the address of the first host (and a leader that is refused).
Entered(ms) == FoldLeft(AddOrUpdate, <<>>, ms)
MCPrepared ==
    {Entered(<<Discovered(Announcing(3, "observer", 0, "pi"), "h3"),
               Discovered(Announcing(4, "observer", 0, "win"), "h4")>>),
     Entered(<<Discovered(Announcing(4, "observer", 0, "win"), "h1"),
               Discovered(Announcing(1, "leader", 0, "gpu"), "h2")>>)}
=============================================================================
