--------------------------- MODULE LabConfiguration ---------------------------
(***************************************************************************)
(* discovery/lab_configuration.cpp: the machines of the four-machine lab,  *)
(* a vector in the order in which they were first added.  A machine is     *)
(* [node_id, name, address, role, control_port, state_port]; 0, "" and     *)
(* "unspecified" are the values the code refuses.  Capabilities are        *)
(* carried along by the code and decide nothing, so they are left out.     *)
(***************************************************************************)
EXTENDS Naturals, Sequences, FiniteSetsExt

Role    == {"unspecified", "leader", "observer"}
Machine == [node_id : Nat, name : STRING, address : STRING, role : Role,
            control_port : Nat, state_port : Nat]

NoMachine == [node_id |-> 0, name |-> "", address |-> "",
              role |-> "unspecified", control_port |-> 0, state_port |-> 0]

Invalid(m) ==
    \/ m.node_id = 0 \/ m.name = "" \/ m.address = ""
    \/ m.role = "unspecified" \/ m.state_port = 0
    \/ (m.role = "leader" /\ m.control_port = 0)

\* The machines of ms registered under m's node id (at most one, see
\* Distinct), and the ones m contradicts.
SameNode(ms, m) == {i \in DOMAIN ms : ms[i].node_id = m.node_id}

\* Mutant: only names are compared, two machines may share an address.
Conflicts_NameOnly(ms, m) ==
    {i \in DOMAIN ms : ms[i].node_id # m.node_id /\ ms[i].name = m.name}

Conflicts(ms, m) ==
    {i \in DOMAIN ms : /\ ms[i].node_id # m.node_id
                       /\ (ms[i].name = m.name \/ ms[i].address = m.address)}

\* ConfigurationResult of add_or_update
ResultOfAdd(ms, m) ==
    IF Invalid(m) THEN "rejected_invalid"
    ELSE IF Conflicts(ms, m) # {} THEN "rejected_conflict"
    ELSE IF SameNode(ms, m) = {} THEN "added" ELSE "updated"

AddOrUpdate(ms, m) ==
    CASE ResultOfAdd(ms, m) = "added"   -> Append(ms, m)
      [] ResultOfAdd(ms, m) = "updated" ->
            [i \in DOMAIN ms |-> IF i \in SameNode(ms, m) THEN m ELSE ms[i]]
      [] OTHER                          -> ms

-----------------------------------------------------------------------------
(* What the lab asks of its configuration *)

\* Positions of the machines that have a role, for find_if, count_if, copy_if
WithRole(ms, role) == {i \in DOMAIN ms : ms[i].role = role}

\* The machines observers() returns; nothing depends on their order.
Observers(ms) == {ms[i] : i \in WithRole(ms, "observer")}

\* leader() returns the first leader, or nullptr.
Leader(ms) == IF WithRole(ms, "leader") = {} THEN NoMachine
              ELSE ms[Min(WithRole(ms, "leader"))]

Complete(ms) ==
    /\ Len(ms) = 4
    /\ Cardinality(WithRole(ms, "leader")) = 1
    /\ Cardinality(WithRole(ms, "observer")) = 3

\* No two machines of ms share a node id, a name or an address.
Distinct(ms) ==
    \A i, j \in DOMAIN ms :
        i # j => /\ ms[i].node_id # ms[j].node_id
                 /\ ms[i].name # ms[j].name
                 /\ ms[i].address # ms[j].address

\* What add_or_update keeps true of the vector it is the only one to change
Sound(ms) ==
    /\ ms \in Seq(Machine) /\ Distinct(ms)
    /\ \A i \in DOMAIN ms : ~Invalid(ms[i])
=============================================================================
