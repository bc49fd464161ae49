----------------------------- MODULE MCSceneSync -----------------------------
(* Instances of SceneSync for TLC.                                         *)
EXTENDS SceneSync

\* Two configurations that share an element
MCElementsOf ==
    [s \in Sessions |-> IF s = 1 THEN {"switch", "link"} ELSE {"switch"}]

\* With MaximumElements = 2 the scene of the second does not fit into a
\* datagram.
MCElementsTooMany ==
    [s \in Sessions |-> IF s = 1 THEN {"switch", "link"}
                        ELSE {"switch", "link", "node"}]
=============================================================================
