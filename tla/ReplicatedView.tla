---------------------------- MODULE ReplicatedView ----------------------------
(***************************************************************************)
(* What scene replication promises an observer: the server publishes       *)
(* scenes one after another, and what an observer draws moves forward      *)
(* among the published scenes.  It may skip scenes, lag and start over     *)
(* after a restart of its own process, but it never draws a scene that was *)
(* not published and never goes back.                                      *)
(*                                                                         *)
(* A scene is named by its session and tick; <<0, 0>> is the empty scene.  *)
(***************************************************************************)
EXTENDS Naturals

CONSTANTS
    Observers,
    Scenes      \* the scenes there can be, as <<session, tick>>

VARIABLES
    latest,   \* the scene published last
    view      \* observer |-> the scene it draws

Before(a, b) == a[1] < b[1] \/ (a[1] = b[1] /\ a[2] < b[2])

Nothing == <<0, 0>>

Init ==
    /\ latest = <<1, 0>>
    /\ view = [o \in Observers |-> Nothing]

\* The next scene of this session, or the start of the next session.
Publish ==
    /\ latest' \in {<<latest[1], latest[2] + 1>>, <<latest[1] + 1, 0>>}
    /\ UNCHANGED view

Advance(o, v) ==
    /\ Before(view[o], v)
    /\ ~Before(latest, v)
    /\ view' = [view EXCEPT ![o] = v]
    /\ UNCHANGED latest

StartOver(o) ==
    /\ view' = [view EXCEPT ![o] = Nothing]
    /\ UNCHANGED latest

Next ==
    \/ Publish
    \/ \E o \in Observers :
          \/ \E v \in Scenes : Advance(o, v)
          \/ StartOver(o)

Spec == Init /\ [][Next]_<<latest, view>>
=============================================================================
