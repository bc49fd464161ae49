-------------------------------- MODULE MCLab --------------------------------
(* Instances of Lab for TLC.                                               *)
EXTENDS Lab

\* A lab, and one whose second process has no command.
MCPlans == {<<"server", "observer">>, <<"server", "view">>}
=============================================================================
