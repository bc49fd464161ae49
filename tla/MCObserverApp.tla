---------------------------- MODULE MCObserverApp ----------------------------
(* Instances of ObserverApp for TLC.                                       *)
EXTENDS ObserverApp
=============================================================================
