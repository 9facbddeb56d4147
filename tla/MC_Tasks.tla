------------------------------ MODULE MC_Tasks ------------------------------
(* Instances of Tasks for TLC.                                             *)
EXTENDS TasksInv

=============================================================================
