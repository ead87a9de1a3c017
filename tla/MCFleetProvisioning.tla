-------------------------- MODULE MCFleetProvisioning --------------------------
(* Three runs, as in the code. *)
EXTENDS FleetProvisioning
================================================================================
