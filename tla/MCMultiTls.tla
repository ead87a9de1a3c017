------------------------------ MODULE MCMultiTls ------------------------------
(* The two sessions of the demo. *)
EXTENDS MultiTls
==============================================================================
