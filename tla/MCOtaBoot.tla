------------------------------- MODULE MCOtaBoot -------------------------------
(* Model checking OtaBoot: small versions stand for the version numbers, of     *)
(* which only the order matters.                                                *)
EXTENDS OtaBoot
==============================================================================
