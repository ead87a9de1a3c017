---------------------------- MODULE MCMqttSession ----------------------------
(* Model checking MqttSession. *)
EXTENDS MqttSession
==============================================================================
