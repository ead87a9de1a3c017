---------------------------- MODULE MCKeyValueStore ----------------------------
(* A small store: one key of each kind, two good texts and a malformed one. *)
EXTENDS KeyValueStore

MCKind == <<"file", "device", "claim">>
================================================================================
