------------------------------- MODULE MCOtaPal -------------------------------
(* Model checking OtaPal with a two-block image and a queue of one block, so *)
(* that the queue can be full with one block in hand and one waiting to be   *)
(* sent.  The queue of the code holds two; one keeps the run short and loses *)
(* no order of events: the flash task still takes the blocks one behind      *)
(* another while the agent goes on.                                          *)
EXTENDS OtaPal
==============================================================================
