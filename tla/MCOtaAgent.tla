------------------------------ MODULE MCOtaAgent ------------------------------
(* Model checking OtaAgent: the queue and the handle have the sizes of the    *)
(* code, the image and the buffers are small.                                 *)
EXTENDS OtaAgent
==============================================================================
