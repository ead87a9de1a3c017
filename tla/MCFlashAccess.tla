---------------------------- MODULE MCFlashAccess ----------------------------
(* Model checking FlashAccess with the OTA agent, the OTA flash task and one *)
(* more flash user.                                                          *)
EXTENDS FlashAccess
==============================================================================
