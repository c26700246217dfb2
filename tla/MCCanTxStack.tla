---------------------------- MODULE MCCanTxStack ----------------------------
(* The CAN transmit ring with the CAN task and the display task as callers. *)
EXTENDS CanTxStack
CONSTANTS can, lcd
=============================================================================
