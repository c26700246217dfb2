---------------------------- MODULE MCFlashLoader ----------------------------
(* A small load for TLC: two blocks of two subpackets. *)
EXTENDS FlashLoader
=============================================================================
