----------------------------- MODULE MCPlcData -----------------------------
(* Small arrays for TLC. *)
EXTENDS PlcData
=============================================================================
