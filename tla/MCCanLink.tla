------------------------------ MODULE MCCanLink ------------------------------
(* A small instance of the PLC link for TLC: two inputs. *)
EXTENDS CanLink
CONSTANTS i1, i2
=============================================================================
