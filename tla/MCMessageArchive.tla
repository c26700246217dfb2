-------------------------- MODULE MCMessageArchive --------------------------
(* Small archives for TLC: three pages of two records, three page pointers. *)
EXTENDS MessageArchive
=============================================================================
