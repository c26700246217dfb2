-------------------------- MODULE MCArchiveWriters --------------------------
(* Two pages of two records, two page pointers. *)
EXTENDS ArchiveWriters
=============================================================================
