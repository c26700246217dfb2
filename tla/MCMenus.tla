------------------------------ MODULE MCMenus ------------------------------
(* Passwords of two digits for TLC. *)
EXTENDS Menus
MCDefault == <<"1", "2">>
MCUser == <<"1", "1">>
MCSecret == <<"2", "1">>
=============================================================================
