------------------------------ MODULE MCClock ------------------------------
(* The last second of the 28th of February of a leap year, and one within a minute. *)
EXTENDS Clock

T(y, mo, d, h, mi, s) == [year |-> y, month |-> mo, day |-> d, hour |-> h, min |-> mi, sec |-> s]
MCStarts == {T(24, 2, 28, 23, 59, 59), T(23, 5, 9, 11, 12, 57)}
MCLinks == <<"hour", "day">>
=============================================================================
