------------------------------- MODULE Digits -------------------------------
(***************************************************************************)
(* Values edited digit by digit.  The editors of the clock                 *)
(* (set_time_menu.c) and of the trends (add_trend_menu.c,                  *)
(* edit_trend_menu.c) put each digit in its place and bring the value back *)
(* within its limits at once; the editor of addresses (ip_set_menu.c) puts *)
(* it into a byte.  Places are numbered from the hundreds, 1 to 3.         *)
(***************************************************************************)
EXTENDS Integers

Digit == 0 .. 9

\* The value's digits, one of them replaced.
Replaced(value, place, num) ==
  (IF place = 1 THEN num ELSE value \div 100) * 100
  + (IF place = 2 THEN num ELSE (value % 100) \div 10) * 10
  + (IF place = 3 THEN num ELSE value % 10)

Clamped(value, min, max) ==
  LET raised == IF value < min THEN min ELSE value
  IN  IF raised > max THEN max ELSE raised

\* update_date_time_value, update_param_value: a digit of an edited value.
Typed(value, place, num, min, max) == Clamped(Replaced(value, place, num), min, max)

\* update_value: a digit of an octet of an address, in eight bits.
OctetTyped(octet, place, num) == Replaced(octet, place, num) % 256

\* The three digits of an octet, one after the other.
OctetEntered(octet, hundreds, tens, ones) ==
  OctetTyped(OctetTyped(OctetTyped(octet, 1, hundreds), 2, tens), 3, ones)

\* The digits of a value of two or three digits, one after the other.
TwoEntered(value, tens, ones, min, max) ==
  Typed(Typed(value, 2, tens, min, max), 3, ones, min, max)
ThreeEntered(value, hundreds, tens, ones, min, max) ==
  Typed(Typed(Typed(value, 1, hundreds, min, max), 2, tens, min, max), 3, ones, min, max)
=============================================================================
