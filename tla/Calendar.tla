------------------------------ MODULE Calendar ------------------------------
(***************************************************************************)
(* The calendar: seconds since 2001, as time_to_uint32 (cur_time.c) counts *)
(* them for the archive, and the date and time that                        *)
(* get_archive_message_time (message_archive.c) shows for them.            *)
(***************************************************************************)
EXTENDS Integers

Fields == {"year", "month", "day", "hour", "min", "sec"}

\* The days of a month of 2000 + year (external: the real time clock).
MonthLength(year, month) ==
  CASE month = 2 -> IF year % 4 = 0 THEN 29 ELSE 28
    [] month \in {4, 6, 9, 11} -> 30
    [] OTHER -> 31

JD0 == 2451911

\* Faulty variant of DayNumber: the year begins in January, its months in March.
DayNumberJanuary(year, month, day) ==
  LET a == (14 - month) \div 12
      y == year + 2000 + 4800
      m == month + 12 * a - 3
  IN  day + (153 * m + 2) \div 5 + 365 * y + y \div 4 - y \div 100 + y \div 400 - 32045 - JD0

\* Days since the first of January 2001.  The year of this count begins in March.
DayNumber(year, month, day) ==
  LET a == (14 - month) \div 12
      y == year + 2000 + 4800 - a
      m == month + 12 * a - 3
  IN  day + (153 * m + 2) \div 5 + 365 * y + y \div 4 - y \div 100 + y \div 400 - 32045 - JD0

\* The date of a day number.  A year is kept in eight bits.
DateOf(number) ==
  LET ace == number + 32044 + JD0
      b == (4 * ace + 3) \div 146097
      ace1 == ace - (146097 * b) \div 4
      d == (4 * ace1 + 3) \div 1461
      ace2 == ace1 - (1461 * d) \div 4
      m == (5 * ace2 + 2) \div 153
  IN  [year  |-> (100 * b + d - 4800 + m \div 10 - 2000) % 256,
       month |-> m + 3 - 12 * (m \div 10),
       day   |-> ace2 - (153 * m + 2) \div 5 + 1]

\* A number of 32 bits is a pair, the multiple of 128 in it and the rest: a day has
\* 675 times 128 seconds.
time_to_uint32(t) ==
  LET seconds == 3600 * t.hour + 60 * t.min + t.sec
  IN  <<(675 * DayNumber(t.year, t.month, t.day) + seconds \div 128) % 33554432,
        seconds % 128>>

get_archive_message_time(stamp) ==
  LET date == DateOf(stamp[1] \div 675)
      seconds == 128 * (stamp[1] % 675) + stamp[2]
  IN  [year |-> date.year, month |-> date.month, day |-> date.day,
       hour |-> seconds \div 3600, min |-> (seconds \div 60) % 60, sec |-> seconds % 60]
=============================================================================
