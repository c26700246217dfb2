---------------------------- MODULE Clock_proofs ----------------------------
(***************************************************************************)
(* The clock, its calendar and the digits that set it and the other edited *)
(* values.  First what the operators compute: the number of a day leads    *)
(* back to the day, and digits typed one after the other leave the number  *)
(* they name.  Then the two tasks that share dev_time: where a stamp's     *)
(* fields come from, and what the digits typed into the menu set.          *)
(***************************************************************************)
EXTENDS Clock, FiniteSetTheorems, TLAPS

-----------------------------------------------------------------------------
(* The calendar.  What the archive's list shows is the day that was        *)
(* stamped, for every day of the years 2001 to 2099.  Days are counted     *)
(* from the first of March 2000: a day lies in a year and in a month,      *)
(* which begin in March, and is the one with the number rest of its year.  *)

\* The days before a month of the year that begins in March.
Before(month) == (153 * month + 2) \div 5

March2000 == 2483649

\* A date of the years 2001 to 2099.
IsDate(year, month, day) ==
  year \in 1 .. 99 /\ month \in 1 .. 12 /\ day \in 1 .. MonthLength(year, month)

IsDay(number, year, month, rest) ==
  /\ number + 32044 + JD0 = March2000 + (365 * year + year \div 4 + rest)
  /\ rest # 365 \/ year % 4 = 3
  /\ year # 99 \/ month < 10
  /\ rest < 306 \/ month >= 10
  /\ (5 * rest + 2) \div 153 = month

-----------------------------------------------------------------------------
\* The date of a number.
LEMMA Found ==
  ASSUME NEW number \in Int, NEW year \in 0 .. 99, NEW month \in 0 .. 11, NEW rest \in 0 .. 365,
         IsDay(number, year, month, rest)
  PROVE  DateOf(number) = [year  |-> year + month \div 10,
                           month |-> month + 3 - 12 * (month \div 10),
                           day   |-> rest - Before(month) + 1]
<1> DEFINE ace == number + 32044 + JD0
<1> DEFINE b == (4 * ace + 3) \div 146097
<1> DEFINE ace1 == ace - (146097 * b) \div 4
<1> DEFINE d == (4 * ace1 + 3) \div 1461
<1> DEFINE ace2 == ace1 - (1461 * d) \div 4
<1> DEFINE m == (5 * ace2 + 2) \div 153
<1> DEFINE offset == 365 * year + year \div 4 + rest
<1>1. DateOf(number) = [year  |-> (100 * b + d - 4800 + m \div 10 - 2000) % 256,
                        month |-> m + 3 - 12 * (m \div 10),
                        day   |-> ace2 - (153 * m + 2) \div 5 + 1]
  BY SMT DEF DateOf
<1>2. offset \in Int /\ 0 <= offset /\ offset <= 36464
  <2> DEFINE leaps == year \div 4
  <2>1. leaps \in Int /\ 0 <= leaps /\ leaps <= 24
    BY Z3
  <2>2. year <= 98 \/ rest < 306
    BY SMT DEF IsDay
  <2>3. /\ year \in Int /\ 0 <= year /\ year <= 99
        /\ rest \in Int /\ 0 <= rest /\ rest <= 365
    BY SMT
  <2> HIDE DEF leaps
  <2>4. 365 * year + leaps + rest <= 36464
    <3>1. CASE year <= 98
      BY ONLY <2>1, <2>3, <3>1, SMT
    <3>2. CASE rest < 306
      BY ONLY <2>1, <2>3, <3>2, SMT
    <3> QED
      BY <2>2, <3>1, <3>2
  <2>5. 365 * year + leaps + rest \in Int /\ 0 <= 365 * year + leaps + rest
    BY ONLY <2>1, <2>3, SMT
  <2> QED
    BY ONLY <2>4, <2>5, SMT DEF leaps, offset
<1>3. ace = March2000 + offset
  BY SMT DEF IsDay
<1>4. /\ (4 * offset + 3) \div 1461 = year
      /\ offset - (1461 * year) \div 4 = rest
  BY Z3 DEF IsDay
<1> HIDE DEF ace, offset
<1>5. b = 68
  <2> DEFINE n == 4 * ace + 3
  <2>1. n \in Int /\ 9934596 <= n /\ n <= 10080692
    BY ONLY <1>2, <1>3, SMT DEF n, March2000
  <2> HIDE DEF n
  <2>2. n \div 146097 = 68
    BY <2>1, Z3
  <2> QED
    BY <2>2, SMT DEF n
<1> HIDE DEF b
<1>6. ace1 = offset
  <2>1. (146097 * 68) \div 4 = March2000
    BY Z3 DEF March2000
  <2> QED
    BY ONLY <1>2, <1>3, <1>5, <2>1, SMT DEF ace1, March2000
<1> HIDE DEF ace1
<1>7. d = year
  BY <1>4, <1>6, SMT
<1> HIDE DEF d
<1>8. ace2 = rest
  BY <1>4, <1>6, <1>7, SMT
<1> HIDE DEF ace2
<1>9. m = month
  BY <1>8, SMT DEF IsDay
<1> HIDE DEF m
<1>10. (100 * 68 + year - 4800 + month \div 10 - 2000) % 256 = year + month \div 10
  BY Z3
<1> QED
  BY <1>1, <1>5, <1>7, <1>8, <1>9, <1>10, SMT DEF Before

-----------------------------------------------------------------------------
\* There and back: the date shown for the number of a day of the years 2001 to 2099 is
\* that day's (cur_time.c, message_archive.c).  Y, M and rest are the year, the month and
\* the day as the count has them, a one where the count's year began in the year before.
THEOREM DateIsFound ==
  ASSUME NEW year, NEW month, NEW day, IsDate(year, month, day)
  PROVE  /\ DateOf(DayNumber(year, month, day)) = [year |-> year, month |-> month, day |-> day]
         /\ DayNumber(year, month, day) \in Int
         /\ 0 <= DayNumber(year, month, day) /\ DayNumber(year, month, day) <= 36158
<1>0. year \in 1 .. 99 /\ month \in 1 .. 12 /\ day \in 1 .. MonthLength(year, month)
  BY DEF IsDate
<1> USE <1>0
<1>1. PICK a \in 0 .. 1 : a = IF month <= 2 THEN 1 ELSE 0
  OBVIOUS
<1>2. PICK Y \in 0 .. 99 : Y = year - a
  BY Z3
<1>3. PICK M \in 0 .. 11 : M = month + 12 * a - 3
  BY <1>1, Z3
<1>4. /\ day \in 1 .. 31
      /\ day <= 30 \/ M \in {0, 2, 4, 5, 7, 9, 10}
      /\ day <= 29 \/ M # 11
      /\ day # 29 \/ M # 11 \/ Y % 4 = 3
      /\ Y # 99 \/ M < 10
      /\ M \div 10 = a
  BY <1>1, <1>2, <1>3, Z3 DEF MonthLength
<1>5. PICK rest \in 0 .. 365 : rest = Before(M) + day - 1
  BY <1>4, Z3 DEF Before
<1>6. /\ rest # 365 \/ Y % 4 = 3
      /\ (5 * rest + 2) \div 153 = M
      /\ rest < 306 \/ M >= 10
  BY <1>4, <1>5, Z3 DEF Before
<1> DEFINE y == year + 2000 + 4800 - a
<1>7. y \div 100 = 68 /\ y \div 400 = 17 /\ y \div 4 = 1700 + Y \div 4 /\ y = 6800 + Y
  BY <1>2, Z3
<1>8. (14 - month) \div 12 = a
  BY <1>1, Z3
<1>9. DayNumber(year, month, day)
        = day + Before(M) + 365 * y + y \div 4 - y \div 100 + y \div 400 - 32045 - JD0
  BY <1>3, <1>8, SMT DEF DayNumber, Before
<1>10. Before(M) \in Int /\ Y \div 4 \in Int
  BY Z3 DEF Before
<1>11. DayNumber(year, month, day) + 32044 + JD0 = March2000 + (365 * Y + Y \div 4 + rest)
  BY <1>4, <1>5, <1>7, <1>9, <1>10, Z3 DEF March2000, JD0
<1>12. IsDay(DayNumber(year, month, day), Y, M, rest)
  BY <1>4, <1>6, <1>11, SMT DEF IsDay
<1>13. year = Y + M \div 10 /\ month = M + 3 - 12 * (M \div 10) /\ day = rest - Before(M) + 1
  BY <1>2, <1>3, <1>4, <1>5, <1>10, SMT
<1>14. /\ DayNumber(year, month, day) \in Int
       /\ 0 <= DayNumber(year, month, day) /\ DayNumber(year, month, day) <= 36158
  <2>1. DayNumber(year, month, day) = 365 * Y + Y \div 4 + rest - 306
    BY <1>4, <1>7, <1>9, <1>10, <1>11, SMT DEF JD0, March2000
  <2>2. Y \div 4 \in 0 .. 24 /\ (Y = 0 => rest >= 306)
    BY <1>2, <1>3, <1>4, <1>5, <1>6, Z3 DEF Before
  <2> QED
    BY <1>4, <1>6, <2>1, <2>2, SMT
<1>15. DateOf(DayNumber(year, month, day))
         = [year |-> Y + M \div 10, month |-> M + 3 - 12 * (M \div 10), day |-> rest - Before(M) + 1]
  <2>1. DayNumber(year, month, day) \in Int
    BY <1>14
  <2> QED
    BY <1>12, <2>1, Found
<1> QED
  BY <1>13, <1>14, <1>15

-----------------------------------------------------------------------------
\* A second of the years 2001 to 2099 is shown as it was stamped (cur_time.c,
\* message_archive.c): its number neither wraps nor takes from another part of the time.
THEOREM TimeIsFound ==
  ASSUME NEW year, NEW month, NEW day, IsDate(year, month, day),
         NEW hour \in 0 .. 23, NEW minute \in 0 .. 59, NEW second \in 0 .. 59,
         NEW t, t = [year |-> year, month |-> month, day |-> day,
                     hour |-> hour, min |-> minute, sec |-> second]
  PROVE  get_archive_message_time(time_to_uint32(t)) = t
<1> DEFINE number == DayNumber(year, month, day)
<1> DEFINE seconds == 3600 * hour + 60 * minute + second
<1> DEFINE minutes == 60 * hour + minute
<1> DEFINE groups == seconds \div 128
<1> DEFINE rest == seconds % 128
<1> DEFINE stamp == <<675 * number + groups, rest>>
<1>1. /\ DateOf(number) = [year |-> year, month |-> month, day |-> day]
      /\ number \in Int /\ 0 <= number /\ number <= 36158
  BY DateIsFound, SMT
<1> HIDE DEF number
<1>2. minutes \in Int /\ 0 <= minutes /\ minutes < 1440
  BY SMT
<1>3. minutes % 60 = minute /\ minutes \div 60 = hour
  BY Z3
<1>4. seconds = 60 * minutes + second
  BY SMT
<1> HIDE DEF minutes
<1>5. seconds \in Int /\ 0 <= seconds /\ seconds < 86400
  BY SMT
<1>6. seconds \div 60 = minutes /\ seconds % 60 = second
  BY <1>2, <1>4, Z3
<1>7. seconds \div 3600 = hour
  BY Z3
<1>8. 3600 * t.hour + 60 * t.min + t.sec = seconds
  BY SMT
<1> HIDE DEF seconds
<1>9. /\ groups \in Int /\ 0 <= groups /\ groups < 675
      /\ rest \in Int /\ 0 <= rest /\ rest < 128
      /\ 128 * groups + rest = seconds
  BY <1>5, Z3
<1>10. time_to_uint32(t) = <<(675 * number + groups) % 33554432, rest>>
  BY <1>8, SMT DEF time_to_uint32, number
<1> HIDE DEF groups, rest
<1>11. (675 * number + groups) % 33554432 = 675 * number + groups
  BY <1>1, <1>9, Z3
<1>12. (675 * number + groups) \div 675 = number /\ (675 * number + groups) % 675 = groups
  BY <1>1, <1>9, Z3
<1>13. time_to_uint32(t) = stamp
  BY <1>10, <1>11
<1>14. /\ stamp[1] \div 675 = number
       /\ 128 * (stamp[1] % 675) + stamp[2] = seconds
  BY <1>9, <1>12, SMT
<1> HIDE DEF stamp
<1>15. get_archive_message_time(stamp)
          = [year |-> year, month |-> month, day |-> day,
             hour |-> seconds \div 3600, min |-> (seconds \div 60) % 60, sec |-> seconds % 60]
  BY <1>1, <1>14, SMT DEF get_archive_message_time
<1> QED
  BY <1>3, <1>6, <1>7, <1>13, <1>15, SMT

-----------------------------------------------------------------------------
(* Digits: what typing the digits of a value leaves, whatever was there    *)
(* before.  The argument goes by intervals: once its first digits are      *)
(* right, a value lies among those that have these digits, and bringing it *)
(* within limits that one of them keeps does not take it out.              *)

-----------------------------------------------------------------------------
(* A digit replaced. *)

LEMMA HundredsReplaced ==
  ASSUME NEW old \in Nat, NEW h \in Digit
  PROVE  Replaced(old, 1, h) \in 100 * h .. 100 * h + 99
<1>1. Replaced(old, 1, h) = h * 100 + ((old % 100) \div 10) * 10 + (old % 10)
  BY DEF Replaced
<1>2. (old % 100) \div 10 \in 0 .. 9 /\ old % 10 \in 0 .. 9
  BY Z3
<1> QED
  BY <1>1, <1>2, Z3 DEF Digit

LEMMA TensReplaced ==
  ASSUME NEW h \in Nat, NEW t \in Digit, NEW v \in 100 * h .. 100 * h + 99
  PROVE  Replaced(v, 2, t) \in 100 * h + 10 * t .. 100 * h + 10 * t + 9
<1>1. Replaced(v, 2, t) = (v \div 100) * 100 + t * 10 + (v % 10)
  BY DEF Replaced
<1>2. v \div 100 = h /\ v % 10 \in 0 .. 9
  BY Z3
<1> QED
  BY <1>1, <1>2, Z3 DEF Digit

LEMMA OnesReplaced ==
  ASSUME NEW h \in Nat, NEW t \in Digit, NEW o \in Digit,
         NEW v \in 100 * h + 10 * t .. 100 * h + 10 * t + 9
  PROVE  Replaced(v, 3, o) = 100 * h + 10 * t + o
<1>1. Replaced(v, 3, o) = (v \div 100) * 100 + ((v % 100) \div 10) * 10 + o
  BY DEF Replaced
<1>2. v \div 100 = h /\ (v % 100) \div 10 = t
  BY Z3 DEF Digit
<1> QED
  BY <1>1, <1>2, Z3 DEF Digit

-----------------------------------------------------------------------------
(* The editors that keep a value within limits. *)

LEMMA ClampedKeeps ==
  ASSUME NEW min \in Nat, NEW max \in Nat, NEW w \in min .. max
  PROVE  Clamped(w, min, max) = w
  BY DEF Clamped

LEMMA TensTyped ==
  ASSUME NEW h \in Nat, NEW t \in Digit, NEW o \in Digit, NEW v \in 100 * h .. 100 * h + 99,
         NEW min \in Nat, NEW max \in Nat, 100 * h + 10 * t + o \in min .. max
  PROVE  Typed(Typed(v, 2, t, min, max), 3, o, min, max) = 100 * h + 10 * t + o
<1> DEFINE lo == 100 * h + 10 * t
<1> DEFINE first == Typed(v, 2, t, min, max)
<1>1. lo \in Nat /\ lo + 9 \in Nat /\ lo + o \in lo .. lo + 9
  BY DEF Digit
<1>2. Replaced(v, 2, t) \in lo .. lo + 9
  BY TensReplaced
<1>3. first \in lo .. lo + 9
  <2>1. lo + o \in min .. max
    OBVIOUS
  <2>2. Clamped(Replaced(v, 2, t), min, max) \in lo .. lo + 9
    BY <1>1, <1>2, <2>1 DEF Clamped, Digit
  <2> QED
    BY <2>2 DEF Typed
<1>4. Replaced(first, 3, o) = lo + o
  BY <1>3, OnesReplaced
<1> QED
  BY <1>4, ClampedKeeps DEF Typed

\* set_time_menu.c 133-177, and the input number of a trend: whatever the value was,
\* typing the two digits of a value within the limits sets it to that value, although
\* what lies between is brought within the limits at once.
THEOREM TwoDigitsSet ==
  ASSUME NEW old \in 0 .. 99, NEW t \in Digit, NEW o \in Digit,
         NEW min \in Nat, NEW max \in Nat, 10 * t + o \in min .. max
  PROVE  TwoEntered(old, t, o, min, max) = 10 * t + o
<1>1. 0 \in Nat /\ old \in 100 * 0 .. 100 * 0 + 99 /\ 100 * 0 + 10 * t + o = 10 * t + o
  BY DEF Digit
<1>2. Typed(Typed(old, 2, t, min, max), 3, o, min, max) = 100 * 0 + 10 * t + o
  BY <1>1, TensTyped
<1> QED
  BY <1>1, <1>2 DEF TwoEntered

\* add_trend_menu.c 132-173 and edit_trend_menu.c 144-185: the same for the addresses
\* and limits of a trend, which have three digits.
THEOREM ThreeDigitsSet ==
  ASSUME NEW old \in Nat, NEW h \in Digit, NEW t \in Digit, NEW o \in Digit,
         NEW min \in Nat, NEW max \in Nat, 100 * h + 10 * t + o \in min .. max
  PROVE  ThreeEntered(old, h, t, o, min, max) = 100 * h + 10 * t + o
<1> DEFINE first == Typed(old, 1, h, min, max)
<1>1. h \in Nat /\ 100 * h \in Nat /\ 100 * h + 99 \in Nat
  BY DEF Digit
<1>2. 100 * h + 10 * t + o \in 100 * h .. 100 * h + 99
  BY DEF Digit
<1>3. Replaced(old, 1, h) \in 100 * h .. 100 * h + 99
  BY HundredsReplaced
<1>4. first \in 100 * h .. 100 * h + 99
  <2>1. Clamped(Replaced(old, 1, h), min, max) \in 100 * h .. 100 * h + 99
    BY <1>1, <1>2, <1>3 DEF Clamped
  <2> QED
    BY <2>1 DEF Typed
<1>5. Typed(Typed(first, 2, t, min, max), 3, o, min, max) = 100 * h + 10 * t + o
  BY <1>1, <1>4, TensTyped
<1> QED
  BY <1>5 DEF ThreeEntered

-----------------------------------------------------------------------------
(* The editor of addresses, which keeps a value in eight bits. *)

Octet == 0 .. 255
Byte(n) == n % 256
\* The number that three digits name.
Named(h, t, o) == 100 * h + 10 * t + o

LEMMA OctetKept ==
  ASSUME NEW n \in Octet
  PROVE  Byte(n) = n
BY Z3 DEF Octet, Byte

LEMMA OctetIsByte ==
  ASSUME NEW v \in Octet, NEW place \in 1 .. 3, NEW num \in Digit
  PROVE  OctetTyped(v, place, num) \in Octet
<1>1. \A r \in Nat : r % 256 \in 0 .. 255
  BY Z3
<1>2. v \div 100 \in Nat /\ (v % 100) \div 10 \in Nat /\ v % 10 \in Nat
  BY Z3 DEF Octet
<1>3. Replaced(v, place, num) \in Nat
  BY <1>2 DEF Replaced, Digit
<1> HIDE DEF Replaced
<1> QED
  BY <1>1, <1>3 DEF OctetTyped, Octet

LEMMA HundredsTyped ==
  ASSUME NEW v \in Octet, NEW num \in Digit
  PROVE  OctetTyped(v, 1, num) = Byte(100 * num + (v % 100))
<1>1. Replaced(v, 1, num) = num * 100 + ((v % 100) \div 10) * 10 + (v % 10)
  BY DEF Replaced
<1>2. ((v % 100) \div 10) * 10 + (v % 10) = v % 100
  BY Z3 DEF Octet
<1>3. Replaced(v, 1, num) = 100 * num + (v % 100)
  BY <1>1, <1>2, Z3 DEF Digit, Octet
<1> QED
  BY <1>3 DEF OctetTyped, Byte

LEMMA TensOfOctet ==
  ASSUME NEW v \in Octet, NEW num \in Digit, NEW h \in Digit, NEW o \in Digit,
         v \div 100 = h, v % 10 = o
  PROVE  OctetTyped(v, 2, num) = Byte(Named(h, num, o))
<1>1. Replaced(v, 2, num) = (v \div 100) * 100 + num * 10 + (v % 10)
  BY DEF Replaced
<1>2. Replaced(v, 2, num) = 100 * h + 10 * num + o
  BY <1>1, Z3 DEF Digit
<1> QED
  BY <1>2 DEF OctetTyped, Byte, Named

LEMMA OnesOfOctet ==
  ASSUME NEW v \in Octet, NEW num \in Digit, NEW high \in Nat, v \div 10 = high
  PROVE  OctetTyped(v, 3, num) = Byte(10 * high + num)
<1>1. Replaced(v, 3, num) = (v \div 100) * 100 + ((v % 100) \div 10) * 10 + num
  BY DEF Replaced
<1>2. (v \div 100) * 100 + ((v % 100) \div 10) * 10 = 10 * high
  BY Z3 DEF Octet
<1>3. Replaced(v, 3, num) = 10 * high + num
  BY <1>1, <1>2, Z3 DEF Digit
<1> QED
  BY <1>3 DEF OctetTyped, Byte

\* Replacing the tens and the ones of 200 and more does not leave the byte.
Small(octet, high) == octet % 100 <= 55 /\ 10 * high + (octet % 10) <= 55

\* ip_set_menu.c 45-64: typing the three digits of an octet sets it, unless what lies
\* between does not fit into eight bits.
THEOREM OctetSet ==
  ASSUME NEW old \in Octet, NEW h \in Digit, NEW t \in Digit, NEW o \in Digit,
         Named(h, t, o) \in Octet,
         h # 2 \/ Small(old, t)
  PROVE  OctetEntered(old, h, t, o) = Named(h, t, o)
<1> DEFINE ones == old % 10
<1>0. h \in 0 .. 2
  BY DEF Digit, Octet, Named
<1>1. PICK first \in Octet : first = OctetTyped(old, 1, h) /\ first = 100 * h + (old % 100)
  <2>1. 100 * h + (old % 100) \in Octet
    BY <1>0, Z3 DEF Small, Octet
  <2>2. OctetTyped(old, 1, h) = Byte(100 * h + (old % 100))
    BY HundredsTyped
  <2> QED
    BY <2>1, <2>2, OctetKept
<1>2. first \div 100 = h /\ first % 10 = ones /\ ones \in Digit
  BY <1>0, <1>1, Z3 DEF Digit, Octet
<1>3. PICK second \in Octet : second = OctetTyped(first, 2, t) /\ second = Named(h, t, ones)
  <2>1. Named(h, t, ones) \in Octet
    BY <1>0, Z3 DEF Digit, Small, Octet, Named
  <2>2. OctetTyped(first, 2, t) = Byte(Named(h, t, ones))
    BY <1>2, TensOfOctet
  <2> QED
    BY <2>1, <2>2, OctetKept
<1>4. second \div 10 = 10 * h + t /\ 10 * h + t \in Nat
  BY <1>0, <1>2, <1>3, Z3 DEF Digit, Named
<1>5. OctetTyped(second, 3, o) = Byte(10 * (10 * h + t) + o)
  BY <1>4, OnesOfOctet
<1>6. 10 * (10 * h + t) + o = Named(h, t, o)
  BY DEF Digit, Named
<1>7. OctetTyped(second, 3, o) = Named(h, t, o)
  BY <1>5, <1>6, OctetKept
<1> QED
  BY <1>1, <1>3, <1>7 DEF OctetEntered

\* Typed again, it is set in any case: what the first time leaves in its place is small
\* enough.
THEOREM OctetSetTwice ==
  ASSUME NEW old \in Octet, NEW h \in Digit, NEW t \in Digit, NEW o \in Digit,
         Named(h, t, o) \in Octet
  PROVE  OctetEntered(OctetEntered(old, h, t, o), h, t, o) = Named(h, t, o)
<1>1. PICK first \in Octet : first = OctetTyped(old, 1, h)
  BY OctetIsByte
<1>2. PICK second \in Octet : second = OctetTyped(first, 2, t)
  BY OctetIsByte
<1>3. PICK third \in Octet : third = OctetTyped(second, 3, o)
  BY OctetIsByte
<1>4. OctetEntered(old, h, t, o) = third
  BY <1>1, <1>2, <1>3 DEF OctetEntered
<1>5. h # 2 \/ Small(third, t)
  <2> SUFFICES ASSUME h = 2
               PROVE  Small(third, t)
    OBVIOUS
  <2>1. t \in 0 .. 5 /\ 10 * t + o \in 0 .. 55
    BY Z3 DEF Digit, Named, Octet
  <2>2. first = Byte(100 * h + (old % 100))
    BY <1>1, HundredsTyped
  <2>3. first \in 0 .. 43 \/ first \in 200 .. 255
    BY <2>2, Z3 DEF Byte, Octet
  <2>4. PICK c \in Digit : c = first % 10
    BY Z3 DEF Digit, Octet
  <2>5. PICK b \in {0, 2} : b = first \div 100
    BY <2>3, Z3
  <2>6. second = Byte(Named(b, t, c))
    <3>1. b \in Digit
      BY DEF Digit
    <3> QED
      BY <1>2, <2>4, <2>5, <3>1, TensOfOctet
  <2>7. second \div 10 = t \/ second \div 10 = 20 + t \/ second \in 0 .. 3
    <3>1. CASE b = 0
      BY <2>1, <2>6, <3>1, Z3 DEF Byte, Named, Digit
    <3>2. CASE b = 2
      BY <2>1, <2>6, <3>2, Z3 DEF Byte, Named, Digit
    <3> QED
      BY <3>1, <3>2
  <2>8. PICK high \in Nat : high = second \div 10
    BY Z3 DEF Octet
  <2>9. third = Byte(10 * high + o)
    BY <1>3, <2>8, OnesOfOctet
  <2>10. high \in {t, 20 + t, 0}
    BY <2>7, <2>8, Z3 DEF Octet
  <2>11. third = 10 * t + o \/ third = 200 + 10 * t + o \/ third = o
    BY <2>1, <2>9, <2>10, Z3 DEF Digit, Byte
  <2> QED
    BY <2>1, <2>11, Z3 DEF Digit, Small
<1>6. OctetEntered(third, h, t, o) = Named(h, t, o)
  BY <1>5, OctetSet
<1> QED
  BY <1>4, <1>6

-----------------------------------------------------------------------------
(* The two tasks.  Types first: the fields stay within their limits,       *)
(* whoever writes them, and in whatever order.                             *)

Steps == {"idle", "key", "store", "take", "done", "enter", "date", "time"}
Setting == {"enter", "date", "time"}
Ops == {"none", "stamp", "open", "draw", "digit"}
Jobs == [op : Ops, step : Steps, n : 1 .. 6, regs : Times, taken : Times, num : Digit]

JobTypes ==
  /\ job \in [Tasks -> Jobs]
  /\ reads \in [Tasks -> SUBSET Times]
  /\ job["net"].step \notin Setting /\ job["net"].op # "digit"

ClockTypes ==
  /\ rtc \in Times /\ dev_time \in Times
  /\ params \in [Range(Links) -> 0 .. 99]
  /\ \A f \in Range(Links) : params[f] <= Max(f)
  /\ cur \in DOMAIN Links /\ pos \in {1, 2}

LEMMA FieldLimits ==
  \A f \in Fields : Max(f) \in 0 .. 99 /\ Min(f) \in 0 .. 1 /\ Min(f) <= Max(f)
BY SMT DEF Fields, Max, Min

LEMMA LinkFields ==
  /\ Range(Links) \subseteq Fields
  /\ \A i \in DOMAIN Links : Links[i] \in Range(Links)
  /\ DOMAIN Links = 1 .. Len(Links) /\ Len(Links) \in Nat \ {0}
BY ClockAssumption, SMT DEF Range

LEMMA ReadFields ==
  /\ \A i \in 1 .. 6 : Read[i] \in Fields /\ Stamp[i] \in Fields
  /\ \A f \in Fields : \E i \in 1 .. 6 : Read[i] = f
  /\ \A f \in Fields : \E i \in 1 .. 6 : Stamp[i] = f
<1>1. \A i \in 1 .. 6 : Read[i] \in Fields /\ Stamp[i] \in Fields
  BY SMT DEF Fields, Read, Stamp
<1>2. \A f \in Fields : \E i \in 1 .. 6 : Read[i] = f
  BY SMT DEF Fields, Read
<1>3. \A f \in Fields : \E i \in 1 .. 6 : Stamp[i] = f
  BY SMT DEF Fields, Stamp
<1> QED
  BY <1>1, <1>2, <1>3

LEMMA TimesOfFields ==
  /\ \A t : t \in Times <=> t \in [Fields -> 0 .. 99] /\ \A f \in Fields : t[f] <= Max(f)
  /\ Zero \in Times
  /\ Idle \in Jobs
<1>1. \A t : t \in Times <=> t \in [Fields -> 0 .. 99] /\ \A f \in Fields : t[f] <= Max(f)
  BY DEF Times
<1>2. Zero \in Times
  BY <1>1, FieldLimits, SMT DEF Zero
<1> QED
  BY <1>1, <1>2, SMT DEF Idle, Jobs, Steps, Ops, Digit

LEMMA FieldPut ==
  ASSUME NEW t \in Times, NEW f \in Fields, NEW v \in 0 .. 99, v <= Max(f)
  PROVE  [t EXCEPT ![f] = v] \in Times
BY TimesOfFields, SMT

LEMMA TypedInLimits ==
  ASSUME NEW v \in 0 .. 99, NEW place \in {2, 3}, NEW num \in Digit, NEW f \in Fields
  PROVE  /\ Typed(v, place, num, Min(f), Max(f)) \in 0 .. 99
         /\ Typed(v, place, num, Min(f), Max(f)) <= Max(f)
<1>1. Replaced(v, place, num) \in Nat
  BY Z3 DEF Replaced, Digit
<1> HIDE DEF Replaced
<1> QED
  BY <1>1, FieldLimits, SMT DEF Typed, Clamped

\* The fields of a time, one by one.
Moment(y, mo, d, h, mi, s) ==
  [year |-> y, month |-> mo, day |-> d, hour |-> h, min |-> mi, sec |-> s]

LEMMA TimeIsMoment ==
  ASSUME NEW t \in Times
  PROVE  /\ t = Moment(t.year, t.month, t.day, t.hour, t.min, t.sec)
         /\ t.year \in 0 .. 99 /\ t.month \in 0 .. 12 /\ t.day \in 0 .. 31
         /\ t.hour \in 0 .. 23 /\ t.min \in 0 .. 59 /\ t.sec \in 0 .. 59
<1>1. t = Moment(t.year, t.month, t.day, t.hour, t.min, t.sec)
  BY SMT DEF Moment, Times, Fields, Max
<1>2. /\ t.year \in 0 .. 99 /\ t.month \in 0 .. 12 /\ t.day \in 0 .. 31
      /\ t.hour \in 0 .. 23 /\ t.min \in 0 .. 59 /\ t.sec \in 0 .. 59
  BY SMT DEF Times, Fields, Max
<1> QED
  BY <1>1, <1>2

\* A day of a month that has passed differs from the day before it.
LEMMA NextDayIsTime ==
  ASSUME NEW y \in 0 .. 99, NEW mo \in 0 .. 12, NEW d \in 0 .. 31,
         NEW t, t = Moment(y, mo, d, 0, 0, 0)
  PROVE  NextDay(t) \in Times /\ NextDay(t).day # d
<1>0. t.year = y /\ t.month = mo /\ t.day = d
  BY SMT DEF Moment
<1>1. MonthLength(y, mo) \in 28 .. 31
  BY SMT DEF MonthLength
<1>2. CASE d < MonthLength(y, mo)
  <2>1. NextDay(t) = [t EXCEPT !.day = d + 1]
    BY <1>0, <1>2, Zenon DEF NextDay
  <2>2. NextDay(t) = Moment(y, mo, d + 1, 0, 0, 0)
    BY <2>1, SMT DEF Moment
  <2>3. Moment(y, mo, d + 1, 0, 0, 0) \in Times
    BY <1>1, <1>2, SMT DEF Moment, Times, Fields, Max
  <2> QED
    BY <2>2, <2>3, SMT DEF Moment
<1>3. CASE ~(d < MonthLength(y, mo)) /\ mo < 12
  <2>1. PICK u : u = [t EXCEPT !.day = 1]
    OBVIOUS
  <2>2. u = Moment(y, mo, 1, 0, 0, 0)
    BY <2>1, SMT DEF Moment
  <2>3. NextDay(t) = [u EXCEPT !.month = @ + 1]
    BY <1>0, <1>3, <2>1, Zenon DEF NextDay
  <2>4. NextDay(t) = Moment(y, mo + 1, 1, 0, 0, 0)
    BY <2>2, <2>3, SMT DEF Moment
  <2>5. Moment(y, mo + 1, 1, 0, 0, 0) \in Times
    BY <1>3, SMT DEF Moment, Times, Fields, Max
  <2> QED
    BY <1>1, <1>3, <2>4, <2>5, SMT DEF Moment
<1>4. CASE ~(d < MonthLength(y, mo)) /\ ~(mo < 12)
  <2> DEFINE next == (y + 1) % 100
  <2>1. next \in 0 .. 99
    BY Z3
  <2>2. PICK u : u = [t EXCEPT !.day = 1]
    OBVIOUS
  <2>3. PICK v : v = [u EXCEPT !.month = 1]
    OBVIOUS
  <2>4. u = Moment(y, mo, 1, 0, 0, 0)
    BY <2>2, SMT DEF Moment
  <2>5. v = Moment(y, 1, 1, 0, 0, 0)
    BY <2>3, <2>4, SMT DEF Moment
  <2>6. NextDay(t) = [v EXCEPT !.year = (@ + 1) % 100]
    BY <1>0, <1>4, <2>2, <2>3, Zenon DEF NextDay
  <2>7. NextDay(t) = Moment(next, 1, 1, 0, 0, 0)
    BY <2>5, <2>6, SMT DEF Moment
  <2> HIDE DEF next
  <2>8. Moment(next, 1, 1, 0, 0, 0) \in Times
    BY <2>1, SMT DEF Moment, Times, Fields, Max
  <2> QED
    BY <1>1, <1>4, <2>7, <2>8, SMT DEF Moment
<1> QED
  BY <1>2, <1>3, <1>4

LEMMA NextIsTime ==
  ASSUME NEW t \in Times
  PROVE  /\ NextSecond(t) \in Times
         /\ NextSecond(t).day = t.day =>
              NextSecond(t).month = t.month /\ NextSecond(t).year = t.year
<1>1. PICK y \in 0 .. 99, mo \in 0 .. 12, d \in 0 .. 31, h \in 0 .. 23, mi \in 0 .. 59, s \in 0 .. 59 :
        /\ t = Moment(y, mo, d, h, mi, s)
        /\ t.year = y /\ t.month = mo /\ t.day = d /\ t.hour = h /\ t.min = mi /\ t.sec = s
  BY TimeIsMoment, Zenon
<1>2. PICK u : u = [t EXCEPT !.sec = 0]
  OBVIOUS
<1>3. PICK v : v = [u EXCEPT !.min = 0]
  OBVIOUS
<1>4. PICK w : w = [v EXCEPT !.hour = 0]
  OBVIOUS
<1>5. u = Moment(y, mo, d, h, mi, 0)
  BY <1>1, <1>2, SMT DEF Moment
<1>6. v = Moment(y, mo, d, h, 0, 0)
  BY <1>3, <1>5, SMT DEF Moment
<1>7. w = Moment(y, mo, d, 0, 0, 0)
  BY <1>4, <1>6, SMT DEF Moment
<1>8. CASE s < 59
  <2>1. NextSecond(t) = [t EXCEPT !.sec = @ + 1]
    BY <1>1, <1>8, Zenon DEF NextSecond
  <2>2. NextSecond(t) = Moment(y, mo, d, h, mi, s + 1)
    BY <1>1, <2>1, SMT DEF Moment
  <2> QED
    BY <1>1, <1>8, <2>2, SMT DEF Moment, Times, Fields, Max
<1>9. CASE ~(s < 59) /\ mi < 59
  <2>1. NextSecond(t) = [u EXCEPT !.min = @ + 1]
    BY <1>1, <1>2, <1>9, Zenon DEF NextSecond
  <2>2. NextSecond(t) = Moment(y, mo, d, h, mi + 1, 0)
    BY <1>5, <2>1, SMT DEF Moment
  <2> QED
    BY <1>1, <1>9, <2>2, SMT DEF Moment, Times, Fields, Max
<1>10. CASE ~(s < 59) /\ ~(mi < 59) /\ h < 23
  <2>1. NextSecond(t) = [v EXCEPT !.hour = @ + 1]
    BY <1>1, <1>2, <1>3, <1>10, Zenon DEF NextSecond
  <2>2. NextSecond(t) = Moment(y, mo, d, h + 1, 0, 0)
    BY <1>6, <2>1, SMT DEF Moment
  <2> QED
    BY <1>1, <1>10, <2>2, SMT DEF Moment, Times, Fields, Max
<1>11. CASE ~(s < 59) /\ ~(mi < 59) /\ ~(h < 23)
  <2>1. NextSecond(t) = NextDay(w)
    BY <1>1, <1>2, <1>3, <1>4, <1>11, Zenon DEF NextSecond
  <2>2. NextDay(w) \in Times /\ NextDay(w).day # d
    BY <1>7, NextDayIsTime
  <2> QED
    BY <1>1, <2>1, <2>2, Zenon
<1> QED
  BY <1>8, <1>9, <1>10, <1>11

-----------------------------------------------------------------------------
(* What the steps make of a task's job.                                    *)

\* What Get makes of it.
Begun(o, r, num) == [Idle EXCEPT !.op = o, !.step = "store", !.regs = r, !.num = num]

LEMMA GetJob ==
  ASSUME NEW o \in Ops, NEW r \in Times, NEW num \in Digit, NEW k, k = Begun(o, r, num)
  PROVE  k \in Jobs /\ k.op = o /\ k.step = "store" /\ k.n = 1 /\ k.regs = r /\ k.num = num
<1>1. Idle \in Jobs /\ Idle.n = 1
  BY TimesOfFields, SMT DEF Idle
<1>2. PICK a : a = [Idle EXCEPT !.op = o]
  OBVIOUS
<1>3. PICK b : b = [a EXCEPT !.step = "store"]
  OBVIOUS
<1>4. PICK c : c = [b EXCEPT !.regs = r]
  OBVIOUS
<1>5. k = [c EXCEPT !.num = num]
  BY <1>2, <1>3, <1>4, Zenon DEF Begun
<1>6. a \in Jobs /\ a.op = o /\ a.n = 1
  BY <1>1, <1>2, SMT DEF Jobs, Ops
<1>7. b \in Jobs /\ b.op = o /\ b.n = 1 /\ b.step = "store"
  BY <1>3, <1>6, SMT DEF Jobs, Steps, Ops
<1>8. c \in Jobs /\ c.op = o /\ c.n = 1 /\ c.step = "store" /\ c.regs = r
  BY <1>4, <1>7, SMT DEF Jobs, Ops
<1> QED
  BY ONLY <1>5, <1>8, num \in Digit, SMT DEF Jobs

LEMMA NextStepJob ==
  ASSUME NEW j \in Jobs, NEW step \in Steps, NEW k, k = [j EXCEPT !.n = 1, !.step = step]
  PROVE  k \in Jobs /\ k.op = j.op /\ k.step = step /\ k.n = 1 /\ k.regs = j.regs /\ k.num = j.num
         /\ k.taken = j.taken
<1>1. PICK a : a = [j EXCEPT !.n = 1]
  OBVIOUS
<1>2. k = [a EXCEPT !.step = step]
  BY <1>1, Zenon
<1>3. a \in Jobs /\ a.op = j.op /\ a.n = 1 /\ a.regs = j.regs /\ a.num = j.num /\ a.taken = j.taken
  BY <1>1, SMT DEF Jobs
<1> QED
  BY <1>2, <1>3, SMT DEF Jobs, Ops

LEMMA StoredJob ==
  ASSUME NEW j \in Jobs, NEW k, k = [j EXCEPT !.n = 1, !.step = "take", !.regs = Zero]
  PROVE  k \in Jobs /\ k.op = j.op /\ k.step = "take" /\ k.n = 1
<1>1. PICK a : a = [j EXCEPT !.n = 1]
  OBVIOUS
<1>2. PICK b : b = [a EXCEPT !.step = "take"]
  OBVIOUS
<1>3. k = [b EXCEPT !.regs = Zero]
  BY <1>1, <1>2, Zenon
<1>4. a \in Jobs /\ a.op = j.op /\ a.n = 1
  BY ONLY j \in Jobs, <1>1, SMT DEF Jobs
<1>5. b \in Jobs /\ b.op = a.op /\ b.step = "take" /\ b.n = a.n
  BY ONLY <1>2, <1>4, SMT DEF Jobs, Steps
<1>6. k \in Jobs /\ k.op = b.op /\ k.step = b.step /\ k.n = b.n
  BY ONLY <1>3, <1>5, TimesOfFields, SMT DEF Jobs
<1> QED
  BY <1>4, <1>5, <1>6

\* What Take makes of it.
AfterTake(j, v) ==
  IF j.n < 6 THEN [j EXCEPT !.n = @ + 1, !.taken = v]
  ELSE [j EXCEPT !.n = 1, !.step = "done", !.taken = v]

LEMMA TakenJob ==
  ASSUME NEW j \in Jobs, NEW v \in Times, NEW k, k = AfterTake(j, v)
  PROVE  k \in Jobs /\ k.op = j.op /\ k.taken = v /\ k.regs = j.regs
         /\ IF j.n < 6 THEN k.n = j.n + 1 /\ k.step = j.step ELSE k.step = "done"
<1>0. j.n \in 1 .. 6
  BY DEF Jobs
<1>1. CASE j.n < 6
  <2>1. PICK a : a = [j EXCEPT !.n = @ + 1]
    OBVIOUS
  <2>2. k = [a EXCEPT !.taken = v]
    BY <1>1, <2>1, Zenon DEF AfterTake
  <2>3. a \in Jobs /\ a.op = j.op /\ a.step = j.step /\ a.n = j.n + 1 /\ a.regs = j.regs
    BY <1>0, <1>1, <2>1, SMT DEF Jobs
  <2>4. k \in Jobs /\ k.op = a.op /\ k.taken = v /\ k.n = a.n /\ k.step = a.step /\ k.regs = a.regs
    BY ONLY <2>2, <2>3, v \in Times, SMT DEF Jobs
  <2> QED
    BY <1>1, <2>3, <2>4
<1>2. CASE ~(j.n < 6)
  <2>1. PICK a : a = [j EXCEPT !.n = 1]
    OBVIOUS
  <2>2. PICK b : b = [a EXCEPT !.step = "done"]
    OBVIOUS
  <2>3. k = [b EXCEPT !.taken = v]
    BY <1>2, <2>1, <2>2, Zenon DEF AfterTake
  <2>4. a \in Jobs /\ a.op = j.op /\ a.regs = j.regs
    BY <2>1, SMT DEF Jobs
  <2>5. b \in Jobs /\ b.op = j.op /\ b.step = "done" /\ b.regs = j.regs
    BY <2>2, <2>4, SMT DEF Jobs, Steps
  <2>6. k \in Jobs /\ k.op = b.op /\ k.taken = v /\ k.step = b.step /\ k.regs = b.regs
    BY ONLY <2>3, <2>5, v \in Times, SMT DEF Jobs
  <2> QED
    BY <1>2, <2>5, <2>6
<1> QED
  BY <1>1, <1>2

LEMMA StoreJob ==
  ASSUME NEW j \in Jobs, j.step = "store", NEW k,
         k = IF j.n < 6 THEN [j EXCEPT !.n = @ + 1]
             ELSE IF j.op = "digit" THEN [j EXCEPT !.n = 1, !.step = "enter"]
             ELSE [j EXCEPT !.n = 1, !.step = "take", !.regs = Zero]
  PROVE  /\ k \in Jobs /\ k.op = j.op
         /\ j.n < 6 => k.step = "store" /\ k.n = j.n + 1 /\ k.regs = j.regs
         /\ ~(j.n < 6) /\ j.op = "digit" => k.step = "enter" /\ k.n = 1 /\ k.regs = j.regs
         /\ ~(j.n < 6) /\ j.op # "digit" => k.step = "take" /\ k.n = 1
<1>0. j.n \in 1 .. 6
  BY DEF Jobs
<1>1. CASE j.n < 6
  <2>1. k = [j EXCEPT !.n = @ + 1]
    BY <1>1
  <2>2. k \in Jobs /\ k.op = j.op /\ k.step = j.step /\ k.n = j.n + 1 /\ k.regs = j.regs
    BY ONLY j \in Jobs, <1>0, <1>1, <2>1, SMT DEF Jobs
  <2> QED
    BY <1>1, <2>2
<1>2. CASE ~(j.n < 6) /\ j.op = "digit"
  <2>1. k = [j EXCEPT !.n = 1, !.step = "enter"]
    BY <1>2
  <2>2. PICK a : a = [j EXCEPT !.n = 1]
    OBVIOUS
  <2>3. k = [a EXCEPT !.step = "enter"]
    BY <2>1, <2>2, Zenon
  <2>4. a \in Jobs /\ a.op = j.op /\ a.n = 1 /\ a.regs = j.regs
    BY ONLY j \in Jobs, <2>2, SMT DEF Jobs
  <2>5. k \in Jobs /\ k.op = a.op /\ k.step = "enter" /\ k.n = a.n /\ k.regs = a.regs
    BY ONLY <2>3, <2>4, SMT DEF Jobs, Steps
  <2> QED
    BY <1>2, <2>4, <2>5
<1>3. CASE ~(j.n < 6) /\ j.op # "digit"
  <2>1. k = [j EXCEPT !.n = 1, !.step = "take", !.regs = Zero]
    BY <1>3
  <2>2. k \in Jobs /\ k.op = j.op /\ k.step = "take" /\ k.n = 1
    BY <2>1, StoredJob
  <2> QED
    BY <1>3, <2>2
<1> QED
  BY <1>1, <1>2, <1>3

-----------------------------------------------------------------------------
(* Where the fields of a stamp come from: each from a time that came into  *)
(* dev_time while the task was reading it.  What another task still has to *)
(* store is one of these times.                                            *)

Came(t, f, value) == \E a \in reads[t] : a[f] = value

Reading(t) == job[t].step \in {"store", "take", "done"}

OriginOf(t) ==
  /\ job[t].step = "store" =>
       /\ job[t].regs \in reads[t]
       /\ \A i \in 1 .. 6 : i < job[t].n => Came(t, Read[i], dev_time[Read[i]])
  /\ job[t].step = "take" =>
       /\ \A f \in Fields : Came(t, f, dev_time[f])
       /\ \A i \in 1 .. 6 : i < job[t].n => Came(t, Stamp[i], job[t].taken[Stamp[i]])
  /\ job[t].step = "done" => \A f \in Fields : Came(t, f, job[t].taken[f])
  /\ Reading(t) /\ job[Other(t)].step = "store" => job[Other(t)].regs \in reads[t]

Origin == \A t \in Tasks : OriginOf(t)

LEMMA TheOther ==
  ASSUME NEW t \in Tasks
  PROVE  /\ Other(t) \in Tasks /\ Other(t) # t /\ Other(Other(t)) = t
         /\ \A u \in Tasks : u = t \/ u = Other(t)
BY DEF Tasks, Other

LEMMA OriginIdle ==
  ASSUME NEW t \in Tasks, ~Reading(t)'
  PROVE  OriginOf(t)'
BY DEF Reading, OriginOf

LEMMA OriginQuiet ==
  ASSUME NEW t \in Tasks, OriginOf(t), job'[t] = job[t], reads[t] \subseteq reads'[t],
         Reading(t) => \A f \in Fields : dev_time'[f] = dev_time[f] \/ Came(t, f, dev_time[f])',
         Reading(t) /\ job'[Other(t)].step = "store" => job'[Other(t)].regs \in reads'[t]
  PROVE  OriginOf(t)'
<1>1. \A f, v : Came(t, f, v) => Came(t, f, v)'
  BY DEF Came
<1>2. Reading(t)' <=> Reading(t)
  BY DEF Reading
<1>3. CASE ~Reading(t)
  BY <1>2, <1>3, OriginIdle
<1>4. CASE Reading(t)
  <2>1. \A f \in Fields : Came(t, f, dev_time[f]) => Came(t, f, dev_time[f])'
    BY <1>1, <1>4, Zenon
  <2>2. job[t].step = "store" =>
          /\ job'[t].regs \in reads'[t]
          /\ \A i \in 1 .. 6 : i < job'[t].n => Came(t, Read[i], dev_time[Read[i]])'
    BY <2>1, ReadFields, Zenon DEF OriginOf
  <2>3. job[t].step = "take" =>
          /\ \A f \in Fields : Came(t, f, dev_time[f])'
          /\ \A i \in 1 .. 6 : i < job'[t].n => Came(t, Stamp[i], job[t].taken[Stamp[i]])'
    BY <1>1, <2>1, Zenon DEF OriginOf
  <2>4. job[t].step = "done" => \A f \in Fields : Came(t, f, job[t].taken[f])'
    BY <1>1, Zenon DEF OriginOf
  <2> QED
    BY <1>4, <2>2, <2>3, <2>4, Zenon DEF OriginOf
<1> QED
  BY <1>3, <1>4

-----------------------------------------------------------------------------
(* What a digit typed into the menu sets.                                  *)

Edited == Links[cur]
TypedOn(value, place, num) == Typed(value, place, num, Min(Edited), Max(Edited))

\* The digit is in the value, behind the one typed before it.
Entered ==
  /\ tens # -1 => tens \in Digit /\ pos = 2
  /\ tens # -1 /\ job["lcd"].step \notin {"date", "time"} =>
       \E old \in 0 .. 99 : params[Edited] = TypedOn(old, 2, tens)
  /\ job["lcd"].step \in {"date", "time"} =>
       \E old \in 0 .. 99 :
         /\ params[Edited] = TypedOn(old, pos + 1, job["lcd"].num)
         /\ tens # -1 => \E older \in 0 .. 99 : old = TypedOn(older, 2, tens)

\* The time that is set, unless the other task reads the clock meanwhile.
TimeToSet == [job["lcd"].regs EXCEPT ![Edited] = params[Edited]]

Undisturbed ==
  job["lcd"].op = "digit" /\ ~hit =>
    /\ job["lcd"].step = "store" =>
         \A i \in 1 .. 6 : i < job["lcd"].n => dev_time[Read[i]] = job["lcd"].regs[Read[i]]
    /\ job["lcd"].step = "enter" => dev_time = job["lcd"].regs
    /\ job["lcd"].step \in {"date", "time"} => dev_time = TimeToSet
    /\ job["lcd"].step = "time" /\ ~midnight =>
         \A f \in {"year", "month", "day"} : rtc[f] = dev_time[f]

SettingOp == job["lcd"].step \in Setting => job["lcd"].op = "digit"

LEMMA EnteredQuiet ==
  ASSUME Entered, UNCHANGED <<params, cur, pos, tens>>,
         job'["lcd"].step \in {"date", "time"} <=> job["lcd"].step \in {"date", "time"},
         job["lcd"].step \in {"date", "time"} => job'["lcd"].num = job["lcd"].num
  PROVE  Entered'
<1>1. Edited' = Edited
  BY DEF Edited
<1>2. \A v, p, n : TypedOn(v, p, n)' = TypedOn(v, p, n)
  BY <1>1 DEF TypedOn
<1> QED
  BY <1>1, <1>2, Zenon DEF Entered

LEMMA UndisturbedQuiet ==
  ASSUME Undisturbed, job'["lcd"] = job["lcd"], ~hit' => ~hit, ~midnight' => ~midnight,
         job["lcd"].op = "digit" /\ ~hit' => dev_time' = dev_time,
         UNCHANGED <<rtc, params, cur>>
  PROVE  Undisturbed'
<1>1. TimeToSet' = TimeToSet
  BY DEF TimeToSet, Edited
<1> QED
  BY <1>1, Zenon DEF Undisturbed

ClockInv == JobTypes /\ ClockTypes /\ Origin /\ Entered /\ Undisturbed /\ SettingOp

LEMMA ClockInvInit == Init => ClockInv
<1> SUFFICES ASSUME Init
             PROVE  ClockInv
  OBVIOUS
<1>1. \A t \in Tasks : job[t] = Idle
  BY DEF Init
<1>2. Idle \in Jobs /\ Idle.step = "idle" /\ Idle.op = "none"
  BY TimesOfFields DEF Idle
<1>3. JobTypes
  <2>1. job \in [Tasks -> Jobs] /\ reads \in [Tasks -> SUBSET Times]
    BY <1>2 DEF Init
  <2>2. job["net"].step \notin Setting /\ job["net"].op # "digit"
    BY <1>1, <1>2 DEF Tasks, Setting
  <2> QED
    BY <2>1, <2>2 DEF JobTypes
<1>4. ClockTypes
  <2>1. rtc \in Times /\ dev_time \in Times
    BY ClockAssumption, TimesOfFields DEF Init
  <2>2. params \in [Range(Links) -> 0 .. 99] /\ \A f \in Range(Links) : params[f] <= Max(f)
    <3>1. \A f \in Range(Links) : 0 <= Max(f)
      <4>1. \A f \in Range(Links) : Max(f) \in 0 .. 99
        BY LinkFields, FieldLimits, Zenon
      <4> QED
        BY <4>1
    <3>2. params = [f \in Range(Links) |-> 0]
      BY DEF Init
    <3> QED
      BY ONLY <3>1, <3>2, SMT
  <2>3. cur \in DOMAIN Links /\ pos \in {1, 2}
    BY LinkFields DEF Init
  <2> QED
    BY <2>1, <2>2, <2>3 DEF ClockTypes
<1>5. Origin
  BY <1>1, <1>2, Zenon DEF Origin, OriginOf, Reading
<1>6. job["lcd"] = Idle
  BY <1>1 DEF Tasks
<1>7. Entered
  BY <1>2, <1>6, SMT DEF Entered, Init
<1>8. Undisturbed /\ SettingOp
  BY <1>2, <1>6, SMT DEF Undisturbed, SettingOp, Setting
<1> QED
  BY <1>3, <1>4, <1>5, <1>7, <1>8 DEF ClockInv

LEMMA Numerals == /\ \A i \in 1 .. 6 : ~(i < 1)
                  /\ \A i, n \in 1 .. 6 : i < n + 1 => i < n \/ i = n
                  /\ \A i, n \in 1 .. 6 : ~(n < 6) => i < n \/ i = n
OBVIOUS

LEMMA TickKeeps == ClockInv /\ Tick => ClockInv'
<1> SUFFICES ASSUME ClockInv, Tick
             PROVE  ClockInv'
  OBVIOUS
<1> USE DEF ClockInv
<1>1. /\ rtc' = NextSecond(rtc)
      /\ UNCHANGED <<dev_time, job, menu, params, cur, pos, tens, reads, hit>>
      /\ midnight' = (midnight \/ (job["lcd"].step = "time" /\ rtc'.day # rtc.day))
  BY DEF Tick, editor
<1>2. JobTypes' /\ SettingOp'
  BY <1>1 DEF JobTypes, SettingOp
<1>3. ClockTypes'
  <2>1. rtc' \in Times
    BY <1>1, NextIsTime DEF ClockTypes
  <2> QED
    BY <1>1, <2>1 DEF ClockTypes
<1>4. Origin'
  <2> SUFFICES ASSUME NEW t \in Tasks
               PROVE  OriginOf(t)'
    BY DEF Origin
  <2>1. Reading(t) /\ job[Other(t)].step = "store" => job[Other(t)].regs \in reads[t]
    BY Zenon DEF Origin, OriginOf
  <2> QED
    BY <1>1, <2>1, OriginQuiet DEF Origin
<1>5. Entered'
  BY <1>1, EnteredQuiet
<1>6. Undisturbed'
  <2>1. TimeToSet' = TimeToSet
    BY <1>1 DEF TimeToSet, Edited
  <2>2. job["lcd"].step = "time" /\ ~midnight' => rtc'.day = rtc.day /\ ~midnight
    BY <1>1, Zenon
  <2>3. rtc'.day = rtc.day => rtc'.month = rtc.month /\ rtc'.year = rtc.year
    BY <1>1, NextIsTime DEF ClockTypes
  <2>4. job["lcd"].step = "time" /\ ~midnight' =>
          \A f \in {"year", "month", "day"} : rtc'[f] = rtc[f]
    BY <2>2, <2>3, Zenon
  <2> QED
    BY <1>1, <2>1, <2>2, <2>4, Zenon DEF Undisturbed
<1> QED
  BY <1>2, <1>3, <1>4, <1>5, <1>6

LEMMA GetKeeps ==
  ASSUME ClockInv, NEW t \in Tasks, NEW o \in Ops, NEW num \in Digit, Get(t, o, num),
         job[t].step \in {"idle", "key"}, o = "digit" => t = "lcd",
         UNCHANGED <<rtc, dev_time, params, cur, pos, tens, hit, midnight>>
  PROVE  ClockInv'
<1> USE DEF ClockInv
<1>other. PICK other : other = Other(t)
  OBVIOUS
<1>job. PICK k : k = Begun(o, rtc, num)
  OBVIOUS
<1>0. rtc \in Times
  BY DEF ClockTypes
<1>1. k \in Jobs /\ k.op = o /\ k.step = "store" /\ k.n = 1 /\ k.regs = rtc /\ k.num = num
  BY <1>0, <1>job, GetJob
<1>2. job \in [Tasks -> Jobs] /\ reads \in [Tasks -> SUBSET Times]
  BY DEF JobTypes
<1>3. /\ job' = [job EXCEPT ![t] = k]
      /\ reads' = [reads EXCEPT
                     ![t] = {rtc} \cup (IF job[other].step = "store" THEN {job[other].regs} ELSE {}),
                     ![other] = IF Busy(other) THEN @ \cup {rtc} ELSE @]
  BY <1>job, <1>other DEF Get, Begun
<1>4. other \in Tasks /\ other # t /\ \A u \in Tasks : u = t \/ u = other
  BY <1>other, TheOther
<1>5. job'[t] = k /\ job'[other] = job[other]
  BY <1>2, <1>3, <1>4
<1>6. /\ reads'[t] = {rtc} \cup (IF job[other].step = "store" THEN {job[other].regs} ELSE {})
      /\ reads'[other] = IF Busy(other) THEN reads[other] \cup {rtc} ELSE reads[other]
  BY <1>2, <1>3, <1>4, SMTT(20)
<1>7. JobTypes'
  <2>1. job' \in [Tasks -> Jobs]
    BY <1>1, <1>2, <1>3
  <2>2. reads'[t] \subseteq Times /\ reads'[other] \subseteq Times
    <3>1. job[other].regs \in Times
      BY <1>2, <1>4 DEF Jobs
    <3> QED
      BY <1>0, <1>2, <1>4, <1>6, <3>1
  <2>3. reads' \in [Tasks -> SUBSET Times]
    BY <1>2, <1>3, <1>4, <2>2
  <2>4. job'["net"].step \notin Setting /\ job'["net"].op # "digit"
    BY <1>1, <1>4, <1>5 DEF JobTypes, Tasks, Setting
  <2> QED
    BY <2>1, <2>3, <2>4 DEF JobTypes
<1>8. ClockTypes'
  BY DEF ClockTypes
<1>9. Origin'
  <2>1. OriginOf(t)'
    <3>1. job[other].step = "store" => job[other].regs \in reads'[t]
      BY <1>6
    <3>2. rtc \in reads'[t]
      BY <1>6
    <3> QED
      BY <1>1, <1>5, <1>other, <3>1, <3>2, Numerals, SMT DEF OriginOf
  <2>2. OriginOf(other)'
    <3>1. OriginOf(other) /\ job'[Other(other)] = k
      BY <1>4, <1>5, <1>other, TheOther DEF Origin
    <3>2. reads[other] \subseteq reads'[other] /\ (Reading(other) => rtc \in reads'[other])
      BY <1>6 DEF Reading, Busy
    <3> QED
      BY <1>1, <1>4, <1>5, <3>1, <3>2, OriginQuiet
  <2> QED
    BY <1>4, <2>1, <2>2, Zenon DEF Origin
<1>10. Entered' /\ Undisturbed' /\ SettingOp'
  <2>1. CASE t = "lcd"
    <3>1. job["lcd"].step \notin {"date", "time"} /\ job'["lcd"] = k
      BY <1>5, <2>1
    <3>2. Entered'
      BY <1>1, <3>1, EnteredQuiet
    <3>3. Undisturbed'
      BY <1>1, <3>1, Numerals, Zenon DEF Undisturbed
    <3> QED
      BY <1>1, <3>1, <3>2, <3>3 DEF SettingOp, Setting
  <2>2. CASE other = "lcd"
    <3>1. job'["lcd"] = job["lcd"]
      BY <1>5, <2>2
    <3> QED
      BY <3>1, EnteredQuiet, UndisturbedQuiet DEF SettingOp
  <2> QED
    BY <1>4, <2>1, <2>2 DEF Tasks
<1> QED
  BY <1>7, <1>8, <1>9, <1>10

LEMMA StoreKeeps ==
  ASSUME ClockInv, NEW t \in Tasks, Store(t)
  PROVE  ClockInv'
<1> USE DEF ClockInv
<1>0. PICK other \in Tasks : other = Other(t) /\ other # t /\ t = Other(other)
                             /\ \A u \in Tasks : u = t \/ u = other
  BY TheOther
<1>1. PICK j \in Jobs : j = job[t]
  BY DEF JobTypes
<1>2. PICK f \in Fields : f = Read[j.n]
  BY ReadFields DEF Jobs
<1>3. PICK k : k = IF j.n < 6 THEN [j EXCEPT !.n = @ + 1]
                   ELSE IF j.op = "digit" THEN [j EXCEPT !.n = 1, !.step = "enter"]
                   ELSE [j EXCEPT !.n = 1, !.step = "take", !.regs = Zero]
  OBVIOUS
<1>4. /\ j.step = "store"
      /\ dev_time' = [dev_time EXCEPT ![f] = j.regs[f]]
      /\ job' = [job EXCEPT ![t] = k]
      /\ hit' = (hit \/ (t = "net" /\ job["lcd"].op = "digit"))
      /\ UNCHANGED <<rtc, menu, params, cur, pos, tens, reads, midnight>>
  BY <1>1, <1>2, <1>3 DEF Store, editor
<1>5. /\ k \in Jobs /\ k.op = j.op
      /\ j.n < 6 => k.step = "store" /\ k.n = j.n + 1 /\ k.regs = j.regs
      /\ ~(j.n < 6) /\ j.op = "digit" => k.step = "enter" /\ k.n = 1 /\ k.regs = j.regs
      /\ ~(j.n < 6) /\ j.op # "digit" => k.step = "take" /\ k.n = 1
  BY <1>3, <1>4, StoreJob
<1>6. job \in [Tasks -> Jobs] /\ job'[t] = k /\ job'[other] = job[other]
  BY <1>0, <1>4 DEF JobTypes
<1>7. /\ j.regs \in Times /\ j.n \in 1 .. 6 /\ dev_time \in Times
      /\ dev_time'[f] = j.regs[f]
      /\ \A g \in Fields : dev_time'[g] = IF g = f THEN j.regs[f] ELSE dev_time[g]
  BY <1>4, TimesOfFields DEF Jobs, ClockTypes
<1>8. dev_time' \in Times
  <2>1. j.regs[f] \in 0 .. 99 /\ j.regs[f] <= Max(f)
    BY <1>7, TimesOfFields
  <2> QED
    BY <1>4, <1>7, <2>1, FieldPut
<1>9. JobTypes'
  <2>1. job' \in [Tasks -> Jobs]
    BY <1>4, <1>5, <1>6
  <2>2. job'["net"].step \notin Setting /\ job'["net"].op # "digit"
    BY <1>0, <1>1, <1>4, <1>5, <1>6, SMT DEF JobTypes, Tasks, Setting
  <2> QED
    BY <1>4, <2>1, <2>2 DEF JobTypes
<1>10. ClockTypes'
  BY <1>4, <1>8 DEF ClockTypes
<1>11. Origin'
  <2>1. OriginOf(t)'
    <3>1. j.regs \in reads[t] /\ \A i \in 1 .. 6 : i < j.n => Came(t, Read[i], dev_time[Read[i]])
      BY <1>1, <1>4 DEF Origin, OriginOf
    <3>2. \A i \in 1 .. 6 : i < j.n \/ i = j.n => Came(t, Read[i], dev_time[Read[i]])'
      <4> SUFFICES ASSUME NEW i \in 1 .. 6, i < j.n \/ i = j.n
                   PROVE  Came(t, Read[i], dev_time[Read[i]])'
        OBVIOUS
      <4>1. Read[i] \in Fields
        BY ReadFields
      <4>2. CASE Read[i] = f
        BY <1>4, <1>7, <3>1, <4>2, Zenon DEF Came
      <4>3. CASE Read[i] # f
        <5>1. dev_time'[Read[i]] = dev_time[Read[i]] /\ i < j.n
          BY <1>2, <1>7, <4>1, <4>3
        <5> QED
          BY <1>4, <3>1, <5>1, Zenon DEF Came
      <4> QED
        BY <4>2, <4>3
    <3>3. job[other].step = "store" => job[other].regs \in reads[t]
      BY <1>0, <1>1, <1>4 DEF Origin, OriginOf, Reading
    <3>4. CASE j.n < 6
      BY <1>0, <1>4, <1>5, <1>6, <1>7, <3>1, <3>2, <3>3, <3>4, Numerals, SMT DEF OriginOf
    <3>5. CASE ~(j.n < 6) /\ j.op = "digit"
      BY <1>5, <1>6, <3>5, OriginIdle DEF Reading
    <3>6. CASE ~(j.n < 6) /\ j.op # "digit"
      <4>1. \A g \in Fields : Came(t, g, dev_time[g])'
        <5> SUFFICES ASSUME NEW g \in Fields
                     PROVE  Came(t, g, dev_time[g])'
          OBVIOUS
        <5>1. PICK i \in 1 .. 6 : Read[i] = g
          BY ReadFields
        <5>2. i < j.n \/ i = j.n
          BY <1>7, <3>6
        <5> QED
          BY <3>2, <5>1, <5>2, Zenon
      <4> QED
        BY <1>0, <1>4, <1>5, <1>6, <3>3, <3>6, <4>1, Numerals, SMT DEF OriginOf
    <3> QED
      BY <3>4, <3>5, <3>6
  <2>2. OriginOf(other)'
    <3>1. OriginOf(other)
      BY DEF Origin
    <3>2. Reading(other) => j.regs \in reads[other]
      BY <1>0, <1>1, <1>4, <3>1 DEF OriginOf
    <3>3. Reading(other) => \A g \in Fields : dev_time'[g] = dev_time[g] \/ Came(other, g, dev_time[g])'
      BY <1>4, <1>7, <3>2, Zenon DEF Came
    <3>4. k.step = "store" => k.regs = j.regs
      BY <1>5
    <3> QED
      BY <1>0, <1>4, <1>6, <3>1, <3>2, <3>3, <3>4, OriginQuiet
  <2> QED
    BY <1>0, <2>1, <2>2, Zenon DEF Origin
<1>12. Entered' /\ Undisturbed' /\ SettingOp'
  <2>1. CASE t = "lcd"
    <3>1. j = job["lcd"] /\ job'["lcd"] = k
      BY <1>1, <1>6, <2>1
    <3>2. Entered'
      <4>1. k.step \notin {"date", "time"}
        BY <1>5
      <4> QED
        BY <1>4, <3>1, <4>1, EnteredQuiet
    <3>3. Undisturbed'
      <4> SUFFICES ASSUME j.op = "digit", ~hit
                   PROVE  /\ k.step = "store" =>
                               \A i \in 1 .. 6 : i < k.n => dev_time'[Read[i]] = k.regs[Read[i]]
                          /\ k.step = "enter" => dev_time' = k.regs
        BY <1>4, <1>5, <3>1, Zenon DEF Undisturbed
      <4>1. \A i \in 1 .. 6 : i < j.n => dev_time[Read[i]] = j.regs[Read[i]]
        BY <1>4, <3>1 DEF Undisturbed
      <4>2. \A i \in 1 .. 6 : i < j.n \/ i = j.n => dev_time'[Read[i]] = j.regs[Read[i]]
        BY <1>2, <1>7, <4>1, ReadFields, Zenon
      <4>3. CASE j.n < 6
        BY <1>5, <1>7, <4>2, <4>3, Numerals, SMT
      <4>4. CASE ~(j.n < 6)
        <5>1. \A g \in Fields : dev_time'[g] = j.regs[g]
          <6> SUFFICES ASSUME NEW g \in Fields
                       PROVE  dev_time'[g] = j.regs[g]
            OBVIOUS
          <6>1. PICK i \in 1 .. 6 : Read[i] = g
            BY ReadFields
          <6> QED
            BY <1>7, <4>2, <4>4, <6>1
        <5>2. dev_time' = j.regs
          <6>1. dev_time' \in [Fields -> 0 .. 99] /\ j.regs \in [Fields -> 0 .. 99]
            BY <1>7, <1>8, TimesOfFields
          <6> QED
            BY <5>1, <6>1
        <5> QED
          BY <1>5, <4>4, <5>2
      <4> QED
        BY <4>3, <4>4
    <3> QED
      BY <1>5, <3>1, <3>2, <3>3 DEF SettingOp, Setting
  <2>2. CASE other = "lcd"
    <3>1. job'["lcd"] = job["lcd"] /\ t = "net"
      BY <1>0, <1>6, <2>2 DEF Tasks
    <3>2. ~hit' => ~hit /\ job["lcd"].op # "digit"
      BY <1>4, <3>1, Zenon
    <3>3. Undisturbed'
      BY <3>1, <3>2, Zenon DEF Undisturbed
    <3> QED
      BY <1>4, <3>1, <3>3, EnteredQuiet DEF SettingOp
  <2> QED
    BY <1>0, <2>1, <2>2 DEF Tasks
<1> QED
  BY <1>9, <1>10, <1>11, <1>12

LEMMA TakeKeeps ==
  ASSUME ClockInv, NEW t \in Tasks, Take(t)
  PROVE  ClockInv'
<1> USE DEF ClockInv
<1>0. PICK other \in Tasks : other = Other(t) /\ other # t /\ t = Other(other)
                             /\ \A u \in Tasks : u = t \/ u = other
  BY TheOther
<1>1. PICK j \in Jobs : j = job[t]
  BY DEF JobTypes
<1>2. PICK f \in Fields : f = Stamp[j.n]
  BY ReadFields DEF Jobs
<1>3. PICK taken : taken = [j.taken EXCEPT ![f] = dev_time[f]]
  OBVIOUS
<1>4. PICK k : k = AfterTake(j, taken)
  OBVIOUS
<1>5. /\ j.step = "take" /\ j.op = "stamp"
      /\ job' = [job EXCEPT ![t] = k]
      /\ UNCHANGED <<rtc, dev_time, menu, params, cur, pos, tens, reads, hit, midnight>>
  BY <1>1, <1>2, <1>3, <1>4 DEF Take, editor, AfterTake
<1>6. /\ j.taken \in Times /\ j.n \in 1 .. 6 /\ dev_time \in Times
      /\ taken[f] = dev_time[f]
      /\ \A g \in Fields : g # f => taken[g] = j.taken[g]
  BY <1>3, TimesOfFields DEF Jobs, ClockTypes
<1>7. taken \in Times
  <2>1. dev_time[f] \in 0 .. 99 /\ dev_time[f] <= Max(f)
    BY <1>6, TimesOfFields
  <2> QED
    BY <1>3, <1>6, <2>1, FieldPut
<1>8. /\ k \in Jobs /\ k.op = j.op /\ k.taken = taken
      /\ IF j.n < 6 THEN k.n = j.n + 1 /\ k.step = j.step ELSE k.step = "done"
  BY <1>4, <1>7, TakenJob
<1>9. job \in [Tasks -> Jobs] /\ job'[t] = k /\ job'[other] = job[other]
  BY <1>0, <1>5 DEF JobTypes
<1>10. JobTypes'
  <2>1. job' \in [Tasks -> Jobs]
    BY <1>5, <1>8, <1>9
  <2>2. job'["net"].step \notin Setting /\ job'["net"].op # "digit"
    BY <1>0, <1>1, <1>5, <1>8, <1>9, SMT DEF JobTypes, Tasks, Setting
  <2> QED
    BY <1>5, <2>1, <2>2 DEF JobTypes
<1>11. ClockTypes'
  BY <1>5 DEF ClockTypes
<1>12. Origin'
  <2>1. OriginOf(t)'
    <3>1. /\ \A g \in Fields : Came(t, g, dev_time[g])
          /\ \A i \in 1 .. 6 : i < j.n => Came(t, Stamp[i], j.taken[Stamp[i]])
      BY <1>1, <1>5 DEF Origin, OriginOf
    <3>2. \A g, v : Came(t, g, v)' <=> Came(t, g, v)
      BY <1>5 DEF Came
    <3>3. \A i \in 1 .. 6 : i < j.n \/ i = j.n => Came(t, Stamp[i], taken[Stamp[i]])
      <4> SUFFICES ASSUME NEW i \in 1 .. 6, i < j.n \/ i = j.n
                   PROVE  Came(t, Stamp[i], taken[Stamp[i]])
        OBVIOUS
      <4>1. Stamp[i] \in Fields
        BY ReadFields
      <4>2. CASE Stamp[i] = f
        BY <1>6, <3>1, <4>2, Zenon
      <4>3. CASE Stamp[i] # f
        <5>1. taken[Stamp[i]] = j.taken[Stamp[i]] /\ i < j.n
          BY <1>2, <1>6, <4>1, <4>3
        <5> QED
          BY <3>1, <5>1, Zenon
      <4> QED
        BY <4>2, <4>3
    <3>4. job[other].step = "store" => job[other].regs \in reads[t]
      BY <1>0, <1>1, <1>5 DEF Origin, OriginOf, Reading
    <3>5. CASE j.n < 6
      <4>1. k.step = "take" /\ k.n = j.n + 1
        BY <1>5, <1>8, <3>5
      <4>2. \A i \in 1 .. 6 : i < k.n => Came(t, Stamp[i], k.taken[Stamp[i]])'
        <5>1. \A i \in 1 .. 6 : i < k.n => Came(t, Stamp[i], taken[Stamp[i]])
          BY <1>6, <3>3, <4>1, Numerals
        <5> QED
          BY <1>8, <3>2, <5>1, Zenon
      <4>3. \A g \in Fields : Came(t, g, dev_time[g])'
        BY <1>5, <3>1, Zenon DEF Came
      <4> QED
        BY <1>0, <1>5, <1>9, <3>4, <4>1, <4>2, <4>3, SMT DEF OriginOf
    <3>6. CASE ~(j.n < 6)
      <4>1. \A g \in Fields : Came(t, g, k.taken[g])'
        <5> SUFFICES ASSUME NEW g \in Fields
                     PROVE  Came(t, g, k.taken[g])'
          OBVIOUS
        <5>1. PICK i \in 1 .. 6 : Stamp[i] = g
          BY ReadFields
        <5>2. i < j.n \/ i = j.n
          BY <1>6, <3>6
        <5> QED
          BY <1>8, <3>2, <3>3, <5>1, <5>2, Zenon
      <4>2. k.step = "done"
        BY <1>8, <3>6
      <4> QED
        BY <1>0, <1>5, <1>9, <3>4, <4>1, <4>2, SMT DEF OriginOf
    <3> QED
      BY <3>5, <3>6
  <2>2. OriginOf(other)'
    <3>1. OriginOf(other) /\ k.step # "store"
      BY <1>5, <1>8 DEF Origin
    <3> QED
      BY <1>0, <1>5, <1>9, <3>1, OriginQuiet
  <2> QED
    BY <1>0, <2>1, <2>2, Zenon DEF Origin
<1>13. Entered' /\ Undisturbed' /\ SettingOp'
  <2>1. CASE t = "lcd"
    <3>1. j = job["lcd"] /\ job'["lcd"] = k
      BY <1>1, <1>9, <2>1
    <3>2. k.step \in {"take", "done"}
      BY <1>5, <1>8
    <3> QED
      BY <1>5, <3>1, <3>2, EnteredQuiet DEF Undisturbed, SettingOp, Setting
  <2>2. CASE other = "lcd"
    <3>1. job'["lcd"] = job["lcd"]
      BY <1>9, <2>2
    <3> QED
      BY <1>5, <3>1, EnteredQuiet, UndisturbedQuiet DEF SettingOp
  <2> QED
    BY <1>0, <2>1, <2>2 DEF Tasks
<1> QED
  BY <1>10, <1>11, <1>12, <1>13

LEMMA IdleJob == Idle \in Jobs /\ Idle.step = "idle" /\ Idle.op = "none"
BY TimesOfFields DEF Idle

LEMMA DoneKeeps ==
  ASSUME ClockInv, NEW t \in Tasks, Done(t)
  PROVE  ClockInv'
<1> USE DEF ClockInv
<1>0. PICK other \in Tasks : other = Other(t) /\ other # t /\ t = Other(other)
                             /\ \A u \in Tasks : u = t \/ u = other
  BY TheOther
<1>1. /\ job[t].step = "done"
      /\ job' = [job EXCEPT ![t] = Idle]
      /\ reads' = [reads EXCEPT ![t] = {}]
      /\ UNCHANGED <<rtc, dev_time, menu, params, cur, pos, tens, hit, midnight>>
  BY DEF Done, editor
<1>2. /\ job \in [Tasks -> Jobs] /\ job'[t] = Idle /\ job'[other] = job[other]
      /\ reads'[other] = reads[other]
  BY <1>0, <1>1 DEF JobTypes
<1>3. JobTypes'
  <2>1. job' \in [Tasks -> Jobs]
    BY <1>1, <1>2, IdleJob
  <2>2. job'["net"].step \notin Setting /\ job'["net"].op # "digit"
    BY <1>0, <1>2, IdleJob, SMT DEF JobTypes, Tasks, Setting
  <2>3. reads' \in [Tasks -> SUBSET Times]
    BY <1>1 DEF JobTypes
  <2> QED
    BY <2>1, <2>2, <2>3 DEF JobTypes
<1>4. ClockTypes'
  BY <1>1 DEF ClockTypes
<1>5. Origin'
  <2>1. OriginOf(t)'
    BY <1>2, IdleJob, OriginIdle DEF Reading
  <2>2. OriginOf(other)'
    BY <1>0, <1>1, <1>2, IdleJob, OriginQuiet DEF Origin
  <2> QED
    BY <1>0, <2>1, <2>2, Zenon DEF Origin
<1>6. Entered' /\ Undisturbed' /\ SettingOp'
  <2>1. CASE t = "lcd"
    <3>1. job'["lcd"] = Idle
      BY <1>2, <2>1
    <3> QED
      BY <1>1, <2>1, <3>1, IdleJob, EnteredQuiet DEF Undisturbed, SettingOp, Setting
  <2>2. CASE other = "lcd"
    <3>1. job'["lcd"] = job["lcd"]
      BY <1>2, <2>2
    <3> QED
      BY <1>1, <3>1, EnteredQuiet, UndisturbedQuiet DEF SettingOp
  <2> QED
    BY <1>0, <2>1, <2>2 DEF Tasks
<1> QED
  BY <1>3, <1>4, <1>5, <1>6

LEMMA LcdIdles ==
  ASSUME ClockInv, NEW k \in Jobs, k.step \in {"idle", "key"}, job' = [job EXCEPT !["lcd"] = k],
         reads' = reads \/ reads' = [reads EXCEPT !["lcd"] = {}], dev_time' = dev_time
  PROVE  JobTypes' /\ Origin' /\ Undisturbed' /\ SettingOp'
<1> USE DEF ClockInv
<1>1. /\ job \in [Tasks -> Jobs] /\ job'["lcd"] = k /\ job'["net"] = job["net"]
      /\ job' \in [Tasks -> Jobs]
  BY DEF JobTypes, Tasks
<1>2. reads'["net"] = reads["net"] /\ reads' \in [Tasks -> SUBSET Times]
  BY DEF JobTypes, Tasks
<1>3. Other("net") = "lcd" /\ Tasks = {"lcd", "net"}
  BY DEF Other, Tasks
<1>4. JobTypes'
  BY <1>1, <1>2 DEF JobTypes
<1>5. OriginOf("lcd")'
  BY <1>1, <1>3, OriginIdle DEF Reading
<1>6. OriginOf("net")'
  BY <1>1, <1>2, <1>3, OriginQuiet DEF Origin
<1> QED
  BY <1>1, <1>3, <1>4, <1>5, <1>6 DEF Origin, Undisturbed, SettingOp, Setting

LEMMA ShowKeeps ==
  ASSUME ClockInv, Show
  PROVE  ClockInv'
<1> USE DEF ClockInv
<1>1. PICK k : k = [Idle EXCEPT !.step = IF job["lcd"].op = "draw" /\ menu = "open" THEN "key" ELSE "idle"]
  OBVIOUS
<1>2. k \in Jobs /\ k.step \in {"idle", "key"}
  BY <1>1, IdleJob, SMT DEF Jobs, Steps
<1>3. /\ job["lcd"].step = "take" /\ job["lcd"].op \in {"open", "draw"}
      /\ job' = [job EXCEPT !["lcd"] = k]
      /\ reads' = [reads EXCEPT !["lcd"] = {}]
      /\ UNCHANGED <<rtc, dev_time, hit, midnight>>
  BY <1>1 DEF Show
<1>4. JobTypes' /\ Origin' /\ Undisturbed' /\ SettingOp'
  BY <1>2, <1>3, LcdIdles
<1>5. PICK follows : /\ follows \subseteq Range(Links)
                     /\ job["lcd"].op # "open" => Edited \notin follows
                     /\ params' = [f \in Range(Links) |-> IF f \in follows THEN dev_time[f] ELSE params[f]]
  <2> DEFINE F == IF job["lcd"].op = "open" THEN Range(Links)
                  ELSE IF menu = "open" THEN Range(Links) \ {Links[cur]} ELSE {}
  <2>1. params' = [f \in Range(Links) |-> IF f \in F THEN dev_time[f] ELSE params[f]]
    BY DEF Show
  <2>2. F \subseteq Range(Links) /\ (job["lcd"].op # "open" => Edited \notin F)
    BY DEF Edited
  <2> QED
    BY <2>1, <2>2
<1>6. IF job["lcd"].op = "open" THEN cur' = 1 /\ pos' = 1 /\ tens' = -1
      ELSE UNCHANGED <<cur, pos, tens>>
  BY DEF Show
<1>7. Edited \in Range(Links) /\ cur' \in DOMAIN Links /\ pos' \in {1, 2}
  <2>1. 1 \in DOMAIN Links /\ cur \in DOMAIN Links
    BY LinkFields, SMT DEF ClockTypes
  <2>2. Edited \in Range(Links)
    BY <2>1, LinkFields, Zenon DEF Edited
  <2>3. pos \in {1, 2}
    BY DEF ClockTypes
  <2> QED
    BY <1>6, <2>1, <2>2, <2>3, Zenon
<1>8. ClockTypes'
  <2>1. \A f \in Range(Links) : dev_time[f] \in 0 .. 99 /\ dev_time[f] <= Max(f)
    BY LinkFields, TimesOfFields, Zenon DEF ClockTypes
  <2>2. /\ params \in [Range(Links) -> 0 .. 99]
        /\ \A f \in Range(Links) : params[f] <= Max(f)
    BY DEF ClockTypes
  <2>3. params' \in [Range(Links) -> 0 .. 99]
    BY <1>5, <2>1, <2>2
  <2>4. \A f \in Range(Links) : params'[f] <= Max(f)
    BY <1>5, <2>1, <2>2
  <2> QED
    BY <1>3, <1>7, <2>3, <2>4 DEF ClockTypes
<1>9. Entered'
  <2>1. job'["lcd"] = k
    BY <1>3 DEF JobTypes, Tasks
  <2>2. CASE job["lcd"].op = "open"
    BY <1>2, <1>6, <2>1, <2>2 DEF Entered
  <2>3. CASE job["lcd"].op # "open"
    <3>1. params'[Edited] = params[Edited] /\ Edited' = Edited /\ UNCHANGED <<cur, pos, tens>>
      BY <1>5, <1>6, <1>7, <2>3 DEF Edited
    <3>2. \A v, p, n : TypedOn(v, p, n)' = TypedOn(v, p, n)
      BY <3>1 DEF TypedOn
    <3>3. job["lcd"].step \notin {"date", "time"} /\ job'["lcd"].step \notin {"date", "time"}
      BY <1>2, <1>3, <2>1
    <3> QED
      BY <3>1, <3>2, <3>3, Zenon DEF Entered
  <2> QED
    BY <2>2, <2>3
<1> QED
  BY <1>4, <1>8, <1>9

LEMMA KeyKeeps ==
  ASSUME ClockInv, NoKey \/ Right \/ Leave
  PROVE  ClockInv'
<1> USE DEF ClockInv
<1>1. /\ job["lcd"].step = "key"
      /\ job' = [job EXCEPT !["lcd"] = Idle]
      /\ UNCHANGED <<rtc, dev_time, params, reads, hit, midnight>>
  BY DEF NoKey, Right, Leave, editor
<1>2. JobTypes' /\ Origin' /\ Undisturbed' /\ SettingOp'
  BY <1>1, IdleJob, LcdIdles
<1>3. job'["lcd"] = Idle
  BY <1>1 DEF JobTypes, Tasks
<1>4. CASE NoKey \/ Leave
  <2>1. UNCHANGED <<cur, pos, tens>>
    BY <1>4 DEF NoKey, Leave, editor
  <2> QED
    BY <1>1, <1>2, <1>3, <2>1, IdleJob, EnteredQuiet DEF ClockTypes
<1>5. CASE Right
  <2>1. cur' \in DOMAIN Links /\ pos' \in {1, 2} /\ tens' = -1
    BY <1>5, LinkFields DEF Right, pos_to_right, ClockTypes
  <2> QED
    BY <1>1, <1>2, <1>3, <2>1, IdleJob DEF ClockTypes, Entered
<1> QED
  BY <1>4, <1>5

LEMMA EnterKeeps ==
  ASSUME ClockInv, Enter
  PROVE  ClockInv'
<1> USE DEF ClockInv
<1>1. PICK j \in Jobs : j = job["lcd"]
  BY DEF JobTypes, Tasks
<1>2. PICK f : f = Edited
  OBVIOUS
<1>3. PICK value : value = TypedOn(params[f], pos + 1, j.num)
  OBVIOUS
<1>4. PICK k : k = [j EXCEPT !.step = "date"]
  OBVIOUS
<1>5. /\ j.step = "enter"
      /\ dev_time' = [dev_time EXCEPT ![f] = value]
      /\ params' = [params EXCEPT ![f] = value]
      /\ job' = [job EXCEPT !["lcd"] = k]
      /\ reads' = IF Busy("net") THEN [reads EXCEPT !["net"] = @ \cup {[j.regs EXCEPT ![f] = value]}]
                                 ELSE reads
      /\ UNCHANGED <<rtc, menu, cur, pos, tens, hit, midnight>>
  BY <1>1, <1>2, <1>3, <1>4 DEF Enter, Edited, TypedOn
<1>6. k \in Jobs /\ k.step = "date" /\ k.op = j.op /\ k.num = j.num /\ k.regs = j.regs
  BY <1>4, SMT DEF Jobs, Steps
<1>7. f \in Range(Links) /\ f \in Fields
  BY <1>2, LinkFields DEF Edited, ClockTypes
<1>8. value \in 0 .. 99 /\ value <= Max(f) /\ params[f] \in 0 .. 99
  <2>1. params[f] \in 0 .. 99 /\ pos + 1 \in {2, 3} /\ j.num \in Digit
    BY <1>7 DEF ClockTypes, Jobs
  <2> QED
    BY <1>2, <1>3, <1>7, <2>1, TypedInLimits DEF TypedOn
<1>9. /\ dev_time' \in Times /\ [j.regs EXCEPT ![f] = value] \in Times
      /\ dev_time'[f] = value /\ \A g \in Fields : g # f => dev_time'[g] = dev_time[g]
  <2>1. dev_time \in Times /\ j.regs \in Times
    BY DEF ClockTypes, Jobs
  <2>2. dev_time' \in Times /\ [j.regs EXCEPT ![f] = value] \in Times
    BY <1>5, <1>7, <1>8, <2>1, FieldPut
  <2> QED
    BY <1>5, <1>7, <2>1, <2>2, TimesOfFields
<1>10. /\ job' \in [Tasks -> Jobs] /\ job'["lcd"] = k /\ job'["net"] = job["net"]
       /\ Tasks = {"lcd", "net"} /\ Other("net") = "lcd" /\ Other("lcd") = "net"
  BY <1>5, <1>6 DEF JobTypes, Tasks, Other
<1>11. JobTypes'
  <2>1. reads' \in [Tasks -> SUBSET Times]
    BY <1>5, <1>9, <1>10 DEF JobTypes
  <2> QED
    BY <1>10, <2>1 DEF JobTypes
<1>12. ClockTypes'
  BY <1>5, <1>7, <1>8, <1>9 DEF ClockTypes
<1>13. Origin'
  <2>1. OriginOf("lcd")'
    BY <1>6, <1>10, OriginIdle DEF Reading
  <2>2. OriginOf("net")'
    <3>1. reads["net"] \subseteq reads'["net"]
      BY <1>5 DEF JobTypes, Tasks
    <3>2. Reading("net") => [j.regs EXCEPT ![f] = value] \in reads'["net"]
      BY <1>5 DEF JobTypes, Tasks, Reading, Busy
    <3>3. [j.regs EXCEPT ![f] = value][f] = value
      BY <1>7, TimesOfFields DEF Jobs
    <3>4. Reading("net") => \A g \in Fields : dev_time'[g] = dev_time[g] \/ Came("net", g, dev_time[g])'
      BY <1>9, <3>2, <3>3, Zenon DEF Came
    <3> QED
      BY <1>6, <1>10, <3>1, <3>4, OriginQuiet DEF Origin
  <2> QED
    BY <1>10, <2>1, <2>2 DEF Origin
<1>14. Entered'
  <2>1. \A v, p, n : TypedOn(v, p, n)' = TypedOn(v, p, n)
    BY <1>5 DEF TypedOn, Edited
  <2>2. Edited' = f /\ params'[f] = value
    BY <1>2, <1>5, <1>7 DEF Edited, ClockTypes
  <2>3. tens # -1 => tens \in Digit /\ pos = 2 /\ \E old \in 0 .. 99 : params[f] = TypedOn(old, 2, tens)
    BY <1>1, <1>2, <1>5 DEF Entered
  <2>4. value = TypedOn(params[f], pos + 1, k.num)
    BY <1>3, <1>6
  <2> QED
    BY <1>5, <1>6, <1>8, <1>10, <2>1, <2>2, <2>3, <2>4, Zenon DEF Entered
<1>15. Undisturbed' /\ SettingOp'
  <2>1. TimeToSet' = [j.regs EXCEPT ![f] = value]
    BY <1>2, <1>5, <1>6, <1>7, <1>10 DEF TimeToSet, Edited, ClockTypes
  <2>2. j.op = "digit"
    BY <1>1, <1>5 DEF SettingOp, Setting
  <2>3. ~hit' => dev_time' = TimeToSet'
    BY <1>1, <1>5, <2>1, <2>2 DEF Undisturbed
  <2> QED
    BY <1>6, <1>10, <2>2, <2>3, SMT DEF Undisturbed, SettingOp, Setting
<1> QED
  BY <1>11, <1>12, <1>13, <1>14, <1>15

LEMMA HalvesAreTimes ==
  ASSUME rtc \in Times, dev_time \in Times
  PROVE  /\ DateOnly(dev_time) \in Times /\ TimeOnly(dev_time) \in Times
         /\ \A f \in {"year", "month", "day"} : DateOnly(dev_time)[f] = dev_time[f]
         /\ (\A f \in {"year", "month", "day"} : rtc[f] = dev_time[f]) => TimeOnly(dev_time) = dev_time
<1>1. /\ rtc \in [Fields -> 0 .. 99] /\ dev_time \in [Fields -> 0 .. 99]
      /\ \A f \in Fields : rtc[f] <= Max(f) /\ dev_time[f] <= Max(f)
  BY TimesOfFields
<1>2. /\ DateOnly(dev_time) \in [Fields -> 0 .. 99] /\ TimeOnly(dev_time) \in [Fields -> 0 .. 99]
      /\ \A f \in Fields : /\ DateOnly(dev_time)[f] \in {rtc[f], dev_time[f]}
                           /\ TimeOnly(dev_time)[f] \in {rtc[f], dev_time[f]}
  BY <1>1 DEF DateOnly, TimeOnly
<1>3. DateOnly(dev_time) \in Times /\ TimeOnly(dev_time) \in Times
  <2>1. \A f \in Fields : DateOnly(dev_time)[f] <= Max(f) /\ TimeOnly(dev_time)[f] <= Max(f)
    BY <1>1, <1>2, Zenon
  <2> QED
    BY <1>2, <2>1, TimesOfFields
<1>4. \A f \in {"year", "month", "day"} : DateOnly(dev_time)[f] = dev_time[f]
  BY DEF DateOnly, Fields
<1>5. ASSUME \A f \in {"year", "month", "day"} : rtc[f] = dev_time[f]
      PROVE  TimeOnly(dev_time) = dev_time
  <2>1. \A f \in Fields : f \in {"hour", "min", "sec"} \/ f \in {"year", "month", "day"}
    BY DEF Fields
  <2>2. \A f \in Fields : TimeOnly(dev_time)[f] = dev_time[f]
    BY <1>5, <2>1, Zenon DEF TimeOnly
  <2> QED
    BY <1>1, <1>2, <2>2
<1> QED
  BY <1>3, <1>4, <1>5

LEMMA SetDateKeeps ==
  ASSUME ClockInv, SetDate
  PROVE  ClockInv'
<1> USE DEF ClockInv
<1>1. PICK j \in Jobs : j = job["lcd"]
  BY DEF JobTypes, Tasks
<1>2. PICK k : k = [j EXCEPT !.step = "time"]
  OBVIOUS
<1>3. /\ j.step = "date" /\ rtc' = DateOnly(dev_time)
      /\ job' = [job EXCEPT !["lcd"] = k]
      /\ UNCHANGED <<dev_time, menu, params, cur, pos, tens, reads, hit, midnight>>
  BY <1>1, <1>2 DEF SetDate, editor
<1>4. k \in Jobs /\ k.step = "time" /\ k.op = j.op /\ k.num = j.num /\ k.regs = j.regs
  BY <1>2, SMT DEF Jobs, Steps
<1>5. /\ job' \in [Tasks -> Jobs] /\ job'["lcd"] = k /\ job'["net"] = job["net"]
      /\ Tasks = {"lcd", "net"} /\ Other("net") = "lcd" /\ Other("lcd") = "net"
  BY <1>3, <1>4 DEF JobTypes, Tasks, Other
<1>6. JobTypes'
  BY <1>3, <1>5 DEF JobTypes
<1>7. rtc' \in Times /\ \A f \in {"year", "month", "day"} : rtc'[f] = dev_time[f]
  BY <1>3, HalvesAreTimes DEF ClockTypes
<1>8. ClockTypes'
  BY <1>3, <1>7 DEF ClockTypes
<1>9. Origin'
  <2>1. OriginOf("lcd")'
    BY <1>4, <1>5, OriginIdle DEF Reading
  <2>2. OriginOf("net")'
    BY <1>3, <1>4, <1>5, OriginQuiet DEF Origin
  <2> QED
    BY <1>5, <2>1, <2>2 DEF Origin
<1>10. Entered'
  BY <1>1, <1>3, <1>4, <1>5, EnteredQuiet
<1>11. Undisturbed' /\ SettingOp'
  <2>1. TimeToSet' = TimeToSet
    BY <1>1, <1>3, <1>4, <1>5 DEF TimeToSet, Edited
  <2>2. j.op = "digit" /\ (~hit => dev_time = TimeToSet)
    BY <1>1, <1>3, SMT DEF SettingOp, Setting, Undisturbed
  <2> QED
    BY <1>3, <1>4, <1>5, <1>7, <2>1, <2>2, SMT DEF Undisturbed, SettingOp, Setting
<1> QED
  BY <1>6, <1>8, <1>9, <1>10, <1>11

LEMMA SetTimeKeeps ==
  ASSUME ClockInv, SetTime
  PROVE  ClockInv'
<1> USE DEF ClockInv
<1>1. PICK j \in Jobs : j = job["lcd"]
  BY DEF JobTypes, Tasks
<1>2. /\ j.step = "time" /\ rtc' = TimeOnly(dev_time) /\ pos_to_right
      /\ tens' = IF pos = 1 THEN j.num ELSE -1
      /\ job' = [job EXCEPT !["lcd"] = Idle]
      /\ reads' = [reads EXCEPT !["lcd"] = {}]
      /\ UNCHANGED <<dev_time, params>>
  BY <1>1 DEF SetTime
<1>3. JobTypes' /\ Origin' /\ Undisturbed' /\ SettingOp'
  BY <1>2, IdleJob, LcdIdles
<1>4. cur' \in DOMAIN Links /\ pos' \in {1, 2}
  BY <1>2, LinkFields DEF pos_to_right, ClockTypes
<1>5. ClockTypes'
  BY <1>2, <1>4, HalvesAreTimes DEF ClockTypes
<1>6. Entered'
  <2>1. job'["lcd"] = Idle
    BY <1>2 DEF JobTypes, Tasks
  <2>2. CASE pos = 1
    <3>1. pos' = 2 /\ cur' = cur /\ tens' = j.num /\ j.num \in Digit
      BY <1>2, <2>2 DEF pos_to_right, Jobs
    <3>2. \E old \in 0 .. 99 : params[Edited] = TypedOn(old, 2, j.num)
      <4>1. \E old \in 0 .. 99 : params[Edited] = TypedOn(old, pos + 1, j.num)
        BY <1>1, <1>2, Zenon DEF Entered
      <4>2. pos + 1 = 2
        BY <2>2
      <4> QED
        BY <4>1, <4>2
    <3>3. Edited' = Edited
      BY <3>1 DEF Edited
    <3>4. \A v, p, n : TypedOn(v, p, n)' = TypedOn(v, p, n)
      BY <3>3 DEF TypedOn
    <3> QED
      BY <1>2, <2>1, <3>1, <3>2, <3>3, <3>4, IdleJob DEF Entered
  <2>3. CASE pos # 1
    BY <1>2, <2>1, <2>3, IdleJob DEF Entered
  <2> QED
    BY <2>2, <2>3
<1> QED
  BY <1>3, <1>5, <1>6

LEMMA ClockInvKept == ClockInv /\ [Next]_vars => ClockInv'
<1> SUFFICES ASSUME ClockInv, [Next]_vars
             PROVE  ClockInv'
  OBVIOUS
<1>1. CASE Tick
  BY <1>1, TickKeeps
<1>2. ASSUME NEW t \in Tasks, BeginStamp(t)
      PROVE  ClockInv'
  <2>1. /\ job[t].step = "idle" /\ Get(t, "stamp", 0)
        /\ UNCHANGED <<rtc, dev_time, params, cur, pos, tens, hit, midnight>>
        /\ "stamp" \in Ops /\ 0 \in Digit
    BY <1>2 DEF BeginStamp, editor, Ops, Digit
  <2> QED
    BY <2>1, GetKeeps
<1>3. CASE OpenMenu
  <2>1. /\ job["lcd"].step = "idle" /\ Get("lcd", "open", 0)
        /\ UNCHANGED <<rtc, dev_time, params, cur, pos, tens, hit, midnight>>
        /\ "lcd" \in Tasks /\ "open" \in Ops /\ 0 \in Digit
    BY <1>3 DEF OpenMenu, editor, Ops, Digit, Tasks
  <2> QED
    BY <2>1, GetKeeps
<1>4. CASE BeginDraw
  <2>1. /\ job["lcd"].step = "idle" /\ Get("lcd", "draw", 0)
        /\ UNCHANGED <<rtc, dev_time, params, cur, pos, tens, hit, midnight>>
        /\ "lcd" \in Tasks /\ "draw" \in Ops /\ 0 \in Digit
    BY <1>4 DEF BeginDraw, editor, Ops, Digit, Tasks
  <2> QED
    BY <2>1, GetKeeps
<1>5. ASSUME NEW num \in Nums, TypeDigit(num)
      PROVE  ClockInv'
  <2>1. /\ job["lcd"].step = "key" /\ Get("lcd", "digit", num)
        /\ UNCHANGED <<rtc, dev_time, params, cur, pos, tens, hit, midnight>>
        /\ "lcd" \in Tasks /\ "digit" \in Ops /\ num \in Digit
    BY <1>5, ClockAssumption DEF TypeDigit, Ops, Tasks
  <2> QED
    BY <2>1, GetKeeps
<1>6. ASSUME NEW t \in Tasks, Store(t) \/ Take(t) \/ Done(t)
      PROVE  ClockInv'
  BY <1>6, StoreKeeps, TakeKeeps, DoneKeeps
<1>7. CASE Show \/ NoKey \/ Right \/ Leave
  BY <1>7, ShowKeeps, KeyKeeps
<1>8. CASE Enter \/ SetDate \/ SetTime
  BY <1>8, EnterKeeps, SetDateKeeps, SetTimeKeeps
<1>9. CASE UNCHANGED vars
  <2>1. UNCHANGED <<rtc, dev_time, job, menu, params, cur, pos, tens, reads, hit, midnight>>
    BY <1>9 DEF vars, editor
  <2>2. JobTypes' /\ ClockTypes' /\ SettingOp'
    BY <2>1 DEF ClockInv, JobTypes, ClockTypes, SettingOp
  <2>3. Origin'
    BY <2>1 DEF ClockInv, Origin, OriginOf, Came, Reading
  <2>4. Entered' /\ Undisturbed'
    BY <2>1, EnteredQuiet, UndisturbedQuiet DEF ClockInv
  <2> QED
    BY <2>2, <2>3, <2>4 DEF ClockInv
<1> QED
  BY <1>1, <1>2, <1>3, <1>4, <1>5, <1>6, <1>7, <1>8, <1>9 DEF Next, Lcd

LEMMA ClockInvAlways == Spec => []ClockInv
  BY ClockInvInit, ClockInvKept, PTL DEF Spec

-----------------------------------------------------------------------------
\* A mixture of times that do not differ in more than one field is one of them.
LEMMA MixtureIsOne ==
  ASSUME NEW R \in SUBSET Times, NEW s \in Times, ~Mixable(R),
         \A f \in Fields : \E a \in R : a[f] = s[f]
  PROVE  s \in R
<1>1. IsFiniteSet(Fields)
  <2>1. \A S, x : IsFiniteSet(S) => IsFiniteSet(S \cup {x})
    BY FS_AddElement
  <2>2. Fields = (((({"year"} \cup {"month"}) \cup {"day"}) \cup {"hour"}) \cup {"min"}) \cup {"sec"}
    BY DEF Fields
  <2>3. IsFiniteSet({"year"})
    BY FS_Singleton
  <2> QED
    BY <2>1, <2>2, <2>3, Zenon
<1>2. ASSUME NEW a \in R, NEW b \in R, NEW f \in Fields, NEW g \in Fields,
             a[f] # b[f], a[g] # b[g]
      PROVE  f = g
  <2> DEFINE D == {h \in Fields : a[h] # b[h]}
  <2>0. D \in SUBSET Fields /\ ~(Cardinality(D) > 1)
    BY DEF Mixable
  <2> HIDE DEF D
  <2>1. IsFiniteSet(D)
    BY <1>1, <2>0, FS_Subset
  <2>4. Cardinality(D) <= 1 /\ Cardinality(D) \in Nat
    BY <2>0, <2>1, FS_CardinalityType
  <2>2. {f} \in SUBSET D /\ Cardinality({f}) = 1
    BY <1>2, FS_Singleton DEF D
  <2>3. D = {f}
    <3>1. Cardinality({f}) <= Cardinality(D) /\ (Cardinality(D) = Cardinality({f}) => D = {f})
      BY <2>1, <2>2, FS_Subset
    <3> QED
      BY <2>2, <2>4, <3>1
  <2> QED
    BY <1>2, <2>3 DEF D
<1>3. PICK a \in R : a["year"] = s["year"]
  BY DEF Fields
<1>4. s \in [Fields -> 0 .. 99] /\ \A r \in R : r \in [Fields -> 0 .. 99]
  BY TimesOfFields
<1>5. CASE a = s
  BY <1>5
<1>6. CASE a # s
  <2>1. PICK g \in Fields : a[g] # s[g]
    BY <1>4, <1>6
  <2>2. PICK b \in R : b[g] = s[g]
    OBVIOUS
  <2>3. ASSUME NEW h \in Fields, b[h] # s[h]
        PROVE  FALSE
    <3>1. PICK c \in R : c[h] = s[h]
      OBVIOUS
    <3>2. h # g /\ a[g] # b[g]
      BY <2>1, <2>2, <2>3
    <3>3. a[h] = b[h]
      BY <1>2, <3>2
    <3>4. a[h] # c[h] /\ b[h] # c[h]
      BY <2>3, <3>1, <3>3
    <3>5. a[g] = c[g] /\ b[g] = c[g]
      BY <1>2, <3>2, <3>4
    <3> QED
      BY <3>2, <3>5
  <2>4. b = s
    BY <1>4, <2>3
  <2> QED
    BY <2>4
<1> QED
  BY <1>5, <1>6

\* Whoever preempts whom, and whenever the seconds pass: a stamp is a time that the clock
\* showed while the record was made, unless the times that came into dev_time meanwhile
\* can be mixed, and it is shown as it was taken (cur_time.c, message_archive.c).
THEOREM StampsAreTimes == Spec => []StampIsTime
<1>1. ClockInv => StampIsTime
  <2> SUFFICES ASSUME ClockInv, NEW t \in Tasks, job[t].step = "done"
               PROVE  /\ job[t].taken \in reads[t] \/ Mixable(reads[t])
                      /\ Real(job[t].taken) =>
                           get_archive_message_time(time_to_uint32(job[t].taken)) = job[t].taken
    BY DEF StampIsTime
  <2>1. PICK s \in Times : s = job[t].taken
    BY DEF ClockInv, JobTypes, Jobs
  <2>2. \A f \in Fields : \E a \in reads[t] : a[f] = s[f]
    BY <2>1 DEF ClockInv, Origin, OriginOf, Came
  <2>3. reads[t] \in SUBSET Times
    BY DEF ClockInv, JobTypes
  <2>4. s \in reads[t] \/ Mixable(reads[t])
    BY <2>2, <2>3, MixtureIsOne
  <2>5. ASSUME Real(s)
        PROVE  get_archive_message_time(time_to_uint32(s)) = s
    <3>1. /\ s = [year |-> s.year, month |-> s.month, day |-> s.day,
                  hour |-> s.hour, min |-> s.min, sec |-> s.sec]
          /\ s.year \in 0 .. 99 /\ s.month \in 0 .. 12
          /\ s.hour \in 0 .. 23 /\ s.min \in 0 .. 59 /\ s.sec \in 0 .. 59
      BY TimeIsMoment DEF Moment
    <3>2. IsDate(s.year, s.month, s.day)
      BY <2>5, <3>1 DEF IsDate, Real
    <3> QED
      BY <3>1, <3>2, TimeIsFound
  <2> QED
    BY <2>1, <2>4, <2>5
<1> QED
  BY <1>1, ClockInvAlways, PTL

\* Only SetTime ends what SetTime begins.
LEMMA TimeIsSet ==
  ASSUME ClockInv, [Next]_vars, job["lcd"].step = "time", job'["lcd"].step = "idle"
  PROVE  SetTime
<1>1. job \in [Tasks -> Jobs] /\ "lcd" \in Tasks
  BY DEF ClockInv, JobTypes, Tasks
<1>2. ~Tick /\ ~UNCHANGED vars
  BY DEF Tick, vars
<1>3. ASSUME NEW t \in Tasks
      PROVE  ~(BeginStamp(t) \/ Store(t) \/ Take(t) \/ Done(t))
  <2>1. CASE t = "lcd"
    BY <2>1 DEF BeginStamp, Store, Take, Done
  <2>2. CASE t # "lcd"
    <3>1. \A k : job' = [job EXCEPT ![t] = k] => job'["lcd"] = job["lcd"]
      BY <1>1, <2>2
    <3> QED
      BY <3>1, Zenon DEF BeginStamp, Store, Take, Done, Get
  <2> QED
    BY <2>1, <2>2
<1>4. /\ ~OpenMenu /\ ~BeginDraw /\ ~Show /\ ~NoKey /\ ~Right /\ ~Leave /\ ~Enter /\ ~SetDate
      /\ \A num \in Nums : ~TypeDigit(num)
  BY DEF OpenMenu, BeginDraw, Show, NoKey, Right, Leave, Enter, SetDate, TypeDigit
<1> QED
  BY <1>2, <1>3, <1>4 DEF Next, Lcd

\* A digit sets one value of the time that was read and nothing else, and two digits set it
\* to their number, unless the other task or midnight comes between (set_time_menu.c).
THEOREM DigitsSetTheClock == Spec => SetIsTyped
<1> DEFINE Step == job["lcd"].step = "time" /\ job'["lcd"].step = "idle" =>
       LET f == Links[cur]
       IN  /\ (tens # -1 /\ pos = 2 /\ Number \in Min(f) .. Max(f)) => params[f] = Number
           /\ rtc' = [job["lcd"].regs EXCEPT ![f] = params[f]] \/ hit \/ midnight
<1>1. ClockInv /\ [Next]_vars => Step
  <2> SUFFICES ASSUME ClockInv, [Next]_vars, job["lcd"].step = "time", job'["lcd"].step = "idle"
               PROVE  /\ (tens # -1 /\ pos = 2 /\ Number \in Min(Edited) .. Max(Edited)) =>
                           params[Edited] = Number
                      /\ rtc' = TimeToSet \/ hit \/ midnight
    BY DEF Edited, TimeToSet
  <2>1. rtc' = TimeOnly(dev_time)
    BY TimeIsSet DEF SetTime
  <2>2. ASSUME tens # -1, pos = 2, Number \in Min(Edited) .. Max(Edited)
        PROVE  params[Edited] = Number
    <3>1. tens \in Digit
      BY <2>2 DEF ClockInv, Entered
    <3>2. PICK older \in 0 .. 99 :
            params[Edited] = TypedOn(TypedOn(older, 2, tens), pos + 1, job["lcd"].num)
      BY <2>2, Zenon DEF ClockInv, Entered
    <3>3. params[Edited] = TwoEntered(older, tens, job["lcd"].num, Min(Edited), Max(Edited))
      <4>1. pos + 1 = 3
        BY <2>2
      <4> QED
        BY <3>2, <4>1 DEF TwoEntered, TypedOn
    <3>4. job["lcd"].num \in Digit
      BY DEF ClockInv, JobTypes, Jobs, Tasks
    <3>5. PICK min \in Nat, max \in Nat : min = Min(Edited) /\ max = Max(Edited)
      <4>1. Edited \in Fields
        BY LinkFields DEF ClockInv, ClockTypes, Edited
      <4>2. Min(Edited) \in 0 .. 1 /\ Max(Edited) \in 0 .. 99
        BY <4>1, FieldLimits, Zenon
      <4> QED
        BY <4>2
    <3>6. PICK num \in Digit : num = job["lcd"].num
      BY <3>4
    <3>7. 10 * tens + num \in min .. max
      BY <2>2, <3>5, <3>6 DEF Number
    <3>8. TwoEntered(older, tens, num, min, max) = 10 * tens + num
      BY <3>1, <3>7, TwoDigitsSet
    <3> QED
      BY <3>3, <3>5, <3>6, <3>8 DEF Number
  <2>3. ASSUME ~hit, ~midnight
        PROVE  rtc' = TimeToSet
    <3>1. job["lcd"].op = "digit"
      BY DEF ClockInv, SettingOp, Setting
    <3>2. dev_time = TimeToSet /\ \A f \in {"year", "month", "day"} : rtc[f] = dev_time[f]
      BY <2>3, <3>1, Zenon DEF ClockInv, Undisturbed
    <3> QED
      BY <2>1, <3>2, HalvesAreTimes DEF ClockInv, ClockTypes
  <2> QED
    BY <2>2, <2>3
<1>2. ClockInv /\ [Next]_vars => [Step]_vars
  BY <1>1
<1> QED
  BY <1>2, ClockInvAlways, PTL DEF Spec, SetIsTyped

=============================================================================
