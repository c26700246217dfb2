-------------------------------- MODULE Clock --------------------------------
(***************************************************************************)
(* The clock (cur_time.c, set_time_menu.c).  One variable, dev_time, holds *)
(* the time read for whoever asks: the LCD task stamps records, shows the  *)
(* clock and sets it digit by digit; the network task stamps the record of *)
(* a lost link and keeps cur_long_time.  Each reads the clock's registers  *)
(* into dev_time, field by field, and then takes the fields out again.     *)
(* Either task may preempt the other between two fields, and a second may  *)
(* pass.  The arguments of one call are taken in one step.                 *)
(***************************************************************************)
EXTENDS Calendar, Digits, Sequences, FiniteSets, Functions

CONSTANTS
  Starts,      \* the time when the device boots
  Links,       \* the fields that the menu edits: HOUR_LINK, MIN_LINK, SEC_LINK, DATE_LINK,
               \* MONTH_LINK, YEAR_LINK
  \* bounds
  Nums,        \* the digits
  MaxTicks, MaxUses     \* stamps and digits together

Tasks == {"lcd", "net"}

VARIABLES
  rtc,              \* the clock's registers
  dev_time,
  job,              \* what each task is doing
  menu,             \* the clock's menu: closed, open or left; one visit
  params, cur, pos, \* its values, the one edited and the place in it
  \* history
  reads,            \* times that came into dev_time while a task used it
  hit, midnight,    \* while a digit is set: has the other task read the clock? did the
                    \* day change between the date and the time?
  tens,             \* the tens just typed, or -1
  ticks, uses

editor == <<menu, params, cur, pos, tens>>
bounded == <<ticks, uses>>
vars == <<rtc, dev_time, job, editor, reads, hit, midnight, bounded>>

Min(f) == IF f \in {"day", "month"} THEN 1 ELSE 0
Max(f) == CASE f = "hour" -> 23 [] f = "day" -> 31 [] f = "month" -> 12 [] f = "year" -> 99
            [] OTHER -> 59

Times == {t \in [Fields -> 0 .. 99] : \A f \in Fields : t[f] <= Max(f)}

ASSUME ClockAssumption ==
  /\ Starts \subseteq Times /\ Nums \subseteq Digit
  /\ Links \in Seq(Fields) /\ Links # <<>>

Read == <<"hour", "min", "sec", "year", "month", "day">>        \* ertc_calendar_get
Stamp == <<"month", "year", "day", "hour", "min", "sec">>       \* time_to_uint32

DateOnly(t) == [f \in Fields |-> IF f \in {"year", "month", "day"} THEN t[f] ELSE rtc[f]]
TimeOnly(t) == [f \in Fields |-> IF f \in {"hour", "min", "sec"} THEN t[f] ELSE rtc[f]]

Zero == [f \in Fields |-> 0]
Idle == [op |-> "none", step |-> "idle", n |-> 1, regs |-> Zero, taken |-> Zero, num |-> 0]

Init ==
  /\ rtc \in Starts
  /\ dev_time = Zero
  /\ job = [t \in Tasks |-> Idle]
  /\ menu = "closed" /\ params = [f \in Range(Links) |-> 0] /\ cur = 1 /\ pos = 1
  /\ reads = [t \in Tasks |-> {}]
  /\ hit = FALSE /\ midnight = FALSE /\ tens = -1
  /\ ticks = 0 /\ uses = 0

-----------------------------------------------------------------------------
(* The clock itself. *)

NextDay(t) ==
  IF t.day < MonthLength(t.year, t.month) THEN [t EXCEPT !.day = @ + 1]
  ELSE IF t.month < 12 THEN [t EXCEPT !.day = 1, !.month = @ + 1]
  ELSE [t EXCEPT !.day = 1, !.month = 1, !.year = (@ + 1) % 100]

NextSecond(t) ==
  IF t.sec < 59 THEN [t EXCEPT !.sec = @ + 1]
  ELSE IF t.min < 59 THEN [t EXCEPT !.sec = 0, !.min = @ + 1]
  ELSE IF t.hour < 23 THEN [t EXCEPT !.sec = 0, !.min = 0, !.hour = @ + 1]
  ELSE NextDay([t EXCEPT !.sec = 0, !.min = 0, !.hour = 0])

Tick ==
  /\ ticks < MaxTicks
  /\ ticks' = ticks + 1
  /\ rtc' = NextSecond(rtc)
  /\ midnight' = (midnight \/ (job["lcd"].step = "time" /\ rtc'.day # rtc.day))
  /\ UNCHANGED <<dev_time, job, editor, reads, hit, uses>>

-----------------------------------------------------------------------------
(* ertc_calendar_get, and what is done with the time. *)

Other(t) == IF t = "lcd" THEN "net" ELSE "lcd"
Busy(t) == job[t].step \notin {"idle", "key"}

\* Faulty variant of Get: a digit is put into the time as it was last read.
GetLess(t, op, num) ==
  /\ job' = [job EXCEPT ![t] = [Idle EXCEPT !.op = op, !.step = IF op = "digit" THEN "enter" ELSE "store",
                                  !.regs = rtc, !.num = num]]
  /\ reads' = [reads EXCEPT ![t] = {rtc}]

\* The registers, read at once: the clock holds the date from the reading of the time.
Get(t, op, num) ==
  LET o == Other(t)
  IN  /\ job' = [job EXCEPT ![t] = [Idle EXCEPT !.op = op, !.step = "store", !.regs = rtc, !.num = num]]
      /\ reads' = [reads EXCEPT
                     ![t] = {rtc} \cup (IF job[o].step = "store" THEN {job[o].regs} ELSE {}),
                     ![o] = IF Busy(o) THEN @ \cup {rtc} ELSE @]

\* time_to_uint32: scan_messages, create_new_page_ptr and the record at boot in the LCD
\* task, cur_long_time and the record of a lost link in the other.
BeginStamp(t) ==
  /\ job[t].step = "idle"
  /\ uses < MaxUses
  /\ uses' = uses + 1
  /\ Get(t, "stamp", 0)
  /\ UNCHANGED <<rtc, dev_time, editor, hit, midnight, ticks>>

\* init_time_menu
OpenMenu ==
  /\ menu = "closed" /\ job["lcd"].step = "idle"
  /\ Get("lcd", "open", 0)
  /\ UNCHANGED <<rtc, dev_time, editor, hit, midnight, bounded>>

\* update_time_menu, and the same in the state menu, which shows the time only.
BeginDraw ==
  /\ job["lcd"].step = "idle"
  /\ Get("lcd", "draw", 0)
  /\ UNCHANGED <<rtc, dev_time, editor, hit, midnight, bounded>>

Store(t) ==
  LET j == job[t]
      f == Read[j.n]
  IN  /\ j.step = "store"
      /\ dev_time' = [dev_time EXCEPT ![f] = j.regs[f]]
      /\ job' = [job EXCEPT ![t] =
                   IF j.n < 6 THEN [j EXCEPT !.n = @ + 1]
                   ELSE IF j.op = "digit" THEN [j EXCEPT !.n = 1, !.step = "enter"]
                   ELSE [j EXCEPT !.n = 1, !.step = "take", !.regs = Zero]]
      /\ hit' = (hit \/ (t = "net" /\ job["lcd"].op = "digit"))
      /\ UNCHANGED <<rtc, editor, reads, midnight, bounded>>

\* time_to_uint32 takes the fields for its count.
Take(t) ==
  LET j == job[t]
      f == Stamp[j.n]
      taken == [j.taken EXCEPT ![f] = dev_time[f]]
  IN  /\ j.step = "take" /\ j.op = "stamp"
      /\ job' = [job EXCEPT ![t] =
                   IF j.n < 6 THEN [j EXCEPT !.n = @ + 1, !.taken = taken]
                   ELSE [j EXCEPT !.n = 1, !.step = "done", !.taken = taken]]
      /\ UNCHANGED <<rtc, dev_time, editor, reads, hit, midnight, bounded>>

Done(t) ==
  /\ job[t].step = "done"
  /\ job' = [job EXCEPT ![t] = Idle]
  /\ reads' = [reads EXCEPT ![t] = {}]
  /\ UNCHANGED <<rtc, dev_time, editor, hit, midnight, bounded>>

-----------------------------------------------------------------------------
(* The menu. *)

\* A value that is not being edited follows the clock; all do when the menu is opened.
\* The values are taken in one step.
Show ==
  LET j == job["lcd"]
      follows == IF j.op = "open" THEN Range(Links)
                 ELSE IF menu = "open" THEN Range(Links) \ {Links[cur]} ELSE {}
  IN  /\ j.step = "take" /\ j.op \in {"open", "draw"}
      /\ params' = [f \in Range(Links) |-> IF f \in follows THEN dev_time[f] ELSE params[f]]
      /\ IF j.op = "open" THEN menu' = "open" /\ cur' = 1 /\ pos' = 1 /\ tens' = -1
                          ELSE UNCHANGED <<menu, cur, pos, tens>>
      /\ job' = [job EXCEPT !["lcd"] =
                   [Idle EXCEPT !.step = IF j.op = "draw" /\ menu = "open" THEN "key" ELSE "idle"]]
      /\ reads' = [reads EXCEPT !["lcd"] = {}]
      /\ UNCHANGED <<rtc, dev_time, hit, midnight, bounded>>

\* Every value has two places.
pos_to_right ==
  IF pos < 2 THEN pos' = pos + 1 /\ cur' = cur
  ELSE pos' = 1 /\ cur' = IF cur = Len(Links) THEN 1 ELSE cur + 1

\* The key of a frame whose menu was drawn.
NoKey ==
  /\ job["lcd"].step = "key"
  /\ job' = [job EXCEPT !["lcd"] = Idle]
  /\ UNCHANGED <<rtc, dev_time, editor, reads, hit, midnight, bounded>>

Right ==
  /\ job["lcd"].step = "key"
  /\ job' = [job EXCEPT !["lcd"] = Idle]
  /\ pos_to_right
  /\ tens' = -1
  /\ UNCHANGED <<rtc, dev_time, menu, params, reads, hit, midnight, bounded>>

\* LEFT or ENTER.
Leave ==
  /\ job["lcd"].step = "key"
  /\ job' = [job EXCEPT !["lcd"] = Idle]
  /\ menu' = "left"
  /\ UNCHANGED <<rtc, dev_time, params, cur, pos, tens, reads, hit, midnight, bounded>>

\* update_date_time_value.  A digit is taken once a press: set_time_menu compares it
\* with prev_key, but display_task hands a held key to the menu in one frame only.
TypeDigit(num) ==
  /\ job["lcd"].step = "key" /\ uses < MaxUses
  /\ Get("lcd", "digit", num)
  /\ uses' = uses + 1
  /\ UNCHANGED <<rtc, dev_time, menu, params, cur, pos, tens, hit, midnight, ticks>>

Enter ==
  LET j == job["lcd"]
      f == Links[cur]
      value == Typed(params[f], pos + 1, j.num, Min(f), Max(f))
  IN  /\ j.step = "enter"
      /\ dev_time' = [dev_time EXCEPT ![f] = value]
      /\ params' = [params EXCEPT ![f] = value]
      /\ job' = [job EXCEPT !["lcd"].step = "date"]
      /\ reads' = IF Busy("net") THEN [reads EXCEPT !["net"] = @ \cup {[j.regs EXCEPT ![f] = value]}]
                                 ELSE reads
      /\ UNCHANGED <<rtc, menu, cur, pos, tens, hit, midnight, bounded>>

SetDate ==
  /\ job["lcd"].step = "date"
  /\ rtc' = DateOnly(dev_time)
  /\ job' = [job EXCEPT !["lcd"].step = "time"]
  /\ UNCHANGED <<dev_time, editor, reads, hit, midnight, bounded>>

SetTime ==
  LET j == job["lcd"]
  IN  /\ j.step = "time"
      /\ rtc' = TimeOnly(dev_time)
      /\ pos_to_right
      /\ tens' = IF pos = 1 THEN j.num ELSE -1
      /\ job' = [job EXCEPT !["lcd"] = Idle]
      /\ reads' = [reads EXCEPT !["lcd"] = {}]
      /\ hit' = FALSE /\ midnight' = FALSE
      /\ UNCHANGED <<dev_time, menu, params, bounded>>

Lcd ==
  \/ OpenMenu \/ BeginDraw \/ Show
  \/ NoKey \/ Right \/ Leave \/ (\E num \in Nums : TypeDigit(num))
  \/ Enter \/ SetDate \/ SetTime

Next == Tick \/ Lcd \/ \E t \in Tasks : BeginStamp(t) \/ Store(t) \/ Take(t) \/ Done(t)

Spec == Init /\ [][Next]_vars

-----------------------------------------------------------------------------
(* Properties. *)

\* A record is stamped with one moment, and its list shows that moment, though two tasks
\* share dev_time (cur_time.c 54-76, main.c 298 and 324): the stamp is a mixture of
\* moments only if two of those that came into dev_time meanwhile differ in more than one
\* field, that is if a minute ended between the two readings or a digit was being set.
\* A date that exists, of 2001 or later, comes back as it went in.
Mixable(times) == \E a, b \in times : Cardinality({f \in Fields : a[f] # b[f]}) > 1
Real(t) == t.year > 0 /\ t.month > 0 /\ t.day \in 1 .. MonthLength(t.year, t.month)

StampIsTime ==
  \A t \in Tasks : job[t].step = "done" =>
    /\ job[t].taken \in reads[t] \/ Mixable(reads[t])
    /\ Real(job[t].taken) => get_archive_message_time(time_to_uint32(job[t].taken)) = job[t].taken

\* Setting one digit sets the clock to the time read with one value changed, and two
\* digits set that value to their number if it is within its limits (set_time_menu.c
\* 133-177), unless the network task reads the clock meanwhile, or the day changes
\* between the date's being set and the time's.
Number == 10 * tens + job["lcd"].num

SetIsTyped ==
  [][job["lcd"].step = "time" /\ job'["lcd"].step = "idle" =>
       LET f == Links[cur]
       IN  /\ (tens # -1 /\ pos = 2 /\ Number \in Min(f) .. Max(f)) => params[f] = Number
           /\ rtc' = [job["lcd"].regs EXCEPT ![f] = params[f]] \/ hit \/ midnight]_vars
=============================================================================
