------------------------------- MODULE Menus -------------------------------
(***************************************************************************)
(* The menus of the LCD task (menu.c, menu) and the password that guards   *)
(* the configuration.  display_menu calls the handler of current_menu with *)
(* the key that was pressed; the handler draws and may change              *)
(* current_menu.  The thread of the UDP server runs above the LCD task and *)
(* may set current_menu while a handler runs.                              *)
(*                                                                         *)
(* Each handler is a set of links: in this menu, one of these keys leads   *)
(* to that menu.  All menus of the list are here, those that no other menu *)
(* leads to included.  What a menu does besides (write a variable, set the *)
(* clock, ...) is the name of an operation.                                *)
(***************************************************************************)
EXTENDS Naturals, Sequences

CONSTANTS
  Length,            \* digits of a password (6)
  Digits,            \* the digit keys an operator types passwords with
  DefaultPassword, UserPassword, SecretPassword

Passwords == [1 .. Length -> Digits]

ASSUME MenuAssumption ==
  /\ Length \in Nat \ {0}
  /\ Digits \subseteq {"0", "1", "2", "3", "4", "5", "6", "7", "8", "9"}
  /\ {DefaultPassword, UserPassword, SecretPassword} \subseteq Passwords

VARIABLES
  current_menu,
  shown, key,          \* the handler that runs and its key; "NONE" between two
  cmd,                 \* what the password is asked for
  tmp_passwd, new_passwd, passwd,
  bpr,                 \* the battery registers: a mark, and the password
  \* history
  entries,             \* the last two passwords typed since one was asked for
  unlocked,            \* right password typed since an open menu was on show?
  done                 \* operation of the last step

password == <<cmd, tmp_passwd, new_passwd, passwd, bpr, entries>>
vars == <<current_menu, shown, key, password, unlocked, done>>

DigitKeys == {"0", "1", "2", "3", "4", "5", "6", "7", "8", "9"}
Keys == DigitKeys \cup {"LEFT", "RIGHT", "UP", "DOWN", "ENTER", "EXIT"}

ConfigMenus == {"CONFIG", "SYS_CFG", "EDIT_VAR", "SET_TIME", "IP_CONFIG", "IP_SET",
                "TREND_CONF", "TREND_INFO", "ADD_TREND", "EDIT_TREND", "DELETE_TREND"}
OpenMenus == {"STATE", "MAIN", "APPL_INFO", "CLUST_INFO", "ALARM_LIST", "CLR_ALARMS",
              "DIAGNOSTIC", "DIAGNOSTIC2", "PC21_STATE", "CROSS_REF", "GLOB_INT",
              "GLOB_BITS", "PROG", "DRAW_TREND", "HELP", "PC21", "MNEMO", "MANAGE",
              "DIAGN", "DI", "DO", "AI", "CLUST_BITS", "NET_BITS", "CLUST_REGS",
              "NET_REGS", "EDIT_U16"}
MenuList == ConfigMenus \cup OpenMenus \cup {"PASSWD"}

-----------------------------------------------------------------------------
(* The handlers.                                                           *)

\* In menu, each of keys leads to menu to.
Link(menu, keys, to) == {menu} \X keys \X {to}

state_menu == Link("STATE", {"0"}, "PROG") \cup Link("STATE", {"RIGHT", "ENTER", "EXIT"}, "MAIN")

\* Faulty variant of main_menu: 7 leads to the old list of variables.
main_menu_manage ==
  {<<"MAIN", "1", "APPL_INFO">>, <<"MAIN", "2", "CLUST_INFO">>, <<"MAIN", "3", "ALARM_LIST">>,
   <<"MAIN", "4", "DIAGNOSTIC">>, <<"MAIN", "5", "PASSWD">>, <<"MAIN", "6", "DRAW_TREND">>,
   <<"MAIN", "7", "MANAGE">>, <<"MAIN", "0", "PROG">>}
  \cup Link("MAIN", {"LEFT", "EXIT"}, "STATE")

main_menu ==
  {<<"MAIN", "1", "APPL_INFO">>, <<"MAIN", "2", "CLUST_INFO">>, <<"MAIN", "3", "ALARM_LIST">>,
   <<"MAIN", "4", "DIAGNOSTIC">>, <<"MAIN", "5", "PASSWD">>, <<"MAIN", "6", "DRAW_TREND">>,
   <<"MAIN", "7", "MNEMO">>, <<"MAIN", "0", "PROG">>}
  \cup Link("MAIN", {"LEFT", "EXIT"}, "STATE")

prog_menu == Link("PROG", {"LEFT", "ENTER", "EXIT"}, "MAIN")
appl_info_menu == Link("APPL_INFO", {"LEFT"}, "MAIN")
cluster_state_menu == Link("CLUST_INFO", {"LEFT"}, "MAIN")
alarm_info_menu == {<<"ALARM_LIST", "LEFT", "MAIN">>, <<"ALARM_LIST", "RIGHT", "CLR_ALARMS">>}
clear_alarms_menu == {<<"CLR_ALARMS", "LEFT", "MAIN">>, <<"CLR_ALARMS", "RIGHT", "PASSWD">>}
draw_trend_menu == Link("DRAW_TREND", {"LEFT", "ENTER", "EXIT"}, "MAIN")
mnemo_menu == Link("MNEMO", {"LEFT"}, "MAIN")

diagnostic_menu ==
  {<<"DIAGNOSTIC", "LEFT", "MAIN">>, <<"DIAGNOSTIC", "RIGHT", "DIAGNOSTIC2">>,
   <<"DIAGNOSTIC", "0", "PC21_STATE">>}
diagnostic_menu2 ==
  {<<"DIAGNOSTIC2", "LEFT", "DIAGNOSTIC">>, <<"DIAGNOSTIC2", "1", "CROSS_REF">>,
   <<"DIAGNOSTIC2", "2", "GLOB_INT">>, <<"DIAGNOSTIC2", "3", "GLOB_BITS">>}
pc21_state_menu == Link("PC21_STATE", {"LEFT"}, "DIAGNOSTIC")
cross_reference_menu == Link("CROSS_REF", {"LEFT"}, "DIAGNOSTIC2")
global_integers_menu == Link("GLOB_INT", {"LEFT"}, "DIAGNOSTIC2")
global_bits_menu == Link("GLOB_BITS", {"LEFT"}, "DIAGNOSTIC2")

config_menu ==
  {<<"CONFIG", "LEFT", "MAIN">>, <<"CONFIG", "1", "SYS_CFG">>, <<"CONFIG", "2", "SET_TIME">>,
   <<"CONFIG", "3", "TREND_CONF">>, <<"CONFIG", "4", "PASSWD">>, <<"CONFIG", "5", "IP_CONFIG">>}
system_config_menu ==
  {<<"SYS_CFG", "LEFT", "CONFIG">>} \cup Link("SYS_CFG", {"RIGHT", "ENTER"}, "EDIT_VAR")
edit_var_menu == Link("EDIT_VAR", {"LEFT", "ENTER"}, "SYS_CFG")
set_time_menu == Link("SET_TIME", {"LEFT", "ENTER"}, "CONFIG")
ip_config_menu == {<<"IP_CONFIG", "LEFT", "CONFIG">>} \cup Link("IP_CONFIG", {"1", "2", "3"}, "IP_SET")

\* Faulty variant of ip_set_menu: no key leads back.
ip_set_menu_stuck == {}
ip_set_menu == Link("IP_SET", {"EXIT", "ENTER"}, "IP_CONFIG")

trend_config_menu ==
  {<<"TREND_CONF", "1", "TREND_INFO">>, <<"TREND_CONF", "2", "ADD_TREND">>,
   <<"TREND_CONF", "3", "EDIT_TREND">>, <<"TREND_CONF", "4", "DELETE_TREND">>,
   <<"TREND_CONF", "LEFT", "CONFIG">>}
trend_info_menu == Link("TREND_INFO", {"LEFT", "ENTER", "EXIT"}, "TREND_CONF")
add_trend_menu == Link("ADD_TREND", {"LEFT", "EXIT", "DOWN", "ENTER"}, "TREND_CONF")
edit_trend_menu == Link("EDIT_TREND", {"LEFT", "ENTER", "EXIT"}, "TREND_CONF")
delete_trend_menu == Link("DELETE_TREND", {"LEFT", "EXIT"}, "TREND_CONF")

\* Menus no other menu leads to, except one another.
help_menu == Link("HELP", {"LEFT"}, "MAIN")
pc21_menu == Link("PC21", {"LEFT"}, "MAIN")
manage_menu == {<<"MANAGE", "LEFT", "MAIN">>, <<"MANAGE", "RIGHT", "EDIT_U16">>}
edit_u16_menu == Link("EDIT_U16", {"LEFT", "RIGHT"}, "MANAGE")
diagn_menu ==
  {<<"DIAGN", "1", "DI">>, <<"DIAGN", "2", "AI">>, <<"DIAGN", "3", "DO">>,
   <<"DIAGN", "4", "CLUST_BITS">>, <<"DIAGN", "5", "NET_BITS">>,
   <<"DIAGN", "6", "CLUST_REGS">>, <<"DIAGN", "7", "NET_REGS">>, <<"DIAGN", "LEFT", "MAIN">>}
di_menu == Link("DI", {"LEFT"}, "DIAGN")
do_menu == Link("DO", {"LEFT"}, "DIAGN")
ai_menu == Link("AI", {"LEFT"}, "DIAGN")
clust_bits_menu == Link("CLUST_BITS", {"LEFT"}, "DIAGN")
net_bits_menu == Link("NET_BITS", {"LEFT"}, "DIAGN")
clust_regs_menu == Link("CLUST_REGS", {"LEFT"}, "DIAGN")
net_regs_menu == Link("NET_REGS", {"LEFT"}, "DIAGN")

passwd_left == Link("PASSWD", {"LEFT"}, "MAIN")

Links ==
  UNION {state_menu, main_menu, prog_menu, appl_info_menu, cluster_state_menu,
         alarm_info_menu, clear_alarms_menu, draw_trend_menu, mnemo_menu,
         diagnostic_menu, diagnostic_menu2, pc21_state_menu, cross_reference_menu,
         global_integers_menu, global_bits_menu,
         config_menu, system_config_menu, edit_var_menu, set_time_menu,
         ip_config_menu, ip_set_menu, trend_config_menu, trend_info_menu,
         add_trend_menu, edit_trend_menu, delete_trend_menu,
         help_menu, pc21_menu, manage_menu, edit_u16_menu, diagn_menu, di_menu,
         do_menu, ai_menu, clust_bits_menu, net_bits_menu, clust_regs_menu,
         net_regs_menu, passwd_left}

\* What a key does in a menu besides.
Operations ==
  {<<"EDIT_VAR", "ENTER", "write">>, <<"EDIT_U16", "RIGHT", "write">>,
   <<"IP_SET", "ENTER", "ip">>, <<"IP_CONFIG", "4", "restart">>}
  \cup {"SET_TIME"} \X DigitKeys \X {"clock"}
  \cup {"EDIT_TREND"} \X {"LEFT", "ENTER"} \X {"trend"}
  \cup {"ADD_TREND"} \X {"DOWN", "ENTER"} \X {"trend"}
  \cup {<<"DELETE_TREND", "ENTER", "trend">>}

\* Handlers that may do nothing: those that remember their last key ignore it
\* the next time, and a list of variables may be empty.
MayIgnore ==
  {"STATE", "CLR_ALARMS", "DIAGNOSTIC", "DIAGNOSTIC2", "PC21_STATE", "CROSS_REF",
   "GLOB_INT", "GLOB_BITS", "DRAW_TREND", "TREND_INFO", "EDIT_TREND", "DELETE_TREND",
   "SYS_CFG", "MANAGE"}

Leads == [menu \in MenuList |-> [k \in Keys |->
            {l[3] : l \in {x \in Links : x[1] = menu /\ x[2] = k}}]]
Does == [menu \in MenuList |-> [k \in Keys |->
           {o[3] : o \in {x \in Operations : x[1] = menu /\ x[2] = k}}]]

-----------------------------------------------------------------------------
\* The mark that read_password looks for, and the one set_passwd_value leaves.
BootMark == "0x1235"
SetMark == "0x1234"

Registers == [mark : {"none", BootMark, SetMark}, passwd : Passwords]
Checked(b) == IF b.mark = BootMark THEN b
              ELSE [mark |-> BootMark, passwd |-> DefaultPassword]

\* The first start, with a new battery.
Init ==
  /\ current_menu = "STATE"
  /\ shown = "NONE" /\ key = "NONE"
  /\ cmd = "NONE" /\ tmp_passwd = <<>> /\ new_passwd = <<>>
  /\ bpr = Checked([mark |-> "none", passwd |-> DefaultPassword])
  /\ passwd = bpr.passwd
  /\ entries = <<>> /\ unlocked = FALSE /\ done = "none"

\* display_menu: the handler of the current menu starts, with a key.
Display(k) ==
  /\ shown = "NONE"
  /\ current_menu = "PASSWD" => k \in Digits \cup {"LEFT", "ENTER"}
  /\ shown' = current_menu /\ key' = k
  /\ unlocked' = (unlocked /\ current_menu \notin OpenMenus)
  /\ done' = "none"
  /\ UNCHANGED <<current_menu, password>>

Return == shown' = "NONE" /\ key' = "NONE"

\* The handler leads to another menu, with or without its operation: there may
\* be no link to write to, or no room for a trend.
Follow ==
  /\ shown \notin {"NONE", "PASSWD"}
  /\ current_menu' \in Leads[shown][key] \ {"PASSWD"}
  /\ done' \in Does[shown][key] \cup {"none"}
  /\ Return
  /\ UNCHANGED <<password, unlocked>>

\* The handler does its operation and stays.
Operate ==
  /\ shown # "NONE"
  /\ Leads[shown][key] = {}
  /\ done' \in Does[shown][key]
  /\ Return
  /\ UNCHANGED <<current_menu, password, unlocked>>

Ignore ==
  /\ shown # "NONE"
  /\ \/ shown \in MayIgnore
     \/ shown # "PASSWD" /\ Leads[shown][key] = {} /\ Does[shown][key] = {}
     \/ shown = "PASSWD" /\ key \notin DigitKeys \cup {"LEFT"}
  /\ done' = "none"
  /\ Return
  /\ UNCHANGED <<current_menu, password, unlocked>>

-----------------------------------------------------------------------------
(* The password.                                                           *)

\* What each of the menus that ask for a password asks it for.
AskedFor == [MAIN |-> "CONFIG_ACCESS", CONFIG |-> "PASSWORD_SET1", CLR_ALARMS |-> "CLR_ALARM_LIST"]

\* Faulty variant of AskPassword: what was asked for before still counts.
AskPasswordAgain ==
  /\ shown # "NONE"
  /\ "PASSWD" \in Leads[shown][key]
  /\ cmd' = IF cmd = "NONE" THEN AskedFor[shown] ELSE cmd
  /\ tmp_passwd' = <<>>
  /\ current_menu' = "PASSWD"
  /\ entries' = <<>> /\ done' = "none"
  /\ Return
  /\ UNCHANGED <<new_passwd, passwd, bpr, unlocked>>

\* set_passwd_cmd, and on to the password menu.
AskPassword ==
  /\ shown # "NONE"
  /\ "PASSWD" \in Leads[shown][key]
  /\ cmd' = AskedFor[shown]
  /\ tmp_passwd' = <<>>
  /\ current_menu' = "PASSWD"
  /\ entries' = <<>> /\ done' = "none"
  /\ Return
  /\ UNCHANGED <<new_passwd, passwd, bpr, unlocked>>

LeavePassword ==
  /\ shown = "PASSWD" /\ key = "LEFT"
  /\ cmd' = "NONE"
  /\ current_menu' = "MAIN"
  /\ done' = "none"
  /\ Return
  /\ UNCHANGED <<tmp_passwd, new_passwd, passwd, bpr, entries, unlocked>>

Typed == Append(tmp_passwd, key)

\* Faulty variant of TypeDigit: a password is complete one digit too late.
TypeDigitMore ==
  /\ shown = "PASSWD" /\ key \in Digits
  /\ Len(Typed) <= Length
  /\ tmp_passwd' = Typed
  /\ done' = "none"
  /\ Return
  /\ UNCHANGED <<current_menu, cmd, new_passwd, passwd, bpr, entries, unlocked>>

TypeDigit ==
  /\ shown = "PASSWD" /\ key \in Digits
  /\ Len(Typed) < Length
  /\ tmp_passwd' = Typed
  /\ done' = "none"
  /\ Return
  /\ UNCHANGED <<current_menu, cmd, new_passwd, passwd, bpr, entries, unlocked>>

\* The last digit.
Complete ==
  /\ shown = "PASSWD" /\ key \in Digits
  /\ Len(Typed) = Length
  /\ tmp_passwd' = <<>>
  /\ entries' = IF Len(entries) < 2 THEN Append(entries, Typed) ELSE <<entries[2], Typed>>
  /\ unlocked' = (unlocked \/ Typed \in {passwd, SecretPassword})
  /\ Return

TypeFirst ==
  /\ Complete
  /\ cmd = "PASSWORD_SET1"
  /\ new_passwd' = Typed
  /\ cmd' = "PASSWORD_SET2"
  /\ done' = "none"
  /\ UNCHANGED <<current_menu, passwd, bpr>>

\* Faulty variant of TypeSecond: only the second one is asked for again.
TypeSecondOnly ==
  /\ Complete
  /\ cmd = "PASSWORD_SET2"
  /\ IF Typed = new_passwd
     THEN /\ passwd' = Typed
          /\ bpr' = [mark |-> SetMark, passwd |-> Typed]
          /\ current_menu' = "CONFIG"
          /\ done' = "password"
          /\ UNCHANGED cmd
     ELSE /\ done' = "none"
          /\ UNCHANGED <<passwd, bpr, current_menu, cmd>>
  /\ UNCHANGED new_passwd

\* set_passwd_value, when it is the same as the first.
TypeSecond ==
  /\ Complete
  /\ cmd = "PASSWORD_SET2"
  /\ IF Typed = new_passwd
     THEN /\ passwd' = Typed
          /\ bpr' = [mark |-> SetMark, passwd |-> Typed]
          /\ current_menu' = "CONFIG"
          /\ done' = "password"
          /\ UNCHANGED cmd
     ELSE /\ cmd' = "PASSWORD_SET1"
          /\ done' = "none"
          /\ UNCHANGED <<passwd, bpr, current_menu>>
  /\ UNCHANGED new_passwd

\* Faulty variant of Right: the password of the configuration for everything.
RightForAll == {passwd, SecretPassword}

\* check_tmp_passwd
Right == {IF cmd = "CLR_ALARM_LIST" THEN UserPassword ELSE passwd, SecretPassword}

TypeRight ==
  /\ Complete
  /\ cmd \notin {"PASSWORD_SET1", "PASSWORD_SET2"} /\ Typed \in Right
  /\ current_menu' = IF cmd = "CONFIG_ACCESS" THEN "CONFIG" ELSE "MAIN"
  /\ done' = IF cmd = "CLR_ALARM_LIST" THEN "clear" ELSE "none"
  /\ cmd' = "NONE"
  /\ UNCHANGED <<new_passwd, passwd, bpr>>

TypeWrong ==
  /\ Complete
  /\ cmd \notin {"PASSWORD_SET1", "PASSWORD_SET2"} /\ Typed \notin Right
  /\ done' = "none"
  /\ UNCHANGED <<current_menu, cmd, new_passwd, passwd, bpr>>

-----------------------------------------------------------------------------
\* A mode request to the UDP server.
SetMode ==
  /\ current_menu' \in {"PROG", "STATE"}
  /\ done' = "none"
  /\ UNCHANGED <<shown, key, password, unlocked>>

\* The power fails, and read_password takes the password from the registers.
Restart ==
  /\ bpr' = Checked(bpr)
  /\ passwd' = bpr'.passwd
  /\ current_menu' = "STATE"
  /\ Return
  /\ cmd' = "NONE" /\ tmp_passwd' = <<>> /\ new_passwd' = <<>>
  /\ entries' = <<>> /\ unlocked' = FALSE /\ done' = "none"

Handler ==
  \/ Follow \/ Operate \/ Ignore
  \/ AskPassword \/ LeavePassword \/ TypeDigit
  \/ TypeFirst \/ TypeSecond \/ TypeRight \/ TypeWrong

Next == (\E k \in Keys : Display(k)) \/ Handler \/ SetMode \/ Restart

Spec == Init /\ [][Next]_vars

-----------------------------------------------------------------------------
Cmds == {"NONE", "CONFIG_ACCESS", "CLR_ALARM_LIST", "PASSWORD_SET1", "PASSWORD_SET2"}
ConfigOps == {"write", "clock", "ip", "restart", "trend", "password"}

\* Types; fewer digits than a password has are on their way.
TypeOK ==
  /\ current_menu \in MenuList
  /\ shown \in MenuList \cup {"NONE"} /\ key \in Keys \cup {"NONE"}
  /\ cmd \in Cmds
  /\ tmp_passwd \in UNION {[1 .. n -> Digits] : n \in 0 .. Length - 1}
  /\ new_passwd \in Passwords \cup {<<>>} /\ passwd \in Passwords
  /\ bpr \in Registers
  /\ entries \in UNION {[1 .. n -> Passwords] : n \in 0 .. 2}
  /\ unlocked \in BOOLEAN
  /\ done \in ConfigOps \cup {"none", "clear"}

\* Nothing is configured, and no variable written, unless the password in force
\* (or the secret one) was typed since a menu open to everybody was last drawn,
\* whatever mode requests come between a key and the menu it leads to.
OpsNeedPassword == done \in ConfigOps => unlocked

\* The archive is cleared by somebody who has just typed the user's password or
\* the secret one (clear_alarms_menu, check_tmp_passwd).
ClearNeedsPassword ==
  done = "clear" => entries # <<>> /\ entries[Len(entries)] \in {UserPassword, SecretPassword}

\* Between restarts the password changes only to one that was typed twice in a
\* row, by somebody who knew the one before (passwd_menu).
PasswordTypedTwice ==
  [][passwd' # passwd => Restart \/ (unlocked /\ entries' = <<passwd', passwd'>>)]_vars

\* From every menu that is ever on show a few presses of LEFT or EXIT lead home.
Before(menus) == {l[1] : l \in {x \in Links : x[2] \in {"LEFT", "EXIT"} /\ x[3] \in menus}}
HomeIn[n \in 0 .. 5] ==
  IF n = 0 THEN {"STATE", "MAIN"} ELSE LET near == HomeIn[n - 1] IN near \cup Before(near)
NoTrap == current_menu \in HomeIn[5]

\* A restart does not change the password: "update password"
\* (password_menu.c 156).
PasswordIsKept == [][Restart => passwd' = passwd]_vars
=============================================================================
