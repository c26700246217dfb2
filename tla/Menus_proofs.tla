---------------------------- MODULE Menus_proofs ----------------------------
(***************************************************************************)
(* The password guards what it should, for passwords of any length.  The   *)
(* links enter the proofs through four facts about them: configuration     *)
(* menus are reached from configuration menus only, and the old menus from *)
(* old menus only; three menus ask for a password, and what needs one is   *)
(* done in these two groups of menus.                                      *)
(***************************************************************************)
EXTENDS Menus, SequenceTheorems, TLAPS

\* Menus that no menu in use leads to.
OldMenus == {"HELP", "PC21", "MANAGE", "EDIT_U16", "DIAGN", "DI", "DO", "AI",
             "CLUST_BITS", "NET_BITS", "CLUST_REGS", "NET_REGS"}
Asking == {"MAIN", "CONFIG", "CLR_ALARMS"}
Setting == {"PASSWORD_SET1", "PASSWORD_SET2"}

GoodLink(l) ==
  /\ l[3] \in MenuList
  /\ l[3] \in ConfigMenus => l[1] \in ConfigMenus
  /\ l[3] \in OldMenus => l[1] \in OldMenus
  /\ l[3] = "PASSWD" => l[1] \in Asking

LEMMA OpenLinks ==
  \A l \in UNION {state_menu, main_menu, prog_menu, appl_info_menu, cluster_state_menu,
                  alarm_info_menu, clear_alarms_menu, draw_trend_menu, mnemo_menu,
                  diagnostic_menu, diagnostic_menu2, pc21_state_menu, cross_reference_menu,
                  global_integers_menu, global_bits_menu} : GoodLink(l)
<1>1. \A l \in state_menu \cup main_menu \cup prog_menu \cup appl_info_menu \cup cluster_state_menu : GoodLink(l)
  BY DEF state_menu, main_menu, prog_menu, appl_info_menu, cluster_state_menu, Link,
         GoodLink, MenuList, OpenMenus, ConfigMenus, OldMenus, Asking
<1>2. \A l \in alarm_info_menu \cup clear_alarms_menu \cup draw_trend_menu \cup mnemo_menu
               \cup diagnostic_menu : GoodLink(l)
  BY DEF alarm_info_menu, clear_alarms_menu, draw_trend_menu, mnemo_menu, diagnostic_menu, Link,
         GoodLink, MenuList, OpenMenus, ConfigMenus, OldMenus, Asking
<1>3. \A l \in diagnostic_menu2 \cup pc21_state_menu \cup cross_reference_menu
               \cup global_integers_menu \cup global_bits_menu : GoodLink(l)
  BY DEF diagnostic_menu2, pc21_state_menu, cross_reference_menu, global_integers_menu,
         global_bits_menu, Link, GoodLink, MenuList, OpenMenus, ConfigMenus, OldMenus, Asking
<1> QED
  BY <1>1, <1>2, <1>3

LEMMA ConfigLinks ==
  \A l \in UNION {config_menu, system_config_menu, edit_var_menu, set_time_menu,
                  ip_config_menu, ip_set_menu, trend_config_menu, trend_info_menu,
                  add_trend_menu, edit_trend_menu, delete_trend_menu} : GoodLink(l)
<1>1. \A l \in config_menu \cup system_config_menu \cup edit_var_menu \cup set_time_menu
               \cup ip_config_menu \cup ip_set_menu : GoodLink(l)
  BY DEF config_menu, system_config_menu, edit_var_menu, set_time_menu, ip_config_menu, ip_set_menu,
         Link, GoodLink, MenuList, OpenMenus, ConfigMenus, OldMenus, Asking
<1>2. \A l \in trend_config_menu \cup trend_info_menu \cup add_trend_menu \cup edit_trend_menu
               \cup delete_trend_menu : GoodLink(l)
  BY DEF trend_config_menu, trend_info_menu, add_trend_menu, edit_trend_menu, delete_trend_menu,
         Link, GoodLink, MenuList, OpenMenus, ConfigMenus, OldMenus, Asking
<1> QED
  BY <1>1, <1>2

LEMMA OtherLinks ==
  \A l \in UNION {help_menu, pc21_menu, manage_menu, edit_u16_menu, diagn_menu, di_menu,
                  do_menu, ai_menu, clust_bits_menu, net_bits_menu, clust_regs_menu,
                  net_regs_menu, passwd_left} : GoodLink(l)
<1>1. \A l \in help_menu \cup pc21_menu \cup manage_menu \cup edit_u16_menu \cup diagn_menu
               \cup di_menu \cup do_menu : GoodLink(l)
  BY DEF help_menu, pc21_menu, manage_menu, edit_u16_menu, diagn_menu, di_menu, do_menu,
         Link, GoodLink, MenuList, OpenMenus, ConfigMenus, OldMenus, Asking
<1>2. \A l \in ai_menu \cup clust_bits_menu \cup net_bits_menu \cup clust_regs_menu
               \cup net_regs_menu \cup passwd_left : GoodLink(l)
  BY DEF ai_menu, clust_bits_menu, net_bits_menu, clust_regs_menu, net_regs_menu, passwd_left,
         Link, GoodLink, MenuList, OpenMenus, ConfigMenus, OldMenus, Asking
<1> QED
  BY <1>1, <1>2

LEMMA AllLinks == \A l \in Links : GoodLink(l)
  BY OpenLinks, ConfigLinks, OtherLinks DEF Links

\* Where the keys of a menu may lead.
LEMMA Ways ==
  ASSUME NEW m \in MenuList, NEW k \in Keys, NEW to \in Leads[m][k]
  PROVE  /\ to \in MenuList
         /\ to \in ConfigMenus => m \in ConfigMenus
         /\ to \in OldMenus => m \in OldMenus
         /\ to = "PASSWD" => m \in Asking
<1>1. PICK l \in Links : l[1] = m /\ l[3] = to
  BY DEF Leads
<1> QED
  BY <1>1, AllLinks DEF GoodLink

\* Where a menu does more than lead elsewhere, and what.
LEMMA Deeds ==
  ASSUME NEW m \in MenuList, NEW k \in Keys, NEW op \in Does[m][k]
  PROVE  /\ m \in ConfigMenus \cup OldMenus
         /\ op \notin {"none", "clear"}
<1>1. PICK o \in Operations : o[1] = m /\ o[3] = op
  BY DEF Does
<1> QED
  BY <1>1 DEF Operations, ConfigMenus, OldMenus

-----------------------------------------------------------------------------
\* Where the display can be.
Places ==
  /\ current_menu \in MenuList \ OldMenus
  /\ shown \in (MenuList \ OldMenus) \cup {"NONE"}
  /\ shown # "NONE" => key \in Keys

\* Who is in a configuration menu, or about to set a password, typed the old one.
Guarded ==
  /\ current_menu \in ConfigMenus \/ shown \in ConfigMenus => unlocked
  /\ cmd \in Setting /\ (current_menu = "PASSWD" \/ shown = "PASSWD") => unlocked

\* What has been typed.
Entries ==
  /\ tmp_passwd \in Seq(Digits)
  /\ entries \in Seq(Passwords) /\ Len(entries) \in {0, 1, 2}

\* The password that was typed last is the one to be repeated.
Repeat ==
  cmd = "PASSWORD_SET2" /\ (current_menu = "PASSWD" \/ shown = "PASSWD")
    => entries # <<>> /\ new_passwd = entries[Len(entries)]

Inv == Places /\ Guarded /\ OpsNeedPassword
TypedInv == Entries /\ Repeat /\ ClearNeedsPassword

LEMMA InvInit == Init => Inv
  BY DEF Init, Inv, Places, Guarded, OpsNeedPassword, MenuList, OldMenus, OpenMenus, ConfigMenus,
         ConfigOps, Setting

\* How the groups of menus lie to each other.
LEMMA MenuGroups ==
  /\ "NONE" \notin MenuList /\ "PASSWD" \in MenuList
  /\ MenuList = ConfigMenus \cup OpenMenus \cup {"PASSWD"}
  /\ ConfigMenus \cap OpenMenus = {} /\ "PASSWD" \notin ConfigMenus \cup OpenMenus \cup OldMenus
  /\ {"MAIN", "CONFIG", "STATE", "PROG"} \subseteq MenuList \ OldMenus
  /\ {"MAIN", "STATE", "PROG", "CLR_ALARMS"} \cap ConfigMenus = {} /\ "CONFIG" \in ConfigMenus
  BY DEF MenuList, ConfigMenus, OpenMenus, OldMenus

LEMMA InvNext == Inv /\ [Next]_vars => Inv'
<1> SUFFICES ASSUME Inv, [Next]_vars PROVE Inv'
  OBVIOUS
<1> USE DEF Inv, Places, Guarded, OpsNeedPassword
<1> USE MenuGroups
<1>1. ASSUME NEW k \in Keys, Display(k) PROVE Inv'
  BY <1>1 DEF Display, password, ConfigOps
<1>2. CASE Follow
  <2> DEFINE m == shown
  <2>1. m \in MenuList /\ m \notin OldMenus /\ key \in Keys
    BY <1>2 DEF Follow
  <2>2. current_menu' \in Leads[m][key] /\ current_menu' # "PASSWD"
    BY <1>2 DEF Follow
  <2>3. /\ current_menu' \in MenuList
        /\ current_menu' \in ConfigMenus => m \in ConfigMenus
        /\ current_menu' \in OldMenus => m \in OldMenus
    BY <2>1, <2>2, Ways
  <2>4. done' = "none" \/ m \in ConfigMenus
    BY <2>1, <1>2, Deeds DEF Follow
  <2>5. shown' = "NONE" /\ unlocked' = unlocked
    BY <1>2 DEF Follow, Return
  <2> QED
    BY <2>1, <2>2, <2>3, <2>4, <2>5 DEF ConfigOps
<1>3. CASE Operate
  <2>1. shown \in ConfigMenus
    BY <1>3, Deeds DEF Operate
  <2> QED
    BY <1>3, <2>1 DEF Operate, Return, password
<1>4. CASE Ignore
  BY <1>4 DEF Ignore, Return, password, ConfigOps
<1>5. CASE AskPassword
  <2>1. shown \in Asking
    BY <1>5, Ways DEF AskPassword
  <2>2. cmd' \in Setting => shown \in ConfigMenus
    BY <1>5, <2>1 DEF AskPassword, AskedFor, Asking, Setting
  <2> QED
    BY <1>5, <2>2 DEF AskPassword, Return, ConfigOps
<1>6. CASE LeavePassword
  BY <1>6 DEF LeavePassword, Return, ConfigOps
<1>7. CASE TypeDigit
  BY <1>7 DEF TypeDigit, Return, ConfigOps
<1>8. CASE TypeFirst
  BY <1>8 DEF TypeFirst, Complete, Return, ConfigOps, Setting
<1>9. CASE TypeSecond
  BY <1>9 DEF TypeSecond, Complete, Return, ConfigOps, Setting
<1>10. CASE TypeRight
  BY <1>10 DEF TypeRight, Right, Complete, Return, ConfigOps, Setting
<1>11. CASE TypeWrong
  BY <1>11 DEF TypeWrong, Complete, Return, ConfigOps, Setting
<1>12. CASE SetMode
  BY <1>12 DEF SetMode, password, ConfigOps
<1>13. CASE Restart
  BY <1>13 DEF Restart, Return, ConfigOps
<1>14. CASE UNCHANGED vars
  BY <1>14 DEF vars, password
<1> QED
  BY <1>1, <1>2, <1>3, <1>4, <1>5, <1>6, <1>7, <1>8, <1>9, <1>10, <1>11, <1>12, <1>13, <1>14
     DEF Next, Handler

\* Configuration needs the password, whatever keys and mode requests come.
THEOREM Unlocked == Spec => []OpsNeedPassword
<1>1. Inv => OpsNeedPassword
  BY DEF Inv
<1> QED
  BY InvInit, InvNext, <1>1, PTL DEF Spec

-----------------------------------------------------------------------------
LEMMA TypedIsPassword == Entries /\ Complete => Typed \in Passwords
<1> SUFFICES ASSUME Entries, Complete PROVE Typed \in Passwords
  OBVIOUS
<1>1. Typed \in Seq(Digits) /\ Len(Typed) = Length
  BY DEF Entries, Complete, Typed
<1> QED
  BY <1>1 DEF Passwords

LEMMA PairIsSeq ==
  ASSUME NEW S, NEW a \in S, NEW b \in S
  PROVE  <<a, b>> \in Seq(S) /\ Len(<<a, b>>) = 2 /\ <<a, b>>[1] = a /\ <<a, b>>[2] = b
  OBVIOUS

\* One element and one more are a pair.
LEMMA AppendToOne ==
  ASSUME NEW S, NEW e \in Seq(S), Len(e) = 1, NEW t \in S
  PROVE  Append(e, t) = <<e[1], t>>
<1>1. e[1] \in S
  <2>1. 1 \in 1 .. Len(e)
    OBVIOUS
  <2> QED
    BY <2>1, ElementOfSeq
<1>2. Append(e, t) \in Seq(S) /\ Len(Append(e, t)) = 2 /\ Append(e, t)[1] = e[1] /\ Append(e, t)[2] = t
  <2> DEFINE f == Append(e, t)
  <2>1. /\ f \in Seq(S) /\ Len(f) = Len(e) + 1
        /\ \A i \in 1 .. Len(e) : f[i] = e[i]
        /\ f[Len(e) + 1] = t
    BY ONLY e \in Seq(S), t \in S, SMTT(30)
  <2> HIDE DEF f
  <2>2. Len(f) = 2 /\ f[1] = e[1] /\ f[2] = t
    BY <2>1
  <2> QED
    BY <2>1, <2>2 DEF f
<1>3. <<e[1], t>> \in Seq(S) /\ Len(<<e[1], t>>) = 2 /\ <<e[1], t>>[1] = e[1] /\ <<e[1], t>>[2] = t
  BY <1>1, PairIsSeq
<1>4. \A i \in 1 .. 2 : Append(e, t)[i] = <<e[1], t>>[i]
  BY <1>2, <1>3
<1> QED
  BY <1>2, <1>3, <1>4, SeqEqual

\* A complete password becomes the last of the entries.
LEMMA CompleteInv ==
  ASSUME Entries, Complete
  PROVE  /\ Entries'
         /\ entries' # <<>> /\ entries'[Len(entries')] = Typed
         /\ entries # <<>> => entries' = <<entries[Len(entries)], Typed>>
<1> DEFINE e == entries
           t == Typed
           f == entries'
<1>1. t \in Passwords
  BY TypedIsPassword
<1>2. tmp_passwd' \in Seq(Digits)
  BY DEF Complete
<1>3. /\ f = IF Len(e) < 2 THEN Append(e, t) ELSE <<e[2], t>>
      /\ e \in Seq(Passwords) /\ Len(e) \in {0, 1, 2}
  <2>1. f = IF Len(e) < 2 THEN Append(e, t) ELSE <<e[2], t>>
    BY Zenon DEF Complete
  <2> QED
    BY <2>1 DEF Entries
<1> HIDE DEF e, t, f
<1>4. CASE Len(e) = 0
  <2>1. e = <<>> /\ f = <<t>>
    BY <1>3, <1>4
  <2> QED
    BY <1>1, <1>2, <2>1 DEF Entries, e, t, f
<1>5. CASE Len(e) # 0
  <2>1. f = <<e[Len(e)], t>> /\ e[Len(e)] \in Passwords
    <3>1. Len(e) \in 1 .. Len(e)
      BY <1>3, <1>5
    <3>2. e[Len(e)] \in Passwords
      BY <1>3, <3>1, ElementOfSeq
    <3>3. CASE Len(e) = 1
      BY <1>1, <1>3, <3>3, AppendToOne
    <3>4. CASE Len(e) = 2
      BY <1>3, <3>4
    <3> QED
      BY <1>3, <1>5, <3>2, <3>3, <3>4
  <2>2. f \in Seq(Passwords) /\ Len(f) = 2 /\ f[2] = t
    BY <1>1, <2>1, PairIsSeq
  <2>3. f # <<>>
    BY <2>2
  <2> QED
    BY <1>2, <2>1, <2>2, <2>3 DEF Entries, e, t, f
<1> QED
  BY <1>4, <1>5

LEMMA TypedInit == Init => TypedInv
  BY DEF Init, TypedInv, Entries, Repeat, ClearNeedsPassword

\* Steps that type nothing and ask for nothing.
LEMMA QuietTyped ==
  ASSUME TypedInv, UNCHANGED <<tmp_passwd, entries, new_passwd>>, done' # "clear",
         cmd' = cmd \/ cmd' # "PASSWORD_SET2",
         current_menu' = "PASSWD" \/ shown' = "PASSWD" => current_menu = "PASSWD" \/ shown = "PASSWD"
  PROVE  TypedInv'
  BY DEF TypedInv, Entries, Repeat, ClearNeedsPassword

LEMMA TypedNext == Inv /\ TypedInv /\ [Next]_vars => TypedInv'
<1> SUFFICES ASSUME Inv, TypedInv, [Next]_vars PROVE TypedInv'
  OBVIOUS
<1> USE MenuGroups
<1>1. ASSUME NEW k \in Keys, Display(k) PROVE TypedInv'
  BY <1>1, QuietTyped DEF Display, password
<1>2. CASE Follow
  <2>1. done' # "clear"
    BY <1>2, Deeds DEF Follow, Inv, Places
  <2> QED
    BY <1>2, <2>1, QuietTyped DEF Follow, Return, password
<1>3. CASE Operate
  <2>1. done' # "clear"
    BY <1>3, Deeds DEF Operate, Inv, Places
  <2> QED
    BY <1>3, <2>1, QuietTyped DEF Operate, Return, password
<1>4. CASE Ignore
  BY <1>4, QuietTyped DEF Ignore, Return, password
<1>5. CASE AskPassword
  <2>1. shown \in Asking
    BY <1>5, Ways DEF AskPassword, Inv, Places
  <2>2. cmd' # "PASSWORD_SET2"
    BY <1>5, <2>1 DEF AskPassword, AskedFor, Asking
  <2> QED
    BY <1>5, <2>2 DEF AskPassword, TypedInv, Entries, Repeat, ClearNeedsPassword
<1>6. CASE LeavePassword
  BY <1>6, QuietTyped DEF LeavePassword, Return
<1>7. CASE TypeDigit
  <2>1. tmp_passwd' \in Seq(Digits)
    BY <1>7 DEF TypeDigit, Typed, TypedInv, Entries
  <2> QED
    BY <1>7, <2>1 DEF TypeDigit, Return, TypedInv, Entries, Repeat, ClearNeedsPassword
<1>8. CASE TypeFirst
  BY <1>8, CompleteInv DEF TypeFirst, TypedInv, Repeat, ClearNeedsPassword
<1>9. CASE TypeSecond
  BY <1>9, CompleteInv DEF TypeSecond, Complete, Return, TypedInv, Repeat, ClearNeedsPassword
<1>10. CASE TypeRight
  BY <1>10, CompleteInv DEF TypeRight, Right, TypedInv, Repeat, ClearNeedsPassword
<1>11. CASE TypeWrong
  BY <1>11, CompleteInv DEF TypeWrong, TypedInv, Repeat, ClearNeedsPassword
<1>12. CASE SetMode
  BY <1>12, QuietTyped DEF SetMode, password
<1>13. CASE Restart
  BY <1>13 DEF Restart, TypedInv, Entries, Repeat, ClearNeedsPassword
<1>14. CASE UNCHANGED vars
  BY <1>14 DEF vars, password, TypedInv, Entries, Repeat, ClearNeedsPassword
<1> QED
  BY <1>1, <1>2, <1>3, <1>4, <1>5, <1>6, <1>7, <1>8, <1>9, <1>10, <1>11, <1>12, <1>13, <1>14
     DEF Next, Handler

\* The archive is cleared only by who has just typed the password for it.
THEOREM ClearedWithPassword == Spec => []ClearNeedsPassword
<1>1. TypedInv => ClearNeedsPassword
  BY DEF TypedInv
<1> QED
  BY InvInit, InvNext, TypedInit, TypedNext, <1>1, PTL DEF Spec

\* A new password was typed twice, by who had typed the old one.
LEMMA ChangeStep ==
  Inv /\ TypedInv /\ Next
    => (passwd' # passwd => Restart \/ (unlocked /\ entries' = <<passwd', passwd'>>))
<1> SUFFICES ASSUME Inv, TypedInv, Next, passwd' # passwd, ~Restart
             PROVE  unlocked /\ entries' = <<passwd', passwd'>>
  OBVIOUS
<1>1. TypeSecond
  BY DEF Next, Handler, Display, Follow, Operate, Ignore, AskPassword, LeavePassword, TypeDigit,
         TypeFirst, TypeRight, TypeWrong, SetMode, password
<1>2. Complete /\ shown = "PASSWD" /\ Typed = new_passwd /\ passwd' = Typed /\ cmd = "PASSWORD_SET2"
  BY <1>1 DEF TypeSecond, Complete
<1>3. entries # <<>> /\ new_passwd = entries[Len(entries)]
  BY <1>2 DEF TypedInv, Repeat
<1>4. entries' = <<entries[Len(entries)], Typed>>
  BY <1>2, <1>3, CompleteInv DEF TypedInv
<1>5. unlocked
  BY <1>2 DEF Inv, Guarded, Setting
<1> QED
  BY <1>2, <1>3, <1>4, <1>5

\* Between restarts the password becomes only what an operator has typed twice in a
\* row who had typed the old one (password_menu.c).
THEOREM ChangedKnowingly == Spec => PasswordTypedTwice
<1>1. Inv /\ TypedInv /\ [Next]_vars
        => [passwd' # passwd => Restart \/ (unlocked /\ entries' = <<passwd', passwd'>>)]_vars
  BY ChangeStep
<1> QED
  BY InvInit, InvNext, TypedInit, TypedNext, <1>1, PTL DEF Spec, PasswordTypedTwice

-----------------------------------------------------------------------------
(* Home from every menu: three presses are enough for the menus in use. *)

Nearer(menus) == menus \cup Before(menus)
Home0 == {"STATE", "MAIN"}
Home1 == Nearer(Home0)
Home2 == Nearer(Home1)
Home3 == Nearer(Home2)
Home4 == Nearer(Home3)
Home5 == Nearer(Home4)

\* The steps of the recursion.
LEMMA HomeInSteps == HomeIn[5] = Home5
<1> DEFINE Step(h) == [n \in 0 .. 5 |->
                         IF n = 0 THEN {"STATE", "MAIN"} ELSE Nearer(h[n - 1])]
           homes == [n \in 0 .. 5 |-> CASE n = 0 -> Home0 [] n = 1 -> Home1 [] n = 2 -> Home2
                                        [] n = 3 -> Home3 [] n = 4 -> Home4 [] n = 5 -> Home5]
<1>1. /\ homes[0] = Home0 /\ homes[1] = Home1 /\ homes[2] = Home2
      /\ homes[3] = Home3 /\ homes[4] = Home4 /\ homes[5] = Home5
  OBVIOUS
<1>2. homes = Step(homes)
  <2> SUFFICES ASSUME NEW n \in 0 .. 5 PROVE homes[n] = Step(homes)[n]
    <3>1. DOMAIN homes = 0 .. 5 /\ DOMAIN Step(homes) = 0 .. 5
      OBVIOUS
    <3> QED
      OBVIOUS
  <2> QED
    BY <1>1 DEF Home0, Home1, Home2, Home3, Home4, Home5
<1>3. HomeIn = CHOOSE h : h = Step(h)
  BY DEF HomeIn, Nearer
<1>4. HomeIn = Step(HomeIn)
  <2> HIDE DEF Step, homes
  <2> QED
    BY <1>2, <1>3
<1>5. /\ HomeIn[0] = Home0
      /\ \A n \in 1 .. 5 : HomeIn[n] = Nearer(HomeIn[n - 1])
  <2> HIDE DEF homes
  <2>1. \A n \in 0 .. 5 : HomeIn[n] = IF n = 0 THEN {"STATE", "MAIN"} ELSE Nearer(HomeIn[n - 1])
    BY <1>4
  <2> QED
    BY <2>1 DEF Home0
<1>6. HomeIn[1] = Home1 /\ HomeIn[2] = Nearer(HomeIn[1]) /\ HomeIn[3] = Nearer(HomeIn[2])
      /\ HomeIn[4] = Nearer(HomeIn[3]) /\ HomeIn[5] = Nearer(HomeIn[4])
  BY <1>5 DEF Home1
<1> QED
  BY <1>6 DEF Home2, Home3, Home4, Home5

\* Who is one press from these menus.
LEMMA OnePress ==
  ASSUME NEW menus, NEW l \in Links, l[2] \in {"LEFT", "EXIT"}, l[3] \in menus
  PROVE  l[1] \in Nearer(menus)
  BY DEF Nearer, Before

LEMMA LinksBack ==
  /\ {<<"PROG", "LEFT", "MAIN">>, <<"APPL_INFO", "LEFT", "MAIN">>, <<"CLUST_INFO", "LEFT", "MAIN">>,
      <<"ALARM_LIST", "LEFT", "MAIN">>, <<"CLR_ALARMS", "LEFT", "MAIN">>,
      <<"DRAW_TREND", "LEFT", "MAIN">>, <<"MNEMO", "LEFT", "MAIN">>,
      <<"DIAGNOSTIC", "LEFT", "MAIN">>} \subseteq Links
  /\ {<<"CONFIG", "LEFT", "MAIN">>, <<"PASSWD", "LEFT", "MAIN">>} \subseteq Links
  /\ {<<"DIAGNOSTIC2", "LEFT", "DIAGNOSTIC">>, <<"PC21_STATE", "LEFT", "DIAGNOSTIC">>,
      <<"CROSS_REF", "LEFT", "DIAGNOSTIC2">>, <<"GLOB_INT", "LEFT", "DIAGNOSTIC2">>,
      <<"GLOB_BITS", "LEFT", "DIAGNOSTIC2">>} \subseteq Links
  /\ {<<"SYS_CFG", "LEFT", "CONFIG">>, <<"SET_TIME", "LEFT", "CONFIG">>,
      <<"IP_CONFIG", "LEFT", "CONFIG">>, <<"TREND_CONF", "LEFT", "CONFIG">>,
      <<"EDIT_VAR", "LEFT", "SYS_CFG">>, <<"IP_SET", "EXIT", "IP_CONFIG">>} \subseteq Links
  /\ {<<"TREND_INFO", "LEFT", "TREND_CONF">>, <<"ADD_TREND", "LEFT", "TREND_CONF">>,
      <<"EDIT_TREND", "LEFT", "TREND_CONF">>, <<"DELETE_TREND", "LEFT", "TREND_CONF">>}
       \subseteq Links
<1>1. {<<"PROG", "LEFT", "MAIN">>, <<"APPL_INFO", "LEFT", "MAIN">>, <<"CLUST_INFO", "LEFT", "MAIN">>,
      <<"ALARM_LIST", "LEFT", "MAIN">>, <<"CLR_ALARMS", "LEFT", "MAIN">>,
      <<"DRAW_TREND", "LEFT", "MAIN">>, <<"MNEMO", "LEFT", "MAIN">>,
      <<"DIAGNOSTIC", "LEFT", "MAIN">>} \subseteq
        prog_menu \cup appl_info_menu \cup cluster_state_menu \cup alarm_info_menu
          \cup clear_alarms_menu \cup draw_trend_menu \cup mnemo_menu \cup diagnostic_menu
  BY DEF prog_menu, appl_info_menu, cluster_state_menu, alarm_info_menu, clear_alarms_menu,
         draw_trend_menu, mnemo_menu, diagnostic_menu, Link
<1>2. {<<"CONFIG", "LEFT", "MAIN">>, <<"PASSWD", "LEFT", "MAIN">>} \subseteq config_menu \cup passwd_left
  BY DEF config_menu, passwd_left, Link
<1>3. {<<"DIAGNOSTIC2", "LEFT", "DIAGNOSTIC">>, <<"PC21_STATE", "LEFT", "DIAGNOSTIC">>,
      <<"CROSS_REF", "LEFT", "DIAGNOSTIC2">>, <<"GLOB_INT", "LEFT", "DIAGNOSTIC2">>,
      <<"GLOB_BITS", "LEFT", "DIAGNOSTIC2">>} \subseteq
        diagnostic_menu2 \cup pc21_state_menu \cup cross_reference_menu
          \cup global_integers_menu \cup global_bits_menu
  BY DEF diagnostic_menu2, pc21_state_menu, cross_reference_menu, global_integers_menu,
         global_bits_menu, Link
<1>4. {<<"SYS_CFG", "LEFT", "CONFIG">>, <<"SET_TIME", "LEFT", "CONFIG">>,
      <<"IP_CONFIG", "LEFT", "CONFIG">>, <<"TREND_CONF", "LEFT", "CONFIG">>,
      <<"EDIT_VAR", "LEFT", "SYS_CFG">>, <<"IP_SET", "EXIT", "IP_CONFIG">>} \subseteq
        system_config_menu \cup set_time_menu \cup ip_config_menu \cup trend_config_menu
          \cup edit_var_menu \cup ip_set_menu
  BY DEF system_config_menu, set_time_menu, ip_config_menu, trend_config_menu, edit_var_menu,
         ip_set_menu, Link
<1>5. {<<"TREND_INFO", "LEFT", "TREND_CONF">>, <<"ADD_TREND", "LEFT", "TREND_CONF">>,
      <<"EDIT_TREND", "LEFT", "TREND_CONF">>, <<"DELETE_TREND", "LEFT", "TREND_CONF">>}
       \subseteq trend_info_menu \cup add_trend_menu \cup edit_trend_menu \cup delete_trend_menu
  BY DEF trend_info_menu, add_trend_menu, edit_trend_menu, delete_trend_menu, Link
<1> QED
  BY <1>1, <1>2, <1>3, <1>4, <1>5 DEF Links

LEMMA MenusInUseLeadHome == MenuList \ OldMenus \subseteq HomeIn[5]
<1> DEFINE Near == {"PROG", "APPL_INFO", "CLUST_INFO", "ALARM_LIST", "CLR_ALARMS", "DRAW_TREND",
                    "MNEMO", "DIAGNOSTIC", "CONFIG", "PASSWD"}
           Far == {"DIAGNOSTIC2", "PC21_STATE", "SYS_CFG", "SET_TIME", "IP_CONFIG", "TREND_CONF"}
           Farther == {"CROSS_REF", "GLOB_INT", "GLOB_BITS", "EDIT_VAR", "IP_SET", "TREND_INFO",
                       "ADD_TREND", "EDIT_TREND", "DELETE_TREND"}
<1>1. \A menus : menus \subseteq Nearer(menus)
  BY DEF Nearer
<1>2. Home0 \subseteq Home1 /\ Home1 \subseteq Home2 /\ Home2 \subseteq Home3
      /\ Home3 \subseteq Home4 /\ Home4 \subseteq Home5
  BY <1>1 DEF Home1, Home2, Home3, Home4, Home5
<1>3. \A m, k, to, menus :
        <<m, k, to>> \in Links /\ k \in {"LEFT", "EXIT"} /\ to \in menus => m \in Nearer(menus)
  <2> SUFFICES ASSUME NEW m, NEW k, NEW to, NEW menus,
                      <<m, k, to>> \in Links, k \in {"LEFT", "EXIT"}, to \in menus
               PROVE  m \in Nearer(menus)
    OBVIOUS
  <2> DEFINE l == <<m, k, to>>
  <2>1. l[1] = m /\ l[2] = k /\ l[3] = to
    OBVIOUS
  <2> QED
    BY <2>1, OnePress
<1>4. Near \subseteq Home1
  BY <1>3, LinksBack DEF Home0, Home1
<1>5. Far \subseteq Home2
  BY <1>3, <1>4, LinksBack DEF Home2
<1>6. Farther \subseteq Home3
  BY <1>3, <1>5, LinksBack DEF Home3
<1>7. MenuList \ OldMenus \subseteq Home0 \cup Near \cup Far \cup Farther
  BY DEF MenuList, ConfigMenus, OpenMenus, OldMenus, Home0
<1> QED
  BY <1>2, <1>4, <1>5, <1>6, <1>7, HomeInSteps

\* Whatever keys, mode requests and restarts come, the display is never on a
\* menu from which LEFT or EXIT does not lead home.
THEOREM AlwaysHome == Spec => []NoTrap
<1>1. Inv => NoTrap
  BY MenusInUseLeadHome DEF Inv, Places, NoTrap
<1> QED
  BY InvInit, InvNext, <1>1, PTL DEF Spec

-----------------------------------------------------------------------------
(* Types. *)

\* What Places and Entries leave open.
Rest ==
  /\ key \in Keys \cup {"NONE"}
  /\ cmd \in Cmds
  /\ Len(tmp_passwd) < Length
  /\ new_passwd \in Passwords \cup {<<>>} /\ passwd \in Passwords
  /\ bpr \in Registers
  /\ unlocked \in BOOLEAN
  /\ done \in ConfigOps \cup {"none", "clear"}

LEMMA DeedsAreNamed ==
  ASSUME NEW m \in MenuList, NEW k \in Keys, NEW op \in Does[m][k]
  PROVE  op \in ConfigOps
<1>1. PICK o \in Operations : o[3] = op
  BY DEF Does
<1> QED
  BY <1>1 DEF Operations, ConfigOps

LEMMA RestInit == Init => Rest
<1> SUFFICES ASSUME Init PROVE Rest
  OBVIOUS
<1>1. bpr = [mark |-> BootMark, passwd |-> DefaultPassword] /\ passwd = DefaultPassword
  BY DEF Init, Checked, BootMark
<1>2. bpr \in Registers /\ passwd \in Passwords
  BY <1>1, MenuAssumption DEF Registers
<1>3. unlocked \in BOOLEAN
  BY Zenon DEF Init
<1> QED
  BY <1>2, <1>3, MenuAssumption DEF Init, Rest, Cmds

LEMMA RestNext == Inv /\ TypedInv /\ Rest /\ [Next]_vars => Rest'
<1> SUFFICES ASSUME Inv, TypedInv, Rest, [Next]_vars PROVE Rest'
  OBVIOUS
<1> USE DEF Rest, Cmds
<1>1. ASSUME NEW k \in Keys, Display(k) PROVE Rest'
  <2>1. unlocked' \in BOOLEAN
    BY <1>1, Zenon DEF Display
  <2> QED
    BY <1>1, <2>1 DEF Display, password
<1>2. CASE Follow \/ Operate
  <2>1. done' \in ConfigOps \cup {"none"}
    BY <1>2, DeedsAreNamed, MenuGroups DEF Follow, Operate, Inv, Places
  <2> QED
    BY <1>2, <2>1 DEF Follow, Operate, Return, password
<1>3. CASE Ignore
  BY <1>3 DEF Ignore, Return, password
<1>4. CASE AskPassword
  <2>1. shown \in Asking
    BY <1>4, Ways, MenuGroups DEF AskPassword, Inv, Places
  <2> QED
    BY <1>4, <2>1, MenuAssumption DEF AskPassword, AskedFor, Asking, Return
<1>5. CASE LeavePassword \/ TypeDigit
  BY <1>5 DEF LeavePassword, TypeDigit, Return
<1>6. CASE TypeFirst \/ TypeSecond \/ TypeRight \/ TypeWrong
  <2>0. Complete
    BY <1>6 DEF TypeFirst, TypeSecond, TypeRight, TypeWrong
  <2>1. Typed \in Passwords /\ Len(tmp_passwd') < Length /\ key' = "NONE"
    BY <2>0, TypedIsPassword, MenuAssumption DEF TypedInv, Complete, Return
  <2>2. unlocked' \in BOOLEAN
    BY <2>0, Zenon DEF Complete
  <2>3. [mark |-> SetMark, passwd |-> Typed] \in Registers
    BY <2>1 DEF Registers
  <2> QED
    BY <1>6, <2>1, <2>2, <2>3 DEF TypeFirst, TypeSecond, TypeRight, TypeWrong, ConfigOps
<1>7. CASE SetMode
  BY <1>7 DEF SetMode, password
<1>8. CASE Restart
  <2>1. bpr' \in Registers /\ passwd' \in Passwords
    <3>1. DefaultPassword \in Passwords /\ bpr \in Registers
      BY MenuAssumption
    <3>2. Checked(bpr) \in Registers
      BY <3>1 DEF Checked, Registers
    <3> QED
      BY <1>8, <3>2 DEF Restart, Registers
  <2>2. unlocked' \in BOOLEAN
    BY <1>8, Zenon DEF Restart
  <2> QED
    BY <1>8, <2>1, <2>2, MenuAssumption DEF Restart, Return
<1>9. CASE UNCHANGED vars
  BY <1>9 DEF vars, password
<1> QED
  BY <1>1, <1>2, <1>3, <1>4, <1>5, <1>6, <1>7, <1>8, <1>9
     DEF Next, Handler

\* A sequence of a length at most n is one of the functions TypeOK lists.
LEMMA ShortSeq ==
  ASSUME NEW S, NEW s \in Seq(S), NEW n \in Nat, Len(s) <= n
  PROVE  s \in UNION {[1 .. m -> S] : m \in 0 .. n}
<1>1. Len(s) \in 0 .. n /\ s \in [1 .. Len(s) -> S]
  OBVIOUS
<1> QED
  BY ONLY <1>1

\* The menus' variables keep their types, for passwords of any length: the
\* display is on one of the menus of the list, and an operator has typed fewer
\* digits than a password has before it is compared.
THEOREM MenuTypes == Spec => []TypeOK
<1>1. Inv /\ TypedInv /\ Rest => TypeOK
  <2> SUFFICES ASSUME Inv, TypedInv, Rest PROVE TypeOK
    OBVIOUS
  <2>1. entries \in UNION {[1 .. n -> Passwords] : n \in 0 .. 2}
    BY ShortSeq, SMTT(30) DEF TypedInv, Entries
  <2>2. tmp_passwd \in UNION {[1 .. n -> Digits] : n \in 0 .. Length - 1}
    <3>1. tmp_passwd \in Seq(Digits) /\ Len(tmp_passwd) <= Length - 1 /\ Length - 1 \in Nat
      BY MenuAssumption DEF TypedInv, Entries, Rest
    <3> QED
      BY <3>1, ShortSeq
  <2> QED
    BY <2>1, <2>2 DEF TypeOK, Rest, Inv, Places
<1> QED
  BY InvInit, InvNext, TypedInit, TypedNext, RestInit, RestNext, <1>1, PTL DEF Spec

=============================================================================
