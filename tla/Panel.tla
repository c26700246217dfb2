-------------------------------- MODULE Panel --------------------------------
(***************************************************************************)
(* The frames of the LCD task (display_task.c) over the keyboard and the   *)
(* message bits, and the operator who picks one of the PLC's variables     *)
(* (system_config_menu.c), types a value and sends it (edit_var_menu.c,    *)
(* write_var_to_plc of menu.c).  The frame after the scan of the messages  *)
(* is one step: what it reads, only the LCD task writes, but for the word  *)
(* of keys, the bits and the link, each of which it reads once.            *)
(***************************************************************************)
EXTENDS Keyboard, MessageScanner

CONSTANTS
  Row,          \* variables on the screen at once (10)
  TextLen,      \* digits of a value (5)
  Word,         \* 2^16, the range of a value
  Low, High,    \* the limits of every variable
  Visits        \* bounds of one behaviour: the menu it starts in, the variables of its
                \* configuration, the keys pressed, how many presses, how many changes of
                \* the bits and of the link

ASSUME PanelAssumption ==
  /\ Row \in Nat \ {0} /\ TextLen \in Nat \ {0} /\ Word \in Nat \ {0}
  /\ \A v \in Visits : v.vars \in Nat /\ v.menu \in {"other", "sys_cfg"}

Digit == [d \in {"0", "1", "2", "3", "4", "5", "6", "7", "8", "9"} |->
            CASE d = "0" -> 0 [] d = "1" -> 1 [] d = "2" -> 2 [] d = "3" -> 3 [] d = "4" -> 4
              [] d = "5" -> 5 [] d = "6" -> 6 [] d = "7" -> 7 [] d = "8" -> 8 [] d = "9" -> 9]
Blank == 10

VARIABLES
  menu,             \* "sys_cfg", "edit_var", or "other" for the rest
  var_cnt,          \* of this configuration
  offset, curs_pos, \* of the list
  list_var,         \* edit_var of the list
  edit_var, text, pos,  \* of the editor
  plc_can_link,
  sent,             \* the last write: a variable and its value
  \* history
  typed,            \* the digits typed since the editor was opened or cleared
  visit             \* what is left of the bounds

editor == <<menu, var_cnt, offset, curs_pos, list_var, edit_var, text, pos, sent, typed>>
vars == <<keyboard, messages, editor, plc_can_link, visit>>

NoText == [p \in 1 .. TextLen |-> Blank]
NoWrite == [var |-> 0, value |-> 0]
Limited(v) == LET w == IF v > High THEN High ELSE v IN IF w < Low THEN Low ELSE w

\* The digits before the first character that is not from '0' to '8', in sixteen bits.
Value ==
  LET end == CHOOSE n \in 0 .. TextLen :
               /\ \A p \in 1 .. n : text[p] < 9
               /\ n = TextLen \/ text[n + 1] >= 9
      v[n \in 0 .. TextLen] == IF n = 0 THEN 0 ELSE (v[n - 1] * 10 + text[n]) % Word
  IN v[end]

\* The link to the PLC is up; the list of variables, if it is open, is opened for the first time.
Init ==
  /\ KeyboardInit /\ ScannerInit
  /\ visit \in Visits
  /\ menu = visit.menu /\ var_cnt = visit.vars
  /\ offset = 0 /\ curs_pos = 0 /\ list_var = 0
  /\ edit_var = 0 /\ text = NoText /\ pos = 1
  /\ plc_can_link = 1 /\ sent = NoWrite /\ typed = <<>>

-----------------------------------------------------------------------------
Frame(m) ==
  /\ ScanDone /\ NextScan
  /\ TakeKey
  /\ menu = m
  /\ UNCHANGED <<var_cnt, plc_can_link, visit>>

\* Any menu but the two below.  The state menu counts the active messages.
OtherMenu ==
  /\ Frame("other")
  /\ CountActive \/ UNCHANGED <<value, prev_value>>
  /\ menu' = IF Command = {"enter"} THEN "sys_cfg" ELSE "other"
  /\ UNCHANGED <<offset, curs_pos, list_var, edit_var, text, pos, sent, typed>>

\* system_config_menu.  Each row that has a variable is read; the one under the cursor is kept.
Under == offset + curs_pos
Selected == IF Under < var_cnt THEN Under + 1 ELSE var_cnt
Draw == list_var' = IF Under < var_cnt THEN Under + 1 ELSE list_var
SomeShown == offset < var_cnt

ListFrame ==
  /\ Frame("sys_cfg") /\ Draw
  /\ UNCHANGED <<value, prev_value, sent>>

Up ==
  /\ ListFrame /\ Command = {"up"}
  /\ curs_pos' = IF curs_pos > 0 THEN curs_pos - 1 ELSE 0
  /\ offset' = IF curs_pos = 0 /\ offset > 0 THEN offset - 1 ELSE offset
  /\ UNCHANGED <<menu, edit_var, text, pos, typed>>

Down ==
  /\ ListFrame /\ Command = {"down"}
  /\ \/ curs_pos < Row - 1 /\ curs_pos' = curs_pos + 1 /\ UNCHANGED offset
     \/ /\ curs_pos = Row - 1 /\ UNCHANGED curs_pos
        /\ offset' = IF SomeShown /\ Under < var_cnt - 1 THEN offset + 1 ELSE offset
  /\ UNCHANGED <<menu, edit_var, text, pos, typed>>

Back ==
  /\ ListFrame /\ Command = {"left"}
  /\ menu' = "other"
  /\ UNCHANGED <<offset, curs_pos, edit_var, text, pos, typed>>

\* A faulty list: it takes the variable of the frame before.
SelectStale ==
  /\ ListFrame /\ Command \in {{"enter"}, {"right"}}
  /\ edit_var' = list_var
  /\ text' = NoText /\ pos' = 1 /\ typed' = <<>>
  /\ menu' = IF SomeShown THEN "edit_var" ELSE menu
  /\ UNCHANGED <<offset, curs_pos>>

Select ==
  /\ ListFrame /\ Command \in {{"enter"}, {"right"}}
  /\ edit_var' = list_var'
  /\ text' = NoText /\ pos' = 1 /\ typed' = <<>>
  /\ menu' = IF SomeShown THEN "edit_var" ELSE menu
  /\ UNCHANGED <<offset, curs_pos>>

\* No key, several keys, or one that the list does not know.
ListOnly ==
  /\ ListFrame /\ Command \notin {{"up"}, {"down"}, {"left"}, {"enter"}, {"right"}}
  /\ UNCHANGED <<menu, offset, curs_pos, edit_var, text, pos, typed>>

-----------------------------------------------------------------------------
(* edit_var_menu *)

EditFrame ==
  /\ Frame("edit_var")
  /\ UNCHANGED <<value, prev_value, offset, curs_pos, list_var, edit_var>>

\* A faulty editor: the place does not return to the first digit.
TypeKeyOnwards ==
  /\ EditFrame
  /\ \E d \in DOMAIN Digit :
        /\ Command = {d}
        /\ text' = [IF pos = 1 THEN NoText ELSE text EXCEPT ![pos] = Digit[d]]
        /\ typed' = Append(typed, Digit[d])
  /\ pos' = pos + 1
  /\ UNCHANGED <<menu, sent>>

TypeKey ==
  /\ EditFrame
  /\ \E d \in DOMAIN Digit :
        /\ Command = {d}
        /\ text' = [IF pos = 1 THEN NoText ELSE text EXCEPT ![pos] = Digit[d]]
        /\ typed' = Append(typed, Digit[d])
  /\ pos' = IF pos = TextLen THEN 1 ELSE pos + 1
  /\ UNCHANGED <<menu, sent>>

Clear ==
  /\ EditFrame /\ Command = {"exit"}
  /\ text' = NoText /\ pos' = 1 /\ typed' = <<>>
  /\ UNCHANGED <<menu, sent>>

Cancel ==
  /\ EditFrame /\ Command = {"left"}
  /\ menu' = "sys_cfg"
  /\ UNCHANGED <<text, pos, sent, typed>>

Send ==
  /\ EditFrame /\ Command = {"enter"}
  /\ sent' = IF plc_can_link = 0 THEN sent ELSE [var |-> edit_var, value |-> Limited(Value)]
  /\ menu' = "sys_cfg"
  /\ UNCHANGED <<text, pos, typed>>

EditOnly ==
  /\ EditFrame
  /\ Command \notin {{"enter"}, {"left"}, {"exit"}} \cup {{d} : d \in DOMAIN Digit}
  /\ UNCHANGED <<menu, text, pos, sent, typed>>

-----------------------------------------------------------------------------
Lcd ==
  \/ ScanMessage /\ UNCHANGED <<keyboard, editor, plc_can_link, visit>>
  \/ OtherMenu
  \/ Up \/ Down \/ Back \/ Select \/ ListOnly
  \/ TypeKey \/ Clear \/ Cancel \/ Send \/ EditOnly

ScanKeys == Scan /\ UNCHANGED <<messages, editor, plc_can_link, visit>>

Operate ==
  /\ visit.presses > 0 /\ visit' = [visit EXCEPT !.presses = @ - 1]
  /\ \E k \in visit.keys \cap Keys : Press(k)
  /\ UNCHANGED <<messages, editor, plc_can_link>>

LetGo == Release /\ UNCHANGED <<messages, editor, plc_can_link, visit>>

\* The receive interrupt and the network task.
Others ==
  /\ visit.changes > 0 /\ visit' = [visit EXCEPT !.changes = @ - 1]
  /\ \/ Change /\ UNCHANGED plc_can_link
     \/ plc_can_link' = 1 - plc_can_link /\ UNCHANGED messages
  /\ UNCHANGED <<keyboard, editor>>

Next == Lcd \/ ScanKeys \/ Operate \/ LetGo \/ Others

Spec == Init /\ [][Next]_vars /\ WF_vars(Lcd) /\ WF_vars(ScanKeys)

-----------------------------------------------------------------------------
TypeOK ==
  /\ KeyboardTypes /\ ScannerTypes
  /\ menu \in {"other", "sys_cfg", "edit_var"}
  /\ offset \in Nat /\ curs_pos \in 0 .. Row - 1
  /\ list_var \in 0 .. var_cnt /\ edit_var \in 0 .. var_cnt
  /\ text \in [1 .. TextLen -> 0 .. Blank] /\ pos \in 1 .. TextLen
  /\ plc_can_link \in {0, 1}

\* The number whose digits are in s.
Number(s) == LET v[n \in 0 .. Len(s)] == IF n = 0 THEN 0 ELSE v[n - 1] * 10 + s[n] IN v[Len(s)]
\* The digits on the screen: after TextLen of them a new value begins.
LastDigits(s) == SubSeq(s, ((Len(s) - 1) \div TextLen) * TextLen + 1, Len(s))

\* What is sent is what was meant (system_config_menu.c:56-105, edit_var_menu.c:69-213,
\* menu.c:308-311): the variable is the one under the cursor, or the last of the list when
\* the cursor is below it, and the value is the one typed last, within the limits, unless it
\* has a nine or does not fit the word.
SentIsMeant ==
  [][Send /\ plc_can_link # 0 =>
       /\ sent'.var = Selected
       /\ LET s == IF typed = <<>> THEN <<>> ELSE LastDigits(typed)
          IN (\A n \in DOMAIN s : s[n] # 9) /\ Number(s) < Word
               => sent'.value = Limited(Number(s))]_vars
=============================================================================
