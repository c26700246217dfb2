---------------------------- MODULE Panel_proofs ----------------------------
(***************************************************************************)
(* However keys are pressed and let go while they are scanned, a key is    *)
(* not commanded more often than it was pressed.  The word of a key        *)
(* travels: held, read by the scan under way, published, seen by the LCD   *)
(* task.  Each rise along that way is a press that no command has answered *)
(* yet, and there are never more rises than such presses.                  *)
(*                                                                         *)
(* An alarm is recorded once each time it rises, the variable written is   *)
(* the one under the cursor, and its value the number typed last: digit by *)
(* digit the text on the screen is the end of what was typed, and reading  *)
(* it gives, in the width of a word, the number of those digits.           *)
(***************************************************************************)
EXTENDS Panel, WellFoundedInduction, TLAPS

\* The scan under way has passed the row of k.
Passed(k) == \E r \in 1 .. row - 1 : k \in Rows[r]
Scanned(k) == IF Passed(k) THEN k \in tmp ELSE k \in key

One(b) == IF b THEN 1 ELSE 0
Rising(k) == One(k \notin prev_key /\ k \in key) + One(k \notin key /\ Scanned(k))
             + One(~Scanned(k) /\ k \in down)

ScanTypes ==
  /\ credit \in [Keys -> Int]
  /\ row \in 1 .. Len(Rows)
  /\ \A k \in tmp : Passed(k)

PressesCover == \A k \in Keys : credit[k] >= Rising(k)

KeysInv == ScanTypes /\ PressesCover

-----------------------------------------------------------------------------
LEMMA RowsAreMany == Len(Rows) \in Nat \ {0} /\ DOMAIN Rows = 1 .. Len(Rows)
BY RowsAssumption

LEMMA InvInit == Init => KeysInv
<1> SUFFICES ASSUME Init PROVE KeysInv OBVIOUS
<1>1. ScanTypes
  BY RowsAreMany DEF Init, KeyboardInit, ScanTypes
<1>2. ASSUME NEW k \in Keys PROVE credit[k] >= Rising(k)
  <2>1. ~Scanned(k) /\ k \notin key /\ k \notin down
    BY DEF Init, KeyboardInit, Scanned
  <2>2. Rising(k) = 0
    BY <2>1 DEF Rising, One
  <2> QED BY <2>2 DEF Init, KeyboardInit
<1> QED BY <1>1, <1>2 DEF KeysInv, PressesCover

-----------------------------------------------------------------------------
(* The keyboard does not change, or only what is held does. *)

LEMMA InvSame == KeysInv /\ UNCHANGED keyboard => KeysInv'
BY DEF KeysInv, ScanTypes, PressesCover, Rising, One, Scanned, Passed, keyboard, scanner, kept

LEMMA InvPress ==
  ASSUME KeysInv, NEW j \in Keys, Press(j) PROVE KeysInv'
<1> USE DEF Press, scanner
<1>1. ScanTypes'
  BY DEF KeysInv, ScanTypes, Passed
<1>2. ASSUME NEW k \in Keys PROVE (credit[k] >= Rising(k))'
  <2>1. Scanned(k)' = Scanned(k)
    BY DEF Scanned, Passed
  <2>2. credit[k] \in Int /\ credit[k] >= Rising(k)
    BY DEF KeysInv, ScanTypes, PressesCover
  <2>3. CASE k = j
    <3>1. credit'[k] = credit[k] + 1
      BY <2>3 DEF KeysInv, ScanTypes
    <3> QED BY <3>1, <2>1, <2>2, <2>3 DEF Rising, One
  <2>4. CASE k # j
    <3>1. credit'[k] = credit[k] /\ (k \in down' <=> k \in down)
      BY <2>4 DEF KeysInv, ScanTypes
    <3> QED BY <3>1, <2>1, <2>2 DEF Rising, One
  <2> QED BY <2>3, <2>4
<1> QED BY <1>1, <1>2 DEF KeysInv, PressesCover

LEMMA InvRelease ==
  ASSUME KeysInv, Release PROVE KeysInv'
<1> USE DEF Release, scanner
<1>1. ScanTypes'
  BY DEF KeysInv, ScanTypes, Passed
<1>2. ASSUME NEW k \in Keys PROVE (credit[k] >= Rising(k))'
  <2>1. Scanned(k)' = Scanned(k)
    BY DEF Scanned, Passed
  <2>2. credit[k] \in Int /\ credit[k] >= Rising(k) /\ credit'[k] = credit[k]
    BY DEF KeysInv, ScanTypes, PressesCover
  <2>3. k \in down' => k \in down
    OBVIOUS
  <2> QED BY <2>1, <2>2, <2>3 DEF Rising, One
<1> QED BY <1>1, <1>2 DEF KeysInv, PressesCover

-----------------------------------------------------------------------------
(* The keyboard task moves a word one place on. *)

LEMMA InvReadRow ==
  ASSUME KeysInv, ReadRow PROVE KeysInv'
<1> USE DEF ReadRow, kept
<1>0. row \in 1 .. Len(Rows) /\ row' = row + 1 /\ Len(Rows) \in Nat
  BY RowsAreMany DEF KeysInv, ScanTypes
<1>1. ASSUME NEW k PROVE Passed(k)' <=> (Passed(k) \/ k \in Rows[row])
  BY <1>0 DEF Passed
<1>2. ScanTypes'
  <2>1. ASSUME NEW k \in tmp' PROVE Passed(k)'
    BY <1>1, <2>1 DEF Seen, KeysInv, ScanTypes
  <2> QED BY <1>0, <2>1 DEF KeysInv, ScanTypes
<1>3. ASSUME NEW k \in Keys PROVE (credit[k] >= Rising(k))'
  <2>0. credit[k] \in Int /\ credit[k] >= Rising(k) /\ credit'[k] = credit[k]
    BY DEF KeysInv, ScanTypes, PressesCover
  <2>1. CASE k \in Rows[row]
    <3>1. ~Passed(k)
      BY <2>1, <1>0, RowsAssumption, RowsAreMany DEF Passed
    <3>2. k \notin tmp
      BY <3>1 DEF KeysInv, ScanTypes
    <3>3. (Scanned(k) <=> k \in key) /\ (Scanned(k)' <=> k \in down)
      BY <3>1, <3>2, <1>1, <2>1 DEF Scanned, Seen
    <3> QED BY <3>3, <2>0 DEF Rising, One
  <2>2. CASE k \notin Rows[row]
    <3>1. Scanned(k)' <=> Scanned(k)
      BY <2>2, <1>1 DEF Scanned, Seen
    <3> QED BY <3>1, <2>0 DEF Rising, One
  <2> QED BY <2>1, <2>2
<1> QED BY <1>2, <1>3 DEF KeysInv, PressesCover

LEMMA InvPublish ==
  ASSUME KeysInv, Publish PROVE KeysInv'
<1> USE DEF Publish, kept
<1>0. row = Len(Rows) /\ row' = 1 /\ Len(Rows) \in Nat \ {0}
  BY RowsAreMany
<1>1. ScanTypes'
  BY <1>0 DEF KeysInv, ScanTypes
<1>2. ASSUME NEW k \in Keys PROVE (credit[k] >= Rising(k))'
  <2>0. credit[k] \in Int /\ credit[k] >= Rising(k) /\ credit'[k] = credit[k]
    BY DEF KeysInv, ScanTypes, PressesCover
  <2>1. ~Passed(k)'
    BY <1>0 DEF Passed
  <2>2. Scanned(k)' <=> k \in key'
    BY <2>1 DEF Scanned
  <2>3. CASE k \in Rows[row]
    <3>1. ~Passed(k)
      BY <2>3, <1>0, RowsAssumption, RowsAreMany DEF Passed
    <3>2. k \notin tmp
      BY <3>1 DEF KeysInv, ScanTypes
    <3>3. (Scanned(k) <=> k \in key) /\ (k \in key' <=> k \in down)
      BY <3>1, <3>2, <2>3 DEF Scanned, Seen
    <3> QED BY <3>3, <2>2, <2>0 DEF Rising, One
  <2>4. CASE k \notin Rows[row]
    <3>1. Passed(k)
      <4>1. PICK r \in DOMAIN Rows : k \in Rows[r]
        BY DEF Keys
      <4>2. r \in 1 .. row - 1
        BY <4>1, <2>4, <1>0, RowsAreMany
      <4> QED BY <4>1, <4>2 DEF Passed
    <3>2. (Scanned(k) <=> k \in tmp) /\ (k \in key' <=> k \in tmp)
      BY <3>1, <2>4 DEF Scanned, Seen
    <3> QED BY <3>2, <2>2, <2>0 DEF Rising, One
  <2> QED BY <2>3, <2>4
<1> QED BY <1>1, <1>2 DEF KeysInv, PressesCover

-----------------------------------------------------------------------------
(* The LCD task takes the word; a command uses up the rise that it answers. *)

LEMMA InvTakeKey ==
  ASSUME KeysInv, TakeKey PROVE KeysInv'
<1> USE DEF TakeKey, scanner
<1>1. ScanTypes'
  BY DEF KeysInv, ScanTypes, Passed
<1>2. ASSUME NEW k \in Keys PROVE (credit[k] >= Rising(k))'
  <2>1. Scanned(k)' = Scanned(k)
    BY DEF Scanned, Passed
  <2>2. credit[k] \in Int /\ credit[k] >= Rising(k)
    BY DEF KeysInv, ScanTypes, PressesCover
  <2>3. credit'[k] = credit[k] - One(Command = {k} /\ k \notin prev_key)
    BY DEF One
  <2>4. Command = {k} => k \in key
    BY DEF Command
  <2> QED BY <2>1, <2>2, <2>3, <2>4 DEF Rising, One
<1> QED BY <1>1, <1>2 DEF KeysInv, PressesCover

\* KeysInv is inductive: only a press, a release, a step of the scan and the one step in which
\* a frame takes the word touch the keyboard.
LEMMA InvNext == KeysInv /\ [Next]_vars => KeysInv'
<1> SUFFICES ASSUME KeysInv, [Next]_vars PROVE KeysInv' OBVIOUS
<1>1. CASE Lcd
  <2>1. CASE ScanMessage /\ UNCHANGED <<keyboard, editor, plc_can_link, visit>>
    BY <2>1, InvSame
  <2>2. TakeKey \/ UNCHANGED keyboard
    BY <1>1, <2>1 DEF Lcd, OtherMenu, Up, Down, Back, Select, ListOnly, TypeKey, Clear, Cancel,
       Send, EditOnly, ListFrame, EditFrame, Frame
  <2> QED BY <2>2, InvTakeKey, InvSame
<1>2. CASE ScanKeys
  BY <1>2, InvReadRow, InvPublish DEF ScanKeys, Scan
<1>3. CASE Operate
  <2>1. PICK k \in visit.keys \cap Keys : Press(k)
    BY <1>3 DEF Operate
  <2> QED BY <2>1, InvPress
<1>4. CASE LetGo
  BY <1>4, InvRelease DEF LetGo
<1>5. CASE Others
  BY <1>5, InvSame DEF Others
<1>6. CASE UNCHANGED vars
  BY <1>6, InvSame DEF vars
<1> QED BY <1>1, <1>2, <1>3, <1>4, <1>5, <1>6 DEF Next

LEMMA InvHolds == KeysInv => KeysArePresses
<1> SUFFICES ASSUME KeysInv, NEW k \in Keys PROVE credit[k] >= 0
  BY DEF KeysArePresses
<1>1. credit[k] \in Int /\ credit[k] >= Rising(k)
  BY DEF KeysInv, ScanTypes, PressesCover
<1>2. Rising(k) >= 0 /\ Rising(k) \in Int
  BY DEF Rising, One
<1> QED BY <1>1, <1>2

\* For every matrix of keys, every number of presses and every interleaving of the scan with
\* the frames, a key is commanded at most as often as it was pressed (keyboard.c:61-103,
\* display_task.c:87-91).
THEOREM CommandsArePresses == Spec => []KeysArePresses
<1>1. Spec => []KeysInv
  BY InvInit, InvNext, PTL DEF Spec
<1> QED BY <1>1, InvHolds, PTL

-----------------------------------------------------------------------------
(* The messages.  A message whose record is the last that happened to it   *)
(* has been seen high, so the next record needs a scan that sees it low.   *)

ScanInv ==
  /\ bits \in [Messages -> BOOLEAN] /\ prev_value \in [Messages -> BOOLEAN]
  /\ past \in [Messages -> {"noted", "fell", "low"}]
  /\ \A m \in Messages : past[m] = "noted" => prev_value[m]

LEMMA ScanInvInit == Init => ScanInv
BY DEF Init, ScannerInit, ScanInv

LEMMA ScanInvScan ==
  ASSUME ScanInv, ScanMessage PROVE ScanInv'
<1> USE DEF ScanMessage
<1>1. prev_value' \in [Messages -> BOOLEAN] /\ bits' \in [Messages -> BOOLEAN]
  BY DEF ScanInv
<1>2. past' \in [Messages -> {"noted", "fell", "low"}]
  BY DEF ScanInv
<1>3. ASSUME NEW m \in Messages, past'[m] = "noted" PROVE prev_value'[m]
  <2>1. CASE m = i
    <3>1. bits[i]
      <4> SUFFICES ASSUME ~bits[i] PROVE FALSE OBVIOUS
      <4>1. ~Rises(bits[i])
        BY DEF Rises
      <4>2. past'[i] = "low"
        BY <4>1, <2>1 DEF ScanInv
      <4> QED BY <4>2, <1>3, <2>1
    <3> QED BY <3>1, <2>1 DEF ScanInv
  <2>2. CASE m # i
    <3>1. past'[m] = past[m] /\ prev_value'[m] = prev_value[m]
      BY <2>2 DEF ScanInv
    <3> QED BY <3>1, <1>3 DEF ScanInv
  <2> QED BY <2>1, <2>2
<1> QED BY <1>1, <1>2, <1>3 DEF ScanInv

LEMMA ScanInvChange ==
  ASSUME ScanInv, Change PROVE ScanInv'
BY DEF ScanInv, Change

\* The frame that follows the scan leaves the values before and the history alone.
LEMMA ScanInvNext == ScanInv /\ [Next]_vars => ScanInv'
<1> SUFFICES ASSUME ScanInv, [Next]_vars PROVE ScanInv' OBVIOUS
<1>1. CASE ScanMessage
  BY <1>1, ScanInvScan
<1>2. CASE Change
  BY <1>2, ScanInvChange
<1>3. CASE UNCHANGED <<bits, prev_value, past>>
  BY <1>3 DEF ScanInv
<1>4. ScanMessage \/ Change \/ UNCHANGED <<bits, prev_value, past>>
  BY DEF Next, Lcd, OtherMenu, Up, Down, Back, Select, ListOnly, TypeKey, Clear, Cancel, Send,
     EditOnly, ListFrame, EditFrame, Frame, NextScan, CountActive, ScanKeys, Operate, LetGo,
     Others, vars, messages, scan
<1> QED BY <1>1, <1>2, <1>3, <1>4

\* For any number of messages, however their bits change and however often the state menu
\* counts them: an alarm is recorded once each time it rises (message_scaner.c:19-70).
THEOREM AlarmsAreRecordedOnce == Spec => RecordedOnce
<1>1. Spec => []ScanInv
  BY ScanInvInit, ScanInvNext, PTL DEF Spec
<1>2. ScanInv => [ScanMessage /\ Rises(bits[i]) => past[i] # "noted"]_messages
  <2> SUFFICES ASSUME ScanInv, ScanMessage, Rises(bits[i]) PROVE past[i] # "noted" OBVIOUS
  <2>1. i \in Messages /\ ~prev_value[i]
    BY DEF ScanMessage, Rises, ScanInv
  <2> QED BY <2>1 DEF ScanInv
<1> QED BY <1>1, <1>2, PTL DEF RecordedOnce

-----------------------------------------------------------------------------
(* The list.  The cursor moves by one variable a frame, and each frame     *)
(* keeps the variable under it: below the last one, that one stays.        *)

EditedIsSelected == menu = "edit_var" => edit_var = Selected

ListInv ==
  /\ curs_pos \in 0 .. Row - 1 /\ offset \in Nat /\ var_cnt \in Nat /\ list_var \in Nat
  /\ (Under >= var_cnt /\ var_cnt > 0) => list_var = var_cnt
  /\ EditedIsSelected

LEMMA ListInvInit == Init => ListInv
BY PanelAssumption DEF Init, ListInv, EditedIsSelected, Under

LEMMA ListInvSame ==
  ASSUME ListInv, UNCHANGED <<var_cnt, offset, curs_pos, list_var, edit_var>>,
         menu' = "edit_var" => menu = "edit_var"
  PROVE  ListInv'
BY DEF ListInv, EditedIsSelected, Selected, Under

LEMMA ListInvMove ==
  ASSUME ListInv, Up \/ Down PROVE ListInv'
<1> USE PanelAssumption DEF ListInv, Under
<1>1. /\ menu = "sys_cfg" /\ menu' = menu /\ var_cnt' = var_cnt
      /\ list_var' = IF Under < var_cnt THEN Under + 1 ELSE list_var
  BY DEF Up, Down, ListFrame, Frame, Draw
<1>2. curs_pos' \in 0 .. Row - 1 /\ offset' \in Nat
  BY DEF Up, Down
<1>3. (Under >= var_cnt /\ var_cnt > 0)' => list_var' = var_cnt'
  <2>1. CASE Up
    <3>1. Under' <= Under /\ Under \in Nat /\ Under' \in Nat
      BY <2>1, <1>2 DEF Up
    <3> HIDE DEF Under
    <3> QED BY <3>1, <1>1
  <2>2. CASE Down
    <3>1. (Under' = Under \/ Under' = Under + 1) /\ Under \in Nat
      BY <2>2 DEF Down
    <3> HIDE DEF Under
    <3> QED BY <3>1, <1>1
  <2> QED BY <2>1, <2>2
<1>4. list_var' \in Nat /\ var_cnt' \in Nat
  BY <1>1
<1>5. EditedIsSelected'
  BY <1>1 DEF EditedIsSelected
<1> HIDE DEF Under
<1> QED BY <1>2, <1>3, <1>4, <1>5

LEMMA ListInvList ==
  ASSUME ListInv, Back \/ Select \/ ListOnly PROVE ListInv'
<1> USE PanelAssumption DEF ListInv, Under
<1>1. /\ menu = "sys_cfg" /\ UNCHANGED <<var_cnt, offset, curs_pos>>
      /\ list_var' = IF Under < var_cnt THEN Under + 1 ELSE list_var
  BY DEF Back, Select, ListOnly, ListFrame, Frame, Draw
<1>2. (menu' = "edit_var") => edit_var' = Selected
  <2>1. CASE Select
    BY <1>1, <2>1 DEF Select, SomeShown, Selected
  <2>2. CASE Back \/ ListOnly
    BY <1>1, <2>2 DEF Back, ListOnly
  <2> QED BY <2>1, <2>2
<1>3. Selected' = Selected /\ Under' = Under /\ Under \in Nat
  BY <1>1 DEF Selected
<1> HIDE DEF Under
<1>4. list_var' \in Nat /\ ((Under >= var_cnt /\ var_cnt > 0) => list_var' = var_cnt)
  BY <1>1, <1>3
<1> QED BY <1>1, <1>2, <1>3, <1>4 DEF EditedIsSelected

LEMMA ListInvNext == ListInv /\ [Next]_vars => ListInv'
<1> SUFFICES ASSUME ListInv, [Next]_vars PROVE ListInv' OBVIOUS
<1>1. CASE Up \/ Down
  BY <1>1, ListInvMove
<1>2. CASE Back \/ Select \/ ListOnly
  BY <1>2, ListInvList
<1>3. CASE OtherMenu \/ TypeKey \/ Clear \/ Cancel \/ Send \/ EditOnly
  <2>1. UNCHANGED <<var_cnt, offset, curs_pos, list_var, edit_var>>
    BY <1>3 DEF OtherMenu, TypeKey, Clear, Cancel, Send, EditOnly, EditFrame, Frame
  <2>2. menu' = "edit_var" => menu = "edit_var"
    BY <1>3 DEF OtherMenu, TypeKey, Clear, Cancel, Send, EditOnly, EditFrame, Frame
  <2> QED BY <2>1, <2>2, ListInvSame
<1>4. CASE UNCHANGED editor
  BY <1>4, ListInvSame DEF editor
<1> QED BY <1>1, <1>2, <1>3, <1>4 DEF Next, Lcd, ScanKeys, Operate, LetGo, Others, vars

\* For lists of any length and screens of any size: the variable edited is the one under the
\* cursor, or the last of the list when the cursor is below it (system_config_menu.c:56-97).
THEOREM VariableIsSelected == Spec => []EditedIsSelected
<1>1. ListInv => EditedIsSelected
  BY DEF ListInv
<1> QED BY <1>1, ListInvInit, ListInvNext, PTL DEF Spec

-----------------------------------------------------------------------------
(* Types, beyond those in KeysInv, ScanInv and ListInv. *)

KeySets ==
  /\ down \subseteq Keys /\ tmp \subseteq Keys /\ key \subseteq Keys /\ prev_key \subseteq Keys
  /\ owed \subseteq down

LEMMA KeySetsNext == KeySets /\ KeysInv /\ [Next]_vars => KeySets'
<1> SUFFICES ASSUME KeySets, KeysInv, [Next]_vars PROVE KeySets' OBVIOUS
<1> USE DEF KeySets
<1>1. ASSUME NEW k \in Keys, Press(k) PROVE KeySets'
  BY <1>1 DEF Press, scanner
<1>2. CASE Release
  BY <1>2 DEF Release, scanner
<1>3. CASE Scan
  <2>1. row \in DOMAIN Rows
    BY RowsAreMany DEF KeysInv, ScanTypes
  <2>2. Rows[row] \subseteq Keys
    BY <2>1 DEF Keys
  <2>3. Seen \subseteq Keys
    BY <2>2 DEF Seen
  <2> QED BY <1>3, <2>3 DEF Scan, ReadRow, Publish, kept
<1>4. CASE TakeKey
  BY <1>4 DEF TakeKey, scanner
<1>5. CASE UNCHANGED keyboard
  BY <1>5 DEF keyboard, scanner, kept
<1>6. (\E k \in Keys : Press(k)) \/ Release \/ Scan \/ TakeKey \/ UNCHANGED keyboard
  BY DEF Next, Lcd, OtherMenu, Up, Down, Back, Select, ListOnly, TypeKey, Clear, Cancel, Send,
     EditOnly, ListFrame, EditFrame, Frame, ScanKeys, Operate, LetGo, Others, vars
<1> QED BY <1>1, <1>2, <1>3, <1>4, <1>5, <1>6

ScanRest == value \in [Messages -> BOOLEAN] /\ i \in 1 .. MsgCnt + 1

LEMMA ScanRestNext == ScanRest /\ ScanInv /\ [Next]_vars => ScanRest'
<1> SUFFICES ASSUME ScanRest, ScanInv, [Next]_vars PROVE ScanRest' OBVIOUS
<1> USE ScannerAssumption DEF ScanRest
<1>1. CASE ScanMessage
  <2>1. value' \in [Messages -> BOOLEAN]
    BY <1>1 DEF ScanMessage, ScanInv
  <2>2. i' \in 1 .. MsgCnt + 1
    BY <1>1 DEF ScanMessage, Messages
  <2> QED BY <2>1, <2>2
<1>2. CASE NextScan /\ (CountActive \/ UNCHANGED value)
  <2>1. i' = 1 /\ (value' = bits \/ value' = value)
    BY <1>2 DEF NextScan, CountActive
  <2> QED BY <2>1 DEF ScanInv
<1>3. CASE UNCHANGED <<value, i>>
  BY <1>3
<1>4. ScanMessage \/ (NextScan /\ (CountActive \/ UNCHANGED value)) \/ UNCHANGED <<value, i>>
  BY DEF Next, Lcd, OtherMenu, Up, Down, Back, Select, ListOnly, TypeKey, Clear, Cancel, Send,
     EditOnly, ListFrame, EditFrame, Frame, ScanKeys, Operate, LetGo, Others, Change, vars,
     messages, scan
<1> QED BY <1>1, <1>2, <1>3, <1>4

EditTypes ==
  /\ menu \in {"other", "sys_cfg", "edit_var"}
  /\ list_var \in 0 .. var_cnt /\ edit_var \in 0 .. var_cnt
  /\ text \in [1 .. TextLen -> 0 .. Blank] /\ pos \in 1 .. TextLen
  /\ plc_can_link \in {0, 1}

LEMMA EditTypesNext == EditTypes /\ ListInv /\ [Next]_vars => EditTypes'
<1> SUFFICES ASSUME EditTypes, ListInv, [Next]_vars PROVE EditTypes' OBVIOUS
<1> USE PanelAssumption DEF EditTypes, ListInv
<1>0. NoText \in [1 .. TextLen -> 0 .. Blank]
  BY DEF NoText, Blank
<1>1. CASE OtherMenu
  BY <1>1 DEF OtherMenu, Frame
<1>2. CASE Up \/ Down \/ Back \/ Select \/ ListOnly
  <2>1. UNCHANGED <<var_cnt, plc_can_link>> /\ list_var' \in 0 .. var_cnt
    BY <1>2 DEF Up, Down, Back, Select, ListOnly, ListFrame, Frame, Draw, Under
  <2>2. edit_var' \in 0 .. var_cnt
    BY <1>2, <2>1 DEF Up, Down, Back, Select, ListOnly
  <2>3. /\ text' \in [1 .. TextLen -> 0 .. Blank] /\ pos' \in 1 .. TextLen
        /\ menu' \in {"other", "sys_cfg", "edit_var"}
    BY <1>0, <1>2 DEF Up, Down, Back, Select, ListOnly
  <2> QED BY <2>1, <2>2, <2>3
<1>3. CASE TypeKey
  <2>1. PICK d \in DOMAIN Digit :
          text' = [IF pos = 1 THEN NoText ELSE text EXCEPT ![pos] = Digit[d]]
    BY <1>3 DEF TypeKey
  <2>2. Digit[d] \in 0 .. Blank
    BY DEF Digit, Blank
  <2>3. text' \in [1 .. TextLen -> 0 .. Blank]
    <3>1. CASE pos = 1
      BY <1>0, <2>1, <2>2, <3>1
    <3>2. CASE pos # 1
      BY <2>1, <2>2, <3>2
    <3> QED BY <3>1, <3>2
  <2> QED BY <1>3, <2>3 DEF TypeKey, EditFrame, Frame
<1>4. CASE Clear \/ Cancel \/ Send \/ EditOnly
  <2>1. UNCHANGED <<var_cnt, plc_can_link, list_var, edit_var>>
    BY <1>4 DEF Clear, Cancel, Send, EditOnly, EditFrame, Frame
  <2>2. menu' \in {"other", "sys_cfg", "edit_var"}
    BY <1>4 DEF Clear, Cancel, Send, EditOnly, EditFrame, Frame
  <2>3. (text' = text /\ pos' = pos) \/ (text' = NoText /\ pos' = 1)
    BY <1>4 DEF Clear, Cancel, Send, EditOnly
  <2> QED BY <1>0, <2>1, <2>2, <2>3
<1>5. CASE Others
  BY <1>5 DEF Others, editor
<1>6. CASE UNCHANGED <<editor, plc_can_link>>
  BY <1>6 DEF editor
<1> QED BY <1>1, <1>2, <1>3, <1>4, <1>5, <1>6 DEF Next, Lcd, ScanKeys, Operate, LetGo, vars

LEMMA PanelTypesInit == Init => KeySets /\ ScanRest /\ EditTypes
<1> SUFFICES ASSUME Init PROVE KeySets /\ ScanRest /\ EditTypes OBVIOUS
<1>1. KeySets
  BY DEF Init, KeyboardInit, KeySets
<1>2. ScanRest
  BY ScannerAssumption DEF Init, ScannerInit, ScanRest
<1>3. EditTypes
  BY PanelAssumption DEF Init, EditTypes, NoText, Blank
<1> QED BY <1>1, <1>2, <1>3

\* The keyboard, the scanner and the editors keep their types for every matrix of keys, number
\* of messages, list and length of a value: the row that is scanned and the place that is typed
\* at stay inside their arrays, and the variable taken is one of the list.
THEOREM PanelTypes == Spec => []TypeOK
<1>1. Spec => []KeysInv
  BY InvInit, InvNext, PTL DEF Spec
<1>2. Spec => []ScanInv
  BY ScanInvInit, ScanInvNext, PTL DEF Spec
<1>3. Spec => []ListInv
  BY ListInvInit, ListInvNext, PTL DEF Spec
<1>4. Spec => [](KeySets /\ ScanRest /\ EditTypes)
  BY PanelTypesInit, KeySetsNext, ScanRestNext, EditTypesNext, <1>1, <1>2, <1>3, PTL DEF Spec
<1>5. KeysInv /\ ScanInv /\ ListInv /\ KeySets /\ ScanRest /\ EditTypes => TypeOK
  BY RowsAreMany DEF KeysInv, ScanTypes, ScanInv, ListInv, KeySets, ScanRest, EditTypes, TypeOK,
     KeyboardTypes, ScannerTypes
<1> QED BY <1>1, <1>2, <1>3, <1>4, <1>5, PTL

-----------------------------------------------------------------------------
(* What is sent. *)

\* Of the numbers that satisfy a condition, one is the least.
LEMMA Least ==
  ASSUME NEW T \in SUBSET Nat, T # {}
  PROVE  \E m \in T : \A k \in T : m <= k
<1>1. PICK m \in T : \A k \in T : ~ (<<k, m>> \in OpToRel(<, Nat))
  BY NatLessThanWellFounded, WFMin, Zenon
<1>2. \A k \in T : ~ k < m
  BY <1>1, Zenon DEF OpToRel
<1> QED
  BY <1>2

\* What is true of 0, and of each number if it is true of the one before.
LEMMA UpTo ==
  ASSUME NEW n \in Nat, NEW T, 0 \in T, \A m \in 1 .. n : m - 1 \in T => m \in T
  PROVE  0 .. n \subseteq T
<1> DEFINE Rest == {m \in 0 .. n : m \notin T}
<1>1. SUFFICES ASSUME Rest # {} PROVE FALSE
  BY Zenon
<1>1a. Rest \in SUBSET Nat
  OBVIOUS
<1>2. PICK m \in Rest : \A k \in Rest : m <= k
  <2> HIDE DEF Rest
  <2> QED
    BY <1>1, <1>1a, Least
<1>3. m \in 1 .. n /\ m - 1 \in 0 .. n /\ ~ (m <= m - 1)
  BY <1>2
<1>4. m - 1 \in T
  BY <1>2, <1>3
<1> QED
  BY <1>2, <1>3, <1>4

\* A value that is computed digit by digit exists.
LEMMA Computed ==
  ASSUME NEW n \in Nat, NEW step \in [Nat \X (1 .. n) -> Nat]
  PROVE  \E v \in [0 .. n -> Nat] : v[0] = 0 /\ \A m \in 1 .. n : v[m] = step[<<v[m - 1], m>>]
<1> DEFINE From(v, m) == v \in [0 .. m -> Nat] /\ v[0] = 0
                         /\ \A k \in 1 .. m : v[k] = step[<<v[k - 1], k>>]
           T == {m \in 0 .. n : \E v : From(v, m)}
<1>1. 0 \in T
  <2> DEFINE v == [m \in 0 .. 0 |-> 0]
  <2>1. From(v, 0)
    OBVIOUS
  <2>2. \E w : From(w, 0)
    BY <2>1, Zenon
  <2> QED
    BY <2>2
<1>2. ASSUME NEW m \in 1 .. n, m - 1 \in T PROVE m \in T
  <2>1. PICK u : From(u, m - 1)
    BY <1>2
  <2> DEFINE v == [k \in 0 .. m |-> IF k = m THEN step[<<u[m - 1], m>>] ELSE u[k]]
  <2>2. step[<<u[m - 1], m>>] \in Nat
    BY <2>1
  <2>3. v \in [0 .. m -> Nat] /\ v[0] = 0
    BY <2>1, <2>2
  <2>4. ASSUME NEW k \in 1 .. m PROVE v[k] = step[<<v[k - 1], k>>]
    <3>1. k - 1 \in 0 .. m - 1 /\ k - 1 # m
      OBVIOUS
    <3>2. v[k - 1] = u[k - 1]
      BY <3>1
    <3>3. CASE k = m
      <4>1. v[m] = step[<<u[m - 1], m>>]
        OBVIOUS
      <4> QED
        BY <3>2, <3>3, <4>1, Zenon
    <3>4. CASE k # m
      <4>1. k \in 1 .. m - 1 /\ v[k] = u[k]
        BY <3>4
      <4>2. u[k] = step[<<u[k - 1], k>>]
        BY <4>1, <2>1
      <4> QED
        BY <3>2, <4>1, <4>2
    <3> QED
      BY <3>3, <3>4
  <2>5. From(v, m)
    BY <2>3, <2>4
  <2>6. \E w : From(w, m)
    BY <2>5, Zenon
  <2> QED
    BY <2>6
<1>3. n \in T
  <2> HIDE DEF T
  <2>1. 0 .. n \subseteq T
    BY <1>1, <1>2, UpTo
  <2> QED
    BY <2>1
<1> QED
  BY <1>3

\* The number of a sequence of digits, and the numbers of its beginnings.
LEMMA NumberIs ==
  ASSUME NEW s \in Seq(0 .. 9)
  PROVE  \E v \in [0 .. Len(s) -> Nat] :
           /\ v[0] = 0 /\ Number(s) = v[Len(s)]
           /\ \A m \in 1 .. Len(s) : v[m] = v[m - 1] * 10 + s[m]
<1> DEFINE n == Len(s)
           step == [x \in Nat \X (1 .. n) |-> x[1] * 10 + s[x[2]]]
           v == CHOOSE v : v = [m \in 0 .. Len(s) |-> IF m = 0 THEN 0 ELSE v[m - 1] * 10 + s[m]]
<1>1. n \in Nat /\ \A m \in 1 .. n : s[m] \in Nat
  OBVIOUS
<1>2. step \in [Nat \X (1 .. n) -> Nat]
  BY <1>1
<1>3. PICK u \in [0 .. n -> Nat] : u[0] = 0 /\ \A m \in 1 .. n : u[m] = step[<<u[m - 1], m>>]
  <2> HIDE DEF step
  <2> QED
    BY <1>1, <1>2, Computed
<1>4. ASSUME NEW m \in 1 .. n PROVE u[m] = u[m - 1] * 10 + s[m]
  <2>1. u[m - 1] \in Nat
    OBVIOUS
  <2>2. step[<<u[m - 1], m>>] = u[m - 1] * 10 + s[m]
    BY <2>1
  <2> QED
    BY <1>3, <2>2
<1>5. u = [m \in 0 .. n |-> IF m = 0 THEN 0 ELSE u[m - 1] * 10 + s[m]]
  BY <1>3, <1>4
<1>6. v = [m \in 0 .. n |-> IF m = 0 THEN 0 ELSE v[m - 1] * 10 + s[m]]
  BY <1>5, Zenon
<1>7. Number(s) = v[n]
  BY DEF Number
<1> HIDE DEF v
<1>8. v[0] = 0 /\ \A m \in 1 .. n : v[m] = v[m - 1] * 10 + s[m]
  BY <1>1, <1>6
<1>9. \A m \in 0 .. n : v[m] = u[m]
  <2> DEFINE T == {m \in 0 .. n : v[m] = u[m]}
  <2>1. 0 \in T
    BY <1>1, <1>3, <1>8
  <2>2. ASSUME NEW m \in 1 .. n, m - 1 \in T PROVE m \in T
    BY <1>4, <1>8, <2>2
  <2> HIDE DEF T
  <2>3. 0 .. n \subseteq T
    BY <1>1, <2>1, <2>2, UpTo
  <2> QED
    BY <2>3 DEF T
<1>10. v \in [0 .. n -> Nat]
  BY <1>6, <1>9
<1> QED
  BY <1>7, <1>8, <1>10

\* No beginning of a number is greater than the number.
LEMMA Beginnings ==
  ASSUME NEW s \in Seq(0 .. 9), NEW v \in [0 .. Len(s) -> Nat],
         \A m \in 1 .. Len(s) : v[m] = v[m - 1] * 10 + s[m]
  PROVE  \A m \in 0 .. Len(s) : v[m] <= v[Len(s)]
<1> DEFINE n == Len(s)
           T == {j \in 0 .. n : v[n - j] <= v[n]}
<1>1. n \in Nat /\ \A m \in 1 .. n : s[m] \in Nat
  OBVIOUS
<1>2. 0 \in T
  BY <1>1
<1>3. ASSUME NEW j \in 1 .. n, j - 1 \in T PROVE j \in T
  <2>1. n - (j - 1) \in 1 .. n /\ (n - (j - 1)) - 1 = n - j
    BY <1>1
  <2>2. v[n - (j - 1)] = v[n - j] * 10 + s[n - (j - 1)]
    BY <2>1
  <2>3. v[n - (j - 1)] <= v[n]
    BY <1>3, Zenon
  <2>4. v[n - j] \in Nat /\ s[n - (j - 1)] \in Nat /\ v[n] \in Nat
    <3>1. n - j \in 0 .. n /\ n \in 0 .. n
      BY <1>1
    <3>2. v[n - j] \in Nat /\ v[n] \in Nat
      BY <1>1, <3>1, Zenon
    <3>3. s[n - (j - 1)] \in Nat
      BY <1>1, <2>1, Zenon
    <3> QED
      BY <3>2, <3>3
  <2>5. v[n - j] <= v[n]
    BY <2>2, <2>3, <2>4
  <2> QED
    BY <2>5
<1>4. 0 .. n \subseteq T
  <2> HIDE DEF T
  <2> QED
    BY <1>1, <1>2, <1>3, UpTo
<1>5. ASSUME NEW m \in 0 .. n PROVE v[m] <= v[n]
  <2>1. n - m \in 0 .. n /\ n - (n - m) = m
    BY <1>1
  <2>2. n - m \in T
    BY <1>4, <2>1
  <2> QED
    BY <2>1, <2>2
<1> QED
  BY <1>5

LEMMA FitsWord == ASSUME NEW x \in Nat, x < Word PROVE x % Word = x
  BY PanelAssumption

\* The text on the screen is s, and blanks behind it.
Shows(s) ==
  /\ s \in Seq(0 .. 9) /\ Len(s) <= TextLen
  /\ \A p \in 1 .. TextLen : text[p] = IF p <= Len(s) THEN s[p] ELSE Blank

\* Digits without a nine are read to their end, and what fits a word is the number they are.
LEMMA ValueIs ==
  ASSUME NEW s, Shows(s), text \in [1 .. TextLen -> 0 .. Blank],
         \A m \in DOMAIN s : s[m] # 9, Number(s) < Word
  PROVE  Value = Number(s)
<1> DEFINE n == Len(s)
           end == CHOOSE m \in 0 .. TextLen : /\ \A p \in 1 .. m : text[p] < 9
                                              /\ m = TextLen \/ text[m + 1] >= 9
           w == CHOOSE w : w = [m \in 0 .. TextLen |->
                                  IF m = 0 THEN 0 ELSE (w[m - 1] * 10 + text[m]) % Word]
           step == [x \in Nat \X (1 .. TextLen) |-> (x[1] * 10 + text[x[2]]) % Word]
<1>1. Value = w[end]
  BY DEF Value
<1>2. /\ n \in 0 .. TextLen /\ TextLen \in Nat /\ Word \in Nat \ {0} /\ s \in Seq(0 .. 9)
      /\ \A m \in 1 .. n : s[m] \in Nat /\ s[m] < 9 /\ text[m] = s[m]
      /\ \A m \in 1 .. TextLen : m > n => text[m] = 10
  BY PanelAssumption DEF Shows, Blank
<1>2a. n \in Nat /\ n <= TextLen /\ n = Len(s)
  BY <1>2
<1> HIDE DEF n
<1>3. end = n
  <2>1a. \A p \in 1 .. n : text[p] < 9
    BY <1>2
  <2>1b. ASSUME n # TextLen PROVE text[n + 1] >= 9
    <3>1. n + 1 \in 1 .. TextLen /\ n + 1 > n
      BY <1>2, <1>2a, <2>1b
    <3>2. text[n + 1] = 10
      BY <1>2, <3>1
    <3> QED
      BY <3>2
  <2>1. (\A p \in 1 .. n : text[p] < 9) /\ (n = TextLen \/ text[n + 1] >= 9)
    BY <2>1a, <2>1b
  <2>2. ASSUME NEW m \in 0 .. TextLen, \A p \in 1 .. m : text[p] < 9,
               m = TextLen \/ text[m + 1] >= 9
        PROVE  m = n
    <3>1. ~ (m < n)
      <4> SUFFICES ASSUME m < n PROVE FALSE
        OBVIOUS
      <4>1. m + 1 \in 1 .. n /\ m # TextLen
        BY <1>2, <1>2a
      <4>2. text[m + 1] = s[m + 1] /\ s[m + 1] \in Nat /\ s[m + 1] < 9
        BY <1>2, <4>1
      <4> QED
        BY <2>2, <4>1, <4>2
    <3>2. ~ (m > n)
      <4> SUFFICES ASSUME m > n PROVE FALSE
        OBVIOUS
      <4>1. n + 1 \in 1 .. m /\ n + 1 \in 1 .. TextLen /\ n + 1 > n
        BY <1>2, <1>2a
      <4>2. text[n + 1] = 10 /\ text[n + 1] < 9
        BY <1>2, <2>2, <4>1
      <4> QED
        BY <4>2
    <3> QED
      BY <1>2, <3>1, <3>2
  <2> QED
    BY <1>2, <2>1, <2>2
<1>4. step \in [Nat \X (1 .. TextLen) -> Nat]
  <2>1. \A a \in Nat, m \in 1 .. TextLen : (a * 10 + text[m]) % Word \in Nat
    <3> SUFFICES ASSUME NEW a \in Nat, NEW m \in 1 .. TextLen
                 PROVE  (a * 10 + text[m]) % Word \in Nat
      OBVIOUS
    <3>1. a * 10 + text[m] \in Nat
      BY DEF Blank
    <3> QED
      BY <1>2, <3>1
  <2> QED
    BY <2>1
<1>5. PICK u \in [0 .. TextLen -> Nat] :
        u[0] = 0 /\ \A m \in 1 .. TextLen : u[m] = step[<<u[m - 1], m>>]
  <2> HIDE DEF step
  <2> QED
    BY <1>2, <1>4, Computed
<1>6. ASSUME NEW m \in 1 .. TextLen PROVE u[m] = (u[m - 1] * 10 + text[m]) % Word
  <2>1. u[m - 1] \in Nat
    BY <1>2
  <2>2. step[<<u[m - 1], m>>] = (u[m - 1] * 10 + text[m]) % Word
    BY <2>1
  <2> QED
    BY <1>5, <2>2
<1>7. u = [m \in 0 .. TextLen |-> IF m = 0 THEN 0 ELSE (u[m - 1] * 10 + text[m]) % Word]
  BY <1>5, <1>6
<1>8. w = [m \in 0 .. TextLen |-> IF m = 0 THEN 0 ELSE (w[m - 1] * 10 + text[m]) % Word]
  BY <1>7, Zenon
<1> HIDE DEF w, end, step
<1>9. w[0] = 0 /\ \A m \in 1 .. n : w[m] = (w[m - 1] * 10 + text[m]) % Word
  BY <1>2, <1>8
<1>10. PICK v \in [0 .. n -> Nat] : /\ v[0] = 0 /\ Number(s) = v[n]
                                    /\ \A m \in 1 .. n : v[m] = v[m - 1] * 10 + s[m]
  BY <1>2, NumberIs DEF n
<1>11. \A m \in 0 .. n : v[m] <= v[n]
  BY <1>2, <1>10, Beginnings DEF n
<1>12. w[n] = v[n]
  <2> DEFINE T == {m \in 0 .. n : w[m] = v[m]}
  <2>1. 0 \in T
    BY <1>2, <1>9, <1>10
  <2>2. ASSUME NEW m \in 1 .. n, m - 1 \in T PROVE m \in T
    <3>1. w[m - 1] = v[m - 1] /\ text[m] = s[m] /\ v[m] = v[m - 1] * 10 + s[m]
      BY <1>2, <1>10, <2>2
    <3>2. v[m] \in Nat /\ v[m] < Word
      <4>1. m \in 0 .. n /\ n \in 0 .. n /\ Word \in Nat
        BY <1>2, <1>2a
      <4>2. v[m] \in Nat /\ v[n] \in Nat /\ v[m] <= v[n] /\ v[n] < Word
        BY <1>10, <1>11, <4>1
      <4> QED
        BY <4>1, <4>2
    <3>3. w[m] = v[m] % Word
      BY <1>9, <3>1
    <3> QED
      BY <3>2, <3>3, FitsWord
  <2> HIDE DEF T
  <2>3. 0 .. n \subseteq T
    BY <1>2a, <2>1, <2>2, UpTo
  <2> QED
    BY <1>2, <2>3 DEF T
<1> QED
  BY <1>1, <1>3, <1>10, <1>12

-----------------------------------------------------------------------------
(* The digits typed last are those on the screen, whatever was typed before them. *)

\* There are c digits on the screen, after b that have been replaced.
OnScreen(b, c) ==
  /\ b \in Nat /\ c \in 0 .. TextLen /\ Len(typed) = b + c
  /\ \E q \in Nat : b = q * TextLen
  /\ b > 0 => c > 0
  /\ \A p \in 1 .. TextLen : text[p] = IF p <= c THEN typed[b + p] ELSE Blank
  /\ pos = IF c = TextLen THEN 1 ELSE c + 1

TypedInv ==
  /\ typed \in Seq(0 .. 9) /\ text \in [1 .. TextLen -> 0 .. Blank]
  /\ \E b, c \in Nat : OnScreen(b, c)

LEMMA NothingTyped ==
  ASSUME typed = <<>>, text = NoText, pos = 1 PROVE TypedInv
<1>1. OnScreen(0, 0)
  <2>1. 0 = 0 * TextLen /\ Len(typed) = 0
    BY PanelAssumption
  <2>2. pos = IF 0 = TextLen THEN 1 ELSE 0 + 1
    OBVIOUS
  <2>3. \A p \in 1 .. TextLen : text[p] = IF p <= 0 THEN typed[0 + p] ELSE Blank
    BY PanelAssumption DEF NoText
  <2> QED
    BY <2>1, <2>2, <2>3, PanelAssumption DEF OnScreen
<1> QED
  BY <1>1 DEF TypedInv, NoText, Blank

LEMMA TypedNothing ==
  ASSUME typed' = <<>>, text' = NoText, pos' = 1 PROVE TypedInv'
<1>1. OnScreen(0, 0)'
  <2>1. 0 = 0 * TextLen /\ Len(typed') = 0
    BY PanelAssumption
  <2>2. pos' = IF 0 = TextLen THEN 1 ELSE 0 + 1
    OBVIOUS
  <2>3. \A p \in 1 .. TextLen : text'[p] = IF p <= 0 THEN typed'[0 + p] ELSE Blank
    BY PanelAssumption DEF NoText
  <2> QED
    BY <2>1, <2>2, <2>3, PanelAssumption DEF OnScreen
<1> QED
  BY <1>1 DEF TypedInv, NoText, Blank

\* A digit goes behind those on the screen, or alone on a screen that was full.
LEMMA TypedDigit == ASSUME TypedInv, TypeKey PROVE TypedInv'
<1>1. PICK d \in DOMAIN Digit :
        /\ text' = [IF pos = 1 THEN NoText ELSE text EXCEPT ![pos] = Digit[d]]
        /\ typed' = Append(typed, Digit[d])
  BY DEF TypeKey
<1>2. pos' = IF pos = TextLen THEN 1 ELSE pos + 1
  BY DEF TypeKey
<1> DEFINE x == Digit[d]
<1>3. x \in 0 .. 9
  BY DEF Digit
<1> HIDE DEF x
<1>4. PICK b \in Nat, c \in Nat : OnScreen(b, c)
  BY DEF TypedInv
<1>5. /\ typed \in Seq(0 .. 9) /\ text \in [1 .. TextLen -> 0 .. Blank]
      /\ TextLen \in Nat /\ TextLen >= 1 /\ NoText \in [1 .. TextLen -> 0 .. Blank]
      /\ \A p \in 1 .. TextLen : NoText[p] = Blank
  BY PanelAssumption DEF TypedInv, NoText, Blank
<1>6. /\ typed' \in Seq(0 .. 9) /\ Len(typed') = Len(typed) + 1
      /\ \A p \in 1 .. Len(typed) : typed'[p] = typed[p]
      /\ typed'[Len(typed) + 1] = x
  BY <1>1, <1>3, <1>5 DEF x
<1>7. CASE c = TextLen
  <2>1. pos = 1 /\ Len(typed) = b + TextLen
    BY <1>4, <1>7 DEF OnScreen
  <2>2. text' = [NoText EXCEPT ![1] = x]
    BY <1>1, <2>1 DEF x
  <2>3. OnScreen(b + TextLen, 1)'
    <3>1. PICK q \in Nat : b = q * TextLen
      BY <1>4 DEF OnScreen
    <3>2. b + TextLen = (q + 1) * TextLen /\ q + 1 \in Nat
      BY <1>5, <3>1
    <3>3. \A p \in 1 .. TextLen : text'[p] = IF p <= 1 THEN typed'[b + TextLen + p] ELSE Blank
      <4> SUFFICES ASSUME NEW p \in 1 .. TextLen
                   PROVE  text'[p] = IF p <= 1 THEN typed'[b + TextLen + p] ELSE Blank
        OBVIOUS
      <4>1. CASE p = 1
        BY <1>5, <1>6, <2>1, <2>2, <4>1
      <4>2. CASE p # 1
        BY <1>5, <2>2, <4>2
      <4> QED
        BY <4>1, <4>2
    <3>4. pos' = IF 1 = TextLen THEN 1 ELSE 1 + 1
      BY <1>2, <2>1
    <3>5. /\ b + TextLen \in Nat /\ 1 \in 0 .. TextLen /\ Len(typed') = b + TextLen + 1
          /\ 1 > 0
      BY <1>5, <1>6, <2>1
    <3> QED
      BY <3>2, <3>3, <3>4, <3>5 DEF OnScreen
  <2>4. text' \in [1 .. TextLen -> 0 .. Blank]
    BY <1>3, <1>5, <2>2 DEF Blank
  <2>5. b + TextLen \in Nat /\ 1 \in Nat
    BY <1>5
  <2> QED
    BY <1>6, <2>3, <2>4, <2>5 DEF TypedInv
<1>8. CASE c # TextLen
  <2>1a. /\ c \in 0 .. TextLen /\ pos = c + 1 /\ Len(typed) = b + c
         /\ \A p \in 1 .. TextLen : text[p] = IF p <= c THEN typed[b + p] ELSE Blank
         /\ \E q \in Nat : b = q * TextLen
         /\ b > 0 => c > 0
    BY <1>4, <1>8, Zenon DEF OnScreen
  <2>1b. c + 1 \in 1 .. TextLen
    BY <1>5, <1>8, <2>1a
  <2>1. /\ c \in 0 .. TextLen /\ c + 1 \in 1 .. TextLen /\ pos = c + 1 /\ Len(typed) = b + c
        /\ \A p \in 1 .. TextLen : text[p] = IF p <= c THEN typed[b + p] ELSE Blank
        /\ \E q \in Nat : b = q * TextLen
        /\ b > 0 => c > 0
    BY <2>1a, <2>1b, Zenon
  <2>2. (IF pos = 1 THEN NoText ELSE text) = text
    <3>1. CASE pos = 1
      <4>1. c = 0
        BY <2>1, <3>1
      <4>2. \A p \in 1 .. TextLen : text[p] = NoText[p]
        BY <1>5, <2>1, <4>1
      <4> QED
        BY <1>5, <3>1, <4>2
    <3> QED
      BY <3>1
  <2>3. text' = [text EXCEPT ![c + 1] = x]
    BY <1>1, <2>1, <2>2 DEF x
  <2>4. OnScreen(b, c + 1)'
    <3>1. \A p \in 1 .. TextLen : text'[p] = IF p <= c + 1 THEN typed'[b + p] ELSE Blank
      <4> SUFFICES ASSUME NEW p \in 1 .. TextLen
                   PROVE  text'[p] = IF p <= c + 1 THEN typed'[b + p] ELSE Blank
        OBVIOUS
      <4>1. CASE p = c + 1
        BY <1>5, <1>6, <2>1, <2>3, <4>1
      <4>2. CASE p # c + 1
        <5>1. text'[p] = text[p]
          BY <1>5, <2>3, <4>2
        <5>2. p <= c + 1 <=> p <= c
          BY <2>1, <4>2
        <5>3. p <= c => typed'[b + p] = typed[b + p]
          BY <1>6, <2>1
        <5> QED
          BY <2>1, <5>1, <5>2, <5>3
      <4> QED
        BY <4>1, <4>2
    <3>2. pos' = IF c + 1 = TextLen THEN 1 ELSE (c + 1) + 1
      BY <1>2, <2>1
    <3>3. Len(typed') = b + (c + 1) /\ c + 1 \in 0 .. TextLen /\ c + 1 > 0
      BY <1>5, <1>6, <2>1
    <3> QED
      BY <2>1, <3>1, <3>2, <3>3 DEF OnScreen
  <2>5. text' \in [1 .. TextLen -> 0 .. Blank]
    <3>1. x \in 0 .. Blank
      BY <1>3 DEF Blank
    <3> QED
      BY <1>5, <2>3, <3>1
  <2> QED
    BY <1>6, <2>4, <2>5 DEF TypedInv
<1> QED
  BY <1>7, <1>8

LEMMA TypedInvNext == TypedInv /\ [Next]_vars => TypedInv'
<1> SUFFICES ASSUME TypedInv, [Next]_vars PROVE TypedInv' OBVIOUS
<1>1. CASE TypeKey
  BY <1>1, TypedDigit
<1>2. CASE Select \/ Clear
  <2>1. typed' = <<>> /\ text' = NoText /\ pos' = 1
    BY <1>2 DEF Select, Clear
  <2> QED
    BY <2>1, TypedNothing
<1>3. CASE UNCHANGED <<typed, text, pos>>
  BY <1>3 DEF TypedInv, OnScreen
<1>4. TypeKey \/ Select \/ Clear \/ UNCHANGED <<typed, text, pos>>
  BY Zenon DEF Next, Lcd, OtherMenu, Up, Down, Back, ListOnly, Cancel, Send, EditOnly, ScanKeys,
     Operate, LetGo, Others, vars, editor
<1> QED BY <1>1, <1>2, <1>3, <1>4

LEMMA Quotient ==
  ASSUME NEW n \in Nat \ {0}, NEW q \in Nat, NEW y \in Nat, y >= q * n, y < (q + 1) * n
  PROVE  y \div n = q
  OBVIOUS

\* The digits that are read are the last ones typed.
LEMMA LastAreShown ==
  ASSUME TypedInv
  PROVE  Shows(IF typed = <<>> THEN <<>> ELSE LastDigits(typed))
<1>1. PICK b \in Nat, c \in Nat : OnScreen(b, c)
  BY DEF TypedInv
<1>2. /\ TextLen \in Nat \ {0} /\ typed \in Seq(0 .. 9) /\ Len(typed) = b + c /\ c <= TextLen
      /\ b > 0 => c > 0
      /\ \A p \in 1 .. TextLen : text[p] = IF p <= c THEN typed[b + p] ELSE Blank
  <2>1. /\ typed \in Seq(0 .. 9) /\ Len(typed) = b + c /\ c \in 0 .. TextLen
        /\ b > 0 => c > 0
        /\ \A p \in 1 .. TextLen : text[p] = IF p <= c THEN typed[b + p] ELSE Blank
    BY <1>1, Zenon DEF OnScreen, TypedInv
  <2>2. TextLen \in Nat \ {0}
    BY PanelAssumption
  <2>3. c <= TextLen
    BY <2>1, <2>2
  <2> QED
    BY <2>1, <2>2, <2>3, Zenon
<1>3. CASE typed = <<>>
  <2>1. c = 0
    BY <1>2, <1>3
  <2> QED
    BY <1>2, <1>3, <2>1 DEF Shows
<1>4. CASE typed # <<>>
  <2>1. Len(typed) \in Nat \ {0}
    BY <1>2, <1>4
  <2>2. c >= 1
    BY <1>2, <2>1
  <2>3. PICK q \in Nat : b = q * TextLen
    BY <1>1 DEF OnScreen
  <2>4. (Len(typed) - 1) \div TextLen = q
    <3> DEFINE y == Len(typed) - 1
    <3>1. y \in Nat /\ y >= b /\ y < b + TextLen
      BY <1>2, <2>2
    <3>2. b + TextLen = (q + 1) * TextLen
      BY <1>2, <2>3
    <3> HIDE DEF y
    <3>3. y \div TextLen = q
      BY <1>2, <2>3, <3>1, <3>2, Quotient
    <3> QED
      BY <3>3 DEF y
  <2>5. LastDigits(typed) = SubSeq(typed, b + 1, b + c)
    BY <1>2, <2>3, <2>4 DEF LastDigits
  <2> DEFINE s == SubSeq(typed, b + 1, b + c)
  <2>6. s \in Seq(0 .. 9) /\ Len(s) = c /\ \A p \in 1 .. c : s[p] = typed[b + p]
    BY <1>2
  <2> HIDE DEF s
  <2>7. Shows(s)
    BY <1>2, <2>6 DEF Shows
  <2> QED
    BY <1>4, <2>5, <2>7 DEF s
<1> QED
  BY <1>3, <1>4

\* What is sent goes to the variable under the cursor, and is the number typed last, within the
\* limits: for values of every length, words of every size, and however often digits were typed
\* over (edit_var_menu.c:69-213, write_var_to_plc of menu.c).
THEOREM WhatIsMeantIsSent == Spec => SentIsMeant
<1>1. Init => TypedInv
  BY NothingTyped DEF Init
<1>2. TypedInv /\ ListInv /\ [Next]_vars =>
        [Send /\ plc_can_link # 0 =>
           /\ sent'.var = Selected
           /\ LET s == IF typed = <<>> THEN <<>> ELSE LastDigits(typed)
              IN (\A n \in DOMAIN s : s[n] # 9) /\ Number(s) < Word
                   => sent'.value = Limited(Number(s))]_vars
  <2> SUFFICES ASSUME TypedInv, ListInv, Send, plc_can_link # 0
               PROVE  /\ sent'.var = Selected
                      /\ LET s == IF typed = <<>> THEN <<>> ELSE LastDigits(typed)
                         IN (\A n \in DOMAIN s : s[n] # 9) /\ Number(s) < Word
                              => sent'.value = Limited(Number(s))
    BY Zenon
  <2>1. menu = "edit_var" /\ sent' = [var |-> edit_var, value |-> Limited(Value)]
    BY DEF Send, EditFrame, Frame
  <2>2. sent'.var = edit_var /\ sent'.value = Limited(Value)
    BY <2>1
  <2>3. sent'.var = Selected
    BY <2>1, <2>2 DEF ListInv, EditedIsSelected
  <2> DEFINE s == IF typed = <<>> THEN <<>> ELSE LastDigits(typed)
  <2>4. Shows(s) /\ text \in [1 .. TextLen -> 0 .. Blank]
    BY LastAreShown DEF TypedInv
  <2> HIDE DEF s
  <2>5. (\A n \in DOMAIN s : s[n] # 9) /\ Number(s) < Word => Value = Number(s)
    BY <2>4, ValueIs
  <2>6. (\A n \in DOMAIN s : s[n] # 9) /\ Number(s) < Word => sent'.value = Limited(Number(s))
    BY <2>2, <2>5
  <2> QED
    BY <2>3, <2>6 DEF s
<1> QED
  BY <1>1, <1>2, TypedInvNext, ListInvInit, ListInvNext, PTL DEF Spec, SentIsMeant
=============================================================================
