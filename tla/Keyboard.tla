------------------------------ MODULE Keyboard ------------------------------
(***************************************************************************)
(* The keyboard (keyboard.c) and the edge that the LCD task takes from it  *)
(* (display_task.c).  The keyboard task reads the rows of the matrix one   *)
(* tick after the other and publishes the union; the LCD task makes a      *)
(* command of what is published when it differs from what it saw a frame   *)
(* ago.  Keys change at any moment, also between two rows of one scan.     *)
(* A set of keys stands for the word with their bits.                      *)
(***************************************************************************)
EXTENDS Naturals, Integers, Sequences, FiniteSets

CONSTANTS
  Rows,         \* the rows of the matrix in the order of the scan: a sequence of sets of keys
  MaxDown       \* bound on the keys held at once

Keys == UNION {Rows[r] : r \in DOMAIN Rows}

\* Every key is in one row.
ASSUME RowsAssumption ==
  /\ Rows \in Seq(SUBSET Keys) /\ Rows # <<>>
  /\ \A r, s \in DOMAIN Rows : r # s => Rows[r] \cap Rows[s] = {}

VARIABLES
  down,         \* the keys held
  row,          \* the row to be read next
  tmp,          \* what this scan has read
  key,          \* what the last whole scan has read
  prev_key,     \* what the LCD task saw in its last frame
  \* history
  credit,       \* presses of each key that no command has answered
  owed          \* keys held whose press must become a command

scanner == <<row, tmp, key>>
kept == <<credit, owed>>
keyboard == <<down, scanner, prev_key, kept>>

KeyboardInit ==
  /\ down = {} /\ row = 1 /\ tmp = {} /\ key = {} /\ prev_key = {}
  /\ credit = [k \in Keys |-> 0] /\ owed = {}

-----------------------------------------------------------------------------
(* The operator. *)

\* A press counts as owed when neither the scan under way, nor the word published, nor
\* the frame before has the key: else it may be taken for a key that was held on.
Press(k) ==
  /\ k \notin down /\ Cardinality(down) < MaxDown
  /\ down' = down \cup {k}
  /\ credit' = [credit EXCEPT ![k] = @ + 1]
  /\ owed' = IF k \in tmp \cup key \cup prev_key THEN owed ELSE owed \cup {k}
  /\ UNCHANGED <<scanner, prev_key>>

Release ==
  /\ \E k \in down : down' = down \ {k} /\ owed' = owed \ {k}
  /\ UNCHANGED <<scanner, prev_key, credit>>

-----------------------------------------------------------------------------
(* The keyboard task. *)

Seen == tmp \cup (down \cap Rows[row])

\* A faulty scan: every row goes to the word that others read as soon as it is read.
ReadRowUnbuffered ==
  /\ row < Len(Rows)
  /\ tmp' = Seen /\ key' = Seen /\ row' = row + 1
  /\ UNCHANGED <<down, prev_key, kept>>

ReadRow ==
  /\ row < Len(Rows)
  /\ tmp' = Seen /\ row' = row + 1
  /\ UNCHANGED <<down, key, prev_key, kept>>

Publish ==
  /\ row = Len(Rows)
  /\ key' = Seen
  /\ tmp' = {} /\ row' = 1
  /\ UNCHANGED <<down, prev_key, kept>>

Scan == ReadRow \/ Publish

-----------------------------------------------------------------------------
(* The LCD task, once a frame. *)

\* A faulty edge: a command needs a frame without any key before it.
CommandFromRest == IF key # {} /\ prev_key = {} THEN key ELSE {}

Command == IF key # {} /\ key # prev_key THEN key ELSE {}

\* One of two keys is let go: the other is commanded though it was not pressed again, so
\* that command uses up no press.
TakeKey ==
  /\ prev_key' = key
  /\ owed' = owed \ (IF Cardinality(Command) = 1 THEN Command ELSE {})
  /\ credit' = [k \in Keys |-> credit[k] - (IF Command = {k} /\ k \notin prev_key THEN 1 ELSE 0)]
  /\ UNCHANGED <<down, scanner>>

-----------------------------------------------------------------------------
KeyboardTypes ==
  /\ down \subseteq Keys /\ tmp \subseteq Keys /\ key \subseteq Keys /\ prev_key \subseteq Keys
  /\ row \in DOMAIN Rows
  /\ credit \in [Keys -> Int] /\ owed \subseteq down

\* No command without a press (keyboard.c:61-103, display_task.c:87-91): however the keys
\* change during the scans, a key is not commanded more often than it was pressed, except
\* when the release of another key leaves it alone on the keyboard.
KeysArePresses == \A k \in Keys : credit[k] >= 0

\* A press is answered (display_task.c:87-91): a key that was not seen before it was pressed,
\* and is held alone, becomes a command, unless it is let go or another is pressed first.
Waiting == owed # {} /\ Cardinality(down) = 1
PressIsTaken == Waiting ~> ~Waiting
=============================================================================
