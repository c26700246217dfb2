--------------------------- MODULE MessageScanner ---------------------------
(***************************************************************************)
(* The message bits (message_scaner.c).  At the start of each frame the    *)
(* LCD task reads the bit of every message and adds a record when it has   *)
(* risen; the receive interrupt, the network task at the loss of the link  *)
(* and the operator change the bits.  The state menu reads them into the   *)
(* same values, in between.                                                *)
(***************************************************************************)
EXTENDS Naturals

CONSTANT
  MsgCnt        \* messages in use

ASSUME ScannerAssumption == MsgCnt \in Nat

VARIABLES
  bits,         \* the bit of each message
  value, prev_value,
  i,            \* the message to scan next, MsgCnt + 1 when all are done
  \* history
  past          \* of each message: "noted" since its record, "fell" since, or "low" when a
                \* scan has seen that

Messages == 1 .. MsgCnt
scan == <<value, prev_value, i, past>>
messages == <<bits, scan>>

ScannerInit ==
  /\ bits = [m \in Messages |-> FALSE]
  /\ value = [m \in Messages |-> FALSE] /\ prev_value = [m \in Messages |-> FALSE]
  /\ i = 1
  /\ past = [m \in Messages |-> "low"]

Change ==
  /\ \E m \in Messages :
        /\ bits' = [bits EXCEPT ![m] = ~@]
        /\ past' = IF bits[m] /\ past[m] = "noted" THEN [past EXCEPT ![m] = "fell"] ELSE past
  /\ UNCHANGED <<value, prev_value, i>>

Rises(new) == new # prev_value[i] /\ new

\* A faulty scan: the value before is not kept.
ScanMessageWithoutPrev ==
  /\ i \in Messages
  /\ value' = [value EXCEPT ![i] = bits[i]]
  /\ past' = CASE Rises(bits[i]) -> [past EXCEPT ![i] = "noted"]
               [] ~bits[i]       -> [past EXCEPT ![i] = "low"]
               [] OTHER          -> past
  /\ i' = i + 1
  /\ UNCHANGED <<bits, prev_value>>

\* scan_messages, one message: its bit is read once.
ScanMessage ==
  /\ i \in Messages
  /\ value' = [value EXCEPT ![i] = bits[i]]
  /\ past' = CASE Rises(bits[i]) -> [past EXCEPT ![i] = "noted"]
               [] ~bits[i]       -> [past EXCEPT ![i] = "low"]
               [] OTHER          -> past
  /\ prev_value' = [prev_value EXCEPT ![i] = bits[i]]
  /\ i' = i + 1
  /\ UNCHANGED bits

ScanDone == i \notin Messages
NextScan == i' = 1 /\ UNCHANGED <<bits, past>>

\* A faulty count: it brings the value before up to date as well.
CountActiveAsSeen == value' = bits /\ prev_value' = bits

\* get_active_messages_cnt and get_message_by_number: the bits are read again, one after the
\* other; only the values are kept, so all of them are taken at once.
CountActive == value' = bits /\ UNCHANGED prev_value

-----------------------------------------------------------------------------
ScannerTypes ==
  /\ bits \in [Messages -> BOOLEAN] /\ value \in [Messages -> BOOLEAN]
  /\ prev_value \in [Messages -> BOOLEAN]
  /\ i \in 1 .. MsgCnt + 1
  /\ past \in [Messages -> {"noted", "fell", "low"}]

\* An alarm is recorded once (message_scaner.c:19-49): between two records of a message its
\* bit has been low, whatever the state menu reads in between.
RecordedOnce == [][ScanMessage /\ Rises(bits[i]) => past[i] # "noted"]_messages

\* An alarm is recorded (message_scaner.c:19-49): a bit that has risen after a scan saw it
\* low gets a record, unless it falls first.
AlarmIsRecorded ==
  \A m \in Messages : (bits[m] /\ past[m] = "low") ~> (past[m] = "noted" \/ ~bits[m])
=============================================================================
