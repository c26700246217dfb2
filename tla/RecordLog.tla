------------------------------ MODULE RecordLog ------------------------------
(***************************************************************************)
(* What the message archive promises its users (the alarm list, the state  *)
(* screen): the last Capacity records, the newest first.  Records are      *)
(* numbered in the order in which they are added.                          *)
(*                                                                         *)
(* Some accidents damage the log.  It then shows no more than old records, *)
(* in any order, after the records added since; clearing it, or adding     *)
(* Healing records, makes it whole again.                                  *)
(***************************************************************************)
EXTENDS Naturals, Sequences

CONSTANTS
  Capacity,
  Healing,     \* records that make a damaged log whole again
  Junk,        \* what may be taken for a record in a damaged log
  MaxRecords   \* bound

VARIABLES
  log,
  added,
  sound,   \* is the log known to be whole?
  since    \* records added since it was damaged

logVars == <<log, added, sound, since>>

Newest(s, n) == SubSeq(s, 1, IF Len(s) < n THEN Len(s) ELSE n)

Init ==
  /\ added \in 0 .. MaxRecords
  /\ log = [k \in 1 .. (IF added < Capacity THEN added ELSE Capacity) |-> added - k + 1]
  /\ sound = TRUE /\ since = 0

Add ==
  /\ added < MaxRecords
  /\ added' = added + 1
  /\ since' = IF sound THEN 0 ELSE since + 1
  /\ log' = Newest(<<added + 1>> \o log, Capacity)
  /\ sound' = (sound \/ since + 1 >= Healing)

\* While it is damaged, an old record may come to light behind the new ones.
AddToDamaged ==
  /\ ~sound
  /\ added < MaxRecords
  /\ added' = added + 1
  /\ since' = since + 1
  /\ sound' = (since' >= Healing)
  /\ log' \in Seq(1 .. added' \cup Junk)
  /\ Len(log') <= Capacity
  /\ LET n == IF since' < Capacity THEN since' ELSE Capacity
     IN  Len(log') >= n /\ \A k \in 1 .. n : log'[k] = added' - k + 1

Clear == log' = <<>> /\ sound' = TRUE /\ since' = 0 /\ UNCHANGED added

Damage ==
  /\ sound' = FALSE
  /\ since' = 0
  /\ UNCHANGED <<log, added>>

\* No record was added whole since the damage: any may be on show, also one that
\* the accident interrupted.
Surface ==
  /\ ~sound /\ since = 0
  /\ added' \in added .. MaxRecords
  /\ log' \in Seq(1 .. added' \cup Junk)
  /\ Len(log') <= Capacity
  /\ UNCHANGED <<sound, since>>

Next == Add \/ AddToDamaged \/ Clear \/ Damage \/ Surface

Spec == Init /\ [][Next]_logVars

=============================================================================
