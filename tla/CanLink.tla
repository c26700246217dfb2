------------------------------- MODULE CanLink -------------------------------
(***************************************************************************)
(* The link with the PLC, where three actors meet in plain variables:      *)
(*   - the CAN receive interrupt (check_can_rx_data, can.c), which comes   *)
(*     between any two statements of the tasks;                            *)
(*   - the network task (main.c), which counts the ticks since the last    *)
(*     heartbeat of the PLC and declares the link lost;                    *)
(*   - the CAN task (can_task.c), which tells the PLC of the display's     *)
(*     digital inputs when they change, and of all of them when the link   *)
(*     comes up.                                                           *)
(*                                                                         *)
(* A read-modify-write of a variable the interrupt writes is two steps.    *)
(* What the PLC is told reaches it: the way there is module CanTxStack.    *)
(* get_io_names_flag is left out: nothing but its own counter reads it.    *)
(***************************************************************************)
EXTENDS Integers, FiniteSets

CONSTANTS
  Inputs,         \* the digital inputs
  Nodes,          \* PLC addresses in the cluster, 0 the first
  HbLimit,        \* ticks of silence that lose the link (3000)
  DiPeriod,       \* cycles of the CAN task from one report to the next (20)
  MaxHeartbeats,  \* bound of the model: heartbeats
  MaxChanges,     \* bound of the model: changes of an input
  MaxRestarts     \* bound of the model: restarts of the PLC

ASSUME LinkAssumption ==
  /\ 0 \in Nodes
  /\ HbLimit \in Nat \ {0}
  /\ DiPeriod \in Nat \ {0}
  /\ MaxHeartbeats \in Nat /\ MaxChanges \in Nat /\ MaxRestarts \in Nat

VARIABLES
  hb_cnt,        \* ticks counted since the last heartbeat
  plc_can_link,
  plc_link,      \* cluster_data.plc_link: the nodes shown as linked
  plc_data,      \* "reset", or "received" since reset_plc_data
  npc,           \* next statement of the network task
  hb_reg,        \* hb_cnt in a register of the network task
  alarmed,       \* did it archive the loss it is handling?
  update_di,     \* the inputs to report
  prev_di,       \* the inputs in the cycle before
  cpc,           \* next statement of the CAN task
  cur_di,        \* its sample of the inputs
  changed,       \* inputs still to be marked in update_di
  di_reg,        \* update_di in a register of the CAN task, then di_mask
  di_tmr,
  di,            \* the input pins
  known,         \* what the PLC knows of the inputs: 0, 1 or Unknown
  \* history
  silence,       \* ticks since the last heartbeat, up to HbLimit
  overtaken,     \* did the last heartbeat come in the middle of the count?
  refreshed,     \* did the last link up mark every input since the PLC restarted?
  heartbeats, changes, restarts

link == <<hb_cnt, plc_can_link, plc_link, plc_data>>
network == <<npc, hb_reg, alarmed>>
canTask == <<prev_di, cpc, cur_di, changed, di_reg, di_tmr>>
plc == <<known, restarts>>
pins == <<di, changes>>
watch == <<silence, overtaken>>
linkVars == <<link, network, update_di, canTask, plc, pins, watch, refreshed, heartbeats>>

Unknown == 2

LinkInit ==
  /\ hb_cnt = 0 /\ plc_can_link = 0 /\ plc_link = {} /\ plc_data = "reset"
  /\ npc = "load" /\ hb_reg = 0 /\ alarmed = FALSE
  /\ update_di = {} /\ prev_di = [i \in Inputs |-> 0]
  /\ cpc = "sample" /\ cur_di = [i \in Inputs |-> 0] /\ changed = {} /\ di_reg = {}
  /\ di_tmr = 0
  /\ di \in [Inputs -> {0, 1}]
  /\ known = [i \in Inputs |-> Unknown]
  /\ silence = 0 /\ overtaken = FALSE /\ refreshed = FALSE
  /\ heartbeats = 0 /\ changes = 0 /\ restarts = 0

-----------------------------------------------------------------------------
(* The receive interrupt. *)

\* Where in its loop the network task takes a heartbeat in full; elsewhere it is
\* about to overwrite the count or the link.
Steady == {"load", "unlink", "reset"}

\* Where in its loop the CAN task writes an update_di it has read before.
Marking == {"store", "send", "clear"}

\* Faulty variant of Heartbeat: the count restarts only when the link comes up.
HeartbeatKeepsCount(node) ==
  /\ heartbeats < MaxHeartbeats
  /\ heartbeats' = heartbeats + 1
  /\ hb_cnt' = IF plc_can_link = 0 THEN 0 ELSE hb_cnt
  /\ IF plc_can_link = 0
     THEN update_di' = Inputs /\ refreshed' = (cpc \notin Marking)
     ELSE UNCHANGED <<update_di, refreshed>>
  /\ plc_can_link' = 1
  /\ plc_link' = plc_link \cup {node}
  /\ silence' = 0
  /\ overtaken' = (npc \notin Steady)
  /\ UNCHANGED <<plc_data, network, canTask, plc, pins>>

\* A heartbeat of a PLC of cluster 0.
Heartbeat(node) ==
  /\ heartbeats < MaxHeartbeats
  /\ heartbeats' = heartbeats + 1
  /\ hb_cnt' = 0
  /\ IF plc_can_link = 0
     THEN update_di' = Inputs /\ refreshed' = (cpc \notin Marking)
     ELSE UNCHANGED <<update_di, refreshed>>
  /\ plc_can_link' = 1
  /\ plc_link' = plc_link \cup {node}
  /\ silence' = 0
  /\ overtaken' = (npc \notin Steady)
  /\ UNCHANGED <<plc_data, network, canTask, plc, pins>>

\* Any other packet: events carry data, whether or not the link is up.
Event ==
  /\ plc_data = "reset"
  /\ plc_data' = "received"
  /\ UNCHANGED <<hb_cnt, plc_can_link, plc_link, network, update_di, canTask, plc, pins,
                 watch, refreshed, heartbeats>>

-----------------------------------------------------------------------------
(* The network task. *)

LoadCount ==
  /\ npc = "load"
  /\ hb_reg' = hb_cnt + 1
  /\ npc' = "store"
  /\ UNCHANGED <<link, alarmed, update_di, canTask, plc, pins, watch, refreshed, heartbeats>>

StoreCount ==
  /\ npc = "store"
  /\ hb_cnt' = hb_reg
  /\ silence' = IF silence < HbLimit THEN silence + 1 ELSE silence
  /\ npc' = "check"
  /\ UNCHANGED <<plc_can_link, plc_link, plc_data, hb_reg, alarmed, update_di, canTask,
                 plc, pins, overtaken, refreshed, heartbeats>>

\* Faulty variant of CheckCount: the limit itself does not count.
CheckCountLate ==
  /\ npc = "check"
  /\ \E count \in {hb_reg, hb_cnt} : npc' = IF count > HbLimit THEN "loss" ELSE "load"
  /\ UNCHANGED <<link, hb_reg, alarmed, update_di, canTask, plc, pins, watch, refreshed,
                 heartbeats>>

\* hb_cnt is not volatile: the build may compare the register or read it again.
CheckCount ==
  /\ npc = "check"
  /\ \E count \in {hb_reg, hb_cnt} : npc' = IF count >= HbLimit THEN "loss" ELSE "load"
  /\ UNCHANGED <<link, hb_reg, alarmed, update_di, canTask, plc, pins, watch, refreshed,
                 heartbeats>>

\* Archive the loss of a link that was up: it takes as long as the flash does.
ArchiveLoss ==
  /\ npc = "loss"
  /\ alarmed' = (plc_can_link = 1)
  /\ npc' = "zero"
  /\ UNCHANGED <<link, hb_reg, update_di, canTask, plc, pins, watch, refreshed, heartbeats>>

ZeroCount ==
  /\ npc = "zero"
  /\ hb_cnt' = 0
  /\ npc' = "drop"
  /\ UNCHANGED <<plc_can_link, plc_link, plc_data, hb_reg, alarmed, update_di, canTask,
                 plc, pins, watch, refreshed, heartbeats>>

\* Faulty variant of DropLink: looks at the count after it was zeroed.
DropLinkIfSilent ==
  /\ npc = "drop"
  /\ plc_can_link' = IF hb_cnt > 0 THEN 0 ELSE plc_can_link
  /\ overtaken' = FALSE
  /\ npc' = "unlink"
  /\ UNCHANGED <<hb_cnt, plc_link, plc_data, hb_reg, alarmed, update_di, canTask, plc,
                 pins, silence, refreshed, heartbeats>>

DropLink ==
  /\ npc = "drop"
  /\ plc_can_link' = 0
  /\ overtaken' = FALSE
  /\ npc' = "unlink"
  /\ UNCHANGED <<hb_cnt, plc_link, plc_data, hb_reg, alarmed, update_di, canTask, plc,
                 pins, silence, refreshed, heartbeats>>

\* Faulty variant of Unlink: no node is unlinked.
UnlinkNone ==
  /\ npc = "unlink"
  /\ npc' = "reset"
  /\ UNCHANGED <<link, hb_reg, alarmed, update_di, canTask, plc, pins, watch, refreshed,
                 heartbeats>>

Unlink ==
  /\ npc = "unlink"
  /\ plc_link' = plc_link \ {0}
  /\ npc' = "reset"
  /\ UNCHANGED <<hb_cnt, plc_can_link, plc_data, hb_reg, alarmed, update_di, canTask,
                 plc, pins, watch, refreshed, heartbeats>>

ResetPlcData ==
  /\ npc = "reset"
  /\ plc_data' = "reset"
  /\ alarmed' = FALSE
  /\ npc' = "load"
  /\ UNCHANGED <<hb_cnt, plc_can_link, plc_link, hb_reg, update_di, canTask, plc, pins,
                 watch, refreshed, heartbeats>>

NetworkTask ==
  \/ LoadCount \/ StoreCount \/ CheckCount \/ ArchiveLoss \/ ZeroCount \/ DropLink
  \/ Unlink \/ ResetPlcData

-----------------------------------------------------------------------------
(* The CAN task: update_di_data. *)

SampleInputs ==
  /\ cpc = "sample"
  /\ cur_di' = di
  /\ changed' = {i \in Inputs : prev_di[i] # di[i]}
  /\ cpc' = "mark"
  /\ UNCHANGED <<link, network, update_di, prev_di, di_reg, di_tmr, plc, pins, watch,
                 refreshed, heartbeats>>

LoadUpdate ==
  /\ cpc = "mark"
  /\ changed # {}
  /\ di_reg' = update_di
  /\ cpc' = "store"
  /\ UNCHANGED <<link, network, update_di, prev_di, cur_di, changed, di_tmr, plc, pins,
                 watch, refreshed, heartbeats>>

StoreUpdate ==
  /\ cpc = "store"
  /\ \E i \in changed : /\ update_di' = di_reg \cup {i}
                        /\ changed' = changed \ {i}
  /\ cpc' = "mark"
  /\ UNCHANGED <<link, network, prev_di, cur_di, di_reg, di_tmr, plc, pins, watch,
                 refreshed, heartbeats>>

\* Faulty variant of TakeMask: the timer restarts only after a report.
TakeMaskNoRestart ==
  /\ cpc = "mark"
  /\ changed = {}
  /\ IF di_tmr + 1 = DiPeriod /\ update_di # {}
     THEN di_reg' = update_di /\ cpc' = "send" /\ UNCHANGED di_tmr
     ELSE /\ di_tmr' = IF di_tmr < DiPeriod THEN di_tmr + 1 ELSE di_tmr
          /\ cpc' = "keep" /\ UNCHANGED di_reg
  /\ UNCHANGED <<link, network, update_di, prev_di, cur_di, changed, plc, pins, watch,
                 refreshed, heartbeats>>

TakeMask ==
  /\ cpc = "mark"
  /\ changed = {}
  /\ IF di_tmr + 1 < DiPeriod
     THEN di_tmr' = di_tmr + 1 /\ cpc' = "keep" /\ UNCHANGED di_reg
     ELSE IF update_di = {}
     THEN di_tmr' = 0 /\ cpc' = "keep" /\ UNCHANGED di_reg
     ELSE di_reg' = update_di /\ cpc' = "send" /\ UNCHANGED di_tmr
  /\ UNCHANGED <<link, network, update_di, prev_di, cur_di, changed, plc, pins, watch,
                 refreshed, heartbeats>>

\* Faulty variant of SendDigits: reports the sample of the cycle before.
SendDigitsOld ==
  /\ cpc = "send"
  /\ known' = [i \in Inputs |-> IF i \in di_reg THEN prev_di[i] ELSE known[i]]
  /\ cpc' = "clear"
  /\ UNCHANGED <<link, network, update_di, prev_di, cur_di, changed, di_reg, di_tmr,
                 restarts, pins, watch, refreshed, heartbeats>>

SendDigits ==
  /\ cpc = "send"
  /\ known' = [i \in Inputs |-> IF i \in di_reg THEN cur_di[i] ELSE known[i]]
  /\ cpc' = "clear"
  /\ UNCHANGED <<link, network, update_di, prev_di, cur_di, changed, di_reg, di_tmr,
                 restarts, pins, watch, refreshed, heartbeats>>

ClearUpdate ==
  /\ cpc = "clear"
  /\ update_di' = {}
  /\ di_tmr' = 0
  /\ cpc' = "keep"
  /\ UNCHANGED <<link, network, prev_di, cur_di, changed, di_reg, plc, pins, watch,
                 refreshed, heartbeats>>

KeepInputs ==
  /\ cpc = "keep"
  /\ prev_di' = cur_di
  /\ cpc' = "sample"
  /\ UNCHANGED <<link, network, update_di, cur_di, changed, di_reg, di_tmr, plc, pins,
                 watch, refreshed, heartbeats>>

ReportTask ==
  \/ SampleInputs \/ LoadUpdate \/ StoreUpdate \/ TakeMask \/ SendDigits \/ ClearUpdate
  \/ KeepInputs

-----------------------------------------------------------------------------
(* The world. *)

ChangeInput(i) ==
  /\ changes < MaxChanges
  /\ changes' = changes + 1
  /\ di' = [di EXCEPT ![i] = 1 - @]
  /\ UNCHANGED <<link, network, update_di, canTask, plc, watch, refreshed, heartbeats>>

\* The PLC restarts and forgets the inputs of the display.
RestartPlc ==
  /\ restarts < MaxRestarts
  /\ restarts' = restarts + 1
  /\ known' = [i \in Inputs |-> Unknown]
  /\ refreshed' = FALSE
  /\ UNCHANGED <<link, network, update_di, canTask, pins, watch, heartbeats>>

LinkNext ==
  \/ \E node \in Nodes : Heartbeat(node)
  \/ Event
  \/ NetworkTask
  \/ ReportTask
  \/ \E i \in Inputs : ChangeInput(i)
  \/ RestartPlc

LinkSpec == LinkInit /\ [][LinkNext]_linkVars

\* Both tasks loop for ever and are scheduled for ever, one tick apart at most.
LinkFairSpec == LinkSpec /\ WF_linkVars(NetworkTask) /\ WF_linkVars(ReportTask)

-----------------------------------------------------------------------------
(* Properties. *)

CountTypes ==
  /\ hb_cnt \in 0 .. HbLimit /\ hb_reg \in 0 .. HbLimit
  /\ npc = "load" => hb_cnt < HbLimit
  /\ plc_can_link \in {0, 1} /\ plc_link \subseteq Nodes
  /\ plc_data \in {"reset", "received"}
  /\ npc \in Steady \cup {"store", "check", "loss", "zero", "drop"}
  /\ silence \in 0 .. HbLimit
  /\ heartbeats \in Nat /\ changes \in Nat /\ restarts \in Nat

ReportTypes ==
  /\ update_di \subseteq Inputs /\ changed \subseteq Inputs /\ di_reg \subseteq Inputs
  /\ prev_di \in [Inputs -> {0, 1}] /\ cur_di \in [Inputs -> {0, 1}] /\ di \in [Inputs -> {0, 1}]
  /\ known \in [Inputs -> {0, 1, Unknown}]
  /\ cpc \in Marking \cup {"sample", "mark", "keep"}
  /\ di_tmr \in 0 .. DiPeriod - 1

FlagTypes == alarmed \in BOOLEAN /\ overtaken \in BOOLEAN /\ refreshed \in BOOLEAN

LinkTypeOK == CountTypes /\ ReportTypes /\ FlagTypes

\* A link that was up is dropped only after HbLimit ticks of silence, and the
\* loss is in the archive; except when the heartbeat came in the middle of the
\* count or of the handling of a loss.
LossOnlyAfterSilence ==
  [][ plc_can_link = 1 /\ plc_can_link' = 0 =>
        overtaken \/ (silence >= HbLimit /\ alarmed) ]_plc_can_link

\* After HbLimit ticks of silence and one more pass the link is down, and PLC 0
\* is not shown as linked, whatever the interrupt came between.
SilenceIsSeen ==
  npc = "load" => /\ silence >= HbLimit => plc_can_link = 0
                  /\ plc_can_link = 0 => 0 \notin plc_link

\* Once a link up has marked every input, the PLC knows each input as it was in
\* the last cycle, or the input is marked; except when the heartbeat came where
\* the CAN task was about to write an update_di it had read before.
ReportedUnlessMarked ==
  cpc = "sample" /\ refreshed =>
    \A i \in Inputs : i \in update_di \/ known[i] = prev_di[i]

\* When the PLC falls silent, the link is down in the end.
LinkIsLost == <>[](plc_can_link = 0)

\* When the inputs come to rest, the PLC knows them in the end.
InputsAreReported == <>[](refreshed => known = di)

=============================================================================
