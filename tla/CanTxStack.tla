----------------------------- MODULE CanTxStack -----------------------------
(***************************************************************************)
(* The CAN transmit ring of can_tx_stack.c, its producers (can_cmd.c, run  *)
(* by the CAN task and by the display task) and its one consumer           *)
(* (can_write_from_stack of can.c, run by the CAN task).                   *)
(*                                                                         *)
(* The tasks have the same priority and are time sliced, and no lock       *)
(* guards the ring, so the statements of two tasks interleave.  One action *)
(* is one store to the shared ring (or a group of stores that no other     *)
(* task can tell apart).  A packet is its number: the n-th call of         *)
(* add_tx_can_packet queues packet n.  A slot keeps the packet its payload *)
(* bytes came from (data) and the packet its id and length came from (hdr) *)
(* apart, so that a torn packet is one with hdr # data.                    *)
(***************************************************************************)
EXTENDS Integers, FiniteSets

CONSTANTS
  Tasks,          \* the tasks that call add_tx_can_packet
  CanTask,        \* the task that also drains the ring
  StackLength,    \* CAN_TX_STACK_LENGTH
  Mailboxes,      \* transmit mailboxes of the controller
  TryLimit,       \* bound of the loop of can_write_from_stack
  TxTmrGap,       \* CAN_TX_TMR_GAP
  TxTmrPeriod,    \* the network task restarts can1_tx_tmr at this value
  MaxAdded        \* bound of the model: calls of add_tx_can_packet

ASSUME TaskAssumption == CanTask \in Tasks
ASSUME SizeAssumption ==
  /\ StackLength \in Nat \ {0}
  /\ Mailboxes \in Nat \ {0}
  /\ TryLimit \in Nat \ {0}
  /\ TxTmrGap \in Nat
  /\ TxTmrPeriod \in Nat \ {0}
  /\ MaxAdded \in Nat

VARIABLES
  packet,          \* the slots of the ring
  read_position,
  write_position,
  pc,              \* next statement of each task
  wr_pos,          \* add_tx_can_packet's local copy of write_position
  arg,             \* the packet each task is queueing
  copy,            \* the packet can_write_from_stack copies out of the ring
  try,             \* packets tried in this call of can_write_from_stack
  free,            \* free mailboxes
  can1_tx_tmr,
  \* history: what the tasks did so far
  added,           \* calls of add_tx_can_packet
  ready,           \* slots made READY_PACKET
  taken,           \* packets taken out of the ring
  sent,            \* the last packet given to a mailbox
  overlapped,      \* two tasks have been inside add_tx_can_packet at once
  lapped           \* a READY_PACKET slot has been overwritten

vars == <<packet, read_position, write_position, pc, wr_pos, arg, copy, try,
          free, can1_tx_tmr, added, ready, taken, sent, overlapped, lapped>>

consumerVars == <<read_position, copy, try, free, can1_tx_tmr, taken, sent>>
producerVars == <<write_position, wr_pos, arg, added, ready, overlapped, lapped>>

Slots == 0 .. StackLength - 1
States == {"EMPTY_PACKET", "BUSY_PACKET", "READY_PACKET"}
Adding == {"busy", "data", "header", "ready", "advance"}
Draining == {"poll", "copyHeader", "copyData", "release", "transmit"}

\* The slot after i, as both sides compute it.
NextSlot(i) == IF i + 1 >= StackLength THEN 0 ELSE i + 1

Init ==
  /\ packet = [i \in Slots |-> [state |-> "EMPTY_PACKET", hdr |-> 0, data |-> 0]]
  /\ read_position = 0
  /\ write_position = 0
  /\ pc = [t \in Tasks |-> "idle"]
  /\ wr_pos = [t \in Tasks |-> 0]
  /\ arg = [t \in Tasks |-> 0]
  /\ copy = [hdr |-> 0, data |-> 0]
  /\ try = 0
  /\ free = Mailboxes
  /\ can1_tx_tmr = 0
  /\ added = 0
  /\ ready = 0
  /\ taken = 0
  /\ sent = [hdr |-> 0, data |-> 0]
  /\ overlapped = FALSE
  /\ lapped = FALSE

Goto(t, label) == pc' = [pc EXCEPT ![t] = label]

-----------------------------------------------------------------------------
(* add_tx_can_packet, statement by statement. *)

\* A task calls add_tx_can_packet and reads write_position.
Call(t) ==
  /\ pc[t] = "idle"
  /\ added < MaxAdded
  /\ added' = added + 1
  /\ arg' = [arg EXCEPT ![t] = added + 1]
  /\ wr_pos' = [wr_pos EXCEPT ![t] = write_position]
  /\ overlapped' = (overlapped \/ \E u \in Tasks \ {t} : pc[u] \in Adding)
  /\ Goto(t, "busy")
  /\ UNCHANGED <<packet, write_position, ready, lapped, consumerVars>>

\* state = BUSY_PACKET, whatever the slot holds: nothing checks that it is
\* EMPTY_PACKET.
MarkBusy(t) ==
  /\ pc[t] = "busy"
  /\ lapped' = (lapped \/ packet[wr_pos[t]].state = "READY_PACKET")
  /\ packet' = [packet EXCEPT ![wr_pos[t]].state = "BUSY_PACKET"]
  /\ Goto(t, "data")
  /\ UNCHANGED <<write_position, wr_pos, arg, added, ready, overlapped, consumerVars>>

\* Faulty variant of StoreData: the slot is published before its id and
\* length are stored.
StoreDataEarlyReady(t) ==
  /\ pc[t] = "data"
  /\ packet' = [packet EXCEPT ![wr_pos[t]].data = arg[t], ![wr_pos[t]].state = "READY_PACKET"]
  /\ Goto(t, "header")
  /\ UNCHANGED <<producerVars, consumerVars>>

StoreData(t) ==
  /\ pc[t] = "data"
  /\ packet' = [packet EXCEPT ![wr_pos[t]].data = arg[t]]
  /\ Goto(t, "header")
  /\ UNCHANGED <<producerVars, consumerVars>>

StoreHeader(t) ==
  /\ pc[t] = "header"
  /\ packet' = [packet EXCEPT ![wr_pos[t]].hdr = arg[t]]
  /\ Goto(t, "ready")
  /\ UNCHANGED <<producerVars, consumerVars>>

MarkReady(t) ==
  /\ pc[t] = "ready"
  /\ packet' = [packet EXCEPT ![wr_pos[t]].state = "READY_PACKET"]
  /\ ready' = ready + 1
  /\ Goto(t, "advance")
  /\ UNCHANGED <<write_position, wr_pos, arg, added, overlapped, lapped, consumerVars>>

Advance(t) ==
  /\ pc[t] = "advance"
  /\ write_position' = NextSlot(wr_pos[t])
  /\ Goto(t, "idle")
  /\ UNCHANGED <<packet, wr_pos, arg, added, ready, overlapped, lapped, consumerVars>>

Add(t) == \/ Call(t) \/ MarkBusy(t) \/ StoreData(t)
          \/ StoreHeader(t) \/ MarkReady(t) \/ Advance(t)

-----------------------------------------------------------------------------
(* can_write_from_stack and get_tx_can_packet, run by the CAN task. *)

StartWrite ==
  /\ pc[CanTask] = "idle"
  /\ can1_tx_tmr >= TxTmrGap
  /\ try' = 0
  /\ Goto(CanTask, "poll")
  /\ UNCHANGED <<packet, producerVars, read_position, copy, free, can1_tx_tmr, taken, sent>>

\* The head of the loop: a free mailbox, the limit on tries, the state of the
\* slot at read_position.
PollReady ==
  /\ pc[CanTask] = "poll"
  /\ free # 0
  /\ try + 1 < TryLimit
  /\ packet[read_position].state = "READY_PACKET"
  /\ try' = try + 1
  /\ Goto(CanTask, "copyHeader")
  /\ UNCHANGED <<packet, producerVars, read_position, copy, free, can1_tx_tmr, taken, sent>>

PollStop ==
  /\ pc[CanTask] = "poll"
  /\ \/ free = 0
     \/ try + 1 >= TryLimit
     \/ packet[read_position].state # "READY_PACKET"
  /\ Goto(CanTask, "idle")
  /\ UNCHANGED <<packet, producerVars, consumerVars>>

CopyHeader ==
  /\ pc[CanTask] = "copyHeader"
  /\ copy' = [copy EXCEPT !.hdr = packet[read_position].hdr]
  /\ Goto(CanTask, "copyData")
  /\ UNCHANGED <<packet, producerVars, read_position, try, free, can1_tx_tmr, taken, sent>>

CopyData ==
  /\ pc[CanTask] = "copyData"
  /\ copy' = [copy EXCEPT !.data = packet[read_position].data]
  /\ Goto(CanTask, "release")
  /\ UNCHANGED <<packet, producerVars, read_position, try, free, can1_tx_tmr, taken, sent>>

\* Faulty variant of Release: the slot is not emptied.
ReleaseKeepsReady ==
  /\ pc[CanTask] = "release"
  /\ read_position' = NextSlot(read_position)
  /\ taken' = taken + 1
  /\ Goto(CanTask, "transmit")
  /\ UNCHANGED <<packet, producerVars, copy, try, free, can1_tx_tmr, sent>>

\* Faulty variant of Release: read_position stays where it is.
ReleaseStaysPut ==
  /\ pc[CanTask] = "release"
  /\ packet' = [packet EXCEPT ![read_position].state = "EMPTY_PACKET"]
  /\ taken' = taken + 1
  /\ Goto(CanTask, "transmit")
  /\ UNCHANGED <<producerVars, read_position, copy, try, free, can1_tx_tmr, sent>>

\* state = EMPTY_PACKET and the advance of read_position, which only this task
\* reads and writes.
Release ==
  /\ pc[CanTask] = "release"
  /\ packet' = [packet EXCEPT ![read_position].state = "EMPTY_PACKET"]
  /\ read_position' = NextSlot(read_position)
  /\ taken' = taken + 1
  /\ Goto(CanTask, "transmit")
  /\ UNCHANGED <<producerVars, copy, try, free, can1_tx_tmr, sent>>

Transmit ==
  /\ pc[CanTask] = "transmit"
  /\ can1_tx_tmr' = 0
  /\ free' = free - 1
  /\ sent' = copy
  /\ Goto(CanTask, "poll")
  /\ UNCHANGED <<packet, producerVars, read_position, copy, try, taken>>

Drain == \/ StartWrite \/ PollReady \/ PollStop \/ CopyHeader
         \/ CopyData \/ Release \/ Transmit

-----------------------------------------------------------------------------
(* The environment of the ring. *)

\* Faulty variant of TxTimer: the timer runs one past its period.
TxTimerLate ==
  /\ can1_tx_tmr' = IF can1_tx_tmr >= TxTmrPeriod THEN 0 ELSE can1_tx_tmr + 1
  /\ UNCHANGED <<packet, pc, producerVars, read_position, copy, try, free, taken, sent>>

\* The network task counts can1_tx_tmr once a tick.
TxTimer ==
  /\ can1_tx_tmr' = IF can1_tx_tmr + 1 >= TxTmrPeriod THEN 0 ELSE can1_tx_tmr + 1
  /\ UNCHANGED <<packet, pc, producerVars, read_position, copy, try, free, taken, sent>>

\* The controller has sent a frame: its mailbox is free again.
MailboxSent ==
  /\ free < Mailboxes
  /\ free' = free + 1
  /\ UNCHANGED <<packet, pc, producerVars, read_position, copy, try, can1_tx_tmr, taken, sent>>

Next ==
  \/ \E t \in Tasks : Add(t)
  \/ Drain
  \/ TxTimer
  \/ MailboxSent

Spec == Init /\ [][Next]_vars

\* Every task gets its slice, the bus takes frames, and the CAN task's pass,
\* run once a tick like the network task's, meets the timer past the gap.
Fairness ==
  /\ \A t \in Tasks : WF_vars(MarkBusy(t) \/ StoreData(t) \/ StoreHeader(t)
                              \/ MarkReady(t) \/ Advance(t))
  /\ WF_vars(PollReady \/ PollStop \/ CopyHeader \/ CopyData \/ Release \/ Transmit)
  /\ SF_vars(StartWrite)
  /\ WF_vars(TxTimer)
  /\ WF_vars(MailboxSent)

FairSpec == Spec /\ Fairness

-----------------------------------------------------------------------------
(* Properties. *)

TypeOK ==
  /\ packet \in [Slots -> [state : States, hdr : Nat, data : Nat]]
  /\ read_position \in Slots
  /\ write_position \in Slots
  /\ pc \in [Tasks -> {"idle"} \cup Adding \cup Draining]
  /\ \A t \in Tasks : t # CanTask => pc[t] \notin Draining
  /\ wr_pos \in [Tasks -> Slots]
  /\ arg \in [Tasks -> Nat]
  /\ copy \in [hdr : Nat, data : Nat]
  /\ try \in Nat
  /\ free \in 0 .. Mailboxes
  /\ pc[CanTask] \in Draining \ {"poll"} => free > 0
  /\ can1_tx_tmr \in 0 .. TxTmrPeriod - 1
  /\ added \in Nat /\ ready \in Nat /\ taken \in Nat
  /\ sent \in [hdr : Nat, data : Nat]
  /\ overlapped \in BOOLEAN /\ lapped \in BOOLEAN

\* The ring has been used as it was meant to be: one caller at a time, and
\* never more packets queued than it has slots.
Disciplined == ~overlapped /\ ~lapped

\* Steps from slot i to slot j, in the direction of travel.
Gap(i, j) == IF j >= i THEN j - i ELSE j + StackLength - i

Ahead(i) == Gap(read_position, i)

Writing == \E t \in Tasks : pc[t] \in {"busy", "data", "header", "ready"}

\* While the ring is used as it was meant to be, its READY_PACKET slots are
\* exactly the ones ahead of read_position, and they hold, whole and in the
\* order of the calls, the packets that were queued and not yet taken: no
\* packet is lost, duplicated, torn or overtaken.
QueuedInOrder ==
  Disciplined =>
    /\ taken <= ready /\ ready - taken <= StackLength
    /\ \A i \in Slots :
         IF Ahead(i) < ready - taken
         THEN packet[i] = [state |-> "READY_PACKET", hdr  |-> taken + Ahead(i) + 1,
                                                     data |-> taken + Ahead(i) + 1]
         ELSE packet[i].state # "READY_PACKET"

\* While the ring is used as it was meant to be, the frame most recently given
\* to the controller is whole and is the next one in the order of the calls.
SentInOrder ==
  Disciplined =>
    LET n == IF pc[CanTask] = "transmit" THEN taken - 1 ELSE taken
    IN  sent = [hdr |-> n, data |-> n]

\* The slot that the next packet to be published goes to, and how far the
\* positions of the two sides are from agreeing with the number of READY_PACKET
\* slots between them.
PublishSlot ==
  IF \E t \in Tasks : pc[t] = "advance" THEN NextSlot(write_position) ELSE write_position

Waiting == {i \in Slots : packet[i].state = "READY_PACKET"}

\* The slot k after i, for k up to the size of the ring.
Plus(i, k) == IF i + k >= StackLength THEN i + k - StackLength ELSE i + k

Phase == Gap(Plus(read_position, Cardinality(Waiting)), PublishSlot)

Overwrites(i) ==
  packet[i].state = "READY_PACKET" /\ packet'[i].state = "BUSY_PACKET"

\* A slot is taken out although a producer has begun to rewrite it.
TakesRewritten ==
  pc[CanTask] = "release" /\ pc'[CanTask] = "transmit"
  /\ packet[read_position].state # "READY_PACKET"

\* The two positions go out of step only when a queued packet is overwritten,
\* and then nothing but another overwriting brings them back: neither draining the
\* ring nor queueing more packets realigns read_position with write_position.
PhaseIsKept ==
  [][ ~overlapped' /\ ~TakesRewritten /\ (\A i \in Slots : ~Overwrites(i))
        => Phase' = Phase ]_vars

\* A packet made ready is taken out of the ring, unless the ring has been used
\* by two callers at once or has overflowed.
EventuallyTaken ==
  \A n \in 1 .. MaxAdded : (ready >= n) ~> (taken >= n \/ ~Disciplined)

-----------------------------------------------------------------------------
(* What QueuedInOrder and SentInOrder rest on. *)

\* Without an overlap, one task at most is inside add_tx_can_packet.
OneCaller ==
  ~overlapped =>
    \A t, u \in Tasks : pc[t] \in Adding /\ pc[u] \in Adding => t = u

\* The caller works on the slot at write_position, with the latest packet, and
\* has written of it what its program counter says.
CallerSlot ==
  Disciplined =>
    \A t \in Tasks :
      /\ pc[t] \in Adding => wr_pos[t] = write_position /\ arg[t] = added
      /\ pc[t] \in {"data", "header", "ready"} =>
           packet[write_position].state = "BUSY_PACKET"
      /\ pc[t] \in {"header", "ready"} => packet[write_position].data = arg[t]
      /\ pc[t] = "ready" => packet[write_position].hdr = arg[t]

\* What PhaseIsKept rests on besides OneCaller: a lone caller works on the slot
\* at write_position even after the ring has overflowed, and once it has marked
\* its slot nobody else makes it READY_PACKET.
LoneCaller ==
  ~overlapped =>
    \A t \in Tasks :
      /\ pc[t] \in Adding => wr_pos[t] = write_position
      /\ pc[t] \in {"data", "header", "ready"} => wr_pos[t] \notin Waiting

\* Counters and positions agree.
InStep ==
  Disciplined =>
    /\ added = IF Writing THEN ready + 1 ELSE ready
    /\ PublishSlot = Plus(read_position, ready - taken)

\* The consumer copies a slot that is in the queue.
CopySlot ==
  Disciplined =>
    /\ pc[CanTask] \in {"copyHeader", "copyData", "release"} => taken < ready
    /\ pc[CanTask] \in {"copyData", "release"} => copy.hdr = taken + 1
    /\ pc[CanTask] = "release" => copy.data = taken + 1
    /\ pc[CanTask] = "transmit" => copy = [hdr |-> taken, data |-> taken] /\ taken > 0

IInv == /\ OneCaller /\ CallerSlot /\ InStep /\ CopySlot
        /\ QueuedInOrder /\ SentInOrder

=============================================================================
