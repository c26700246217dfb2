---------------------------- MODULE CanTask_proofs ----------------------------
(***************************************************************************)
(* Proofs about the two halves of the CAN task: the transmit ring it       *)
(* drains (CanTxStack), for every number of tasks, slots, mailboxes and    *)
(* packets, and the link with the PLC it reports the inputs over           *)
(* (CanLink), for any number of inputs and of PLC addresses, any limit of  *)
(* silence and any report period, and for any number of heartbeats,        *)
(* changes and restarts.                                                   *)
(***************************************************************************)
EXTENDS CanTxStack, CanLink, FiniteSetTheorems, TLAPS

-----------------------------------------------------------------------------
(* The transmit ring. *)

\* Positions stay inside the ring: the two index computations of
\* can_tx_stack.c never leave the array.
LEMMA NextSlotInRing == ASSUME NEW i \in Slots PROVE NextSlot(i) \in Slots
  BY SizeAssumption DEF NextSlot, Slots

\* Positions ahead of read_position, counted in the direction of travel.
LEMMA AheadRange ==
  ASSUME read_position \in Slots, NEW i \in Slots
  PROVE  Ahead(i) \in 0 .. StackLength - 1
  BY SizeAssumption DEF Ahead, Gap, Slots

LEMMA AheadInjective ==
  ASSUME read_position \in Slots, NEW i \in Slots, NEW j \in Slots, i # j
  PROVE  Ahead(i) # Ahead(j)
  BY SizeAssumption DEF Ahead, Gap, Slots

LEMMA AheadPlus ==
  ASSUME read_position \in Slots, NEW k \in 0 .. StackLength - 1
  PROVE  Plus(read_position, k) \in Slots /\ Ahead(Plus(read_position, k)) = k
  BY SizeAssumption DEF Ahead, Gap, Plus, Slots

LEMMA AheadHere == ASSUME read_position \in Slots PROVE Ahead(read_position) = 0
  BY SizeAssumption DEF Ahead, Gap, Slots

LEMMA AheadAfterRelease ==
  ASSUME read_position \in Slots, read_position' = NextSlot(read_position), NEW i \in Slots
  PROVE  Ahead(i)' = IF i = read_position THEN StackLength - 1 ELSE Ahead(i) - 1
  BY SizeAssumption DEF Ahead, Gap, NextSlot, Slots

LEMMA PlusFromNextSlot ==
  ASSUME NEW i \in Slots, NEW k \in 1 .. StackLength
  PROVE  Plus(i, k) = Plus(NextSlot(i), k - 1)
  BY SizeAssumption DEF NextSlot, Plus, Slots

LEMMA NextSlotPlus ==
  ASSUME NEW i \in Slots, NEW k \in 0 .. StackLength - 1
  PROVE  NextSlot(Plus(i, k)) = Plus(i, k + 1)
  BY SizeAssumption DEF NextSlot, Plus, Slots

\* Type correctness of the transmit ring: every index used by
\* add_tx_can_packet and get_tx_can_packet is inside the array, a task that is
\* not the CAN task never drains, and a frame is only handed to a free mailbox.
THEOREM TypeCorrect == Spec => []TypeOK
<1>1. Init => TypeOK
  <2> SUFFICES ASSUME Init PROVE TypeOK
    OBVIOUS
  <2> USE SizeAssumption, TaskAssumption DEF Init
  <2>1. 0 \in Slots /\ 0 \in 0 .. TxTmrPeriod - 1 /\ Mailboxes \in 0 .. Mailboxes
    BY DEF Slots
  <2>2. packet \in [Slots -> [state : States, hdr : Nat, data : Nat]]
    BY DEF States
  <2>3. /\ pc \in [Tasks -> {"idle"} \cup Adding \cup Draining]
        /\ \A t \in Tasks : pc[t] \notin Draining
    BY DEF Draining
  <2>4. QED
    BY <2>1, <2>2, <2>3 DEF TypeOK
<1>2. TypeOK /\ [Next]_vars => TypeOK'
  <2> SUFFICES ASSUME TypeOK, [Next]_vars PROVE TypeOK'
    OBVIOUS
  <2> USE SizeAssumption, TaskAssumption, NextSlotInRing
      DEF TypeOK, States, Adding, Draining, Goto, producerVars, consumerVars
  <2>1. ASSUME NEW t \in Tasks, Call(t) PROVE TypeOK'
    BY <2>1 DEF Call
  <2>2. ASSUME NEW t \in Tasks, MarkBusy(t) PROVE TypeOK'
    BY <2>2 DEF MarkBusy
  <2>3. ASSUME NEW t \in Tasks, StoreData(t) PROVE TypeOK'
    <3>1. packet' \in [Slots -> [state : States, hdr : Nat, data : Nat]]
      BY <2>3, SMTT(30) DEF StoreData
    <3>2. /\ pc' \in [Tasks -> {"idle"} \cup Adding \cup Draining]
          /\ \A u \in Tasks : u # CanTask => pc'[u] \notin Draining
          /\ pc'[CanTask] \in Draining \ {"poll"} => pc[CanTask] \in Draining \ {"poll"}
      BY <2>3 DEF StoreData
    <3>3. QED
      BY ONLY <2>3, <3>1, <3>2, TypeOK DEF StoreData, TypeOK, producerVars, consumerVars
  <2>4. ASSUME NEW t \in Tasks, StoreHeader(t) PROVE TypeOK'
    <3>1. packet' \in [Slots -> [state : States, hdr : Nat, data : Nat]]
      BY <2>4, SMTT(30) DEF StoreHeader
    <3>2. /\ pc' \in [Tasks -> {"idle"} \cup Adding \cup Draining]
          /\ \A u \in Tasks : u # CanTask => pc'[u] \notin Draining
          /\ pc'[CanTask] \in Draining \ {"poll"} => pc[CanTask] \in Draining \ {"poll"}
      BY <2>4 DEF StoreHeader
    <3>3. QED
      BY ONLY <2>4, <3>1, <3>2, TypeOK DEF StoreHeader, TypeOK, producerVars, consumerVars
  <2>5. ASSUME NEW t \in Tasks, MarkReady(t) PROVE TypeOK'
    BY <2>5 DEF MarkReady
  <2>6. ASSUME NEW t \in Tasks, Advance(t) PROVE TypeOK'
    BY <2>6 DEF Advance
  <2>7. CASE StartWrite
    BY <2>7 DEF StartWrite
  <2>8. CASE PollReady
    BY <2>8 DEF PollReady
  <2>9. CASE PollStop
    BY <2>9 DEF PollStop
  <2>10. CASE CopyHeader
    BY <2>10 DEF CopyHeader
  <2>11. CASE CopyData
    BY <2>11 DEF CopyData
  <2>12. CASE Release
    BY <2>12 DEF Release
  <2>13. CASE Transmit
    BY <2>13 DEF Transmit
  <2>14. CASE TxTimer
    BY <2>14 DEF TxTimer
  <2>15. CASE MailboxSent
    BY <2>15 DEF MailboxSent
  <2>16. CASE UNCHANGED vars
    BY <2>16 DEF vars
  <2>17. QED
    BY <2>1, <2>2, <2>3, <2>4, <2>5, <2>6, <2>7, <2>8, <2>9, <2>10, <2>11,
       <2>12, <2>13, <2>14, <2>15, <2>16 DEF Next, Add, Drain
<1>3. QED
  BY <1>1, <1>2, PTL DEF Spec

-----------------------------------------------------------------------------
\* Nothing restores the discipline once it is lost.
LEMMA DisciplineLost == TypeOK /\ [Next]_vars /\ Disciplined' => Disciplined
  BY DEF TypeOK, Next, vars, Add, Drain, Disciplined, Call, MarkBusy, StoreData,
     StoreHeader, MarkReady, Advance, StartWrite, PollReady, PollStop, CopyHeader,
     CopyData, Release, Transmit, TxTimer, MailboxSent, producerVars, consumerVars

LEMMA IInvInit == Init => IInv
<1> SUFFICES ASSUME Init PROVE IInv
  OBVIOUS
<1> USE SizeAssumption, TaskAssumption DEF Init
<1>1. OneCaller /\ CallerSlot
  BY DEF OneCaller, CallerSlot, Adding
<1>2. InStep
  BY DEF InStep, Writing, PublishSlot, Plus
<1>3. CopySlot /\ SentInOrder
  BY DEF CopySlot, SentInOrder
<1>4. QueuedInOrder
  BY DEF QueuedInOrder, Ahead, Gap, Slots
<1>5. QED
  BY <1>1, <1>2, <1>3, <1>4 DEF IInv

\* add_tx_can_packet keeps the queue in order, statement by statement.
LEMMA AddKeepsIInv ==
  ASSUME TypeOK, IInv, NEW t \in Tasks, Add(t) PROVE IInv'
<1> USE SizeAssumption, TaskAssumption
<1> USE DEF TypeOK, IInv, Goto, producerVars, consumerVars
<1>0. Disciplined' => Disciplined
  BY DisciplineLost DEF Next
<1>1. CASE Call(t)
  <2> USE <1>1 DEF Call
  <2>1. OneCaller'
    <3>1. \A u \in Tasks \ {t} : pc'[u] = pc[u]
      BY DEF TypeOK
    <3>2. ~overlapped' => \A u \in Tasks \ {t} : pc[u] \notin Adding
      OBVIOUS
    <3>3. QED
      BY ONLY <3>1, <3>2 DEF OneCaller
  <2>2. Disciplined' => \A u \in Tasks \ {t} : pc[u] \notin Adding
    BY DEF Disciplined
  <2>3. CallerSlot'
    BY <1>0, <2>2 DEF CallerSlot, Adding
  <2>4. InStep'
    BY <1>0, <2>2 DEF InStep, Writing, PublishSlot, Plus, Adding
  <2>5. CopySlot' /\ SentInOrder'
    BY <1>0 DEF CopySlot, SentInOrder
  <2>6. QueuedInOrder'
    BY <1>0 DEF QueuedInOrder, Ahead, Gap
  <2>7. QED
    BY <2>1, <2>3, <2>4, <2>5, <2>6
<1>2. CASE MarkBusy(t)
  <2> USE <1>2 DEF MarkBusy
  <2>1. OneCaller'
    BY DEF OneCaller, Adding
  <2>2. CallerSlot'
    BY <1>0 DEF CallerSlot, Adding, OneCaller, Disciplined
  <2>3. InStep'
    BY <1>0 DEF InStep, Writing, PublishSlot, Plus
  <2>4. CopySlot' /\ SentInOrder'
    BY <1>0 DEF CopySlot, SentInOrder
  <2>5. QueuedInOrder'
    <3>1. Disciplined' => packet[wr_pos[t]].state # "READY_PACKET"
      BY DEF Disciplined
    <3>2. ASSUME NEW i \in Slots, i # wr_pos[t] PROVE packet'[i] = packet[i]
      BY <3>2
    <3>3. packet'[wr_pos[t]].state # "READY_PACKET"
      OBVIOUS
    <3>4. \A i \in Slots : Ahead(i)' = Ahead(i) /\ Ahead(i) \in Nat
      BY AheadRange DEF Ahead, Gap
    <3>5. Disciplined' => ~(Ahead(wr_pos[t]) < ready - taken)
      BY <1>0, <3>1 DEF QueuedInOrder
    <3>6. QED
      BY ONLY <1>0, <3>2, <3>3, <3>4, <3>5, QueuedInOrder, ready' = ready, taken' = taken
      DEF QueuedInOrder
  <2>6. QED
    BY <2>1, <2>2, <2>3, <2>4, <2>5
<1>3. CASE StoreData(t)
  <2> USE <1>3 DEF StoreData
  <2>1. OneCaller'
    BY DEF OneCaller, Adding
  <2>2. CallerSlot'
    BY <1>0 DEF CallerSlot, Adding, OneCaller, Disciplined
  <2>3. InStep'
    BY <1>0 DEF InStep, Writing, PublishSlot, Plus
  <2>4. CopySlot' /\ SentInOrder'
    BY <1>0 DEF CopySlot, SentInOrder
  <2>5. QueuedInOrder'
    BY <1>0 DEF QueuedInOrder, Ahead, Gap, CallerSlot, Adding
  <2>6. QED
    BY <2>1, <2>2, <2>3, <2>4, <2>5
<1>4. CASE StoreHeader(t)
  <2> USE <1>4 DEF StoreHeader
  <2>1. OneCaller'
    BY DEF OneCaller, Adding
  <2>2. CallerSlot'
    BY <1>0 DEF CallerSlot, Adding, OneCaller, Disciplined
  <2>3. InStep'
    BY <1>0 DEF InStep, Writing, PublishSlot, Plus
  <2>4. CopySlot' /\ SentInOrder'
    BY <1>0 DEF CopySlot, SentInOrder
  <2>5. QueuedInOrder'
    BY <1>0 DEF QueuedInOrder, Ahead, Gap, CallerSlot, Adding
  <2>6. QED
    BY <2>1, <2>2, <2>3, <2>4, <2>5
<1>5. CASE MarkReady(t)
  <2> USE <1>5 DEF MarkReady
  <2>1. OneCaller'
    BY DEF OneCaller, Adding
  <2>2. CallerSlot'
    BY <1>0 DEF CallerSlot, Adding, OneCaller, Disciplined
  <2>3. Disciplined => \A u \in Tasks \ {t} : pc[u] \notin Adding
    BY DEF OneCaller, Adding, Disciplined
  <2>4. Disciplined => /\ PublishSlot = write_position
                       /\ PublishSlot' = NextSlot(write_position)
    BY <2>3 DEF PublishSlot, Adding
  <2>5. Disciplined => /\ wr_pos[t] = write_position
                       /\ packet[write_position].state = "BUSY_PACKET"
                       /\ packet[write_position].data = ready + 1
                       /\ packet[write_position].hdr = ready + 1
    BY DEF CallerSlot, Adding, InStep, Writing
  <2>6. Disciplined => ready - taken < StackLength
    <3>1. Ahead(write_position) \in 0 .. StackLength - 1
      BY AheadRange
    <3>2. Disciplined => ready - taken \in 0 .. StackLength
      BY DEF QueuedInOrder
    <3>3. Disciplined /\ Ahead(write_position) < ready - taken =>
            packet[write_position].state = "READY_PACKET"
      BY DEF QueuedInOrder
    <3>4. QED
      BY ONLY <3>1, <3>2, <3>3, <2>5, SizeAssumption
  <2>6a. Disciplined => ready - taken \in 0 .. StackLength - 1
    BY <2>6 DEF QueuedInOrder
  <2>7. Disciplined => Ahead(write_position) = ready - taken
    BY <2>4, <2>6a, AheadPlus DEF InStep
  <2>8. InStep'
    <3>1. Disciplined => NextSlot(write_position) = Plus(read_position, ready - taken + 1)
      BY <2>4, <2>6a, NextSlotPlus DEF InStep
    <3>2. Disciplined => Writing /\ ~Writing'
      BY <2>3 DEF Writing, Adding
    <3>3. Disciplined => ready - taken + 1 = ready' - taken'
      OBVIOUS
    <3>4. QED
      BY <1>0, <2>4, <3>1, <3>2, <3>3 DEF InStep, Plus
  <2>9. CopySlot' /\ SentInOrder'
    BY <1>0 DEF CopySlot, SentInOrder
  <2>10. QueuedInOrder'
    <3>1. Disciplined => taken <= ready' /\ ready' - taken <= StackLength
      BY <2>6a
    <3>2. \A i \in Slots : Ahead(i)' = Ahead(i) /\ Ahead(i) \in Nat
      BY AheadRange DEF Ahead, Gap
    <3>3. ASSUME Disciplined, NEW i \in Slots, i = write_position
          PROVE  /\ Ahead(i) < ready' - taken
                 /\ packet'[i] = [state |-> "READY_PACKET", hdr  |-> taken + Ahead(i) + 1,
                                                            data |-> taken + Ahead(i) + 1]
      BY <3>3, <2>5, <2>7
    <3>4. ASSUME Disciplined, NEW i \in Slots, i # write_position
          PROVE  /\ packet'[i] = packet[i]
                 /\ Ahead(i) < ready' - taken <=> Ahead(i) < ready - taken
      <4>1. Ahead(i) # ready - taken
        BY <3>4, <2>7, AheadInjective
      <4>2. QED
        BY <3>4, <4>1, <2>5, <3>2
    <3>5. QED
      BY ONLY <1>0, <3>1, <3>2, <3>3, <3>4, QueuedInOrder, taken' = taken DEF QueuedInOrder
  <2>11. QED
    BY <2>1, <2>2, <2>8, <2>9, <2>10
<1>6. CASE Advance(t)
  <2> USE <1>6 DEF Advance
  <2>1. OneCaller'
    BY DEF OneCaller, Adding
  <2>2. Disciplined => \A u \in Tasks \ {t} : pc[u] \notin Adding
    BY DEF OneCaller, Adding, Disciplined
  <2>3. CallerSlot'
    BY <1>0, <2>2 DEF CallerSlot, Adding
  <2>4. InStep'
    BY <1>0, <2>2 DEF InStep, Writing, PublishSlot, Plus, CallerSlot, Adding
  <2>5. CopySlot' /\ SentInOrder'
    BY <1>0 DEF CopySlot, SentInOrder
  <2>6. QueuedInOrder'
    BY <1>0 DEF QueuedInOrder, Ahead, Gap
  <2>7. QED
    BY <2>1, <2>3, <2>4, <2>5, <2>6
<1>7. QED
  BY <1>1, <1>2, <1>3, <1>4, <1>5, <1>6 DEF Add

\* can_write_from_stack keeps the queue in order, statement by statement.
LEMMA DrainKeepsIInv ==
  ASSUME TypeOK, IInv, Drain PROVE IInv'
<1> USE SizeAssumption, TaskAssumption
<1> USE DEF TypeOK, IInv, Goto, producerVars, consumerVars
<1>0. Disciplined' => Disciplined
  BY DisciplineLost DEF Next
<1>1. ASSUME pc[CanTask] \in {"idle"} \cup Draining,
             pc'[CanTask] \in {"idle"} \cup Draining,
             \A t \in Tasks \ {CanTask} : pc'[t] = pc[t],
             \A i \in Slots : /\ packet'[i].state = "BUSY_PACKET" <=> packet[i].state = "BUSY_PACKET"
                              /\ packet'[i].hdr = packet[i].hdr
                              /\ packet'[i].data = packet[i].data,
             UNCHANGED producerVars
      PROVE  OneCaller' /\ CallerSlot' /\ Writing' = Writing /\ PublishSlot' = PublishSlot
  <2>1. \A t \in Tasks : /\ pc'[t] \in Adding <=> pc[t] \in Adding
                         /\ pc[t] \in Adding => pc'[t] = pc[t]
    BY <1>1 DEF Adding, Draining
  <2>2. OneCaller'
    BY <1>1, <2>1 DEF OneCaller
  <2>3. CallerSlot'
    <3> SUFFICES ASSUME Disciplined, NEW t \in Tasks, pc'[t] \in Adding
                 PROVE  /\ wr_pos'[t] = write_position' /\ arg'[t] = added'
                        /\ pc'[t] \in {"data", "header", "ready"} =>
                             packet'[write_position'].state = "BUSY_PACKET"
                        /\ pc'[t] \in {"header", "ready"} =>
                             packet'[write_position'].data = arg'[t]
                        /\ pc'[t] = "ready" => packet'[write_position'].hdr = arg'[t]
      BY <1>0 DEF CallerSlot, Adding
    <3>1. pc'[t] = pc[t] /\ pc[t] \in Adding
      BY <2>1
    <3>2. QED
      BY <1>1, <3>1 DEF CallerSlot
  <2>4. Writing' = Writing /\ PublishSlot' = PublishSlot
    <3>1. \A t \in Tasks : /\ pc'[t] \in {"busy", "data", "header", "ready"} <=>
                                pc[t] \in {"busy", "data", "header", "ready"}
                           /\ pc'[t] = "advance" <=> pc[t] = "advance"
      BY <2>1 DEF Adding
    <3>2. QED
      BY <1>1, <3>1 DEF Writing, PublishSlot, NextSlot
  <2>5. QED
    BY <2>2, <2>3, <2>4
<1>2. CASE StartWrite \/ PollReady \/ PollStop \/ CopyHeader \/ CopyData
  <2> USE <1>2 DEF StartWrite, PollReady, PollStop, CopyHeader, CopyData
  <2>1. OneCaller' /\ CallerSlot' /\ Writing' = Writing /\ PublishSlot' = PublishSlot
    BY <1>1 DEF Draining
  <2>2. InStep'
    BY <1>0, <2>1 DEF InStep, Plus
  <2>3. QueuedInOrder'
    BY <1>0 DEF QueuedInOrder, Ahead, Gap
  <2>4. SentInOrder'
    BY <1>0 DEF SentInOrder
  <2>5. Disciplined /\ packet[read_position].state = "READY_PACKET" => taken < ready
    <3>1. Disciplined /\ ~(taken < ready) => ~(Ahead(read_position) < ready - taken)
      BY AheadHere
    <3>2. QED
      BY <3>1 DEF QueuedInOrder
  <2>6. Disciplined /\ taken < ready => packet[read_position].hdr = taken + 1
                                     /\ packet[read_position].data = taken + 1
    <3>1. taken < ready => Ahead(read_position) < ready - taken
      BY AheadHere
    <3>2. QED
      BY <3>1, AheadHere DEF QueuedInOrder
  <2>7. CopySlot'
    BY <1>0, <2>5, <2>6 DEF CopySlot
  <2>8. QED
    BY <2>1, <2>2, <2>3, <2>4, <2>7
<1>3. CASE Release
  <2> USE <1>3 DEF Release
  <2>1. Disciplined => ready - taken \in 1 .. StackLength
    BY DEF CopySlot, QueuedInOrder
  <2>2. Ahead(read_position) = 0
    BY AheadHere
  <2>3. Disciplined => packet[read_position].state = "READY_PACKET"
    BY <2>1, <2>2 DEF QueuedInOrder
  <2>4. Disciplined' => OneCaller' /\ CallerSlot' /\ Writing' = Writing /\ PublishSlot' = PublishSlot
    BY <1>0, <1>1, <2>3 DEF Draining
  <2>5. OneCaller' /\ CallerSlot'
    BY <2>4 DEF OneCaller, CallerSlot, Disciplined, Adding
  <2>6. read_position' \in Slots
    BY NextSlotInRing
  <2>7. ASSUME NEW k \in 1 .. StackLength
        PROVE  Plus(read_position, k) = Plus(read_position', k - 1)
    BY PlusFromNextSlot
  <2>8. InStep'
    <3>1. Disciplined => Plus(read_position, ready - taken) = Plus(read_position', ready' - taken')
      BY <2>1, <2>7
    <3>2. QED
      BY <1>0, <2>4, <3>1 DEF InStep, Plus
  <2>9. CopySlot' /\ SentInOrder'
    <3>1. Disciplined => copy = [hdr |-> taken + 1, data |-> taken + 1]
      BY DEF CopySlot
    <3>2. CopySlot'
      BY <1>0, <3>1 DEF CopySlot
    <3>3. Disciplined => sent = [hdr |-> taken, data |-> taken]
      BY DEF SentInOrder
    <3>4. taken' - 1 = taken /\ pc'[CanTask] = "transmit" /\ sent' = sent
      OBVIOUS
    <3>5. SentInOrder'
      BY <1>0, <3>3, <3>4 DEF SentInOrder
    <3>6. QED
      BY <3>2, <3>5
  <2>10. QueuedInOrder'
    <3>1. ASSUME NEW i \in Slots, i # read_position
          PROVE  Ahead(i)' = Ahead(i) - 1 /\ packet'[i] = packet[i] /\ Ahead(i) \in Nat
      BY <3>1, AheadAfterRelease, AheadRange
    <3>2. ASSUME NEW i \in Slots, i = read_position PROVE Ahead(i)' = StackLength - 1
      BY <3>2, AheadAfterRelease
    <3>3. packet'[read_position].state # "READY_PACKET"
      OBVIOUS
    <3>3a. Disciplined => ready' - taken' \in 0 .. StackLength - 1
      BY <2>1
    <3>4. SUFFICES ASSUME Disciplined, NEW i \in Slots
                   PROVE  IF Ahead(i)' < ready' - taken'
                          THEN packet'[i] = [state |-> "READY_PACKET",
                                             hdr |-> taken' + Ahead(i)' + 1,
                                             data |-> taken' + Ahead(i)' + 1]
                          ELSE packet'[i].state # "READY_PACKET"
      BY <1>0, <2>1 DEF QueuedInOrder
    <3>5. CASE i = read_position
      BY <3>5, <3>2, <3>3, <3>3a, <3>4
    <3>6. CASE i # read_position
      <4>1. Ahead(i)' < ready' - taken' <=> Ahead(i) < ready - taken
        BY <3>1, <3>6
      <4>2. taken' + Ahead(i)' + 1 = taken + Ahead(i) + 1
        BY <3>1, <3>6
      <4>3. QED
        BY <3>1, <3>4, <3>6, <4>1, <4>2 DEF QueuedInOrder
    <3>7. QED
      BY <3>5, <3>6
  <2>11. QED
    BY <2>5, <2>8, <2>9, <2>10
<1>4. CASE Transmit
  <2> USE <1>4 DEF Transmit
  <2>1. OneCaller' /\ CallerSlot' /\ Writing' = Writing /\ PublishSlot' = PublishSlot
    BY <1>1 DEF Draining
  <2>2. InStep'
    BY <1>0, <2>1 DEF InStep, Plus
  <2>3. QueuedInOrder'
    BY <1>0 DEF QueuedInOrder, Ahead, Gap
  <2>4. CopySlot' /\ SentInOrder'
    BY <1>0 DEF CopySlot, SentInOrder
  <2>5. QED
    BY <2>1, <2>2, <2>3, <2>4
<1>5. QED
  BY <1>2, <1>3, <1>4 DEF Drain

LEMMA TimerKeepsIInv ==
  ASSUME TypeOK, IInv, TxTimer \/ MailboxSent \/ UNCHANGED vars PROVE IInv'
  BY DEF IInv, TxTimer, MailboxSent, vars, producerVars, OneCaller, CallerSlot, InStep,
         CopySlot, QueuedInOrder, SentInOrder, Disciplined, Writing, PublishSlot,
         NextSlot, Plus, Ahead, Gap

\* IInv is an invariant of the ring.
LEMMA IInvAlways == Spec => []IInv
<1>1. TypeOK /\ IInv /\ [Next]_vars => IInv'
  BY AddKeepsIInv, DrainKeepsIInv, TimerKeepsIInv DEF Next
<1>2. QED
  BY IInvInit, TypeCorrect, <1>1, PTL DEF Spec

\* The transmit ring is a FIFO while it is used as it was meant to be: for any
\* number of slots, tasks and packets, one caller of add_tx_can_packet at a
\* time and never more packets than slots mean that no packet is lost,
\* duplicated, torn or overtaken.
THEOREM RingIsFifo == Spec => []QueuedInOrder
<1>1. IInv => QueuedInOrder
  BY DEF IInv
<1>2. QED
  BY IInvAlways, <1>1, PTL

\* The same for what reaches the controller: while the ring is used as it was
\* meant to be, every frame handed to a mailbox is whole and is the next one in
\* the order of the calls.
THEOREM FramesInOrder == Spec => []SentInOrder
<1>1. IInv => SentInOrder
  BY DEF IInv
<1>2. QED
  BY IInvAlways, <1>1, PTL

-----------------------------------------------------------------------------
(* The phase of the two positions. *)

\* What the statements do to the set of READY_PACKET slots.
LEMMA WaitingWhenAdding ==
  ASSUME TypeOK, NEW t \in Tasks
  PROVE  /\ MarkBusy(t) => Waiting' = Waiting \ {wr_pos[t]}
         /\ StoreData(t) \/ StoreHeader(t) => Waiting' = Waiting
         /\ MarkReady(t) => Waiting' = Waiting \cup {wr_pos[t]}
<1>0. wr_pos[t] \in Slots /\ packet \in [Slots -> [state : States, hdr : Nat, data : Nat]]
  BY DEF TypeOK
<1>1. ASSUME MarkBusy(t) PROVE Waiting' = Waiting \ {wr_pos[t]}
  BY <1>0, <1>1 DEF MarkBusy, Waiting
<1>2. ASSUME StoreData(t) \/ StoreHeader(t) PROVE Waiting' = Waiting
  BY <1>0, <1>2 DEF StoreData, StoreHeader, Waiting
<1>3. ASSUME MarkReady(t) PROVE Waiting' = Waiting \cup {wr_pos[t]}
  BY <1>0, <1>3 DEF MarkReady, Waiting
<1>4. QED
  BY <1>1, <1>2, <1>3

LEMMA WaitingWhenDraining ==
  ASSUME TypeOK
  PROVE  /\ Release => Waiting' = Waiting \ {read_position}
         /\ StartWrite \/ PollReady \/ PollStop \/ CopyHeader \/ CopyData \/ Transmit
              => Waiting' = Waiting
<1>0. read_position \in Slots /\ packet \in [Slots -> [state : States, hdr : Nat, data : Nat]]
  BY DEF TypeOK
<1>1. ASSUME Release PROVE Waiting' = Waiting \ {read_position}
  BY <1>0, <1>1 DEF Release, Waiting
<1>2. ASSUME StartWrite \/ PollReady \/ PollStop \/ CopyHeader \/ CopyData \/ Transmit
      PROVE  Waiting' = Waiting
  BY <1>2 DEF StartWrite, PollReady, PollStop, CopyHeader, CopyData, Transmit, Waiting
<1>3. QED
  BY <1>1, <1>2

\* A statement of add_tx_can_packet after the call is run by the one caller.
LEMMA TheCaller ==
  ASSUME TypeOK, OneCaller, ~overlapped, NEW t \in Tasks, pc[t] \in Adding
  PROVE  \A u \in Tasks \ {t} : pc[u] \notin Adding
  BY DEF OneCaller

LEMMA LoneCallerInit == Init => LoneCaller
  BY DEF Init, LoneCaller, Adding

LEMMA LoneCallerKept ==
  ASSUME TypeOK, OneCaller, LoneCaller, [Next]_vars PROVE LoneCaller'
<1>1. ASSUME NEW t \in Tasks, Call(t) PROVE LoneCaller'
  <2>1. ~overlapped' => ~overlapped /\ \A u \in Tasks \ {t} : pc'[u] \notin Adding
    BY <1>1 DEF Call, Goto, TypeOK
  <2>2. pc'[t] = "busy" /\ wr_pos'[t] = write_position'
    BY <1>1 DEF Call, Goto, TypeOK
  <2>3. QED
    BY ONLY <2>1, <2>2 DEF LoneCaller, Adding
<1>2. ASSUME NEW t \in Tasks,
             MarkBusy(t) \/ StoreData(t) \/ StoreHeader(t) \/ MarkReady(t) \/ Advance(t)
      PROVE  LoneCaller'
  <2> SUFFICES ASSUME ~overlapped' PROVE LoneCaller'
    BY DEF LoneCaller
  <2>1. ~overlapped /\ pc[t] \in Adding
    BY <1>2 DEF MarkBusy, StoreData, StoreHeader, MarkReady, Advance, Adding, producerVars
  <2>2. \A u \in Tasks \ {t} : pc'[u] \notin Adding
    BY <1>2, <2>1, TheCaller
       DEF MarkBusy, StoreData, StoreHeader, MarkReady, Advance, Goto, TypeOK
  <2>3. /\ pc'[t] \in Adding => wr_pos'[t] = write_position'
        /\ pc'[t] \in {"data", "header", "ready"} => wr_pos'[t] \notin Waiting'
    <3>1. wr_pos[t] = write_position /\ (pc[t] \in {"data", "header", "ready"} => wr_pos[t] \notin Waiting)
      BY <2>1 DEF LoneCaller
    <3>2. CASE MarkBusy(t)
      BY <3>1, <3>2, WaitingWhenAdding, Zenon DEF MarkBusy, Goto, TypeOK
    <3>3. CASE StoreData(t) \/ StoreHeader(t)
      BY <3>1, <3>3, WaitingWhenAdding DEF StoreData, StoreHeader, Goto, TypeOK, producerVars
    <3>4. CASE MarkReady(t) \/ Advance(t)
      BY <3>1, <3>4 DEF MarkReady, Advance, Goto, TypeOK, Adding
    <3>5. QED
      BY <1>2, <3>2, <3>3, <3>4
  <2>4. QED
    BY ONLY <2>2, <2>3 DEF LoneCaller, Adding
<1>3. ASSUME Drain PROVE LoneCaller'
  <2>1. /\ \A t \in Tasks : pc'[t] \in Adding => pc'[t] = pc[t]
        /\ UNCHANGED producerVars
    BY <1>3, TaskAssumption
       DEF Drain, StartWrite, PollReady, PollStop, CopyHeader, CopyData, Release, Transmit,
           Goto, TypeOK, Adding
  <2>2. Waiting' \subseteq Waiting
    BY <1>3, WaitingWhenDraining DEF Drain
  <2>3. QED
    BY ONLY <2>1, <2>2, LoneCaller DEF LoneCaller, producerVars, Adding
<1>4. ASSUME TxTimer \/ MailboxSent \/ UNCHANGED vars PROVE LoneCaller'
  BY <1>4 DEF TxTimer, MailboxSent, vars, producerVars, LoneCaller, Waiting
<1>5. QED
  BY <1>1, <1>2, <1>3, <1>4 DEF Next, Add

-----------------------------------------------------------------------------
LEMMA WaitingCount ==
  ASSUME TypeOK
  PROVE  /\ IsFiniteSet(Waiting)
         /\ Cardinality(Waiting) \in 0 .. StackLength
<1>1. IsFiniteSet(Slots) /\ Cardinality(Slots) = StackLength
  BY FS_Interval, SizeAssumption DEF Slots
<1>2. Waiting \in SUBSET Slots
  BY DEF Waiting
<1>3. QED
  BY <1>1, <1>2, FS_Subset, FS_CardinalityType, SizeAssumption

\* One more slot published, or one slot taken, moves both ends by one.
LEMMA GapPublished ==
  ASSUME NEW r \in Slots, NEW k \in 0 .. StackLength - 1, NEW p \in Slots
  PROVE  Gap(Plus(r, k + 1), NextSlot(p)) = Gap(Plus(r, k), p)
  BY SizeAssumption DEF Gap, Plus, NextSlot, Slots

LEMMA PhaseStep ==
  ASSUME TypeOK, OneCaller, LoneCaller, [Next]_vars,
         ~overlapped', ~TakesRewritten, \A i \in Slots : ~Overwrites(i)
  PROVE  Phase' = Phase
<1> DEFINE count == Cardinality(Waiting)
<1>a. IsFiniteSet(Waiting) /\ count \in 0 .. StackLength
  BY WaitingCount
<1>b. read_position \in Slots /\ write_position \in Slots /\ PublishSlot \in Slots
  BY NextSlotInRing DEF TypeOK, PublishSlot
<1>1. ASSUME NEW t \in Tasks, Call(t) PROVE Phase' = Phase
  <2>1. Waiting' = Waiting /\ UNCHANGED <<read_position, write_position>>
    BY <1>1 DEF Call, Waiting, consumerVars
  <2>2. PublishSlot' = PublishSlot
    BY <1>1, <2>1 DEF Call, Goto, PublishSlot, NextSlot, TypeOK
  <2>3. QED
    BY <2>1, <2>2 DEF Phase, Gap, Plus
<1>2. ASSUME NEW t \in Tasks, MarkBusy(t) \/ StoreData(t) \/ StoreHeader(t) PROVE Phase' = Phase
  <2>1. Waiting' = Waiting
    <3>1. CASE MarkBusy(t)
      <4>1. wr_pos[t] \in Slots /\ packet'[wr_pos[t]].state = "BUSY_PACKET"
        BY <3>1 DEF MarkBusy, TypeOK
      <4>2. wr_pos[t] \notin Waiting
        BY <4>1 DEF Overwrites, Waiting
      <4>3. QED
        BY <3>1, <4>2, WaitingWhenAdding
    <3>2. CASE StoreData(t) \/ StoreHeader(t)
      BY <3>2, WaitingWhenAdding
    <3>3. QED
      BY <1>2, <3>1, <3>2
  <2>2. UNCHANGED <<read_position, write_position>>
    BY <1>2 DEF MarkBusy, StoreData, StoreHeader, producerVars, consumerVars
  <2>3. PublishSlot' = PublishSlot
    BY <1>2, <2>2 DEF MarkBusy, StoreData, StoreHeader, Goto, PublishSlot, NextSlot, TypeOK
  <2>4. QED
    BY <2>1, <2>2, <2>3 DEF Phase, Gap, Plus
<1>3. ASSUME NEW t \in Tasks, MarkReady(t) PROVE Phase' = Phase
  <2>1. ~overlapped /\ pc[t] = "ready" /\ pc[t] \in Adding
    BY <1>3 DEF MarkReady, Adding
  <2>2. \A u \in Tasks \ {t} : pc[u] \notin Adding
    BY <2>1, TheCaller
  <2>3. wr_pos[t] \notin Waiting
    BY <2>1 DEF LoneCaller
  <2>4. Cardinality(Waiting') = count + 1 /\ count + 1 \in 0 .. StackLength
    <3>1. Waiting' = Waiting \cup {wr_pos[t]}
      BY <1>3, WaitingWhenAdding
    <3>2. Cardinality(Waiting') = count + 1
      <4>1. \A x : x \notin Waiting => Cardinality(Waiting \cup {x}) = Cardinality(Waiting) + 1
        BY ONLY <1>a, FS_AddElement, Zenon
      <4>2. Cardinality(Waiting \cup {wr_pos[t]}) = Cardinality(Waiting) + 1
        BY ONLY <2>3, <4>1, Zenon
      <4>3. QED BY ONLY <3>1, <4>2, Zenon
    <3>3. Waiting' \in SUBSET Slots /\ IsFiniteSet(Slots) /\ Cardinality(Slots) = StackLength
      BY FS_Interval, SizeAssumption DEF Slots, Waiting
    <3>4. QED
      BY <1>a, <3>2, <3>3, FS_Subset, SizeAssumption
  <2>5. /\ PublishSlot = write_position
        /\ PublishSlot' = NextSlot(write_position)
        /\ read_position' = read_position
    BY <1>3, <2>1, <2>2 DEF MarkReady, Goto, PublishSlot, NextSlot, TypeOK, Adding, consumerVars
  <2>6. Gap(Plus(read_position, count + 1), NextSlot(write_position))
          = Gap(Plus(read_position, count), write_position)
    BY <1>a, <1>b, <2>4, GapPublished, SizeAssumption
  <2>7. QED
    BY <2>4, <2>5, <2>6 DEF Phase, Gap, Plus
<1>4. ASSUME NEW t \in Tasks, Advance(t) PROVE Phase' = Phase
  <2>1. ~overlapped /\ pc[t] = "advance" /\ pc[t] \in Adding
    BY <1>4 DEF Advance, Adding
  <2>2. \A u \in Tasks \ {t} : pc[u] \notin Adding
    BY <2>1, TheCaller
  <2>3. /\ PublishSlot = NextSlot(write_position)
        /\ PublishSlot' = NextSlot(write_position)
    BY <1>4, <2>1, <2>2
       DEF Advance, Goto, PublishSlot, NextSlot, TypeOK, Adding, LoneCaller
  <2>4. Waiting' = Waiting /\ read_position' = read_position
    BY <1>4 DEF Advance, Waiting, consumerVars
  <2>5. QED
    BY <2>3, <2>4 DEF Phase, Gap, Plus
<1>5. ASSUME Drain PROVE Phase' = Phase
  <2>1. PublishSlot' = PublishSlot
    <3>1. \A t \in Tasks : pc'[t] = "advance" <=> pc[t] = "advance"
      BY <1>5, TaskAssumption
         DEF Drain, StartWrite, PollReady, PollStop, CopyHeader, CopyData, Release, Transmit,
             Goto, TypeOK
    <3>2. write_position' = write_position
      BY <1>5 DEF Drain, StartWrite, PollReady, PollStop, CopyHeader, CopyData, Release,
                  Transmit, producerVars
    <3>3. QED
      BY <3>1, <3>2 DEF PublishSlot, NextSlot
  <2>2. CASE Release
    <3>1. pc[CanTask] = "release" /\ pc'[CanTask] = "transmit"
      BY <2>2, TaskAssumption DEF Release, Goto, TypeOK
    <3>2. read_position \in Waiting
      BY <1>b, <3>1 DEF TakesRewritten, Waiting
    <3>3. Waiting' = Waiting \ {read_position} /\ read_position' = NextSlot(read_position)
      BY <2>2, WaitingWhenDraining DEF Release
    <3>4. Cardinality(Waiting') = count - 1
      BY <1>a, <3>2, <3>3, FS_RemoveElement
    <3>5. count \in 1 .. StackLength
      BY <1>a, <3>2, FS_EmptySet, SizeAssumption
    <3>6. Plus(read_position, count) = Plus(NextSlot(read_position), count - 1)
      BY <1>b, <3>5, PlusFromNextSlot
    <3>7. QED
      BY <2>1, <3>3, <3>4, <3>6 DEF Phase, Gap, Plus
  <2>3. CASE ~Release
    <3>1. Waiting' = Waiting
      BY <1>5, <2>3, WaitingWhenDraining DEF Drain
    <3>2. read_position' = read_position
      BY <1>5, <2>3 DEF Drain, StartWrite, PollReady, PollStop, CopyHeader, CopyData,
                        Transmit, consumerVars
    <3>3. QED
      BY <2>1, <3>1, <3>2 DEF Phase, Gap, Plus
  <2>4. QED
    BY <2>2, <2>3
<1>6. ASSUME TxTimer \/ MailboxSent \/ UNCHANGED vars PROVE Phase' = Phase
  BY <1>6 DEF TxTimer, MailboxSent, vars, producerVars, Phase, Gap, Plus, PublishSlot,
              NextSlot, Waiting
<1>7. QED
  BY <1>1, <1>2, <1>3, <1>4, <1>5, <1>6 DEF Next, Add

\* Lost synchronisation stays lost: with any number of slots, a step that
\* overwrites no queued packet and takes out no half rewritten one keeps the
\* distance between the positions and the READY_PACKET slots between them.
THEOREM PhaseNeverHeals == Spec => PhaseIsKept
<1>1. TypeOK /\ OneCaller /\ LoneCaller /\ [Next]_vars
        => [~overlapped' /\ ~TakesRewritten /\ (\A i \in Slots : ~Overwrites(i))
              => Phase' = Phase]_vars
  BY PhaseStep
<1>2. Spec => []LoneCaller
  <2>1. TypeOK /\ OneCaller /\ LoneCaller /\ [Next]_vars => LoneCaller'
    BY LoneCallerKept
  <2>2. IInv => OneCaller
    BY DEF IInv
  <2>3. QED
    BY LoneCallerInit, TypeCorrect, IInvAlways, <2>1, <2>2, PTL DEF Spec
<1>3. IInv => OneCaller
  BY DEF IInv
<1>4. QED
  BY <1>1, <1>2, <1>3, TypeCorrect, IInvAlways, PTL DEF Spec, PhaseIsKept

-----------------------------------------------------------------------------
(* The link with the PLC.  The argument has two halves, one per task:      *)
(* CountInv relates the network task's count to the silence it stands for, *)
(* ReportInv relates, at each statement of the CAN task, what is marked to *)
(* what the PLC knows.                                                     *)

\* The count against the silence, statement by statement.
CountInv ==
  /\ npc = "check" => hb_cnt \in {0, hb_reg}
  /\ npc \in {"drop", "unlink", "reset"} => hb_cnt = 0
  /\ npc = "store" => hb_reg >= 1
  /\ ~overtaken => /\ hb_cnt <= silence
                   /\ npc = "store" => hb_reg <= silence + 1
                   /\ npc = "check" => hb_reg <= silence
                   /\ npc \in {"loss", "zero", "drop"} => silence >= HbLimit
                   /\ npc \in {"zero", "drop"} => (plc_can_link = 1 => alarmed)
  /\ plc_can_link = 1 => /\ npc \notin {"loss", "zero", "drop"} => silence <= hb_cnt
                         /\ npc = "store" => silence + 1 <= hb_reg
  /\ plc_can_link = 0 /\ npc # "unlink" => 0 \notin plc_link

\* Every input that is not in marked is known to the PLC as it is in sample.
Covered(marked, sample) == \A i \in Inputs : i \in marked \/ known[i] = sample[i]

\* What the CAN task has still to report, statement by statement.
ReportInv ==
  /\ cpc \in {"send", "clear", "keep"} => changed = {}
  /\ refreshed =>
       /\ cpc = "sample" => Covered(update_di, prev_di)
       /\ cpc \in {"mark", "store", "send"} => Covered(update_di \cup changed, cur_di)
       /\ cpc \in Marking => update_di = di_reg
       /\ cpc = "clear" => Covered({}, cur_di)
       /\ cpc = "keep" => Covered(update_di, cur_di)

LinkInv == LinkTypeOK /\ CountInv /\ ReportInv

LEMMA LinkInvInit == LinkInit => LinkInv
<1> SUFFICES ASSUME LinkInit PROVE LinkInv
  OBVIOUS
<1>1. CountTypes
  BY LinkAssumption DEF LinkInit, CountTypes, Steady
<1>2. ReportTypes
  BY LinkAssumption DEF LinkInit, ReportTypes
<1>3. FlagTypes
  BY DEF LinkInit, FlagTypes
<1>4. CountInv
  BY DEF LinkInit, CountInv
<1>5. ReportInv
  BY DEF LinkInit, ReportInv
<1>6. QED BY <1>1, <1>2, <1>3, <1>4, <1>5 DEF LinkInv, LinkTypeOK

-----------------------------------------------------------------------------
(* Types. *)

LEMMA FlagsKept == FlagTypes /\ [LinkNext]_linkVars => FlagTypes'
<1> SUFFICES ASSUME FlagTypes, [LinkNext]_linkVars PROVE FlagTypes'
  OBVIOUS
<1>1. alarmed' \in BOOLEAN
  <2>1. alarmed' = alarmed \/ alarmed' = (plc_can_link = 1) \/ alarmed' = FALSE
    BY DEF LinkNext, linkVars, network, Heartbeat, Event, NetworkTask, LoadCount, StoreCount,
       CheckCount, ArchiveLoss, ZeroCount, DropLink, Unlink, ResetPlcData, ReportTask,
       SampleInputs, LoadUpdate, StoreUpdate, TakeMask, SendDigits, ClearUpdate, KeepInputs,
       ChangeInput, RestartPlc
  <2>2. QED BY <2>1, Zenon DEF FlagTypes
<1>2. overtaken' \in BOOLEAN
  <2>1. overtaken' = overtaken \/ overtaken' = (npc \notin Steady) \/ overtaken' = FALSE
    BY DEF LinkNext, linkVars, watch, Heartbeat, Event, NetworkTask, LoadCount, StoreCount,
       CheckCount, ArchiveLoss, ZeroCount, DropLink, Unlink, ResetPlcData, ReportTask,
       SampleInputs, LoadUpdate, StoreUpdate, TakeMask, SendDigits, ClearUpdate, KeepInputs,
       ChangeInput, RestartPlc
  <2>2. QED BY <2>1, Zenon DEF FlagTypes
<1>3. refreshed' \in BOOLEAN
  <2>1. refreshed' = refreshed \/ refreshed' = (cpc \notin Marking) \/ refreshed' = FALSE
    BY DEF LinkNext, linkVars, Heartbeat, Event, NetworkTask, LoadCount, StoreCount,
       CheckCount, ArchiveLoss, ZeroCount, DropLink, Unlink, ResetPlcData, ReportTask,
       SampleInputs, LoadUpdate, StoreUpdate, TakeMask, SendDigits, ClearUpdate, KeepInputs,
       ChangeInput, RestartPlc
  <2>2. QED BY <2>1, Zenon DEF FlagTypes
<1>4. QED BY <1>1, <1>2, <1>3 DEF FlagTypes

LEMMA ReportTypesKept == ReportTypes /\ [LinkNext]_linkVars => ReportTypes'
<1> SUFFICES ASSUME ReportTypes, [LinkNext]_linkVars PROVE ReportTypes'
  OBVIOUS
<1>1. ASSUME NEW node \in Nodes, Heartbeat(node) PROVE ReportTypes'
  BY <1>1 DEF Heartbeat, ReportTypes, canTask, plc, pins
<1>2. CASE ReportTask
  <2>1. CASE SampleInputs BY <2>1 DEF SampleInputs, ReportTypes, plc, pins
  <2>2. CASE LoadUpdate BY <2>2 DEF LoadUpdate, ReportTypes, Marking, plc, pins
  <2>3. CASE StoreUpdate BY <2>3 DEF StoreUpdate, ReportTypes, plc, pins
  <2>4. CASE TakeMask BY <2>4, LinkAssumption DEF TakeMask, ReportTypes, Marking, plc, pins
  <2>5. CASE SendDigits BY <2>5 DEF SendDigits, ReportTypes, Marking, pins
  <2>6. CASE ClearUpdate BY <2>6, LinkAssumption DEF ClearUpdate, ReportTypes, plc, pins
  <2>7. CASE KeepInputs BY <2>7 DEF KeepInputs, ReportTypes, plc, pins
  <2>8. QED BY <1>2, <2>1, <2>2, <2>3, <2>4, <2>5, <2>6, <2>7 DEF ReportTask
<1>3. ASSUME NEW i \in Inputs, ChangeInput(i) PROVE ReportTypes'
  BY <1>3 DEF ChangeInput, ReportTypes, canTask, plc
<1>4. CASE RestartPlc
  BY <1>4 DEF RestartPlc, ReportTypes, canTask, pins
<1>5. CASE Event \/ NetworkTask \/ UNCHANGED linkVars
  <2>1. UNCHANGED <<update_di, canTask, plc, pins>>
    BY <1>5 DEF Event, NetworkTask, LoadCount, StoreCount, CheckCount, ArchiveLoss,
                ZeroCount, DropLink, Unlink, ResetPlcData, linkVars
  <2>2. QED BY <2>1 DEF ReportTypes, canTask, plc, pins
<1>6. QED BY <1>1, <1>2, <1>3, <1>4, <1>5 DEF LinkNext

-----------------------------------------------------------------------------
(* The network task. *)

LEMMA CountTypesKept == CountTypes /\ CountInv /\ [LinkNext]_linkVars => CountTypes'
<1> SUFFICES ASSUME CountTypes, CountInv, [LinkNext]_linkVars PROVE CountTypes'
  OBVIOUS
<1>1. ASSUME NEW node \in Nodes, Heartbeat(node) PROVE CountTypes'
  BY <1>1, LinkAssumption DEF Heartbeat, CountTypes, network, pins, plc
<1>2. CASE NetworkTask
  <2> USE LinkAssumption DEF Steady, watch, plc, pins
  <2>1. CASE LoadCount BY <2>1 DEF LoadCount, CountTypes, link
  <2>2. CASE StoreCount BY <2>2 DEF StoreCount, CountTypes
  <2>3. CASE CheckCount BY <2>3 DEF CheckCount, CountTypes, CountInv, link
  <2>4. CASE ArchiveLoss BY <2>4 DEF ArchiveLoss, CountTypes, link
  <2>5. CASE ZeroCount BY <2>5 DEF ZeroCount, CountTypes
  <2>6. CASE DropLink BY <2>6 DEF DropLink, CountTypes
  <2>7. CASE Unlink BY <2>7 DEF Unlink, CountTypes
  <2>8. CASE ResetPlcData
    <3>1. hb_cnt = 0
      BY <2>8 DEF ResetPlcData, CountInv
    <3>2. QED BY <2>8, <3>1 DEF ResetPlcData, CountTypes
  <2>9. QED BY <1>2, <2>1, <2>2, <2>3, <2>4, <2>5, <2>6, <2>7, <2>8 DEF NetworkTask
<1>3. CASE Event
  BY <1>3 DEF Event, CountTypes, network, watch, plc, pins
<1>4. CASE ReportTask \/ (\E i \in Inputs : ChangeInput(i)) \/ RestartPlc \/ UNCHANGED linkVars
  <2>1. UNCHANGED <<link, network, watch, heartbeats>>
    BY <1>4 DEF ReportTask, SampleInputs, LoadUpdate, StoreUpdate, TakeMask, SendDigits,
                ClearUpdate, KeepInputs, ChangeInput, RestartPlc, linkVars
  <2>2. changes' \in Nat /\ restarts' \in Nat
    BY <1>4 DEF ReportTask, SampleInputs, LoadUpdate, StoreUpdate, TakeMask, SendDigits,
                ClearUpdate, KeepInputs, ChangeInput, RestartPlc, linkVars, CountTypes, plc, pins
  <2>3. QED BY <2>1, <2>2 DEF CountTypes, link, network, watch
<1>5. QED BY <1>1, <1>2, <1>3, <1>4 DEF LinkNext

LEMMA CountKept == CountTypes /\ FlagTypes /\ CountInv /\ [LinkNext]_linkVars => CountInv'
<1> SUFFICES ASSUME CountTypes, FlagTypes, CountInv, [LinkNext]_linkVars PROVE CountInv'
  OBVIOUS
<1>1. ASSUME NEW node \in Nodes, Heartbeat(node) PROVE CountInv'
  <2>1. /\ hb_cnt' = 0 /\ plc_can_link' = 1 /\ silence' = 0
        /\ npc' = npc /\ hb_reg' = hb_reg
    BY <1>1 DEF Heartbeat, network
  <2>2. ~overtaken' => npc \in Steady
    BY <1>1 DEF Heartbeat
  <2>3. QED BY <2>1, <2>2, LinkAssumption DEF CountInv, CountTypes, Steady
<1>2. CASE NetworkTask
  <2> USE LinkAssumption DEF CountTypes, FlagTypes
  <2>1. CASE LoadCount BY <2>1 DEF LoadCount, CountInv, link, watch
  <2>2. CASE StoreCount BY <2>2 DEF StoreCount, CountInv
  <2>3. CASE CheckCount BY <2>3 DEF CheckCount, CountInv, link, watch
  <2>4. CASE ArchiveLoss
    <3>1. plc_can_link = 1 => alarmed'
      BY <2>4 DEF ArchiveLoss
    <3>2. QED BY <2>4, <3>1 DEF ArchiveLoss, CountInv, link, watch
  <2>5. CASE ZeroCount BY <2>5 DEF ZeroCount, CountInv, watch
  <2>6. CASE DropLink BY <2>6 DEF DropLink, CountInv
  <2>7. CASE Unlink BY <2>7 DEF Unlink, CountInv, watch
  <2>8. CASE ResetPlcData BY <2>8 DEF ResetPlcData, CountInv, watch
  <2>9. QED BY <1>2, <2>1, <2>2, <2>3, <2>4, <2>5, <2>6, <2>7, <2>8 DEF NetworkTask
<1>3. CASE Event \/ ReportTask \/ (\E i \in Inputs : ChangeInput(i)) \/ RestartPlc \/ UNCHANGED linkVars
  <2>1. UNCHANGED <<hb_cnt, plc_can_link, plc_link, network, watch>>
    BY <1>3 DEF Event, ReportTask, SampleInputs, LoadUpdate, StoreUpdate, TakeMask, SendDigits,
                ClearUpdate, KeepInputs, ChangeInput, RestartPlc, link, linkVars
  <2>2. QED BY <2>1 DEF CountInv, network, watch
<1>4. QED BY <1>1, <1>2, <1>3 DEF LinkNext

-----------------------------------------------------------------------------
(* The CAN task. *)

LEMMA ReportKept == ReportTypes /\ FlagTypes /\ ReportInv /\ [LinkNext]_linkVars => ReportInv'
<1> SUFFICES ASSUME ReportTypes, FlagTypes, ReportInv, [LinkNext]_linkVars PROVE ReportInv'
  OBVIOUS
<1> USE DEF Covered
<1>1. ASSUME NEW node \in Nodes, Heartbeat(node) PROVE ReportInv'
  <2>1. UNCHANGED <<cpc, changed, di_reg, known, prev_di, cur_di>>
    BY <1>1 DEF Heartbeat, canTask, plc
  <2>2. CASE plc_can_link = 0
    <3>1. update_di' = Inputs /\ (refreshed' => cpc \notin Marking)
      BY <1>1, <2>2 DEF Heartbeat
    <3>2. QED BY <2>1, <3>1 DEF ReportInv, ReportTypes, Marking
  <2>3. CASE plc_can_link # 0
    <3>1. UNCHANGED <<update_di, refreshed>>
      BY <1>1, <2>3 DEF Heartbeat
    <3>2. QED BY <2>1, <3>1 DEF ReportInv
  <2>4. QED BY <2>2, <2>3
<1>2. CASE ReportTask
  <2> USE DEF ReportTypes, Marking
  <2>1. CASE SampleInputs BY <2>1 DEF SampleInputs, ReportInv, plc
  <2>2. CASE LoadUpdate BY <2>2 DEF LoadUpdate, ReportInv, plc
  <2>3. CASE StoreUpdate BY <2>3 DEF StoreUpdate, ReportInv, plc
  <2>4. CASE TakeMask BY <2>4 DEF TakeMask, ReportInv, plc
  <2>5. CASE SendDigits BY <2>5 DEF SendDigits, ReportInv
  <2>6. CASE ClearUpdate BY <2>6 DEF ClearUpdate, ReportInv, plc
  <2>7. CASE KeepInputs BY <2>7 DEF KeepInputs, ReportInv, plc
  <2>8. QED BY <1>2, <2>1, <2>2, <2>3, <2>4, <2>5, <2>6, <2>7 DEF ReportTask
<1>3. CASE RestartPlc
  BY <1>3 DEF RestartPlc, ReportInv, canTask
<1>4. CASE Event \/ NetworkTask \/ (\E i \in Inputs : ChangeInput(i)) \/ UNCHANGED linkVars
  <2>1. UNCHANGED <<update_di, canTask, known, refreshed>>
    BY <1>4 DEF Event, NetworkTask, LoadCount, StoreCount, CheckCount, ArchiveLoss, ZeroCount,
                DropLink, Unlink, ResetPlcData, ChangeInput, plc, linkVars
  <2>2. QED BY <2>1 DEF ReportInv, canTask
<1>5. QED BY <1>1, <1>2, <1>3, <1>4 DEF LinkNext

-----------------------------------------------------------------------------

LEMMA LinkInductive == LinkSpec => []LinkInv
<1>1. LinkInv /\ [LinkNext]_linkVars => LinkInv'
  BY FlagsKept, ReportTypesKept, CountTypesKept, CountKept, ReportKept DEF LinkInv, LinkTypeOK
<1>2. QED BY LinkInvInit, <1>1, PTL DEF LinkSpec

\* Every variable keeps its range: the count never passes the limit, the report
\* timer never passes the period.
THEOREM LinkTypes == LinkSpec => []LinkTypeOK
<1>1. LinkInv => LinkTypeOK
  BY DEF LinkInv
<1>2. QED BY LinkInductive, <1>1, PTL

\* The network task sees every silence and leaves PLC 0 unlinked after it.
THEOREM SilenceSeen == LinkSpec => []SilenceIsSeen
<1>1. LinkInv => SilenceIsSeen
  BY LinkAssumption DEF LinkInv, LinkTypeOK, CountTypes, CountInv, SilenceIsSeen
<1>2. QED BY LinkInductive, <1>1, PTL

\* The link is not dropped while heartbeats come, short of the race the property
\* names, and no loss goes unrecorded.
THEOREM LossNeedsSilence == LinkSpec => LossOnlyAfterSilence
<1>1. LinkInv /\ [LinkNext]_linkVars =>
        [plc_can_link = 1 /\ plc_can_link' = 0 =>
           overtaken \/ (silence >= HbLimit /\ alarmed)]_plc_can_link
  <2> SUFFICES ASSUME LinkInv, [LinkNext]_linkVars, plc_can_link = 1, plc_can_link' = 0
               PROVE  overtaken \/ (silence >= HbLimit /\ alarmed)
    OBVIOUS
  <2>1. CASE DropLink
    BY <2>1 DEF DropLink, LinkInv, CountInv
  <2>2. CASE \E node \in Nodes : Heartbeat(node)
    BY <2>2 DEF Heartbeat
  <2>3. CASE UNCHANGED plc_can_link
    BY <2>3
  <2>4. QED
    BY <2>1, <2>2, <2>3 DEF LinkNext, Event, NetworkTask, LoadCount, StoreCount, CheckCount,
         ArchiveLoss, ZeroCount, Unlink, ResetPlcData, ReportTask, SampleInputs, LoadUpdate,
         StoreUpdate, TakeMask, SendDigits, ClearUpdate, KeepInputs, ChangeInput, RestartPlc,
         link, linkVars
<1>2. QED BY LinkInductive, <1>1, PTL DEF LinkSpec, LossOnlyAfterSilence

\* The PLC's picture of the inputs is never silently out of date, short of the
\* race the property names.
THEOREM InputsReported == LinkSpec => []ReportedUnlessMarked
<1>1. LinkInv => ReportedUnlessMarked
  BY DEF LinkInv, ReportInv, Covered, ReportedUnlessMarked
<1>2. QED BY LinkInductive, <1>1, PTL

=============================================================================
