------------------------ MODULE ArchiveWriters_proofs ------------------------
(***************************************************************************)
(* The safety properties of ArchiveWriters hold for any number of pages,   *)
(* of records in a page and of page pointers, for any archive to start     *)
(* with, and for any number of records and clears: its types, what is in   *)
(* the flash after a record that was added alone, and that it implements   *)
(* RecordLog.                                                              *)
(*                                                                         *)
(* The invariant has two parts.  Whatever the two tasks do, they stay in   *)
(* bounds (Bounds), and the history knows whether they met (Meeting).  A   *)
(* task that works alone leaves, at each of its steps, what its next one   *)
(* needs (AddsAlone, ClearsAlone), and between two operations the memory   *)
(* is what is on show (AtRest).                                            *)
(***************************************************************************)
EXTENDS ArchiveWriters, WellFoundedInduction, TLAPS

AddSteps == {"slot", "wrap", "fill", "seal", "recordWritten"}
ClearSteps == {"clearStatics", "erasePages"}
PointerSteps == {"pointer", "address", "pointerWritten"}

Types ==
  /\ arch_buf \in [Slots -> (-3 .. begun) \cup {Mixed}]
  /\ last_rec_ptr \in Slots \cup {Null}
  /\ archive_page_num \in 0 .. PageCnt + 1
  /\ offset_in_page_ptr_page \in 0 .. PtrSlots + 1
  /\ rec \in Int
  /\ flash \in [Sectors -> [Cells -> Int]]
  /\ begun \in 0 .. MaxRecords /\ added \in 0 .. begun

TaskTypes ==
  /\ op \in [Tasks -> {"none", "add", "clear"}]
  /\ pc \in [Tasks -> AddSteps \cup ClearSteps \cup PointerSteps \cup {"idle", "write"}]
  /\ slot \in [Tasks -> Slots]
  /\ addr \in [Tasks -> Sectors \X Cells]
  /\ data \in [Tasks -> {"pointer", "record"}]
  /\ number \in [Tasks -> 0 .. begun]
  /\ page_num \in [Tasks -> Nat]

FlagTypes ==
  /\ busy \in BOOLEAN /\ met \subseteq Tasks
  /\ overlap \in [Tasks -> BOOLEAN] /\ idle \in [Tasks -> BOOLEAN] /\ turned \in [Tasks -> BOOLEAN]
  /\ sound \in BOOLEAN /\ since \in 0 .. PageRecords
  /\ kept \in {"no", "added", "turned"}

\* The steps belong to the operation.
StepsOf(t) ==
  /\ op[t] = "none" <=> pc[t] = "idle"
  /\ pc[t] \in AddSteps => op[t] = "add"
  /\ pc[t] \in ClearSteps => op[t] = "clear"
  /\ op[t] = "clear" => t = "lcd"
  /\ pc[t] = "write" /\ data[t] = "record" => op[t] = "add"
  /\ op[t] = "add" => number[t] > 0

Steps == \A t \in Tasks : StepsOf(t)

\* Each task takes each count at most one too far.
Pointing(t) == pc[t] \in {"address", "pointerWritten"} \/ (pc[t] = "write" /\ data[t] = "pointer")

Bounds ==
  /\ \A t \in Tasks : pc[t] # "wrap" => archive_page_num <= PageCnt
  /\ (\A t \in Tasks : pc[t] # "wrap") => archive_page_num <= PageCnt - 1
  /\ \A t \in Tasks : Pointing(t) => offset_in_page_ptr_page <= PtrSlots
  /\ (\A t \in Tasks : Pointing(t)) => offset_in_page_ptr_page <= PtrSlots - 1

\* The history knows when the tasks meet.
Meeting ==
  /\ \A t \in Tasks : op[t] # "none" /\ op[Other(t)] # "none" => overlap[t]
  /\ \A t \in Tasks : overlap[t] => op[t] # "none" /\ ~sound /\ since = 0
  /\ \A t \in met : AtFlash(t) /\ overlap[t]
  /\ \A t \in Tasks : op[t] = "add" /\ ~overlap[t] /\ idle[t] => ~busy
  /\ \A t \in Tasks : op[t] # "none" => kept = "no"
  /\ ~sound => since < PageRecords

\* What is on show, slot by slot.  Of a damaged log only what was added since is known.
Buffer(last, k) == Back(arch_buf, last, k)

OnShow(last) ==
  /\ sound => IF last = Null THEN \A s \in Slots : ~Valid(arch_buf[s]) ELSE TRUE
  /\ ~sound /\ since > 0 => last # Null /\ \A k \in 0 .. since - 1 : Buffer(last, k) = added - k
  /\ view = Shown(arch_buf, last)

\* What is behind the slot of the record that is being added.
Behind(s) ==
  /\ sound => \A k \in 1 .. PageRecords - 1 :
                /\ k <= Len(view) => Buffer(s, k) = view[k] /\ Valid(view[k])
                /\ k = Len(view) + 1 => ~Valid(Buffer(s, k))
  /\ ~sound => \A k \in 1 .. since : Buffer(s, k) = added - k + 1

PageHasPointer(at) == flash[0][at] = Ptr(archive_page_num)

AtRest ==
  (\A t \in Tasks : op[t] = "none") => added = begun /\ OnShow(last_rec_ptr)

\* What a task knows that adds a record alone.
PlaceAlone(t) ==
  /\ added = begun - 1 /\ number[t] = begun
  /\ pc[t] = "slot" => OnShow(last_rec_ptr) /\ ~turned[t]
  /\ pc[t] # "slot" => Behind(slot[t])

PointerAlone(t) ==
  /\ pc[t] \in {"wrap", "pointer"} \/ Pointing(t) => turned[t]
  /\ pc[t] = "pointer" => page_num[t] = archive_page_num
  /\ Pointing(t) => rec = archive_page_num /\ offset_in_page_ptr_page < PtrSlots
  /\ pc[t] = "write" /\ data[t] = "pointer" => addr[t] = <<0, offset_in_page_ptr_page>>
  /\ pc[t] = "pointerWritten" /\ idle[t] => PageHasPointer(offset_in_page_ptr_page)

Recording(t) == pc[t] \in {"fill", "seal", "recordWritten"} \/ (pc[t] = "write" /\ data[t] = "record")

RecordAlone(t) ==
  /\ Recording(t) /\ turned[t] =>
       /\ offset_in_page_ptr_page - 1 \in 0 .. PtrSlots - 1
       /\ idle[t] => PageHasPointer(offset_in_page_ptr_page - 1)
  /\ pc[t] = "seal" => arch_buf[slot[t]] = Half(t)
  /\ (pc[t] = "write" /\ data[t] = "record") \/ pc[t] = "recordWritten" => arch_buf[slot[t]] = begun
  /\ pc[t] = "write" /\ data[t] = "record" => addr[t] = <<1 + archive_page_num, slot[t]>>
  /\ pc[t] = "recordWritten" /\ idle[t] => flash[1 + archive_page_num][slot[t]] = arch_buf[slot[t]]

AddsAlone ==
  \A t \in Tasks : op[t] = "add" /\ ~overlap[t] => PlaceAlone(t) /\ PointerAlone(t) /\ RecordAlone(t)

ClearsAlone ==
  op["lcd"] = "clear" /\ ~overlap["lcd"] =>
    added = begun /\ last_rec_ptr = Null /\ arch_buf = [s \in Slots |-> Blank]

\* No task writes behind the archive, and alone it writes neither there nor late.
AloneInArchive ==
  \A t \in Tasks : ~overlap[t] => Sector(t) <= PageCnt

\* The records on show were begun, and those added since a damage are some of those added.
Known ==
  /\ view \in Seq((1 .. begun) \cup {Mixed}) /\ Len(view) <= PageRecords
  /\ since <= added

IInv == /\ Types /\ TaskTypes /\ FlagTypes /\ Steps /\ Bounds /\ Meeting
        /\ AtRest /\ AddsAlone /\ ClearsAlone /\ AloneInArchive /\ FlashHasNewest /\ Known

-----------------------------------------------------------------------------
(* The two tasks, and the limits of the constants. *)

LEMMA Others ==
  ASSUME NEW t \in Tasks
  PROVE  /\ Other(t) \in Tasks /\ Other(t) # t /\ Other(Other(t)) = t
         /\ \A u \in Tasks : u = t \/ u = Other(t)
<1>1. \A u \in Tasks : \E v \in Tasks : v # u
  BY DEF Tasks
<1>2. \A u \in Tasks : Other(u) \in Tasks /\ Other(u) # u
  BY <1>1, Zenon DEF Other
<1> QED
  BY <1>2 DEF Tasks

LEMMA Limits ==
  /\ PageCnt \in Nat /\ PageCnt >= 2 /\ PageRecords \in Nat /\ PageRecords >= 1
  /\ PtrSlots \in Nat /\ PtrSlots >= 1 /\ MaxRecords \in Nat
  /\ Slots = 0 .. PageRecords - 1 /\ 0 \in Slots
  /\ Slots \subseteq Cells /\ 0 .. PtrSlots - 1 \subseteq Cells
  /\ Null \notin Slots /\ Null = -1
BY WritersAssumption DEF Slots, Cells, Null

-----------------------------------------------------------------------------
(* What is on show. *)

\* Of the numbers that satisfy a condition, one is the least.
LEMMA Least ==
  ASSUME NEW T \in SUBSET Nat, T # {}
  PROVE  \E m \in T : \A k \in T : m <= k
<1>1. PICK m \in T : \A k \in T : ~ (<<k, m>> \in OpToRel(<, Nat))
  BY NatLessThanWellFounded, WFMin, Zenon
<1>2. \A k \in T : ~ k < m
  BY <1>1, Zenon DEF OpToRel
<1> QED
  BY <1>2

Records(buf, last, n) ==
  /\ \A k \in 0 .. n - 1 : Valid(Back(buf, last, k))
  /\ n < PageRecords => ~Valid(Back(buf, last, n))

LEMMA SomeRecords ==
  ASSUME NEW buf, NEW last
  PROVE  \E n \in 0 .. PageRecords : Records(buf, last, n)
<1> DEFINE T == {n \in Nat : n >= PageRecords \/ ~Valid(Back(buf, last, n))}
<1>1. T \in SUBSET Nat /\ PageRecords \in T
  BY Limits
<1>2. PICK m \in T : \A k \in T : m <= k
  BY <1>1, Least
<1>3. m \in 0 .. PageRecords
  BY <1>1, <1>2, Limits
<1>4. \A k \in 0 .. m - 1 : k \notin T /\ k \in Nat /\ ~ k >= PageRecords
  BY <1>2, <1>3, Limits
<1>5. \A k \in 0 .. m - 1 : Valid(Back(buf, last, k))
  BY <1>4, Zenon
<1>6. m < PageRecords => ~Valid(Back(buf, last, m))
  BY <1>2, <1>3, Limits
<1> QED
  BY <1>3, <1>5, <1>6, Zenon DEF Records

LEMMA CountIsRecords ==
  ASSUME NEW buf, NEW last, last # Null
  PROVE  RecordsCnt(buf, last) \in 0 .. PageRecords /\ Records(buf, last, RecordsCnt(buf, last))
<1>1. RecordsCnt(buf, last) = CHOOSE n \in 0 .. PageRecords : Records(buf, last, n)
  BY Zenon DEF RecordsCnt, Records
<1> QED
  BY <1>1, SomeRecords, Zenon

LEMMA CountIsOne ==
  ASSUME NEW buf, NEW last, last # Null, NEW n \in 0 .. PageRecords, Records(buf, last, n)
  PROVE  RecordsCnt(buf, last) = n
<1> DEFINE m == RecordsCnt(buf, last)
<1>1. m \in 0 .. PageRecords /\ Records(buf, last, m)
  BY CountIsRecords
<1> HIDE DEF m
<1>2. CASE m < n
  <2>1. m \in 0 .. n - 1 /\ m < PageRecords
    BY <1>1, <1>2, Limits
  <2> QED
    BY <1>1, <2>1, Zenon DEF Records
<1>3. CASE n < m
  <2>1. n \in 0 .. m - 1 /\ n < PageRecords
    BY <1>1, <1>3, Limits
  <2> QED
    BY <1>1, <2>1, Zenon DEF Records
<1> QED
  BY <1>1, <1>2, <1>3, Limits DEF m

\* The slot a number of places before another.
LEMMA BackIsSlot ==
  ASSUME NEW last \in Slots, NEW k \in 0 .. PageRecords - 1
  PROVE  (IF last >= k THEN last - k ELSE last - k + PageRecords) \in Slots
BY Limits

LEMMA ShownIs ==
  ASSUME NEW buf, NEW last \in Slots \cup {Null}
  PROVE  LET n == IF last = Null THEN 0 ELSE RecordsCnt(buf, last)
         IN  /\ n \in 0 .. PageRecords
             /\ Shown(buf, last) = [k \in 1 .. n |-> Back(buf, last, k - 1)]
             /\ Len(Shown(buf, last)) = n
             /\ last # Null => Records(buf, last, n)
<1> DEFINE n == IF last = Null THEN 0 ELSE RecordsCnt(buf, last)
<1>1. n \in 0 .. PageRecords /\ (last # Null => Records(buf, last, n))
  BY CountIsRecords, Limits
<1>2. RecordsCnt(buf, last) = n
  BY DEF RecordsCnt
<1> HIDE DEF n
<1>3. Shown(buf, last) = [k \in 1 .. n |-> Back(buf, last, k - 1)]
  BY <1>2 DEF Shown
<1> DEFINE e(k) == Back(buf, last, k - 1)
<1> HIDE DEF e
<1>4. Len([k \in 1 .. n |-> e(k)]) = n
  BY <1>1, Limits
<1> QED
  BY <1>1, <1>3, <1>4 DEF n, e

-----------------------------------------------------------------------------
(* Types. *)

Typed == Types /\ TaskTypes /\ FlagTypes /\ Steps /\ Bounds /\ Meeting

Step(t) == Add(t) \/ Write(t) \/ (t = "lcd" /\ (BeginClear \/ ClearStatics \/ EndClear))

LEMMA NextIsStep == Next => Ready \/ \E t \in Tasks : Step(t)
BY DEF Next, Step, Tasks

\* Where WritePointer writes.
PointerPlace == IF offset_in_page_ptr_page < PtrSlots THEN <<0, offset_in_page_ptr_page>> ELSE <<1, 0>>

\* What a step makes of the variables of its task.
LEMMA TaskSteps ==
  ASSUME NEW t \in Tasks, Step(t)
  PROVE  /\ op' = op \/ \E v \in {"none", "add", "clear"} : op' = [op EXCEPT ![t] = v]
         /\ \E v \in AddSteps \cup ClearSteps \cup PointerSteps \cup {"idle", "write"} :
              pc' = [pc EXCEPT ![t] = v]
         /\ data' = data \/ \E v \in {"pointer", "record"} : data' = [data EXCEPT ![t] = v]
         /\ \/ slot' = slot \/ slot' = [slot EXCEPT ![t] = 0]
            \/ /\ last_rec_ptr # Null /\ last_rec_ptr + 1 < PageRecords
               /\ slot' = [slot EXCEPT ![t] = last_rec_ptr + 1]
         /\ \/ addr' = addr \/ addr' = [addr EXCEPT ![t] = <<0, 0>>]
            \/ addr' = [addr EXCEPT ![t] = PointerPlace]
            \/ pc[t] = "seal" /\ addr' = [addr EXCEPT ![t] = <<1 + archive_page_num, slot[t]>>]
         /\ \/ begun' = begun /\ (number' = number \/ number' = [number EXCEPT ![t] = 0])
            \/ begun' = begun + 1 /\ begun < MaxRecords /\ number' = [number EXCEPT ![t] = begun + 1]
         /\ page_num' = page_num \/ page_num' = [page_num EXCEPT ![t] = 0]
            \/ page_num' = [page_num EXCEPT ![t] = Wrapped(archive_page_num)]
<1> USE DEF Step, Add, Goto, local, history, log, chip, ram, Return
<1>1. op' = op \/ \E v \in {"none", "add", "clear"} : op' = [op EXCEPT ![t] = v]
  BY Zenon DEF BeginAdd, Begin, FindSlot, WrapPage, PlacePointer, WritePointer, PointerWritten, Fill, Seal,
     EndAdd, Write, BeginClear, ClearStatics, EndClear
<1>2. \E v \in AddSteps \cup ClearSteps \cup PointerSteps \cup {"idle", "write"} :
              pc' = [pc EXCEPT ![t] = v]
  BY Zenon DEF BeginAdd, FindSlot, WrapPage, PlacePointer, WritePointer, PointerWritten, Fill, Seal,
     EndAdd, Write, BeginClear, ClearStatics, EndClear, AddSteps, ClearSteps, PointerSteps
<1>3. data' = data \/ \E v \in {"pointer", "record"} : data' = [data EXCEPT ![t] = v]
  BY Zenon DEF BeginAdd, FindSlot, WrapPage, PlacePointer, WritePointer, PointerWritten, Fill, Seal,
     EndAdd, Write, BeginClear, ClearStatics, EndClear
<1>4. \/ slot' = slot \/ slot' = [slot EXCEPT ![t] = 0]
      \/ /\ last_rec_ptr # Null /\ last_rec_ptr + 1 < PageRecords
         /\ slot' = [slot EXCEPT ![t] = last_rec_ptr + 1]
  BY Zenon DEF BeginAdd, FindSlot, WrapPage, PlacePointer, WritePointer, PointerWritten, Fill, Seal,
     EndAdd, Write, BeginClear, ClearStatics, EndClear
<1>5. \/ addr' = addr \/ addr' = [addr EXCEPT ![t] = <<0, 0>>]
      \/ addr' = [addr EXCEPT ![t] = PointerPlace]
      \/ pc[t] = "seal" /\ addr' = [addr EXCEPT ![t] = <<1 + archive_page_num, slot[t]>>]
  BY Zenon DEF BeginAdd, FindSlot, WrapPage, PlacePointer, WritePointer, PointerWritten, Fill, Seal,
     EndAdd, Write, BeginClear, ClearStatics, EndClear, PointerPlace
<1>6. \/ begun' = begun /\ (number' = number \/ number' = [number EXCEPT ![t] = 0])
      \/ begun' = begun + 1 /\ begun < MaxRecords /\ number' = [number EXCEPT ![t] = begun + 1]
  BY Zenon DEF BeginAdd, FindSlot, WrapPage, PlacePointer, WritePointer, PointerWritten, Fill, Seal,
     EndAdd, Write, BeginClear, ClearStatics, EndClear
<1>7. page_num' = page_num \/ page_num' = [page_num EXCEPT ![t] = 0]
      \/ page_num' = [page_num EXCEPT ![t] = Wrapped(archive_page_num)]
  BY Zenon DEF BeginAdd, FindSlot, WrapPage, PlacePointer, WritePointer, PointerWritten, Fill, Seal,
     EndAdd, Write, BeginClear, ClearStatics, EndClear
<1> QED
  BY <1>1, <1>2, <1>3, <1>4, <1>5, <1>6, <1>7, Zenon

\* A function with one value replaced by another of its range.
LEMMA Replaced ==
  ASSUME NEW D, NEW S, NEW f \in [D -> S], NEW x \in D, NEW v \in S
  PROVE  [f EXCEPT ![x] = v] \in [D -> S]
OBVIOUS

LEMMA TaskTypesStep ==
  ASSUME Typed, NEW t \in Tasks, Step(t)
  PROVE  TaskTypes'
<1>0. /\ op' = op \/ \E v \in {"none", "add", "clear"} : op' = [op EXCEPT ![t] = v]
      /\ \E v \in AddSteps \cup ClearSteps \cup PointerSteps \cup {"idle", "write"} :
           pc' = [pc EXCEPT ![t] = v]
      /\ data' = data \/ \E v \in {"pointer", "record"} : data' = [data EXCEPT ![t] = v]
  BY TaskSteps, Zenon
<1> USE DEF Typed, TaskTypes
<1>1. op' \in [Tasks -> {"none", "add", "clear"}]
  BY <1>0, Replaced
<1>2. pc' \in [Tasks -> AddSteps \cup ClearSteps \cup PointerSteps \cup {"idle", "write"}]
  BY <1>0, Replaced
<1>3. data' \in [Tasks -> {"pointer", "record"}]
  BY <1>0, Replaced
<1>4. slot' \in [Tasks -> Slots]
  <2>1. last_rec_ptr # Null /\ last_rec_ptr + 1 < PageRecords => last_rec_ptr + 1 \in Slots
    BY Limits DEF Types
  <2>2. PICK place : slot' = slot \/ (slot' = [slot EXCEPT ![t] = place] /\ place \in Slots)
    BY <2>1, TaskSteps, Limits, Zenon
  <2> QED
    BY <2>2, Replaced
<1>5. addr' \in [Tasks -> Sectors \X Cells]
  <2>1. <<0, 0>> \in Sectors \X Cells /\ <<1, 0>> \in Sectors \X Cells
    BY Limits DEF Sectors
  <2>2. offset_in_page_ptr_page < PtrSlots => <<0, offset_in_page_ptr_page>> \in Sectors \X Cells
    <3>1. offset_in_page_ptr_page \in Nat /\ 0 \in Sectors
      BY Limits DEF Types, Sectors
    <3>2. offset_in_page_ptr_page < PtrSlots => offset_in_page_ptr_page \in Cells
      BY <3>1, Limits
    <3> QED
      BY <3>1, <3>2
  <2>3. pc[t] = "seal" => <<1 + archive_page_num, slot[t]>> \in Sectors \X Cells
    <3>1. pc[t] = "seal" => archive_page_num \in 0 .. PageCnt
      BY Limits DEF Types, Bounds
    <3>2. pc[t] = "seal" => 1 + archive_page_num \in Sectors
      BY <3>1, Limits DEF Sectors
    <3>3. slot[t] \in Cells
      BY Limits
    <3> QED
      BY <3>2, <3>3
  <2>4. PointerPlace \in Sectors \X Cells
    BY <2>1, <2>2, Zenon DEF PointerPlace
  <2>5. PICK place : \/ addr' = addr
                     \/ addr' = [addr EXCEPT ![t] = place] /\ place \in Sectors \X Cells
    BY <2>1, <2>2, <2>3, <2>4, TaskSteps, Zenon
  <2> QED
    BY <2>5, Replaced
<1>6. number' \in [Tasks -> 0 .. begun']
  <2>1. begun \in Nat /\ number \in [Tasks -> 0 .. begun]
    BY Limits DEF Types
  <2>2. CASE begun' = begun
    <3>1. begun' # begun + 1 /\ 0 \in 0 .. begun
      BY <2>1, <2>2
    <3>2. number' = number \/ number' = [number EXCEPT ![t] = 0]
      BY <3>1, TaskSteps, Zenon
    <3> QED
      BY <2>1, <2>2, <3>1, <3>2, Replaced
  <2>3. CASE begun' = begun + 1
    <3>1. number \in [Tasks -> 0 .. begun'] /\ begun + 1 \in 0 .. begun' /\ begun' # begun
      BY <2>1, <2>3
    <3>2. number' = [number EXCEPT ![t] = begun + 1]
      BY <3>1, TaskSteps, Zenon
    <3> QED
      BY <3>1, <3>2, Replaced
  <2> QED
    BY <2>2, <2>3, TaskSteps
<1>7. page_num' \in [Tasks -> Nat]
  <2>1. Wrapped(archive_page_num) \in Nat /\ page_num \in [Tasks -> Nat] /\ 0 \in Nat
    BY DEF Types, Wrapped
  <2>2. PICK page : page_num' = page_num \/ (page_num' = [page_num EXCEPT ![t] = page] /\ page \in Nat)
    BY <2>1, TaskSteps, Zenon
  <2> QED
    BY <2>1, <2>2, Replaced
<1> QED
  BY <1>1, <1>2, <1>3, <1>4, <1>5, <1>6, <1>7

\* What a step makes of the variables that the tasks share.
LEMMA SharedSteps ==
  ASSUME NEW t \in Tasks, Step(t)
  PROVE  /\ last_rec_ptr' \in {last_rec_ptr, Null, 0, slot[t]}
         /\ \/ archive_page_num' \in {archive_page_num, 0}
            \/ pc[t] = "slot" /\ archive_page_num' = archive_page_num + 1
         /\ \/ offset_in_page_ptr_page' \in {offset_in_page_ptr_page, 0}
            \/ pc[t] = "pointerWritten" /\ offset_in_page_ptr_page' = offset_in_page_ptr_page + 1
         /\ rec' \in {rec, page_num[t]}
         /\ \/ arch_buf' = arch_buf \/ arch_buf' = [s \in Slots |-> Blank]
            \/ \E cell \in {Half(t), number[t], Torn, Mixed} : arch_buf' = [arch_buf EXCEPT ![slot[t]] = cell]
         /\ added' \in {added, begun}
<1> USE DEF Step, Add, Goto, local, history, log, chip, ram, Return
<1>1. last_rec_ptr' \in {last_rec_ptr, Null, 0, slot[t]}
  BY Zenon DEF BeginAdd, FindSlot, WrapPage, PlacePointer, WritePointer, PointerWritten, Fill, Seal,
     EndAdd, Newest, Write, BeginClear, ClearStatics, EndClear
<1>2. \/ archive_page_num' \in {archive_page_num, 0}
      \/ pc[t] = "slot" /\ archive_page_num' = archive_page_num + 1
  BY Zenon DEF BeginAdd, FindSlot, WrapPage, Wrapped, PlacePointer, WritePointer, PointerWritten, Fill, Seal,
     EndAdd, Write, BeginClear, ClearStatics, EndClear
<1>3. \/ offset_in_page_ptr_page' \in {offset_in_page_ptr_page, 0}
      \/ pc[t] = "pointerWritten" /\ offset_in_page_ptr_page' = offset_in_page_ptr_page + 1
  BY Zenon DEF BeginAdd, FindSlot, WrapPage, PlacePointer, WritePointer, PointerWritten, Fill, Seal,
     EndAdd, Write, BeginClear, ClearStatics, EndClear
<1>4. rec' \in {rec, page_num[t]}
  BY Zenon DEF BeginAdd, FindSlot, WrapPage, PlacePointer, WritePointer, PointerWritten, Fill, Seal,
     EndAdd, Write, BeginClear, ClearStatics, EndClear
<1>5. \/ arch_buf' = arch_buf \/ arch_buf' = [s \in Slots |-> Blank]
      \/ \E cell \in {Half(t), number[t], Torn, Mixed} : arch_buf' = [arch_buf EXCEPT ![slot[t]] = cell]
  BY Zenon DEF BeginAdd, FindSlot, WrapPage, PlacePointer, WritePointer, PointerWritten, Fill, Seal,
     EndAdd, Write, BeginClear, ClearStatics, EndClear
<1>6. added' \in {added, begun}
  BY Zenon DEF BeginAdd, Begin, FindSlot, WrapPage, PlacePointer, WritePointer, PointerWritten, Fill, Seal,
     EndAdd, Write, BeginClear, ClearStatics, EndClear
<1> QED
  BY <1>1, <1>2, <1>3, <1>4, <1>5, <1>6, Zenon

Image == [Sectors -> [Cells -> Int]]

LEMMA FlashSteps ==
  ASSUME Typed, NEW t \in Tasks, Step(t)
  PROVE  flash' \in Image
<1>1. CASE Write(t)
  <2>1. Payload(t) \in Int /\ Sector(t) \in Sectors /\ Cell(t) \in Cells
    BY <1>1, Limits DEF Payload, Sector, Cell, Ptr, Mixed, Typed, Types, TaskTypes
  <2>2. flash \in Image /\ BlankSector \in [Cells -> Int] /\ TornSector \in [Cells -> Int]
    BY DEF Typed, Types, BlankSector, TornSector, Blank, Torn, Image
  <2>3. [BlankSector EXCEPT ![Cell(t)] = Payload(t)] \in [Cells -> Int]
    BY <2>1, <2>2, Replaced
  <2>4. With(Sector(t), Cell(t), Payload(t)) \in Image
    BY <2>1, <2>2 DEF With, Image
  <2>5. \A s \in [Cells -> Int] : [flash EXCEPT ![Sector(t)] = s] \in Image
    BY <2>1, <2>2, Replaced DEF Image
  <2>6. Written(t) \in Image /\ Spoilt(t) \subseteq Image
    BY <2>2, <2>3, <2>4, <2>5, Zenon DEF Written, Spoilt
  <2> QED
    BY <1>1, <2>6, Zenon DEF Write
<1>2. CASE EndClear
  <2>1. BlankSector \in [Cells -> Int] /\ flash \in [Sectors -> [Cells -> Int]]
    BY DEF BlankSector, Blank, Typed, Types
  <2> QED
    BY <1>2, <2>1 DEF EndClear, Image
<1>3. CASE flash' = flash
  BY <1>3 DEF Typed, Types, Image
<1> QED
  BY <1>1, <1>2, <1>3, Zenon DEF Step, Add, chip, BeginAdd, FindSlot, WrapPage, PlacePointer, WritePointer,
     PointerWritten, Fill, Seal, EndAdd, BeginClear, ClearStatics

LEMMA TypesStep ==
  ASSUME Typed, NEW t \in Tasks, Step(t)
  PROVE  Types'
<1>1. begun' \in 0 .. MaxRecords /\ begun \in 0 .. MaxRecords /\ begun <= begun' /\ begun' \in Nat
  BY TaskSteps, Limits DEF Typed, Types
<1>2. last_rec_ptr' \in Slots \cup {Null}
  <2>1. slot[t] \in Slots /\ last_rec_ptr \in Slots \cup {Null}
    BY DEF Typed, Types, TaskTypes
  <2> QED
    BY <2>1, SharedSteps, Limits, Zenon
<1>3. archive_page_num' \in 0 .. PageCnt + 1
  <2>1. pc[t] = "slot" => archive_page_num <= PageCnt
    BY DEF Typed, Bounds
  <2>2. \/ archive_page_num' \in {archive_page_num, 0}
        \/ pc[t] = "slot" /\ archive_page_num' = archive_page_num + 1
    BY SharedSteps, Zenon
  <2> QED
    BY <2>1, <2>2, Limits DEF Typed, Types
<1>4. offset_in_page_ptr_page' \in 0 .. PtrSlots + 1
  <2>1. pc[t] = "pointerWritten" => offset_in_page_ptr_page <= PtrSlots
    BY DEF Typed, Bounds, Pointing
  <2>2. \/ offset_in_page_ptr_page' \in {offset_in_page_ptr_page, 0}
        \/ pc[t] = "pointerWritten" /\ offset_in_page_ptr_page' = offset_in_page_ptr_page + 1
    BY SharedSteps, Zenon
  <2> QED
    BY <2>1, <2>2, Limits DEF Typed, Types
<1>5. rec' \in Int
  BY SharedSteps, Limits DEF Typed, Types, TaskTypes
<1>6. arch_buf' \in [Slots -> (-3 .. begun') \cup {Mixed}]
  <2>1. arch_buf \in [Slots -> (-3 .. begun') \cup {Mixed}]
    BY <1>1 DEF Typed, Types
  <2>2. [s \in Slots |-> Blank] \in [Slots -> (-3 .. begun') \cup {Mixed}]
    BY <1>1 DEF Blank
  <2>3. {Half(t), number[t], Torn, Mixed} \subseteq (-3 .. begun') \cup {Mixed} /\ slot[t] \in Slots
    BY <1>1 DEF Typed, TaskTypes, Half, Torn
  <2> QED
    BY <2>1, <2>2, <2>3, SharedSteps, Replaced
<1>7. added' \in 0 .. begun'
  BY <1>1, SharedSteps DEF Typed, Types
<1> QED
  BY <1>1, <1>2, <1>3, <1>4, <1>5, <1>6, <1>7, FlashSteps DEF Types, Image

\* What a step makes of the history.
LEMMA HistorySteps ==
  ASSUME NEW t \in Tasks, Step(t)
  PROVE  /\ busy' \in {busy, TRUE, FALSE}
         /\ met' = met \/ met' = {} \/ (met' = {Other(t)} /\ AtFlash(Other(t)) /\ AtFlash(t))
         /\ overlap' = overlap \/ overlap' = [overlap EXCEPT ![t] = FALSE] \/ overlap' = [u \in Tasks |-> TRUE]
         /\ idle' = idle \/ idle' = [idle EXCEPT ![t] = FALSE] \/ idle' = [idle EXCEPT ![t] = ~busy]
         /\ turned' = turned \/ turned' = [turned EXCEPT ![t] = FALSE] \/ turned' = [turned EXCEPT ![t] = TRUE]
         /\ \/ sound' = sound /\ since' = since
            \/ sound' \in BOOLEAN /\ since' = 0
            \/ /\ since' = IF sound THEN 0 ELSE since + 1
               /\ sound' = (sound \/ since' >= PageRecords)
         /\ kept' \in {kept, "no", "added", "turned"}
<1> USE DEF Step, Add, Goto, local, history, log, chip, ram, Return, Begin
<1>1. busy' \in {busy, TRUE, FALSE}
  BY Zenon DEF BeginAdd, FindSlot, WrapPage, PlacePointer, WritePointer, PointerWritten, Fill, Seal,
     EndAdd, Write, BeginClear, ClearStatics, EndClear
<1>2. met' = met \/ met' = {} \/ (met' = {Other(t)} /\ AtFlash(Other(t)) /\ AtFlash(t))
  BY Zenon DEF BeginAdd, FindSlot, WrapPage, PlacePointer, WritePointer, PointerWritten, Fill, Seal,
     EndAdd, Write, BeginClear, ClearStatics, EndClear, Meet, AtFlash
<1>3. overlap' = overlap \/ overlap' = [overlap EXCEPT ![t] = FALSE] \/ overlap' = [u \in Tasks |-> TRUE]
  BY Zenon DEF BeginAdd, FindSlot, WrapPage, PlacePointer, WritePointer, PointerWritten, Fill, Seal,
     EndAdd, Write, BeginClear, ClearStatics, EndClear
<1>4. idle' = idle \/ idle' = [idle EXCEPT ![t] = FALSE] \/ idle' = [idle EXCEPT ![t] = ~busy]
  BY Zenon DEF BeginAdd, FindSlot, WrapPage, PlacePointer, WritePointer, PointerWritten, Fill, Seal,
     EndAdd, Write, BeginClear, ClearStatics, EndClear
<1>5. turned' = turned \/ turned' = [turned EXCEPT ![t] = FALSE] \/ turned' = [turned EXCEPT ![t] = TRUE]
  BY Zenon DEF BeginAdd, FindSlot, WrapPage, PlacePointer, WritePointer, PointerWritten, Fill, Seal,
     EndAdd, Write, BeginClear, ClearStatics, EndClear
<1>6. \/ sound' = sound /\ since' = since
      \/ sound' \in BOOLEAN /\ since' = 0
      \/ /\ since' = IF sound THEN 0 ELSE since + 1
         /\ sound' = (sound \/ since' >= PageRecords)
  <2>1. CASE BeginAdd(t) \/ (t = "lcd" /\ BeginClear)
    BY <2>1, Zenon DEF BeginAdd, BeginClear
  <2>2. CASE EndAdd(t)
    BY <2>2, Zenon DEF EndAdd
  <2>3. CASE t = "lcd" /\ EndClear
    BY <2>3, Zenon DEF EndClear
  <2>4. CASE FindSlot(t) \/ WrapPage(t) \/ PlacePointer(t) \/ WritePointer(t) \/ PointerWritten(t)
             \/ Fill(t) \/ Seal(t) \/ Write(t) \/ (t = "lcd" /\ ClearStatics)
    BY <2>4, Zenon DEF FindSlot, WrapPage, PlacePointer, WritePointer, PointerWritten, Fill, Seal, Write,
       ClearStatics
  <2> QED
    BY <2>1, <2>2, <2>3, <2>4 DEF Step, Add
<1>7. kept' \in {kept, "no", "added", "turned"}
  BY Zenon DEF BeginAdd, FindSlot, WrapPage, PlacePointer, WritePointer, PointerWritten, Fill, Seal,
     EndAdd, Write, BeginClear, ClearStatics, EndClear
<1> QED
  BY <1>1, <1>2, <1>3, <1>4, <1>5, <1>6, <1>7, Zenon

LEMMA FlagTypesStep ==
  ASSUME Typed, NEW t \in Tasks, Step(t)
  PROVE  FlagTypes' /\ (~sound' => since' < PageRecords)
<1>0. /\ busy' \in {busy, TRUE, FALSE}
      /\ met' = met \/ met' = {} \/ met' = {Other(t)}
      /\ kept' \in {kept, "no", "added", "turned"}
  BY HistorySteps, Zenon
<1> USE DEF Typed, FlagTypes
<1>1. busy' \in BOOLEAN
  BY <1>0, Zenon
<1>2. met' \subseteq Tasks
  BY <1>0, Others, Zenon
<1>3. overlap' \in [Tasks -> BOOLEAN]
  BY HistorySteps, Replaced, Zenon
<1>4. idle' \in [Tasks -> BOOLEAN]
  BY HistorySteps, Replaced, Zenon
<1>5. turned' \in [Tasks -> BOOLEAN]
  BY HistorySteps, Replaced, Zenon
<1>6. sound' \in BOOLEAN
  BY HistorySteps, Zenon
<1>7. since' \in 0 .. PageRecords /\ (~sound' => since' < PageRecords)
  <2>1. /\ sound \in BOOLEAN /\ since \in 0 .. PageRecords
        /\ ~sound => since < PageRecords
    BY DEF Meeting
  <2>2. CASE sound' = sound /\ since' = since
    BY <2>1, <2>2, Zenon
  <2>3. CASE since' = 0
    BY <2>3, Limits
  <2>4. CASE /\ since' = IF sound THEN 0 ELSE since + 1
             /\ sound' = (sound \/ since' >= PageRecords)
    <3>1. since' \in 0 .. PageRecords
      BY <2>1, <2>4, Limits
    <3>2. ~sound' => ~since' >= PageRecords
      BY <2>4, Zenon
    <3> QED
      BY <3>1, <3>2, Limits
  <2> QED
    BY <2>2, <2>3, <2>4, HistorySteps, Zenon
<1>8. kept' \in {"no", "added", "turned"}
  BY <1>0, Zenon
<1> QED
  BY <1>1, <1>2, <1>3, <1>4, <1>5, <1>6, <1>7, <1>8, Zenon

-----------------------------------------------------------------------------
(* The steps, the bounds and the meetings of the tasks. *)

LEMMA OthersKeep ==
  ASSUME Typed, NEW t \in Tasks, Step(t), NEW u \in Tasks, u # t
  PROVE  /\ op'[u] = op[u] /\ pc'[u] = pc[u] /\ data'[u] = data[u] /\ slot'[u] = slot[u]
         /\ addr'[u] = addr[u] /\ number'[u] = number[u] /\ idle'[u] = idle[u]
         /\ overlap'[u] = overlap[u] \/ overlap'[u] = TRUE
<1>0. /\ op' = op \/ \E v : op' = [op EXCEPT ![t] = v]
      /\ pc' = pc \/ \E v : pc' = [pc EXCEPT ![t] = v]
      /\ data' = data \/ \E v : data' = [data EXCEPT ![t] = v]
      /\ slot' = slot \/ \E v : slot' = [slot EXCEPT ![t] = v]
      /\ addr' = addr \/ \E v : addr' = [addr EXCEPT ![t] = v]
      /\ number' = number \/ \E v : number' = [number EXCEPT ![t] = v]
  <2>1. op' = op \/ \E v : op' = [op EXCEPT ![t] = v]
    BY TaskSteps, Zenon
  <2>2. pc' = pc \/ \E v : pc' = [pc EXCEPT ![t] = v]
    BY TaskSteps, Zenon
  <2>3. data' = data \/ \E v : data' = [data EXCEPT ![t] = v]
    BY TaskSteps, Zenon
  <2>4. slot' = slot \/ \E v : slot' = [slot EXCEPT ![t] = v]
    BY TaskSteps, Zenon
  <2>5. addr' = addr \/ \E v : addr' = [addr EXCEPT ![t] = v]
    <3>1. \/ addr' = addr \/ addr' = [addr EXCEPT ![t] = <<0, 0>>]
          \/ addr' = [addr EXCEPT ![t] = PointerPlace]
          \/ addr' = [addr EXCEPT ![t] = <<1 + archive_page_num, slot[t]>>]
      BY TaskSteps, Zenon
    <3> QED
      BY <3>1, Zenon
  <2>6. number' = number \/ \E v : number' = [number EXCEPT ![t] = v]
    <3>1. number' = number \/ number' = [number EXCEPT ![t] = 0] \/ number' = [number EXCEPT ![t] = begun + 1]
      BY TaskSteps, Zenon
    <3> QED
      BY <3>1, Zenon
  <2> QED
    BY <2>1, <2>2, <2>3, <2>4, <2>5, <2>6, Zenon
<1>00. /\ idle' = idle \/ \E v : idle' = [idle EXCEPT ![t] = v]
       /\ overlap' = overlap \/ overlap' = [overlap EXCEPT ![t] = FALSE] \/ overlap' = [v \in Tasks |-> TRUE]
  BY HistorySteps, Zenon
<1> USE DEF Typed, TaskTypes, FlagTypes
<1>1. op'[u] = op[u]
  BY <1>0
<1>2. pc'[u] = pc[u]
  BY <1>0
<1>3. data'[u] = data[u]
  BY <1>0
<1>4. slot'[u] = slot[u]
  BY <1>0
<1>5. addr'[u] = addr[u]
  BY <1>0
<1>6. number'[u] = number[u]
  BY <1>0
<1>7. idle'[u] = idle[u]
  BY <1>00
<1>8. overlap'[u] = overlap[u] \/ overlap'[u] = TRUE
  BY <1>00
<1> QED
  BY <1>1, <1>2, <1>3, <1>4, <1>5, <1>6, <1>7, <1>8

\* The way of an operation.
LEMMA StepFromTo ==
  ASSUME Typed, NEW t \in Tasks, Step(t)
  PROVE  \/ pc[t] = "idle" /\ pc'[t] = "slot" /\ op'[t] = "add" /\ number'[t] = begun + 1
         \/ pc[t] = "idle" /\ pc'[t] = "clearStatics" /\ op'[t] = "clear" /\ t = "lcd"
         \/ pc[t] \in {"recordWritten", "erasePages"} /\ pc'[t] = "idle" /\ op'[t] = "none"
         \/ /\ op'[t] = op[t] /\ number'[t] = number[t]
            /\ \/ pc[t] = "slot" /\ pc'[t] \in {"fill", "wrap"} /\ data'[t] = data[t]
               \/ pc[t] \in {"wrap", "clearStatics"} /\ pc'[t] = "pointer" /\ data'[t] = data[t]
               \/ pc[t] = "pointer" /\ pc'[t] = "address" /\ data'[t] = data[t]
               \/ pc[t] = "address" /\ pc'[t] = "write" /\ data'[t] = "pointer"
               \/ /\ pc[t] = "pointerWritten" /\ data'[t] = data[t]
                  /\ pc'[t] = IF op[t] = "clear" THEN "erasePages" ELSE "fill"
               \/ pc[t] = "fill" /\ pc'[t] = "seal" /\ data'[t] = data[t]
               \/ pc[t] = "seal" /\ pc'[t] = "write" /\ data'[t] = "record"
               \/ /\ pc[t] = "write" /\ data'[t] = data[t]
                  /\ pc'[t] = IF data[t] = "pointer" THEN "pointerWritten" ELSE "recordWritten"
<1> USE DEF Typed, TaskTypes, Goto
<1>1. CASE BeginAdd(t)
  BY <1>1, SMT DEF BeginAdd, Begin
<1>2. CASE FindSlot(t)
  BY <1>2, SMT DEF FindSlot
<1>3. CASE WrapPage(t)
  BY <1>3, SMT DEF WrapPage, local
<1>4. CASE PlacePointer(t)
  BY <1>4, SMT DEF PlacePointer, local
<1>5. CASE WritePointer(t)
  BY <1>5, SMT DEF WritePointer
<1>6. CASE PointerWritten(t)
  BY <1>6, SMT DEF PointerWritten, local
<1>7. CASE Fill(t)
  BY <1>7, SMT DEF Fill, local
<1>8. CASE Seal(t)
  BY <1>8, SMT DEF Seal
<1>9. CASE Write(t)
  BY <1>9, SMT DEF Write, local
<1>10. CASE EndAdd(t)
  BY <1>10, SMT DEF EndAdd, Return
<1>11. CASE t = "lcd" /\ BeginClear
  BY <1>11, SMT DEF BeginClear, Begin
<1>12. CASE t = "lcd" /\ ClearStatics
  BY <1>12, SMT DEF ClearStatics, local
<1>13. CASE t = "lcd" /\ EndClear
  BY <1>13, SMT DEF EndClear, Return
<1> QED
  BY <1>1, <1>2, <1>3, <1>4, <1>5, <1>6, <1>7, <1>8, <1>9, <1>10, <1>11, <1>12, <1>13, Zenon DEF Step, Add

LEMMA StepsStep ==
  ASSUME Typed, NEW t \in Tasks, Step(t)
  PROVE  Steps'
<1>1. \A u \in Tasks : u # t => StepsOf(u)'
  <2> SUFFICES ASSUME NEW u \in Tasks, u # t PROVE StepsOf(u)'
    OBVIOUS
  <2>1. op'[u] = op[u] /\ pc'[u] = pc[u] /\ data'[u] = data[u] /\ number'[u] = number[u]
    BY OthersKeep
  <2>2. StepsOf(u)
    BY DEF Typed, Steps
  <2> QED
    BY ONLY <2>1, <2>2, SMT DEF StepsOf
<1>2. StepsOf(t)'
  <2>1. StepsOf(t) /\ begun \in Nat
    BY Limits DEF Typed, Steps, Types
  <2>2. op[t] \in {"none", "add", "clear"} /\ data[t] \in {"pointer", "record"}
    BY DEF Typed, TaskTypes
  <2> HIDE DEF StepsOf
  <2> QED
    BY ONLY <2>1, <2>2, StepFromTo, Typed, t \in Tasks, Step(t), SMT DEF StepsOf, AddSteps, ClearSteps
<1> QED
  BY <1>1, <1>2, Zenon DEF Steps

\* The page and the place of the pointer, and who is at them.
LEMMA CountSteps ==
  ASSUME Typed, NEW t \in Tasks, Step(t)
  PROVE  /\ \/ pc'[t] = "wrap" /\ pc[t] # "wrap" /\ archive_page_num' = archive_page_num + 1
            \/ pc'[t] # "wrap" /\ archive_page_num' \in 0 .. PageCnt - 1
            \/ pc'[t] # "wrap" /\ pc[t] # "wrap" /\ archive_page_num' = archive_page_num
         /\ \/ Pointing(t)' /\ ~Pointing(t) /\ offset_in_page_ptr_page' \in 0 .. PtrSlots - 1
            \/ Pointing(t) /\ ~Pointing(t)' /\ offset_in_page_ptr_page' = offset_in_page_ptr_page + 1
            \/ (Pointing(t)' <=> Pointing(t)) /\ offset_in_page_ptr_page' \in {offset_in_page_ptr_page, 0}
<1> DEFINE page == archive_page_num
           off == offset_in_page_ptr_page
           Same == pc'[t] # "wrap" /\ pc[t] # "wrap" /\ page' = page
           Stay == (Pointing(t)' <=> Pointing(t)) /\ off' \in {off, 0}
<1> USE DEF Typed, TaskTypes, Goto, Pointing
<1>0. page \in 0 .. PageCnt + 1 /\ off \in 0 .. PtrSlots + 1
  BY DEF Types
<1>1. CASE BeginAdd(t)
  BY <1>1, SMT DEF BeginAdd, ram
<1>2. CASE FindSlot(t)
  <2>1. Stay
    BY <1>2, SMT DEF FindSlot
  <2>2. Same \/ (pc'[t] = "wrap" /\ pc[t] # "wrap" /\ page' = page + 1)
    BY <1>2, SMT DEF FindSlot
  <2> QED
    BY <2>1, <2>2
<1>3. CASE WrapPage(t)
  <2>1. Stay /\ pc'[t] # "wrap"
    BY <1>3, SMT DEF WrapPage, local
  <2>2. page' \in 0 .. PageCnt - 1
    BY <1>0, <1>3, Limits DEF WrapPage, Wrapped
  <2> QED
    BY <2>1, <2>2
<1>4. CASE PlacePointer(t)
  <2>1. Same /\ Pointing(t)' /\ ~Pointing(t)
    BY <1>4, SMT DEF PlacePointer, local
  <2>2. off' \in 0 .. PtrSlots - 1
    BY <1>0, <1>4, Limits DEF PlacePointer
  <2> QED
    BY <2>1, <2>2
<1>5. CASE WritePointer(t)
  BY <1>5, SMT DEF WritePointer, ram
<1>6. CASE PointerWritten(t)
  BY <1>6, SMT DEF PointerWritten, local
<1>7. CASE Fill(t)
  BY <1>7, SMT DEF Fill, local
<1>8. CASE Seal(t)
  BY <1>8, SMT DEF Seal
<1>9. CASE Write(t)
  BY <1>9, SMT DEF Write, local, ram
<1>10. CASE EndAdd(t)
  BY <1>10, SMT DEF EndAdd, Return
<1>11. CASE t = "lcd" /\ BeginClear
  BY <1>11, SMT DEF BeginClear
<1>12. CASE t = "lcd" /\ ClearStatics
  BY <1>12, Limits, SMT DEF ClearStatics, local
<1>13. CASE t = "lcd" /\ EndClear
  BY <1>13, SMT DEF EndClear, Return, ram
<1> QED
  BY <1>1, <1>2, <1>3, <1>4, <1>5, <1>6, <1>7, <1>8, <1>9, <1>10, <1>11, <1>12, <1>13, Zenon DEF Step, Add

LEMMA BoundsStep ==
  ASSUME Typed, NEW t \in Tasks, Step(t)
  PROVE  Bounds'
<1> DEFINE o == Other(t)
<1>1. o \in Tasks /\ o # t /\ \A u \in Tasks : u = t \/ u = o
  BY Others
<1> HIDE DEF o
<1>2. pc'[o] = pc[o] /\ (Pointing(o)' <=> Pointing(o))
  BY <1>1, OthersKeep DEF Pointing
<1>3. /\ (pc[t] # "wrap" \/ pc[o] # "wrap") => archive_page_num <= PageCnt
      /\ pc[t] # "wrap" /\ pc[o] # "wrap" => archive_page_num <= PageCnt - 1
      /\ (Pointing(t) \/ Pointing(o)) => offset_in_page_ptr_page <= PtrSlots
      /\ Pointing(t) /\ Pointing(o) => offset_in_page_ptr_page <= PtrSlots - 1
  BY <1>1, Zenon DEF Typed, Bounds
<1>4. /\ archive_page_num \in 0 .. PageCnt + 1 /\ offset_in_page_ptr_page \in 0 .. PtrSlots + 1
      /\ PageCnt \in Nat /\ PtrSlots \in Nat /\ PtrSlots >= 1
  BY Limits DEF Typed, Types
<1> HIDE DEF Pointing
<1>5. /\ (pc'[t] # "wrap" \/ pc'[o] # "wrap") => archive_page_num' <= PageCnt
      /\ pc'[t] # "wrap" /\ pc'[o] # "wrap" => archive_page_num' <= PageCnt - 1
  BY <1>2, <1>3, <1>4, CountSteps
<1>6. /\ (Pointing(t)' \/ Pointing(o)') => offset_in_page_ptr_page' <= PtrSlots
      /\ Pointing(t)' /\ Pointing(o)' => offset_in_page_ptr_page' <= PtrSlots - 1
  BY <1>2, <1>3, <1>4, CountSteps
<1> QED
  BY <1>1, <1>5, <1>6, Zenon DEF Bounds

\* An operation begins, goes on, or ends.
Begins(t) ==
  /\ op[t] = "none" /\ op'[t] # "none" /\ kept' = "no" /\ busy' = busy /\ met' = met
  /\ idle'[t] = ~busy
  /\ added' = added /\ view' = view
  /\ IF op[Other(t)] = "none"
     THEN overlap' = [overlap EXCEPT ![t] = FALSE] /\ sound' = sound /\ since' = since
     ELSE overlap' = [u \in Tasks |-> TRUE] /\ sound' = FALSE /\ since' = 0

GoesOn(t) ==
  /\ op[t] # "none" /\ op' = op /\ overlap' = overlap /\ idle' = idle /\ kept' = kept
  /\ sound' = sound /\ since' = since /\ added' = added /\ view' = view /\ begun' = begun
  /\ \/ busy' = busy /\ met' = met /\ ~AtFlash(t)
     \/ busy' \in {busy, FALSE} /\ Meet(t)

Ends(t) ==
  /\ op[t] # "none" /\ op'[t] = "none" /\ overlap' = [overlap EXCEPT ![t] = FALSE]
  /\ overlap[t] => sound' = sound /\ since' = since /\ kept' \in {kept, "no"}
  /\ \/ met' = met /\ ~AtFlash(t)
     \/ Meet(t)

LEMMA Courses ==
  ASSUME Typed, NEW t \in Tasks, Step(t)
  PROVE  Begins(t) \/ GoesOn(t) \/ Ends(t)
<1>0. StepsOf(t)
  BY DEF Typed, Steps
<1>1. CASE BeginAdd(t)
  <2>1. op[t] = "none" /\ op'[t] # "none" /\ idle'[t] = ~busy
    BY <1>0, <1>1 DEF BeginAdd, Begin, StepsOf, Typed, TaskTypes, FlagTypes
  <2> QED
    BY <1>1, <2>1, Zenon DEF BeginAdd, Begin, chip, Begins
<1>2. CASE t = "lcd" /\ BeginClear
  <2>1. op[t] = "none" /\ op'[t] # "none" /\ idle'[t] = ~busy
    BY <1>0, <1>2 DEF BeginClear, Begin, StepsOf, Typed, TaskTypes, FlagTypes
  <2> QED
    BY <1>2, <2>1, Zenon DEF BeginClear, Begin, chip, Begins
<1>3. CASE EndAdd(t)
  <2>1. op[t] # "none" /\ op'[t] = "none" /\ ~AtFlash(t)
    BY <1>0, <1>3 DEF EndAdd, Return, StepsOf, AddSteps, AtFlash, Typed, TaskTypes
  <2> QED
    BY <1>3, <2>1, Zenon DEF EndAdd, Return, chip, Ends
<1>4. CASE t = "lcd" /\ EndClear
  <2>1. op[t] # "none" /\ op'[t] = "none"
    BY <1>0, <1>4 DEF EndClear, Return, StepsOf, ClearSteps, Typed, TaskTypes
  <2> QED
    BY <1>4, <2>1, Zenon DEF EndClear, Return, Ends
<1>5. CASE Write(t)
  <2>1. op[t] # "none"
    BY <1>0, <1>5 DEF Write, StepsOf
  <2>2. busy' \in {busy, FALSE}
    BY <1>5, Zenon DEF Write
  <2> QED
    BY <1>5, <2>1, <2>2, Zenon DEF Write, local, history, log, GoesOn
<1>6. CASE FindSlot(t) \/ WrapPage(t) \/ PlacePointer(t) \/ WritePointer(t) \/ PointerWritten(t)
             \/ Fill(t) \/ Seal(t) \/ (t = "lcd" /\ ClearStatics)
  <2>1. pc[t] \in {"slot", "wrap", "pointer", "address", "pointerWritten", "fill", "seal", "clearStatics"}
    BY <1>6 DEF FindSlot, WrapPage, PlacePointer, WritePointer, PointerWritten, Fill, Seal, ClearStatics
  <2>2. op[t] # "none" /\ ~AtFlash(t)
    BY <1>0, <2>1 DEF StepsOf, AtFlash
  <2> QED
    BY <1>6, <2>2, Zenon DEF FindSlot, WrapPage, PlacePointer, WritePointer, PointerWritten, Fill, Seal,
       ClearStatics, local, history, log, chip, GoesOn
<1> QED
  BY <1>1, <1>2, <1>3, <1>4, <1>5, <1>6, Zenon DEF Step, Add

\* Alone is alone.
LEMMA AloneIsAlone ==
  ASSUME Typed, NEW t \in Tasks, op[t] # "none", ~overlap[t]
  PROVE  op[Other(t)] = "none" /\ ~overlap[Other(t)] /\ t \notin met /\ ~AtFlash(Other(t))
<1>1. Other(t) \in Tasks
  BY Others
<1>2. op[Other(t)] = "none"
  BY DEF Typed, Meeting
<1>3. ~overlap[Other(t)] /\ t \notin met
  BY <1>1, <1>2, Zenon DEF Typed, Meeting
<1>4. pc[Other(t)] = "idle"
  BY <1>1, <1>2 DEF Typed, Steps, StepsOf
<1> QED
  BY <1>2, <1>3, <1>4 DEF AtFlash

LEMMA MeetingStep ==
  ASSUME Typed, NEW t \in Tasks, Step(t)
  PROVE  Meeting'
<1> DEFINE o == Other(t)
<1>1. o \in Tasks /\ o # t /\ Other(o) = t /\ \A u \in Tasks : u = t \/ u = o
  BY Others
<1>1a. Other(t) = o /\ t \in Tasks
  OBVIOUS
<1> HIDE DEF o
<1>2. op'[o] = op[o] /\ pc'[o] = pc[o] /\ idle'[o] = idle[o]
  BY <1>1, OthersKeep
<1>3. overlap \in [Tasks -> BOOLEAN] /\ op \in [Tasks -> {"none", "add", "clear"}] /\ met \subseteq Tasks
  BY DEF Typed, FlagTypes, TaskTypes
<1>4. /\ \A u \in Tasks : op[u] # "none" /\ op[Other(u)] # "none" => overlap[u]
      /\ \A u \in Tasks : overlap[u] => op[u] # "none" /\ ~sound /\ since = 0
      /\ \A u \in met : AtFlash(u) /\ overlap[u]
      /\ \A u \in Tasks : op[u] = "add" /\ ~overlap[u] /\ idle[u] => ~busy
      /\ \A u \in Tasks : op[u] # "none" => kept = "no"
  BY DEF Typed, Meeting
<1>5. AtFlash(o)' <=> AtFlash(o)
  BY <1>2 DEF AtFlash
<1>7. AtFlash(o) => op[o] # "none"
  BY <1>1 DEF AtFlash, Typed, Steps, StepsOf
<1> DEFINE Goal == /\ \A u \in Tasks : op'[u] # "none" /\ op'[Other(u)] # "none" => overlap'[u]
                   /\ \A u \in Tasks : overlap'[u] => op'[u] # "none" /\ ~sound' /\ since' = 0
                   /\ \A u \in met' : AtFlash(u)' /\ overlap'[u]
                   /\ \A u \in Tasks : op'[u] = "add" /\ ~overlap'[u] /\ idle'[u] => ~busy'
                   /\ \A u \in Tasks : op'[u] # "none" => kept' = "no"
<1> SUFFICES Goal
  BY FlagTypesStep, Zenon DEF Meeting
<1>8. CASE Begins(t) /\ op[o] = "none"
  <2>1. op[t] = "none" /\ met' = met /\ overlap' = [overlap EXCEPT ![t] = FALSE] /\ kept' = "no"
        /\ idle'[t] = ~busy /\ busy' = busy
    BY <1>1a, <1>8, Zenon DEF Begins
  <2>2. ~overlap'[t] /\ ~overlap'[o]
    BY <1>1, <1>3, <1>4, <1>8, <2>1
  <2>3. met' = {}
    BY <1>1, <1>3, <1>4, <1>8, <2>1, Zenon
  <2>4. op'[o] = "none"
    BY <1>2, <1>8, Zenon
  <2>5. \A u \in Tasks : ~overlap'[u]
    BY <1>1, <2>2, Zenon
  <2>6. \A u \in Tasks : op'[u] = "none" \/ op'[Other(u)] = "none"
    BY <1>1, <1>1a, <2>4, Zenon
  <2>7. \A u \in Tasks : op'[u] = "add" /\ ~overlap'[u] /\ idle'[u] => ~busy'
    BY <1>1, <2>1, <2>4
  <2> QED
    BY <2>1, <2>3, <2>5, <2>6, <2>7, Zenon
<1>9. CASE Begins(t) /\ op[o] # "none"
  <2>1. overlap' = [u \in Tasks |-> TRUE] /\ sound' = FALSE /\ since' = 0 /\ op[t] = "none"
        /\ met' = met /\ kept' = "no" /\ op'[t] # "none"
    BY <1>1a, <1>9, Zenon DEF Begins
  <2>2. t \notin met
    BY <1>3, <1>4, <2>1, Zenon
  <2>3. \A u \in met' : AtFlash(u)'
    BY <1>1, <1>3, <1>4, <1>5, <2>1, <2>2, Zenon
  <2>4. \A u \in Tasks : overlap'[u]
    BY <2>1
  <2>5. \A u \in Tasks : op'[u] # "none"
    BY <1>1, <1>2, <1>9, <2>1, Zenon
  <2> QED
    BY <1>3, <2>1, <2>3, <2>4, <2>5, Zenon
<1>10. CASE GoesOn(t)
  <2>1. op' = op /\ overlap' = overlap /\ sound' = sound /\ since' = since /\ kept' = kept /\ idle' = idle
        /\ op[t] # "none"
    BY <1>10, Zenon DEF GoesOn
  <2>2. ~busy => ~busy'
    BY <1>3, <1>10, Zenon DEF GoesOn
  <2>3. (met' = met /\ ~AtFlash(t)) \/ met' = {} \/ (met' = {o} /\ AtFlash(o))
    BY <1>1a, <1>10, Zenon DEF GoesOn, Meet
  <2>4. AtFlash(o) => overlap[o]
    BY <1>1, <1>4, <1>7, <2>1, Zenon
  <2>5. \A u \in met' : AtFlash(u)' /\ overlap'[u]
    <3>0. \A u \in met : AtFlash(t) \/ u = o
      BY <1>1, <1>3, <1>4, Zenon
    <3>1. met' \subseteq {o}
      BY <3>0, <2>3
    <3>2. o \in met' => AtFlash(o)
      BY <1>4, <2>3, Zenon
    <3>3. o \in met' => overlap'[o]
      BY <1>4, <1>7, <2>4, <2>1, <3>2, Zenon
    <3> QED
      BY <1>5, <3>1, <3>2, <3>3, Zenon
  <2>6. \A u \in Tasks : op'[u] = "add" /\ ~overlap'[u] /\ idle'[u] => ~busy'
    BY <1>4, <2>1, <2>2, Zenon
  <2> QED
    BY <1>4, <2>1, <2>5, <2>6, Zenon
<1>11. CASE Ends(t) /\ overlap[t]
  <2>1. op[t] # "none" /\ op'[t] = "none" /\ sound' = sound /\ since' = since /\ kept' \in {kept, "no"}
        /\ overlap' = [overlap EXCEPT ![t] = FALSE]
    BY <1>11, Zenon DEF Ends
  <2>2. ~overlap'[t] /\ overlap'[o] = overlap[o]
    BY <1>1, <1>3, <2>1
  <2>3. kept' = "no"
    BY <1>4, <2>1
  <2>4. op[o] # "none" => overlap[o]
    BY <1>1, <1>4, <2>1, Zenon
  <2>5. (met' = met /\ ~AtFlash(t)) \/ met' = {} \/ (met' = {o} /\ AtFlash(o))
    BY <1>1a, <1>11, Zenon DEF Ends, Meet
  <2>6. \A u \in met' : AtFlash(u)' /\ overlap'[u]
    <3>0. \A u \in met : AtFlash(t) \/ u = o
      BY <1>1, <1>3, <1>4, Zenon
    <3>1. met' \subseteq {o}
      BY <3>0, <2>5
    <3>2. o \in met' => AtFlash(o)
      BY <1>4, <2>5, Zenon
    <3>3. o \in met' => overlap'[o]
      BY <1>4, <1>7, <2>4, <2>2, <3>2, Zenon
    <3> QED
      BY <1>5, <3>1, <3>2, <3>3, Zenon
  <2>7. \A u \in Tasks : overlap'[u] => op'[u] # "none" /\ ~sound' /\ since' = 0
    BY <1>1, <1>2, <1>4, <2>1, <2>2
  <2>8. \A u \in Tasks : op'[u] # "none" => overlap'[u]
    BY <1>1, <1>2, <2>1, <2>2, <2>4
  <2>9. \A u \in Tasks : op'[u] = "add" => overlap'[u]
    BY <2>8
  <2> QED
    BY <2>3, <2>6, <2>7, <2>8, <2>9, Zenon
<1>12. CASE Ends(t) /\ ~overlap[t]
  <2>1. op[t] # "none" /\ op'[t] = "none" /\ overlap' = [overlap EXCEPT ![t] = FALSE]
        /\ ((met' = met /\ ~AtFlash(t)) \/ met' = {} \/ (met' = {o} /\ AtFlash(o)))
    BY <1>1a, <1>12, Zenon DEF Ends, Meet
  <2>2. op[o] = "none" /\ ~overlap[o] /\ t \notin met /\ ~AtFlash(o)
    BY <1>1a, <1>12, <2>1, AloneIsAlone, Zenon
  <2>3. ~overlap'[t] /\ ~overlap'[o]
    BY <1>1, <1>3, <2>1, <2>2
  <2>4. met' = {}
    BY <1>1, <1>3, <1>4, <2>1, <2>2, Zenon
  <2>5. \A u \in Tasks : op'[u] = "none"
    BY <1>1, <1>2, <2>1, <2>2, Zenon
  <2>6. \A u \in Tasks : ~overlap'[u]
    BY <1>1, <2>3, Zenon
  <2>7. \A u \in Tasks : op'[u] # "add"
    BY <2>5
  <2> QED
    BY <2>4, <2>5, <2>6, <2>7, Zenon
<1> QED
  BY <1>8, <1>9, <1>10, <1>11, <1>12, Courses, Zenon

LEMMA TypedStep ==
  ASSUME Typed, NEW t \in Tasks, Step(t)
  PROVE  Typed'
BY TypesStep, TaskTypesStep, FlagTypesStep, StepsStep, BoundsStep, MeetingStep, Zenon DEF Typed

-----------------------------------------------------------------------------
(* A task that works alone. *)

\* After a step of a task the other one works alone only if the step is none of an
\* operation.
LEMMA OtherMeets ==
  ASSUME Typed, NEW t \in Tasks, Step(t), op'[Other(t)] # "none"
  PROVE  overlap'[Other(t)]
<1> DEFINE o == Other(t)
<1>1. o \in Tasks /\ o # t /\ Other(o) = t
  BY Others
<1>2. Other(t) = o
  OBVIOUS
<1> HIDE DEF o
<1>3. op'[o] = op[o] /\ op[o] # "none"
  BY <1>1, <1>2, OthersKeep
<1>4. op[t] # "none" => overlap[o]
  BY <1>1, <1>3, Zenon DEF Typed, Meeting
<1>5. overlap \in [Tasks -> BOOLEAN]
  BY DEF Typed, FlagTypes
<1>6. CASE Begins(t)
  <2>1. overlap' = [u \in Tasks |-> TRUE]
    BY <1>2, <1>3, <1>6, Zenon DEF Begins
  <2> QED
    BY <1>1, <1>2, <2>1
<1>7. CASE GoesOn(t)
  BY <1>2, <1>4, <1>7, Zenon DEF GoesOn
<1>8. CASE Ends(t)
  <2>1. overlap' = [overlap EXCEPT ![t] = FALSE] /\ op[t] # "none"
    BY <1>8, Zenon DEF Ends
  <2> QED
    BY <1>1, <1>2, <1>4, <1>5, <2>1
<1> QED
  BY <1>6, <1>7, <1>8, Courses, Zenon

\* Once alone is alone before.
LEMMA AloneBefore ==
  ASSUME Typed, NEW t \in Tasks, Step(t), op[t] # "none", op'[t] # "none", ~overlap'[t]
  PROVE  GoesOn(t) /\ ~overlap[t] /\ op'[t] = op[t]
<1>1. GoesOn(t)
  BY Courses, Zenon DEF Begins, Ends
<1> QED
  BY <1>1, Zenon DEF GoesOn

LEMMA BeginsAlone ==
  ASSUME Typed, NEW t \in Tasks, Begins(t), ~overlap'[t]
  PROVE  /\ \A u \in Tasks : op[u] = "none"
         /\ sound' = sound /\ since' = since /\ added' = added /\ view' = view
<1>1. CASE op[Other(t)] = "none"
  BY <1>1, Others, Zenon DEF Begins
<1>2. CASE op[Other(t)] # "none"
  <2>1. overlap' = [u \in Tasks |-> TRUE]
    BY <1>2, Zenon DEF Begins
  <2> QED
    BY <2>1
<1> QED
  BY <1>1, <1>2

LEMMA ArchiveStep ==
  ASSUME Typed, AloneInArchive, NEW t \in Tasks, Step(t)
  PROVE  AloneInArchive'
<1>1. /\ overlap \in [Tasks -> BOOLEAN] /\ addr \in [Tasks -> Sectors \X Cells]
      /\ pc \in [Tasks -> AddSteps \cup ClearSteps \cup PointerSteps \cup {"idle", "write"}]
  BY DEF Typed, FlagTypes, TaskTypes
<1>2. \A u \in Tasks : u # t => addr'[u] = addr[u] /\ (overlap[u] => overlap'[u])
  BY OthersKeep, Zenon
<1>3. ASSUME ~overlap'[t] PROVE Sector(t)' <= PageCnt
  <2>2. CASE EndAdd(t) \/ (t = "lcd" /\ EndClear)
    <3>1. addr' = [addr EXCEPT ![t] = <<0, 0>>]
      BY <2>2, Zenon DEF EndAdd, EndClear, Return
    <3> QED
      BY <1>1, <3>1, Limits DEF Sector
  <2>3. CASE WritePointer(t)
    <3>1. addr'[t] \in {<<0, offset_in_page_ptr_page>>, <<1, 0>>}
      BY <1>1, <2>3 DEF WritePointer
    <3> QED
      BY <3>1, Limits DEF Sector
  <2>4. CASE Seal(t)
    <3>1. pc[t] = "seal" /\ addr' = [addr EXCEPT ![t] = <<1 + archive_page_num, slot[t]>>]
      BY <2>4, Zenon DEF Seal
    <3>2. op[t] # "none" /\ ~overlap[t]
      BY <1>3, <2>4, <3>1, Zenon DEF Typed, Steps, StepsOf, AddSteps, Seal, history
    <3>3. op[Other(t)] = "none"
      BY <3>2, AloneIsAlone
    <3>4. pc[Other(t)] = "idle"
      BY <3>3, Others, Zenon DEF Typed, Steps, StepsOf
    <3>5. archive_page_num <= PageCnt - 1 /\ archive_page_num \in 0 .. PageCnt + 1
      <4>1. \A u \in Tasks : pc[u] # "wrap"
        BY <3>1, <3>4, Others
      <4> QED
        BY <4>1 DEF Typed, Bounds, Types
    <3> QED
      BY <1>1, <3>1, <3>5, Limits DEF Sector
  <2>5. CASE BeginAdd(t) \/ (t = "lcd" /\ BeginClear) \/ FindSlot(t) \/ WrapPage(t) \/ PlacePointer(t)
             \/ PointerWritten(t) \/ Fill(t) \/ Write(t) \/ (t = "lcd" /\ ClearStatics)
    <3>1. addr' = addr
      BY <2>5, Zenon DEF BeginAdd, BeginClear, FindSlot, WrapPage, PlacePointer, PointerWritten, Fill, Write,
         ClearStatics, local
    <3>2. ~overlap[t]
      <4>1. CASE Begins(t)
        BY <1>3, <4>1, Zenon DEF Begins, Typed, Meeting
      <4>2. CASE GoesOn(t)
        BY <1>3, <4>2, Zenon DEF GoesOn
      <4>3. CASE Ends(t)
        BY <2>5, <4>3, StepFromTo DEF Ends, BeginAdd, BeginClear, FindSlot, WrapPage, PlacePointer,
           PointerWritten, Fill, Write, ClearStatics
      <4> QED
        BY <4>1, <4>2, <4>3, Courses, Zenon
    <3> QED
      BY <3>1, <3>2, Zenon DEF AloneInArchive, Sector
  <2> QED
    BY <2>2, <2>3, <2>4, <2>5, Zenon DEF Step, Add
<1>4. \A u \in Tasks : ~overlap'[u] => Sector(u)' <= PageCnt
  BY <1>2, <1>3, Zenon DEF AloneInArchive, Sector
<1> QED
  BY <1>4, Zenon DEF AloneInArchive

LEMMA ClearsAloneStep ==
  ASSUME Typed, AtRest, ClearsAlone, NEW t \in Tasks, Step(t)
  PROVE  ClearsAlone'
<1> SUFFICES ASSUME op'["lcd"] = "clear", ~overlap'["lcd"]
             PROVE  added' = begun' /\ last_rec_ptr' = Null /\ arch_buf' = [s \in Slots |-> Blank]
  BY DEF ClearsAlone
<1>1. t = "lcd"
  <2>1. CASE t = "net"
    <3>1. Other(t) = "lcd"
      BY <2>1, Others DEF Tasks
    <3> QED
      BY <3>1, OtherMeets
  <2> QED
    BY <2>1 DEF Tasks
<1>2. CASE op[t] = "none"
  <2>1. Begins(t)
    BY <1>2, Courses, Zenon DEF GoesOn, Ends
  <2>2. added = begun /\ added' = added
    BY <1>1, <2>1, BeginsAlone, Zenon DEF AtRest
  <2>3. pc[t] = "idle"
    BY <1>2, Zenon DEF Typed, Steps, StepsOf
  <2>4. BeginClear
    <3>1. ~BeginAdd(t)
      BY <1>1, SMT DEF BeginAdd, Begin, Typed, TaskTypes
    <3> QED
      BY <1>1, <2>3, <3>1, SMT DEF Step, Add, FindSlot, WrapPage, PlacePointer, WritePointer,
         PointerWritten, Fill, Seal, EndAdd, Write, ClearStatics, EndClear
  <2> QED
    BY <2>2, <2>4, Zenon DEF BeginClear
<1>3. CASE op[t] # "none"
  <2>1. GoesOn(t) /\ ~overlap[t] /\ op[t] = "clear"
    BY <1>1, <1>3, AloneBefore, Zenon
  <2>2. added = begun /\ last_rec_ptr = Null /\ arch_buf = [s \in Slots |-> Blank]
    BY <1>1, <2>1, Zenon DEF ClearsAlone
  <2>3. added' = added /\ begun' = begun
    BY <2>1, Zenon DEF GoesOn
  <2>4. pc[t] \notin AddSteps /\ pc[t] # "idle" /\ pc'[t] # "idle"
    BY <1>1, <2>1, StepsStep, Zenon DEF Typed, Steps, StepsOf
  <2>5. last_rec_ptr' = last_rec_ptr \/ last_rec_ptr' = Null
    BY <1>1, <2>4, Zenon DEF Step, Add, BeginAdd, FindSlot, WrapPage, PlacePointer, WritePointer,
       PointerWritten, Fill, Seal, EndAdd, Write, BeginClear, ClearStatics, EndClear, AddSteps, ram
  <2>6. arch_buf' = arch_buf
    BY <1>1, <2>4, Zenon DEF Step, Add, BeginAdd, FindSlot, WrapPage, PlacePointer, WritePointer,
       PointerWritten, Fill, Seal, EndAdd, Write, BeginClear, ClearStatics, EndClear, AddSteps, ram
  <2> QED
    BY <2>2, <2>3, <2>5, <2>6, Zenon
<1> QED
  BY <1>2, <1>3

\* Between two slots lies what lay between them, when another slot is written.
LEMMA BehindKept ==
  ASSUME NEW s \in Slots, NEW cell, arch_buf' = [arch_buf EXCEPT ![s] = cell], Types,
         view' = view, sound' = sound, since' = since, added' = added,
         ~sound => since < PageRecords, since \in 0 .. PageRecords, Behind(s)
  PROVE  Behind(s)'
<1>1. \A k \in 1 .. PageRecords - 1 : Buffer(s, k)' = Buffer(s, k)
  <2> SUFFICES ASSUME NEW k \in 1 .. PageRecords - 1 PROVE Buffer(s, k)' = Buffer(s, k)
    OBVIOUS
  <2> DEFINE i == IF s >= k THEN s - k ELSE s - k + PageRecords
  <2>1. i \in Slots /\ i # s
    BY Limits
  <2>2. Buffer(s, k) = arch_buf[i] /\ Buffer(s, k)' = arch_buf'[i]
    BY Zenon DEF Buffer, Back
  <2> HIDE DEF i
  <2>3. arch_buf'[i] = arch_buf[i]
    BY <2>1 DEF Types
  <2> QED
    BY <2>2, <2>3
<1>2. sound => (Behind(s)' <=> Behind(s))
  BY <1>1, Zenon DEF Behind
<1>3. ~sound => \A k \in 1 .. since : k \in 1 .. PageRecords - 1
  BY Limits
<1>4. ~sound => (Behind(s)' <=> Behind(s))
  BY <1>1, <1>3, Zenon DEF Behind
<1> QED
  BY <1>2, <1>4

\* The record before the newest one is the newest one behind the next slot.
LEMMA NextSlot ==
  ASSUME Typed, OnShow(last_rec_ptr), NEW s \in Slots,
         \/ last_rec_ptr = Null /\ s = 0
         \/ last_rec_ptr # Null /\ s = IF last_rec_ptr + 1 < PageRecords THEN last_rec_ptr + 1 ELSE 0
  PROVE  Behind(s)
<1>1. since \in 0 .. PageRecords /\ (~sound => since < PageRecords) /\ last_rec_ptr \in Slots \cup {Null}
  BY DEF Typed, Types, FlagTypes, Meeting
<1>2. view = Shown(arch_buf, last_rec_ptr)
  BY DEF OnShow
<1>3. CASE last_rec_ptr = Null
  <2>1. s = 0
    BY <1>3
  <2>2. Len(view) = 0
    BY <1>2, <1>3, ShownIs
  <2>3. sound => \A k \in 1 .. PageRecords - 1 : ~Valid(Buffer(s, k))
    <3> SUFFICES ASSUME sound, NEW k \in 1 .. PageRecords - 1 PROVE ~Valid(Buffer(s, k))
      OBVIOUS
    <3>1. PICK i \in Slots : Buffer(s, k) = arch_buf[i]
      BY <2>1, Limits DEF Buffer, Back
    <3> QED
      BY <1>3, <3>1 DEF OnShow
  <2>4. ~sound => since = 0
    BY <1>1, <1>3 DEF OnShow
  <2>5. \A k \in 1 .. PageRecords - 1 : ~ k <= Len(view)
    BY <2>2, Limits
  <2>6. ~sound => \A k \in 1 .. since : Buffer(s, k) = added - k + 1
    BY <2>4
  <2> QED
    BY <2>3, <2>5, <2>6, Zenon DEF Behind
<1>4. CASE last_rec_ptr # Null
  <2>1. last_rec_ptr \in Slots
    BY <1>1, <1>4
  <2>2. \A k \in 1 .. PageRecords - 1 : Buffer(s, k) = Back(arch_buf, last_rec_ptr, k - 1)
    <3> SUFFICES ASSUME NEW k \in 1 .. PageRecords - 1
                 PROVE  Buffer(s, k) = Back(arch_buf, last_rec_ptr, k - 1)
      OBVIOUS
    <3>1. (IF s >= k THEN s - k ELSE s - k + PageRecords)
          = IF last_rec_ptr >= k - 1 THEN last_rec_ptr - (k - 1) ELSE last_rec_ptr - (k - 1) + PageRecords
      BY <1>4, <2>1, Limits
    <3> QED
      BY <3>1, Zenon DEF Buffer, Back
  <2>3. PICK n \in 0 .. PageRecords : /\ view = [k \in 1 .. n |-> Back(arch_buf, last_rec_ptr, k - 1)]
                                      /\ Len(view) = n /\ Records(arch_buf, last_rec_ptr, n)
    BY <1>2, <1>4, <2>1, ShownIs
  <2>4. ASSUME sound, NEW k \in 1 .. PageRecords - 1
        PROVE  /\ k <= Len(view) => Buffer(s, k) = view[k] /\ Valid(view[k])
               /\ k = Len(view) + 1 => ~Valid(Buffer(s, k))
    <3>1. CASE k <= n
      <4>1. k \in 1 .. n /\ k - 1 \in 0 .. n - 1 /\ k # n + 1
        BY <3>1, Limits
      <4>2. view[k] = Back(arch_buf, last_rec_ptr, k - 1)
        BY <2>3, <4>1
      <4>3. Valid(Back(arch_buf, last_rec_ptr, k - 1))
        BY <2>3, <4>1, Zenon DEF Records
      <4> QED
        BY <2>2, <2>3, <4>1, <4>2, <4>3
    <3>2. CASE k = n + 1
      <4>1. k - 1 = n /\ n < PageRecords /\ ~ k <= n
        BY <3>2, Limits
      <4>2. ~Valid(Back(arch_buf, last_rec_ptr, k - 1))
        BY <2>3, <4>1, Zenon DEF Records
      <4> QED
        BY <2>2, <2>3, <4>1, <4>2
    <3> QED
      BY <2>3, <3>1, <3>2
  <2>5. ASSUME ~sound, NEW k \in 1 .. since
        PROVE  Buffer(s, k) = added - k + 1
    <3>1. since > 0 /\ k - 1 \in 0 .. since - 1 /\ k \in 1 .. PageRecords - 1
      BY <1>1, <2>5, Limits
    <3>2. Back(arch_buf, last_rec_ptr, k - 1) = added - (k - 1)
      BY <2>5, <3>1 DEF OnShow, Buffer
    <3>3. added \in Int /\ k \in Int
      BY <3>1, Limits DEF Typed, Types
    <3> QED
      BY <2>2, <3>1, <3>2, <3>3
  <2> QED
    BY <2>4, <2>5, Zenon DEF Behind
<1> QED
  BY <1>3, <1>4

LEMMA RestStep ==
  ASSUME Typed, AtRest, AddsAlone, ClearsAlone, NEW t \in Tasks, Step(t)
  PROVE  AtRest'
<1> SUFFICES ASSUME \A u \in Tasks : op'[u] = "none"
             PROVE  added' = begun' /\ OnShow(last_rec_ptr)'
  BY DEF AtRest
<1>1. Ends(t)
  BY Courses, Zenon DEF Begins, GoesOn
<1>2. /\ begun \in 0 .. MaxRecords /\ since \in 0 .. PageRecords /\ slot[t] \in Slots
      /\ overlap[t] \in BOOLEAN /\ added \in Int
      /\ sound \in BOOLEAN
  BY Limits DEF Typed, Types, FlagTypes, TaskTypes
<1>3. EndAdd(t) \/ (t = "lcd" /\ EndClear)
  <2>1. op[t] # "none" /\ op'[t] = "none"
    BY <1>1, Zenon DEF Ends
  <2>2. pc'[t] = "idle"
    BY <2>1, StepsStep, Zenon DEF Steps, StepsOf
  <2>3. pc[t] \in {"recordWritten", "erasePages"}
    BY <2>1, <2>2, StepFromTo
  <2> QED
    BY <2>3 DEF Step, Add, BeginAdd, FindSlot, WrapPage, PlacePointer, WritePointer,
       PointerWritten, Fill, Seal, Write, BeginClear, ClearStatics, Typed, Steps, StepsOf
<1>4. overlap[t] => ~sound /\ since = 0
  BY Zenon DEF Typed, Meeting
<1>5. CASE EndAdd(t)
  <2>1. /\ last_rec_ptr' = slot[t] /\ added' = begun /\ begun' = begun /\ arch_buf' = arch_buf
        /\ view' = Shown(arch_buf, last_rec_ptr')
        /\ pc[t] = "recordWritten"
        /\ IF overlap[t] THEN sound' = sound /\ since' = since
           ELSE since' = IF sound THEN 0 ELSE since + 1
    BY <1>5, Zenon DEF EndAdd, Newest
  <2>2. slot[t] # Null
    BY <1>2, Limits
  <2>3. CASE overlap[t]
    BY <1>2, <1>4, <2>1, <2>2, <2>3 DEF OnShow
  <2>4. CASE ~overlap[t]
    <3>1. op[t] = "add"
      BY <2>1, Zenon DEF Typed, Steps, StepsOf, AddSteps
    <3>2. PlaceAlone(t) /\ RecordAlone(t)
      BY <2>4, <3>1, Zenon DEF AddsAlone
    <3>3. added = begun - 1 /\ Behind(slot[t]) /\ arch_buf[slot[t]] = begun
      BY <2>1, <3>2 DEF PlaceAlone, RecordAlone
    <3>4. ASSUME ~sound', since' > 0, NEW k \in 0 .. since' - 1
          PROVE  Buffer(last_rec_ptr, k)' = added' - k
      <4>1. ~sound /\ since' = since + 1
        <5>1. sound' = (sound \/ since' >= PageRecords)
          BY <1>5, <2>4, Zenon DEF EndAdd
        <5>2. ~sound
          BY <3>4, <5>1, Zenon
        <5> QED
          BY <2>1, <2>4, <5>2
      <4>2. Buffer(last_rec_ptr, k)' = Back(arch_buf, slot[t], k)
        BY <2>1, Zenon DEF Buffer
      <4>3. CASE k = 0
        <5>1. slot[t] >= k /\ slot[t] - k = slot[t]
          BY <1>2, <4>3, Limits
        <5> QED
          BY <1>2, <2>1, <3>3, <4>2, <4>3, <5>1, Limits DEF Back
      <4>4. CASE k # 0
        <5>1. k \in 1 .. since /\ k \in Int
          BY <1>2, <4>1, <4>4, Limits
        <5>2. Buffer(slot[t], k) = added - k + 1
          BY <3>3, <4>1, <5>1, Zenon DEF Behind
        <5> QED
          BY <1>2, <2>1, <3>3, <4>2, <5>1, <5>2, Limits DEF Buffer
      <4> QED
        BY <4>3, <4>4
    <3> QED
      BY <2>1, <2>2, <3>4 DEF OnShow
  <2> QED
    BY <2>3, <2>4
<1>6. CASE t = "lcd" /\ EndClear
  <2>1. /\ last_rec_ptr' = last_rec_ptr /\ added' = begun /\ begun' = begun /\ arch_buf' = arch_buf
        /\ view' = Shown(arch_buf, last_rec_ptr)
        /\ pc[t] = "erasePages"
        /\ IF overlap[t] THEN sound' = sound /\ since' = since ELSE sound' = TRUE /\ since' = 0
    BY <1>6, Zenon DEF EndClear, ram
  <2>2. CASE overlap[t]
    BY <1>2, <1>4, <2>1, <2>2 DEF OnShow
  <2>3. CASE ~overlap[t]
    <3>1. op[t] = "clear"
      BY <2>1, Zenon DEF Typed, Steps, StepsOf, ClearSteps
    <3>2. last_rec_ptr = Null /\ arch_buf = [s \in Slots |-> Blank]
      BY <1>6, <2>3, <3>1 DEF ClearsAlone
    <3>3. \A s \in Slots : ~Valid(arch_buf[s])
      BY <3>2 DEF Valid, Blank
    <3> QED
      BY <2>1, <2>3, <3>2, <3>3 DEF OnShow
  <2> QED
    BY <2>2, <2>3
<1> QED
  BY <1>3, <1>5, <1>6

LEMMA NewestStep ==
  ASSUME Typed, AddsAlone, FlashHasNewest, NEW t \in Tasks, Step(t)
  PROVE  FlashHasNewest'
<1> SUFFICES ASSUME kept' # "no" PROVE FlashHasNewest'
  BY DEF FlashHasNewest
<1>1. op[t] # "none" => kept = "no"
  BY Zenon DEF Typed, Meeting
<1>2. CASE Begins(t) \/ GoesOn(t)
  BY <1>1, <1>2, Zenon DEF Begins, GoesOn
<1>3. CASE Ends(t)
  <2>1. ~overlap[t]
    BY <1>1, <1>3, Zenon DEF Ends
  <2>2. EndAdd(t)
    <3>1. op[t] # "none" /\ op'[t] = "none"
      BY <1>3, Zenon DEF Ends
    <3>2. pc'[t] = "idle"
      BY <3>1, StepsStep, Zenon DEF Steps, StepsOf
    <3>3. pc[t] \in {"recordWritten", "erasePages"}
      BY <3>1, <3>2, StepFromTo
    <3>4. ~(t = "lcd" /\ EndClear)
      BY <1>1, <3>1, Zenon DEF EndClear
    <3> QED
      BY <3>3, <3>4 DEF Step, Add, BeginAdd, FindSlot, WrapPage, PlacePointer, WritePointer,
         PointerWritten, Fill, Seal, Write, BeginClear, ClearStatics
  <2>3. /\ last_rec_ptr' = slot[t] /\ arch_buf' = arch_buf /\ flash' = flash
        /\ archive_page_num' = archive_page_num /\ offset_in_page_ptr_page' = offset_in_page_ptr_page
        /\ pc[t] = "recordWritten"
        /\ kept' = IF ~idle[t] THEN "no" ELSE IF turned[t] THEN "turned" ELSE "added"
    BY <2>1, <2>2, Zenon DEF EndAdd, Newest, chip
  <2>4. idle[t] /\ (kept' = "turned" => turned[t])
    BY <2>3
  <2>5. op[t] = "add"
    BY <2>3, Zenon DEF Typed, Steps, StepsOf, AddSteps
  <2>6. RecordAlone(t)
    BY <2>1, <2>5, Zenon DEF AddsAlone
  <2>7. /\ flash[1 + archive_page_num][slot[t]] = arch_buf[slot[t]]
        /\ kept' = "turned" => flash[0][offset_in_page_ptr_page - 1] = Ptr(archive_page_num)
    BY <2>3, <2>4, <2>6 DEF RecordAlone, Recording, PageHasPointer
  <2> QED
    BY <2>3, <2>7 DEF FlashHasNewest, Ptr
<1> QED
  BY <1>2, <1>3, Courses, Zenon

\* Alone, a write is done.
LEMMA WriteIsDone ==
  ASSUME Typed, NEW t \in Tasks, Write(t), op[t] = "add", ~overlap[t], idle[t]
  PROVE  /\ flash'[Sector(t)][Cell(t)] = Payload(t)
         /\ \A s \in Sectors : s # Sector(t) => flash'[s] = flash[s]
<1>1. ~busy /\ t \notin met /\ ~AtFlash(Other(t))
  BY AloneIsAlone, Zenon DEF Typed, Meeting
<1>2. flash' = Written(t)
  BY <1>1, Zenon DEF Write, Disturbed
<1>3. /\ flash \in Image /\ Sector(t) \in Sectors /\ Cell(t) \in Cells
      /\ BlankSector \in [Cells -> Int]
  BY DEF Typed, Types, TaskTypes, Image, Sector, Cell, BlankSector, Blank
<1>4. PICK s \in Sectors, c \in Cells : s = Sector(t) /\ c = Cell(t)
  BY <1>3, Zenon
<1>40. PICK v : v = Payload(t)
  OBVIOUS
<1>5. CASE flash[s][c] = Blank
  <2>1. flash' = [flash EXCEPT ![s][c] = v]
    BY <1>2, <1>4, <1>40, <1>5, Zenon DEF Written, With
  <2> QED
    BY <1>3, <1>4, <1>40, <2>1 DEF Image
<1>6. CASE flash[s][c] # Blank
  <2>1. flash' = [flash EXCEPT ![s] = [BlankSector EXCEPT ![c] = v]]
    BY <1>2, <1>4, <1>40, <1>6, Zenon DEF Written
  <2> QED
    BY <1>3, <1>4, <1>40, <2>1 DEF Image
<1> QED
  BY <1>5, <1>6

\* What a task that works alone leaves to its next step.
LEMMA AddsAloneStep ==
  ASSUME Typed, AtRest, AddsAlone, NEW t \in Tasks, Step(t)
  PROVE  AddsAlone'
<1> SUFFICES ASSUME op'[t] = "add", ~overlap'[t]
             PROVE  PlaceAlone(t)' /\ PointerAlone(t)' /\ RecordAlone(t)'
  <2>1. \A u \in Tasks : u # t => ~(op'[u] = "add" /\ ~overlap'[u])
    BY OtherMeets, Others, Zenon
  <2> QED
    BY <2>1, Zenon DEF AddsAlone
<1>1. /\ pc \in [Tasks -> AddSteps \cup ClearSteps \cup PointerSteps \cup {"idle", "write"}]
      /\ slot \in [Tasks -> Slots] /\ number \in [Tasks -> 0 .. begun]
      /\ addr \in [Tasks -> Sectors \X Cells] /\ data \in [Tasks -> {"pointer", "record"}]
      /\ turned \in [Tasks -> BOOLEAN] /\ idle \in [Tasks -> BOOLEAN]
      /\ begun \in 0 .. MaxRecords /\ added \in 0 .. begun
  BY DEF Typed, Types, TaskTypes, FlagTypes
<1>2. begun \in Nat /\ added \in Nat
  BY <1>1, Limits
<1>3. CASE op[t] = "none"
  <2>1. Begins(t)
    BY <1>3, Courses, Zenon DEF GoesOn, Ends
  <2>2. pc[t] = "idle"
    BY <1>3, Zenon DEF Typed, Steps, StepsOf
  <2>3. BeginAdd(t)
    <3>1. ~(t = "lcd" /\ BeginClear)
      BY SMT DEF BeginClear, Begin, Typed, TaskTypes
    <3> QED
      BY <2>2, <3>1, SMT DEF Step, Add, FindSlot, WrapPage, PlacePointer, WritePointer,
         PointerWritten, Fill, Seal, EndAdd, Write, ClearStatics, EndClear
  <2>4. added = begun /\ OnShow(last_rec_ptr) /\ sound' = sound /\ since' = since /\ added' = added /\ view' = view
    BY <2>1, BeginsAlone, Zenon DEF AtRest
  <2>5. /\ arch_buf' = arch_buf /\ last_rec_ptr' = last_rec_ptr /\ begun' = begun + 1
        /\ turned' = [turned EXCEPT ![t] = FALSE] /\ number' = [number EXCEPT ![t] = begun + 1]
        /\ pc' = [pc EXCEPT ![t] = "slot"]
    BY <2>3, Zenon DEF BeginAdd, Begin, ram, Goto
  <2>6. ~turned'[t] /\ number'[t] = begun + 1 /\ pc'[t] = "slot"
    BY <1>1, <2>5
  <2>7. OnShow(last_rec_ptr)'
    BY <2>4, <2>5, Zenon DEF OnShow, Buffer
  <2> QED
    BY <1>2, <2>4, <2>5, <2>6, <2>7 DEF PlaceAlone, PointerAlone, Pointing, RecordAlone, Recording
<1>4. CASE op[t] # "none"
  <2>1. GoesOn(t) /\ ~overlap[t] /\ op[t] = "add"
    BY <1>4, AloneBefore, Zenon
  <2>2. PlaceAlone(t) /\ PointerAlone(t) /\ RecordAlone(t)
    BY <2>1, Zenon DEF AddsAlone
  <2>3. /\ idle' = idle /\ sound' = sound /\ since' = since /\ added' = added /\ view' = view
        /\ begun' = begun /\ op' = op
    BY <2>1, Zenon DEF GoesOn
  <2>4. pc[t] \in AddSteps \cup PointerSteps \cup {"write"}
    BY <1>1, <2>1 DEF Typed, Steps, StepsOf
  <2>5. /\ number' = number
        /\ pc[t] # "seal" /\ pc[t] # "address" => addr' = addr /\ data' = data
        /\ pc[t] # "slot" => slot' = slot /\ last_rec_ptr' = last_rec_ptr /\ turned' = turned
    <3>1. pc[t] # "recordWritten"
      BY <2>1, <2>3, StepFromTo
    <3>2. number' = number
      BY <2>4, <3>1, Zenon DEF Step, Add, BeginAdd, FindSlot, WrapPage, PlacePointer, WritePointer,
         PointerWritten, Fill, Seal, EndAdd, Write, BeginClear, ClearStatics, EndClear, local, history, ram,
         AddSteps, PointerSteps
    <3>3. pc[t] # "seal" /\ pc[t] # "address" => addr' = addr /\ data' = data
      BY <2>4, <3>1, Zenon DEF Step, Add, BeginAdd, FindSlot, WrapPage, PlacePointer, WritePointer,
         PointerWritten, Fill, Seal, EndAdd, Write, BeginClear, ClearStatics, EndClear, local, history, ram,
         AddSteps, PointerSteps
    <3>4. pc[t] # "slot" => slot' = slot /\ last_rec_ptr' = last_rec_ptr /\ turned' = turned
      BY <2>4, <3>1, Zenon DEF Step, Add, BeginAdd, FindSlot, WrapPage, PlacePointer, WritePointer,
         PointerWritten, Fill, Seal, EndAdd, Write, BeginClear, ClearStatics, EndClear, local, history, ram,
         AddSteps, PointerSteps
    <3> QED
      BY <3>2, <3>3, <3>4
  <2>6. since \in 0 .. PageRecords /\ (~sound => since < PageRecords) /\ Types
    BY DEF Typed, FlagTypes, Meeting
  <2>7. CASE pc[t] = "slot"
    <3>1. FindSlot(t)
      BY <2>7 DEF Step, Add, BeginAdd, WrapPage, PlacePointer, WritePointer, PointerWritten, Fill, Seal,
         EndAdd, Write, BeginClear, ClearStatics, EndClear, Typed, Steps, StepsOf, ClearSteps
    <3>2. arch_buf' = arch_buf /\ OnShow(last_rec_ptr) /\ ~turned[t] /\ added = begun - 1 /\ number[t] = begun
      BY <2>2, <2>7, <3>1, Zenon DEF FindSlot, PlaceAlone
    <3>3. last_rec_ptr \in Slots \cup {Null}
      BY DEF Typed, Types
    <3>4. /\ slot'[t] \in Slots
          /\ \/ last_rec_ptr = Null /\ slot'[t] = 0
             \/ last_rec_ptr # Null /\ slot'[t] = IF last_rec_ptr + 1 < PageRecords THEN last_rec_ptr + 1 ELSE 0
          /\ pc'[t] \in {"fill", "wrap"} /\ (turned'[t] <=> pc'[t] = "wrap")
      BY <1>1, <3>1, <3>2, <3>3, Limits DEF FindSlot, Goto
    <3>5. PICK s \in Slots : s = slot'[t]
      BY <3>4
    <3>6. Behind(s)
      BY <3>2, <3>4, <3>5, NextSlot
    <3>7. Behind(slot[t])'
      BY <2>3, <3>2, <3>5, <3>6, Zenon DEF Behind, Buffer
    <3> QED
      BY <2>3, <2>5, <3>2, <3>4, <3>7 DEF PlaceAlone, PointerAlone, RecordAlone, Pointing, Recording
  <2>8. CASE pc[t] # "slot"
    <3>1. Behind(slot[t])'
      <4>1. PICK s \in Slots : s = slot[t]
        BY <1>1
      <4>2. Behind(s) /\ s = slot'[t]
        BY <2>2, <2>5, <2>8, <4>1, Zenon DEF PlaceAlone
      <4>3. arch_buf' = arch_buf \/ \E cell : arch_buf' = [arch_buf EXCEPT ![s] = cell]
        BY <2>4, <4>1, Zenon DEF Step, Add, BeginAdd, FindSlot, WrapPage, PlacePointer, WritePointer,
           PointerWritten, Fill, Seal, EndAdd, Write, BeginClear, ClearStatics, EndClear, ram,
           AddSteps, PointerSteps
      <4>4. CASE arch_buf' = arch_buf
        BY <2>3, <4>2, <4>4, Zenon DEF Behind, Buffer
      <4>5. CASE \E cell : arch_buf' = [arch_buf EXCEPT ![s] = cell]
        <5>1. PICK cell : arch_buf' = [arch_buf EXCEPT ![s] = cell]
          BY <4>5
        <5>2. Behind(s)'
          BY <2>3, <2>6, <4>2, <5>1, BehindKept
        <5> QED
          BY <4>2, <5>2, Zenon DEF Behind, Buffer
      <4> QED
        BY <4>3, <4>4, <4>5
    <3>2. pc'[t] # "slot" /\ pc'[t] \in AddSteps \cup PointerSteps \cup {"write"}
      BY <2>1, <2>4, <2>8, StepFromTo DEF AddSteps, PointerSteps
    <3>3. PlaceAlone(t)'
      BY <2>2, <2>3, <2>5, <3>1, <3>2, Zenon DEF PlaceAlone
    <3>4. /\ archive_page_num \in 0 .. PageCnt + 1 /\ offset_in_page_ptr_page \in 0 .. PtrSlots + 1
          /\ flash \in Image /\ arch_buf \in [Slots -> (-3 .. begun) \cup {Mixed}]
      BY <2>6 DEF Types, Image
    <3>5. CASE pc[t] = "wrap"
      <4>1. pc'[t] = "pointer"
        BY <2>3, <3>5, <2>1, StepFromTo
      <4>2. turned'[t]
        BY <2>2, <2>5, <3>5 DEF PointerAlone
      <4>3. WrapPage(t)
        BY <2>1, <3>5, StepFromTo DEF Step, Add, BeginAdd, FindSlot, PlacePointer, WritePointer,
           PointerWritten, Fill, Seal, EndAdd, Write, BeginClear, ClearStatics, EndClear
      <4>4. page_num'[t] = archive_page_num'
        BY <2>1, <4>3 DEF WrapPage, Typed, TaskTypes
      <4>11. PointerAlone(t)'
        BY <4>1, <4>2, <4>4, Zenon DEF PointerAlone, Pointing
      <4>12. RecordAlone(t)'
        BY <4>1, Zenon DEF RecordAlone, Recording
      <4> QED
        BY <3>3, <4>11, <4>12
    <3>6. CASE pc[t] = "pointer"
      <4>1. pc'[t] = "address" /\ PlacePointer(t)
        BY <2>1, <3>6, StepFromTo DEF Step, Add, BeginAdd, FindSlot, WrapPage, WritePointer,
           PointerWritten, Fill, Seal, EndAdd, Write, BeginClear, ClearStatics, EndClear
      <4>2. turned'[t] = turned[t] /\ turned[t]
        BY <2>2, <2>5, <3>6 DEF PointerAlone
      <4>3. rec' = archive_page_num' /\ offset_in_page_ptr_page' < PtrSlots
        BY <2>2, <3>4, <3>6, <4>1, Limits DEF PlacePointer, PointerAlone
      <4>11. PointerAlone(t)'
        BY <4>1, <4>2, <4>3, Zenon DEF PointerAlone, Pointing
      <4>12. RecordAlone(t)'
        BY <4>1, Zenon DEF RecordAlone, Recording
      <4> QED
        BY <3>3, <4>11, <4>12
    <3>7. CASE pc[t] = "address"
      <4>1. pc'[t] = "write" /\ data'[t] = "pointer" /\ WritePointer(t)
        BY <2>1, <3>7, StepFromTo DEF Step, Add, BeginAdd, FindSlot, WrapPage, PlacePointer,
           PointerWritten, Fill, Seal, EndAdd, Write, BeginClear, ClearStatics, EndClear
      <4>2. turned'[t] /\ rec = archive_page_num /\ offset_in_page_ptr_page < PtrSlots
        BY <2>2, <2>5, <3>7 DEF PointerAlone, Pointing
      <4>3. /\ rec' = rec /\ archive_page_num' = archive_page_num
            /\ offset_in_page_ptr_page' = offset_in_page_ptr_page
        BY <4>1, Zenon DEF WritePointer, ram
      <4>4. addr'[t] = <<0, offset_in_page_ptr_page>>
        BY <1>1, <4>1, <4>2 DEF WritePointer
      <4>5. /\ turned'[t] /\ rec' = archive_page_num' /\ offset_in_page_ptr_page' < PtrSlots
            /\ addr'[t] = <<0, offset_in_page_ptr_page'>>
        BY <4>2, <4>3, <4>4
      <4>11. PointerAlone(t)'
        BY <4>1, <4>5, Zenon DEF PointerAlone, Pointing
      <4>12. RecordAlone(t)'
        BY <4>1, Zenon DEF RecordAlone, Recording
      <4> QED
        BY <3>3, <4>11, <4>12
    <3>8. CASE pc[t] = "write"
      <4>1. Write(t)
        BY <3>8 DEF Step, Add, BeginAdd, FindSlot, WrapPage, PlacePointer, WritePointer,
           PointerWritten, Fill, Seal, EndAdd, BeginClear, ClearStatics, EndClear
      <4>2. /\ rec' = rec /\ archive_page_num' = archive_page_num /\ arch_buf' = arch_buf
            /\ offset_in_page_ptr_page' = offset_in_page_ptr_page
            /\ slot' = slot /\ turned' = turned
        BY <4>1, Zenon DEF Write, ram, local, history
      <4>3. pc'[t] = IF data[t] = "pointer" THEN "pointerWritten" ELSE "recordWritten"
        BY <2>1, <3>8, StepFromTo
      <4>4. CASE data[t] = "pointer"
        <5>1. /\ turned[t] /\ rec = archive_page_num /\ offset_in_page_ptr_page < PtrSlots
              /\ addr[t] = <<0, offset_in_page_ptr_page>>
          BY <2>2, <3>8, <4>4 DEF PointerAlone, Pointing
        <5>2. idle[t] => flash'[0][offset_in_page_ptr_page] = Ptr(archive_page_num)
          BY <2>1, <4>1, <4>4, <5>1, WriteIsDone DEF Sector, Cell, Payload
        <5>3. idle'[t] => PageHasPointer(offset_in_page_ptr_page)'
          BY <2>3, <4>2, <5>2 DEF PageHasPointer, Ptr
        <5>4. /\ turned'[t] /\ rec' = archive_page_num' /\ offset_in_page_ptr_page' < PtrSlots
              /\ pc'[t] = "pointerWritten"
          BY <4>2, <4>3, <4>4, <5>1
        <5>11. PointerAlone(t)'
          BY <4>3, <4>4, <5>3, <5>4, Zenon DEF PointerAlone, Pointing
        <5>12. RecordAlone(t)'
          BY <4>3, <4>4, Zenon DEF RecordAlone, Recording
        <5> QED
          BY <3>3, <5>11, <5>12
      <4>5. CASE data[t] = "record"
        <5>1. /\ turned[t] => /\ offset_in_page_ptr_page - 1 \in 0 .. PtrSlots - 1
                              /\ idle[t] => PageHasPointer(offset_in_page_ptr_page - 1)
              /\ arch_buf[slot[t]] = begun /\ addr[t] = <<1 + archive_page_num, slot[t]>>
          BY <2>2, <3>8, <4>5 DEF RecordAlone, Recording
        <5>2. idle[t] => /\ flash'[1 + archive_page_num][slot[t]] = arch_buf[slot[t]]
                         /\ flash'[0] = flash[0]
          <6>1. Sector(t) = 1 + archive_page_num /\ Cell(t) = slot[t] /\ Payload(t) = arch_buf[slot[t]]
            BY <4>5, <5>1 DEF Sector, Cell, Payload
          <6>2. 0 \in Sectors /\ 0 # 1 + archive_page_num
            BY <3>4, Limits DEF Sectors
          <6> QED
            BY <2>1, <4>1, <6>1, <6>2, WriteIsDone
        <5>3. turned[t] /\ idle[t] => PageHasPointer(offset_in_page_ptr_page - 1)'
          BY <4>2, <5>1, <5>2 DEF PageHasPointer, Ptr
        <5>4. pc'[t] = "recordWritten"
          BY <4>3, <4>5
        <5>5. /\ turned'[t] => /\ (offset_in_page_ptr_page - 1 \in 0 .. PtrSlots - 1)'
                               /\ idle'[t] => PageHasPointer(offset_in_page_ptr_page - 1)'
              /\ arch_buf'[slot'[t]] = begun'
              /\ idle'[t] => flash'[1 + archive_page_num'][slot'[t]] = arch_buf'[slot'[t]]
          BY <2>3, <4>2, <5>1, <5>2, <5>3
        <5>11. PointerAlone(t)'
          BY <5>4, Zenon DEF PointerAlone, Pointing
        <5>12. RecordAlone(t)'
          BY <5>4, <5>5, Zenon DEF RecordAlone, Recording
        <5> QED
          BY <3>3, <5>11, <5>12
      <4> QED
        BY <1>1, <4>4, <4>5
    <3>9. CASE pc[t] = "pointerWritten"
      <4>1. pc'[t] = "fill" /\ PointerWritten(t)
        BY <2>1, <3>9, StepFromTo DEF Step, Add, BeginAdd, FindSlot, WrapPage, PlacePointer, WritePointer,
           Fill, Seal, EndAdd, Write, BeginClear, ClearStatics, EndClear
      <4>2. /\ offset_in_page_ptr_page' = offset_in_page_ptr_page + 1 /\ flash' = flash
            /\ archive_page_num' = archive_page_num
        BY <4>1, Zenon DEF PointerWritten, chip
      <4>3. /\ offset_in_page_ptr_page < PtrSlots
            /\ idle[t] => PageHasPointer(offset_in_page_ptr_page)
        BY <2>2, <3>9 DEF PointerAlone, Pointing
      <4>4. offset_in_page_ptr_page' - 1 = offset_in_page_ptr_page
        BY <3>4, <4>2
      <4>5. idle[t] => PageHasPointer(offset_in_page_ptr_page - 1)'
        BY <4>2, <4>3, <4>4 DEF PageHasPointer, Ptr
      <4>6. /\ (offset_in_page_ptr_page - 1 \in 0 .. PtrSlots - 1)'
            /\ idle'[t] => PageHasPointer(offset_in_page_ptr_page - 1)'
        BY <2>3, <3>4, <4>2, <4>3, <4>4, <4>5, Limits
      <4>11. PointerAlone(t)'
        BY <4>1, Zenon DEF PointerAlone, Pointing
      <4>12. RecordAlone(t)'
        BY <4>1, <4>6, Zenon DEF RecordAlone, Recording
      <4> QED
        BY <3>3, <4>11, <4>12
    <3>10. CASE pc[t] \in {"fill", "seal"}
      <4>1. /\ archive_page_num' = archive_page_num /\ flash' = flash
            /\ offset_in_page_ptr_page' = offset_in_page_ptr_page
        BY <3>10, Zenon DEF Step, Add, BeginAdd, FindSlot, WrapPage, PlacePointer, WritePointer,
           PointerWritten, Fill, Seal, EndAdd, Write, BeginClear, ClearStatics, EndClear, chip
      <4>2. turned[t] => /\ offset_in_page_ptr_page - 1 \in 0 .. PtrSlots - 1
                         /\ idle[t] => PageHasPointer(offset_in_page_ptr_page - 1)
        BY <2>2, <3>10 DEF RecordAlone, Recording
      <4>3. turned'[t] => /\ (offset_in_page_ptr_page - 1 \in 0 .. PtrSlots - 1)'
                          /\ idle'[t] => PageHasPointer(offset_in_page_ptr_page - 1)'
        BY <2>3, <2>5, <3>10, <4>1, <4>2 DEF PageHasPointer, Ptr
      <4>4. CASE pc[t] = "fill"
        <5>1. pc'[t] = "seal" /\ Fill(t)
          BY <2>1, <4>4, StepFromTo DEF Step, Add, BeginAdd, FindSlot, WrapPage, PlacePointer, WritePointer,
             PointerWritten, Seal, EndAdd, Write, BeginClear, ClearStatics, EndClear
        <5>2. arch_buf'[slot'[t]] = Half(t)
          BY <1>1, <2>5, <3>4, <4>4, <5>1 DEF Fill
        <5>11. PointerAlone(t)'
          BY <5>1, Zenon DEF PointerAlone, Pointing
        <5>12. RecordAlone(t)'
          BY <4>3, <5>1, <5>2, Zenon DEF RecordAlone, Recording
        <5> QED
          BY <3>3, <5>11, <5>12
      <4>5. CASE pc[t] = "seal"
        <5>1. pc'[t] = "write" /\ data'[t] = "record" /\ Seal(t)
          BY <2>1, <4>5, StepFromTo DEF Step, Add, BeginAdd, FindSlot, WrapPage, PlacePointer, WritePointer,
             PointerWritten, Fill, EndAdd, Write, BeginClear, ClearStatics, EndClear
        <5>2. arch_buf[slot[t]] = Half(t) /\ number[t] = begun
          BY <2>2, <4>5 DEF RecordAlone, PlaceAlone
        <5>3. arch_buf' = [arch_buf EXCEPT ![slot[t]] = number[t]]
          BY <5>1, <5>2 DEF Seal
        <5>4. arch_buf'[slot'[t]] = begun'
          BY <1>1, <2>3, <2>5, <3>4, <4>5, <5>2, <5>3
        <5>5. addr'[t] = <<1 + archive_page_num', slot'[t]>>
          BY <1>1, <2>5, <4>1, <4>5, <5>1 DEF Seal
        <5>11. PointerAlone(t)'
          BY <5>1, Zenon DEF PointerAlone, Pointing
        <5>12. RecordAlone(t)'
          BY <4>3, <5>1, <5>4, <5>5, Zenon DEF RecordAlone, Recording
        <5> QED
          BY <3>3, <5>11, <5>12
      <4> QED
        BY <3>10, <4>4, <4>5
    <3>11. pc[t] # "recordWritten"
      BY <2>1, <2>3, StepFromTo
    <3> QED
      BY <2>4, <2>8, <3>3, <3>5, <3>6, <3>7, <3>8, <3>9, <3>10, <3>11 DEF AddSteps, PointerSteps
  <2> QED
    BY <2>7, <2>8
<1> QED
  BY <1>3, <1>4

-----------------------------------------------------------------------------
(* What is on show is known. *)

LEMMA ShownIsKnown ==
  ASSUME NEW b \in Nat, NEW buf \in [Slots -> (-3 .. b) \cup {Mixed}], NEW last \in Slots \cup {Null}
  PROVE  /\ Shown(buf, last) \in Seq((1 .. b) \cup {Mixed})
         /\ Len(Shown(buf, last)) <= PageRecords
<1>1. PICK n \in 0 .. PageRecords : /\ Shown(buf, last) = [k \in 1 .. n |-> Back(buf, last, k - 1)]
                                    /\ Len(Shown(buf, last)) = n
                                    /\ n # 0 => last # Null
                                    /\ last # Null => Records(buf, last, n)
  <2> DEFINE n == IF last = Null THEN 0 ELSE RecordsCnt(buf, last)
  <2>1. /\ n \in 0 .. PageRecords /\ Shown(buf, last) = [k \in 1 .. n |-> Back(buf, last, k - 1)]
        /\ Len(Shown(buf, last)) = n
        /\ last # Null => Records(buf, last, n)
    BY ShownIs
  <2> QED
    BY <2>1
<1>2. \A k \in 1 .. n : Back(buf, last, k - 1) \in (1 .. b) \cup {Mixed}
  <2> SUFFICES ASSUME NEW k \in 1 .. n PROVE Back(buf, last, k - 1) \in (1 .. b) \cup {Mixed}
    OBVIOUS
  <2>1. /\ last \in Slots /\ k - 1 \in 0 .. PageRecords - 1 /\ k - 1 \in 0 .. n - 1
        /\ Records(buf, last, n)
    BY <1>1, Limits
  <2>2. Valid(Back(buf, last, k - 1))
    BY <2>1, Zenon DEF Records
  <2>3. PICK i \in Slots : Back(buf, last, k - 1) = buf[i]
    BY <2>1, BackIsSlot, Zenon DEF Back
  <2> QED
    BY <2>2, <2>3 DEF Valid
<1> DEFINE e(k) == Back(buf, last, k - 1)
<1>3. \A k \in 1 .. n : e(k) \in (1 .. b) \cup {Mixed}
  BY <1>2
<1>4. Shown(buf, last) = [k \in 1 .. n |-> e(k)]
  BY <1>1
<1> HIDE DEF e
<1>5. [k \in 1 .. n |-> e(k)] \in Seq((1 .. b) \cup {Mixed})
  BY <1>1, <1>3, Limits
<1>6. n <= PageRecords
  BY <1>1, Limits
<1>7. Len(Shown(buf, last)) <= PageRecords
  BY <1>1, <1>6, Zenon
<1> QED
  BY <1>4, <1>5, <1>7, Zenon

\* The steps that show what is in the memory, and the others.
LEMMA ShownSteps ==
  ASSUME Typed, NEW t \in Tasks, Step(t)
  PROVE  \/ EndAdd(t) \/ (t = "lcd" /\ EndClear)
         \/ Begins(t) /\ begun' \in {begun, begun + 1}
         \/ GoesOn(t)
<1>1. EndAdd(t) \/ (t = "lcd" /\ EndClear) \/ ~Ends(t)
  <2> SUFFICES ASSUME Ends(t) PROVE EndAdd(t) \/ (t = "lcd" /\ EndClear)
    BY Zenon
  <2>1. op[t] # "none" /\ op'[t] = "none"
    BY Zenon DEF Ends
  <2>2. pc'[t] = "idle"
    BY <2>1, StepsStep, Zenon DEF Steps, StepsOf
  <2>3. pc[t] \in {"recordWritten", "erasePages"}
    BY <2>1, <2>2, StepFromTo
  <2> QED
    BY <2>3 DEF Step, Add, BeginAdd, FindSlot, WrapPage, PlacePointer, WritePointer,
       PointerWritten, Fill, Seal, Write, BeginClear, ClearStatics, Typed, Steps, StepsOf
<1>2. begun' = begun \/ begun' = begun + 1
  BY Zenon DEF Step, Add, BeginAdd, FindSlot, WrapPage, PlacePointer, WritePointer,
     PointerWritten, Fill, Seal, EndAdd, Write, BeginClear, ClearStatics, EndClear, history
<1> QED
  BY <1>1, <1>2, Courses, Zenon

LEMMA KnownStep ==
  ASSUME Typed, Typed', Known, AddsAlone, NEW t \in Tasks, Step(t)
  PROVE  Known'
<1>1. /\ arch_buf \in [Slots -> (-3 .. begun) \cup {Mixed}] /\ last_rec_ptr' \in Slots \cup {Null}
      /\ begun \in Nat /\ added \in 0 .. begun /\ since \in 0 .. PageRecords
      /\ overlap[t] => since = 0
  <2>1. begun \in 0 .. MaxRecords
    BY DEF Typed, Types
  <2>2. begun \in Nat
    BY <2>1, Limits
  <2> QED
    BY <2>2, Zenon DEF Typed, Types, FlagTypes, Meeting
<1>2. CASE EndAdd(t) \/ (t = "lcd" /\ EndClear)
  <2>1. /\ view' = Shown(arch_buf, last_rec_ptr') /\ begun' = begun /\ added' = begun
    BY <1>2, Zenon DEF EndAdd, EndClear, ram
  <2>2. since' <= added'
    <3>1. CASE EndAdd(t) /\ ~overlap[t]
      <4>1. since' = (IF sound THEN 0 ELSE since + 1) /\ op[t] = "add"
        BY <3>1, Zenon DEF EndAdd, Typed, Steps, StepsOf, AddSteps
      <4>2. added = begun - 1
        BY <3>1, <4>1, Zenon DEF AddsAlone, PlaceAlone
      <4> QED
        BY <1>1, <2>1, <4>1, <4>2 DEF Known
    <3>2. CASE EndAdd(t) /\ overlap[t]
      BY <1>1, <2>1, <3>2 DEF EndAdd
    <3>3. CASE t = "lcd" /\ EndClear
      BY <1>1, <2>1, <3>3 DEF EndClear, Known
    <3> QED
      BY <1>2, <3>1, <3>2, <3>3
  <2> QED
    BY <1>1, <2>1, <2>2, ShownIsKnown DEF Known
<1>3. CASE (Begins(t) /\ begun' \in {begun, begun + 1}) \/ GoesOn(t)
  <2>1. view' = view /\ added' = added /\ since' \in {since, 0} /\ begun' \in {begun, begun + 1}
    BY <1>3, Zenon DEF Begins, GoesOn
  <2>2. (1 .. begun) \cup {Mixed} \subseteq (1 .. begun') \cup {Mixed}
    BY <1>1, <2>1
  <2>3. view' \in Seq((1 .. begun') \cup {Mixed})
    BY <2>1, <2>2 DEF Known
  <2> QED
    BY <1>1, <2>1, <2>3 DEF Known
<1> QED
  BY <1>2, <1>3, ShownSteps, Zenon

-----------------------------------------------------------------------------
(* The start. *)

LEMMA Products ==
  ASSUME NEW p \in Nat, NEW r \in Nat, r >= 1
  PROVE  /\ p * r \in Nat
         /\ p = 0 => p * r = 0
         /\ p > 0 => p * r >= r /\ (p - 1) * r = p * r - r
         /\ \A q \in Nat : p * r < q * r => p < q
<1>1. p * r \in Nat
  BY Z3
<1>2. p = 0 => p * r = 0
  BY Z3
<1>3. p > 0 => p * r >= r /\ (p - 1) * r = p * r - r
  <2>1. (p - 1) * r = p * r - r
    BY Z3
  <2>2. p > 0 => p - 1 >= 0
    OBVIOUS
  <2>3. p > 0 => (p - 1) * r >= 0
    BY <2>2, Z3
  <2> QED
    BY <1>1, <2>1, <2>3
<1>4. ASSUME NEW q \in Nat, p * r < q * r PROVE p < q
  <2>1. ~ p - q >= 0
    <3>1. p - q >= 0 => (p - q) * r >= 0
      BY Z3
    <3>2. (p - q) * r = p * r - q * r
      BY Z3
    <3>3. q * r \in Int
      BY Z3
    <3> QED
      BY <1>1, <1>4, <3>1, <3>2, <3>3
  <2> QED
    BY <2>1
<1> QED
  BY <1>1, <1>2, <1>3, <1>4

\* The page and the newest slot at the start.
Start(page, last, base) ==
  /\ base = page * PageRecords
  /\ IF Held = 0 THEN page = 0 /\ last = Null ELSE last # Null /\ Held = base + last + 1
  /\ archive_page_num = page /\ offset_in_page_ptr_page = page + 1
  /\ last_rec_ptr = last
  /\ arch_buf = [s \in Slots |-> IF base + s + 1 <= Held THEN base + s + 1
                                 ELSE IF page > 0 THEN base - PageRecords + s + 1 ELSE Blank]
  /\ view = Shown(arch_buf, last_rec_ptr)

LEMMA Starts ==
  ASSUME Init
  PROVE  \E page \in Pages, last \in Slots \cup {Null}, base \in Nat :
           /\ Start(page, last, base)
           /\ page = 0 => base = 0
           /\ page > 0 => base >= PageRecords
           /\ page <= PtrSlots
<1>1. PICK page \in Pages, last \in Slots \cup {Null} :
        /\ IF Held = 0 THEN page = 0 /\ last = Null ELSE last # Null /\ Held = page * PageRecords + last + 1
        /\ archive_page_num = page /\ offset_in_page_ptr_page = page + 1
        /\ last_rec_ptr = last
        /\ arch_buf = [s \in Slots |-> IF page * PageRecords + s + 1 <= Held THEN page * PageRecords + s + 1
                                       ELSE IF page > 0 THEN (page - 1) * PageRecords + s + 1 ELSE Blank]
        /\ view = Shown(arch_buf, last_rec_ptr)
  BY Zenon DEF Init
<1>2. PageRecords \in Nat /\ PageRecords >= 1 /\ page \in Nat /\ PtrSlots \in Nat
  BY Limits DEF Pages
<1>3. PICK base \in Nat : /\ base = page * PageRecords
                          /\ page = 0 => base = 0
                          /\ page > 0 => base >= PageRecords /\ (page - 1) * PageRecords = base - PageRecords
  BY <1>2, Products
<1>4. arch_buf = [s \in Slots |-> IF base + s + 1 <= Held THEN base + s + 1
                                  ELSE IF page > 0 THEN base - PageRecords + s + 1 ELSE Blank]
  BY <1>1, <1>3
<1>5. page <= PtrSlots
  <2>1. CASE Held = 0
    BY <1>1, <1>2, <2>1
  <2>2. CASE Held # 0
    <3>1. last \in Nat /\ Held = base + last + 1
      BY <1>1, <1>3, <2>2, Limits
    <3>2. Held <= PtrSlots * PageRecords /\ PtrSlots * PageRecords \in Nat
      BY <1>2, WritersAssumption, Products
    <3>3. page * PageRecords < PtrSlots * PageRecords
      BY <1>3, <3>1, <3>2
    <3> QED
      BY <1>2, <3>3, Products
  <2> QED
    BY <2>1, <2>2
<1> QED
  BY <1>1, <1>3, <1>4, <1>5, Zenon DEF Start

LEMMA InitTyped ==
  ASSUME Init
  PROVE  Typed
<1>1. PICK page \in Pages, last \in Slots \cup {Null}, base \in Nat :
        /\ Start(page, last, base)
        /\ page = 0 => base = 0
        /\ page > 0 => base >= PageRecords
        /\ page <= PtrSlots
  BY Starts
<1>2. /\ busy = FALSE /\ met = {} /\ begun = Held /\ added = Held /\ sound = TRUE /\ since = 0
      /\ op = [t \in Tasks |-> "none"] /\ pc = [t \in Tasks |-> "idle"]
      /\ slot = [t \in Tasks |-> 0] /\ addr = [t \in Tasks |-> <<0, 0>>]
      /\ data = [t \in Tasks |-> "record"] /\ number = [t \in Tasks |-> 0]
      /\ page_num = [t \in Tasks |-> 0]
      /\ overlap = [t \in Tasks |-> FALSE] /\ idle = [t \in Tasks |-> FALSE]
      /\ turned = [t \in Tasks |-> FALSE] /\ kept = "no"
  BY Zenon DEF Init
<1>3. page \in 0 .. PageCnt - 1 /\ Held \in Nat /\ Held <= MaxRecords /\ PageRecords \in Nat /\ PageRecords >= 1
  BY WritersAssumption DEF Pages
<1>4. arch_buf \in [Slots -> (-3 .. begun) \cup {Mixed}]
  <2>1. \A s \in Slots : arch_buf[s] \in 0 .. Held
    <3> SUFFICES ASSUME NEW s \in Slots PROVE arch_buf[s] \in 0 .. Held
      OBVIOUS
    <3>1. arch_buf[s] = IF base + s + 1 <= Held THEN base + s + 1
                        ELSE IF page > 0 THEN base - PageRecords + s + 1 ELSE Blank
      BY <1>1, Zenon DEF Start
    <3>2. s \in 0 .. PageRecords - 1
      BY Limits
    <3>3. page > 0 => base < Held
      <4>1. page > 0 => last \in Slots /\ Held = base + last + 1
        BY <1>1, <1>3 DEF Start
      <4> QED
        BY <1>3, <4>1, Limits
    <3> QED
      BY <1>1, <1>3, <3>1, <3>2, <3>3 DEF Blank
  <2> QED
    BY <1>1, <1>2, <1>3, <2>1 DEF Start
<1>5. rec = page \/ rec \in Int
  BY DEF Init, Pages
<1>6. flash \in Image
  <2>1. \A p \in Int, c \in Int : p * PageRecords + c + 1 \in Int
    BY <1>3, Z3
  <2>2. PICK g, i \in Pages : g = i /\ flash = [s \in Sectors |-> [c \in Cells |->
          IF s = 0 THEN IF c <= i THEN Ptr(c) ELSE Blank
          ELSE IF c \in Slots /\ (s - 1) * PageRecords + c + 1 <= Held THEN (s - 1) * PageRecords + c + 1
          ELSE Blank]]
    BY Zenon DEF Init
  <2>3. \A s \in Sectors, c \in Cells : s - 1 \in Int /\ c \in Int /\ Ptr(c) \in Int
    BY Limits DEF Sectors, Cells, Ptr
  <2>4. \A s \in Sectors, c \in Cells : (s - 1) * PageRecords + c + 1 \in Int
    BY <2>1, <2>3
  <2> DEFINE V(s, c) == (s - 1) * PageRecords + c + 1
  <2>5. \A s \in Sectors, c \in Cells : V(s, c) \in Int
    BY <2>4
  <2>6. flash = [s \in Sectors |-> [c \in Cells |->
          IF s = 0 THEN IF c <= i THEN Ptr(c) ELSE Blank
          ELSE IF c \in Slots /\ V(s, c) <= Held THEN V(s, c) ELSE Blank]]
    BY <2>2
  <2> HIDE DEF V
  <2> QED
    BY <2>3, <2>5, <2>6 DEF Image, Blank
<1>7. Types
  <2>1. rec \in Int
    <3>1. \E p \in Pages : rec = p
      BY Zenon DEF Init
    <3> QED
      BY <3>1, Limits DEF Pages
  <2>2. /\ archive_page_num \in 0 .. PageCnt + 1 /\ offset_in_page_ptr_page \in 0 .. PtrSlots + 1
        /\ last_rec_ptr \in Slots \cup {Null}
    BY <1>1, <1>3, Limits DEF Start
  <2>3. begun \in 0 .. MaxRecords /\ added \in 0 .. begun
    BY <1>2, <1>3, Limits
  <2> QED
    BY <1>4, <1>6, <2>1, <2>2, <2>3 DEF Types, Image
<1>8. TaskTypes
  <2>1. <<0, 0>> \in Sectors \X Cells /\ 0 \in 0 .. begun /\ 0 \in Slots
    BY <1>2, <1>3, Limits DEF Sectors, Cells
  <2> QED
    BY <1>2, <2>1 DEF TaskTypes
<1>9. FlagTypes
  <2>1. busy \in BOOLEAN /\ met \subseteq Tasks /\ sound \in BOOLEAN /\ kept \in {"no", "added", "turned"}
    BY <1>2
  <2>2. since \in 0 .. PageRecords
    BY <1>2, <1>3
  <2>3. overlap \in [Tasks -> BOOLEAN] /\ idle \in [Tasks -> BOOLEAN] /\ turned \in [Tasks -> BOOLEAN]
    BY <1>2
  <2> QED
    BY <2>1, <2>2, <2>3, Zenon DEF FlagTypes
<1>10. Steps
  BY <1>2 DEF Steps, StepsOf, AddSteps, ClearSteps
<1>11. Bounds
  <2>1. archive_page_num = page
    BY <1>1 DEF Start
  <2>2. \A t \in Tasks : pc[t] = "idle"
    BY <1>2
  <2>3. \A t \in Tasks : ~Pointing(t)
    BY <2>2 DEF Pointing
  <2> QED
    BY <1>3, <2>1, <2>3, Limits DEF Bounds, Tasks
<1>12. Meeting
  BY <1>2 DEF Meeting
<1> QED
  BY <1>7, <1>8, <1>9, <1>10, <1>11, <1>12 DEF Typed

LEMMA InitIInv ==
  ASSUME Init
  PROVE  IInv
<1>1. PICK page \in Pages, last \in Slots \cup {Null}, base \in Nat :
        /\ Start(page, last, base)
        /\ page = 0 => base = 0
  BY Starts, Zenon
<1>2. /\ begun = Held /\ added = Held /\ sound = TRUE /\ since = 0
      /\ op = [t \in Tasks |-> "none"] /\ addr = [t \in Tasks |-> <<0, 0>>] /\ kept = "no"
  BY Zenon DEF Init
<1>3. OnShow(last_rec_ptr)
  <2>1. ASSUME last_rec_ptr = Null, NEW s \in Slots PROVE ~Valid(arch_buf[s])
    <3>1. Held = 0 /\ page = 0 /\ base = 0
      BY <1>1, <2>1 DEF Start
    <3>2. arch_buf[s] = IF base + s + 1 <= Held THEN base + s + 1
                        ELSE IF page > 0 THEN base - PageRecords + s + 1 ELSE Blank
      BY <1>1, Zenon DEF Start
    <3>3. s \in Nat
      BY Limits
    <3> QED
      BY <3>1, <3>2, <3>3 DEF Valid, Blank
  <2> QED
    BY <1>1, <1>2, <2>1 DEF OnShow, Start
<1>4. AtRest /\ AddsAlone /\ ClearsAlone /\ FlashHasNewest
  BY <1>2, <1>3 DEF AtRest, AddsAlone, ClearsAlone, FlashHasNewest, Tasks
<1>5. AloneInArchive
  BY <1>2, Limits DEF AloneInArchive, Sector
<1>6. Known
  <2>1. /\ last_rec_ptr \in Slots \cup {Null} /\ view = Shown(arch_buf, last_rec_ptr)
        /\ arch_buf \in [Slots -> (-3 .. begun) \cup {Mixed}] /\ begun \in Nat
    <3>1. last_rec_ptr \in Slots \cup {Null} /\ view = Shown(arch_buf, last_rec_ptr)
      BY <1>1, Zenon DEF Start
    <3>2. arch_buf \in [Slots -> (-3 .. begun) \cup {Mixed}] /\ begun \in Nat
      BY <1>2, InitTyped, WritersAssumption, Zenon DEF Typed, Types
    <3> QED
      BY <3>1, <3>2
  <2>2. view \in Seq((1 .. begun) \cup {Mixed}) /\ Len(view) <= PageRecords
    BY <2>1, ShownIsKnown
  <2>3. since <= added
    BY <1>2, WritersAssumption
  <2> QED
    BY <2>2, <2>3 DEF Known
<1> QED
  BY <1>4, <1>5, <1>6, InitTyped DEF IInv, Typed

-----------------------------------------------------------------------------
(* The invariant. *)

LEMMA ReadyKeeps ==
  ASSUME IInv, Ready \/ UNCHANGED vars
  PROVE  IInv'
<1>1. /\ UNCHANGED <<ram, flash, met, task, history>>
      /\ ~busy => ~busy'
      /\ busy \in BOOLEAN => busy' \in BOOLEAN
  <2>1. CASE Ready
    BY <2>1, Zenon DEF Ready
  <2>2. CASE UNCHANGED vars
    <3>1. UNCHANGED <<ram, flash, met, task, history>> /\ busy' = busy
      BY <2>2, Zenon DEF vars, chip
    <3> QED
      BY <3>1
  <2> QED
    BY <2>1, <2>2
<1> USE <1>1 DEF IInv, ram, task, history, log
<1>2. Types' /\ TaskTypes'
  BY Zenon DEF Types, TaskTypes
<1>3. FlagTypes'
  BY Zenon DEF FlagTypes
<1>4. Steps' /\ Bounds'
  BY Zenon DEF Steps, StepsOf, Bounds, Pointing
<1>5. Meeting'
  BY Zenon DEF Meeting, AtFlash
<1>6. AtRest' /\ ClearsAlone' /\ AloneInArchive' /\ FlashHasNewest'
  BY Zenon DEF AtRest, OnShow, Buffer, ClearsAlone, AloneInArchive, Sector, FlashHasNewest
<1>7. ASSUME NEW t \in Tasks
      PROVE  /\ PlaceAlone(t) => PlaceAlone(t)'
             /\ PointerAlone(t) => PointerAlone(t)'
             /\ RecordAlone(t) => RecordAlone(t)'
  <2>1. OnShow(last_rec_ptr)' <=> OnShow(last_rec_ptr)
    BY Zenon DEF OnShow, Buffer
  <2>2. Behind(slot[t])' <=> Behind(slot[t])
    BY Zenon DEF Behind, Buffer
  <2>3. PlaceAlone(t) => PlaceAlone(t)'
    BY <2>1, <2>2, Zenon DEF PlaceAlone
  <2>4. PointerAlone(t) => PointerAlone(t)'
    BY Zenon DEF PointerAlone, Pointing, PageHasPointer
  <2>5. RecordAlone(t) => RecordAlone(t)'
    BY Zenon DEF RecordAlone, Recording, PageHasPointer
  <2> QED
    BY <2>3, <2>4, <2>5
<1>8. AddsAlone' /\ Known'
  BY <1>7, Zenon DEF AddsAlone, Known
<1> QED
  BY <1>2, <1>3, <1>4, <1>5, <1>6, <1>8

LEMMA Invariance == IInv /\ [Next]_vars => IInv'
<1> SUFFICES ASSUME IInv, [Next]_vars PROVE IInv'
  OBVIOUS
<1>1. CASE Ready \/ UNCHANGED vars
  BY <1>1, ReadyKeeps
<1>2. ASSUME NEW t \in Tasks, Step(t) PROVE IInv'
  <2>1. Typed
    BY DEF IInv, Typed
  <2>2. Typed'
    BY <1>2, <2>1, TypedStep
  <2>3. AtRest' /\ AddsAlone' /\ ClearsAlone' /\ AloneInArchive' /\ FlashHasNewest'
    BY <1>2, <2>1, RestStep, AddsAloneStep, ClearsAloneStep, ArchiveStep, NewestStep DEF IInv
  <2>4. Known'
    BY <1>2, <2>1, <2>2, KnownStep DEF IInv
  <2> QED
    BY <2>2, <2>3, <2>4 DEF Typed, IInv
<1> QED
  BY <1>1, <1>2, NextIsStep

LEMMA Inv == Spec => []IInv
BY InitIInv, Invariance, PTL DEF Spec

\* The tasks stay in the archive: whatever they do at the same time, the counts are
\* at most one too far and the sectors they name exist; a task that works alone names
\* none behind the archive, and after the last one of them a page of it is current.
THEOREM WritersStayInArchive == Spec => []TypeOK
<1>1. ASSUME IInv PROVE TypeOK
  <2> USE <1>1 DEF IInv
  <2>1. arch_buf \in [Slots -> -3 .. Mixed]
    <3>1. (-3 .. begun) \cup {Mixed} \subseteq -3 .. Mixed
      BY Limits DEF Types, Mixed
    <3> QED
      BY <3>1 DEF Types
  <2>2. \A t \in Tasks : Sector(t) \in Sectors /\ Cell(t) \in Cells /\ slot[t] \in Slots
    BY DEF TaskTypes, Sector, Cell
  <2>3. (op = [t \in Tasks |-> "none"]) => archive_page_num \in Pages
    <3> SUFFICES ASSUME op = [t \in Tasks |-> "none"] PROVE archive_page_num \in Pages
      OBVIOUS
    <3>1. \A t \in Tasks : pc[t] # "wrap"
      BY DEF Steps, StepsOf
    <3>2. archive_page_num <= PageCnt - 1 /\ archive_page_num \in 0 .. PageCnt + 1
      BY <3>1 DEF Bounds, Types
    <3> QED
      BY <3>2, Limits DEF Pages
  <2>4. \A t \in Tasks : ~overlap[t] /\ op[t] # "none" => Sector(t) <= PageCnt
    BY DEF AloneInArchive
  <2> QED
    BY <2>1, <2>2, <2>3, <2>4, Zenon DEF TypeOK, Types
<1> QED
  BY <1>1, Inv, PTL

\* A record that was added alone, by a task that found the chip idle, is in the flash
\* in the slot and on the page that add_record_to_archive ends with, and the pointer
\* to that page where the next boot looks for it: until the next operation begins.
THEOREM AddedAloneIsFlashed == Spec => []FlashHasNewest
<1>1. IInv => FlashHasNewest
  BY DEF IInv
<1> QED
  BY <1>1, Inv, PTL

-----------------------------------------------------------------------------
(* The tasks implement the log. *)

\* The log at the start: the last records, the newest first.
LEMMA StartsAsLog ==
  ASSUME Init
  PROVE  Log!Init
<1>1. PICK page \in Pages, last \in Slots \cup {Null}, base \in Nat :
        /\ Start(page, last, base)
        /\ page = 0 => base = 0
        /\ page > 0 => base >= PageRecords
  BY Starts
<1>2. begun = Held /\ added = Held /\ sound = TRUE /\ since = 0
  BY Zenon DEF Init
<1>3. /\ Held \in 0 .. MaxRecords /\ PageRecords \in Nat /\ PageRecords >= 1 /\ page \in Nat
      /\ Slots = 0 .. PageRecords - 1
  BY WritersAssumption DEF Pages, Slots
<1>4. PICK n \in 0 .. PageRecords : n = IF Held < PageRecords THEN Held ELSE PageRecords
  BY <1>3
<1>5. view = [k \in 1 .. n |-> Held - k + 1]
  <2>1. CASE Held = 0
    <3>1. last_rec_ptr = Null /\ view = Shown(arch_buf, last_rec_ptr) /\ n = 0
      BY <1>1, <1>3, <1>4, <2>1 DEF Start
    <3>2. view = [k \in 1 .. 0 |-> Back(arch_buf, last_rec_ptr, k - 1)]
      BY <3>1 DEF Shown, RecordsCnt
    <3>3. 1 .. 0 = {}
      OBVIOUS
    <3> QED
      BY <3>1, <3>2, <3>3
  <2>2. CASE Held # 0
    <3>1. /\ last \in Slots /\ last # Null /\ last_rec_ptr = last /\ Held = base + last + 1
          /\ view = Shown(arch_buf, last)
      BY <1>1, <2>2 DEF Start
    <3>2. ASSUME NEW s \in Slots
          PROVE  arch_buf[s] = IF base + s + 1 <= Held THEN base + s + 1
                               ELSE IF page > 0 THEN base - PageRecords + s + 1 ELSE Blank
      BY <1>1, Zenon DEF Start
    <3>3. ASSUME NEW k \in 0 .. n - 1
          PROVE  Back(arch_buf, last, k) = Held - k /\ Valid(Back(arch_buf, last, k))
      <4>1. PICK s \in Slots : s = IF last >= k THEN last - k ELSE last - k + PageRecords
        <5>1. k \in 0 .. PageRecords - 1
          BY <1>3
        <5> QED
          BY <3>1, <5>1, BackIsSlot, Zenon
      <4>2. Back(arch_buf, last, k) = arch_buf[s]
        BY <4>1, Zenon DEF Back
      <4>3. arch_buf[s] = Held - k
        BY <1>1, <1>3, <1>4, <3>1, <3>2, <4>1
      <4> QED
        BY <1>3, <1>4, <4>2, <4>3 DEF Valid
    <3>4. n < PageRecords => ~Valid(Back(arch_buf, last, n))
      <4> SUFFICES ASSUME n < PageRecords PROVE ~Valid(Back(arch_buf, last, n))
        OBVIOUS
      <4>1. page = 0 /\ base = 0 /\ n = Held /\ last = n - 1
        BY <1>1, <1>3, <1>4, <3>1
      <4>2. ~ last >= n /\ last - n + PageRecords \in Slots /\ last - n + PageRecords = PageRecords - 1
        BY <1>3, <3>1, <4>1
      <4>3. Back(arch_buf, last, n) = arch_buf[PageRecords - 1]
        BY <4>2 DEF Back
      <4>4. arch_buf[PageRecords - 1] = Blank
        BY <1>3, <3>2, <4>1, <4>2
      <4> QED
        BY <4>3, <4>4 DEF Valid, Blank
    <3>5. RecordsCnt(arch_buf, last) = n
      <4>1. Records(arch_buf, last, n)
        BY <3>3, <3>4, Zenon DEF Records
      <4> QED
        BY <3>1, <4>1, CountIsOne
    <3>6. view = [k \in 1 .. n |-> Back(arch_buf, last, k - 1)]
      BY <3>1, <3>5, Zenon DEF Shown
    <3>7. \A k \in 1 .. n : Back(arch_buf, last, k - 1) = Held - k + 1
      <4> SUFFICES ASSUME NEW k \in 1 .. n PROVE Back(arch_buf, last, k - 1) = Held - k + 1
        OBVIOUS
      <4>1. k - 1 \in 0 .. n - 1
        OBVIOUS
      <4>2. Back(arch_buf, last, k - 1) = Held - (k - 1)
        BY <3>3, <4>1
      <4> QED
        BY <1>3, <4>2
    <3> QED
      BY <3>6, <3>7
  <2> QED
    BY <2>1, <2>2
<1>6. view = [k \in 1 .. (IF added < PageRecords THEN added ELSE PageRecords) |-> added - k + 1]
  BY <1>2, <1>4, <1>5, Zenon
<1> QED
  BY <1>2, <1>3, <1>6, Zenon DEF Log!Init

\* A record that is added alone comes to a log that is whole, or to a damaged one.
LEMMA AddsToLog ==
  ASSUME IInv, NEW t \in Tasks, EndAdd(t), ~overlap[t]
  PROVE  Log!Add \/ Log!AddToDamaged
<1>1. /\ begun \in 0 .. MaxRecords /\ added \in 0 .. begun /\ since \in 0 .. PageRecords
      /\ sound \in BOOLEAN
      /\ ~sound => since < PageRecords
      /\ slot[t] \in Slots /\ arch_buf \in [Slots -> (-3 .. begun) \cup {Mixed}]
      /\ begun \in Nat /\ PageRecords \in Nat /\ PageRecords >= 1 /\ MaxRecords \in Nat
      /\ slot[t] # Null
  BY Limits DEF IInv, Types, FlagTypes, TaskTypes, Meeting
<1>2. /\ last_rec_ptr' = slot[t] /\ added' = begun /\ pc[t] = "recordWritten"
      /\ view' = Shown(arch_buf, slot[t])
      /\ since' = (IF sound THEN 0 ELSE since + 1)
      /\ sound' = (sound \/ since' >= PageRecords)
  BY Zenon DEF EndAdd, Newest
<1>3. added = begun - 1 /\ Behind(slot[t]) /\ arch_buf[slot[t]] = begun
  <2>1. op[t] = "add"
    BY <1>2, Zenon DEF IInv, Steps, StepsOf, AddSteps
  <2>2. PlaceAlone(t) /\ RecordAlone(t)
    BY <2>1, Zenon DEF IInv, AddsAlone
  <2> QED
    BY <1>2, <2>2 DEF PlaceAlone, RecordAlone
<1>4. /\ view \in Seq((1 .. begun) \cup {Mixed}) /\ Len(view) <= PageRecords /\ since <= added
  BY DEF IInv, Known
<1>5. PICK s \in Slots : s = slot[t]
  BY <1>1
<1>6. Back(arch_buf, s, 0) = begun
  BY <1>1, <1>3, <1>5, Limits DEF Back
<1>7. PICK m \in 0 .. PageRecords : /\ view' = [k \in 1 .. m |-> Back(arch_buf, s, k - 1)]
                                    /\ Len(view') = m /\ m = RecordsCnt(arch_buf, s)
                                    /\ Records(arch_buf, s, m)
  BY <1>1, <1>2, <1>5, ShownIs
<1>8. CASE sound
  <2>1. PICK n \in Nat : n = Len(view)
    BY <1>4
  <2>2. PICK c \in 0 .. PageRecords : c = IF n + 1 < PageRecords THEN n + 1 ELSE PageRecords
    BY <1>1, <2>1
  <2>3. \A k \in 1 .. PageRecords - 1 :
          /\ k <= n => Back(arch_buf, s, k) = view[k] /\ Valid(view[k])
          /\ k = n + 1 => ~Valid(Back(arch_buf, s, k))
    BY <1>3, <1>5, <1>8, <2>1, Zenon DEF Behind, Buffer
  <2>4. m = c
    <3>1. ASSUME NEW k \in 0 .. c - 1 PROVE Valid(Back(arch_buf, s, k))
      <4>1. CASE k = 0
        BY <1>1, <1>3, <1>6, <4>1 DEF Valid
      <4>2. CASE k # 0
        <5>1. k \in 1 .. PageRecords - 1 /\ k <= n
          BY <1>1, <2>1, <2>2, <4>2
        <5> QED
          BY <2>3, <5>1
      <4> QED
        BY <4>1, <4>2
    <3>2. c < PageRecords => ~Valid(Back(arch_buf, s, c))
      BY <1>1, <2>1, <2>2, <2>3
    <3>3. Records(arch_buf, s, c)
      BY <3>1, <3>2, Zenon DEF Records
    <3> QED
      BY <1>1, <1>5, <1>7, <3>3, CountIsOne
  <2>5. PICK whole : whole = <<added + 1>> \o view
    OBVIOUS
  <2>6. /\ whole \in Seq(Int) /\ Len(whole) = n + 1 /\ whole[1] = begun
        /\ \A k \in 2 .. n + 1 : whole[k] = view[k - 1]
    <3>1. view \in Seq(Int)
      BY <1>1, <1>4 DEF Mixed
    <3>2. <<added + 1>> \in Seq(Int) /\ Len(<<added + 1>>) = 1 /\ <<added + 1>>[1] = added + 1
      BY <1>1
    <3>3. whole \in Seq(Int) /\ Len(whole) = n + 1
      BY <2>1, <2>5, <3>1, <3>2
    <3>4. whole[1] = begun
      BY <1>1, <1>3, <2>5, <3>1, <3>2
    <3>5. \A k \in 2 .. n + 1 : whole[k] = view[k - 1]
      BY <2>1, <2>5, <3>1, <3>2
    <3> QED
      BY <3>3, <3>4, <3>5
  <2>7. \A k \in 1 .. c : Back(arch_buf, s, k - 1) = whole[k]
    <3> SUFFICES ASSUME NEW k \in 1 .. c PROVE Back(arch_buf, s, k - 1) = whole[k]
      OBVIOUS
    <3>1. CASE k = 1
      BY <1>6, <2>6, <3>1
    <3>2. CASE k # 1
      <4>1. k - 1 \in 1 .. PageRecords - 1 /\ k - 1 <= n /\ k \in 2 .. n + 1
        BY <1>1, <2>1, <2>2, <3>2
      <4> QED
        BY <2>3, <2>6, <4>1
    <3> QED
      BY <3>1, <3>2
  <2>8. SubSeq(whole, 1, c) = [k \in 1 .. c |-> whole[k]]
    BY <2>1, <2>2, <2>6
  <2>9. view' = SubSeq(whole, 1, c)
    BY <1>7, <2>4, <2>7, <2>8
  <2>10. c = IF Len(whole) < PageRecords THEN Len(whole) ELSE PageRecords
    BY <1>1, <2>1, <2>2, <2>6
  <2>11. view' = Log!Newest(<<added + 1>> \o view, PageRecords)
    BY <2>5, <2>9, <2>10, Zenon DEF Log!Newest
  <2>12. /\ added < MaxRecords /\ added' = added + 1 /\ since' = IF sound THEN 0 ELSE since + 1
         /\ sound' = (sound \/ since + 1 >= PageRecords)
    BY <1>1, <1>2, <1>3, <1>8
  <2> QED
    BY <2>11, <2>12, Zenon DEF Log!Add
<1>9. CASE ~sound
  <2>1. \A k \in 1 .. since : Back(arch_buf, s, k) = added - k + 1
    BY <1>3, <1>5, <1>9, Zenon DEF Behind, Buffer
  <2>2. since' = since + 1 /\ added' = added + 1 /\ added < MaxRecords /\ since' <= PageRecords
        /\ since' \in Nat
    <3>1. since < PageRecords /\ since' = since + 1
      BY <1>1, <1>2, <1>9, Zenon
    <3> QED
      BY <1>1, <1>2, <1>3, <3>1
  <2>3. ASSUME NEW k \in 0 .. since
        PROVE  Back(arch_buf, s, k) = added' - k /\ Valid(Back(arch_buf, s, k))
    <3>1. CASE k = 0
      BY <1>1, <1>2, <1>3, <1>6, <3>1 DEF Valid
    <3>2. CASE k # 0
      <4>1. k \in 1 .. since
        BY <3>2
      <4>2. Back(arch_buf, s, k) = added - k + 1
        BY <2>1, <4>1
      <4> QED
        BY <1>1, <1>4, <2>2, <4>1, <4>2 DEF Valid
    <3> QED
      BY <3>1, <3>2
  <2>4. m >= since'
    <3> SUFFICES ASSUME ~ m >= since' PROVE FALSE
      OBVIOUS
    <3>1. m < PageRecords /\ m \in 0 .. since
      BY <1>1, <2>2
    <3> QED
      BY <1>7, <2>3, <3>1, Zenon DEF Records
  <2>5. \A k \in 1 .. since' : view'[k] = added' - k + 1
    <3> SUFFICES ASSUME NEW k \in 1 .. since' PROVE view'[k] = added' - k + 1
      OBVIOUS
    <3>1. k \in 1 .. m /\ k - 1 \in 0 .. since
      BY <1>1, <2>2, <2>4
    <3>2. view'[k] = Back(arch_buf, s, k - 1)
      BY <1>7, <3>1
    <3>3. Back(arch_buf, s, k - 1) = added' - (k - 1)
      BY <2>3, <3>1
    <3> QED
      BY <1>1, <2>2, <3>1, <3>2, <3>3
  <2>6. view' \in Seq(1 .. added' \cup {Mixed}) /\ Len(view') <= PageRecords
    BY <1>1, <1>2, ShownIsKnown
  <2>7. sound' = (since' >= PageRecords)
    BY <1>2, <1>9
  <2>8. PICK n \in 0 .. PageRecords : /\ n = since'
                                      /\ n = IF since' < PageRecords THEN since' ELSE PageRecords
    BY <1>1, <2>2
  <2>9. Len(view') >= n /\ \A k \in 1 .. n : view'[k] = added' - k + 1
    BY <1>7, <2>4, <2>5, <2>8
  <2> QED
    BY <1>9, <2>2, <2>6, <2>7, <2>8, <2>9, Zenon DEF Log!AddToDamaged
<1> QED
  BY <1>1, <1>8, <1>9

LEMMA StepsOfLog ==
  ASSUME IInv, NEW t \in Tasks, Step(t)
  PROVE  Log!Next \/ UNCHANGED <<view, added, sound, since>>
<1>1. Typed
  BY Zenon DEF IInv, Typed
<1>2. /\ begun \in 0 .. MaxRecords /\ added \in 0 .. begun /\ begun \in Nat
      /\ arch_buf \in [Slots -> (-3 .. begun) \cup {Mixed}] /\ last_rec_ptr' \in Slots \cup {Null}
      /\ overlap[t] => ~sound /\ since = 0
  <2>1. last_rec_ptr' \in Slots \cup {Null}
    BY <1>1, TypesStep, Zenon DEF Types
  <2>2. overlap[t] => ~sound /\ since = 0
    BY Zenon DEF IInv, Meeting
  <2> QED
    BY <2>1, <2>2, Limits DEF IInv, Types
<1>3. CASE Begins(t)
  <2>1. CASE op[Other(t)] = "none"
    BY <1>3, <2>1, Zenon DEF Begins
  <2>2. CASE op[Other(t)] # "none"
    BY <1>3, <2>2, Zenon DEF Begins, Log!Damage, Log!Next
  <2> QED
    BY <2>1, <2>2
<1>4. CASE GoesOn(t)
  BY <1>4, Zenon DEF GoesOn
<1>5. CASE (EndAdd(t) \/ (t = "lcd" /\ EndClear)) /\ overlap[t]
  <2>1. /\ view' = Shown(arch_buf, last_rec_ptr') /\ added' = begun
        /\ sound' = sound /\ since' = since
    BY <1>5, Zenon DEF EndAdd, EndClear, ram
  <2>2. view' \in Seq(1 .. added' \cup {Mixed}) /\ Len(view') <= PageRecords
    BY <1>2, <2>1, ShownIsKnown
  <2>3. added' \in added .. MaxRecords
    BY <1>2, <2>1, Limits
  <2> QED
    BY <1>2, <1>5, <2>1, <2>2, <2>3, Zenon DEF Log!Surface, Log!Next
<1>6. CASE EndAdd(t) /\ ~overlap[t]
  BY <1>6, AddsToLog, Zenon DEF Log!Next
<1>7. CASE t = "lcd" /\ EndClear /\ ~overlap[t]
  <2>1. /\ view' = Shown(arch_buf, last_rec_ptr) /\ added' = begun
        /\ sound' = TRUE /\ since' = 0 /\ pc[t] = "erasePages"
    BY <1>7, Zenon DEF EndClear
  <2>2. op[t] = "clear"
    BY <2>1, Zenon DEF IInv, Steps, StepsOf, ClearSteps
  <2>3. added = begun /\ last_rec_ptr = Null
    BY <1>7, <2>2, Zenon DEF IInv, ClearsAlone
  <2>4. view' = <<>>
    <3>1. view' = [k \in 1 .. 0 |-> Back(arch_buf, last_rec_ptr, k - 1)]
      BY <2>1, <2>3 DEF Shown, RecordsCnt
    <3>2. 1 .. 0 = {}
      OBVIOUS
    <3> QED
      BY <3>1, <3>2
  <2> QED
    BY <2>1, <2>3, <2>4, Zenon DEF Log!Clear, Log!Next
<1> QED
  BY <1>1, <1>3, <1>4, <1>5, <1>6, <1>7, ShownSteps, Zenon

\* Whatever the two tasks do, the archive is a RecordLog: as long as they use it one
\* after the other, the log of the last records, however many; when they meet in it,
\* one that is damaged, until it is cleared or filled with new records, one at a time.
THEOREM WritersImplementLog == Spec => ImplementsLog
<1>1. IInv /\ [Next]_vars => [Log!Next]_<<view, added, sound, since>>
  <2> SUFFICES ASSUME IInv, [Next]_vars
               PROVE  Log!Next \/ UNCHANGED <<view, added, sound, since>>
    OBVIOUS
  <2>1. CASE Ready \/ UNCHANGED vars
    BY <2>1, Zenon DEF Ready, vars, history, log
  <2>2. CASE \E t \in Tasks : Step(t)
    BY <2>2, StepsOfLog
  <2> QED
    BY <2>1, <2>2, NextIsStep
<1> QED
  BY <1>1, StartsAsLog, Inv, PTL DEF Spec, ImplementsLog, Log!Spec, Log!logVars
=============================================================================
