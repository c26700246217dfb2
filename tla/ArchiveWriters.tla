--------------------------- MODULE ArchiveWriters ---------------------------
(***************************************************************************)
(* The two tasks that write the message archive, one statement or one      *)
(* round of exchanges with the flash at a time: the LCD task, which        *)
(* records the messages whose bits rise (message_scaner.c) and clears the  *)
(* archive, and the network task, which records the loss of the link       *)
(* (main.c).                                                               *)
(*                                                                         *)
(* They share the statics of message_archive.c, the sector buffer of       *)
(* zd25flash.c and the chip, and nothing keeps them apart.  An exchange    *)
(* selects the chip, sleeps a tick, then transfers and deselects it: what  *)
(* the other task does meanwhile may make it void, and the sector buffer   *)
(* may be filled anew before it is written.  A busy chip ignores every     *)
(* command but the one that reads its status.                              *)
(*                                                                         *)
(* A record is its number, in the order in which the calls of              *)
(* add_record_to_archive begin.  Power cuts are the subject of             *)
(* MessageArchive, and are left out here.                                  *)
(***************************************************************************)
EXTENDS Integers, Sequences, FiniteSets

CONSTANTS
  PageCnt,      \* ZD25_ARCHIVE_PAGE_CNT
  PageRecords,  \* MAX_ARCHIVE_RECORDS_CNT
  PtrSlots,     \* page pointers in the pointer sector
  ClearedPages, \* pages that clear_archive erases
  Held,         \* records in the archive at start, since it was cleared
  MaxRecords,   \* bound of the model: records
  MaxClears     \* bound of the model: calls of clear_archive

ASSUME WritersAssumption ==
  /\ PageCnt \in Nat \ {0, 1} /\ PageRecords \in Nat \ {0} /\ PtrSlots \in Nat \ {0}
  /\ ClearedPages \in 1 .. PageCnt
  /\ Held \in Nat /\ Held <= PageCnt * PageRecords /\ Held <= PtrSlots * PageRecords
  /\ MaxRecords \in Nat /\ Held <= MaxRecords /\ MaxClears \in Nat

VARIABLES
  \* memory that both tasks share
  arch_buf,
  last_rec_ptr,            \* slot of the newest record, or Null
  archive_page_num,
  offset_in_page_ptr_page, \* in pointers
  rec,                     \* the static rec: the page of the pointer built in it
  \* the chip
  flash,                   \* sector 0 holds pointers, sector 1 + p the page p
  busy,
  met,                     \* tasks whose exchanges the other task has come between
  \* each task
  op,                      \* the operation under way
  pc,                      \* its next step
  slot,                    \* add_record_to_archive's ptr
  addr,                    \* where zd25_flash_write writes: sector and cell
  data,                    \* what it writes: "pointer" or "record"
  number,                  \* the record
  page_num,                \* the page of the pointer that create_new_page_ptr was called for
  \* history
  begun, added, sound, since, view, \* see RecordLog
  overlap,                 \* did the other task work on the archive meanwhile?
  idle,                    \* was the chip idle when the operation began?
  turned,                  \* did the operation turn the page?
  kept,                    \* the last operation, if it was alone and found the chip
                           \* idle: "added" a record, "turned" the page for it; "no"
  clears

ram == <<arch_buf, last_rec_ptr, archive_page_num, offset_in_page_ptr_page, rec>>
chip == <<flash, busy, met>>
task == <<op, pc, slot, addr, data, number, page_num>>
local == <<op, slot, addr, data, number, page_num>>
log == <<added, sound, since, view, kept>>
history == <<log, begun, overlap, idle, turned, clears>>
vars == <<ram, chip, task, history>>

Tasks == {"lcd", "net"}
Other(t) == CHOOSE u \in Tasks : u # t

Blank == 0
Torn == -1
Mixed == MaxRecords + 1           \* bytes of two records, under a checksum that fits
Half(t) == IF t = "lcd" THEN -2 ELSE -3   \* a record that t is building
Ptr(page) == -4 - page
Null == -1
Pages == 0 .. PageCnt - 1
Cells == 0 .. (IF PageRecords > PtrSlots THEN PageRecords ELSE PtrSlots) - 1
Slots == 0 .. PageRecords - 1
Sectors == 0 .. PageCnt + 1        \* the sector behind the archive is there as well
BlankSector == [c \in Cells |-> Blank]
TornSector == [c \in Cells |-> Torn]

\* check_record.
Valid(cell) == cell > 0

\* The record k places before the newest one; before slot 0 comes the last slot.
Back(buf, last, k) == buf[IF last >= k THEN last - k ELSE last - k + PageRecords]

\* get_archive_records_cnt and get_record_with_offset_from_last: the records on
\* show, the newest first.
RecordsCnt(buf, last) ==
  IF last = Null THEN 0
  ELSE CHOOSE n \in 0 .. PageRecords :
         /\ \A k \in 0 .. n - 1 : Valid(Back(buf, last, k))
         /\ n < PageRecords => ~Valid(Back(buf, last, n))

Shown(buf, last) == [k \in 1 .. RecordsCnt(buf, last) |-> Back(buf, last, k - 1)]

\* As clear_archive and then Held calls of add_record_to_archive leave it.
Init ==
  LET number_at(p, c) == p * PageRecords + c + 1
  IN \E page \in Pages, last \in Slots \cup {Null} :
      /\ IF Held = 0 THEN page = 0 /\ last = Null ELSE last # Null /\ Held = number_at(page, last)
      /\ archive_page_num = page
      /\ offset_in_page_ptr_page = page + 1
      /\ last_rec_ptr = last
      /\ rec = page
      /\ arch_buf = [s \in Slots |->
                       IF number_at(page, s) <= Held THEN number_at(page, s)
                       ELSE IF page > 0 THEN number_at(page - 1, s) ELSE Blank]
      /\ flash = [s \in Sectors |-> [c \in Cells |->
                    IF s = 0 THEN IF c <= page THEN Ptr(c) ELSE Blank
                    ELSE IF c \in Slots /\ number_at(s - 1, c) <= Held THEN number_at(s - 1, c)
                    ELSE Blank]]
      /\ busy = FALSE
      /\ met = {}
      /\ op = [t \in Tasks |-> "none"]
      /\ pc = [t \in Tasks |-> "idle"]
      /\ slot = [t \in Tasks |-> 0]
      /\ addr = [t \in Tasks |-> <<0, 0>>]
      /\ data = [t \in Tasks |-> "record"]
      /\ number = [t \in Tasks |-> 0]
      /\ page_num = [t \in Tasks |-> 0]
      /\ begun = Held /\ added = Held /\ sound = TRUE /\ since = 0
      /\ view = Shown(arch_buf, last_rec_ptr)
      /\ overlap = [t \in Tasks |-> FALSE]
      /\ idle = [t \in Tasks |-> FALSE]
      /\ turned = [t \in Tasks |-> FALSE]
      /\ kept = "no"
      /\ clears = 0

-----------------------------------------------------------------------------
(* An operation begins and ends. *)

Goto(t, step) == pc' = [pc EXCEPT ![t] = step]

\* From here on, two operations at once damage the log.
Begin(t, what) ==
  /\ op' = [op EXCEPT ![t] = what]
  /\ idle' = [idle EXCEPT ![t] = ~busy]
  /\ turned' = [turned EXCEPT ![t] = FALSE]
  /\ kept' = "no"
  /\ IF op[Other(t)] = "none"
     THEN /\ overlap' = [overlap EXCEPT ![t] = FALSE]
          /\ UNCHANGED <<sound, since>>
     ELSE /\ overlap' = [u \in Tasks |-> TRUE]
          /\ sound' = FALSE /\ since' = 0
  /\ UNCHANGED <<added, view>>

\* The variables of the call are gone.
Return(t) ==
  /\ op' = [op EXCEPT ![t] = "none"]
  /\ slot' = [slot EXCEPT ![t] = 0]
  /\ addr' = [addr EXCEPT ![t] = <<0, 0>>]
  /\ data' = [data EXCEPT ![t] = "record"]
  /\ number' = [number EXCEPT ![t] = 0]
  /\ overlap' = [overlap EXCEPT ![t] = FALSE]
  /\ idle' = [idle EXCEPT ![t] = FALSE]
  /\ turned' = [turned EXCEPT ![t] = FALSE]

\* A message bit has risen (message_scaner.c 30-45), or there was no link at start
\* (display_task.c 58-67): a record of the LCD task.  The link was lost (main.c
\* 320-329): a record of the network task.
BeginAdd(t) ==
  /\ pc[t] = "idle"
  /\ begun < MaxRecords
  /\ begun' = begun + 1
  /\ number' = [number EXCEPT ![t] = begun + 1]
  /\ Begin(t, "add")
  /\ Goto(t, "slot")
  /\ UNCHANGED <<ram, chip, slot, addr, data, page_num, clears>>

-----------------------------------------------------------------------------
(* add_record_to_archive. *)

\* The place of the record: the slot after the newest one.  When there is none,
\* the next page, of which a pointer must be written first.
FindSlot(t) ==
  /\ pc[t] = "slot"
  /\ \/ /\ last_rec_ptr = Null
        /\ last_rec_ptr' = 0
        /\ slot' = [slot EXCEPT ![t] = 0]
        /\ Goto(t, "fill")
        /\ UNCHANGED <<archive_page_num, turned>>
     \/ /\ last_rec_ptr # Null /\ last_rec_ptr + 1 < PageRecords
        /\ slot' = [slot EXCEPT ![t] = last_rec_ptr + 1]
        /\ Goto(t, "fill")
        /\ UNCHANGED <<last_rec_ptr, archive_page_num, turned>>
     \/ /\ last_rec_ptr + 1 = PageRecords
        /\ slot' = [slot EXCEPT ![t] = 0]
        /\ archive_page_num' = archive_page_num + 1
        /\ turned' = [turned EXCEPT ![t] = TRUE]
        /\ Goto(t, "wrap")
        /\ UNCHANGED last_rec_ptr
  /\ UNCHANGED <<arch_buf, offset_in_page_ptr_page, rec, chip, op, addr, data, number, page_num,
                 log, begun, overlap, idle, clears>>

\* Faulty variant of Wrapped: one page too many.
WrappedLate(page) == IF page > PageCnt THEN 0 ELSE page

Wrapped(page) == IF page >= PageCnt THEN 0 ELSE page

\* The page the pointer is for is fixed by the call.
WrapPage(t) ==
  /\ pc[t] = "wrap"
  /\ archive_page_num' = Wrapped(archive_page_num)
  /\ page_num' = [page_num EXCEPT ![t] = Wrapped(archive_page_num)]
  /\ Goto(t, "pointer")
  /\ UNCHANGED <<arch_buf, last_rec_ptr, offset_in_page_ptr_page, rec, chip, op, slot, addr, data,
                 number, history>>

\* create_new_page_ptr: its place, then its bytes, the last time that it needs
\* its argument.
PlacePointer(t) ==
  /\ pc[t] = "pointer"
  /\ offset_in_page_ptr_page' =
       IF offset_in_page_ptr_page >= PtrSlots THEN 0 ELSE offset_in_page_ptr_page
  /\ rec' = page_num[t]
  /\ page_num' = [page_num EXCEPT ![t] = 0]
  /\ Goto(t, "address")
  /\ UNCHANGED <<arch_buf, last_rec_ptr, archive_page_num, chip, op, slot, addr, data, number,
                 history>>

\* The place is read again for the write: by then it may be the end of the
\* pointer sector, which is the beginning of page 0.
WritePointer(t) ==
  /\ pc[t] = "address"
  /\ addr' = [addr EXCEPT ![t] = IF offset_in_page_ptr_page < PtrSlots
                                 THEN <<0, offset_in_page_ptr_page>> ELSE <<1, 0>>]
  /\ data' = [data EXCEPT ![t] = "pointer"]
  /\ Goto(t, "write")
  /\ UNCHANGED <<ram, chip, op, slot, number, page_num, history>>

PointerWritten(t) ==
  /\ pc[t] = "pointerWritten"
  /\ offset_in_page_ptr_page' = offset_in_page_ptr_page + 1
  /\ Goto(t, IF op[t] = "clear" THEN "erasePages" ELSE "fill")
  /\ UNCHANGED <<arch_buf, last_rec_ptr, archive_page_num, rec, chip, local, history>>

\* The record is built in arch_buf, byte by byte and then its checksum.
Fill(t) ==
  /\ pc[t] = "fill"
  /\ arch_buf' = [arch_buf EXCEPT ![slot[t]] = Half(t)]
  /\ Goto(t, "seal")
  /\ UNCHANGED <<last_rec_ptr, archive_page_num, offset_in_page_ptr_page, rec, chip, local, history>>

\* When the other task has stored to the place meanwhile, it is left with bytes
\* of both.
Seal(t) ==
  /\ pc[t] = "seal"
  /\ \E cell \in {number[t]} \cup
                 IF arch_buf[slot[t]] = Half(t) THEN {} ELSE {Torn, Mixed} :
       arch_buf' = [arch_buf EXCEPT ![slot[t]] = cell]
  /\ addr' = [addr EXCEPT ![t] = <<1 + archive_page_num, slot[t]>>]
  /\ data' = [data EXCEPT ![t] = "record"]
  /\ Goto(t, "write")
  /\ UNCHANGED <<last_rec_ptr, archive_page_num, offset_in_page_ptr_page, rec, chip, op, slot,
                 number, page_num, history>>

\* Faulty variant of Newest: the newest record stays the one before.
NewestKept(t) == last_rec_ptr

Newest(t) == slot[t]

EndAdd(t) ==
  /\ pc[t] = "recordWritten"
  /\ last_rec_ptr' = Newest(t)
  /\ added' = begun
  /\ view' = Shown(arch_buf, last_rec_ptr')
  /\ IF overlap[t]
     THEN UNCHANGED <<sound, since>> /\ kept' = "no"
     ELSE /\ since' = IF sound THEN 0 ELSE since + 1
          /\ sound' = (sound \/ since' >= PageRecords)
          /\ kept' = IF ~idle[t] THEN "no" ELSE IF turned[t] THEN "turned" ELSE "added"
  /\ Return(t)
  /\ Goto(t, "idle")
  /\ UNCHANGED <<arch_buf, archive_page_num, offset_in_page_ptr_page, rec, chip, page_num, begun,
                 clears>>

-----------------------------------------------------------------------------
(* clear_archive, from the menu. *)

BeginClear ==
  /\ pc["lcd"] = "idle"
  /\ clears < MaxClears
  /\ clears' = clears + 1
  /\ Begin("lcd", "clear")
  /\ last_rec_ptr' = Null
  /\ arch_buf' = [s \in Slots |-> Blank]
  /\ Goto("lcd", "clearStatics")
  /\ UNCHANGED <<archive_page_num, offset_in_page_ptr_page, rec, chip, slot, addr, data, number,
                 page_num, begun>>

\* And calls create_new_page_ptr(0).
ClearStatics ==
  /\ pc["lcd"] = "clearStatics"
  /\ archive_page_num' = 0
  /\ last_rec_ptr' = Null
  /\ offset_in_page_ptr_page' = 0
  /\ Goto("lcd", "pointer")
  /\ page_num' = [page_num EXCEPT !["lcd"] = 0]
  /\ UNCHANGED <<arch_buf, rec, chip, op, slot, addr, data, number, history>>

-----------------------------------------------------------------------------
(* The driver of the flash: zd25_flash_write and clear_archive_page. *)

\* Do the exchanges of the other task come between those of this one?
AtFlash(t) == pc[t] \in {"write", "erasePages"}
Disturbed(t) == t \in met \/ AtFlash(Other(t))

Meet(t) == met' = IF AtFlash(Other(t)) THEN {Other(t)} ELSE {}

Sector(t) == addr[t][1]
Cell(t) == addr[t][2]
Payload(t) == IF data[t] = "pointer" THEN Ptr(rec) ELSE arch_buf[slot[t]]

With(sector, c, cell) == [flash EXCEPT ![sector][c] = cell]

\* Faulty variant of Written: programs a place that is not blank, which leaves
\* neither what was there nor what should be.
WrittenOver(t) ==
  With(Sector(t), Cell(t), IF flash[Sector(t)][Cell(t)] = Blank THEN Payload(t) ELSE Torn)

\* zd25_flash_write: a place that is not blank is programmed after its sector
\* was erased.
Written(t) ==
  IF flash[Sector(t)][Cell(t)] = Blank THEN With(Sector(t), Cell(t), Payload(t))
  ELSE [flash EXCEPT ![Sector(t)] = [BlankSector EXCEPT ![Cell(t)] = Payload(t)]]

\* What else it may come to, when the chip is still erasing or the other task
\* is at it too: commands are ignored, the erased sector is not written, or it
\* is written with the buffer as the other task has filled it.
Spoilt(t) == {flash} \cup {[flash EXCEPT ![Sector(t)] = s] : s \in {BlankSector, TornSector}}

\* It waits until the chip is ready, if the other task lets it read the status.
Write(t) ==
  /\ pc[t] = "write"
  /\ flash' \in IF busy \/ Disturbed(t) THEN Spoilt(t) \cup {Written(t)} ELSE {Written(t)}
  /\ busy' \in IF Disturbed(t) THEN {busy, FALSE} ELSE {FALSE}
  /\ Meet(t)
  /\ Goto(t, IF data[t] = "pointer" THEN "pointerWritten" ELSE "recordWritten")
  /\ UNCHANGED <<ram, local, history>>

\* clear_archive does not wait for the flash, which ignores the commands it gets
\* while it erases the first page: of the others it may erase some.
EndClear ==
  /\ pc["lcd"] = "erasePages"
  /\ \/ \E more \in SUBSET (2 .. ClearedPages) :
          flash' = [s \in Sectors |-> IF s \in more \cup {1} THEN BlankSector ELSE flash[s]]
     \/ (busy \/ Disturbed("lcd")) /\ UNCHANGED flash
  /\ busy' = TRUE
  /\ Meet("lcd")
  /\ added' = begun
  /\ view' = Shown(arch_buf, last_rec_ptr)
  /\ IF overlap["lcd"] THEN UNCHANGED <<sound, since>> ELSE sound' = TRUE /\ since' = 0
  /\ Return("lcd")
  /\ Goto("lcd", "idle")
  /\ UNCHANGED <<ram, page_num, begun, kept, clears>>

\* The chip has finished (external).
Ready ==
  /\ busy
  /\ busy' = FALSE
  /\ UNCHANGED <<ram, flash, met, task, history>>

-----------------------------------------------------------------------------
Add(t) == BeginAdd(t) \/ FindSlot(t) \/ WrapPage(t) \/ PlacePointer(t) \/ WritePointer(t)
          \/ PointerWritten(t) \/ Fill(t) \/ Seal(t) \/ EndAdd(t)

Next ==
  \/ \E t \in Tasks : Add(t) \/ Write(t)
  \/ BeginClear \/ ClearStatics \/ EndClear
  \/ Ready

Spec == Init /\ [][Next]_vars

-----------------------------------------------------------------------------
(* Properties. *)

\* Types; and no task writes behind the archive: one sector more may be named
\* while both tasks turn the page.
TypeOK ==
  /\ arch_buf \in [Slots -> -3 .. Mixed]
  /\ last_rec_ptr \in Slots \cup {Null}
  /\ archive_page_num \in 0 .. PageCnt + 1
  /\ offset_in_page_ptr_page \in 0 .. PtrSlots + 1
  /\ \A t \in Tasks : Sector(t) \in Sectors /\ Cell(t) \in Cells /\ slot[t] \in Slots
  /\ (op = [t \in Tasks |-> "none"]) => archive_page_num \in Pages
  /\ \A t \in Tasks : ~overlap[t] /\ op[t] # "none" => Sector(t) <= PageCnt
  /\ begun \in 0 .. MaxRecords /\ added \in 0 .. begun

\* As long as the two tasks use the archive one after the other, it is the log
\* of its last records; when they meet in it, it is damaged until it has been
\* cleared, or filled with new records, one at a time.
Log == INSTANCE RecordLog WITH Capacity <- PageRecords, Healing <- PageRecords,
                               Junk <- {Mixed}, log <- view
ImplementsLog == Log!Spec

\* A record that was added alone, with the chip idle when it began, is in the
\* flash where the next boot looks for it; and so is the pointer to its page.
FlashHasNewest ==
  /\ kept # "no" => flash[1 + archive_page_num][last_rec_ptr] = arch_buf[last_rec_ptr]
  /\ kept = "turned" => flash[0][offset_in_page_ptr_page - 1] = Ptr(archive_page_num)

=============================================================================
