--------------------------- MODULE MessageArchive ---------------------------
(***************************************************************************)
(* The message archive (message_archive.c) on the serial flash             *)
(* (zd25flash.c), with the power cut at any step of any flash operation.   *)
(*                                                                         *)
(* Flash sector 0 is a log of page pointers, each stamped with the time;   *)
(* the sectors after it are the pages of records, used in turn.  In memory *)
(* arch_buf mirrors the current page: it is a ring of the last PageRecords *)
(* records whose tail still holds the previous page.  At boot, the pointer *)
(* with the latest stamp names the current page.                           *)
(*                                                                         *)
(* A record is its number, in the order of the calls of                    *)
(* add_record_to_archive.  Blank is an erased cell, or in memory a cell    *)
(* that holds no record; Torn is a cell whose checksum does not match.     *)
(*                                                                         *)
(* A busy chip ignores every command but a read of its status, and answers *)
(* a read of its cells with anything.  Every write waits until the chip is *)
(* done; clear_archive does not, and the record added after it may be lost *)
(* from the flash (see missed).                                            *)
(*                                                                         *)
(* One task uses the archive here: see ArchiveWriters for two.             *)
(***************************************************************************)
EXTENDS Integers, Sequences, FiniteSets

CONSTANTS
  PageCnt,       \* ZD25_ARCHIVE_PAGE_CNT
  PageRecords,   \* MAX_ARCHIVE_RECORDS_CNT
  PtrSlots,      \* page pointers in the pointer sector
  ClearedPages,  \* pages that clear_archive erases
  Times,         \* values of the clock
  TornWrites,    \* may a power cut leave a half written or half erased cell?
  Healing,       \* records that make a damaged archive whole again
  MaxRecords,    \* bound of the model: records added
  MaxCuts        \* bound of the model: power cuts

ASSUME ArchiveAssumption ==
  /\ PageCnt \in Nat \ {0, 1}
  /\ PageRecords \in Nat \ {0}
  /\ PtrSlots \in Nat \ {0}
  /\ ClearedPages \in 1 .. PageCnt
  /\ Times \subseteq Nat \ {0} /\ Times # {}
  /\ TornWrites \in BOOLEAN
  /\ Healing \in Nat /\ Healing >= 2 * PageRecords   \* two pages are written anew
  /\ MaxRecords \in Nat /\ MaxCuts \in Nat

VARIABLES
  ptrs,                    \* flash: the pointer sector
  pages,                   \* flash: the record pages
  erasing,                 \* the page that the chip erases since clear_archive, or Null
  arch_buf,
  last_rec_ptr,            \* slot of the newest record, or Null
  archive_page_num,
  offset_in_page_ptr_page, \* in pointers
  pc,                      \* next step of the operation under way
  op,                      \* the operation under way
  slot,                    \* add_record_to_archive's ptr
  now,                     \* the clock
  \* history
  added,                   \* records added
  cleared,                 \* records added before the last clear
  view,                    \* what the archive showed after the last operation
  stampedInOrder,          \* was the last pointer stamped later than all others,
                           \* none of them missing before it?
  sound,                   \* no power cut left damage since the last clear, or since
                           \* Healing records
  since,                   \* records added since the damage
  missed,                  \* did a busy chip ignore the first record of page 0?
  scarred,                 \* has a power cut ever left half written cells?
  cuts                     \* power cuts

flash == <<ptrs, pages>>
chip == <<flash, erasing>>
ram == <<arch_buf, last_rec_ptr, archive_page_num, offset_in_page_ptr_page>>
history == <<cleared, stampedInOrder, sound, since, missed, scarred, cuts>>
vars == <<chip, ram, pc, op, slot, now, added, view, history>>

Blank == 0
Torn == -1
Null == -1
Pages == 0 .. PageCnt - 1
Cells == 0 .. PageRecords - 1
PtrCells == 0 .. PtrSlots - 1
BlankPtr == [stamp |-> Blank, page |-> 0]
TornPtr == [stamp |-> Torn, page |-> 0]
BlankPage == [i \in Cells |-> Blank]

\* check_record and the checksum of a page pointer accept what was written whole.
Valid(cell) == cell > 0
ValidPtr(p) == p.stamp > 0

\* How many of 0 .. n - 1, from 0 on without a gap, are good.
LongestRun(good, n) == CHOOSE c \in 0 .. n : 0 .. c - 1 \subseteq good /\ (c < n => c \notin good)

-----------------------------------------------------------------------------
(* Reading the archive. *)

\* get_record_with_offset_from_last: k records before the newest.
Back(buf, last, k) == buf[IF last >= k THEN last - k ELSE last - k + PageRecords]

\* get_archive_records_cnt.
RecordsCnt(buf, last) ==
  IF last = Null THEN 0
  ELSE LongestRun({k \in Cells : Valid(Back(buf, last, k))}, PageRecords)

\* All the records the archive shows, the newest first.
Shown(buf, last) == [k \in 1 .. RecordsCnt(buf, last) |-> Back(buf, last, k - 1)]

-----------------------------------------------------------------------------
(* Opening the archive at boot. *)

\* search_last_record reads pointers up to the first that does not check.
PtrRun == LongestRun({i \in PtrCells : ValidPtr(ptrs[i])}, PtrSlots)

\* Of those it keeps the first with the greatest stamp.
LatestPtr ==
  CHOOSE i \in 0 .. PtrRun - 1 :
    /\ \A j \in 0 .. PtrRun - 1 : ptrs[j].stamp <= ptrs[i].stamp
    /\ \A j \in 0 .. i - 1 : ptrs[j].stamp < ptrs[i].stamp

\* Faulty variant of PrevPage: page 0 is its own predecessor.
PrevPageUnwrapped(p) == IF p = 0 THEN 0 ELSE p - 1

PrevPage(p) == IF p = 0 THEN PageCnt - 1 ELSE p - 1

\* Faulty variant of PageRun: gives up one record too early.
PageRunShort(p) == LongestRun({i \in Cells : Valid(pages[p][i])}, PageRecords - 1)

PageRun(p) == LongestRun({i \in Cells : Valid(pages[p][i])}, PageRecords)

\* open_archive loads a page and fills what is left of arch_buf from the page
\* before it.
Loaded(p) == [i \in Cells |-> IF i < PageRun(p) THEN pages[p][i] ELSE pages[PrevPage(p)][i]]

-----------------------------------------------------------------------------
Init ==
  /\ ptrs = [i \in PtrCells |-> BlankPtr]
  /\ pages = [p \in Pages |-> BlankPage]
  /\ erasing = Null
  /\ arch_buf = BlankPage
  /\ last_rec_ptr = Null
  /\ archive_page_num = 0
  /\ offset_in_page_ptr_page = 0
  /\ pc = "off"
  /\ op = "none"
  /\ slot = 0
  /\ now \in Times
  /\ added = 0
  /\ cleared = 0
  /\ view = <<>>
  /\ stampedInOrder = FALSE
  /\ sound = TRUE
  /\ since = 0
  /\ missed = FALSE
  /\ scarred = FALSE
  /\ cuts = 0

\* create_new_page_ptr starts at the next place of the pointer sector, or at
\* its beginning when the sector is full.
PtrPlace(offset) == IF offset >= PtrSlots THEN 0 ELSE offset

\* zd25_flash_write erases the sector first when the place does not read blank.
WritePtrAt(offset) ==
  /\ pc' \in {"programPtr", "erasePtrs"}
  /\ erasing = Null => (pc' = "programPtr" <=> ptrs[PtrPlace(offset)] = BlankPtr)

\* The chip is done with what clear_archive left it to erase.
Finish ==
  /\ erasing # Null
  /\ pages' = [pages EXCEPT ![erasing] = BlankPage]
  /\ erasing' = Null

ChipReady ==
  /\ Finish
  /\ missed' = FALSE
  /\ UNCHANGED <<ptrs, ram, pc, op, slot, now, added, view, cleared, stampedInOrder, sound,
                 since, scarred, cuts>>

\* The write ignored by a busy chip waits until it is done.
Ignored == Finish /\ missed' = FALSE /\ UNCHANGED ptrs

NextPage(p) == IF p + 1 >= PageCnt THEN 0 ELSE p + 1

\* add_record_to_archive: the slot after the newest record, on the next page
\* when this one is full.
StartAdd ==
  /\ pc = "ready"
  /\ added < MaxRecords
  /\ \/ /\ last_rec_ptr = Null
        /\ last_rec_ptr' = 0 /\ slot' = 0
        /\ op' = "add" /\ pc' = "fill"
        /\ UNCHANGED <<archive_page_num, offset_in_page_ptr_page>>
     \/ /\ last_rec_ptr # Null /\ last_rec_ptr + 1 < PageRecords
        /\ slot' = last_rec_ptr + 1
        /\ op' = "add" /\ pc' = "fill"
        /\ UNCHANGED <<last_rec_ptr, archive_page_num, offset_in_page_ptr_page>>
     \/ /\ last_rec_ptr + 1 = PageRecords
        /\ slot' = 0
        /\ archive_page_num' = NextPage(archive_page_num)
        /\ offset_in_page_ptr_page' = PtrPlace(offset_in_page_ptr_page)
        /\ op' = "turn" /\ WritePtrAt(offset_in_page_ptr_page)
        /\ UNCHANGED last_rec_ptr
  /\ UNCHANGED <<chip, arch_buf, now, added, view, history>>

\* clear_archive empties the memory and writes a pointer to page 0.
ClearRam ==
  /\ arch_buf' = BlankPage
  /\ last_rec_ptr' = Null
  /\ archive_page_num' = 0
  /\ offset_in_page_ptr_page' = 0
  /\ op' = "clear"
  /\ WritePtrAt(0)

StartClear ==
  /\ pc = "ready"
  /\ ClearRam
  /\ UNCHANGED <<chip, slot, now, added, view, history>>

ErasePtrs ==
  /\ pc = "erasePtrs"
  /\ \/ /\ erasing = Null
        /\ ptrs' = [i \in PtrCells |-> BlankPtr]
        /\ UNCHANGED <<pages, erasing, missed>>
     \/ Ignored
  /\ pc' = "programPtr"
  /\ UNCHANGED <<ram, op, slot, now, added, view, cleared, stampedInOrder, sound, since,
                 scarred, cuts>>

\* A pointer programmed over another, whose erasure was ignored, leaves neither.
ProgramPtr ==
  /\ pc = "programPtr"
  /\ LET old == ptrs[offset_in_page_ptr_page]
         new == [stamp |-> now, page |-> archive_page_num]
     IN  \/ /\ erasing = Null
            /\ ptrs' = [ptrs EXCEPT ![offset_in_page_ptr_page] =
                          IF old \in {BlankPtr, new} THEN new ELSE TornPtr]
            /\ UNCHANGED <<pages, erasing, missed>>
         \/ Ignored
  /\ offset_in_page_ptr_page' = offset_in_page_ptr_page + 1
  /\ pc' = IF op = "clear" THEN "erasePages" ELSE "fill"
  /\ stampedInOrder' =
       /\ erasing = Null /\ ptrs[offset_in_page_ptr_page] = BlankPtr
       /\ \A i \in PtrCells : ptrs[i].stamp < now
       /\ \A i \in 0 .. offset_in_page_ptr_page - 1 : ValidPtr(ptrs[i])
  /\ UNCHANGED <<arch_buf, last_rec_ptr, archive_page_num, op, slot, now, added, view,
                 cleared, sound, since, scarred, cuts>>

\* The record is built in arch_buf; zd25_flash_write then erases the page first
\* when the place of the record does not read blank.
FillBuffer ==
  /\ pc = "fill"
  /\ arch_buf' = [arch_buf EXCEPT ![slot] = added + 1]
  /\ pc' \in {"program", "erase"}
  /\ erasing = Null => (pc' = "program" <=> pages[archive_page_num][slot] = Blank)
  /\ UNCHANGED <<chip, last_rec_ptr, archive_page_num, offset_in_page_ptr_page, op,
                 slot, now, added, view, history>>

ErasePage ==
  /\ pc = "erase"
  /\ \/ /\ erasing = Null
        /\ pages' = [pages EXCEPT ![archive_page_num] = BlankPage]
        /\ missed' = (missed /\ (archive_page_num # 0 \/ slot # 0))
        /\ UNCHANGED <<ptrs, erasing>>
     \/ Ignored
  /\ pc' = "program"
  /\ UNCHANGED <<ram, op, slot, now, added, view, cleared, stampedInOrder, sound, since,
                 scarred, cuts>>

\* The record is on show, also when the chip has ignored it: the first add after
\* a clear alone can meet the chip still busy.
ProgramRecord ==
  /\ pc = "program"
  /\ \/ /\ erasing = Null
        /\ pages' = [pages EXCEPT ![archive_page_num][slot] = arch_buf[slot]]
        /\ UNCHANGED <<erasing, missed>>
     \/ Finish /\ missed' = TRUE
  /\ last_rec_ptr' = slot
  /\ added' = added + 1
  /\ since' = IF sound THEN 0 ELSE since + 1
  /\ sound' = (sound \/ since' >= Healing)
  /\ view' = Shown(arch_buf, last_rec_ptr')
  /\ pc' = "ready"
  /\ op' = "none"
  /\ UNCHANGED <<ptrs, arch_buf, archive_page_num, offset_in_page_ptr_page, slot, now,
                 cleared, stampedInOrder, scarred, cuts>>

\* clear_archive_page, page after page.  It does not wait for the chip, which
\* ignores a command it gets while it is still erasing: page 0 is erased, the
\* others perhaps.  The last erasure is still under way at the end; until it is
\* done a cut may find the page as it was.
ErasePages ==
  /\ pc = "erasePages"
  /\ \E last \in 0 .. ClearedPages - 1 : \E ps \in SUBSET (0 .. last - 1) :
       /\ last > 0 => 0 \in ps
       /\ pages' = [p \in Pages |-> IF p \in ps THEN BlankPage ELSE pages[p]]
       /\ erasing' = last
       /\ missed' = (missed /\ last = 0)
  /\ cleared' = added
  /\ sound' = TRUE
  /\ since' = 0
  /\ view' = <<>>
  /\ pc' = "ready"
  /\ op' = "none"
  /\ UNCHANGED <<ptrs, ram, slot, now, added, stampedInOrder, scarred, cuts>>

\* open_archive: load the page of the latest pointer, or start from nothing
\* when there is none.
OpenArchive ==
  /\ pc = "off"
  /\ PtrRun > 0
  /\ LET p == ptrs[LatestPtr].page
     IN  /\ archive_page_num' = p
         /\ offset_in_page_ptr_page' = LatestPtr + 1
         /\ arch_buf' = Loaded(p)
         /\ last_rec_ptr' = IF PageRun(p) = 0 THEN Null ELSE PageRun(p) - 1
  /\ view' = Shown(arch_buf', last_rec_ptr')
  /\ pc' = "ready"
  /\ UNCHANGED <<chip, op, slot, now, added, history>>

OpenNoArchive ==
  /\ pc = "off"
  /\ PtrRun = 0
  /\ ClearRam
  /\ UNCHANGED <<chip, slot, now, added, view, history>>

\* Time passes, or somebody sets the clock (set_time_menu.c).
SetTime ==
  /\ pc = "ready"
  /\ now' \in Times \ {now}
  /\ UNCHANGED <<chip, ram, pc, op, slot, added, view, history>>

-----------------------------------------------------------------------------
(* Power cuts. *)

\* What a cut makes of a page or of the pointer sector while it is erased, and
\* of a cell while it is programmed.
HalfErased(cells, old, torn) == {[i \in cells |-> IF i \in k THEN old[i] ELSE torn] :
                                   k \in SUBSET cells}

CutFlash ==
  \/ UNCHANGED flash
  \/ /\ TornWrites
     /\ \/ /\ erasing # Null
           /\ \E torn \in HalfErased(Cells, pages[erasing], Torn) :
                pages' = [pages EXCEPT ![erasing] = torn]
           /\ UNCHANGED ptrs
        \/ /\ pc = "erasePtrs" /\ erasing = Null
           /\ ptrs' \in HalfErased(PtrCells, ptrs, TornPtr)
           /\ UNCHANGED pages
        \/ /\ pc = "programPtr" /\ erasing = Null
           /\ ptrs' = [ptrs EXCEPT ![offset_in_page_ptr_page] = TornPtr]
           /\ UNCHANGED pages
        \/ /\ pc = "erase" /\ erasing = Null
           /\ \E torn \in HalfErased(Cells, pages[archive_page_num], Torn) :
                pages' = [pages EXCEPT ![archive_page_num] = torn]
           /\ UNCHANGED ptrs
        \/ /\ pc = "program" /\ erasing = Null
           /\ pages' = [pages EXCEPT ![archive_page_num][slot] = Torn]
           /\ UNCHANGED ptrs
        \/ /\ pc = "erasePages"
           /\ \E p \in 0 .. ClearedPages - 1 : \E torn \in HalfErased(Cells, pages[p], Torn) :
                pages' = [pages EXCEPT ![p] = torn]
           /\ UNCHANGED ptrs

\* The page before the current one holds nothing older than the last clear in
\* the cells that open_archive would copy.
NoGhosts ==
  \A i \in PageRun(archive_page_num) .. PageRecords - 1 :
    ~(pages[PrevPage(archive_page_num)][i] \in 1 .. cleared)

\* The page on which the newest record is.
Page == IF op = "turn" THEN PrevPage(archive_page_num) ELSE archive_page_num

\* A cut the archive survives: the last pointer was stamped in order, the page of
\* the newest record lacks none of them and is not one that the chip still erases,
\* and the cut is not in the middle of a clear, nor of a page turn that has touched
\* the flash.
Survivable ==
  /\ stampedInOrder
  /\ Page # erasing
  /\ ~(missed /\ Page = 0)
  /\ \/ pc = "ready" /\ NoGhosts
     \/ op = "add" /\ NoGhosts
     \/ op = "turn" /\ pc = "erasePtrs"
     \/ op = "turn" /\ pc = "programPtr" /\ \E i \in PtrCells : ptrs[i] # BlankPtr

PowerCut ==
  /\ pc # "off"
  /\ cuts < MaxCuts
  /\ cuts' = cuts + 1
  /\ CutFlash
  /\ erasing' = Null
  /\ scarred' = (scarred \/ flash' # flash)
  /\ IF sound /\ Survivable /\ ~scarred'
     THEN UNCHANGED <<sound, since>>
     ELSE sound' = FALSE /\ since' = 0
  /\ arch_buf' = BlankPage
  /\ last_rec_ptr' = Null
  /\ archive_page_num' = 0
  /\ offset_in_page_ptr_page' = 0
  /\ pc' = "off"
  /\ op' = "none"
  /\ slot' = 0
  /\ UNCHANGED <<now, added, view, cleared, stampedInOrder, missed>>

Next ==
  \/ StartAdd \/ StartClear
  \/ ErasePtrs \/ ProgramPtr \/ FillBuffer \/ ErasePage \/ ProgramRecord \/ ErasePages
  \/ OpenArchive \/ OpenNoArchive
  \/ SetTime
  \/ ChipReady
  \/ PowerCut

Spec == Init /\ [][Next]_vars

-----------------------------------------------------------------------------
(* Properties. *)

\* The page that is about to be erased to take a record holds none of the
\* records on show: a cut in the middle of the add loses none of them.  Page 0 is
\* excepted while its first record is one that the busy chip ignored after a
\* clear: the next round fills the gap, and then erases it to go on.
EraseSparesShown ==
  pc = "erase" /\ ~scarred /\ ~(missed /\ archive_page_num = 0) =>
    \A i \in Cells, k \in 1 .. Len(view) : pages[archive_page_num][i] # view[k]

\* Once cleared, a record is never on show again; not even when the power is cut,
\* if only the page that a clear erases first holds no such record any more.
ClearedStaysCleared ==
  pc = "ready" /\ (\A i \in Cells : pages[0][i] \notin 1 .. cleared) =>
    \A k \in 1 .. Len(view) : view[k] > cleared

\* The archive implements its abstract log.  A power cut that it survives and
\* the boot after it are stutters; any other cut damages the log.
Log == INSTANCE RecordLog WITH Capacity <- PageRecords, Junk <- {}, log <- view
ImplementsLog == Log!Spec

=============================================================================
